\* One process crashes once while it creates the file.
SPECIFICATION FairSpec
CONSTANTS
    Procs = {p1}
    Seeds = {s1, s2}
    INT_MAX = 3
    MEM_SEED_CYCLE = 1
    Cycles = {}
    Permissions = {{}}
    MayFail = FALSE
    MaxFaults = 1
    Absent = Absent
    Empty = Empty
    Zero = Zero
    NoNode = NoNode
PROPERTIES SomeCallReturns
