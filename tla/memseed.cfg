\* Two processes start in a directory that has no seed file yet; twice, one of them
\* crashes or a call on the file fails; one of them may not open it at all.
SPECIFICATION FairSpec
CONSTANTS
    Procs = {p1, p2}
    Seeds = {s1, s2}
    INT_MAX = 3
    MEM_SEED_CYCLE = 1
    Cycles <- SomeCycles
    Permissions <- NobodyOrOne
    MayFail = TRUE
    MaxFaults = 2
    Absent = Absent
    Empty = Empty
    Zero = Zero
    NoNode = NoNode
INVARIANTS TypeOK ReturnsSeed EmptyMeansWriting ReturnsFile
PROPERTIES SeedsConverge SettledStays
