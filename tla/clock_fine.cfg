SPECIFICATION Spec
CONSTANTS
    Procs = {p1}
    UIDS_PER_TICK = 3
    Resolution = 2
    BootTime = 1
    MaxJump = 1
    MaxClock = 3
    MaxStepBacks = 0
INVARIANTS StampsUnique
