\* Windows: the quota (1 for 1024) fits between two readings (2 for 10000);
\* the clock jumps ahead and is set back once.
SPECIFICATION FairSpec
CONSTANTS
    Procs = {p1, p2}
    UIDS_PER_TICK = 1
    Resolution = 2
    BootTime = 1
    MaxJump = 2
    MaxClock = 3
    MaxStepBacks = 1
INVARIANTS TypeOK StampsIncrease SuccessiveStampsDiffer TickQuotaAndOne
PROPERTIES ImplementsSource CallReturns
