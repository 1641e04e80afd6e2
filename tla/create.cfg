\* Two processes on a platform whose tick holds the quota; the clock may be set
\* back once.
SPECIFICATION CreateSpec
CONSTANTS
    Procs = {p1, p2}
    UIDS_PER_TICK = 1
    Resolution = 3
    BootTime = 1
    MaxJump = 1
    MaxClock = 2
    MaxStepBacks = 1
    LowBits = 2
    MidBits = 1
    HiBits = 2
    MagicBit = 1
    KeyStream <- MCKeyStream
    NoTag = NoTag
    NotImplemented = NotImplemented
    Invalid = Invalid
    Bits <- MCBits
    RandomValues <- NoRandom
    MemSeeds <- OneSeed
    Revs <- BothRevs
    Flags <- OneFlag
    Subcs <- OneSubc
    Tags <- NoTags
    NoRequest = NoRequest
SYMMETRY ProcSymmetry
INVARIANTS ProcessIdsDiffer SameIdSameOrigin
