SPECIFICATION CreateSpec
CONSTANTS
    Procs = {p1, p2}
    UIDS_PER_TICK = 2
    Resolution = 3
    BootTime = 1
    MaxJump = 1
    MaxClock = 3
    MaxStepBacks = 0
    LowBits = 2
    MidBits = 2
    HiBits = 2
    MagicBit = 1
    KeyStream <- MCKeyStream
    NoTag = NoTag
    NotImplemented = NotImplemented
    Invalid = Invalid
    Bits <- MCBits
    RandomValues <- NoRandom
    MemSeeds <- OneSeed
    Revs <- BothRevs
    Flags <- OneFlag
    Subcs <- OneSubc
    Tags <- NoTags
    NoRequest = NoRequest
INVARIANTS GloballyUnique
