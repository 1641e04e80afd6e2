\* One structure and one text, every kind of argument, assertions compiled in:
\* the program may end with one of them.
SPECIFICATION Spec
CONSTANTS
    Slots = {s1}
    LowBits = 2
    MidBits = 2
    HiBits = 3
    MagicBit = 1
    KeyStream <- MCKeyStream
    NoTag = NoTag
    NotImplemented = NotImplemented
    Invalid = Invalid
    NoOrigin = NoOrigin
    NDEBUG = FALSE
    Stamps <- MCStamps
    ClockSeqs <- MCClockSeqs
    MemSeeds <- MCMemSeeds
    Flags <- MCFlags
    Subcs <- MCSubcs
    Tags <- MCTags
    UserTexts <- MCUserTexts
INVARIANTS TypeOK OriginReadsBack EqualMeansSameOrigin RejectedOnlyForZeroTime
CHECK_DEADLOCK FALSE
