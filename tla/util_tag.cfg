\* A REV7 line with a tag is checked; a byte other than zero may stand behind
\* the buffer of quid_tag.
SPECIFICATION Spec
CONSTANTS
    maker = maker
    other = other
    log = log
    dir = dir
    old = old
    abc = abc
    long = long
    Absent = Absent
    Directory = Directory
    NoFile = NoFile
    NoTag = NoTag
    Widths <- MCWidths
    Procs = {maker, other}
    CommandLines <- TaggedLine
    Fields <- MCFields
    Reading <- MCReading
    UserTexts <- MCUserTexts
    Tags = {abc}
    LongTags = {long}
    Tails = {"", "x"}
    ULL = 4
    CHAR = 256
    MaxDelay = 2147483
    WIN32 = FALSE
    BufSize = 3
    Names = {log, dir, old}
    InitialFiles <- MCInitialFiles
    MaxFaults = 1
    MaxSignals = 2
INVARIANTS ReportsWhatWasAsked
CHECK_DEADLOCK FALSE
