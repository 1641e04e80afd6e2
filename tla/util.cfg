\* The command line tool: options, checks, creation, output files, interrupts.
SPECIFICATION Spec
CONSTANTS
    maker = maker
    other = other
    log = log
    dir = dir
    old = old
    abc = abc
    long = long
    Absent = Absent
    Directory = Directory
    NoFile = NoFile
    NoTag = NoTag
    Widths <- MCWidths
    Procs = {maker, other}
    CommandLines <- MCCommandLines
    Fields <- MCFields
    Reading <- MCReading
    UserTexts <- MCUserTexts
    Tags = {abc}
    LongTags = {long}
    Tails = {""}
    ULL = 4
    CHAR = 256
    MaxDelay = 2147483
    WIN32 = FALSE
    BufSize = 3
    Names = {log, dir, old}
    InitialFiles <- MCInitialFiles
    MaxFaults = 1
    MaxSignals = 2
INVARIANTS
    TypeOK
    LinesMatchOptions
    AccountsFor
    InterruptStops
    NeverMisread
    ReportsWhatWasAsked
    OldFilesStay
    FileKeepsLines
PROPERTIES
    Ends
CHECK_DEADLOCK FALSE
