\* The option parser on all command lines of three arguments, and on all of seven
\* words and simple options.
SPECIFICATION Spec
CONSTANTS
    NoLong = NoLong
    Table <- MCTable
    Letters = {"q", "x", "i", "v", "V", "h"}
    ArgLetters = {"c", "d", "o"}
    Lines <- MCLines
INVARIANTS
    TypeOK
    BlocksInOrder
    OrderIsKept
    LongOptionsFit
PROPERTIES
    ImplementsStream
    Terminates
CHECK_DEADLOCK FALSE
