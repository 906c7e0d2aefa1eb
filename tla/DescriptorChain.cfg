SPECIFICATION FairSpec
CONSTANTS
    QSize = 3
    TableLen = 2
    None = None
INVARIANTS
    ParserExact
    NeverTooLong
PROPERTY
    Terminates
CHECK_DEADLOCK FALSE
