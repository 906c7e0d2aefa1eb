SPECIFICATION InputFairSpec
CONSTANTS
    Key = {k1, k2}
    MaxPending = 4
    QSize = 2
INVARIANTS
    NoStuckKey
PROPERTY
    KeysComeUp
