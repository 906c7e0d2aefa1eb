SPECIFICATION Spec
CONSTANTS
    Interval = 3
    Timeout = 9
    MaxDelay = 5
    MaxSeq = 8
INVARIANTS
    NoFalseKill
    HangDetected
CHECK_DEADLOCK FALSE
