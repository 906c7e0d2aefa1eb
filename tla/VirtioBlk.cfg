SPECIFICATION BlkFairSpec
CONSTANTS
    Chain = {c1, c2}
    Request = {"IN", "OUT", "FLUSH", "GET_ID", "OTHER", "UNALIGNED", "NO_STATUS",
               "THROWS", "THROWS_LATE", "BAD_STATUS"}
    ReadOnly = TRUE
INVARIANTS
    HonestStatus
PROPERTIES
    ImplementsContract
    EveryRequestReturns
