SPECIFICATION FairSpec
CONSTANTS
    QSize = 2
    Mod = 8
INVARIANTS
    NoLostInterrupt
PROPERTIES
    ImplementsContract
    EveryChainReturns
