SPECIFICATION FairDelivery
CONSTANTS
    blk = blk
    net = net
    Device <- MCDevice
    Line <- MCLine
    LineOf <- MCLineOf
    IsrBit = {QUEUE}
    HostLine <- MCHostLine
    MaxLatch = 2
INVARIANTS
    LineLevel
    HoldersExact
    HoldersPending
    NeverDropped
PROPERTIES
    LevelsDelivered
    InterruptServed
