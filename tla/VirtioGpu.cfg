SPECIFICATION FairSpec
CONSTANTS
    Chain = {c1, c2}
    ResourceId = {1}
    MaxFence = 3
INVARIANTS
    ShownExists
    FenceHonest
    FramesAnswered
PROPERTIES
    EveryCommandReturns
