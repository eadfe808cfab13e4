CONSTANTS
    Strategies <- MCStrategies
    Sources <- MCSources
    Replicated <- MCReplicated
    NumPartitions = 2
    MaxSplits = 2
    MinTarget = 3
    MaxTarget = 4
    GrowthPeriod = 2
    GrowthNum = 5
    GrowthDen = 2
    Sizes = {1, 2, 5}
    MaxBatch = 2
    MaxFed = 2
SPECIFICATION Spec
INVARIANTS
    EachSplitInOneTask
    BroadcastReachesAll
    PackedWithinBounds
    SealedInTheEnd
PROPERTIES
    SealsFollowTheEnds
CHECK_DEADLOCK FALSE
