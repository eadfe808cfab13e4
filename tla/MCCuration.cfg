CONSTANTS
    NULL = NULL
    Capital = 10
    HashFns <- MinHashFns
    Prime = 5
    Bands = 2
    Threshold = 3
    MaxAngle = 1
    MaxBits = 1
    Span = 2
    MinDocs = 2
    Benchmark <- Examples
    Buckets = 2
    HotCap = 2
    HotReps = 1
    Cases <- AllCases
    MaxRuns = 2
SPECIFICATION FlowSpec
INVARIANTS
    DistributedAgrees
    SurvivorsApart
    FunnelAddsUp
PROPERTY
    SecondPassIsIdle
CHECK_DEADLOCK FALSE
