CONSTANTS
    NULL = NULL
    NWorkers = 2
    HotMin = 1
    HotFactor = 1
    Queries <- ScanRegionQueries
SPECIFICATION Spec
INVARIANTS
    AnswerAgrees
CHECK_DEADLOCK FALSE
