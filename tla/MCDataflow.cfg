CONSTANTS
    NULL = NULL
    NWorkers = 2
    HotMin = 1
    HotFactor = 1
    Queries <- PassQueries
SPECIFICATION Spec
INVARIANTS
    AnswerAgrees
    SomeActorCanRun
    ScanIsBalanced
CHECK_DEADLOCK FALSE
