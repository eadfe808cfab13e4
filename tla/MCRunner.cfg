CONSTANTS
    NWorkers = 2
    NTasks = 3
    Backlogs = {0, 2}
    MaxQueryRetries = 1
    MaxRestarts = 1
    GpusPerWorker = 0
    ClusterGpus = 0
    Kinds <- RetriedAndWrites
    MaxOps = 2
    MaxCrashes = 3
SPECIFICATION FairSpec
INVARIANTS
    ReadSurvivesCrashes
    AnswerIsComplete
    WriteTasksRunOnce
    WritesAreAtomic
PROPERTIES
    EveryOperationEnds
CHECK_DEADLOCK FALSE
