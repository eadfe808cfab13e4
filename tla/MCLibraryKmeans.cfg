CONSTANTS
    Parts = {"search"}
    Pipelines <- AllPipelines
    Callers = {"a", "b"}
    Width = 2
    Batches = 3
    Raising <- RaisingPairs
    MaxCalls = 2
    MaxDeaths = 1
    MaxShutdowns = 1
    Hashes = {1, 2, 3}
    NULL = 0
    Dumps <- SomeDumps
    Processes = {p, q}
    Overlap = FALSE
    MaxRuns = 3
    Corpora <- SomeCorpora
    Questions <- SomeQuestions
    RrfK = 60
SPECIFICATION Spec
INVARIANT LloydConverges
CHECK_DEADLOCK FALSE
