CONSTANTS
    Threads = {1, 2}
    RowCounts = {1, 2}
    MaxQueries = 2
    ResetInFlight = FALSE
    Together = FALSE
    MaxStarted = 3
    MaxStages = 1
    MaxToggles = 1
    MaxPollers = 2
SPECIFICATION Spec
INVARIANTS
    OutcomesRecorded
    LiveQueriesKept
PROPERTY
    PollersStop
CHECK_DEADLOCK FALSE
