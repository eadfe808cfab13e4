CONSTANTS
    Actors <- MCActors
    Rows <- MCRows
    Columns <- MCColumns
    Driver = driver
    a1 = a1
    r1 = r1
    r2 = r2
    vec = vec
    img = img
    HasSegmentApi = TRUE
    MaxVersions = 3
    MaxEpoch = 2
SPECIFICATION Spec
INVARIANTS
    DriverSeesWrites
    RerankAgrees
    ShardSeesWrites
