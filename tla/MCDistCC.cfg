CONSTANTS
    Vertices <- MCVertices
    Elements <- MCVertices
    NumShards = 2
    MaxRounds = 3
    EdgeSets <- MCEdgeSets
SPECIFICATION FairSpec
INVARIANTS
    LabelsSound
    ConvergedIsComponentMin
    RoundsSuffice
    SurvivorsAgree
PROPERTIES
    Terminates
CHECK_DEADLOCK FALSE
