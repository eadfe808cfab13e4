CONSTANTS
    c1 = c1
    c2 = c2
    Calls <- MCCalls
    NTasks = 3
    Dims <- MCDims
    Slack <- MCSlack
    Capacities <- MCCapacities
    InflightCaps <- MCInflightCaps
    Demands <- MCDemands
SPECIFICATION FairSpec
INVARIANTS
    LoopInvariant
    LeaseAccounting
    AdmittedWithinCapacity
    OversizedRunsAlone
    AdmitCountAgrees
PROPERTIES
    EveryCallEnds
    ImplementsTaskDispatch
CHECK_DEADLOCK FALSE
