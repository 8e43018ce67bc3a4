SPECIFICATION Spec
CONSTANTS
    Client = {0, 1}
    Home <- AtOne
    NumPartitions = 2
    Remote = {"a", "b"}
    LocalKeys = {2}
    RemoteKeys = {0, 1}
    Scripts <- Sessions
    Log <- ChainedAfter
    Heard <- OnlyA
    SingleCore = {TRUE, FALSE}
    LastTick = 2
    MaxTime = 3
INVARIANTS
    GetsSeeOwnPast
    RotxSeesRemotePast
    DependenciesArrived
    PutsFollowTheirDependencies
CHECK_DEADLOCK FALSE
