SPECIFICATION Spec
CONSTANTS
    Client = {0, 1}
    Home <- AllAtThree
    NumPartitions = 4
    LocalKeys = {4, 7}
    RemoteKeys = {0, 3}
    Scripts <- Sessions
    RemoteLogs <- RootFirst
    SingleCore = {TRUE, FALSE}
    MaxTime = 2
INVARIANTS
    TypeOK
    GetsSeeOwnPast
    RotxIsCausal
    SnapshotIsStable
    PutsFollowTheirDependencies
CHECK_DEADLOCK FALSE
