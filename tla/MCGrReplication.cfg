SPECIFICATION FairProtocolSpec
CONSTANTS
    NumReplicas = 2
    Key = {0, 1}
    Settings <- AllSettings
    Interval = 2
    MaxTime = 3
INVARIANTS
    TypeOK
    VersionVectorCovers
    ChainsSorted
    DequeuesWhatItApplied
    QueuesAreServed
    Convergence
PROPERTIES
    VersionVectorMonotonic
    UpdatesAreProcessed
