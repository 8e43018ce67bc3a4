SPECIFICATION Spec
CONSTANTS
    NumReplicas = 2
    Key = {0}
    Settings <- GrConflicts
    Interval = 2
    MaxTime = 3
INVARIANTS
    QueueIsServed
