SPECIFICATION FairSpec
CONSTANTS
    Settings <- AllSettings
    UintMax = 15
INVARIANTS
    TypeOK
    OneThingAtATime
    KeysAreWhereTheyShould
    ReadsInTurn
PROPERTIES
    EveryPartitionIsWritten
