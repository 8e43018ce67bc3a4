SPECIFICATION Spec
CONSTANTS
    Settings <- RotxPutSettings
    UintMax = 15
INVARIANTS
    PutsPerLoop
