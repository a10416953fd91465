SPECIFICATION Spec
CONSTANTS
    Stores <- TheStores
    Branches = {"default", "side"}
    ViewSize = 3
    RefSize = 4
    DamagedSize = 3
INVARIANTS
    TypeOK
    ViewIsExact
    SecretStaysOut
    ClosedByConstruction
    ExclusionsPartition
    ParentsKept
    TipIsMercurials
CHECK_DEADLOCK FALSE
