SPECIFICATION SpecTurns
CONSTANTS
    Slugs = {1, 2}
    KindOrder <- SortedKinds
    Typed <- TypedKinds
    BUDGET = 6
    DISCOVERY = 10
    SLOW = 1
    HEALTH = 10
    MaxClock = 25
    None = None
INVARIANTS
    TypeOK
    RowsOfKnownEndpoints
    HoldersTakeTurns
PROPERTIES
    RoundsCoverKinds
CHECK_DEADLOCK FALSE
