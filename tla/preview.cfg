SPECIFICATION SpecRuns
CONSTANTS
    Slugs = {a, b}
    Terminals = {t1, t2}
    MAX_PREVIEWS = 1
    None = None
    MaxRuns = 3
    MaxTrouble = 1
SYMMETRY Symmetric
INVARIANTS
    TypeOK
PROPERTIES
    UpMeansServing
    CollectedMeansGone
    CapHoldsInTurns
CHECK_DEADLOCK FALSE
