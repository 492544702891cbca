SPECIFICATION SpecRuns
CONSTANTS
    Slugs = {a, b}
    Terminals = {t1}
    MAX_PREVIEWS = 2
    None = None
    MaxRuns = 2
    MaxTrouble = 1
PROPERTIES
    GcSparesTheLive
CHECK_DEADLOCK FALSE
