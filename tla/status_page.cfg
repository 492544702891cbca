SPECIFICATION DocumentsSpec
CONSTANTS
    csv = csv
    mcp = mcp
    SURFACES = {csv, mcp}
    AUTO_OPEN_MINUTES = 2
    AUTO_CLOSE_MINUTES = 2
    DAYS = 2
    DayMinutes = 2
    NoIncident = NoIncident
    Damaged = Damaged
    Forever = 1000
    Notes = {}
    MaxMinute = 7
    LastMinute = 5
INVARIANTS
    TypeOK
    IncidentsDisjoint
    RunsMatchIncident
    PageIsDurable
    HistoryTypeOK
    NoMinuteCountedTwice
PROPERTIES
    ClosesAfterRecovery
    ImplementsLedger
    StoredMinutesNeverShrink
CHECK_DEADLOCK FALSE
