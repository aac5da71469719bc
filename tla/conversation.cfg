SPECIFICATION FairSpec
CONSTANTS
    Turns = {t1, t2}
    NoTurn = NoTurn
    Professional = {"general", "code"}
    CrossScope = TRUE
    HistoryLimit = 3
    SummaryThreshold = 2
    MaxFaults = 1
CHECK_DEADLOCK FALSE
INVARIANTS
    ScopeIsolation
    RowsUsedOnce
PROPERTIES
    TurnsEnd
