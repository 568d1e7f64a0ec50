SPECIFICATION MCFairSpec
CONSTANTS
    Process = {p1, p2}
    Agent = {a1}
    Task = {t1}
    Column = {"doing", "error"}
    Closed = {"error"}
    ErrorColumn = "error"
    Run = {r1, r2}
    NoAgent = NoAgent
    NoRun = NoRun
    NoColumn = NoColumn
    Lag = TRUE
    MaxStarts = 2
    MaxEvents = 1
PROPERTY LostRunEnds OrphanClaimHealed
CHECK_DEADLOCK FALSE
