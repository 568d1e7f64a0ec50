SPECIFICATION MCSpec
CONSTANTS
    Process = {p1}
    Agent = {a1}
    Task = {t1}
    Column = {"doing", "next", "error"}
    Closed = {"error"}
    ErrorColumn = "error"
    Run = {r1, r2}
    NoAgent = NoAgent
    NoRun = NoRun
    NoColumn = NoColumn
    Lag = TRUE
    MaxStarts = 1
    MaxEvents = 1
SYMMETRY Symmetry
PROPERTY StoppedOnRequest
CHECK_DEADLOCK FALSE
