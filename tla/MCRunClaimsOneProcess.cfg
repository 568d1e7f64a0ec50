SPECIFICATION MCSpec
CONSTANTS
    Process = {p1}
    Agent = {a1, a2}
    Task = {t1, t2}
    Column = {"doing", "error"}
    Closed = {"error"}
    ErrorColumn = "error"
    Run = {r1, r2}
    NoAgent = NoAgent
    NoRun = NoRun
    NoColumn = NoColumn
    Lag = TRUE
    MaxStarts = 2
    MaxEvents = 2
SYMMETRY Symmetry
INVARIANT NeverTwoTasksAtOnce LossIsNotForgotten
PROPERTY ReleasesOwnClaim
CHECK_DEADLOCK FALSE
