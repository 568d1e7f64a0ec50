SPECIFICATION MCSpec
CONSTANTS
    Process = {p1, p2}
    Agent = {a1}
    Task = {t1, t2}
    Column = {"doing", "error"}
    Closed = {"error"}
    ErrorColumn = "error"
    Run = {r1, r2}
    NoAgent = NoAgent
    NoRun = NoRun
    NoColumn = NoColumn
    Lag = TRUE
    MaxStarts = 3
    MaxEvents = 1
SYMMETRY Symmetry
INVARIANT TypeOK ClaimExclusive ReservationExclusive
PROPERTY LeaseSpec
CHECK_DEADLOCK FALSE
