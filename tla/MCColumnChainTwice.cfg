SPECIFICATION MCSpec
CONSTANTS
    Process = {p1, p2}
    Fiber = {f1, f2}
    Column <- Columns
    Active = {"doing", "review"}
    DoneColumn = "done"
    ErrorColumn = "error"
    FirstColumn = "backlog"
    Workflow <- Board
    NoColumn = NoColumn
    NoFiber = NoFiber
    Orphan = Orphan
    MaxEvents = 1
    MaxMoves = 1
    MaxCrashes = 0
    Return = TRUE
SYMMETRY Symmetry
INVARIANT NeverTwoChains
CHECK_DEADLOCK FALSE
