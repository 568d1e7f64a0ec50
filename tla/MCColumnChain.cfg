SPECIFICATION MCSpec
CONSTANTS
    Process = {p1}
    Fiber = {f1, f2}
    Column <- Columns
    Active = {"doing", "review"}
    DoneColumn = "done"
    ErrorColumn = "error"
    FirstColumn = "backlog"
    Workflow <- Board
    NoColumn = NoColumn
    NoFiber = NoFiber
    Orphan = Orphan
    MaxEvents = 3
    MaxMoves = 2
    MaxCrashes = 1
    Return = TRUE
SYMMETRY Symmetry
INVARIANT TypeOK ChainExclusive MarkersFit NothingLeftOut
PROPERTY NothingSkipped NothingRepeated
CHECK_DEADLOCK FALSE
