SPECIFICATION MCFairSpec
CONSTANTS
    Process = {p1}
    Fiber = {f1, f2}
    Column <- Columns
    Active = {"doing", "review"}
    DoneColumn = "done"
    ErrorColumn = "error"
    FirstColumn = "backlog"
    Workflow <- Board
    NoColumn = NoColumn
    NoFiber = NoFiber
    Orphan = Orphan
    MaxEvents = 2
    MaxMoves = 0
    MaxCrashes = 0
    Return = FALSE
PROPERTY EntryHandled ArmedIsRetried
CHECK_DEADLOCK FALSE
