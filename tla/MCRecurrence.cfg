SPECIFICATION MCSpec
CONSTANTS
    Process = {p1, p2}
    Handler = {h1}
    Run = {1, 2, 3, 4}
    Keep = 1
    MaxClock = 2
    MaxRequests = 2
    MaxEvents = 2
SYMMETRY Symmetry
INVARIANT TypeOK CycleFiresOnce FlagIsATick
PROPERTY SkipNeverOverlaps StaysDeleted PurgeKeepsNewest
CHECK_DEADLOCK FALSE
