SPECIFICATION MCSpec
CONSTANTS
    File = {f1, f2}
    Content = {c1, c2}
    Absent = absent
    Op = {o1, o2}
    NoOp = none
    MaxEdits = 2
    MaxFaults = 1
SYMMETRY Symmetry
INVARIANT TypeOK MatchedIsRead SyncedAgrees CacheIsSaved VectorsFollow
CHECK_DEADLOCK FALSE
