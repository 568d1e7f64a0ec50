SPECIFICATION MCSpec
CONSTANTS
    Agent = {a1, a2}
    Replica = {r1, r2}
    None = none
    MaxAttempts = 2
    MaxToken = 2
    MaxRequests = 2
    MaxFaults = 1
SYMMETRY Symmetry
CONSTRAINT NoLapse
INVARIANT TypeOK NewestIsMirrored CachesSettle
CHECK_DEADLOCK FALSE
