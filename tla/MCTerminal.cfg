SPECIFICATION MCSpec
CONSTANTS
    Session = {s1, s2}
    Handler = {h1, h2, h3}
    Project = {p1, p2}
    Config = {c1}
    NoSession = NoSession
    NoHandler = NoHandler
    NoProject = NoProject
    NoConfig = NoConfig
    MaxRequests = 2
    MaxEvents = 2
    MaxFaults = 2
SYMMETRY Symmetry
INVARIANT TypeOK IdleIsTimed CredentialsWatched
PROPERTY RightProject
CHECK_DEADLOCK FALSE
