SPECIFICATION FairClientSpec
CONSTANTS
    NCalls = 2
    Users = {"u1", "u2"}
    Registered = {"u1"}
    endpoint <- MCEndpoint
    Others <- MCOthers
    Ranges <- MCRanges
    Told <- MCTold
    KnownMax = 4
    Watched = {"u1"}
    MaxEvents = 2
    MaxCalls = 2
    MaxFaults = 1
INVARIANTS
    TokensFollowLogins
    PathsServed
    EachEventOnce
PROPERTIES
    HearsEverything
CHECK_DEADLOCK FALSE
