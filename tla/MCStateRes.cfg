SPECIFICATION ResFairSpec
CONSTANTS
    User = {"@alice", "@bob", "@carol"}
    server_name <- MCServers
    NoKey = NoKey
    None = None
    Id <- MCId
    Level <- MCLevel
    Age <- MCAge
    NotFound = NotFound
    event <- MCEvent
    Scenarios <- MCScenarios
    Late = {3, 6, 8, 9}
INVARIANTS
    ResolvesToReference
    UnconflictedKept
    BannedSenderLoses
    DroppedOnlyIfLost
    FailsOnlyIfLost
PROPERTIES
    Resolves
CHECK_DEADLOCK FALSE
