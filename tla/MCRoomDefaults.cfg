SPECIFICATION RoomSpec
CONSTANTS
    User = {"@alice", "@bob", "@carol"}
    server_name <- MCServers
    NoKey = NoKey
    None = None
    Versions = {10}
    Creator = "@alice"
    PowerContents <- MCDefaultPower
    Rules <- MCNone
    Tokens <- MCNone
    StateTypes <- MCNone
PROPERTIES
    PowerNeverRises
CHECK_DEADLOCK FALSE
