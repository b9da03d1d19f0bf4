SPECIFICATION RoomSpec
CONSTANTS
    User = {"@alice", "@bob", "@carol"}
    server_name <- MCServers
    NoKey = NoKey
    None = None
    Versions = {3, 4, 5, 6, 11}
    Creator = "@alice"
    PowerContents <- MCPower
    Rules <- MCRules
    Tokens <- MCTokens
    StateTypes <- MCStateTypes
INVARIANTS
    StateAlwaysReadable
    JoinedWereAdmitted
    OfferedActionsAccepted
PROPERTIES
    TopUserUnassailable
    BanSticks
    PowerNeverRises
    InvitesBacked
    ChangesHaveNames
CHECK_DEADLOCK FALSE
