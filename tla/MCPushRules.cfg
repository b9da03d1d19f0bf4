SPECIFICATION PushSpec
CONSTANTS
    UserRule = {"u1", "u2"}
    InvalidRule = {"a/b"}
    DotRule = {".master", ".acl", ".notice", ".message"}
    Master = ".master"
    Actions = {"quiet"}
    Defaults <- MCDefaults
    UserKinds = {"override", "sender"}
    Events = {"first", "second"}
    matches <- MCMatches
INVARIANTS
    MasterFirst
    OthersKept
    RulePlaced
    MasterSilences
PROPERTIES
    OnlySetEnabledSwitches
CHECK_DEADLOCK FALSE
