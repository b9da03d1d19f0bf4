SPECIFICATION PushSpec
CONSTANTS
    UserRule = {"u1", "u2", "u3"}
    InvalidRule = {"a/b"}
    DotRule = {".master", ".acl", ".notice", ".message"}
    Master = ".master"
    Actions = {"quiet"}
    Defaults <- MCDefaults
    UserKinds = {"override"}
    Events = {"first", "second"}
    matches <- MCMatches
INVARIANT
    InsertNeverPanics
CHECK_DEADLOCK FALSE
