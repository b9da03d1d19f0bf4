SPECIFICATION SigSpec
CONSTANTS
    Servers = {"s1", "s2"}
    KeyIds = {"ed25519:1", "ed25519:", "curve25519:1"}
    Signing = {"ed25519:1"}
    Versions = {2, 8, 9, 11, 12}
    Events <- MCEvents
    Values <- MCValues
    MaxSteps = 4
    MaxAlters = 1
INVARIANTS
    AcceptedWasSigned
    SignedIsAccepted
    RequiredKeysSuffice
PROPERTIES
    SigningCompletes
    EventIdStable
    SigningOnlyAdds
CHECK_DEADLOCK FALSE
