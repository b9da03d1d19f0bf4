SPECIFICATION PersistentSpec
CONSTANTS
    Versions <- MCVersions
    Initial <- MCInitial
    Goal <- Version_1_1
    Manifests <- MCManifests
    Notes = {"n1"}
    MaxTrouble = 1
PROPERTY
    RetryCompletes
CHECK_DEADLOCK FALSE
