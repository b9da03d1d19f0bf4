SPECIFICATION PersistentSpec
CONSTANTS
    Versions <- MCVersions
    Initial <- MCInitial
    Goal <- Version_1_1
    Manifests <- MCManifests
    Notes = {"n1"}
    MaxTrouble = 5
INVARIANTS
    ReleasesAreSound
PROPERTIES
    Completes
CHECK_DEADLOCK FALSE
