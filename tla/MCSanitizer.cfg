SPECIFICATION Spec
CONSTANTS
    MaxNodes = 4
    MaxPasses = 2
    Configs <- MCConfigs
    Tags <- MCTags
    Efforts <- MCEfforts
    AttrOrder <- MCAttrOrder
    WildMatch <- MCWildMatch
INVARIANTS
    TreeConsistent
    ResultAsSpecified
    CleaningIsIdempotent
CHECK_DEADLOCK FALSE
