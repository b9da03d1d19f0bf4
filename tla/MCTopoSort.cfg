SPECIFICATION FairSpec
CONSTANTS
    Id = {1, 2, 3}
    Level = {0, 50}
    Age = {7, 8}
    NotFound = NotFound
    None = None
INVARIANTS
    GreedyOrder
    NoPanicNoLoss
    ErrorJustified
PROPERTIES
    ImplementsOrder
    Termination
CHECK_DEADLOCK FALSE
