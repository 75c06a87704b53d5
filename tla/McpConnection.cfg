SPECIFICATION FairSpec
CONSTANTS
    PolicyAttempts = 2
    MaxStable = 1
    MaxLegs = 1
    MaxLists = 1
    MaxConflicts = 1
INVARIANTS
    OneServer
    BudgetRespected
    PhaseTruthful
    NoListChangeLost
    EndedHoldsNothing
PROPERTIES
    EverythingEnds
CHECK_DEADLOCK FALSE
