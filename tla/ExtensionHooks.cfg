SPECIFICATION FairSpec
CONSTANTS
    None = None
    Declares <- MCDeclares
    Selections <- MCSelections
    Cap = 1
    MaxReconciles = 2
    MaxPrompts = 1
    MaxCalls = 1
    MaxInputs = 2
INVARIANTS
    FailureSplit
    SessionEndRuns
PROPERTIES
    OnlyTheSelected
    EverythingEnds
CHECK_DEADLOCK FALSE
