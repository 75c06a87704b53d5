SPECIFICATION Spec
CONSTANTS
    a = a
    b = b
    NoSel = NoSel
    Selections = {a, b}
    ForkedLogs <- MCForkedLogs
    FollowsCatalog = TRUE
    MaxLog = 6
    MaxFaults = 2
    MaxRestarts = 1
SYMMETRY MCExchange
INVARIANTS
    TypeOK
    JournalReplayable
    AckSurvives
    SwitchesOnlyAtStops
    ReadyTokenCoversAck
PROPERTIES
    ImplementsRegister
CHECK_DEADLOCK FALSE
