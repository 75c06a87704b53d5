SPECIFICATION FairSpec
CONSTANTS
    t1 = t1
    t2 = t2
    Tasks <- MCTasks
    a = a
    b = b
    c = c
    Ids <- MCIds
    Offer <- MCOffer
    Preset <- MCPreset
    MaxChanges = 2
    MaxEvents = 3
INVARIANTS
    RevocationHolds
    NobodyAbandoned
PROPERTIES
    Heals
CHECK_DEADLOCK FALSE
