SPECIFICATION FairScheduler
CONSTANTS
    MaxChanges = 4
    MaxUpdates = 3
INVARIANTS
    SchedulerType
    RestServesNewest
PROPERTIES
    DisposedPublishesNothing
    CatchesUp
CHECK_DEADLOCK FALSE
