SPECIFICATION Spec
CONSTANTS
    Sources = {s1}
    s1 = s1
    Readers = {r1}
    r1 = r1
    NoSource = NoSource
    Kinds = {"install", "entry", "add", "update", "remove", "delete", "refresh"}
    MaxAddresses = 2
    MaxMutations = 2
    MaxFailures = 1
    MaxRestarts = 1
    MaxRefreshes = 1
INVARIANTS
    AckDurable
    NobodyWaitsInVain
    CachesCurrent
    RuntimeCurrent
PROPERTY
    ReadSeesAcked
CHECK_DEADLOCK FALSE
