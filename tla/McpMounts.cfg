SPECIFICATION FairMounts
CONSTANTS
    a = a
    b = b
    n = n
    NoKey = NoKey
    Keys = {a, b}
    Names = {n}
    NameOf <- MCNameOf
    Rank <- MCRank
    MaxAttempts = 1
    MaxVersions = 2
    MaxChanges = 3
    MaxFaults = 2
    MaxForces = 1
    MaxDisposals = 1
INVARIANTS
    NoneForgotten
PROPERTIES
    Recovers
CHECK_DEADLOCK FALSE
