SPECIFICATION MountsSpec
CONSTANTS
    a = a
    b = b
    n = n
    NoKey = NoKey
    Keys = {a, b}
    Names = {n}
    NameOf <- MCNameOf
    Rank <- MCRank
    MaxAttempts = 1
    MaxVersions = 2
    MaxChanges = 2
    MaxFaults = 2
    MaxForces = 0
    MaxDisposals = 0
INVARIANTS
    RetryResurrectsNothing
CHECK_DEADLOCK FALSE
