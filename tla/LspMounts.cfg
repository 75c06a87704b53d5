SPECIFICATION Spec
CONSTANTS
    suite = suite
    table = table
    ts = ts
    Keys = {suite, table}
    Direct = {table}
    Extensions = {ts}
    ExtensionOf <- MCExtensionOf
    Rank <- MCRank
    MaxAttempts = 1
    MaxVersions = 2
    MaxChanges = 3
    MaxFaults = 2
    MaxRestarts = 1
    MaxDisposals = 1
INVARIANTS
    SeamOutlivesProviders
    NoneForgotten
CHECK_DEADLOCK FALSE
