SPECIFICATION Spec
CONSTANTS
    s1 = s1
    s2 = s2
    c1 = c1
    c2 = c2
    c3 = c3
    x = x
    d = d
    NoCall = NoCall
    Owners = {s1, s2}
    Leavers = {s1, s2}
    Ids = {x, d}
    Direct = {d}
    Calls = {c1, c2, c3}
    OwnerOf <- MCOwnerOf
    Catalogs <- MCOfferOrNot
    Selections <- MCReselections
    MaxChanges = 1
    MaxToggles = 1
    MaxFaults = 1
INVARIANTS
    ReceiptBacked
    RestServes
    RestFrees
    NobodyStranded
PROPERTIES
    OthersKeepTheirs
CHECK_DEADLOCK FALSE
