SPECIFICATION Spec
CONSTANTS
    s1 = s1
    s2 = s2
    c1 = c1
    c2 = c2
    c3 = c3
    x = x
    d = d
    NoCall = NoCall
    Owners = {s1, s2}
    Leavers = {s1, s2}
    Ids = {x}
    Direct = {}
    Calls = {c1, c2}
    OwnerOf <- MCOwnerOfTwo
    Catalogs <- MCOneCatalog
    Selections <- MCOneSelection
    MaxChanges = 1
    MaxToggles = 1
    MaxFaults = 0
INVARIANTS
    DemandOutranksToggle
CHECK_DEADLOCK FALSE
