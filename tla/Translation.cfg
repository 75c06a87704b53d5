SPECIFICATION FairSpec
CONSTANTS
    p = p
    first = first
    second = second
    copy = copy
    copied = copied
    whole = whole
    opening = opening
    closing = closing
    None = None
    Plain = {first, second, copied}
    Paragraphs = {p, copy}
    PartsOf <- MCPartsOf
    Texts = {whole, opening, closing}
    TextOf <- MCTextOf
    Hops = 2
    MaxBatch = 2
    MaxConcurrent = 1
    MaxAttempts = 1
    MaxWrites = 1
    MaxFaults = 2
    MaxInputs = 2
INVARIANTS
    QueueSound
    CacheSound
PROPERTIES
    NoneWaitsForever
CHECK_DEADLOCK FALSE
