SPECIFICATION Spec
CONSTANTS
    c1 = c1
    c2 = c2
    c3 = c3
    p1 = p1
    p2 = p2
    k1 = k1
    k2 = k2
    CINs = {c1, c2, c3}
    Paths = {p1}
    Keys = {k1, k2}
    PathOf <- OnePath
    KeyOf <- RetryKeys
    Control = {}
    Malformed = {c2}
    NoCIN = NoCIN
    NoPath = NoPath
    NormalMax = 1
    ControlMax = 1
    DrainBudget = 1
    Redelivery = FALSE
    Periodic = TRUE
    KnownPaths = FALSE
    Retention = 1
    MaxClock = 2
    MaxCrashes = 1
    MaxStops = 0
INVARIANT AtMostOnce
PROPERTIES LedgerSpec ReplaysAfterRetention
