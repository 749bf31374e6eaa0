CONSTANTS
    c1 = c1  c2 = c2  c3 = c3  p1 = p1  p2 = p2  k1 = k1  k2 = k2
    NoCIN = NoCIN  NoPath = NoPath
    CINs = {c1, c2}
    Paths = {p1}
    Keys = {k1, k2}
    PathOf <- OnePath
    KeyOf <- RetryKeys
    Control = {}
    Malformed = {}
    NormalMax = 1
    ControlMax = 1
    DrainBudget = 1
    Redelivery = FALSE
    Periodic = TRUE
    KnownPaths = TRUE
    Retention = 9
    MaxClock = 3
    MaxCrashes = 0
    MaxStops = 0
SPECIFICATION FairSpec
PROPERTY EveryRequestServed
