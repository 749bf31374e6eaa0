SPECIFICATION Spec
CONSTANTS
    c1 = c1
    c2 = c2
    c3 = c3
    p1 = p1
    p2 = p2
    k1 = k1
    k2 = k2
    CINs = {c1, c2}
    Paths = {p1}
    Keys = {k1, k2}
    PathOf <- OnePath
    KeyOf <- RetryKeys
    Control = {c2}
    Malformed = {}
    NoCIN = NoCIN
    NoPath = NoPath
    NormalMax = 1
    ControlMax = 1
    DrainBudget = 1
    Redelivery = TRUE
    Periodic = TRUE
    KnownPaths = TRUE
    Retention = 9
    MaxClock = 2
    MaxCrashes = 1
    MaxStops = 1
INVARIANTS QueuedHasCarrier WaitingWakes
PROPERTY MarkerCoversAdmitted
