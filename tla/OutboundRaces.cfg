CONSTANTS
    arm = arm  base = base  w1 = w1  w2 = w2
    Produced = 5
    ClassOf <- RaceClasses
    KeyOf <- RaceKeys
    Keys = {arm, base}
    OldRows = 1
    Unreadable = {1}
    Rejected = {4}
    Oversize = {}
    Expiring = {}
    ReportOf <- RaceReports
    Workers = {w1, w2}
    Drainer = w1
    TerminalMax = 1
    LatestMax = 1
    BulkMax = 1
    SpoolMax = 1
    DrainBatch = 2
    Retries = 1
    MaxOutages = 1
    MaxLosses = 0
    MaxCrashes = 0
    MaxStops = 0
SPECIFICATION Spec
INVARIANT InterfaceSerialized
PROPERTY DirectInOrder
