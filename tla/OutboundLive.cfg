CONSTANTS
    arm = arm  base = base  w1 = w1  w2 = w2
    Produced = 2
    ClassOf <- LiveClasses
    KeyOf <- LiveKeys
    Keys = {arm, base}
    OldRows = 1
    Unreadable = {}
    Rejected = {}
    Oversize = {}
    Expiring = {2}
    ReportOf <- NoReports
    Workers = {w1, w2}
    Drainer = w1
    TerminalMax = 1
    LatestMax = 1
    BulkMax = 1
    SpoolMax = 2
    DrainBatch = 2
    Retries = 0
    MaxOutages = 1
    MaxLosses = 1
    MaxCrashes = 1
    MaxStops = 1
SPECIFICATION FairSpec
INVARIANTS SpoolWakes ReplayFromHead
PROPERTIES DeliverySpec EverythingSettles
