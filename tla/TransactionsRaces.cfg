CONSTANTS
    s = s  g = g  h = h  cs = cs  cg = cg  arm = arm  base = base
    NoRequest = NoRequest
    Services = {s}
    Goals = {g, h}
    Corrs = {cs, cg}
    Ifaces = {arm, base}
    CorrOf <- SharedCorr
    IfaceOf <- TwoIfaces
    Bounded = {s, g}
    Unfit = {g}
    MaxCrashes = 0
    MaxStops = 0
    MaxFlaps = 1
SPECIFICATION Spec
INVARIANTS SuccessMeansAnswer DispatchedOwned CancelNotLost
PROPERTIES LedgerSpec
