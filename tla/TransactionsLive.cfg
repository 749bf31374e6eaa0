CONSTANTS
    s = s  g = g  h = h  cs = cs  cg = cg  arm = arm  base = base
    NoRequest = NoRequest
    Services = {s}
    Goals = {g}
    Corrs = {cs, cg}
    Ifaces = {arm}
    CorrOf <- OwnCorr
    IfaceOf <- OneIface
    Bounded = {s}
    Unfit = {}
    MaxCrashes = 1
    MaxStops = 1
    MaxFlaps = 0
SPECIFICATION FairSpec
INVARIANTS AnswerMatchesTx OneOutcome
PROPERTIES TerminalIsFinal EveryRequestEnds
