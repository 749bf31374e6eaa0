CONSTANTS
    a = a  b = b  t = t  u = u
    None = None
    Ifaces = {a, b}
    Types = {t}
    Grace = 2
    LaneMax = 2
    Promptness = {TRUE, FALSE}
    MaxFlaps = 2
    MaxFailures = 1
    MaxRecovers = 1
SPECIFICATION FairSpec
INVARIANTS StagingFollowsPlans FirstKeepsResources GraceRespected
PROPERTIES EndpointsFollow Converges
