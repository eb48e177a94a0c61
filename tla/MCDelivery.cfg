SPECIFICATION DeliverySpec
CONSTANTS
    Paths = {p1, p2}
    ReviewVerdicts = {"approved", "cancelled"}
    Reviews = {s1, s2}
    Plans = {staging}
    Production = {}
    Deployments = {d1}
    NoDeployment = NoDeployment
    Approvers = {manager}
    ReleaseManagers = {manager}
    SecurityApprovers = {}
    Verdicts = {"approved"}
    Sessions = {r1}
SYMMETRY Symmetry
INVARIANTS ReviewTypeOK ReviewVerified ReviewBindsContent ReleasedAsReviewed
PROPERTIES StepsOfRelease
CHECK_DEADLOCK FALSE
