SPECIFICATION FairSpec
CONSTANTS
    Plans = {production}
    Production = {production}
    Deployments = {d1}
    NoDeployment = NoDeployment
    Approvers = {manager, security}
    ReleaseManagers = {manager}
    SecurityApprovers = {security}
    Verdicts = {"approved", "rejected", "changes_requested", "waived", "cancelled"}
    Sessions = {s1}
PROPERTIES DualControlAttainable
CHECK_DEADLOCK FALSE
