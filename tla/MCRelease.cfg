SPECIFICATION Spec
CONSTANTS
    Plans = {staging, production}
    Production = {production}
    Deployments = {d1}
    NoDeployment = NoDeployment
    Approvers = {manager, security, other}
    ReleaseManagers = {manager}
    SecurityApprovers = {security}
    Verdicts = {"approved", "cancelled"}
    Sessions = {s1, s2}
SYMMETRY Symmetry
INVARIANTS TypeOK Authorized ProductionSigned
PROPERTIES RolledBackFinal
CHECK_DEADLOCK FALSE
