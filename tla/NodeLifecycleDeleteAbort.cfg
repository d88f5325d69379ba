CONSTANTS
    h1 = h1
    h2 = h2
    c1 = c1
    c2 = c2
    None = None
    Hosts <- MCHosts
    Callers <- MCCallers
    NodeProcs <- MCNodeProcs
    ConvertRoleShowname <- MCConvertRoleShowname
    RoleTypes <- MCRoleTypes
    NewHosts <- MCNewHosts
    MaxFailures = 0
SPECIFICATION Spec
PROPERTY DeleteVisitsEveryTarget
