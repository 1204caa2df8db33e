CONSTANTS
    owner = owner
    ann = ann
    deed = deed
    NoRow = NoRow
    User <- MCUser
    Owner <- owner
    Doc = {deed}
    RoleInputs <- MCRoles
    Emissions = {"package"}
    MaxTxs = 1
    BatchLimit = 3
    MaxFaults = 0
    SentinelRows = FALSE
SPECIFICATION FairSpec
PROPERTIES
    PoolGetsIndexed
CHECK_DEADLOCK FALSE
