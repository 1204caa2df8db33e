CONSTANTS
    owner = owner
    ann = ann
    deed = deed
    NoRow = NoRow
    User <- MCUser
    Owner <- owner
    Doc = {deed}
    RoleInputs <- MCRoles
    Emissions = {"package", "assumed"}
    MaxTxs = 4
    BatchLimit = 3
    MaxFaults = 2
    SentinelRows = TRUE
SPECIFICATION FairSpec
INVARIANTS
    IndexerTypeOK
    CheckpointedIsAudited
    AuditedIsProjected
    TablesFollowChain
PROPERTIES
    CatchesUp
CHECK_DEADLOCK FALSE
