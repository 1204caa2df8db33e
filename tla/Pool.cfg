CONSTANTS
    owner = owner
    ann = ann
    deed = deed
    Address <- MCAddress
    Owner <- owner
    RoleInputs <- MCRoles
    FolderInputs = {0}
    MaxMembersInputs = {1}
    MaxVersionsInputs = {3}
    InitMaxMembers = 2
    InitMaxVersions = 1
    FolderIdBound = 0
    Doc = {deed}
    VersionBound = 3
    CommitteeInputs = {0, 1}
    DecisionBound = 3
SPECIFICATION Spec
INVARIANTS
    PoolTypeOK
    CachedApprovalIsCurrent
    StateMatchesLastDecision
    DocumentsTypeOK
    ApprovalCountExact
    FourEyes
PROPERTIES
    PauseFreezes
    ImplementsLifecycle
    ArchivedStaysFrozen
