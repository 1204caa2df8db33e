CONSTANTS
    owner = owner
    ann = ann
    deed = deed
    item = item
    Address <- MCAddress
    Owner <- owner
    RoleInputs <- MCRoles
    FolderInputs = {0}
    MaxMembersInputs = {}
    MaxVersionsInputs = {}
    InitMaxMembers = 2
    InitMaxVersions = 2
    FolderIdBound = 101
    Doc = {deed}
    VersionBound = 3
    CommitteeInputs = {1}
    DecisionBound = 2
    AuthMethods = {"wallet", "zklogin"}
    CsrfHeaders = {TRUE, FALSE}
    MaxItems = 2
    MaxInvites = 1
    MaxSubmits = 2
    MaxLost = 1
    Item = {item}
    StatusInputs = {"reviewed"}
    c1 = c1
    c2 = c2
    Slots = {c1, c2}
    MaxCalls = 2
    MaxElsewhere = 1
SPECIFICATION DealsSpec
INVARIANTS
    ReviewSaysWhatWasSent
CHECK_DEADLOCK FALSE
