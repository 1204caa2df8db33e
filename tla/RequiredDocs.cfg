CONSTANTS
    owner = owner
    ann = ann
    deed = deed
    Address <- MCAddress
    Owner <- owner
    RoleInputs <- MCRoles
    FolderInputs = {0}
    MaxMembersInputs = {1}
    MaxVersionsInputs = {2}
    InitMaxMembers = 2
    InitMaxVersions = 1
    FolderIdBound = 0
    Doc = {deed}
    VersionBound = 2
    CommitteeInputs = {0, 1}
    DecisionBound = 3
SPECIFICATION Spec
PROPERTIES
    RequiredDocsReviewedBeforeIC
