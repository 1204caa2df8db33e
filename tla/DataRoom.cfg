CONSTANTS
    owner = owner
    ann = ann
    bob = bob
    Address <- MCAddress
    Owner <- owner
    RoleInputs <- MCRoles
    FolderInputs = {0, 100, 101}
    MaxMembersInputs = {0, 1, 3}
    MaxVersionsInputs = {0, 1}
    InitMaxMembers = 2
    InitMaxVersions = 2
    FolderIdBound = 102
SPECIFICATION RoomSpec
SYMMETRY MCSymmetry
INVARIANTS
    RoomTypeOK
    MemberCountExact
    OwnerNeverLockedOut
    FoldersFormForest
    KeyHoldersAreKnown
