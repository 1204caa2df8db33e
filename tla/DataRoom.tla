------------------------------- MODULE DataRoom -------------------------------
(***************************************************************************)
(* One data room under the platform's AdminConfig: admin.move,             *)
(* dataroom.move and dataroom_entry.move.                                  *)
(*                                                                         *)
(* Every entry function runs in one transaction on shared objects, so it   *)
(* is one atomic action: its asserts are the guard (an abort undoes the    *)
(* whole transaction) and the calls it makes are the effect.  The sender   *)
(* of the transaction is the parameter caller; any address may call any    *)
(* entry function with any argument of the input sets.                     *)
(***************************************************************************)
EXTENDS RoomTypes, Integers, FiniteSets

CONSTANTS
    Address,          \* the addresses that send transactions or are named in one
    Owner,            \* the address that called create_pool
    RoleInputs,       \* the role bitmasks passed to add_member and update_member_role
    FolderInputs,     \* the folder ids passed as an argument
    MaxMembersInputs, \* the values of max_members_per_room passed to update_config
    MaxVersionsInputs,\* the values of max_doc_versions passed to update_config
    InitMaxMembers,   \* max_members_per_room set by the module initialiser
    InitMaxVersions,  \* max_doc_versions set by the module initialiser
    FolderIdBound     \* bound of the model: ids handed out stay below it

ASSUME AddressAssumption == IsFiniteSet(Address) /\ Owner \in Address
ASSUME InputAssumption ==
    /\ RoleInputs \subseteq SUBSET Roles
    /\ FolderInputs \subseteq Nat
    /\ MaxMembersInputs \subseteq Nat
    /\ MaxVersionsInputs \subseteq Nat
    /\ FolderIdBound \in Nat
ASSUME InitialConfigAssumption ==
    InitMaxMembers \in Nat \ {0} /\ InitMaxVersions \in Nat \ {0}

VARIABLES
    paused,            \* AdminConfig.paused
    maxMembers,        \* AdminConfig.max_members_per_room
    maxVersions,       \* AdminConfig.max_doc_versions
    standing,          \* the members table: "none" (no row), "active" or "revoked"
    role,              \* Membership.role; kept when a member is revoked
    memberCount,       \* DataRoom.member_count
    parentOf,          \* FolderMeta.parent_id by folder id; its domain is the folders
    customFolderCount, \* DataRoom.custom_folder_count, the next custom folder id
    folderKeys         \* the FolderKeyTag fields present: <<folder, member>>

adminVars  == <<paused, maxMembers, maxVersions>>
memberVars == <<standing, role, memberCount>>
folderVars == <<parentOf, customFolderCount>>
roomVars   == <<paused, maxMembers, maxVersions, standing, role, memberCount,
                parentOf, customFolderCount, folderKeys>>

-----------------------------------------------------------------------------
(* The admin configuration *)

\* The holder of the AdminCap sends these; no membership is consulted.
Pause ==
    /\ ~paused
    /\ paused' = TRUE
    /\ UNCHANGED <<maxMembers, maxVersions, memberVars, folderVars, folderKeys>>

Unpause ==
    /\ paused
    /\ paused' = FALSE
    /\ UNCHANGED <<maxMembers, maxVersions, memberVars, folderVars, folderKeys>>

\* Mutant: zero is accepted as a limit.
UpdateConfig_AllowsZero ==
    \E members \in MaxMembersInputs, versions \in MaxVersionsInputs :
        /\ maxMembers' = members
        /\ maxVersions' = versions
        /\ UNCHANGED <<paused, memberVars, folderVars, folderKeys>>

\* Neither limit is compared with what the rooms already hold.
UpdateConfig ==
    \E members \in MaxMembersInputs, versions \in MaxVersionsInputs :
        /\ members > 0
        /\ versions > 0
        /\ maxMembers' = members
        /\ maxVersions' = versions
        /\ UNCHANGED <<paused, memberVars, folderVars, folderKeys>>

-----------------------------------------------------------------------------
(* Authorisation *)

IsActiveMember(a) == standing[a] = "active"

\* dataroom::assert_member_role
IsAuthorized(caller, required) ==
    IsActiveMember(caller) /\ HasRole(role[caller], required)

\* can_access and can_access_folder of seal_policy.move decide alike: Seal decrypts
\* what asks for the roles of a mask for the active members who have one of them.
CanAccess(caller, mask) ==
    IsActiveMember(caller) /\ HasRole(role[caller], mask)

-----------------------------------------------------------------------------
(* Members *)

\* dataroom::add_member, a new row of the table
InsertMember(a, r) ==
    /\ memberCount < maxMembers
    /\ standing' = [standing EXCEPT ![a] = "active"]
    /\ role' = [role EXCEPT ![a] = r]
    /\ memberCount' = memberCount + 1

\* Mutant: the counter is not restored when a revoked member returns.
ReactivateMember_NoCount(a, r) ==
    /\ standing' = [standing EXCEPT ![a] = "active"]
    /\ role' = [role EXCEPT ![a] = r]
    /\ UNCHANGED memberCount

\* dataroom::reactivate_member: no limit is checked on this path.
ReactivateMember(a, r) ==
    /\ standing' = [standing EXCEPT ![a] = "active"]
    /\ role' = [role EXCEPT ![a] = r]
    /\ memberCount' = memberCount + 1

AddMember(caller, a, r) ==
    /\ ~paused
    /\ IsAuthorized(caller, OwnerUp)
    /\ IsValidRole(r)
    /\ \/ standing[a] = "none" /\ InsertMember(a, r)
       \/ standing[a] = "revoked" /\ ReactivateMember(a, r)
    /\ UNCHANGED <<adminVars, folderVars, folderKeys>>

\* Mutant: the row is deleted instead of being marked revoked.
RemoveMember_Deletes(caller, a) ==
    /\ ~paused
    /\ IsAuthorized(caller, OwnerUp)
    /\ a # Owner
    /\ IsActiveMember(a)
    /\ standing' = [standing EXCEPT ![a] = "none"]
    /\ memberCount' = memberCount - 1
    /\ UNCHANGED <<adminVars, role, folderVars, folderKeys>>

\* The row, its role and the member's folder keys stay behind.
RemoveMember(caller, a) ==
    /\ ~paused
    /\ IsAuthorized(caller, OwnerUp)
    /\ a # Owner
    /\ IsActiveMember(a)
    /\ standing' = [standing EXCEPT ![a] = "revoked"]
    /\ memberCount' = memberCount - 1
    /\ UNCHANGED <<adminVars, role, folderVars, folderKeys>>

\* Mutant: the owner may be demoted below OWNER.
UpdateMemberRole_DemotesOwner(caller, a, r) ==
    /\ ~paused
    /\ IsAuthorized(caller, OwnerUp)
    /\ IsValidRole(r)
    /\ IsActiveMember(a)
    /\ role' = [role EXCEPT ![a] = r]
    /\ UNCHANGED <<adminVars, standing, memberCount, folderVars, folderKeys>>

UpdateMemberRole(caller, a, r) ==
    /\ ~paused
    /\ IsAuthorized(caller, OwnerUp)
    /\ IsValidRole(r)
    /\ a = Owner => HasRole(r, {"OWNER"})
    /\ IsActiveMember(a)
    /\ role' = [role EXCEPT ![a] = r]
    /\ UNCHANGED <<adminVars, standing, memberCount, folderVars, folderKeys>>

-----------------------------------------------------------------------------
(* Folders and folder keys *)

DefaultFolders      == 0..5
CustomFolderStartId == 100
NoParent            == -1

Folders         == DOMAIN parentOf
FolderExists(f) == f \in Folders

\* Mutant: the parent is looked up after the counter has moved and the new
\* field has been added, so that a folder may name itself.
CreateCustomFolder_SelfParent(caller, parent) ==
    LET id == customFolderCount IN
    /\ ~paused
    /\ IsAuthorized(caller, EditorUp)
    /\ id < FolderIdBound
    /\ parent # NoParent => parent \in Folders \union {id}
    /\ parentOf' = [f \in Folders \union {id} |->
                        IF f = id THEN parent ELSE parentOf[f]]
    /\ customFolderCount' = id + 1
    /\ UNCHANGED <<adminVars, memberVars, folderKeys>>

CreateCustomFolder(caller, parent) ==
    LET id == customFolderCount IN
    /\ ~paused
    /\ IsAuthorized(caller, EditorUp)
    /\ id < FolderIdBound
    /\ parent # NoParent => FolderExists(parent)
    /\ parentOf' = [f \in Folders \union {id} |->
                        IF f = id THEN parent ELSE parentOf[f]]
    /\ customFolderCount' = id + 1
    /\ UNCHANGED <<adminVars, memberVars, folderKeys>>

\* The ciphertext is abstracted: a second call overwrites the field.
StoreEncryptedFolderKey(caller, folder, a) ==
    /\ ~paused
    /\ IsAuthorized(caller, OwnerUp)
    /\ FolderExists(folder)
    /\ IsActiveMember(a)
    /\ folderKeys' = folderKeys \union {<<folder, a>>}
    /\ UNCHANGED <<adminVars, memberVars, folderVars>>

-----------------------------------------------------------------------------
(* create_pool has run: the room holds its owner and the default folders.   *)
(* The object is fresh, whatever the pause flag later becomes.              *)

RoomInit ==
    /\ paused = FALSE
    /\ maxMembers = InitMaxMembers
    /\ maxVersions = InitMaxVersions
    /\ standing = [a \in Address |-> IF a = Owner THEN "active" ELSE "none"]
    /\ role = [a \in Address |-> IF a = Owner THEN {"OWNER"} ELSE {}]
    /\ memberCount = 1
    /\ parentOf = [f \in DefaultFolders |-> NoParent]
    /\ customFolderCount = CustomFolderStartId
    /\ folderKeys = {}

AdminNext == Pause \/ Unpause \/ UpdateConfig

RoomCallNext ==
    \E caller \in Address :
        \/ \E a \in Address, r \in RoleInputs : AddMember(caller, a, r)
        \/ \E a \in Address : RemoveMember(caller, a)
        \/ \E a \in Address, r \in RoleInputs : UpdateMemberRole(caller, a, r)
        \/ \E parent \in FolderInputs \union {NoParent} :
               CreateCustomFolder(caller, parent)
        \/ \E folder \in FolderInputs, a \in Address :
               StoreEncryptedFolderKey(caller, folder, a)

RoomNext == AdminNext \/ RoomCallNext

RoomSpec == RoomInit /\ [][RoomNext]_roomVars

-----------------------------------------------------------------------------
(* Properties *)

Members       == {a \in Address : standing[a] # "none"}
ActiveMembers == {a \in Address : standing[a] = "active"}

RoomTypeOK ==
    /\ paused \in BOOLEAN
    /\ maxMembers \in Nat \ {0}
    /\ maxVersions \in Nat \ {0}
    /\ standing \in [Address -> {"none", "active", "revoked"}]
    /\ role \in [Address -> SUBSET Roles]
    /\ memberCount \in Nat
    /\ customFolderCount \in Nat
    /\ parentOf \in [Folders -> Nat \union {NoParent}]
    /\ Folders \subseteq Nat
    /\ folderKeys \subseteq Folders \X Address

\* dataroom.move keeps member_count beside a table it cannot iterate over, and
\* three functions adjust it on two paths.  The counter is the number of active
\* rows, whatever was added, revoked and added back: the subtraction of
\* revoke_member never underflows, and the limit of add_member compares the
\* right number.
MemberCountExact == memberCount = Cardinality(ActiveMembers)

\* An administrator may act against everybody but the owner
\* (cannot_remove_owner, cannot_demote_owner): at all times the creator of the
\* room passes every role check of the package, so a room is never left with
\* nobody who can manage it, and Seal decrypts for him what is kept for owners.
OwnerNeverLockedOut ==
    /\ \A mask \in {OwnerUp, EditorUp, ReviewerUp} : IsAuthorized(Owner, mask)
    /\ CanAccess(Owner, {"OWNER"})

\* Folder ids come from two ranges (0..5 and 100 onwards) that share one space
\* of dynamic fields, and parents are checked by existence alone.  The custom
\* ids are exactly those handed out so far, so df::add never meets a used key,
\* and every parent is an older folder: the folders form a forest.
FoldersFormForest ==
    /\ Folders = DefaultFolders \union (CustomFolderStartId .. customFolderCount - 1)
    /\ \A f \in Folders : parentOf[f] # NoParent =>
           parentOf[f] \in Folders /\ parentOf[f] < f

\* remove_member leaves the row and the keys of the member behind, and folders
\* are never deleted: a stored key always opens a folder of this room, for an
\* address the table still knows (the row of a revoked member is the audit
\* trail of who once held the key).
KeyHoldersAreKnown ==
    \A key \in folderKeys : key[1] \in Folders /\ key[2] \in Members
=============================================================================
