----------------------------- MODULE Pool_proofs -----------------------------
(***************************************************************************)
(* Proofs about the package.  The room comes first: for every set of       *)
(* addresses, every role mask and folder id that may be passed, and every  *)
(* configuration.  The documents follow, for every number of them and of   *)
(* versions and every membership: their invariant needs nothing of the     *)
(* room's but who may be a caller, so it is proved one document at a time. *)
(* Pool is last: what holds of a whole deal, for any number of committee   *)
(* decisions; and that the contract implements the documented lifecycle.   *)
(***************************************************************************)
EXTENDS Pool, FiniteSetTheorems, SequenceTheorems, TLAPS

(* The inductive invariant.  The properties lean on one another: the        *)
(* counter stays natural because it counts, the folder ids are dense        *)
(* because the next id is past the range of the default folders, and a key  *)
(* keeps its row because rows are never removed.                            *)
RoomInv ==
    /\ RoomTypeOK
    /\ customFolderCount >= CustomFolderStartId
    /\ MemberCountExact
    /\ OwnerNeverLockedOut
    /\ FoldersFormForest
    /\ KeyHoldersAreKnown

-----------------------------------------------------------------------------
(* The initial state *)

\* A room as create_pool leaves it satisfies the invariant.
LEMMA RoomInitInv == RoomInit => RoomInv
  <1> SUFFICES ASSUME RoomInit PROVE RoomInv
    OBVIOUS
  <1>1. Folders = DefaultFolders /\ \A f \in Folders : parentOf[f] = NoParent
    BY DEF RoomInit, Folders
  <1>2. RoomTypeOK
    <2>1. /\ parentOf \in [Folders -> Nat \union {NoParent}]
          /\ Folders \subseteq Nat
      BY <1>1 DEF RoomInit, DefaultFolders, Folders
    <2>2. role \in [Address -> SUBSET Roles]
      BY DEF RoomInit, Roles
    <2>3. standing \in [Address -> {"none", "active", "revoked"}]
      BY DEF RoomInit
    <2>4. QED
      BY <2>1, <2>2, <2>3, InitialConfigAssumption
      DEF RoomInit, RoomTypeOK, CustomFolderStartId
  <1>3. MemberCountExact
    <2>1. ActiveMembers = {Owner}
      BY AddressAssumption DEF ActiveMembers, RoomInit
    <2>2. QED
      BY <2>1, FS_Singleton DEF MemberCountExact, RoomInit
  <1>4. OwnerNeverLockedOut
    BY AddressAssumption
    DEF OwnerNeverLockedOut, IsAuthorized, CanAccess, IsActiveMember, HasRole, RoomInit,
        OwnerUp, EditorUp, ReviewerUp
  <1>5. FoldersFormForest
    <2>1. CustomFolderStartId .. customFolderCount - 1 = {}
      BY DEF RoomInit, CustomFolderStartId
    <2>2. QED
      BY <1>1, <2>1 DEF FoldersFormForest
  <1>6. QED
    BY <1>2, <1>3, <1>4, <1>5
    DEF RoomInv, KeyHoldersAreKnown, RoomInit, CustomFolderStartId

-----------------------------------------------------------------------------
(* The member table *)

\* A new active row adds one to the number of active members.
LEMMA ActivateCounts ==
  ASSUME RoomInv, NEW a \in Address, ~IsActiveMember(a),
         standing' = [standing EXCEPT ![a] = "active"],
         memberCount' = memberCount + 1
  PROVE  MemberCountExact'
  <1>1. ActiveMembers' = ActiveMembers \union {a} /\ a \notin ActiveMembers
    BY DEF RoomInv, RoomTypeOK, ActiveMembers, IsActiveMember
  <1>2. IsFiniteSet(ActiveMembers)
    BY AddressAssumption, FS_Subset DEF ActiveMembers
  <1>3. Cardinality(ActiveMembers') = Cardinality(ActiveMembers) + 1
    BY <1>1, <1>2, FS_AddElement
  <1>4. QED
    BY <1>3 DEF RoomInv, MemberCountExact

\* Revoking an active row takes one away, and the counter was not zero.
LEMMA RevokeCounts ==
  ASSUME RoomInv, NEW a \in Address, IsActiveMember(a),
         standing' = [standing EXCEPT ![a] = "revoked"],
         memberCount' = memberCount - 1
  PROVE  MemberCountExact' /\ memberCount' \in Nat
  <1>1. ActiveMembers' = ActiveMembers \ {a} /\ a \in ActiveMembers
    BY DEF RoomInv, RoomTypeOK, ActiveMembers, IsActiveMember
  <1>2. IsFiniteSet(ActiveMembers)
    BY AddressAssumption, FS_Subset DEF ActiveMembers
  <1>3. /\ IsFiniteSet(ActiveMembers')
        /\ Cardinality(ActiveMembers') = Cardinality(ActiveMembers) - 1
    BY <1>1, <1>2, FS_RemoveElement
  <1>4. Cardinality(ActiveMembers') \in Nat
    BY <1>3, FS_CardinalityType
  <1>5. QED
    BY <1>3, <1>4 DEF RoomInv, MemberCountExact

\* What add_member changes, on either of its two paths.
LEMMA AddMemberEffect ==
  ASSUME NEW caller \in Address, NEW a \in Address, NEW r \in RoleInputs,
         RoomInv, AddMember(caller, a, r)
  PROVE  /\ ~IsActiveMember(a)
         /\ standing' = [standing EXCEPT ![a] = "active"]
         /\ role' = [role EXCEPT ![a] = r]
         /\ memberCount' = memberCount + 1
         /\ UNCHANGED <<adminVars, folderVars, folderKeys>>
  BY DEF AddMember, InsertMember, ReactivateMember, IsActiveMember

\* add_member preserves the invariant.
LEMMA AddMemberInv ==
  ASSUME NEW caller \in Address, NEW a \in Address, NEW r \in RoleInputs,
         RoomInv, AddMember(caller, a, r)
  PROVE  RoomInv'
  <1> USE AddMemberEffect
  <1>1. r \in SUBSET Roles
    BY InputAssumption
  <1>2. RoomTypeOK'
    BY <1>1 DEF RoomInv, RoomTypeOK, adminVars, folderVars, Folders
  <1>3. MemberCountExact'
    BY ActivateCounts
  <1>4. a # Owner
    BY DEF RoomInv, OwnerNeverLockedOut, IsAuthorized, CanAccess, IsActiveMember
  <1>5. OwnerNeverLockedOut'
    BY <1>4, AddressAssumption
    DEF RoomInv, RoomTypeOK, OwnerNeverLockedOut, IsAuthorized, CanAccess, IsActiveMember
  <1>6. FoldersFormForest' /\ customFolderCount' >= CustomFolderStartId
    BY DEF RoomInv, FoldersFormForest, folderVars, Folders
  <1>7. KeyHoldersAreKnown'
    BY DEF RoomInv, RoomTypeOK, KeyHoldersAreKnown, Members, Folders, folderVars
  <1>8. QED
    BY <1>2, <1>3, <1>5, <1>6, <1>7 DEF RoomInv

\* remove_member preserves the invariant.
LEMMA RemoveMemberInv ==
  ASSUME NEW caller \in Address, NEW a \in Address,
         RoomInv, RemoveMember(caller, a)
  PROVE  RoomInv'
  <1>1. /\ a # Owner
        /\ IsActiveMember(a)
        /\ standing' = [standing EXCEPT ![a] = "revoked"]
        /\ memberCount' = memberCount - 1
        /\ UNCHANGED <<adminVars, role, folderVars, folderKeys>>
    BY DEF RemoveMember
  <1>2. MemberCountExact' /\ memberCount' \in Nat
    BY <1>1, RevokeCounts
  <1>3. RoomTypeOK'
    BY <1>1, <1>2 DEF RoomInv, RoomTypeOK, adminVars, folderVars, Folders
  <1>4. OwnerNeverLockedOut'
    BY <1>1, AddressAssumption
    DEF RoomInv, RoomTypeOK, OwnerNeverLockedOut, IsAuthorized, CanAccess, IsActiveMember
  <1>5. FoldersFormForest' /\ customFolderCount' >= CustomFolderStartId
    BY <1>1 DEF RoomInv, FoldersFormForest, folderVars, Folders
  <1>6. KeyHoldersAreKnown'
    BY <1>1
    DEF RoomInv, RoomTypeOK, KeyHoldersAreKnown, Members, Folders, folderVars
  <1>7. QED
    BY <1>2, <1>3, <1>4, <1>5, <1>6 DEF RoomInv

\* update_member_role preserves the invariant.
LEMMA UpdateMemberRoleInv ==
  ASSUME NEW caller \in Address, NEW a \in Address, NEW r \in RoleInputs,
         RoomInv, UpdateMemberRole(caller, a, r)
  PROVE  RoomInv'
  <1>1. /\ a = Owner => HasRole(r, {"OWNER"})
        /\ role' = [role EXCEPT ![a] = r]
        /\ UNCHANGED <<adminVars, standing, memberCount, folderVars, folderKeys>>
    BY DEF UpdateMemberRole
  <1>2. RoomTypeOK'
    BY <1>1, InputAssumption
    DEF RoomInv, RoomTypeOK, adminVars, folderVars, Folders
  <1>3. OwnerNeverLockedOut'
    <2>1. standing'[Owner] = "active"
      BY <1>1 DEF RoomInv, OwnerNeverLockedOut, IsAuthorized, CanAccess, IsActiveMember
    <2>2. CASE a = Owner
      BY <1>1, <2>1, <2>2, AddressAssumption
      DEF RoomInv, RoomTypeOK, OwnerNeverLockedOut, IsAuthorized, CanAccess, IsActiveMember,
          HasRole, OwnerUp, EditorUp, ReviewerUp
    <2>3. CASE a # Owner
      BY <1>1, <2>1, <2>3, AddressAssumption
      DEF RoomInv, RoomTypeOK, OwnerNeverLockedOut, IsAuthorized, CanAccess, IsActiveMember
    <2>4. QED
      BY <2>2, <2>3
  <1>4. /\ MemberCountExact' /\ FoldersFormForest' /\ KeyHoldersAreKnown'
        /\ customFolderCount' >= CustomFolderStartId
    BY <1>1
    DEF RoomInv, MemberCountExact, ActiveMembers, FoldersFormForest,
        KeyHoldersAreKnown, Members, Folders, folderVars
  <1>5. QED
    BY <1>2, <1>3, <1>4 DEF RoomInv

-----------------------------------------------------------------------------
(* Folders, keys and the configuration *)

\* create_custom_folder preserves the invariant.
LEMMA CreateCustomFolderInv ==
  ASSUME NEW caller \in Address, NEW parent \in FolderInputs \union {NoParent},
         RoomInv, CreateCustomFolder(caller, parent)
  PROVE  RoomInv'
  <1> DEFINE id == customFolderCount
  <1>1. /\ parent # NoParent => parent \in Folders
        /\ parentOf' = [f \in Folders \union {id} |->
                            IF f = id THEN parent ELSE parentOf[f]]
        /\ customFolderCount' = id + 1
        /\ UNCHANGED <<adminVars, memberVars, folderKeys>>
    BY DEF CreateCustomFolder, FolderExists
  <1>2. id \in Nat /\ id >= CustomFolderStartId /\ parent \in Nat \union {NoParent}
    BY InputAssumption DEF RoomInv, RoomTypeOK
  <1>3. Folders' = Folders \union {id}
    BY <1>1 DEF Folders
  <1>4. \A f \in Folders : f # id /\ parentOf'[f] = parentOf[f]
    <2>1. id \notin Folders
      BY <1>2 DEF RoomInv, FoldersFormForest, DefaultFolders, CustomFolderStartId
    <2>2. QED
      BY <1>1, <2>1
  <1>5. RoomTypeOK'
    <2>1. parentOf' \in [Folders' -> Nat \union {NoParent}] /\ Folders' \subseteq Nat
      BY <1>1, <1>2, <1>3 DEF RoomInv, RoomTypeOK
    <2>2. folderKeys' \subseteq Folders' \X Address
      BY <1>1, <1>3 DEF RoomInv, RoomTypeOK
    <2>3. QED
      BY <1>1, <1>2, <2>1, <2>2 DEF RoomInv, RoomTypeOK, adminVars, memberVars
  <1>6. FoldersFormForest' /\ customFolderCount' >= CustomFolderStartId
    <2>1. CustomFolderStartId .. customFolderCount' - 1
             = (CustomFolderStartId .. customFolderCount - 1) \union {id}
      BY <1>1, <1>2 DEF CustomFolderStartId
    <2>2. Folders' = DefaultFolders \union (CustomFolderStartId .. customFolderCount' - 1)
      BY <1>3, <2>1 DEF RoomInv, FoldersFormForest
    <2>3. \A f \in Folders : f < id
      BY <1>2 DEF RoomInv, FoldersFormForest, DefaultFolders, CustomFolderStartId
    <2>4. \A f \in Folders' : parentOf'[f] # NoParent =>
             parentOf'[f] \in Folders' /\ parentOf'[f] < f
      <3> SUFFICES ASSUME NEW f \in Folders', parentOf'[f] # NoParent
                   PROVE  parentOf'[f] \in Folders' /\ parentOf'[f] < f
        OBVIOUS
      <3>1. CASE f = id
        BY <1>1, <1>3, <2>3, <3>1
      <3>2. CASE f # id
        BY <1>3, <1>4, <3>2 DEF RoomInv, FoldersFormForest
      <3>3. QED
        BY <3>1, <3>2
    <2>5. QED
      BY <1>1, <1>2, <2>2, <2>4 DEF FoldersFormForest, CustomFolderStartId
  <1>7. /\ MemberCountExact'
        /\ OwnerNeverLockedOut'
        /\ KeyHoldersAreKnown'
    BY <1>1, <1>3
    DEF RoomInv, MemberCountExact, ActiveMembers, OwnerNeverLockedOut, IsAuthorized, CanAccess,
        IsActiveMember, KeyHoldersAreKnown, Members, memberVars
  <1>8. QED
    BY <1>5, <1>6, <1>7 DEF RoomInv

\* store_encrypted_folder_key preserves the invariant.
LEMMA StoreKeyInv ==
  ASSUME NEW caller \in Address, NEW folder \in FolderInputs, NEW a \in Address,
         RoomInv, StoreEncryptedFolderKey(caller, folder, a)
  PROVE  RoomInv'
  <1>1. /\ folder \in Folders
        /\ a \in Members
        /\ folderKeys' = folderKeys \union {<<folder, a>>}
        /\ UNCHANGED <<adminVars, memberVars, folderVars>>
    BY DEF StoreEncryptedFolderKey, FolderExists, IsActiveMember, Members
  <1>2. RoomTypeOK'
    BY <1>1 DEF RoomInv, RoomTypeOK, adminVars, memberVars, folderVars, Folders
  <1>3. KeyHoldersAreKnown'
    BY <1>1
    DEF RoomInv, KeyHoldersAreKnown, Members, Folders, memberVars, folderVars
  <1>4. /\ MemberCountExact' /\ OwnerNeverLockedOut' /\ FoldersFormForest'
        /\ customFolderCount' >= CustomFolderStartId
    BY <1>1
    DEF RoomInv, MemberCountExact, ActiveMembers, OwnerNeverLockedOut, IsAuthorized, CanAccess,
        IsActiveMember, FoldersFormForest, Folders, memberVars, folderVars
  <1>5. QED
    BY <1>2, <1>3, <1>4 DEF RoomInv

\* The invariant does not depend on the configuration, except for the type of
\* its two limits.
LEMMA ConfigInv ==
  ASSUME RoomInv, UNCHANGED <<memberVars, folderVars, folderKeys>>,
         paused' \in BOOLEAN, maxMembers' \in Nat \ {0}, maxVersions' \in Nat \ {0}
  PROVE  RoomInv'
  BY DEF RoomInv, RoomTypeOK, MemberCountExact, ActiveMembers, OwnerNeverLockedOut,
         IsAuthorized, CanAccess, IsActiveMember, FoldersFormForest, KeyHoldersAreKnown, Members,
         Folders, memberVars, folderVars

-----------------------------------------------------------------------------
(* The theorems about the room *)

\* Every call of the room and of the administrator preserves the invariant.
LEMMA RoomStepInv == RoomInv /\ [RoomNext]_roomVars => RoomInv'
  <1> SUFFICES ASSUME RoomInv, [RoomNext]_roomVars
               PROVE  RoomInv'
    OBVIOUS
  <1>1. CASE Pause \/ Unpause
    BY <1>1, ConfigInv DEF Pause, Unpause, RoomInv, RoomTypeOK
  <1>2. CASE UpdateConfig
    <2>1. PICK members \in MaxMembersInputs, versions \in MaxVersionsInputs :
             /\ members > 0 /\ versions > 0
             /\ maxMembers' = members /\ maxVersions' = versions
      BY <1>2 DEF UpdateConfig
    <2>2. maxMembers' \in Nat \ {0} /\ maxVersions' \in Nat \ {0}
      BY <2>1, InputAssumption
    <2>3. UNCHANGED <<paused, memberVars, folderVars, folderKeys>>
      BY <1>2 DEF UpdateConfig
    <2>4. QED
      BY <2>2, <2>3, ConfigInv DEF RoomInv, RoomTypeOK
  <1>3. ASSUME NEW caller \in Address, NEW a \in Address, NEW r \in RoleInputs,
               AddMember(caller, a, r)
        PROVE  RoomInv'
    BY <1>3, AddMemberInv
  <1>4. ASSUME NEW caller \in Address, NEW a \in Address, RemoveMember(caller, a)
        PROVE  RoomInv'
    BY <1>4, RemoveMemberInv
  <1>5. ASSUME NEW caller \in Address, NEW a \in Address, NEW r \in RoleInputs,
               UpdateMemberRole(caller, a, r)
        PROVE  RoomInv'
    BY <1>5, UpdateMemberRoleInv
  <1>6. ASSUME NEW caller \in Address, NEW parent \in FolderInputs \union {NoParent},
               CreateCustomFolder(caller, parent)
        PROVE  RoomInv'
    BY <1>6, CreateCustomFolderInv
  <1>7. ASSUME NEW caller \in Address, NEW folder \in FolderInputs, NEW a \in Address,
               StoreEncryptedFolderKey(caller, folder, a)
        PROVE  RoomInv'
    BY <1>7, StoreKeyInv
  <1>8. CASE UNCHANGED roomVars
    <2>1. /\ UNCHANGED <<memberVars, folderVars, folderKeys>>
          /\ UNCHANGED <<paused, maxMembers, maxVersions>>
      BY <1>8 DEF roomVars, memberVars, folderVars
    <2>2. QED
      BY <2>1, ConfigInv DEF RoomInv, RoomTypeOK
  <1>9. QED
    BY <1>1, <1>2, <1>3, <1>4, <1>5, <1>6, <1>7, <1>8
    DEF RoomNext, AdminNext, RoomCallNext

\* The invariant of the room holds in every state of every behaviour.
THEOREM RoomInvariance == RoomSpec => []RoomInv
  BY RoomInitInv, RoomStepInv, PTL DEF RoomSpec

\* Type correctness, with the counters as naturals: neither the subtraction of
\* revoke_member nor a limit ever leaves the range of the code's u64.
THEOREM RoomTyping == RoomSpec => []RoomTypeOK
  <1>1. RoomInv => RoomTypeOK
    BY DEF RoomInv
  <1>2. QED
    BY <1>1, RoomInvariance, PTL

\* member_count is the number of active rows of the members table.
THEOREM MemberCounting == RoomSpec => []MemberCountExact
  <1>1. RoomInv => MemberCountExact
    BY DEF RoomInv
  <1>2. QED
    BY <1>1, RoomInvariance, PTL

\* The creator of the room passes every role check of the package for ever.
THEOREM OwnerKeepsControl == RoomSpec => []OwnerNeverLockedOut
  <1>1. RoomInv => OwnerNeverLockedOut
    BY DEF RoomInv
  <1>2. QED
    BY <1>1, RoomInvariance, PTL

\* Folder ids never clash and parents are older folders.
THEOREM FolderForest == RoomSpec => []FoldersFormForest
  <1>1. RoomInv => FoldersFormForest
    BY DEF RoomInv
  <1>2. QED
    BY <1>1, RoomInvariance, PTL

\* Every stored key belongs to a folder and to a row of the member table.
THEOREM KeyHolders == RoomSpec => []KeyHoldersAreKnown
  <1>1. RoomInv => KeyHoldersAreKnown
    BY DEF RoomInv
  <1>2. QED
    BY <1>1, RoomInvariance, PTL

-----------------------------------------------------------------------------
(* Documents *)

(* What holds of one document object.  That a document has no versions     *)
(* before it exists is needed for the properties of its history only.      *)
DocumentOK(x) ==
    /\ x \in Document
    /\ x.approvalCount = Cardinality({a \in Address : x.reviews[a] = "APPROVED"})
    /\ x.currentVersion = x.versionCount
    /\ x.versionCount = Len(x.uploadedBy)
    /\ x.status # "absent" => x.currentVersion \in DOMAIN x.uploadedBy
    /\ x.status = "absent" => x.versionCount = 0
    /\ \A a \in Address : x.reviews[a] = "APPROVED" =>
           \E v \in DOMAIN x.uploadedBy : x.uploadedBy[v] # a

DocInv == docs \in [Doc -> Document] /\ \A d \in Doc : DocumentOK(docs[d])

\* The invariant implies the properties of Documents.
LEMMA DocInvMeans ==
  DocInv => /\ DocumentsTypeOK
            /\ ApprovalCountExact
            /\ VersionsDense
            /\ FourEyes
  BY DEF DocInv, DocumentOK, DocumentsTypeOK, ApprovalCountExact, VersionsDense,
         FourEyes, Approvers, HasDocument

-----------------------------------------------------------------------------
(* A single document *)

\* Changing one document to one that is in order keeps all of them in order.
LEMMA OneDocument ==
  ASSUME DocInv, NEW d \in Doc, NEW x, DocumentOK(x), docs' = [docs EXCEPT ![d] = x]
  PROVE  DocInv'
  <1>1. x \in Document
    BY DEF DocumentOK
  <1>2. docs' \in [Doc -> Document]
    BY <1>1 DEF DocInv
  <1>3. ASSUME NEW k \in Doc PROVE docs'[k] = x \/ docs'[k] = docs[k]
    BY DEF DocInv
  <1>4. \A k \in Doc : DocumentOK(docs'[k])
    BY <1>3 DEF DocInv
  <1>5. QED
    BY <1>2, <1>4 DEF DocInv, DocumentOK

\* A document without reviews and as many versions as it counts is in order.
LEMMA NoReviewsOK ==
  ASSUME NEW x \in Document,
         \A a \in Address : x.reviews[a] = NotReviewed,
         x.approvalCount = 0,
         x.currentVersion = x.versionCount,
         x.versionCount = Len(x.uploadedBy),
         x.status # "absent" <=> x.versionCount > 0
  PROVE  DocumentOK(x)
  <1>1. {a \in Address : x.reviews[a] = "APPROVED"} = {}
    BY DEF NotReviewed
  <1>2. /\ x.status # "absent" => x.currentVersion \in DOMAIN x.uploadedBy
        /\ x.status = "absent" => x.versionCount = 0
    <2>1. x.uploadedBy \in Seq(Address) /\ x.versionCount \in Nat
      BY DEF Document
    <2>2. QED
      BY <2>1
  <1>3. QED
    BY <1>1, <1>2, FS_EmptySet DEF DocumentOK, NotReviewed

\* One more version, by whomever, keeps a document in order.
LEMMA NewVersionOK ==
  ASSUME NEW x, DocumentOK(x), x.status # "absent", NEW caller \in Address,
         NEW y, y = [x EXCEPT !.uploadedBy     = Append(@, caller),
                              !.currentVersion = x.versionCount + 1,
                              !.versionCount   = x.versionCount + 1]
  PROVE  DocumentOK(y)
  <1>1. x.uploadedBy \in Seq(Address) /\ x.versionCount \in Nat
    BY DEF DocumentOK, Document
  <1>2. Append(x.uploadedBy, caller) \in Seq(Address) /\ x.versionCount + 1 \in Nat
    BY <1>1
  <1>3. /\ y \in Document
        /\ y.reviews = x.reviews
        /\ y.status = x.status
        /\ y.approvalCount = x.approvalCount
        /\ y.uploadedBy = Append(x.uploadedBy, caller)
        /\ y.currentVersion = x.versionCount + 1
        /\ y.versionCount = x.versionCount + 1
    BY <1>2 DEF DocumentOK, Document
  <1>4. /\ Len(y.uploadedBy) = Len(x.uploadedBy) + 1
        /\ DOMAIN y.uploadedBy = 1 .. Len(x.uploadedBy) + 1
        /\ \A v \in DOMAIN x.uploadedBy : y.uploadedBy[v] = x.uploadedBy[v]
        /\ DOMAIN x.uploadedBy \subseteq DOMAIN y.uploadedBy
    BY <1>1, <1>3
  <1>5. \A a \in Address : y.reviews[a] = "APPROVED" =>
           \E v \in DOMAIN y.uploadedBy : y.uploadedBy[v] # a
    BY <1>3, <1>4 DEF DocumentOK
  <1>6. y.currentVersion \in DOMAIN y.uploadedBy
    BY <1>1, <1>3, <1>4 DEF DocumentOK
  <1>7. QED
    BY <1>3, <1>4, <1>5, <1>6 DEF DocumentOK

\* A review keeps a document in order if its author is not the uploader of the
\* current version.
LEMMA ReviewOK ==
  ASSUME NEW x, DocumentOK(x), x.status # "absent",
         NEW caller \in Address, caller # x.uploadedBy[x.currentVersion],
         NEW status \in ReviewStatuses,
         NEW y, y = [x EXCEPT !.reviews[caller] = status,
                              !.approvalCount =
                                  CountAfterReview(x.reviews[caller], status, @)]
  PROVE  DocumentOK(y)
  <1> DEFINE before == {a \in Address : x.reviews[a] = "APPROVED"}
             after  == {a \in Address : y.reviews[a] = "APPROVED"}
             old    == x.reviews[caller]
  <1>1. /\ x.reviews \in [Address -> ReviewStatuses \union {NotReviewed}]
        /\ x.approvalCount \in Nat
        /\ x.approvalCount = Cardinality(before)
    BY DEF DocumentOK, Document
  <1>2. /\ y.reviews = [x.reviews EXCEPT ![caller] = status]
        /\ y.approvalCount = CountAfterReview(old, status, x.approvalCount)
        /\ y.uploadedBy = x.uploadedBy
        /\ y.currentVersion = x.currentVersion
        /\ y.versionCount = x.versionCount
        /\ y.status = x.status
        /\ y.folder = x.folder
        /\ y.required = x.required
    BY DEF DocumentOK, Document
  <1>3. IsFiniteSet(before)
    BY AddressAssumption, FS_Subset
  <1>4. y.approvalCount = Cardinality(after) /\ y.approvalCount \in Nat
    <2>1. CASE old = "APPROVED" /\ status # "APPROVED"
      <3>1. after = before \ {caller} /\ caller \in before
        BY <1>1, <1>2, <2>1
      <3>2. IsFiniteSet(after) /\ Cardinality(after) = Cardinality(before) - 1
        BY <1>3, <3>1, FS_RemoveElement
      <3>3. Cardinality(after) \in Nat
        BY <3>2, FS_CardinalityType
      <3>4. QED
        BY <1>1, <1>2, <2>1, <3>2, <3>3 DEF CountAfterReview
    <2>2. CASE old # "APPROVED" /\ status = "APPROVED"
      <3>1. after = before \union {caller} /\ caller \notin before
        BY <1>1, <1>2, <2>2
      <3>2. Cardinality(after) = Cardinality(before) + 1
        BY <1>3, <3>1, FS_AddElement
      <3>3. QED
        BY <1>1, <1>2, <2>2, <3>2 DEF CountAfterReview
    <2>3. CASE (old = "APPROVED") <=> (status = "APPROVED")
      <3>1. after = before
        BY <1>1, <1>2, <2>3
      <3>2. QED
        BY <1>1, <1>2, <2>3, <3>1 DEF CountAfterReview
    <2>4. QED
      BY <2>1, <2>2, <2>3
  <1>5. y \in Document
    <2>1. y.reviews \in [Address -> ReviewStatuses \union {NotReviewed}]
      BY <1>1, <1>2
    <2>2. QED
      BY <1>4, <2>1 DEF DocumentOK, Document
  <1>6. \A a \in Address : y.reviews[a] = "APPROVED" =>
           \E v \in DOMAIN y.uploadedBy : y.uploadedBy[v] # a
    <2> SUFFICES ASSUME NEW a \in Address, y.reviews[a] = "APPROVED"
                 PROVE  \E v \in DOMAIN y.uploadedBy : y.uploadedBy[v] # a
      OBVIOUS
    <2>1. CASE a = caller
      BY <1>2, <2>1 DEF DocumentOK
    <2>2. CASE a # caller
      BY <1>1, <1>2, <2>2 DEF DocumentOK
    <2>3. QED
      BY <2>1, <2>2
  <1>7. QED
    BY <1>2, <1>4, <1>5, <1>6 DEF DocumentOK

\* The required flag and the archive mark are not part of what a document's
\* invariant is about.
LEMMA FlagOK ==
  ASSUME NEW x, DocumentOK(x), NEW y,
         x.status # "absent",
         \/ \E required \in BOOLEAN : y = [x EXCEPT !.required = required]
         \/ y = [x EXCEPT !.status = "archived"]
  PROVE  DocumentOK(y)
  <1>1. /\ y \in Document
        /\ y.reviews = x.reviews
        /\ y.approvalCount = x.approvalCount
        /\ y.uploadedBy = x.uploadedBy
        /\ y.currentVersion = x.currentVersion
        /\ y.versionCount = x.versionCount
        /\ y.status # "absent"
    BY DEF DocumentOK, Document
  <1>2. QED
    BY <1>1 DEF DocumentOK

-----------------------------------------------------------------------------
(* The steps *)

\* create_document preserves the invariant.
LEMMA CreateDocumentInv ==
  ASSUME DocInv, NEW caller \in Address, NEW d \in Doc,
         NEW folder \in FolderInputs, NEW required \in BOOLEAN,
         CreateDocument(caller, d, folder, required)
  PROVE  DocInv'
  <1> DEFINE x == [status         |-> "live",
                   folder         |-> folder,
                   required       |-> required,
                   currentVersion |-> 1,
                   versionCount   |-> 1,
                   uploadedBy     |-> <<caller>>,
                   reviews        |-> [a \in Address |-> NotReviewed],
                   approvalCount  |-> 0]
  <1>1. docs' = [docs EXCEPT ![d] = x]
    BY DEF CreateDocument
  <1>2. folder \in Nat /\ <<caller>> \in Seq(Address) /\ Len(<<caller>>) = 1
    BY InputAssumption
  <1>3. x \in Document
    BY <1>2 DEF Document
  <1>4. /\ \A a \in Address : x.reviews[a] = NotReviewed
        /\ x.approvalCount = 0
        /\ x.currentVersion = x.versionCount
        /\ x.versionCount = Len(x.uploadedBy)
        /\ x.versionCount > 0
        /\ x.status # "absent"
    BY <1>2
  <1> HIDE DEF x
  <1>5. DocumentOK(x)
    BY <1>3, <1>4, NoReviewsOK
  <1>6. QED
    BY <1>1, <1>5, OneDocument

\* add_version preserves the invariant.
LEMMA AddVersionInv ==
  ASSUME DocInv, NEW caller \in Address, NEW d \in Doc, AddVersion(caller, d)
  PROVE  DocInv'
  <1> DEFINE x == docs[d]
             y == [x EXCEPT !.uploadedBy     = Append(@, caller),
                            !.currentVersion = x.versionCount + 1,
                            !.versionCount   = x.versionCount + 1]
  <1>1. docs' = [docs EXCEPT ![d] = y]
    BY DEF AddVersion, DocInv
  <1>2. DocumentOK(y)
    BY NewVersionOK DEF DocInv, AddVersion, HasDocument
  <1>3. QED
    BY <1>1, <1>2, OneDocument

\* submit_review preserves the invariant.
LEMMA SubmitReviewInv ==
  ASSUME DocInv, NEW caller \in Address, NEW d \in Doc, NEW status \in ReviewStatuses,
         SubmitReview(caller, d, status)
  PROVE  DocInv'
  <1> DEFINE x == docs[d]
             y == [x EXCEPT !.reviews[caller] = status,
                            !.approvalCount =
                                CountAfterReview(x.reviews[caller], status, @)]
  <1>1. docs' = [docs EXCEPT ![d] = y]
    BY DEF SubmitReview, DocInv
  <1>2. DocumentOK(x) /\ x.status # "absent" /\ caller # x.uploadedBy[x.currentVersion]
    BY DEF SubmitReview, DocInv, HasDocument, CurrentVersionUploader
  <1>3. DocumentOK(y)
    BY <1>2, ReviewOK
  <1>4. QED
    BY <1>1, <1>3, OneDocument

\* mark_as_required and archive_document preserve the invariant.
LEMMA FlagsInv ==
  ASSUME DocInv, NEW caller \in Address, NEW d \in Doc,
         \/ \E required \in BOOLEAN : MarkAsRequired(caller, d, required)
         \/ ArchiveDocument(caller, d)
  PROVE  DocInv'
  <1>1. CASE \E required \in BOOLEAN : MarkAsRequired(caller, d, required)
    <2>1. PICK required \in BOOLEAN : MarkAsRequired(caller, d, required)
      BY <1>1
    <2> DEFINE y == [docs[d] EXCEPT !.required = required]
    <2>2. docs' = [docs EXCEPT ![d] = y] /\ docs[d].status # "absent"
      BY <2>1 DEF MarkAsRequired, DocInv, HasDocument
    <2>3. DocumentOK(y)
      BY <2>2, FlagOK DEF DocInv
    <2>4. QED
      BY <2>2, <2>3, OneDocument
  <1>2. CASE ArchiveDocument(caller, d)
    <2> DEFINE y == [docs[d] EXCEPT !.status = "archived"]
    <2>1. docs' = [docs EXCEPT ![d] = y] /\ docs[d].status # "absent"
      BY <1>2 DEF ArchiveDocument, DocInv, HasDocument
    <2>2. DocumentOK(y)
      BY <2>1, FlagOK DEF DocInv
    <2>3. QED
      BY <2>1, <2>2, OneDocument
  <1>3. QED
    BY <1>1, <1>2

\* No document exists at first.
LEMMA DocInitInv == DocInit => DocInv
  <1> SUFFICES ASSUME DocInit PROVE DocInv
    OBVIOUS
  <1>1. AbsentDocument \in Document
    BY DEF AbsentDocument, Document
  <1>2. DocumentOK(AbsentDocument)
    BY <1>1, NoReviewsOK DEF AbsentDocument
  <1>3. QED
    BY <1>1, <1>2 DEF DocInit, DocInv

\* Every call on a document preserves the invariant.
LEMMA DocCallInv == DocInv /\ DocCallNext => DocInv'
  BY CreateDocumentInv, AddVersionInv, SubmitReviewInv, FlagsInv DEF DocCallNext

\* So does every step of the room and its documents.
LEMMA DocStepInv == DocInv /\ [DocumentsNext]_docVars => DocInv'
  <1> SUFFICES ASSUME DocInv, [DocumentsNext]_docVars
               PROVE  DocInv'
    OBVIOUS
  <1>1. CASE DocCallNext
    BY <1>1, DocCallInv
  <1>2. CASE UNCHANGED docs
    BY <1>2 DEF DocInv
  <1>3. QED
    BY <1>1, <1>2 DEF DocumentsNext, docVars

-----------------------------------------------------------------------------
(* The theorems about the documents *)

\* The documents' invariant holds in every state of every behaviour.
THEOREM DocInvariance == DocumentsSpec => []DocInv
  BY DocInitInv, DocStepInv, PTL DEF DocumentsSpec

\* The fields of document.move keep their types: the counters are natural numbers,
\* the reviews and the uploaders of versions belong to addresses, and the versions
\* 1..version_count exist, the last of them being the current one.
THEOREM DocumentsTyping == DocumentsSpec => []DocumentsTypeOK
  <1>1. DocInv => DocumentsTypeOK
    BY DocInvMeans
  <1>2. QED
    BY <1>1, DocInvariance, PTL

\* approval_count counts the reviewers whose record says APPROVED, in every
\* behaviour, for any number of reviewers, reviews and versions.
THEOREM ApprovalCounting == DocumentsSpec => []ApprovalCountExact
  <1>1. DocInv => ApprovalCountExact
    BY DocInvMeans
  <1>2. QED
    BY <1>1, DocInvariance, PTL

\* Versions are dense and the current one exists: current_version_uploader
\* never borrows a missing field.
THEOREM DenseVersions == DocumentsSpec => []VersionsDense
  <1>1. DocInv => VersionsDense
    BY DocInvMeans
  <1>2. QED
    BY <1>1, DocInvariance, PTL

\* Behind every standing approval there is a version of somebody else.
THEOREM TwoPeople == DocumentsSpec => []FourEyes
  <1>1. DocInv => FourEyes
    BY DocInvMeans
  <1>2. QED
    BY <1>1, DocInvariance, PTL

\* A room goes on as RoomSpec says while its documents are worked on, so what
\* is proved of RoomSpec holds of DocumentsSpec.
THEOREM RoomWithDocuments == DocumentsSpec => RoomSpec
  <1>1. RoomInit /\ DocInit => RoomInit
    OBVIOUS
  <1>2. DocCallNext => UNCHANGED roomVars
    <2>1. ASSUME NEW caller \in Address, NEW d \in Doc, NEW folder \in FolderInputs,
               NEW required \in BOOLEAN, CreateDocument(caller, d, folder, required)
        PROVE  UNCHANGED roomVars
      BY <2>1 DEF CreateDocument
    <2>2. ASSUME NEW caller \in Address, NEW d \in Doc, AddVersion(caller, d)
        PROVE  UNCHANGED roomVars
      BY <2>2 DEF AddVersion
    <2>3. ASSUME NEW caller \in Address, NEW d \in Doc, NEW status \in ReviewStatuses,
               SubmitReview(caller, d, status)
        PROVE  UNCHANGED roomVars
      BY <2>3 DEF SubmitReview
    <2>4. ASSUME NEW caller \in Address, NEW d \in Doc, NEW required \in BOOLEAN,
               MarkAsRequired(caller, d, required)
        PROVE  UNCHANGED roomVars
      BY <2>4 DEF MarkAsRequired
    <2>5. ASSUME NEW caller \in Address, NEW d \in Doc, ArchiveDocument(caller, d)
        PROVE  UNCHANGED roomVars
      BY <2>5 DEF ArchiveDocument
    <2>6. QED
      BY <2>1, <2>2, <2>3, <2>4, <2>5 DEF DocCallNext
  <1>3. [DocumentsNext]_docVars => [RoomNext]_roomVars
    BY <1>2 DEF DocumentsNext, docVars
  <1>4. QED
    BY <1>1, <1>3, PTL DEF DocumentsSpec, RoomSpec

-----------------------------------------------------------------------------
(* The history of a document *)

\* A call touches one document and leaves its versions as they were, or adds to
\* them; an archived document keeps everything but its required flag.
LEMMA DocCallEffect ==
  ASSUME DocInv, DocCallNext, NEW d \in Doc
  PROVE  /\ \A v \in DOMAIN docs[d].uploadedBy :
               /\ v \in DOMAIN docs'[d].uploadedBy
               /\ docs'[d].uploadedBy[v] = docs[d].uploadedBy[v]
         /\ IsArchived(d) =>
               docs'[d] = [docs[d] EXCEPT !.required = docs'[d].required]
  <1> DEFINE Kept == \A v \in DOMAIN docs[d].uploadedBy :
                        /\ v \in DOMAIN docs'[d].uploadedBy
                        /\ docs'[d].uploadedBy[v] = docs[d].uploadedBy[v]
             Frozen == IsArchived(d) =>
                          docs'[d] = [docs[d] EXCEPT !.required = docs'[d].required]
  <1>1. /\ docs \in [Doc -> Document] /\ docs[d] \in Document
        /\ docs[d].uploadedBy \in Seq(Address)
        /\ docs[d].versionCount = Len(docs[d].uploadedBy)
        /\ docs[d].status = "absent" => docs[d].versionCount = 0
    BY DEF DocInv, DocumentOK, Document
  <1>2. PICK caller \in Address, e \in Doc :
           \/ \E folder \in FolderInputs, required \in BOOLEAN :
                  CreateDocument(caller, e, folder, required)
           \/ AddVersion(caller, e)
           \/ \E status \in ReviewStatuses : SubmitReview(caller, e, status)
           \/ \E required \in BOOLEAN : MarkAsRequired(caller, e, required)
           \/ ArchiveDocument(caller, e)
    BY DEF DocCallNext
  <1>3. docs[d] = [docs[d] EXCEPT !.required = docs[d].required]
    BY <1>1 DEF Document
  <1>4. CASE docs'[d] = docs[d]
    BY <1>3, <1>4
  <1>5. CASE e = d
    <2>1. CASE \E folder \in FolderInputs, required \in BOOLEAN :
                  CreateDocument(caller, d, folder, required)
      <3>1. docs[d].status = "absent"
        BY <2>1 DEF CreateDocument, HasDocument
      <3>2. DOMAIN docs[d].uploadedBy = {}
        BY <1>1, <3>1
      <3>3. QED
        BY <3>1, <3>2 DEF IsArchived
    <2>2. CASE AddVersion(caller, d)
      <3>1. docs'[d].uploadedBy = Append(docs[d].uploadedBy, caller)
        BY <1>1, <2>2 DEF AddVersion, Document
      <3>2. ~IsArchived(d)
        BY <2>2 DEF AddVersion
      <3>3. QED
        BY <1>1, <3>1, <3>2
    <2>3. CASE \E status \in ReviewStatuses : SubmitReview(caller, d, status)
      BY <1>1, <2>3 DEF SubmitReview, Document
    <2>4. CASE \E required \in BOOLEAN : MarkAsRequired(caller, d, required)
      BY <1>1, <2>4 DEF MarkAsRequired, Document
    <2>5. CASE ArchiveDocument(caller, d)
      BY <1>1, <2>5 DEF ArchiveDocument, Document
    <2>6. QED
      BY <1>2, <1>5, <2>1, <2>2, <2>3, <2>4, <2>5
  <1>6. CASE e # d
    <2>1. docs'[d] = docs[d]
      BY <1>1, <1>2, <1>6
      DEF CreateDocument, AddVersion, SubmitReview, MarkAsRequired, ArchiveDocument
    <2>2. QED
      BY <1>4, <2>1
  <1>7. QED
    BY <1>5, <1>6

\* Version numbers only grow and uploaded versions are never replaced.
THEOREM AppendOnlyVersions == DocumentsSpec => VersionsAppendOnly
  <1> DEFINE Kept == \A d \in Doc : \A v \in DOMAIN docs[d].uploadedBy :
                        /\ v \in DOMAIN docs'[d].uploadedBy
                        /\ docs'[d].uploadedBy[v] = docs[d].uploadedBy[v]
  <1>1. DocInv /\ [DocumentsNext]_docVars => [Kept]_docVars
    BY DocCallEffect DEF DocumentsNext
  <1>2. QED
    BY <1>1, DocInvariance, PTL DEF DocumentsSpec, VersionsAppendOnly

\* Archiving is final: nothing of an archived document but its required flag
\* changes any more.
THEOREM ArchivingIsFinal == DocumentsSpec => ArchivedStaysFrozen
  <1> DEFINE Frozen == \A d \in Doc : IsArchived(d) =>
                          docs'[d] = [docs[d] EXCEPT !.required = docs'[d].required]
  <1>1. DocInv /\ UNCHANGED docs => Frozen
    BY DEF DocInv, Document
  <1>2. DocInv /\ [DocumentsNext]_docVars => [Frozen]_docVars
    BY <1>1, DocCallEffect DEF DocumentsNext
  <1>3. QED
    BY <1>2, DocInvariance, PTL DEF DocumentsSpec, ArchivedStaysFrozen

-----------------------------------------------------------------------------
(* The pool *)

(* The cached approval is current because a pool that was approved never    *)
(* comes back to a state in which the committee decides, and it never comes *)
(* back because the log says so: the three facts are inductive together.    *)
PoolInv ==
    /\ PoolTypeOK
    /\ CachedApprovalIsCurrent
    /\ StateMatchesLastDecision

-----------------------------------------------------------------------------
(* The committee's decisions *)

\* What a decision changes, and what it leads to.
LEMMA DecisionEffect ==
  ASSUME PoolInv, NEW caller \in Address, NEW committee, NEW votes,
         NEW type \in ICDecisionTypes, NEW outcome,
         RecordIcDecision(caller, committee, votes, type, outcome)
  PROVE  /\ poolState = "IC_REVIEW"
         /\ poolState' = outcome
         /\ <<"IC_REVIEW", outcome>> \in ValidTransitions
         /\ icDecisionCount' = icDecisionCount + 1
         /\ icDecisions' = [i \in 0 .. icDecisionCount |->
                              IF i = icDecisionCount THEN type ELSE icDecisions[i]]
         /\ hasIcApprovalCached' = (hasIcApprovalCached \/ type = "APPROVE")
  <1>1. /\ poolState = "IC_REVIEW"
        /\ AttachIcDecision(type)
        /\ SetState(outcome)
    BY DEF RecordIcDecision
  <1>2. icDecisionCount \in Nat /\ DOMAIN icDecisions = 0 .. icDecisionCount - 1
    BY DEF PoolInv, PoolTypeOK
  <1>3. DOMAIN icDecisions \union {icDecisionCount} = 0 .. icDecisionCount
    BY <1>2
  <1>4. icDecisions' = [i \in 0 .. icDecisionCount |->
                           IF i = icDecisionCount THEN type ELSE icDecisions[i]]
    BY <1>1, <1>3 DEF AttachIcDecision
  <1>5. QED
    BY <1>1, <1>2, <1>4 DEF AttachIcDecision, SetState

\* A decision recorded with its own outcome preserves the invariant.
LEMMA DecisionInv ==
  ASSUME PoolInv, NEW caller \in Address, NEW committee, NEW votes,
         NEW type \in ICDecisionTypes, NEW outcome,
         \/ type = "APPROVE" /\ outcome = "APPROVED_INTERNAL"
         \/ type = "REJECT" /\ outcome = "REJECTED"
         \/ type = "REQUEST_CHANGES" /\ outcome = "DD_IN_PROGRESS",
         RecordIcDecision(caller, committee, votes, type, outcome)
  PROVE  PoolInv'
  <1>1. /\ poolState = "IC_REVIEW" /\ poolState' = outcome
        /\ icDecisionCount' = icDecisionCount + 1
        /\ icDecisions' = [i \in 0 .. icDecisionCount |->
                              IF i = icDecisionCount THEN type ELSE icDecisions[i]]
        /\ hasIcApprovalCached' = (hasIcApprovalCached \/ type = "APPROVE")
    BY DecisionEffect
  <1>2. /\ icDecisionCount \in Nat /\ icDecisionCount' \in Nat
        /\ icDecisionCount' - 1 = icDecisionCount
        /\ DOMAIN icDecisions = 0 .. icDecisionCount - 1
        /\ \A i \in DOMAIN icDecisions : icDecisions[i] \in ICDecisionTypes
    BY <1>1 DEF PoolInv, PoolTypeOK
  <1>3. \A i \in DOMAIN icDecisions : icDecisions[i] # "APPROVE"
    BY <1>1 DEF PoolInv, StateMatchesLastDecision
  <1>4. hasIcApprovalCached = FALSE
    BY <1>1 DEF PoolInv, CachedApprovalIsCurrent, PoolTypeOK
  <1>5. \A i \in 0 .. icDecisionCount : i # icDecisionCount => i \in DOMAIN icDecisions
    BY <1>2
  <1>6. PoolTypeOK'
    <2>1. icDecisions' \in [0 .. icDecisionCount' - 1 -> ICDecisionTypes]
      BY <1>1, <1>2, <1>5
    <2>2. QED
      BY <1>1, <1>2, <1>4, <2>1 DEF PoolTypeOK, PoolStates
  <1>7. CachedApprovalIsCurrent'
    BY <1>1, <1>4 DEF CachedApprovalIsCurrent
  <1>8. StateMatchesLastDecision'
    <2>1. /\ DOMAIN icDecisions' = 0 .. icDecisionCount
          /\ icDecisions'[icDecisionCount] = type
          /\ icDecisionCount >= 0
      BY <1>1, <1>2
    <2>2. \A i \in DOMAIN icDecisions' :
             icDecisions'[i] = "APPROVE" => i = icDecisionCount /\ type = "APPROVE"
      BY <1>1, <1>3, <1>5, <2>1
    <2>3. QED
      BY <1>1, <1>2, <2>1, <2>2 DEF StateMatchesLastDecision
  <1>9. QED
    BY <1>6, <1>7, <1>8 DEF PoolInv

-----------------------------------------------------------------------------
(* The plain moves *)

\* A move that leaves the decisions alone, and neither enters nor leaves the
\* states after an approval nor enters a rejection, preserves the invariant.
LEMMA PlainMoveInv ==
  ASSUME PoolInv, UNCHANGED decisionVars,
         poolState' \in PoolStates \ {"REJECTED"},
         poolState' \in {"APPROVED_INTERNAL", "READY_TO_ISSUE"}
            <=> poolState \in {"APPROVED_INTERNAL", "READY_TO_ISSUE"}
  PROVE  PoolInv'
  <1>1. PoolTypeOK' /\ CachedApprovalIsCurrent'
    BY DEF PoolInv, PoolTypeOK, CachedApprovalIsCurrent, decisionVars
  <1>2. StateMatchesLastDecision'
    BY DEF PoolInv, StateMatchesLastDecision, decisionVars
  <1>3. QED
    BY <1>1, <1>2 DEF PoolInv

\* Every entry function of pool_entry.move preserves the invariant.
LEMMA PoolCallInv == PoolInv /\ PoolCallNext => PoolInv'
  <1> SUFFICES ASSUME PoolInv, NEW caller \in Address,
                      \/ ProgressToDd(caller)
                      \/ \E ids \in SUBSET Doc : ProgressToIcReview(caller, ids)
                      \/ \E committee, votes \in CommitteeInputs :
                             \/ RecordIcApproval(caller, committee, votes)
                             \/ RecordIcRejection(caller, committee, votes)
                             \/ RecordIcRequestChanges(caller, committee, votes)
                      \/ \E ids \in SUBSET Doc : ProgressToReadyToIssue(caller, ids)
                      \/ CancelPool(caller)
                      \/ ReopenRejectedPool(caller)
               PROVE  PoolInv'
    BY DEF PoolCallNext
  <1>1. CASE ProgressToDd(caller)
    BY <1>1, PlainMoveInv DEF ProgressToDd, SetState, PoolStates
  <1>2. CASE \E ids \in SUBSET Doc : ProgressToIcReview(caller, ids)
    BY <1>2, PlainMoveInv DEF ProgressToIcReview, SetState, PoolStates
  <1>3. ASSUME NEW committee \in CommitteeInputs, NEW votes \in CommitteeInputs,
               RecordIcApproval(caller, committee, votes)
        PROVE  PoolInv'
    BY <1>3, DecisionInv DEF RecordIcApproval, ICDecisionTypes
  <1>4. ASSUME NEW committee \in CommitteeInputs, NEW votes \in CommitteeInputs,
               RecordIcRejection(caller, committee, votes)
        PROVE  PoolInv'
    BY <1>4, DecisionInv DEF RecordIcRejection, ICDecisionTypes
  <1>5. ASSUME NEW committee \in CommitteeInputs, NEW votes \in CommitteeInputs,
               RecordIcRequestChanges(caller, committee, votes)
        PROVE  PoolInv'
    BY <1>5, DecisionInv DEF RecordIcRequestChanges, ICDecisionTypes
  <1>6. CASE \E ids \in SUBSET Doc : ProgressToReadyToIssue(caller, ids)
    BY <1>6, PlainMoveInv DEF ProgressToReadyToIssue, SetState, PoolStates
  <1>7. CASE CancelPool(caller)
    BY <1>7, PlainMoveInv DEF CancelPool, SetState, PoolStates
  <1>8. CASE ReopenRejectedPool(caller)
    BY <1>8, PlainMoveInv DEF ReopenRejectedPool, SetState, PoolStates
  <1>9. QED
    BY <1>1, <1>2, <1>3, <1>4, <1>5, <1>6, <1>7, <1>8

-----------------------------------------------------------------------------
(* The pool's invariant *)

\* A new pool is a draft without decisions.
LEMMA PoolInitInv == PoolInit => PoolInv
  <1> SUFFICES ASSUME PoolInit PROVE PoolInv
    OBVIOUS
  <1>1. 0 .. icDecisionCount - 1 = {} /\ DOMAIN icDecisions = {}
    BY DEF PoolInit
  <1>2. icDecisions \in [0 .. icDecisionCount - 1 -> ICDecisionTypes]
    BY <1>1 DEF PoolInit
  <1>3. QED
    BY <1>1, <1>2
    DEF PoolInit, PoolInv, PoolTypeOK, CachedApprovalIsCurrent,
        StateMatchesLastDecision, PoolStates

\* Every step of the system preserves the invariant.
LEMMA PoolStepInv == PoolInv /\ [Next]_vars => PoolInv'
  <1> SUFFICES ASSUME PoolInv, [Next]_vars
               PROVE  PoolInv'
    OBVIOUS
  <1>1. CASE PoolCallNext
    BY <1>1, PoolCallInv
  <1>2. CASE UNCHANGED poolVars
    BY <1>2 DEF poolVars, PoolInv, PoolTypeOK, CachedApprovalIsCurrent,
                StateMatchesLastDecision
  <1>3. QED
    BY <1>1, <1>2 DEF Next, vars, poolVars

\* The invariant holds in every state of every behaviour.
THEOREM PoolInvariance == Spec => []PoolInv
  BY PoolInitInv, PoolStepInv, PTL DEF Spec, Init

\* Types: in particular the decisions are dense, so that df::add never meets an
\* index in use.
THEOREM PoolTyping == Spec => []PoolTypeOK
  <1>1. PoolInv => PoolTypeOK
    BY DEF PoolInv
  <1>2. QED
    BY <1>1, PoolInvariance, PTL

\* The flag progress_to_ready_to_issue trusts is never stale.
THEOREM ApprovalNeverStale == Spec => []CachedApprovalIsCurrent
  <1>1. PoolInv => CachedApprovalIsCurrent
    BY DEF PoolInv
  <1>2. QED
    BY <1>1, PoolInvariance, PTL

\* The state of the pool is the one its newest decision asked for.
THEOREM StateFollowsDecisions == Spec => []StateMatchesLastDecision
  <1>1. PoolInv => StateMatchesLastDecision
    BY DEF PoolInv
  <1>2. QED
    BY <1>1, PoolInvariance, PTL

-----------------------------------------------------------------------------
(* The documented lifecycle *)

\* Decisions stored under 0 .. n - 1 make a sequence of length n.
LEMMA DecisionSeq ==
  ASSUME NEW n \in Nat, NEW f \in [0 .. n - 1 -> ICDecisionTypes],
         NEW s, s = [i \in 1 .. n |-> f[i - 1]]
  PROVE  s \in Seq(ICDecisionTypes) /\ Len(s) = n
  <1>1. \A i \in 1 .. n : f[i - 1] \in ICDecisionTypes
    OBVIOUS
  <1>2. QED
    BY <1>1

\* A recorded decision is appended to the log.
LEMMA DecisionAppends ==
  ASSUME NEW n \in Nat, NEW f \in [0 .. n - 1 -> ICDecisionTypes],
         NEW type \in ICDecisionTypes,
         NEW g, g = [i \in 0 .. n |-> IF i = n THEN type ELSE f[i]],
         NEW s, s = [i \in 1 .. n |-> f[i - 1]],
         NEW t, t = [i \in 1 .. n + 1 |-> g[i - 1]]
  PROVE  t = Append(s, type)
  <1>1. s \in Seq(ICDecisionTypes) /\ Len(s) = n
    BY DecisionSeq
  <1>2. t \in Seq(ICDecisionTypes) /\ Len(t) = n + 1
    <2>1. n + 1 \in Nat /\ g \in [0 .. (n + 1) - 1 -> ICDecisionTypes]
      OBVIOUS
    <2>2. QED
      BY <2>1, DecisionSeq
  <1>3. /\ Append(s, type) \in Seq(ICDecisionTypes)
        /\ Len(Append(s, type)) = n + 1
        /\ \A i \in 1 .. n : Append(s, type)[i] = s[i]
        /\ Append(s, type)[n + 1] = type
    BY <1>1
  <1>4. \A i \in 1 .. n + 1 : t[i] = Append(s, type)[i]
    <2> SUFFICES ASSUME NEW i \in 1 .. n + 1
                 PROVE  t[i] = Append(s, type)[i]
      OBVIOUS
    <2>1. CASE i = n + 1
      BY <1>3, <2>1
    <2>2. CASE i \in 1 .. n
      <3>1. s[i] = f[i - 1] /\ i - 1 \in 0 .. n /\ i - 1 # n
        BY <2>2
      <3>2. t[i] = f[i - 1]
        BY <3>1
      <3>3. QED
        BY <1>3, <2>2, <3>1, <3>2
    <2>3. QED
      BY <2>1, <2>2
  <1>5. QED
    BY <1>2, <1>3, <1>4, SeqEqual

\* A new pool is a new deal.
LEMMA LifecycleInit == PoolInit => Lifecycle!Init
  <1> SUFFICES ASSUME PoolInit PROVE Lifecycle!Init
    OBVIOUS
  <1>1. DecisionLog \in Seq(ICDecisionTypes) /\ Len(DecisionLog) = 0
    <2>1. 0 \in Nat /\ icDecisions \in [0 .. 0 - 1 -> ICDecisionTypes]
      BY PoolInitInv DEF PoolInit, PoolInv, PoolTypeOK
    <2>2. DecisionLog = [i \in 1 .. 0 |-> icDecisions[i - 1]]
      BY DEF DecisionLog, PoolInit
    <2>3. QED
      BY <2>1, <2>2, DecisionSeq
  <1>2. DecisionLog = <<>>
    BY <1>1, EmptySeq
  <1>3. QED
    BY <1>2 DEF Lifecycle!Init, PoolInit

\* Every entry function is a step of the deal.
LEMMA LifecycleStep == PoolInv /\ PoolCallNext => Lifecycle!Next
  <1> SUFFICES ASSUME PoolInv, PoolCallNext PROVE Lifecycle!Next
    OBVIOUS
  <1>1. ASSUME UNCHANGED decisionVars,
               <<poolState, poolState'>> \in Lifecycle!PlainMoves
        PROVE  Lifecycle!Next
    <2>1. UNCHANGED DecisionLog
      BY <1>1 DEF DecisionLog, decisionVars
    <2>2. QED
      BY <1>1, <2>1 DEF Lifecycle!Next, Lifecycle!Move
  <1>2. ASSUME NEW caller \in Address, NEW committee, NEW votes,
               NEW type \in ICDecisionTypes,
               RecordIcDecision(caller, committee, votes, type, Lifecycle!Outcome[type])
        PROVE  Lifecycle!Next
    <2>1. /\ poolState = "IC_REVIEW" /\ poolState' = Lifecycle!Outcome[type]
          /\ icDecisionCount' = icDecisionCount + 1
          /\ icDecisions' = [i \in 0 .. icDecisionCount |->
                                IF i = icDecisionCount THEN type ELSE icDecisions[i]]
      BY <1>2, DecisionEffect
    <2>2. DecisionLog' = Append(DecisionLog, type)
      <3>1. /\ icDecisionCount \in Nat
            /\ icDecisions \in [0 .. icDecisionCount - 1 -> ICDecisionTypes]
        BY DEF PoolInv, PoolTypeOK
      <3>2. DecisionLog' = [i \in 1 .. icDecisionCount + 1 |-> icDecisions'[i - 1]]
        BY <2>1 DEF DecisionLog
      <3>3. QED
        BY <2>1, <3>1, <3>2, DecisionAppends DEF DecisionLog
    <2>3. QED
      BY <2>1, <2>2
      DEF Lifecycle!Next, Lifecycle!Decide, Lifecycle!ICDecisionTypes, ICDecisionTypes
  <1>3. PICK caller \in Address :
           \/ ProgressToDd(caller)
           \/ \E ids \in SUBSET Doc : ProgressToIcReview(caller, ids)
           \/ \E committee, votes \in CommitteeInputs :
                  \/ RecordIcApproval(caller, committee, votes)
                  \/ RecordIcRejection(caller, committee, votes)
                  \/ RecordIcRequestChanges(caller, committee, votes)
           \/ \E ids \in SUBSET Doc : ProgressToReadyToIssue(caller, ids)
           \/ CancelPool(caller)
           \/ ReopenRejectedPool(caller)
    BY DEF PoolCallNext
  <1>4. CASE ProgressToDd(caller)
    BY <1>1, <1>4 DEF ProgressToDd, SetState, Lifecycle!PlainMoves
  <1>5. CASE \E ids \in SUBSET Doc : ProgressToIcReview(caller, ids)
    BY <1>1, <1>5 DEF ProgressToIcReview, SetState, Lifecycle!PlainMoves
  <1>6. ASSUME NEW committee \in CommitteeInputs, NEW votes \in CommitteeInputs,
               RecordIcApproval(caller, committee, votes)
        PROVE  Lifecycle!Next
    BY <1>2, <1>6 DEF RecordIcApproval, ICDecisionTypes, Lifecycle!Outcome
  <1>7. ASSUME NEW committee \in CommitteeInputs, NEW votes \in CommitteeInputs,
               RecordIcRejection(caller, committee, votes)
        PROVE  Lifecycle!Next
    BY <1>2, <1>7 DEF RecordIcRejection, ICDecisionTypes, Lifecycle!Outcome
  <1>8. ASSUME NEW committee \in CommitteeInputs, NEW votes \in CommitteeInputs,
               RecordIcRequestChanges(caller, committee, votes)
        PROVE  Lifecycle!Next
    BY <1>2, <1>8 DEF RecordIcRequestChanges, ICDecisionTypes, Lifecycle!Outcome
  <1>9. CASE \E ids \in SUBSET Doc : ProgressToReadyToIssue(caller, ids)
    BY <1>1, <1>9 DEF ProgressToReadyToIssue, SetState, Lifecycle!PlainMoves
  <1>10. CASE CancelPool(caller)
    BY <1>1, <1>10 DEF CancelPool, SetState, Lifecycle!PlainMoves
  <1>11. CASE ReopenRejectedPool(caller)
    BY <1>1, <1>11 DEF ReopenRejectedPool, SetState, Lifecycle!PlainMoves
  <1>12. QED
    BY <1>3, <1>4, <1>5, <1>6, <1>7, <1>8, <1>9, <1>10, <1>11

\* The contract implements the lifecycle: its pool starts as a new deal, and
\* each call moves the deal or leaves it as it is.
THEOREM PoolImplementsLifecycle == Spec => ImplementsLifecycle
  <1>1. Init => Lifecycle!Init
    BY LifecycleInit DEF Init
  <1>2. PoolInv /\ [Next]_vars => [Lifecycle!Next]_(Lifecycle!lifecycleVars)
    <2> SUFFICES ASSUME PoolInv, [Next]_vars
                 PROVE  [Lifecycle!Next]_(Lifecycle!lifecycleVars)
      OBVIOUS
    <2>1. CASE PoolCallNext
      BY <2>1, LifecycleStep
    <2>2. CASE UNCHANGED poolVars
      BY <2>2 DEF poolVars, Lifecycle!lifecycleVars, DecisionLog
    <2>3. QED
      BY <2>1, <2>2 DEF Next, vars, poolVars
  <1>3. QED
    BY <1>1, <1>2, PoolInvariance, PTL DEF Spec, ImplementsLifecycle, Lifecycle!Spec

-----------------------------------------------------------------------------
(* The parts inside the whole *)

\* Around a deal, the room and its documents go on as DocumentsSpec says: the
\* entry functions of the pool only read them.
THEOREM DealKeepsDocuments == Spec => DocumentsSpec
  <1>1. Init => RoomInit /\ DocInit
    BY DEF Init
  <1>2. PoolCallNext => UNCHANGED docVars
    BY DEF PoolCallNext, ProgressToDd, ProgressToIcReview, RecordIcApproval,
           RecordIcRejection, RecordIcRequestChanges, RecordIcDecision,
           ProgressToReadyToIssue, CancelPool, ReopenRejectedPool, docVars
  <1>3. [Next]_vars => [DocumentsNext]_docVars
    BY <1>2 DEF Next, vars, docVars
  <1>4. QED
    BY <1>1, <1>3, PTL DEF Spec, DocumentsSpec

\* What was proved of the parts holds of the whole package.
THEOREM DealInvariance == Spec => [](RoomInv /\ DocInv /\ PoolInv)
  BY DealKeepsDocuments, RoomWithDocuments, RoomInvariance, DocInvariance,
     PoolInvariance, PTL

\* In a paused platform nothing but the administrator's own configuration
\* changes.
THEOREM PauseHolds == Spec => PauseFreezes
  <1> DEFINE Frozen == UNCHANGED <<memberVars, folderVars, folderKeys, docs, poolVars>>
  <1>1. RoomNext /\ paused => UNCHANGED <<memberVars, folderVars, folderKeys>>
    BY DEF RoomNext, AdminNext, Pause, Unpause, UpdateConfig, RoomCallNext, AddMember,
           RemoveMember, UpdateMemberRole, CreateCustomFolder, StoreEncryptedFolderKey
  <1>2. DocCallNext => ~paused
    <2>1. ASSUME NEW caller \in Address, NEW d \in Doc, NEW folder \in FolderInputs,
               NEW required \in BOOLEAN, CreateDocument(caller, d, folder, required)
        PROVE  ~paused
      BY <2>1 DEF CreateDocument
    <2>2. ASSUME NEW caller \in Address, NEW d \in Doc, AddVersion(caller, d)
        PROVE  ~paused
      BY <2>2 DEF AddVersion
    <2>3. ASSUME NEW caller \in Address, NEW d \in Doc, NEW status \in ReviewStatuses,
               SubmitReview(caller, d, status)
        PROVE  ~paused
      BY <2>3 DEF SubmitReview
    <2>4. ASSUME NEW caller \in Address, NEW d \in Doc, NEW required \in BOOLEAN,
               MarkAsRequired(caller, d, required)
        PROVE  ~paused
      BY <2>4 DEF MarkAsRequired
    <2>5. ASSUME NEW caller \in Address, NEW d \in Doc, ArchiveDocument(caller, d)
        PROVE  ~paused
      BY <2>5 DEF ArchiveDocument
    <2>6. QED
      BY <2>1, <2>2, <2>3, <2>4, <2>5 DEF DocCallNext
  <1>3. PoolCallNext => ~paused
    BY DEF PoolCallNext, ProgressToDd, ProgressToIcReview, RecordIcApproval,
           RecordIcRejection, RecordIcRequestChanges, RecordIcDecision,
           ProgressToReadyToIssue, CancelPool, ReopenRejectedPool, Permitted
  <1>4. [Next]_vars => [paused => Frozen]_vars
    BY <1>1, <1>2, <1>3 DEF Next, DocumentsNext
  <1>5. QED
    BY <1>4, PTL DEF Spec, PauseFreezes
=============================================================================
