------------------------------ MODULE EventChain ------------------------------
(***************************************************************************)
(* What the indexer reads: the events the package emits for one pool, in   *)
(* the order the chain hands them out.  A transaction appends all of its   *)
(* events in one step, and an event is known by its place in the sequence, *)
(* which stands for the pair (tx digest, event sequence number).           *)
(*                                                                         *)
(* Two emissions are considered.  "package" is what the Move sources do:   *)
(* create_pool emits DataRoomCreated and MemberAdded before PoolCreated,   *)
(* and the dataroom_id of MemberAdded and MemberRemoved carries the id of  *)
(* the pool.  "assumed" is what the handlers of the indexer are written    *)
(* for: the pool first, and member events that name their data room.       *)
(***************************************************************************)
EXTENDS RoomTypes, Integers, Sequences, FiniteSetsExt

CONSTANTS
    User,        \* the addresses that hold or are given a role
    Owner,       \* the creator of the pool
    Doc,         \* the documents
    RoleInputs,  \* the role masks members are given
    Emissions,   \* the emissions considered
    MaxTxs       \* bound of the model on the transactions

ASSUME ChainAssumption ==
    /\ Owner \in User
    /\ RoleInputs \subseteq SUBSET Roles
    /\ Emissions \subseteq {"package", "assumed"}
    /\ MaxTxs \in Nat

VARIABLES
    emission,  \* which of the two emissions this chain follows
    chain,     \* the events so far
    txs        \* the number of transactions so far

chainVars == <<emission, chain, txs>>

-----------------------------------------------------------------------------
(* events.move.  Fields no handler reads are left out. *)

MemberRoomField == IF emission = "package" THEN "pool" ELSE "room"

PoolCreated         == [kind |-> "PoolCreated"]
DataRoomCreated     == [kind |-> "DataRoomCreated"]
PoolCancelled       == [kind |-> "PoolCancelled"]
AuditEvent          == [kind |-> "AuditEvent"]
PoolStateChanged(s) == [kind |-> "PoolStateChanged", to |-> s]
MemberAdded(u, r)   == [kind |-> "MemberAdded", room |-> MemberRoomField,
                        user |-> u, role |-> r]
MemberRemoved(u)    == [kind |-> "MemberRemoved", room |-> MemberRoomField, user |-> u]
MemberRoleUpdated(u, r) ==
    [kind |-> "MemberRoleUpdated", room |-> "room", user |-> u, role |-> r]
DocumentCreated(d)  == [kind |-> "DocumentCreated", doc |-> d, version |-> 1]
DocumentVersionAdded(d, v) ==
    [kind |-> "DocumentVersionAdded", doc |-> d, version |-> v]
DocumentReviewed(d, u, s) ==
    [kind |-> "DocumentReviewed", doc |-> d, user |-> u, status |-> s]
DocumentArchived(d) == [kind |-> "DocumentArchived", doc |-> d]
ICDecisionCreated(i, t) == [kind |-> "ICDecisionCreated", index |-> i, type |-> t]

-----------------------------------------------------------------------------
(* The state of the package after the first n events, told by the events.   *)

MemberKinds == {"MemberAdded", "MemberRemoved", "MemberRoleUpdated"}

Places(n, kinds) == {i \in 1 .. n : chain[i].kind \in kinds}

Last(S) == Max(S)

MemberPlaces(n, u) == {i \in Places(n, MemberKinds) : chain[i].user = u}

ActiveAfter(n, u) ==
    LET S == {i \in MemberPlaces(n, u) : chain[i].kind # "MemberRoleUpdated"}
    IN S # {} /\ chain[Last(S)].kind = "MemberAdded"

RoleAfter(n, u) ==
    chain[Last({i \in MemberPlaces(n, u) : chain[i].kind # "MemberRemoved"})].role

VersionsAfter(n, d) ==
    Cardinality({i \in Places(n, {"DocumentCreated", "DocumentVersionAdded"}) :
                     chain[i].doc = d})

ReviewPlaces(n, d, u) ==
    {i \in Places(n, {"DocumentReviewed"}) : chain[i].doc = d /\ chain[i].user = u}

StateAfter(n) ==
    LET S == Places(n, {"PoolStateChanged"})
    IN IF S = {} THEN "DRAFT" ELSE chain[Last(S)].to

DecisionsAfter(n) ==
    {<<chain[i].index, chain[i].type>> : i \in Places(n, {"ICDecisionCreated"})}

\* The same at the head of the chain.
Created       == chain # <<>>
Active(u)     == ActiveAfter(Len(chain), u)
Versions(d)   == VersionsAfter(Len(chain), d)
Archived(d)   == \E i \in Places(Len(chain), {"DocumentArchived"}) : chain[i].doc = d
CurrentState  == StateAfter(Len(chain))

-----------------------------------------------------------------------------
(* The entry functions, as far as their events go. *)

Emit(events) ==
    /\ txs < MaxTxs
    /\ txs' = txs + 1
    /\ chain' = chain \o events
    /\ UNCHANGED emission

\* create_pool builds the data room, which emits, before it emits itself.
CreatePool ==
    /\ ~Created
    /\ Emit(IF emission = "package"
            THEN <<DataRoomCreated, MemberAdded(Owner, {"OWNER"}), PoolCreated>>
            ELSE <<PoolCreated, DataRoomCreated, MemberAdded(Owner, {"OWNER"})>>)

AddMember(u, r) ==
    /\ Created /\ ~Active(u)
    /\ Emit(<<MemberAdded(u, r), AuditEvent>>)

RemoveMember(u) ==
    /\ u # Owner /\ Active(u)
    /\ Emit(<<MemberRemoved(u), AuditEvent>>)

UpdateMemberRole(u, r) ==
    /\ u # Owner /\ Active(u)
    /\ Emit(<<MemberRoleUpdated(u, r), AuditEvent>>)

CreateDocument(d) ==
    /\ Created /\ Versions(d) = 0
    /\ Emit(<<DocumentCreated(d), AuditEvent>>)

AddVersion(d) ==
    /\ Versions(d) > 0 /\ ~Archived(d)
    /\ Emit(<<DocumentVersionAdded(d, Versions(d) + 1), AuditEvent>>)

\* The owner does the uploading here, so that every other reviewer passes the
\* check against reviewing one's own version.
SubmitReview(d, u, s) ==
    /\ Versions(d) > 0 /\ ~Archived(d)
    /\ u # Owner /\ Active(u) /\ HasRole(RoleAfter(Len(chain), u), ReviewerUp)
    /\ Emit(<<DocumentReviewed(d, u, s), AuditEvent>>)

ArchiveDocument(d) ==
    /\ Versions(d) > 0 /\ ~Archived(d)
    /\ Emit(<<DocumentArchived(d), AuditEvent>>)

\* progress_to_dd, progress_to_ic_review, progress_to_ready_to_issue, reopen.
PlainMoves == {<<"DRAFT", "DD_IN_PROGRESS">>, <<"DD_IN_PROGRESS", "IC_REVIEW">>,
               <<"APPROVED_INTERNAL", "READY_TO_ISSUE">>, <<"REJECTED", "DRAFT">>}

MovePool(s) ==
    /\ Created /\ <<CurrentState, s>> \in PlainMoves
    /\ Emit(<<PoolStateChanged(s), AuditEvent>>)

CancelPool ==
    /\ Created /\ CurrentState \in {"DRAFT", "DD_IN_PROGRESS"}
    /\ Emit(<<PoolCancelled, PoolStateChanged("CANCELLED"), AuditEvent>>)

Outcome == [APPROVE |-> "APPROVED_INTERNAL", REJECT |-> "REJECTED",
            REQUEST_CHANGES |-> "DD_IN_PROGRESS"]

RecordIcDecision(t) ==
    /\ Created /\ CurrentState = "IC_REVIEW"
    /\ Emit(<<ICDecisionCreated(Cardinality(DecisionsAfter(Len(chain))), t),
              PoolStateChanged(Outcome[t]), AuditEvent>>)

ChainInit == emission \in Emissions /\ chain = <<>> /\ txs = 0

ChainNext ==
    \/ CreatePool
    \/ \E u \in User : \/ \E r \in RoleInputs : AddMember(u, r) \/ UpdateMemberRole(u, r)
                       \/ RemoveMember(u)
    \/ \E d \in Doc : \/ CreateDocument(d) \/ AddVersion(d) \/ ArchiveDocument(d)
                      \/ \E u \in User, s \in ReviewStatuses : SubmitReview(d, u, s)
    \/ \E s \in PoolStates : MovePool(s)
    \/ CancelPool
    \/ \E t \in ICDecisionTypes : RecordIcDecision(t)
=============================================================================
