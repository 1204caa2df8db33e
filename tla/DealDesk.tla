------------------------------- MODULE DealDesk -------------------------------
(***************************************************************************)
(* What users do with a pool through the API once it exists.  The API has  *)
(* no key of its own: an endpoint looks into the tables the indexer keeps, *)
(* builds a transaction for the chain, which runs it dry, and hands it to  *)
(* the caller; his wallet signs it, and POST /pools/:id/sign executes it.  *)
(* Between these steps the chain moves on, the tables lag behind, and an   *)
(* answer may be lost.  The package itself is Pool and what it extends.    *)
(*                                                                         *)
(* Beside them, the endpoints that decide on rows alone: the checklist     *)
(* and the details of a pool.                                              *)
(***************************************************************************)
EXTENDS PoolWizard

CONSTANTS
    Item,          \* checklist items: a folder and a name
    StatusInputs,  \* the statuses updates set
    Slots,         \* the places of calls under way at once
    MaxCalls,      \* bound of the model on calls
    MaxElsewhere   \*   and on the transactions of other clients before them


VARIABLES
    rows,       \* what the tables know of the pool
    checklist,  \* pool_checklist_items; a row is known by its place
    calls,      \* the calls under way
    started,    \* history: calls so far,
    elsewhere,  \*   transactions of other clients,
    said        \*   and the verdict each reviewer last sent on a document

deskVars == <<rows, checklist, calls, started, elsewhere, said>>
allVars  == <<vars, wizardVars, deskVars>>

-----------------------------------------------------------------------------
(* The tables *)

ItemStatuses == {"missing", "uploaded", "reviewed", "needs_revision"}

ASSUME DeskAssumption ==
    StatusInputs \subseteq ItemStatuses /\ MaxCalls \in Nat /\ MaxElsewhere \in Nat

\* pools.org_id is a placeholder until somebody outside this code corrects it.
PoolRow == {"none", "placeholder", "home"}

TableRows ==
    [pool : PoolRow, room : BOOLEAN, docs : SUBSET Doc,
     members : [Address -> {"none", "active", "revoked"}]]

ChecklistRow == [item : Item, status : ItemStatuses \union {"deleted"}]

\* idx_pool_checklist_items: one row for a pool, a folder and a name.
Listed(item) ==
    \E i \in DOMAIN checklist : checklist[i].item = item /\ checklist[i].status # "deleted"

\* findById, and the comparison of the organisations.
PoolAccess == rows.pool = "home"

\* The document is looked up, and belongs to the pool.
DocumentAccess(d) == PoolAccess /\ d \in rows.docs

-----------------------------------------------------------------------------
(* Transactions: what the builders of SuiTxService put into them *)

Transitions      == {"progress_to_dd", "reopen_rejected_pool"}
GatedTransitions == {"progress_to_ic_review", "progress_to_ready_to_issue"}
Decisions        == {"record_ic_approval", "record_ic_rejection", "record_ic_request_changes"}

PoolTx ==
    [fun : Transitions \union {"cancel_pool"}, sender : Address]
    \union [fun : GatedTransitions, sender : Address, ids : SUBSET Doc]

RoomTx ==
    [fun : {"add_member", "update_member_role"}, sender : Address, member : Address, role : RoleInputs]
    \union [fun : {"remove_member"}, sender : Address, member : Address]
    \union [fun : {"create_custom_folder"}, sender : Address,
            parent : FolderInputs \union {NoParent}]

DocumentTx ==
    [fun : {"create_document"}, sender : Address, folder : FolderInputs, required : BOOLEAN]
    \union [fun : {"add_version", "archive_document"}, sender : Address, doc : Doc]

ReviewTx == [fun : {"submit_review"}, sender : Address, doc : Doc, status : 0..2]

DecisionTx == [fun : Decisions, sender : Address, members : CommitteeInputs, votes : CommitteeInputs]

StateTransitionTx(u, fun)           == [fun |-> fun, sender |-> u]
GatedTransitionTx(u, fun, ids)      == [fun |-> fun, sender |-> u, ids |-> ids]
AddMemberTx(u, a, r)                == [fun |-> "add_member", sender |-> u, member |-> a, role |-> r]
RemoveMemberTx(u, a)                == [fun |-> "remove_member", sender |-> u, member |-> a]
UpdateMemberRoleTx(u, a, r) ==
    [fun |-> "update_member_role", sender |-> u, member |-> a, role |-> r]
CreateFolderTx(u, parent)           == [fun |-> "create_custom_folder", sender |-> u, parent |-> parent]
CreateDocumentTx(u, folder, req) ==
    [fun |-> "create_document", sender |-> u, folder |-> folder, required |-> req]
AddVersionTx(u, d)                  == [fun |-> "add_version", sender |-> u, doc |-> d]
ArchiveDocumentTx(u, d)             == [fun |-> "archive_document", sender |-> u, doc |-> d]
SubmitReviewTx(u, d, code)          == [fun |-> "submit_review", sender |-> u, doc |-> d, status |-> code]
IcDecisionTx(u, fun, members, votes) ==
    [fun |-> fun, sender |-> u, members |-> members, votes |-> votes]

\* The numbers of reviews.schemas.ts, and what types.move reads in a number.
Verdicts   == {"approved", "needs_revision", "rejected"}
StatusCode == [approved |-> 0, needs_revision |-> 1, rejected |-> 2]

MoveReviewStatus(code) == CASE code = 0 -> "PENDING"
                            [] code = 1 -> "APPROVED"
                            [] code = 2 -> "NEEDS_REVISION"

SaidBy(code) == CHOOSE v \in Verdicts : StatusCode[v] = code

\* The entry function a transaction calls.
Run(tx) ==
    \/ tx.fun = "progress_to_dd"        /\ ProgressToDd(tx.sender)
    \/ tx.fun = "progress_to_ic_review" /\ ProgressToIcReview(tx.sender, tx.ids)
    \/ tx.fun = "progress_to_ready_to_issue" /\ ProgressToReadyToIssue(tx.sender, tx.ids)
    \/ tx.fun = "reopen_rejected_pool"  /\ ReopenRejectedPool(tx.sender)
    \/ tx.fun = "cancel_pool"           /\ CancelPool(tx.sender)
    \/ tx.fun = "record_ic_approval"    /\ RecordIcApproval(tx.sender, tx.members, tx.votes)
    \/ tx.fun = "record_ic_rejection"   /\ RecordIcRejection(tx.sender, tx.members, tx.votes)
    \/ tx.fun = "record_ic_request_changes"
           /\ RecordIcRequestChanges(tx.sender, tx.members, tx.votes)
    \/ /\ UNCHANGED poolVars
       /\ \/ /\ UNCHANGED docs
             /\ \/ tx.fun = "add_member"    /\ AddMember(tx.sender, tx.member, tx.role)
                \/ tx.fun = "remove_member" /\ RemoveMember(tx.sender, tx.member)
                \/ tx.fun = "update_member_role"
                       /\ UpdateMemberRole(tx.sender, tx.member, tx.role)
                \/ tx.fun = "create_custom_folder" /\ CreateCustomFolder(tx.sender, tx.parent)
          \/ tx.fun = "create_document"
                 /\ \E d \in Doc : CreateDocument(tx.sender, d, tx.folder, tx.required)
          \/ tx.fun = "add_version"      /\ AddVersion(tx.sender, tx.doc)
          \/ tx.fun = "archive_document" /\ ArchiveDocument(tx.sender, tx.doc)
          \/ tx.fun = "submit_review"
                 /\ SubmitReview(tx.sender, tx.doc, MoveReviewStatus(tx.status))

\* Past the bounds of the model an execution is not considered.
WithinBounds(tx) ==
    /\ tx.fun = "create_document" => \E d \in Doc : ~HasDocument(d)
    /\ tx.fun = "create_custom_folder" => customFolderCount < FolderIdBound

-----------------------------------------------------------------------------
(* Calls.  moved is history: the chain changed after the dry run. *)

Idle == [at |-> "idle"]

\* Bound of the model: the two do not meet, so that the desk opens after the
\* wizard, and after its shortest course only.
WizardIsOver ==
    created = 1 /\ submits = 1 /\ lost = 0 /\ ~form.open /\ submission.at = "idle"

Start(c, call) ==
    /\ WizardIsOver
    /\ calls[c].at = "idle" /\ started < MaxCalls
    /\ started' = started + 1
    /\ calls' = [calls EXCEPT ![c] = call]
    /\ UNCHANGED <<wizardVars, rows, checklist, elsewhere, said>>

Step(c, call) == calls' = [calls EXCEPT ![c] = call] /\ UNCHANGED <<wizardVars, started, elsewhere>>

\* Mutant: a gas budget is set by hand, so that tx.build needs no dry run.
Build_NoDryRun(c, tx) ==
    /\ Start(c, [at |-> "built", tx |-> tx, effect |-> "none", moved |-> FALSE])
    /\ UNCHANGED vars

\* tx.build asks the node for a dry run and fails if that aborts.
Build(c, tx) ==
    /\ Start(c, [at |-> "built", tx |-> tx, effect |-> "none", moved |-> FALSE])
    /\ ENABLED Run(tx)
    /\ UNCHANGED vars

\* buildTransition: progress_to_dd and reopen_rejected_pool take no more arguments,
\* the other two the ids the caller passes as extraArgs.  The schema takes any values
\* there; those the package has no parameter for do not get through the build.
BuildTransition(c, u) ==
    /\ PoolAccess
    /\ \/ \E fun \in Transitions : Build(c, StateTransitionTx(u, fun))
       \/ \E fun \in GatedTransitions, ids \in SUBSET Doc :
              Build(c, GatedTransitionTx(u, fun, ids))

BuildCancel(c, u) == PoolAccess /\ Build(c, StateTransitionTx(u, "cancel_pool"))

\* submitIcDecisionSchema: as many votes as members, and one at least.
ValidCommittee(members, votes) == members > 0 /\ votes = members

BuildSubmitDecision(c, u) ==
    /\ PoolAccess
    /\ \E fun \in Decisions, members, votes \in CommitteeInputs :
           /\ ValidCommittee(members, votes)
           /\ Build(c, IcDecisionTx(u, fun, members, votes))

\* The schemas of the room: a role is a number from 1 to 63.
ValidRole(r) == r # {}

BuildAddMember(c, u) ==
    /\ PoolAccess
    /\ \E a \in Address, r \in RoleInputs : ValidRole(r) /\ Build(c, AddMemberTx(u, a, r))

BuildRemoveMember(c, u) == PoolAccess /\ \E a \in Address : Build(c, RemoveMemberTx(u, a))

BuildUpdateMemberRole(c, u) ==
    /\ PoolAccess
    /\ \E a \in Address, r \in RoleInputs : ValidRole(r) /\ Build(c, UpdateMemberRoleTx(u, a, r))

BuildCreateFolder(c, u) ==
    PoolAccess /\ \E parent \in FolderInputs \union {NoParent} : Build(c, CreateFolderTx(u, parent))

BuildCreateDocument(c, u) ==
    /\ PoolAccess
    /\ \E folder \in FolderInputs, required \in BOOLEAN :
           Build(c, CreateDocumentTx(u, folder, required))

BuildAddVersion(c, u) == \E d \in Doc : DocumentAccess(d) /\ Build(c, AddVersionTx(u, d))

BuildArchiveDocument(c, u) == \E d \in Doc : DocumentAccess(d) /\ Build(c, ArchiveDocumentTx(u, d))

BuildSubmitReview(c, u) ==
    \E d \in Doc, v \in Verdicts :
        DocumentAccess(d) /\ Build(c, SubmitReviewTx(u, d, StatusCode[v]))

\* The wallet's user refuses, or the signed bytes do not arrive.
Abandon(c) ==
    /\ calls[c].at = "built"
    /\ Step(c, Idle)
    /\ UNCHANGED <<vars, rows, checklist, said>>

\* The chain changed under the calls that are built and not executed.
Overtaken(others) == [k \in Slots |-> IF k \in others /\ calls[k].at = "built"
                                        THEN [calls[k] EXCEPT !.moved = TRUE] ELSE calls[k]]

\* submitSignedTx, at the chain: the transaction runs, or aborts and changes nothing.
Execute(c) ==
    LET tx == calls[c].tx IN
    /\ calls[c].at = "built" /\ WithinBounds(tx)
    /\ \/ /\ Run(tx)
          /\ calls' = [Overtaken(Slots \ {c}) EXCEPT
                           ![c] = [calls[c] EXCEPT !.at = "executed", !.effect = "success"]]
          /\ said' = IF tx.fun = "submit_review"
                     THEN [said EXCEPT ![tx.doc][tx.sender] = SaidBy(tx.status)] ELSE said
       \/ /\ ~ENABLED Run(tx)
          /\ calls' = [calls EXCEPT ![c] = [calls[c] EXCEPT !.at = "executed", !.effect = "failure"]]
          /\ UNCHANGED <<vars, said>>
    /\ UNCHANGED <<wizardVars, started, elsewhere, rows, checklist>>

\* Its answer: 201 whatever the effects say.
AnswerSubmit(c) ==
    /\ calls[c].at = "executed"
    /\ Step(c, [calls[c] EXCEPT !.at = "answered"])
    /\ UNCHANGED <<vars, rows, checklist, said>>

\* The caller is done, or the answer was lost and he gives up.
EndCall(c) ==
    /\ calls[c].at \in {"executed", "answered", "shown"}
    /\ Step(c, Idle)
    /\ UNCHANGED <<vars, rows, checklist, said>>

\* An administrator pauses or resumes the platform, or sets its limits.
DeskAdminNext ==
    /\ AdminNext
    /\ calls' = Overtaken(Slots)
    /\ submission' = [submission EXCEPT !.moved = @ \/ submission.at = "built"]
    /\ UNCHANGED <<docs, poolVars, authMethod, form, created, submits, lost>>
    /\ UNCHANGED <<rows, checklist, started, elsewhere, said>>

\* Any wallet may call the package without the API; here, to bring the pool and
\* its members to where the calls find them.
Elsewhere ==
    /\ WizardIsOver /\ started = 0 /\ elsewhere < MaxElsewhere
    /\ elsewhere' = elsewhere + 1
    /\ \/ PoolCallNext
       \/ /\ \E a \in Address : \/ \E r \in RoleInputs : AddMember(Owner, a, r)
                               \/ RemoveMember(Owner, a)
          /\ UNCHANGED <<docs, poolVars>>
    /\ UNCHANGED <<wizardVars, rows, checklist, calls, started, said>>

-----------------------------------------------------------------------------
(* Endpoints on rows alone *)

\* Mutant: the unique index is missing.
AddItem_Relisted(c, item) ==
    /\ PoolAccess
    /\ WizardIsOver /\ started < MaxCalls
    /\ started' = started + 1
    /\ checklist' = Append(checklist, [item |-> item, status |-> "missing"])
    /\ UNCHANGED <<vars, wizardVars, rows, calls, elsewhere, said>>

\* addItem: the insert fails when the item is listed already.
AddItem(c, item) ==
    /\ PoolAccess /\ ~Listed(item)
    /\ WizardIsOver /\ started < MaxCalls
    /\ started' = started + 1
    /\ checklist' = Append(checklist, [item |-> item, status |-> "missing"])
    /\ UNCHANGED <<vars, wizardVars, rows, calls, elsewhere, said>>

\* updateItem and deleteItem look the item up before they write.
FindItem(c, i, write) ==
    /\ PoolAccess /\ checklist[i].status # "deleted"
    /\ Start(c, [at |-> "found", row |-> i, write |-> write])
    /\ UNCHANGED vars

\* The row may be gone by now: an update answers 404 then, a deletion 200.
WriteItem(c) ==
    /\ calls[c].at = "found"
    /\ LET i == calls[c].row IN
       checklist' = IF checklist[i].status = "deleted" THEN checklist
                    ELSE [checklist EXCEPT ![i].status = calls[c].write]
    /\ Step(c, Idle)
    /\ UNCHANGED <<vars, rows, said>>

\* getPool reads the pool's row, then the data room's, then the membership;
\* revoked is history: the caller's revocation was in the table all the while.
GetPool(c, u) ==
    /\ PoolAccess
    /\ Start(c, [at |-> "room", user |-> u, revoked |-> rows.members[u] = "revoked"])
    /\ UNCHANGED vars

FindRoom(c) ==
    /\ calls[c].at = "room"
    /\ Step(c, [calls[c] EXCEPT !.at = IF rows.room THEN "membership" ELSE "shown"])
    /\ UNCHANGED <<vars, rows, checklist, said>>

\* Mutant: a row is enough.
CheckMembership_AnyRow(c) ==
    /\ calls[c].at = "membership"
    /\ Step(c, IF rows.members[calls[c].user] # "none"
               THEN [calls[c] EXCEPT !.at = "shown"] ELSE Idle)
    /\ UNCHANGED <<vars, rows, checklist, said>>

CheckMembership(c) ==
    /\ calls[c].at = "membership"
    /\ Step(c, IF rows.members[calls[c].user] = "active"
               THEN [calls[c] EXCEPT !.at = "shown"] ELSE Idle)
    /\ UNCHANGED <<vars, rows, checklist, said>>

-----------------------------------------------------------------------------
(* The indexer, as far as these endpoints can tell: each piece of the tables *)
(* catches up with the chain when it likes.  The data room's row names the   *)
(* pool, and members are kept, only if it was indexed after the pool's.      *)

Tables(new) == rows' = new /\ UNCHANGED <<vars, wizardVars, checklist, started, elsewhere, said>>

IndexPool ==
    /\ WizardIsOver /\ rows.pool = "none"
    /\ \E room \in BOOLEAN : Tables([rows EXCEPT !.pool = "placeholder", !.room = room])
    /\ UNCHANGED calls

AssignOrg ==
    rows.pool = "placeholder" /\ Tables([rows EXCEPT !.pool = "home"]) /\ UNCHANGED calls

IndexDocument(d) ==
    /\ rows.pool # "none" /\ HasDocument(d) /\ d \notin rows.docs
    /\ Tables([rows EXCEPT !.docs = @ \union {d}])
    /\ UNCHANGED calls

IndexMember(u) ==
    /\ rows.room /\ rows.members[u] # standing[u]
    /\ Tables([rows EXCEPT !.members[u] = standing[u]])
    /\ calls' = [c \in Slots |-> IF calls[c].at \in {"room", "membership"} /\ calls[c].user = u
                                 THEN [calls[c] EXCEPT !.revoked = FALSE] ELSE calls[c]]

-----------------------------------------------------------------------------

DeskInit ==
    /\ rows = [pool |-> "none", room |-> FALSE, docs |-> {},
               members |-> [a \in Address |-> "none"]]
    /\ checklist = <<>>
    /\ calls = [c \in Slots |-> Idle]
    /\ started = 0 /\ elsewhere = 0
    /\ said = [d \in Doc |-> [a \in Address |-> "nothing"]]

DealsInit == Init /\ WizardInit /\ DeskInit

\* The routes of the controllers, for user u.
PoolsController(c, u) ==
    \/ BuildTransition(c, u) \/ BuildCancel(c, u)
    \/ GetPool(c, u)

DataroomsController(c, u) ==
    \/ BuildAddMember(c, u) \/ BuildRemoveMember(c, u) \/ BuildUpdateMemberRole(c, u)
    \/ BuildCreateFolder(c, u)

DocumentsController(c, u) ==
    BuildCreateDocument(c, u) \/ BuildAddVersion(c, u) \/ BuildArchiveDocument(c, u)

ReviewsController(c, u) == BuildSubmitReview(c, u)

ICDecisionsController(c, u) == BuildSubmitDecision(c, u)

ChecklistController(c) ==
    \/ \E item \in Item : AddItem(c, item)
    \/ \E i \in DOMAIN checklist, write \in StatusInputs \union {"deleted"} : FindItem(c, i, write)

CallNext ==
    \E c \in Slots :
        \/ \E u \in Address :
               \/ PoolsController(c, u) \/ DataroomsController(c, u) \/ DocumentsController(c, u)
               \/ ReviewsController(c, u) \/ ICDecisionsController(c, u)
        \/ ChecklistController(c)
        \/ Abandon(c) \/ Execute(c) \/ AnswerSubmit(c) \/ EndCall(c)
        \/ WriteItem(c) \/ FindRoom(c) \/ CheckMembership(c)

IndexNext ==
    \/ IndexPool \/ AssignOrg
    \/ \E d \in Doc : IndexDocument(d)
    \/ \E u \in Address : IndexMember(u)

DealsNext ==
    \/ WizardNext /\ UNCHANGED deskVars
    \/ CallNext \/ DeskAdminNext \/ Elsewhere
    \/ IndexNext

DealsSpec == DealsInit /\ [][DealsNext]_allVars

-----------------------------------------------------------------------------
(* Properties *)

CallPlaces == {"idle", "built", "executed", "answered", "found", "room", "membership", "shown"}

DealsTypeOK ==
    /\ WizardTypeOK
    /\ rows \in TableRows
    /\ \A i \in DOMAIN checklist : checklist[i] \in ChecklistRow
    /\ \A c \in Slots :
           /\ calls[c].at \in CallPlaces
           /\ calls[c].at \in {"built", "executed", "answered"} =>
                  \/ calls[c].tx \in PoolTx \/ calls[c].tx \in RoomTx
                  \/ calls[c].tx \in DocumentTx \/ calls[c].tx \in ReviewTx
                  \/ calls[c].tx \in DecisionTx
    /\ started \in 0..MaxCalls /\ elsewhere \in 0..MaxElsewhere
    \* The unique index of the checklist table.
    /\ \A i, j \in DOMAIN checklist :
           checklist[i].item = checklist[j].item /\ i # j =>
               checklist[i].status = "deleted" \/ checklist[j].status = "deleted"

\* submitSignedTx does not look at the status of the effects, so that a success
\* is reported for an aborted transaction too.  What the report rests on is the
\* dry run of the build: if nobody changed the chain since then, the reported
\* transaction did take effect, be it a new pool or a call on an existing one.
DoneTookEffect ==
    /\ submission.at = "invite" /\ ~submission.moved => submission.effect = "success"
    /\ \A c \in Slots :
           calls[c].at = "answered" /\ ~calls[c].moved => calls[c].effect = "success"

\* getPool reads three tables one after the other.  Whoever's revocation was in
\* the members table when he asked, and still is, is not shown the pool.
RevokedIsRefused ==
    \A c \in Slots : calls[c].at = "shown" => ~calls[c].revoked

\* reviews.schemas.ts:7 "0=approved, 1=needs_revision, 2=rejected": the chain
\* holds an approval of those, and only those, who sent one.
ReviewSaysWhatWasSent ==
    \A d \in Doc, a \in Address :
        (docs[d].reviews[a] = "APPROVED") <=> (said[d][a] = "approved")
=============================================================================
