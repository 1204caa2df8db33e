---------------------------- MODULE DealDesk_proofs ----------------------------
(***************************************************************************)
(* Theorems about the pool wizard and the desk: at most one pool per       *)
(* submission whose answer arrived, no step that is not the package's, no  *)
(* details of a pool for those who were revoked, the types of form, calls  *)
(* and tables, and no report of a pool that does not exist.                *)
(***************************************************************************)
EXTENDS DealDesk, Pool_proofs

-----------------------------------------------------------------------------
(* One pool per lost answer *)

\* A record, of which only some fields matter.
HasFields(r, fields) == /\ fields \subseteq DOMAIN r
                        /\ r = [f \in DOMAIN r |-> r[f]]

\* A pool is created by a submission, of which there is one at a time: until it has
\* executed, and whenever the button can start one, no more pools exist than answers
\* were lost.
OnePoolInv ==
    /\ created \in Nat /\ lost \in Nat
    /\ HasFields(form, {"open", "submitting"})
    /\ HasFields(submission, {"at"})
    /\ submission.at \in SubmissionPhases
    /\ form.open /\ ~form.submitting => submission.at = "idle"
    /\ submission.at \in {"post", "built"} => created <= lost
    /\ submission.at = "idle" /\ form.open => created <= lost
    /\ created <= lost + 1

\* No pool exists when the page of pools/new opens.
LEMMA OnePoolInit == WizardInit => OnePoolInv
  BY DEF WizardInit, OnePoolInv, HasFields, BlankForm, NoSubmission, SubmissionPhases

\* An edit of the form leaves the page open and the button as it is, or closes the page.
LEMMA EditKeepsInv ==
  ASSUME OnePoolInv, form.open,
         NEW f, Edit(f), HasFields(f, {"open", "submitting"}),
         f.open => f.open = form.open /\ f.submitting = form.submitting
  PROVE  OnePoolInv'
  BY DEF OnePoolInv, Edit, HasFields

\* Every input of the form is such an edit.
LEMMA FormKeepsInv ==
  ASSUME OnePoolInv, FormNext
  PROVE  OnePoolInv'
  <1> USE DEF HasFields
  <1>0. HasFields(form, {"open", "submitting"})
    BY DEF OnePoolInv
  <1>1. CASE \E class \in FieldClasses : SetFields(class)
    BY <1>0, <1>1, EditKeepsInv DEF SetFields, OnStep
  <1>2. CASE DatePasses
    BY <1>0, <1>2, EditKeepsInv DEF DatePasses
  <1>3. CASE \E scheme \in {"aes", "seal"} : SetScheme(scheme)
    BY <1>0, <1>3, EditKeepsInv DEF SetScheme, OnStep
  <1>4. CASE \E value \in BOOLEAN : Acknowledge(value)
    BY <1>0, <1>4, EditKeepsInv DEF Acknowledge, OnStep
  <1>5. CASE AddCustomItem \/ RemoveItem
    BY <1>0, <1>5, EditKeepsInv DEF AddCustomItem, RemoveItem, OnStep
  <1>6. CASE AddInvite
    BY <1>0, <1>6, EditKeepsInv DEF AddInvite, OnStep
  <1>7. CASE \E i \in 1 .. Len(form.invites) : NameInvite(i) \/ RemoveInvite(i)
    BY <1>0, <1>7, EditKeepsInv DEF NameInvite, RemoveInvite, OnStep
  <1>8. CASE HandleNext \/ HandleBack
    BY <1>0, <1>8, EditKeepsInv DEF HandleNext, HandleBack, Review
  <1>9. CASE LeavePage
    BY <1>0, <1>9, EditKeepsInv DEF LeavePage, ClosedForm, BlankForm
  <1>10. CASE \E step \in 0..3 : EditFromReview(step)
    BY <1>0, <1>10, EditKeepsInv DEF EditFromReview, OnStep
  <1>11. QED
    BY <1>1, <1>2, <1>3, <1>4, <1>5, <1>6, <1>7, <1>8, <1>9, <1>10 DEF FormNext

\* The submission goes through its phases; only the execution creates, and only an
\* answer lost opens the button again behind it.
LEMMA SubmissionKeepsInv ==
  ASSUME OnePoolInv, SubmissionNext
  PROVE  OnePoolInv'
  <1> USE DEF OnePoolInv, HasFields, Continue, SubmissionPhases, NoSubmission
  <1>1. CASE HandleSubmit
    BY <1>1 DEF HandleSubmit, OnStep
  <1>2. CASE BuildCreatePool
    BY <1>2 DEF BuildCreatePool
  <1>3. CASE RefuseCreatePool \/ CancelSigning
    BY <1>3 DEF RefuseCreatePool, CancelSigning, FailSubmission
  <1>4. CASE ExecuteCreatePool
    <2>1. PICK effect : submission' = [submission EXCEPT !.at = "executed", !.effect = effect]
      BY <1>4 DEF ExecuteCreatePool
    <2>2. submission'.at = "executed" /\ HasFields(submission', {"at"})
      BY <2>1
    <2>3. QED
      BY <1>4, <2>2 DEF ExecuteCreatePool
  <1>5. CASE SubmitAnswered \/ InviteMember
    BY <1>5 DEF SubmitAnswered, InviteMember
  <1>6. CASE LoseSubmitAnswer
    <2>1. submission' = NoSubmission /\ form' = [form EXCEPT !.submitting = FALSE]
      BY <1>6 DEF LoseSubmitAnswer, FailSubmission
    <2>2. created' = created /\ lost' = lost + 1
      BY <1>6 DEF LoseSubmitAnswer
    <2>3. HasFields(form', {"open", "submitting"})
      BY <2>1
    <2>4. submission'.at = "idle" /\ HasFields(submission', {"at"})
      BY <2>1
    <2>5. created' \in Nat /\ lost' \in Nat /\ created' <= lost'
      BY <2>2
    <2>6. QED
      BY <2>3, <2>4, <2>5
  <1>7. CASE FinishSubmission
    BY <1>7 DEF FinishSubmission, ClosedForm, BlankForm
  <1>8. QED
    BY <1>1, <1>2, <1>3, <1>4, <1>5, <1>6, <1>7 DEF SubmissionNext

\* The endpoints of the desk, other clients and the indexer leave the wizard alone.
LEMMA DeskLeavesWizard ==
  ASSUME CallNext \/ Elsewhere \/ IndexNext
  PROVE  UNCHANGED wizardVars
  <1>1. ASSUME NEW c \in Slots, NEW u \in Address,
               \/ PoolsController(c, u) \/ DataroomsController(c, u) \/ DocumentsController(c, u)
               \/ ReviewsController(c, u) \/ ICDecisionsController(c, u)
        PROVE  UNCHANGED wizardVars
    <2>1. ASSUME NEW tx, Build(c, tx)
          PROVE  UNCHANGED wizardVars
      BY <2>1 DEF Build, Start
    <2>2. CASE PoolsController(c, u)
      BY <2>1, <2>2 DEF PoolsController, BuildTransition, BuildCancel, GetPool, Start
    <2>3. CASE DataroomsController(c, u)
      BY <2>1, <2>3 DEF DataroomsController, BuildAddMember, BuildRemoveMember,
                        BuildUpdateMemberRole, BuildCreateFolder
    <2>4. CASE DocumentsController(c, u)
      BY <2>1, <2>4 DEF DocumentsController, BuildCreateDocument, BuildAddVersion,
                        BuildArchiveDocument
    <2>5. CASE ReviewsController(c, u) \/ ICDecisionsController(c, u)
      BY <2>1, <2>5 DEF ReviewsController, BuildSubmitReview, ICDecisionsController,
                        BuildSubmitDecision
    <2>6. QED
      BY <1>1, <2>2, <2>3, <2>4, <2>5
  <1>2. ASSUME NEW c \in Slots, ChecklistController(c)
        PROVE  UNCHANGED wizardVars
    BY <1>2 DEF ChecklistController, AddItem, FindItem, Start, wizardVars
  <1>3. ASSUME NEW c \in Slots,
               \/ Abandon(c) \/ Execute(c) \/ AnswerSubmit(c) \/ EndCall(c)
               \/ WriteItem(c) \/ FindRoom(c) \/ CheckMembership(c)
        PROVE  UNCHANGED wizardVars
    BY <1>3 DEF Abandon, Execute, AnswerSubmit, EndCall, WriteItem, FindRoom,
                CheckMembership, Step, wizardVars
  <1>4. CASE Elsewhere
    BY <1>4 DEF Elsewhere, wizardVars
  <1>5. CASE IndexNext
    BY <1>5 DEF IndexNext, IndexPool, AssignOrg, IndexDocument, IndexMember, Tables, wizardVars
  <1>6. QED
    BY <1>1, <1>2, <1>3, <1>4, <1>5 DEF CallNext

\* Every step of the system preserves the invariant.
LEMMA OnePoolStep == OnePoolInv /\ [DealsNext]_allVars => OnePoolInv'
  <1> SUFFICES ASSUME OnePoolInv, [DealsNext]_allVars PROVE OnePoolInv'
    OBVIOUS
  <1>1. CASE WizardNext
    BY <1>1, FormKeepsInv, SubmissionKeepsInv DEF WizardNext
  <1>2. CASE UNCHANGED wizardVars
    BY <1>2 DEF OnePoolInv, HasFields, wizardVars
  <1>3. CASE DeskAdminNext
    BY <1>3 DEF DeskAdminNext, OnePoolInv, HasFields
  <1>4. QED
    BY <1>1, <1>2, <1>3, DeskLeavesWizard DEF DealsNext, allVars

\* However often the button is pressed, the form is edited or left while a submission
\* runs, and the endpoints of the desk are called: a second pool comes only from a
\* user of pools/new who did not get the answer to the first.
THEOREM OnePoolPerAnswer == DealsSpec => []OnePoolPerLostAnswer
  <1>1. DealsInit => OnePoolInv
    BY OnePoolInit DEF DealsInit
  <1>2. OnePoolInv => OnePoolPerLostAnswer
    BY DEF OnePoolInv, OnePoolPerLostAnswer
  <1>3. QED
    BY <1>1, <1>2, OnePoolStep, PTL DEF DealsSpec

-----------------------------------------------------------------------------
(* The desk drives the package through its entry functions only *)

\* What a transaction carries is what the schemas of the API let through: the arguments
\* its entry function takes, from the sets they are taken from.
Typed(tx) ==
    /\ tx.sender \in Address
    /\ tx.fun \in GatedTransitions => tx.ids \in SUBSET Doc
    /\ tx.fun \in Decisions => tx.members \in CommitteeInputs /\ tx.votes \in CommitteeInputs
    /\ tx.fun \in {"add_member", "update_member_role"} =>
           tx.member \in Address /\ tx.role \in RoleInputs
    /\ tx.fun = "remove_member" => tx.member \in Address
    /\ tx.fun = "create_custom_folder" => tx.parent \in FolderInputs \union {NoParent}
    /\ tx.fun = "create_document" => tx.folder \in FolderInputs /\ tx.required \in BOOLEAN
    /\ tx.fun \in {"add_version", "archive_document", "submit_review"} => tx.doc \in Doc
    /\ tx.fun = "submit_review" => tx.status \in 0..2

\* A call that waits for its signature holds such a transaction.
Waits(call) == /\ HasFields(call, {"at"})
               /\ call.at = "built" => "tx" \in DOMAIN call /\ Typed(call.tx)

CallsInv == calls = [c \in Slots |-> calls[c]] /\ \A c \in Slots : Waits(calls[c])

\* Writing one call, or noting in the others that the chain changed, keeps them so.
LEMMA PutCall ==
  ASSUME CallsInv, NEW c \in Slots, NEW call, Waits(call),
         calls' = [calls EXCEPT ![c] = call]
  PROVE  CallsInv'
  BY DEF CallsInv

LEMMA OvertakenWaits ==
  ASSUME CallsInv, NEW others
  PROVE  /\ Overtaken(others) = [c \in Slots |-> Overtaken(others)[c]]
         /\ \A c \in Slots : Waits(Overtaken(others)[c])
  <1>1. \A c \in Slots : Waits([calls[c] EXCEPT !.moved = TRUE])
    BY DEF CallsInv, Waits, HasFields
  <1>2. QED
    BY <1>1 DEF CallsInv, Overtaken

\* A transaction of the sender's role, of this type, that runs is a step of the package.
LEMMA RunIsStep ==
  ASSUME NEW tx, Typed(tx), Run(tx)
  PROVE  Next
  <1> DEFINE u == tx.sender
  <1>0. u \in Address
    BY DEF Typed
  <1>1. CASE \/ tx.fun = "progress_to_dd"        /\ ProgressToDd(u)
             \/ tx.fun = "reopen_rejected_pool"  /\ ReopenRejectedPool(u)
             \/ tx.fun = "cancel_pool"           /\ CancelPool(u)
    BY <1>0, <1>1 DEF Next, PoolCallNext
  <1>2. CASE \/ tx.fun = "progress_to_ic_review" /\ ProgressToIcReview(u, tx.ids)
             \/ tx.fun = "progress_to_ready_to_issue" /\ ProgressToReadyToIssue(u, tx.ids)
    <2>1. tx.ids \in SUBSET Doc
      BY <1>2 DEF Typed, GatedTransitions
    <2>2. QED
      BY <1>0, <1>2, <2>1 DEF Next, PoolCallNext
  <1>3. CASE \/ tx.fun = "record_ic_approval"    /\ RecordIcApproval(u, tx.members, tx.votes)
             \/ tx.fun = "record_ic_rejection"   /\ RecordIcRejection(u, tx.members, tx.votes)
             \/ /\ tx.fun = "record_ic_request_changes"
                /\ RecordIcRequestChanges(u, tx.members, tx.votes)
    <2>1. tx.members \in CommitteeInputs /\ tx.votes \in CommitteeInputs
      BY <1>3 DEF Typed, Decisions
    <2>2. QED
      BY <1>0, <1>3, <2>1 DEF Next, PoolCallNext
  <1>4. CASE /\ UNCHANGED poolVars /\ UNCHANGED docs
             /\ \/ tx.fun = "add_member"    /\ AddMember(u, tx.member, tx.role)
                \/ tx.fun = "remove_member" /\ RemoveMember(u, tx.member)
                \/ tx.fun = "update_member_role" /\ UpdateMemberRole(u, tx.member, tx.role)
                \/ tx.fun = "create_custom_folder" /\ CreateCustomFolder(u, tx.parent)
    <2>1. RoomCallNext
      BY <1>0, <1>4 DEF RoomCallNext, Typed
    <2>2. QED
      BY <1>4, <2>1 DEF Next, DocumentsNext, RoomNext
  <1>5. CASE /\ UNCHANGED poolVars
             /\ \/ /\ tx.fun = "create_document"
                   /\ \E d \in Doc : CreateDocument(u, d, tx.folder, tx.required)
                \/ tx.fun = "add_version"      /\ AddVersion(u, tx.doc)
                \/ tx.fun = "archive_document" /\ ArchiveDocument(u, tx.doc)
                \/ tx.fun = "submit_review" /\ SubmitReview(u, tx.doc, MoveReviewStatus(tx.status))
    <2>1. tx.fun = "submit_review" => MoveReviewStatus(tx.status) \in ReviewStatuses
      BY DEF Typed, MoveReviewStatus, ReviewStatuses
    <2>2. DocCallNext
      BY <1>0, <1>5, <2>1 DEF DocCallNext, Typed
    <2>3. QED
      BY <1>5, <2>2 DEF Next, DocumentsNext
  <1>6. QED
    BY <1>1, <1>2, <1>3, <1>4, <1>5 DEF Run

\* The endpoints that build, for whoever calls them.
LEMMA BuildKeepsCalls ==
  ASSUME CallsInv, NEW c \in Slots, NEW u \in Address,
         \/ PoolsController(c, u) \/ DataroomsController(c, u) \/ DocumentsController(c, u)
         \/ ReviewsController(c, u) \/ ICDecisionsController(c, u)
  PROVE  CallsInv' /\ UNCHANGED vars
  <1>1. ASSUME NEW tx, Typed(tx), Build(c, tx)
        PROVE  CallsInv' /\ UNCHANGED vars
    <2> DEFINE call == [at |-> "built", tx |-> tx, effect |-> "none", moved |-> FALSE]
    <2>1. Waits(call)
      BY <1>1 DEF Waits, HasFields
    <2>2. calls' = [calls EXCEPT ![c] = call] /\ UNCHANGED vars
      BY <1>1 DEF Build, Start
    <2>3. QED
      BY <2>1, <2>2, PutCall
  <1>2. CASE GetPool(c, u)
    <2> DEFINE call == [at |-> "room", user |-> u, revoked |-> rows.members[u] = "revoked"]
    <2>1. Waits(call)
      BY DEF Waits, HasFields
    <2>2. calls' = [calls EXCEPT ![c] = call] /\ UNCHANGED vars
      BY <1>2 DEF GetPool, Start
    <2>3. QED
      BY <2>1, <2>2, PutCall
  <1>3. CASE BuildTransition(c, u) \/ BuildCancel(c, u)
    <2>1. \A fun \in Transitions \union {"cancel_pool"} : Typed(StateTransitionTx(u, fun))
      BY DEF Typed, StateTransitionTx, Transitions, GatedTransitions, Decisions
    <2>2. \A fun \in GatedTransitions, ids \in SUBSET Doc : Typed(GatedTransitionTx(u, fun, ids))
      BY DEF Typed, GatedTransitionTx, GatedTransitions, Decisions
    <2>3. QED
      BY <1>1, <1>3, <2>1, <2>2 DEF BuildTransition, BuildCancel
  <1>4. CASE DataroomsController(c, u)
    <2>1. \A a \in Address, r \in RoleInputs :
             Typed(AddMemberTx(u, a, r)) /\ Typed(UpdateMemberRoleTx(u, a, r))
      BY DEF Typed, AddMemberTx, UpdateMemberRoleTx, GatedTransitions, Decisions
    <2>2. \A a \in Address : Typed(RemoveMemberTx(u, a))
      BY DEF Typed, RemoveMemberTx, GatedTransitions, Decisions
    <2>3. \A parent \in FolderInputs \union {NoParent} : Typed(CreateFolderTx(u, parent))
      BY DEF Typed, CreateFolderTx, GatedTransitions, Decisions
    <2>4. QED
      BY <1>1, <1>4, <2>1, <2>2, <2>3
      DEF DataroomsController, BuildAddMember, BuildRemoveMember, BuildUpdateMemberRole,
          BuildCreateFolder
  <1>5. CASE DocumentsController(c, u)
    <2>1. \A folder \in FolderInputs, required \in BOOLEAN :
             Typed(CreateDocumentTx(u, folder, required))
      BY DEF Typed, CreateDocumentTx, GatedTransitions, Decisions
    <2>2. \A d \in Doc : Typed(AddVersionTx(u, d)) /\ Typed(ArchiveDocumentTx(u, d))
      BY DEF Typed, AddVersionTx, ArchiveDocumentTx, GatedTransitions, Decisions
    <2>3. QED
      BY <1>1, <1>5, <2>1, <2>2
      DEF DocumentsController, BuildCreateDocument, BuildAddVersion, BuildArchiveDocument
  <1>6. CASE ReviewsController(c, u)
    <2>1. \A d \in Doc, v \in Verdicts : Typed(SubmitReviewTx(u, d, StatusCode[v]))
      BY DEF Typed, SubmitReviewTx, StatusCode, Verdicts, GatedTransitions, Decisions
    <2>2. QED
      BY <1>1, <1>6, <2>1 DEF ReviewsController, BuildSubmitReview
  <1>7. CASE ICDecisionsController(c, u)
    <2>1. \A fun \in Decisions, members, votes \in CommitteeInputs :
             Typed(IcDecisionTx(u, fun, members, votes))
      BY DEF Typed, IcDecisionTx, GatedTransitions, Decisions
    <2>2. QED
      BY <1>1, <1>7, <2>1 DEF ICDecisionsController, BuildSubmitDecision
  <1>8. QED
    BY <1>2, <1>3, <1>4, <1>5, <1>6, <1>7 DEF PoolsController

\* The rest of a call: the transaction executes or is dropped, or rows are read and written.
LEMMA CallKeepsCalls ==
  ASSUME CallsInv, NEW c \in Slots,
         \/ ChecklistController(c)
         \/ Abandon(c) \/ Execute(c) \/ AnswerSubmit(c) \/ EndCall(c)
         \/ WriteItem(c) \/ FindRoom(c) \/ CheckMembership(c)
  PROVE  CallsInv' /\ [Next]_vars
  <1>1. CASE ChecklistController(c)
    <2>1. CASE \E item \in Item : AddItem(c, item)
      BY <2>1 DEF AddItem, CallsInv
    <2>2. CASE \E i \in DOMAIN checklist, write \in StatusInputs \union {"deleted"} :
                  FindItem(c, i, write)
      <3>1. PICK call : Waits(call) /\ calls' = [calls EXCEPT ![c] = call] /\ UNCHANGED vars
        BY <2>2 DEF FindItem, Start, Waits, HasFields
      <3>2. QED
        BY <3>1, PutCall
    <2>3. QED
      BY <1>1, <2>1, <2>2 DEF ChecklistController
  <1>2. CASE \/ Abandon(c) \/ AnswerSubmit(c) \/ EndCall(c)
             \/ WriteItem(c) \/ FindRoom(c) \/ CheckMembership(c)
    <2>1. Waits(Idle)
      BY DEF Waits, Idle, HasFields
    <2>2. \A at \in {"answered", "membership", "shown"} : Waits([calls[c] EXCEPT !.at = at])
      BY DEF CallsInv, Waits, HasFields
    <2>3. PICK call : Waits(call) /\ calls' = [calls EXCEPT ![c] = call] /\ UNCHANGED vars
      BY <1>2, <2>1, <2>2 DEF Abandon, AnswerSubmit, EndCall, WriteItem, FindRoom, CheckMembership, Step
    <2>4. QED
      BY <2>3, PutCall
  <1>3. CASE Execute(c)
    <2>1. \A effect \in {"success", "failure"} :
             Waits([calls[c] EXCEPT !.at = "executed", !.effect = effect])
      BY DEF CallsInv, Waits, HasFields
    <2>2. CASE /\ Run(calls[c].tx) /\ calls[c].at = "built"
               /\ calls' = [Overtaken(Slots \ {c}) EXCEPT
                               ![c] = [calls[c] EXCEPT !.at = "executed", !.effect = "success"]]
      <3>1. Next
        BY <2>2, RunIsStep DEF CallsInv, Waits
      <3>2. CallsInv'
        <4> DEFINE others == Overtaken(Slots \ {c})
                   done   == [calls[c] EXCEPT !.at = "executed", !.effect = "success"]
        <4>1. Waits(done) /\ calls' = [others EXCEPT ![c] = done]
          BY <2>1, <2>2
        <4>2. others = [k \in Slots |-> others[k]] /\ \A k \in Slots : Waits(others[k])
          BY OvertakenWaits
        <4> HIDE DEF others, done
        <4>3. QED
          BY <4>1, <4>2 DEF CallsInv
      <3>3. QED
        BY <3>1, <3>2
    <2>3. CASE /\ UNCHANGED vars
               /\ calls' = [calls EXCEPT ![c] = [calls[c] EXCEPT !.at = "executed", !.effect = "failure"]]
      BY <2>1, <2>3, PutCall
    <2>4. QED
      BY <1>3, <2>2, <2>3 DEF Execute
  <1>4. QED
    BY <1>1, <1>2, <1>3

\* Every step of the system preserves the invariant, and is the package's or none.
LEMMA DeskStep ==
  ASSUME CallsInv, [DealsNext]_allVars
  PROVE  CallsInv' /\ [Next]_vars
  <1>1. CASE WizardNext /\ UNCHANGED deskVars
    <2>1. UNCHANGED calls
      BY <1>1 DEF deskVars
    <2>2. UNCHANGED vars
      BY <1>1 DEF WizardNext, FormNext, SubmissionNext, Edit, SetFields, DatePasses, SetScheme,
         Acknowledge, AddCustomItem, RemoveItem, AddInvite, NameInvite, RemoveInvite, HandleNext,
         HandleBack, LeavePage, EditFromReview, HandleSubmit, BuildCreatePool, RefuseCreatePool,
         CancelSigning, ExecuteCreatePool, SubmitAnswered, LoseSubmitAnswer, InviteMember,
         FinishSubmission
    <2>3. QED
      BY <2>1, <2>2 DEF CallsInv
  <1>2. CASE CallNext
    BY <1>2, BuildKeepsCalls, CallKeepsCalls DEF CallNext
  <1>3. CASE DeskAdminNext
    <2>1. CallsInv'
      BY <1>3, OvertakenWaits DEF DeskAdminNext, CallsInv
    <2>2. Next
      BY <1>3 DEF DeskAdminNext, Next, DocumentsNext, RoomNext
    <2>3. QED
      BY <2>1, <2>2
  <1>4. CASE Elsewhere
    <2>1. UNCHANGED calls
      BY <1>4 DEF Elsewhere
    <2>2. CASE PoolCallNext
      BY <2>1, <2>2 DEF CallsInv, Next
    <2>3. CASE /\ \E a \in Address : \/ \E r \in RoleInputs : AddMember(Owner, a, r)
                                     \/ RemoveMember(Owner, a)
               /\ UNCHANGED <<docs, poolVars>>
      <3>1. RoomCallNext
        BY <2>3, AddressAssumption DEF RoomCallNext
      <3>2. QED
        BY <2>1, <2>3, <3>1 DEF CallsInv, Next, DocumentsNext, RoomNext
    <2>4. QED
      BY <1>4, <2>2, <2>3 DEF Elsewhere
  <1>5. CASE IndexNext
    <2>1. UNCHANGED vars
      BY <1>5 DEF IndexNext, IndexPool, AssignOrg, IndexDocument, IndexMember, Tables
    <2>2. CASE UNCHANGED calls
      BY <2>1, <2>2 DEF CallsInv
    <2>3. CASE \E u \in Address : IndexMember(u)
      <3>1. \A c \in Slots : Waits([calls[c] EXCEPT !.revoked = FALSE])
        BY DEF CallsInv, Waits, HasFields
      <3>2. CallsInv'
        BY <2>3, <3>1 DEF IndexMember, CallsInv
      <3>3. QED
        BY <2>1, <3>2
    <2>4. QED
      BY <1>5, <2>2, <2>3 DEF IndexNext, IndexPool, AssignOrg, IndexDocument, Tables
  <1>6. CASE UNCHANGED allVars
    BY <1>6 DEF allVars, deskVars, CallsInv
  <1>7. QED
    BY <1>1, <1>2, <1>3, <1>4, <1>5, <1>6 DEF DealsNext

\* Whatever the endpoints build, whoever signs it, when the chain has moved on since
\* and what other wallets do meanwhile: the package takes only steps of its entry
\* functions, so that every theorem about Pool holds of the whole system.
THEOREM DeskDrivesPackage == DealsSpec => Spec
  <1>1. DealsInit => Init /\ CallsInv
    BY DEF DealsInit, DeskInit, CallsInv, Waits, HasFields, Idle
  <1>2. CallsInv /\ [DealsNext]_allVars => CallsInv' /\ [Next]_vars
    BY DeskStep
  <1>3. QED
    BY <1>1, <1>2, PTL DEF DealsSpec, Spec

-----------------------------------------------------------------------------
(* The details of a pool are refused to whoever was revoked *)

\* The members of a room are indexed only behind the room's row, and that row stays.
RowsInv ==
    /\ HasFields(rows, {"pool", "room", "docs", "members"})
    /\ rows.members = [a \in Address |-> rows.members[a]]
    /\ rows.pool = "none" => ~rows.room
    /\ \A a \in Address : rows.members[a] # "none" => rows.room

\* Whose revocation was in the tables all the while, finds it there.
Visit(call) ==
    /\ HasFields(call, {"at"})
    /\ call.at \in {"room", "membership", "shown"} =>
           {"user", "revoked"} \subseteq DOMAIN call /\ call.user \in Address
    /\ call.at \in {"room", "membership"} /\ call.revoked = TRUE =>
           rows.room /\ rows.members[call.user] = "revoked"
    /\ call.at = "shown" => call.revoked = FALSE

VisitsInv == calls = [c \in Slots |-> calls[c]] /\ \A c \in Slots : Visit(calls[c])

LEMMA PutVisit ==
  ASSUME VisitsInv, RowsInv, rows' = rows, NEW c \in Slots, NEW call, Visit(call),
         calls' = [calls EXCEPT ![c] = call]
  PROVE  VisitsInv' /\ RowsInv'
  <1>1. \A k : Visit(k) => Visit(k)'
    BY DEF Visit, HasFields
  <1>2. RowsInv'
    BY DEF RowsInv, HasFields
  <1>3. \A d \in Slots : calls'[d] = IF d = c THEN call ELSE calls[d]
    BY DEF VisitsInv
  <1>4. \A d \in Slots : Visit(calls[d]) /\ Visit(call)'
    BY <1>1 DEF VisitsInv
  <1>5. QED
    BY <1>1, <1>2, <1>3, <1>4 DEF VisitsInv

\* A transaction that is built is no visit.
LEMMA BuildVisit ==
  ASSUME VisitsInv, RowsInv, NEW c \in Slots, NEW tx, Build(c, tx)
  PROVE  VisitsInv' /\ RowsInv'
  <1> DEFINE call == [at |-> "built", tx |-> tx, effect |-> "none", moved |-> FALSE]
  <1>1. Visit(call)
    BY DEF Visit, HasFields
  <1>2. calls' = [calls EXCEPT ![c] = call] /\ rows' = rows
    BY DEF Build, Start
  <1>3. QED
    BY <1>1, <1>2, PutVisit

\* The endpoints, for whoever calls them.
LEMMA EndpointsKeepVisits ==
  ASSUME VisitsInv, RowsInv, NEW c \in Slots, NEW u \in Address,
         \/ PoolsController(c, u) \/ DataroomsController(c, u) \/ DocumentsController(c, u)
         \/ ReviewsController(c, u) \/ ICDecisionsController(c, u)
  PROVE  VisitsInv' /\ RowsInv'
  <1>1. ASSUME GetPool(c, u) PROVE VisitsInv' /\ RowsInv'
    <2> DEFINE revoked == rows.members[u] = "revoked"
               call == [at |-> "room", user |-> u, revoked |-> revoked]
    <2>1. revoked => rows.room
      BY DEF RowsInv
    <2>2. Visit(call)
      BY <2>1 DEF Visit, HasFields
    <2>3. calls' = [calls EXCEPT ![c] = call] /\ rows' = rows
      BY <1>1 DEF GetPool, Start
    <2>4. QED
      BY <2>2, <2>3, PutVisit
  <1>2. CASE PoolsController(c, u)
    BY <1>1, <1>2, BuildVisit DEF PoolsController, BuildTransition, BuildCancel
  <1>3. CASE DataroomsController(c, u)
    BY <1>3, BuildVisit DEF DataroomsController, BuildAddMember, BuildRemoveMember,
                            BuildUpdateMemberRole, BuildCreateFolder
  <1>4. CASE DocumentsController(c, u)
    BY <1>4, BuildVisit DEF DocumentsController, BuildCreateDocument, BuildAddVersion,
                            BuildArchiveDocument
  <1>5. CASE ReviewsController(c, u) \/ ICDecisionsController(c, u)
    BY <1>5, BuildVisit DEF ReviewsController, BuildSubmitReview, ICDecisionsController,
                            BuildSubmitDecision
  <1>6. QED
    BY <1>2, <1>3, <1>4, <1>5

\* The steps of a call: a visit that goes on has found no row of the room where its
\* caller's revocation stands.
LEMMA CallKeepsVisits ==
  ASSUME VisitsInv, RowsInv, NEW c \in Slots,
         \/ ChecklistController(c)
         \/ Abandon(c) \/ AnswerSubmit(c) \/ EndCall(c)
         \/ WriteItem(c) \/ FindRoom(c) \/ CheckMembership(c)
  PROVE  VisitsInv' /\ RowsInv'
  <1>0. Visit(calls[c])
    BY DEF VisitsInv
  <1>1. ASSUME NEW call, Visit(call), calls' = [calls EXCEPT ![c] = call], rows' = rows
        PROVE  VisitsInv' /\ RowsInv'
    BY <1>1, PutVisit
  <1>2. Visit(Idle)
    BY DEF Visit, HasFields, Idle
  <1>3. CASE ChecklistController(c)
    <2>1. CASE \E item \in Item : AddItem(c, item)
      BY <2>1 DEF AddItem, VisitsInv, RowsInv, Visit, HasFields
    <2>2. CASE \E i \in DOMAIN checklist, write \in StatusInputs \union {"deleted"} :
                  FindItem(c, i, write)
      <3>1. PICK i \in DOMAIN checklist, write \in StatusInputs \union {"deleted"} :
               FindItem(c, i, write)
        BY <2>2
      <3>2. Visit([at |-> "found", row |-> i, write |-> write])
        BY DEF Visit, HasFields
      <3>3. QED
        BY <1>1, <3>1, <3>2 DEF FindItem, Start
    <2>3. QED
      BY <1>3, <2>1, <2>2 DEF ChecklistController
  <1>4. CASE Abandon(c) \/ EndCall(c) \/ WriteItem(c)
    BY <1>1, <1>2, <1>4 DEF Abandon, EndCall, WriteItem, Step
  <1>5. CASE AnswerSubmit(c)
    <2>1. Visit([calls[c] EXCEPT !.at = "answered"])
      BY <1>0 DEF Visit, HasFields
    <2>2. QED
      BY <1>1, <1>5, <2>1 DEF AnswerSubmit, Step
  <1>6. CASE FindRoom(c)
    <2> DEFINE at == IF rows.room THEN "membership" ELSE "shown"
               call == [calls[c] EXCEPT !.at = at]
    <2>1. calls[c].at = "room"
      BY <1>6 DEF FindRoom
    <2>2. /\ HasFields(call, {"at", "user", "revoked"}) /\ call.at = at
          /\ call.user = calls[c].user /\ call.revoked = calls[c].revoked
      BY <1>0, <2>1 DEF Visit, HasFields
    <2>3. at = "membership" \/ (at = "shown" /\ ~rows.room)
      OBVIOUS
    <2> HIDE DEF call, at
    <2>4. Visit(call)
      BY <1>0, <2>1, <2>2, <2>3 DEF Visit, HasFields
    <2>5. calls' = [calls EXCEPT ![c] = call] /\ rows' = rows
      BY <1>6 DEF FindRoom, Step, call, at
    <2>6. QED
      BY <1>1, <2>4, <2>5
  <1>7. CASE CheckMembership(c)
    <2> DEFINE call == [calls[c] EXCEPT !.at = "shown"]
    <2>1. calls[c].at = "membership"
      BY <1>7 DEF CheckMembership
    <2>2. /\ HasFields(call, {"at", "user", "revoked"}) /\ call.at = "shown"
          /\ call.user = calls[c].user /\ call.revoked = calls[c].revoked
      BY <1>0, <2>1 DEF Visit, HasFields
    <2> HIDE DEF call
    <2>3. rows.members[calls[c].user] = "active" => Visit(call)
      BY <1>0, <2>1, <2>2 DEF Visit, HasFields
    <2>4. rows' = rows /\ \/ calls' = [calls EXCEPT ![c] = Idle]
                          \/ /\ rows.members[calls[c].user] = "active"
                             /\ calls' = [calls EXCEPT ![c] = call]
      BY <1>7 DEF CheckMembership, Step, call
    <2>5. QED
      BY <1>1, <1>2, <2>3, <2>4
  <1>8. QED
    BY <1>3, <1>4, <1>5, <1>6, <1>7

\* Neither the execution of a transaction nor an administrator touches a visit.
LEMMA OvertakenVisits ==
  ASSUME VisitsInv, NEW others
  PROVE  /\ Overtaken(others) = [c \in Slots |-> Overtaken(others)[c]]
         /\ \A c \in Slots : Visit(Overtaken(others)[c])
  <1>1. \A c \in Slots : calls[c].at = "built" => Visit([calls[c] EXCEPT !.moved = TRUE])
    BY DEF VisitsInv, Visit, HasFields
  <1>2. QED
    BY <1>1 DEF VisitsInv, Overtaken

LEMMA ExecuteKeepsVisits ==
  ASSUME VisitsInv, RowsInv, NEW c \in Slots, Execute(c)
  PROVE  VisitsInv' /\ RowsInv'
  <1>1. rows' = rows /\ calls[c].at = "built"
    BY DEF Execute
  <1>2. \A effect \in {"success", "failure"} :
           Visit([calls[c] EXCEPT !.at = "executed", !.effect = effect])
    BY DEF VisitsInv, Visit, HasFields
  <1>3. CASE calls' = [Overtaken(Slots \ {c}) EXCEPT
                          ![c] = [calls[c] EXCEPT !.at = "executed", !.effect = "success"]]
    <2> DEFINE others == Overtaken(Slots \ {c})
               done   == [calls[c] EXCEPT !.at = "executed", !.effect = "success"]
    <2>1. Visit(done) /\ calls' = [others EXCEPT ![c] = done]
      BY <1>2, <1>3
    <2>2. others = [k \in Slots |-> others[k]] /\ \A k \in Slots : Visit(others[k])
      BY OvertakenVisits
    <2> HIDE DEF others, done
    <2>3. \A k : Visit(k) => Visit(k)'
      BY <1>1 DEF Visit, HasFields
    <2>4. calls' = [k \in Slots |-> calls'[k]] /\ \A k \in Slots : Visit(calls'[k])
      BY <2>1, <2>2
    <2>5. QED
      BY <1>1, <2>3, <2>4 DEF VisitsInv, RowsInv, HasFields
  <1>4. CASE calls' = [calls EXCEPT ![c] = [calls[c] EXCEPT !.at = "executed",
                                                            !.effect = "failure"]]
    BY <1>1, <1>2, <1>4, PutVisit
  <1>5. QED
    BY <1>3, <1>4 DEF Execute

\* The tables: a member's row that is indexed is news to the visits of that member only.
LEMMA IndexKeepsVisits ==
  ASSUME VisitsInv, RowsInv, IndexNext
  PROVE  VisitsInv' /\ RowsInv'
  <1>0. /\ {"pool", "room", "docs", "members"} \subseteq DOMAIN rows
        /\ rows = [f \in DOMAIN rows |-> rows[f]]
    BY DEF RowsInv, HasFields
  <1>1. ASSUME calls' = calls, rows'.members = rows.members,
               rows.pool # "none" => rows'.room = rows.room
        PROVE  VisitsInv'
    <2>1. \A k : Visit(k) => Visit(k)'
      BY <1>1 DEF Visit, RowsInv, HasFields
    <2>2. QED
      BY <1>1, <2>1 DEF VisitsInv
  <1>2. CASE IndexPool
    <2>1. PICK room \in BOOLEAN :
             rows' = [rows EXCEPT !.pool = "placeholder", !.room = room]
      BY <1>2 DEF IndexPool, Tables
    <2>2. /\ rows'.pool = "placeholder" /\ rows'.members = rows.members /\ rows.pool = "none"
          /\ HasFields(rows', {"pool", "room", "docs", "members"}) /\ calls' = calls
      BY <1>0, <1>2, <2>1 DEF IndexPool, HasFields
    <2>3. \A a \in Address : rows.members[a] = "none"
      BY <2>2 DEF RowsInv
    <2>4. QED
      BY <1>1, <2>2, <2>3 DEF RowsInv
  <1>3. CASE AssignOrg
    <2>1. /\ rows'.pool = "home" /\ rows'.members = rows.members /\ rows'.room = rows.room
          /\ HasFields(rows', {"pool", "room", "docs", "members"}) /\ calls' = calls
      BY <1>0, <1>3 DEF AssignOrg, Tables, HasFields
    <2>2. QED
      BY <1>1, <2>1 DEF RowsInv
  <1>4. CASE \E d \in Doc : IndexDocument(d)
    <2>1. /\ rows'.pool = rows.pool /\ rows'.members = rows.members /\ rows'.room = rows.room
          /\ HasFields(rows', {"pool", "room", "docs", "members"}) /\ calls' = calls
      BY <1>0, <1>4 DEF IndexDocument, Tables, HasFields
    <2>2. QED
      BY <1>1, <2>1 DEF RowsInv
  <1>5. ASSUME NEW u \in Address, IndexMember(u) PROVE VisitsInv' /\ RowsInv'
    <2>1. /\ rows'.pool = rows.pool /\ rows'.room = rows.room /\ rows.room
          /\ rows'.members = [rows.members EXCEPT ![u] = standing[u]]
          /\ HasFields(rows', {"pool", "room", "docs", "members"})
      BY <1>0, <1>5 DEF IndexMember, Tables, HasFields
    <2>2. /\ rows'.members = [a \in Address |-> rows'.members[a]]
          /\ \A a \in Address : a # u => rows'.members[a] = rows.members[a]
      BY <2>1 DEF RowsInv
    <2>3. RowsInv'
      BY <2>1, <2>2 DEF RowsInv
    <2>4. ASSUME NEW c \in Slots PROVE Visit(calls[c])'
      <3>0. Visit(calls[c])
        BY DEF VisitsInv
      <3>1. CASE calls[c].at \in {"room", "membership"} /\ calls[c].user = u
        <4> DEFINE call == [calls[c] EXCEPT !.revoked = FALSE]
        <4>1. /\ HasFields(call, {"at", "user", "revoked"}) /\ call.at = calls[c].at
              /\ call.user = u /\ call.revoked = FALSE
          BY <3>0, <3>1 DEF Visit, HasFields
        <4>2. calls'[c] = call
          BY <1>5, <3>1 DEF IndexMember
        <4> HIDE DEF call
        <4>3. QED
          BY <3>1, <4>1, <4>2 DEF Visit, HasFields
      <3>2. CASE ~(calls[c].at \in {"room", "membership"} /\ calls[c].user = u)
        <4>1. calls'[c] = calls[c]
          BY <1>5, <3>2 DEF IndexMember
        <4>2. QED
          BY <2>1, <2>2, <3>0, <3>2, <4>1 DEF Visit, HasFields
      <3>3. QED
        BY <3>1, <3>2
    <2>5. calls' = [c \in Slots |-> calls'[c]]
      BY <1>5 DEF IndexMember
    <2>6. QED
      BY <2>3, <2>4, <2>5 DEF VisitsInv
  <1>6. QED
    BY <1>2, <1>3, <1>4, <1>5 DEF IndexNext

LEMMA VisitsNext == VisitsInv /\ RowsInv /\ [DealsNext]_allVars => VisitsInv' /\ RowsInv'
  <1> SUFFICES ASSUME VisitsInv, RowsInv, [DealsNext]_allVars PROVE VisitsInv' /\ RowsInv'
    OBVIOUS
  <1>1. ASSUME rows' = rows, calls' = calls PROVE VisitsInv' /\ RowsInv'
    BY <1>1 DEF VisitsInv, RowsInv, Visit, HasFields
  <1>2. CASE WizardNext /\ UNCHANGED deskVars
    BY <1>1, <1>2 DEF deskVars
  <1>3. CASE CallNext
    BY <1>3, EndpointsKeepVisits, CallKeepsVisits, ExecuteKeepsVisits DEF CallNext
  <1>4. CASE DeskAdminNext
    <2>1. calls' = Overtaken(Slots) /\ rows' = rows
      BY <1>4 DEF DeskAdminNext
    <2>2. \A k : Visit(k) => Visit(k)'
      BY <2>1 DEF Visit, HasFields
    <2>3. calls' = [c \in Slots |-> calls'[c]] /\ \A c \in Slots : Visit(calls'[c])
      BY <2>1, OvertakenVisits
    <2>4. QED
      BY <2>1, <2>2, <2>3 DEF VisitsInv, RowsInv, HasFields
  <1>5. CASE Elsewhere
    BY <1>1, <1>5 DEF Elsewhere
  <1>6. CASE IndexNext
    BY <1>6, IndexKeepsVisits
  <1>7. CASE UNCHANGED allVars
    BY <1>1, <1>7 DEF allVars, deskVars
  <1>8. QED
    BY <1>2, <1>3, <1>4, <1>5, <1>6, <1>7 DEF DealsNext

\* The details of a pool are read from three tables that the indexer writes meanwhile: whose
\* revocation was there before the first read and stays there, is not shown the pool.
THEOREM RevokedNotShown == DealsSpec => []RevokedIsRefused
  <1>1. DealsInit => VisitsInv /\ RowsInv
    <2>1. Visit(Idle)
      BY DEF Visit, HasFields, Idle
    <2>2. DealsInit => VisitsInv
      BY <2>1 DEF DealsInit, DeskInit, VisitsInv
    <2>3. DealsInit => RowsInv
      <3>1. DealsInit => /\ HasFields(rows, {"pool", "room", "docs", "members"})
                         /\ rows.room = FALSE /\ rows.members = [a \in Address |-> "none"]
        <4> DEFINE r(m) == [pool |-> "none", room |-> FALSE, docs |-> {}, members |-> m]
        <4>1. \A m : /\ HasFields(r(m), {"pool", "room", "docs", "members"})
                     /\ r(m).room = FALSE /\ r(m).members = m
          BY DEF HasFields
        <4>2. DealsInit => rows = r([a \in Address |-> "none"])
          BY DEF DealsInit, DeskInit
        <4> HIDE DEF r
        <4>3. QED
          BY <4>1, <4>2
      <3>2. QED
        BY <3>1 DEF RowsInv
    <2>4. QED
      BY <2>2, <2>3
  <1>2. VisitsInv => RevokedIsRefused
    BY DEF VisitsInv, Visit, RevokedIsRefused
  <1>3. QED
    BY <1>1, <1>2, VisitsNext, PTL DEF DealsSpec

-----------------------------------------------------------------------------
(* The types of wizard, desk and tables *)

\* What the page shows and how often the button was pressed bound what was created:
\* a submission that may still create a pool has its click not yet used up.
WizardInv ==
    /\ WizardTypeOK
    /\ Len(form.invites) <= MaxInvites
    /\ HasFields(submission, {"at", "fields", "invites", "effect", "moved"})
    /\ form.open /\ ~form.submitting => submission.at = "idle"
    /\ created <= submits
    /\ submission.at \in {"post", "built"} => created < submits

\* The empty page, and the page that was left.
LEMMA BlankFormOK ==
  /\ BlankForm \in FormState /\ ClosedForm \in FormState
  /\ BlankForm.open = TRUE /\ ClosedForm.open = FALSE
  /\ Len(BlankForm.invites) <= MaxInvites /\ Len(ClosedForm.invites) <= MaxInvites
  <1>1. MaxItems \in 1..MaxItems /\ MaxInvites \in Nat
    BY WizardAssumption
  <1>2. /\ BlankForm \in FormState /\ BlankForm.open = TRUE
        /\ BlankForm.invites = <<>> /\ Len(BlankForm.invites) <= MaxInvites
    BY <1>1 DEF BlankForm, FormState, FieldClasses, Steps
  <1>3. QED
    BY <1>1, <1>2 DEF ClosedForm, FormState

\* No more invites are named than the form has.
LEMMA NamedInvitesOK ==
  ASSUME NEW f, f.invites \in Seq({"blank", "named"}), Len(f.invites) <= MaxInvites
  PROVE  Cardinality(NamedInvites(f)) \in 0..MaxInvites
  <1>1. Len(f.invites) \in Nat /\ DOMAIN f.invites = 1..Len(f.invites) /\ MaxInvites \in Nat
    BY LenProperties, WizardAssumption
  <1>2. IsFiniteSet(1..Len(f.invites)) /\ Cardinality(1..Len(f.invites)) = Len(f.invites)
    BY <1>1, FS_Interval
  <1>3. NamedInvites(f) \in SUBSET (1..Len(f.invites))
    BY <1>1 DEF NamedInvites
  <1>4. /\ IsFiniteSet(NamedInvites(f))
        /\ Cardinality(NamedInvites(f)) <= Cardinality(1..Len(f.invites))
    BY <1>2, <1>3, FS_Subset
  <1>5. Cardinality(NamedInvites(f)) \in Nat
    BY <1>4, FS_CardinalityType
  <1>6. QED
    BY <1>1, <1>2, <1>4, <1>5

\* Removing an invite leaves one less.
LEMMA RemoveInviteOK ==
  ASSUME NEW s \in Seq({"blank", "named"}), NEW i \in 1..Len(s)
  PROVE  LET rest == SubSeq(s, 1, i - 1) \o SubSeq(s, i + 1, Len(s)) IN
         rest \in Seq({"blank", "named"}) /\ Len(rest) <= Len(s)
  <1> DEFINE front == SubSeq(s, 1, i - 1)
             back  == SubSeq(s, i + 1, Len(s))
  <1>1. Len(s) \in Nat /\ \A j \in 1..Len(s) : s[j] \in {"blank", "named"}
    BY LenProperties, ElementOfSeq
  <1>2. front \in Seq({"blank", "named"}) /\ Len(front) <= i - 1 /\ Len(front) \in Nat
    <2>1. \A j \in 1..(i - 1) : s[j] \in {"blank", "named"}
      BY <1>1
    <2>2. /\ front \in Seq({"blank", "named"})
          /\ Len(front) = IF 1 <= i - 1 THEN (i - 1) - 1 + 1 ELSE 0
      BY <1>1, <2>1, SubSeqProperties
    <2>3. QED
      BY <1>1, <2>2
  <1>3. back \in Seq({"blank", "named"}) /\ Len(back) <= Len(s) - i /\ Len(back) \in Nat
    <2>1. \A j \in (i + 1)..Len(s) : s[j] \in {"blank", "named"}
      BY <1>1
    <2>2. /\ back \in Seq({"blank", "named"})
          /\ Len(back) = IF i + 1 <= Len(s) THEN Len(s) - (i + 1) + 1 ELSE 0
      BY <1>1, <2>1, SubSeqProperties
    <2>3. QED
      BY <1>1, <2>2
  <1> HIDE DEF front, back
  <1>4. front \o back \in Seq({"blank", "named"}) /\ Len(front \o back) = Len(front) + Len(back)
    BY <1>2, <1>3, ConcatProperties
  <1>5. front \o back \in Seq({"blank", "named"}) /\ Len(front \o back) <= Len(s)
    BY <1>1, <1>2, <1>3, <1>4
  <1>6. QED
    BY <1>5 DEF front, back

\* An input of the form leaves a form behind, and the button as it was.
LEMMA EditTypes ==
  ASSUME WizardInv, form.open, NEW f \in FormState, Edit(f),
         Len(f.invites) <= MaxInvites,
         f.open => f.submitting = form.submitting
  PROVE  WizardInv'
  BY DEF WizardInv, WizardTypeOK, Edit, HasFields

\* Every input of the form is such an edit.
LEMMA FormTypes ==
  ASSUME WizardInv, FormNext
  PROVE  WizardInv'
  <1>0. form \in FormState /\ Len(form.invites) <= MaxInvites
    BY DEF WizardInv, WizardTypeOK
  <1>1. CASE \E class \in FieldClasses : SetFields(class)
    <2>1. PICK class \in FieldClasses : SetFields(class)
      BY <1>1
    <2> DEFINE f == [form EXCEPT !.fields = class]
    <2>2. f \in FormState /\ f.invites = form.invites /\ f.submitting = form.submitting
      BY <1>0 DEF FormState
    <2>3. Edit(f) /\ form.open
      BY <2>1 DEF SetFields, OnStep
    <2> HIDE DEF f
    <2>4. QED
      BY <1>0, <2>2, <2>3, EditTypes
  <1>2. CASE DatePasses
    <2> DEFINE f == [form EXCEPT !.fields = "api_only"]
    <2>1. f \in FormState /\ f.invites = form.invites /\ f.submitting = form.submitting
      BY <1>0 DEF FormState, FieldClasses
    <2>2. Edit(f) /\ form.open
      BY <1>2 DEF DatePasses
    <2> HIDE DEF f
    <2>3. QED
      BY <1>0, <2>1, <2>2, EditTypes
  <1>3. CASE \E scheme \in {"aes", "seal"} : SetScheme(scheme)
    <2>1. PICK scheme \in {"aes", "seal"} : SetScheme(scheme)
      BY <1>3
    <2> DEFINE f == [form EXCEPT !.scheme = scheme]
    <2>2. f \in FormState /\ f.invites = form.invites /\ f.submitting = form.submitting
      BY <1>0 DEF FormState
    <2>3. Edit(f) /\ form.open
      BY <2>1 DEF SetScheme, OnStep
    <2> HIDE DEF f
    <2>4. QED
      BY <1>0, <2>2, <2>3, EditTypes
  <1>4. CASE \E value \in BOOLEAN : Acknowledge(value)
    <2>1. PICK value \in BOOLEAN : Acknowledge(value)
      BY <1>4
    <2> DEFINE f == [form EXCEPT !.ack = value]
    <2>2. f \in FormState /\ f.invites = form.invites /\ f.submitting = form.submitting
      BY <1>0 DEF FormState
    <2>3. Edit(f) /\ form.open
      BY <2>1 DEF Acknowledge, OnStep
    <2> HIDE DEF f
    <2>4. QED
      BY <1>0, <2>2, <2>3, EditTypes
  <1>5. CASE AddCustomItem \/ RemoveItem
    <2>1. PICK n \in 1..MaxItems : Edit([form EXCEPT !.items = n]) /\ form.open
      <3>1. form.items \in 1..MaxItems /\ MaxItems \in Nat
        BY <1>0, WizardAssumption DEF FormState
      <3>2. CASE AddCustomItem
        <4>1. /\ form.items + 1 \in 1..MaxItems
              /\ Edit([form EXCEPT !.items = form.items + 1]) /\ form.open
          BY <3>1, <3>2 DEF AddCustomItem, OnStep
        <4>2. QED
          BY <4>1
      <3>3. CASE RemoveItem
        <4>1. /\ form.items - 1 \in 1..MaxItems
              /\ Edit([form EXCEPT !.items = form.items - 1]) /\ form.open
          BY <3>1, <3>3 DEF RemoveItem, OnStep
        <4>2. QED
          BY <4>1
      <3>4. QED
        BY <1>5, <3>2, <3>3
    <2> DEFINE f == [form EXCEPT !.items = n]
    <2>2. f \in FormState /\ f.invites = form.invites /\ f.submitting = form.submitting
      BY <1>0 DEF FormState
    <2> HIDE DEF f
    <2>3. QED
      BY <1>0, <2>1, <2>2, EditTypes DEF f
  <1>6. CASE AddInvite \/ \E i \in 1 .. Len(form.invites) : NameInvite(i) \/ RemoveInvite(i)
    <2>0. form.invites \in Seq({"blank", "named"}) /\ MaxInvites \in Nat
      BY <1>0, WizardAssumption DEF FormState
    <2>1. PICK s \in Seq({"blank", "named"}) :
             Len(s) <= MaxInvites /\ Edit([form EXCEPT !.invites = s]) /\ form.open
      <3>1. CASE AddInvite
        <4>1. /\ Append(form.invites, "blank") \in Seq({"blank", "named"})
              /\ Len(Append(form.invites, "blank")) = Len(form.invites) + 1
              /\ Len(form.invites) \in Nat
          BY <2>0
        <4>2. Len(form.invites) + 1 <= MaxInvites
          BY <2>0, <3>1, <4>1 DEF AddInvite
        <4>3. QED
          BY <3>1, <4>1, <4>2 DEF AddInvite, OnStep
      <3>2. ASSUME NEW i \in 1 .. Len(form.invites), NameInvite(i)
            PROVE  \E s \in Seq({"blank", "named"}) :
                      Len(s) <= MaxInvites /\ Edit([form EXCEPT !.invites = s]) /\ form.open
        <4>1. /\ [form.invites EXCEPT ![i] = "named"] \in Seq({"blank", "named"})
              /\ Len([form.invites EXCEPT ![i] = "named"]) = Len(form.invites)
          BY <2>0, ExceptSeq
        <4>2. Edit([form EXCEPT !.invites = [form.invites EXCEPT ![i] = "named"]]) /\ form.open
          BY <3>2 DEF NameInvite, OnStep
        <4>3. QED
          BY <1>0, <4>1, <4>2
      <3>3. ASSUME NEW i \in 1 .. Len(form.invites), RemoveInvite(i)
            PROVE  \E s \in Seq({"blank", "named"}) :
                      Len(s) <= MaxInvites /\ Edit([form EXCEPT !.invites = s]) /\ form.open
        <4> DEFINE s == SubSeq(form.invites, 1, i - 1)
                            \o SubSeq(form.invites, i + 1, Len(form.invites))
        <4>1. s \in Seq({"blank", "named"}) /\ Len(s) <= Len(form.invites)
          BY <2>0, RemoveInviteOK
        <4>2. Len(s) \in Nat /\ Len(form.invites) \in Nat
          BY <2>0, <4>1, LenProperties
        <4>3. Edit([form EXCEPT !.invites = s]) /\ form.open
          BY <3>3 DEF RemoveInvite, OnStep
        <4> HIDE DEF s
        <4>4. Len(s) <= MaxInvites
          BY <1>0, <2>0, <4>1, <4>2
        <4>5. QED
          BY <4>1, <4>3, <4>4
      <3>4. QED
        BY <1>6, <3>1, <3>2, <3>3
    <2> DEFINE f == [form EXCEPT !.invites = s]
    <2>2. f \in FormState /\ f.invites = s /\ f.submitting = form.submitting
      BY <1>0 DEF FormState
    <2> HIDE DEF f
    <2>3. QED
      BY <1>0, <2>1, <2>2, EditTypes DEF f
  <1>7. CASE HandleNext \/ HandleBack \/ \E step \in 0..3 : EditFromReview(step)
    <2>1. PICK step \in Steps, return \in BOOLEAN :
             /\ Edit([form EXCEPT !.step = step, !.returnToReview = return])
             /\ form.open
      <3>0. form.step \in 0..4 /\ form.returnToReview \in BOOLEAN
            /\ \A step \in 0..4 : [form EXCEPT !.step = step]
                                    = [form EXCEPT !.step = step, !.returnToReview = form.returnToReview]
        BY <1>0 DEF FormState, Steps
      <3>1. CASE HandleNext
        <4>1. CASE form.returnToReview
          <5>1. /\ Edit([form EXCEPT !.step = 4, !.returnToReview = FALSE]) /\ form.open
                /\ 4 \in Steps
            BY <3>1, <4>1 DEF HandleNext, Review, Steps
          <5>2. QED
            BY <5>1
        <4>2. CASE ~form.returnToReview
          <5>1. form.step + 1 \in 0..4 /\ Edit([form EXCEPT !.step = form.step + 1]) /\ form.open
            BY <3>0, <3>1, <4>2 DEF HandleNext
          <5>2. QED
            BY <3>0, <5>1 DEF Steps
        <4>3. QED
          BY <4>1, <4>2
      <3>2. CASE HandleBack
        <4>1. CASE form.returnToReview
          <5>1. /\ Edit([form EXCEPT !.step = 4, !.returnToReview = FALSE]) /\ form.open
                /\ 4 \in Steps
            BY <3>2, <4>1 DEF HandleBack, Review, Steps
          <5>2. QED
            BY <5>1
        <4>2. CASE ~form.returnToReview
          <5>1. form.step - 1 \in 0..4 /\ Edit([form EXCEPT !.step = form.step - 1]) /\ form.open
            BY <3>0, <3>2, <4>2 DEF HandleBack
          <5>2. QED
            BY <3>0, <5>1 DEF Steps
        <4>3. QED
          BY <4>1, <4>2
      <3>3. CASE \E step \in 0..3 : EditFromReview(step)
        <4>1. PICK step \in 0..3 : EditFromReview(step)
          BY <3>3
        <4>2. /\ Edit([form EXCEPT !.step = step, !.returnToReview = TRUE]) /\ form.open
              /\ step \in Steps
          BY <4>1 DEF EditFromReview, OnStep, Steps
        <4>3. QED
          BY <4>2
      <3>4. QED
        BY <1>7, <3>1, <3>2, <3>3
    <2> DEFINE f == [form EXCEPT !.step = step, !.returnToReview = return]
    <2>2. f \in FormState /\ f.invites = form.invites /\ f.submitting = form.submitting
      BY <1>0 DEF FormState
    <2> HIDE DEF f
    <2>3. QED
      BY <1>0, <2>1, <2>2, EditTypes DEF f
  <1>8. CASE LeavePage
    BY <1>8, EditTypes, BlankFormOK DEF LeavePage
  <1>9. QED
    BY <1>1, <1>2, <1>3, <1>4, <1>5, <1>6, <1>7, <1>8 DEF FormNext

\* The submission goes through its phases: the click that started it pays for the pool
\* it creates.
LEMMA SubmissionTypes ==
  ASSUME WizardInv, SubmissionNext
  PROVE  WizardInv'
  <1>0. /\ MaxSubmits \in Nat /\ MaxLost \in Nat /\ MaxInvites \in Nat
        /\ form \in FormState /\ Len(form.invites) <= MaxInvites
        /\ created \in Nat /\ submits \in Nat /\ lost \in 0..MaxLost /\ submits <= MaxSubmits
        /\ created <= submits
    BY WizardAssumption DEF WizardInv, WizardTypeOK
  <1>1. ASSUME NEW value \in BOOLEAN
        PROVE  LET f == [form EXCEPT !.submitting = value] IN
               /\ f \in FormState /\ f.invites = form.invites
               /\ f.open = form.open /\ f.submitting = value
    BY <1>0 DEF FormState
  <1>2. /\ NoSubmission.at = "idle" /\ NoSubmission.effect = "none"
        /\ NoSubmission.invites \in 0..MaxInvites
        /\ HasFields(NoSubmission, {"at", "fields", "invites", "effect", "moved"})
    BY <1>0 DEF NoSubmission, HasFields
  \* What is left to show of a step that goes on with s.
  <1>3. ASSUME NEW s, submission' = s, UNCHANGED <<authMethod, submits>>,
               HasFields(s, {"at", "fields", "invites", "effect", "moved"}),
               s.at \in SubmissionPhases \ {"idle"}, s.effect \in {"none", "success", "failure"},
               s.invites \in 0..MaxInvites, submission.at # "idle",
               form' = form, lost' = lost, created' \in Nat, created' <= submits,
               s.at \in {"post", "built"} => created' < submits
        PROVE  WizardInv'
    BY <1>0, <1>3 DEF WizardInv, WizardTypeOK, HasFields
  \* And of one that fails.
  <1>4. ASSUME FailSubmission, created' = created, lost' \in 0..MaxLost
        PROVE  WizardInv'
    <2> DEFINE f == [form EXCEPT !.submitting = FALSE]
    <2>1. f \in FormState /\ f.invites = form.invites
      BY <1>1
    <2>2. form' = f /\ submission' = NoSubmission /\ UNCHANGED <<authMethod, submits>>
      BY <1>4 DEF FailSubmission, Continue
    <2> HIDE DEF f
    <2>3. QED
      BY <1>0, <1>2, <1>4, <2>1, <2>2 DEF WizardInv, WizardTypeOK, HasFields, SubmissionPhases
  <1>5. CASE HandleSubmit
    <2> DEFINE f == [form EXCEPT !.submitting = TRUE]
               n == Cardinality(NamedInvites(form))
               s == [NoSubmission EXCEPT !.at = "post", !.fields = form.fields, !.invites = n]
    <2>1. f \in FormState /\ f.invites = form.invites /\ f.submitting = TRUE
      BY <1>1
    <2>2. n \in 0..MaxInvites
      BY <1>0, NamedInvitesOK DEF FormState
    <2> HIDE DEF n
    <2>3. /\ s.at = "post" /\ s.effect = "none" /\ s.invites = n
          /\ HasFields(s, {"at", "fields", "invites", "effect", "moved"})
      BY DEF NoSubmission, HasFields
    <2>4. /\ form' = f /\ submission' = s /\ submits' = submits + 1 /\ submits < MaxSubmits
          /\ UNCHANGED <<authMethod, created, lost>>
      BY <1>5 DEF HandleSubmit, n
    <2> HIDE DEF f, s
    <2>5. created' < submits' /\ submits' \in 0..MaxSubmits /\ created' \in 0..MaxSubmits
      BY <1>0, <2>4
    <2>6. QED
      BY <1>0, <2>1, <2>2, <2>3, <2>4, <2>5
      DEF WizardInv, WizardTypeOK, HasFields, SubmissionPhases
  <1>6. CASE BuildCreatePool
    <2> DEFINE s == [submission EXCEPT !.at = "built", !.fields = "empty"]
    <2>1. /\ s.at = "built" /\ s.effect = submission.effect /\ s.invites = submission.invites
          /\ HasFields(s, {"at", "fields", "invites", "effect", "moved"})
      BY DEF WizardInv, HasFields
    <2>2. /\ submission' = s /\ submission.at = "post"
          /\ UNCHANGED <<authMethod, submits, form, created, lost>>
      BY <1>6 DEF BuildCreatePool, Continue
    <2> HIDE DEF s
    <2>3. QED
      BY <1>0, <1>3, <2>1, <2>2 DEF WizardInv, WizardTypeOK, SubmissionPhases
  <1>7. CASE RefuseCreatePool \/ CancelSigning
    BY <1>0, <1>4, <1>7 DEF RefuseCreatePool, CancelSigning
  <1>8. CASE ExecuteCreatePool
    <2>1. PICK effect \in {"success", "failure"} :
             submission' = [submission EXCEPT !.at = "executed", !.effect = effect]
      BY <1>8 DEF ExecuteCreatePool, Continue
    <2> DEFINE s == [submission EXCEPT !.at = "executed", !.effect = effect]
    <2>2. /\ s.at = "executed" /\ s.effect = effect /\ s.invites = submission.invites
          /\ HasFields(s, {"at", "fields", "invites", "effect", "moved"})
      BY DEF WizardInv, HasFields
    <2>3. /\ submission' = s /\ submission.at = "built"
          /\ UNCHANGED <<authMethod, submits, form, lost>>
          /\ created' = created \/ created' = created + 1
      BY <1>8, <2>1 DEF ExecuteCreatePool, Continue
    <2> HIDE DEF s
    <2>4. created' \in Nat /\ created' <= submits
      BY <1>0, <2>3 DEF WizardInv
    <2>5. QED
      BY <1>3, <2>2, <2>3, <2>4 DEF WizardInv, WizardTypeOK, SubmissionPhases
  <1>9. CASE SubmitAnswered
    <2> DEFINE s == [submission EXCEPT !.at = "invite"]
    <2>1. /\ s.at = "invite" /\ s.effect = submission.effect /\ s.invites = submission.invites
          /\ HasFields(s, {"at", "fields", "invites", "effect", "moved"})
      BY DEF WizardInv, HasFields
    <2>2. /\ submission' = s /\ submission.at = "executed"
          /\ UNCHANGED <<authMethod, submits, form, created, lost>>
      BY <1>9 DEF SubmitAnswered, Continue
    <2> HIDE DEF s
    <2>3. QED
      BY <1>0, <1>3, <2>1, <2>2 DEF WizardInv, WizardTypeOK, SubmissionPhases
  <1>10. CASE LoseSubmitAnswer
    BY <1>0, <1>4, <1>10 DEF LoseSubmitAnswer
  <1>11. CASE InviteMember
    <2> DEFINE s == [submission EXCEPT !.invites = submission.invites - 1]
    <2>1. /\ s.at = submission.at /\ s.effect = submission.effect
          /\ s.invites = submission.invites - 1
          /\ HasFields(s, {"at", "fields", "invites", "effect", "moved"})
      BY DEF WizardInv, HasFields
    <2>2. /\ submission' = s /\ submission.at = "invite" /\ submission.invites > 0
          /\ UNCHANGED <<authMethod, submits, form, created, lost>>
      BY <1>11 DEF InviteMember, Continue
    <2> HIDE DEF s
    <2>3. submission.invites \in 0..MaxInvites
      BY DEF WizardInv, WizardTypeOK
    <2>4. s.invites \in 0..MaxInvites
      BY <1>0, <2>1, <2>2, <2>3
    <2>5. QED
      BY <1>0, <1>3, <2>1, <2>2, <2>4 DEF WizardInv, WizardTypeOK, SubmissionPhases
  <1>12. CASE FinishSubmission
    <2>1. /\ form' = ClosedForm /\ submission' = NoSubmission
          /\ UNCHANGED <<authMethod, submits, created, lost>>
      BY <1>12 DEF FinishSubmission, Continue
    <2>2. QED
      BY <1>0, <1>2, <2>1, BlankFormOK DEF WizardInv, WizardTypeOK, HasFields, SubmissionPhases
  <1>13. QED
    BY <1>5, <1>6, <1>7, <1>8, <1>9, <1>10, <1>11, <1>12 DEF SubmissionNext

\* Beside its own steps, the wizard only learns that the chain has changed.
LEMMA WizardTypesStep == WizardInv /\ [DealsNext]_allVars => WizardInv'
  <1> SUFFICES ASSUME WizardInv, [DealsNext]_allVars PROVE WizardInv'
    OBVIOUS
  <1>1. CASE WizardNext
    BY <1>1, FormTypes, SubmissionTypes DEF WizardNext
  <1>2. CASE UNCHANGED wizardVars
    BY <1>2 DEF WizardInv, WizardTypeOK, HasFields, wizardVars
  <1>3. CASE DeskAdminNext
    <2> DEFINE s == [submission EXCEPT !.moved = @ \/ submission.at = "built"]
    <2>1. /\ s.at = submission.at /\ s.effect = submission.effect
          /\ s.invites = submission.invites
          /\ HasFields(s, {"at", "fields", "invites", "effect", "moved"})
      BY DEF WizardInv, HasFields
    <2>2. submission' = s /\ UNCHANGED <<authMethod, submits, form, created, lost>>
      BY <1>3 DEF DeskAdminNext
    <2> HIDE DEF s
    <2>3. QED
      BY <2>1, <2>2 DEF WizardInv, WizardTypeOK, HasFields
  <1>4. QED
    BY <1>1, <1>2, <1>3, DeskLeavesWizard DEF DealsNext, allVars

LEMMA WizardTypesInit == WizardInit => WizardInv
  BY BlankFormOK, WizardAssumption
  DEF WizardInit, WizardInv, WizardTypeOK, HasFields, NoSubmission, SubmissionPhases, BlankForm

\* The transactions the endpoints build.
Transaction(tx) ==
    \/ tx \in PoolTx \/ tx \in RoomTx \/ tx \in DocumentTx \/ tx \in ReviewTx \/ tx \in DecisionTx

\* A call that was built keeps its transaction to the end; one that found an item of the
\* checklist writes to its row.
CallOK(call) ==
    /\ HasFields(call, {"at"})
    /\ call.at \in CallPlaces
    /\ call.at \in {"built", "executed", "answered"} =>
           "tx" \in DOMAIN call /\ Transaction(call.tx)
    /\ call.at = "found" =>
           /\ {"row", "write"} \subseteq DOMAIN call
           /\ call.row \in DOMAIN checklist /\ call.write \in ItemStatuses \union {"deleted"}

CallsOK == calls = [c \in Slots |-> calls[c]] /\ \A c \in Slots : CallOK(calls[c])

\* A row of the checklist is known by its place: rows are marked, never taken out.
ChecklistOK ==
    /\ checklist \in Seq(ChecklistRow)
    /\ \A i, j \in DOMAIN checklist :
           checklist[i].item = checklist[j].item /\ i # j =>
               checklist[i].status = "deleted" \/ checklist[j].status = "deleted"

CountsOK == started \in 0..MaxCalls /\ elsewhere \in 0..MaxElsewhere

DeskTypesInv == rows \in TableRows /\ ChecklistOK /\ CallsOK /\ CountsOK

\* Rows of the members table are copies of the room's.
StandingOK == standing \in [Address -> {"none", "active", "revoked"}]

\* Writing one call keeps the others as they are.
LEMMA PutTypedCall ==
  ASSUME CallsOK, NEW c \in Slots, NEW call, CallOK(call),
         calls' = [calls EXCEPT ![c] = call], checklist' = checklist
  PROVE  CallsOK'
  <1>1. \A k : CallOK(k) => CallOK(k)'
    BY DEF CallOK, HasFields
  <1>2. calls' = [k \in Slots |-> calls'[k]] /\ \A k \in Slots : CallOK(calls'[k])
    BY DEF CallsOK
  <1>3. QED
    BY <1>1, <1>2 DEF CallsOK

\* A call is not disturbed by rows that are added to the checklist or marked.
LEMMA LongerChecklist ==
  ASSUME CallsOK, calls' = calls, DOMAIN checklist \subseteq DOMAIN checklist'
  PROVE  CallsOK'
  <1>1. \A k : CallOK(k) => CallOK(k)'
    BY DEF CallOK, HasFields
  <1>2. QED
    BY <1>1 DEF CallsOK

\* The chain changed under the calls that were built.
LEMMA OvertakenTypes ==
  ASSUME CallsOK, NEW others
  PROVE  /\ Overtaken(others) = [c \in Slots |-> Overtaken(others)[c]]
         /\ \A c \in Slots : CallOK(Overtaken(others)[c])
  <1>1. \A c \in Slots : CallOK([calls[c] EXCEPT !.moved = TRUE])
    BY DEF CallsOK, CallOK, HasFields
  <1>2. QED
    BY <1>1 DEF CallsOK, Overtaken

\* Moving a call on from one place to the next.
LEMMA MovedOn ==
  ASSUME NEW call, CallOK(call), NEW at \in CallPlaces \ {"found"},
         at \in {"executed", "answered"} => call.at \in {"built", "executed"},
         at # "built"
  PROVE  CallOK([call EXCEPT !.at = at])
  BY DEF CallOK, HasFields

\* The builders of SuiTxService, from what the schemas let through.
LEMMA BuildersOK ==
  ASSUME NEW u \in Address
  PROVE  /\ \A fun \in Transitions \union {"cancel_pool"} : Transaction(StateTransitionTx(u, fun))
         /\ \A fun \in GatedTransitions, ids \in SUBSET Doc :
                Transaction(GatedTransitionTx(u, fun, ids))
         /\ \A a \in Address, r \in RoleInputs :
                Transaction(AddMemberTx(u, a, r)) /\ Transaction(UpdateMemberRoleTx(u, a, r))
         /\ \A a \in Address : Transaction(RemoveMemberTx(u, a))
         /\ \A parent \in FolderInputs \union {NoParent} : Transaction(CreateFolderTx(u, parent))
         /\ \A folder \in FolderInputs, required \in BOOLEAN :
                Transaction(CreateDocumentTx(u, folder, required))
         /\ \A d \in Doc : Transaction(AddVersionTx(u, d)) /\ Transaction(ArchiveDocumentTx(u, d))
         /\ \A d \in Doc, v \in Verdicts : Transaction(SubmitReviewTx(u, d, StatusCode[v]))
         /\ \A fun \in Decisions, members, votes \in CommitteeInputs :
                Transaction(IcDecisionTx(u, fun, members, votes))
  <1>1. \A fun \in Transitions \union {"cancel_pool"} : StateTransitionTx(u, fun) \in PoolTx
    BY DEF StateTransitionTx, PoolTx
  <1>2. \A fun \in GatedTransitions, ids \in SUBSET Doc : GatedTransitionTx(u, fun, ids) \in PoolTx
    BY DEF GatedTransitionTx, PoolTx
  <1>3. \A a \in Address, r \in RoleInputs :
           AddMemberTx(u, a, r) \in RoomTx /\ UpdateMemberRoleTx(u, a, r) \in RoomTx
    BY DEF AddMemberTx, UpdateMemberRoleTx, RoomTx
  <1>4. \A a \in Address : RemoveMemberTx(u, a) \in RoomTx
    BY DEF RemoveMemberTx, RoomTx
  <1>5. \A parent \in FolderInputs \union {NoParent} : CreateFolderTx(u, parent) \in RoomTx
    BY DEF CreateFolderTx, RoomTx
  <1>6. \A folder \in FolderInputs, required \in BOOLEAN :
           CreateDocumentTx(u, folder, required) \in DocumentTx
    BY DEF CreateDocumentTx, DocumentTx
  <1>7. \A d \in Doc : AddVersionTx(u, d) \in DocumentTx /\ ArchiveDocumentTx(u, d) \in DocumentTx
    BY DEF AddVersionTx, ArchiveDocumentTx, DocumentTx
  <1>8. \A d \in Doc, v \in Verdicts : SubmitReviewTx(u, d, StatusCode[v]) \in ReviewTx
    <2>1. \A v \in Verdicts : StatusCode[v] \in 0..2
      BY DEF Verdicts, StatusCode
    <2>2. QED
      BY <2>1 DEF SubmitReviewTx, ReviewTx
  <1>9. \A fun \in Decisions, members, votes \in CommitteeInputs :
           IcDecisionTx(u, fun, members, votes) \in DecisionTx
    BY DEF IcDecisionTx, DecisionTx
  <1>10. QED
    BY <1>1, <1>2, <1>3, <1>4, <1>5, <1>6, <1>7, <1>8, <1>9 DEF Transaction

\* A call that starts takes one of the places left.
LEMMA StartTypes ==
  ASSUME DeskTypesInv, NEW c \in Slots, NEW call, CallOK(call), Start(c, call)
  PROVE  DeskTypesInv'
  <1>1. /\ started' = started + 1 /\ started < MaxCalls
        /\ calls' = [calls EXCEPT ![c] = call]
        /\ UNCHANGED <<rows, checklist, elsewhere>>
    BY DEF Start
  <1>2. CountsOK'
    BY <1>1, DeskAssumption DEF DeskTypesInv, CountsOK
  <1>3. CallsOK'
    BY <1>1, PutTypedCall DEF DeskTypesInv
  <1>4. QED
    BY <1>1, <1>2, <1>3 DEF DeskTypesInv, ChecklistOK

\* The endpoints that build, and those that read rows.
LEMMA EndpointTypes ==
  ASSUME DeskTypesInv, NEW c \in Slots, NEW u \in Address,
         \/ PoolsController(c, u) \/ DataroomsController(c, u) \/ DocumentsController(c, u)
         \/ ReviewsController(c, u) \/ ICDecisionsController(c, u)
  PROVE  DeskTypesInv'
  <1>1. ASSUME NEW tx, Transaction(tx), Build(c, tx)
        PROVE  DeskTypesInv'
    <2> DEFINE call == [at |-> "built", tx |-> tx, effect |-> "none", moved |-> FALSE]
    <2>1. CallOK(call)
      BY <1>1 DEF CallOK, HasFields, CallPlaces
    <2>2. Start(c, call)
      BY <1>1 DEF Build
    <2> HIDE DEF call
    <2>3. QED
      BY <2>1, <2>2, StartTypes
  <1>2. CASE GetPool(c, u)
    <2> DEFINE call == [at |-> "room", user |-> u, revoked |-> rows.members[u] = "revoked"]
    <2>1. CallOK(call)
      BY DEF CallOK, HasFields, CallPlaces
    <2>2. Start(c, call)
      BY <1>2 DEF GetPool
    <2> HIDE DEF call
    <2>3. QED
      BY <2>1, <2>2, StartTypes
  <1>3. CASE BuildTransition(c, u) \/ BuildCancel(c, u)
    BY <1>1, <1>3, BuildersOK DEF BuildTransition, BuildCancel
  <1>4. CASE DataroomsController(c, u)
    BY <1>1, <1>4, BuildersOK
    DEF DataroomsController, BuildAddMember, BuildRemoveMember, BuildUpdateMemberRole,
        BuildCreateFolder
  <1>5. CASE DocumentsController(c, u)
    BY <1>1, <1>5, BuildersOK
    DEF DocumentsController, BuildCreateDocument, BuildAddVersion, BuildArchiveDocument
  <1>6. CASE ReviewsController(c, u)
    BY <1>1, <1>6, BuildersOK DEF ReviewsController, BuildSubmitReview
  <1>7. CASE ICDecisionsController(c, u)
    BY <1>1, <1>7, BuildersOK DEF ICDecisionsController, BuildSubmitDecision
  <1>8. QED
    BY <1>2, <1>3, <1>4, <1>5, <1>6, <1>7 DEF PoolsController

\* An item is added only if it is not listed, and it is listed until it is deleted.
LEMMA ChecklistTypes ==
  ASSUME DeskTypesInv, NEW c \in Slots, ChecklistController(c)
  PROVE  DeskTypesInv'
  <1>1. ASSUME NEW item \in Item, AddItem(c, item)
        PROVE  DeskTypesInv'
    <2> DEFINE row == [item |-> item, status |-> "missing"]
    <2>1. checklist \in Seq(ChecklistRow) /\ row \in ChecklistRow
      BY DEF DeskTypesInv, ChecklistOK, ChecklistRow, ItemStatuses
    <2>2. row.item = item
      OBVIOUS
    <2>3. /\ checklist' = Append(checklist, row) /\ ~Listed(item)
          /\ started' = started + 1 /\ started < MaxCalls
          /\ UNCHANGED <<rows, calls, elsewhere>>
      BY <1>1 DEF AddItem
    <2> HIDE DEF row
    <2>4. /\ checklist' \in Seq(ChecklistRow)
          /\ Len(checklist) \in Nat
          /\ DOMAIN checklist = 1..Len(checklist)
          /\ DOMAIN checklist' = 1..(Len(checklist) + 1)
          /\ checklist'[Len(checklist) + 1] = row
          /\ \A i \in 1..Len(checklist) : checklist'[i] = checklist[i]
      BY <2>1, <2>3
    <2>5. ChecklistOK'
      <3>1. \A i \in DOMAIN checklist : checklist[i].item = row.item => checklist[i].status = "deleted"
        BY <2>2, <2>3 DEF Listed
      <3>2. ASSUME NEW i \in DOMAIN checklist', NEW j \in DOMAIN checklist', i # j,
                   checklist'[i].item = checklist'[j].item
            PROVE  checklist'[i].status = "deleted" \/ checklist'[j].status = "deleted"
        <4>1. CASE i \in 1..Len(checklist) /\ j \in 1..Len(checklist)
          BY <2>4, <3>2, <4>1 DEF DeskTypesInv, ChecklistOK
        <4>2. CASE i = Len(checklist) + 1 /\ j \in 1..Len(checklist)
          BY <2>4, <3>1, <3>2, <4>2
        <4>3. CASE j = Len(checklist) + 1 /\ i \in 1..Len(checklist)
          BY <2>4, <3>1, <3>2, <4>3
        <4>4. QED
          BY <2>4, <3>2, <4>1, <4>2, <4>3
      <3>3. QED
        BY <2>4, <3>2 DEF ChecklistOK
    <2>6. CallsOK'
      BY <2>3, <2>4, LongerChecklist DEF DeskTypesInv
    <2>7. CountsOK'
      BY <2>3, DeskAssumption DEF DeskTypesInv, CountsOK
    <2>8. QED
      BY <2>3, <2>5, <2>6, <2>7 DEF DeskTypesInv
  <1>2. ASSUME NEW i \in DOMAIN checklist, NEW write \in StatusInputs \union {"deleted"},
               FindItem(c, i, write)
        PROVE  DeskTypesInv'
    <2> DEFINE call == [at |-> "found", row |-> i, write |-> write]
    <2>1. CallOK(call)
      BY DeskAssumption DEF CallOK, HasFields, CallPlaces
    <2>2. Start(c, call)
      BY <1>2 DEF FindItem
    <2> HIDE DEF call
    <2>3. QED
      BY <2>1, <2>2, StartTypes
  <1>3. QED
    BY <1>1, <1>2 DEF ChecklistController

\* The item may have been deleted since it was found; a row that is gone stays gone.
LEMMA WriteTypes ==
  ASSUME DeskTypesInv, NEW c \in Slots, WriteItem(c)
  PROVE  DeskTypesInv'
  <1> DEFINE i     == calls[c].row
             write == calls[c].write
  <1>1. /\ i \in DOMAIN checklist /\ write \in ItemStatuses \union {"deleted"}
        /\ checklist \in Seq(ChecklistRow) /\ DOMAIN checklist = 1..Len(checklist)
    BY LenProperties DEF WriteItem, DeskTypesInv, CallsOK, CallOK, ChecklistOK
  <1>2. /\ checklist' = IF checklist[i].status = "deleted" THEN checklist
                        ELSE [checklist EXCEPT ![i].status = write]
        /\ calls' = [calls EXCEPT ![c] = Idle]
        /\ UNCHANGED <<rows, started, elsewhere>>
    BY DEF WriteItem, Step
  <1> HIDE DEF i, write
  <1>3. ChecklistOK' /\ DOMAIN checklist' = DOMAIN checklist
    <2>1. CASE checklist[i].status = "deleted"
      BY <1>2, <2>1 DEF DeskTypesInv, ChecklistOK
    <2>2. CASE checklist[i].status # "deleted"
      <3> DEFINE row == [checklist[i] EXCEPT !.status = write]
      <3>1. checklist[i] \in ChecklistRow
        BY <1>1, ElementOfSeq
      <3>2. row \in ChecklistRow /\ row.item = checklist[i].item
        BY <1>1, <3>1 DEF ChecklistRow
      <3>3. checklist' = [checklist EXCEPT ![i] = row]
        BY <1>2, <2>2
      <3> HIDE DEF row
      <3>4. /\ checklist' \in Seq(ChecklistRow) /\ DOMAIN checklist' = DOMAIN checklist
            /\ \A j \in DOMAIN checklist :
                   checklist'[j] = IF j = i THEN row ELSE checklist[j]
        BY <1>1, <3>2, <3>3, ExceptSeq
      <3>5. ASSUME NEW j \in DOMAIN checklist, NEW k \in DOMAIN checklist, j # k,
                   checklist'[j].item = checklist'[k].item
            PROVE  checklist'[j].status = "deleted" \/ checklist'[k].status = "deleted"
        <4>1. checklist[j].item = checklist[k].item
          BY <3>2, <3>4, <3>5
        <4>2. checklist[j].status = "deleted" \/ checklist[k].status = "deleted"
          BY <3>5, <4>1 DEF DeskTypesInv, ChecklistOK
        <4>3. QED
          BY <2>2, <3>4, <3>5, <4>2
      <3>6. QED
        BY <3>4, <3>5 DEF ChecklistOK
    <2>3. QED
      BY <2>1, <2>2
  <1>4. CallsOK'
    <2>1. \A k : CallOK(k) => CallOK(k)'
      BY <1>3 DEF CallOK, HasFields
    <2>2. CallOK(Idle)
      BY DEF CallOK, HasFields, Idle, CallPlaces
    <2>3. calls' = [k \in Slots |-> calls'[k]] /\ \A k \in Slots : CallOK(calls'[k])
      BY <1>2, <2>2 DEF DeskTypesInv, CallsOK
    <2>4. QED
      BY <2>1, <2>3 DEF CallsOK
  <1>5. QED
    BY <1>2, <1>3, <1>4 DEF DeskTypesInv, CountsOK

\* The other steps of a call.
LEMMA CallTypes ==
  ASSUME DeskTypesInv, NEW c \in Slots,
         \/ Abandon(c) \/ Execute(c) \/ AnswerSubmit(c) \/ EndCall(c)
         \/ WriteItem(c) \/ FindRoom(c) \/ CheckMembership(c)
  PROVE  DeskTypesInv'
  <1>0. CallOK(calls[c]) /\ CallOK(Idle)
    BY DEF DeskTypesInv, CallsOK, CallOK, HasFields, Idle, CallPlaces
  <1>1. ASSUME NEW call, CallOK(call), Step(c, call), UNCHANGED <<rows, checklist>>
        PROVE  DeskTypesInv'
    <2>1. CallsOK'
      BY <1>1, PutTypedCall DEF Step, DeskTypesInv
    <2>2. QED
      BY <1>1, <2>1 DEF Step, DeskTypesInv, ChecklistOK, CountsOK
  <1>2. CASE Abandon(c) \/ EndCall(c)
    BY <1>0, <1>1, <1>2 DEF Abandon, EndCall
  <1>3. CASE AnswerSubmit(c)
    <2>1. CallOK([calls[c] EXCEPT !.at = "answered"])
      BY <1>0, <1>3, MovedOn DEF AnswerSubmit, CallPlaces
    <2>2. QED
      BY <1>1, <1>3, <2>1 DEF AnswerSubmit
  <1>4. CASE FindRoom(c)
    <2>1. \A at \in {"membership", "shown"} : CallOK([calls[c] EXCEPT !.at = at])
      BY <1>0, MovedOn DEF CallPlaces
    <2>2. QED
      BY <1>1, <1>4, <2>1 DEF FindRoom
  <1>5. CASE CheckMembership(c)
    <2>1. CallOK([calls[c] EXCEPT !.at = "shown"])
      BY <1>0, MovedOn DEF CallPlaces
    <2>2. QED
      BY <1>0, <1>1, <1>5, <2>1 DEF CheckMembership
  <1>6. CASE Execute(c)
    <2>1. /\ calls[c].at = "built"
          /\ UNCHANGED <<rows, checklist, started, elsewhere>>
      BY <1>6 DEF Execute
    <2>2. \A effect \in {"success", "failure"} :
             CallOK([calls[c] EXCEPT !.at = "executed", !.effect = effect])
      BY <1>0, <2>1 DEF CallOK, HasFields, CallPlaces
    <2>3. CASE calls' = [Overtaken(Slots \ {c}) EXCEPT
                            ![c] = [calls[c] EXCEPT !.at = "executed", !.effect = "success"]]
      <3> DEFINE others == Overtaken(Slots \ {c})
                 done   == [calls[c] EXCEPT !.at = "executed", !.effect = "success"]
      <3>1. CallOK(done) /\ calls' = [others EXCEPT ![c] = done]
        BY <2>2, <2>3
      <3>2. others = [k \in Slots |-> others[k]] /\ \A k \in Slots : CallOK(others[k])
        BY OvertakenTypes DEF DeskTypesInv
      <3> HIDE DEF others, done
      <3>3. calls' = [k \in Slots |-> calls'[k]] /\ \A k \in Slots : CallOK(calls'[k])
        BY <3>1, <3>2
      <3>4. \A k : CallOK(k) => CallOK(k)'
        BY <2>1 DEF CallOK, HasFields
      <3>5. CallsOK'
        BY <3>3, <3>4 DEF CallsOK
      <3>6. QED
        BY <2>1, <3>5 DEF DeskTypesInv, ChecklistOK, CountsOK
    <2>4. CASE calls' = [calls EXCEPT ![c] = [calls[c] EXCEPT !.at = "executed",
                                                              !.effect = "failure"]]
      <3>1. CallsOK'
        BY <2>1, <2>2, <2>4, PutTypedCall DEF DeskTypesInv
      <3>2. QED
        BY <2>1, <3>1 DEF DeskTypesInv, ChecklistOK, CountsOK
    <2>5. QED
      BY <1>6, <2>3, <2>4 DEF Execute
  <1>7. QED
    BY <1>2, <1>3, <1>4, <1>5, <1>6, WriteTypes

\* The indexer writes what the chain says into rows of their types.
LEMMA IndexTypes ==
  ASSUME DeskTypesInv, StandingOK, IndexNext
  PROVE  DeskTypesInv'
  <1>0. rows \in TableRows
    BY DEF DeskTypesInv
  <1>1. ASSUME rows' \in TableRows, CallsOK', UNCHANGED <<checklist, started, elsewhere>>
        PROVE  DeskTypesInv'
    BY <1>1 DEF DeskTypesInv, ChecklistOK, CountsOK
  <1>2. ASSUME UNCHANGED <<calls, checklist>>
        PROVE  CallsOK'
    BY <1>2, LongerChecklist DEF DeskTypesInv
  <1>3. CASE IndexPool \/ AssignOrg \/ \E d \in Doc : IndexDocument(d)
    <2>1. /\ \A room \in BOOLEAN :
                 [rows EXCEPT !.pool = "placeholder", !.room = room] \in TableRows
          /\ [rows EXCEPT !.pool = "home"] \in TableRows
          /\ \A d \in Doc : [rows EXCEPT !.docs = @ \union {d}] \in TableRows
      BY <1>0 DEF TableRows, PoolRow
    <2>2. rows' \in TableRows /\ UNCHANGED <<calls, checklist, started, elsewhere>>
      BY <1>3, <2>1 DEF IndexPool, AssignOrg, IndexDocument, Tables
    <2>3. QED
      BY <1>1, <1>2, <2>2
  <1>4. ASSUME NEW u \in Address, IndexMember(u)
        PROVE  DeskTypesInv'
    <2>1. rows' = [rows EXCEPT !.members[u] = standing[u]]
          /\ UNCHANGED <<checklist, started, elsewhere>>
      BY <1>4 DEF IndexMember, Tables
    <2>2. rows' \in TableRows
      <3>1. rows.members \in [Address -> {"none", "active", "revoked"}]
        BY <1>0 DEF TableRows
      <3>2. [rows.members EXCEPT ![u] = standing[u]] \in [Address -> {"none", "active", "revoked"}]
        BY <3>1 DEF StandingOK
      <3>3. rows' = [rows EXCEPT !.members = [rows.members EXCEPT ![u] = standing[u]]]
        BY <1>0, <2>1 DEF TableRows
      <3>4. QED
        BY <1>0, <3>2, <3>3 DEF TableRows
    <2>3. CallsOK'
      <3>1. \A c \in Slots : CallOK([calls[c] EXCEPT !.revoked = FALSE])
        BY DEF DeskTypesInv, CallsOK, CallOK, HasFields
      <3>2. calls' = [c \in Slots |-> calls'[c]] /\ \A c \in Slots : CallOK(calls'[c])
        BY <1>4, <3>1 DEF IndexMember, DeskTypesInv, CallsOK
      <3>3. \A k : CallOK(k) => CallOK(k)'
        BY <2>1 DEF CallOK, HasFields
      <3>4. QED
        BY <3>2, <3>3 DEF CallsOK
    <2>4. QED
      BY <1>1, <2>1, <2>2, <2>3
  <1>5. QED
    BY <1>3, <1>4 DEF IndexNext

\* Every step keeps the desk's types.
LEMMA DeskTypesStep ==
  DeskTypesInv /\ StandingOK /\ [DealsNext]_allVars => DeskTypesInv'
  <1> SUFFICES ASSUME DeskTypesInv, StandingOK, [DealsNext]_allVars PROVE DeskTypesInv'
    OBVIOUS
  <1>1. CASE UNCHANGED deskVars
    <2>1. UNCHANGED <<rows, checklist, calls, started, elsewhere>>
      BY <1>1 DEF deskVars
    <2>2. CallsOK'
      BY <2>1, LongerChecklist DEF DeskTypesInv
    <2>3. QED
      BY <2>1, <2>2 DEF DeskTypesInv, ChecklistOK, CountsOK
  <1>2. CASE CallNext
    BY <1>2, EndpointTypes, ChecklistTypes, CallTypes DEF CallNext
  <1>3. CASE DeskAdminNext
    <2>1. calls' = Overtaken(Slots) /\ UNCHANGED <<rows, checklist, started, elsewhere>>
      BY <1>3 DEF DeskAdminNext
    <2>2. calls' = [c \in Slots |-> calls'[c]] /\ \A c \in Slots : CallOK(calls'[c])
      BY <2>1, OvertakenTypes DEF DeskTypesInv
    <2>3. \A k : CallOK(k) => CallOK(k)'
      BY <2>1 DEF CallOK, HasFields
    <2>4. CallsOK'
      BY <2>2, <2>3 DEF CallsOK
    <2>5. QED
      BY <2>1, <2>4 DEF DeskTypesInv, ChecklistOK, CountsOK
  <1>4. CASE Elsewhere
    <2>1. /\ elsewhere' = elsewhere + 1 /\ elsewhere < MaxElsewhere
          /\ UNCHANGED <<rows, checklist, calls, started>>
      BY <1>4 DEF Elsewhere
    <2>2. CallsOK'
      BY <2>1, LongerChecklist DEF DeskTypesInv
    <2>3. CountsOK'
      BY <2>1, DeskAssumption DEF DeskTypesInv, CountsOK
    <2>4. QED
      BY <2>1, <2>2, <2>3 DEF DeskTypesInv, ChecklistOK
  <1>5. CASE IndexNext
    BY <1>5, IndexTypes
  <1>6. QED
    BY <1>1, <1>2, <1>3, <1>4, <1>5 DEF DealsNext, allVars

LEMMA DeskTypesInit == DeskInit => DeskTypesInv
  <1> SUFFICES ASSUME DeskInit PROVE DeskTypesInv
    OBVIOUS
  <1>1. rows \in TableRows
    BY DEF DeskInit, TableRows, PoolRow
  <1>2. ChecklistOK
    BY DEF DeskInit, ChecklistOK
  <1>3. CallsOK
    BY DEF DeskInit, CallsOK, CallOK, HasFields, Idle, CallPlaces
  <1>4. CountsOK
    BY DeskAssumption DEF DeskInit, CountsOK
  <1>5. QED
    BY <1>1, <1>2, <1>3, <1>4 DEF DeskTypesInv

\* Whatever is typed, pressed, built, signed, indexed and lost in between: the form and its
\* submission stay what the page can show, a click creates at most one pool, every call holds
\* a transaction the package has, and no item of the checklist is listed twice.  What the
\* members table holds is typed because the package's is, whose steps are the only ones.
THEOREM DealsTyping == DealsSpec => []DealsTypeOK
  <1>1. DealsInit => WizardInv /\ DeskTypesInv
    BY WizardTypesInit, DeskTypesInit DEF DealsInit
  <1>2. DealsSpec => []StandingOK
    <2>1. RoomInv => StandingOK
      BY DEF RoomInv, RoomTypeOK, StandingOK
    <2>2. QED
      BY <2>1, DeskDrivesPackage, DealInvariance, PTL
  <1>3. WizardInv /\ DeskTypesInv => DealsTypeOK
    <2> SUFFICES ASSUME WizardInv, DeskTypesInv PROVE DealsTypeOK
      OBVIOUS
    <2>1. \A i \in DOMAIN checklist : checklist[i] \in ChecklistRow
      BY LenProperties, ElementOfSeq DEF DeskTypesInv, ChecklistOK
    <2>2. \A c \in Slots :
             /\ calls[c].at \in CallPlaces
             /\ calls[c].at \in {"built", "executed", "answered"} => Transaction(calls[c].tx)
      BY DEF DeskTypesInv, CallsOK, CallOK
    <2>3. WizardTypeOK /\ rows \in TableRows /\ CountsOK
      BY DEF WizardInv, DeskTypesInv
    <2>4. \A i, j \in DOMAIN checklist :
             checklist[i].item = checklist[j].item /\ i # j =>
                 checklist[i].status = "deleted" \/ checklist[j].status = "deleted"
      BY DEF DeskTypesInv, ChecklistOK
    <2>5. QED
      BY <2>1, <2>2, <2>3, <2>4 DEF DealsTypeOK, Transaction, CountsOK
  <1>4. QED
    BY <1>1, <1>2, <1>3, WizardTypesStep, DeskTypesStep, PTL DEF DealsSpec

-----------------------------------------------------------------------------
(* A pool that is reported exists *)

\* What the dry run found still holds while nobody has changed the chain.
ReportInv ==
    /\ HasFields(submission, {"at", "effect", "moved"})
    /\ submission.at = "built" => submission.moved \/ ~paused
    /\ submission.at \in {"executed", "invite"} =>
           submission.moved \/ submission.effect = "success"

\* submitSignedTx reports success whatever the effects say; that the pool is there rests
\* on the dry run of create_pool and on nobody having paused the platform since.
PoolReportedExists ==
    submission.at = "invite" /\ ~submission.moved => submission.effect = "success"

\* No call of the package and no row of the tables pauses the platform.
LEMMA DeskLeavesPause ==
  ASSUME CallNext \/ Elsewhere \/ IndexNext
  PROVE  paused' = paused
  <1>1. ASSUME NEW tx, Run(tx)
        PROVE  paused' = paused
    <2>1. CASE UNCHANGED roomVars
      BY <2>1 DEF roomVars
    <2>2. CASE UNCHANGED adminVars
      BY <2>2 DEF adminVars
    <2>3. UNCHANGED roomVars \/ UNCHANGED adminVars
      BY <1>1 DEF Run, ProgressToDd, ProgressToIcReview, ProgressToReadyToIssue,
         ReopenRejectedPool, CancelPool, RecordIcApproval, RecordIcRejection,
         RecordIcRequestChanges, RecordIcDecision, AddMember, RemoveMember,
         UpdateMemberRole, CreateCustomFolder, CreateDocument, AddVersion,
         ArchiveDocument, SubmitReview
    <2>4. QED
      BY <2>1, <2>2, <2>3
  <1>2. ASSUME NEW c \in Slots, NEW tx, Build(c, tx)
        PROVE  paused' = paused
    BY <1>2 DEF Build, vars, roomVars
  <1>3. ASSUME NEW c \in Slots, NEW u \in Address,
               \/ PoolsController(c, u) \/ DataroomsController(c, u) \/ DocumentsController(c, u)
               \/ ReviewsController(c, u) \/ ICDecisionsController(c, u)
        PROVE  paused' = paused
    BY <1>2, <1>3
    DEF PoolsController, BuildTransition, BuildCancel, GetPool, DataroomsController,
        BuildAddMember, BuildRemoveMember, BuildUpdateMemberRole, BuildCreateFolder,
        DocumentsController, BuildCreateDocument, BuildAddVersion, BuildArchiveDocument,
        ReviewsController, BuildSubmitReview, ICDecisionsController, BuildSubmitDecision,
        vars, roomVars
  <1>4. ASSUME NEW c \in Slots,
               \/ ChecklistController(c)
               \/ Abandon(c) \/ Execute(c) \/ AnswerSubmit(c) \/ EndCall(c)
               \/ WriteItem(c) \/ FindRoom(c) \/ CheckMembership(c)
        PROVE  paused' = paused
    BY <1>1, <1>4
    DEF ChecklistController, AddItem, FindItem, Abandon, Execute, AnswerSubmit, EndCall,
        WriteItem, FindRoom, CheckMembership, vars, roomVars
  <1>5. CASE Elsewhere
    <2>1. PoolCallNext => UNCHANGED roomVars
      BY DEF PoolCallNext, ProgressToDd, ProgressToIcReview, RecordIcApproval,
             RecordIcRejection, RecordIcRequestChanges, RecordIcDecision,
             ProgressToReadyToIssue, CancelPool, ReopenRejectedPool
    <2>2. QED
      BY <1>5, <2>1 DEF Elsewhere, AddMember, RemoveMember, roomVars, adminVars
  <1>6. CASE IndexNext
    BY <1>6 DEF IndexNext, IndexPool, AssignOrg, IndexDocument, IndexMember, Tables, vars, roomVars
  <1>7. QED
    BY <1>3, <1>4, <1>5, <1>6 DEF CallNext

\* A submission is built against a chain that is not paused, and takes note of changes.
LEMMA ReportStep == ReportInv /\ [DealsNext]_allVars => ReportInv'
  <1> SUFFICES ASSUME ReportInv, [DealsNext]_allVars PROVE ReportInv'
    OBVIOUS
  <1>0. HasFields(submission, {"at", "effect", "moved"})
    BY DEF ReportInv
  <1>1. ASSUME submission' = submission, paused' = paused
        PROVE  ReportInv'
    BY <1>1 DEF ReportInv, HasFields
  <1>2. CASE FormNext
    BY <1>1, <1>2 DEF FormNext, Edit, SetFields, DatePasses, SetScheme, Acknowledge,
       AddCustomItem, RemoveItem, AddInvite, NameInvite, RemoveInvite, HandleNext,
       HandleBack, LeavePage, EditFromReview, vars, roomVars
  <1>3. CASE HandleSubmit
    <2>1. submission'.at = "post" /\ HasFields(submission', {"at", "effect", "moved"})
      BY <1>3 DEF HandleSubmit, NoSubmission, HasFields
    <2>2. QED
      BY <2>1 DEF ReportInv
  <1>4. CASE RefuseCreatePool \/ CancelSigning \/ LoseSubmitAnswer \/ FinishSubmission
    <2>1. submission' = NoSubmission
      BY <1>4 DEF RefuseCreatePool, CancelSigning, LoseSubmitAnswer, FinishSubmission,
         FailSubmission, Continue
    <2>2. QED
      BY <2>1 DEF ReportInv, NoSubmission, HasFields
  <1>5. CASE BuildCreatePool
    <2>1. /\ submission'.at = "built" /\ HasFields(submission', {"at", "effect", "moved"})
          /\ ~paused /\ paused' = paused
      BY <1>0, <1>5 DEF BuildCreatePool, CreatePoolRuns, Continue, HasFields, vars, roomVars
    <2>2. QED
      BY <2>1 DEF ReportInv
  <1>6. CASE ExecuteCreatePool
    <2> DEFINE effect == IF CreatePoolRuns THEN "success" ELSE "failure"
               s == [submission EXCEPT !.at = "executed", !.effect = effect]
    <2>1. /\ s.at = "executed" /\ s.effect = effect /\ s.moved = submission.moved
          /\ HasFields(s, {"at", "effect", "moved"})
      BY <1>0 DEF HasFields
    <2>2. submission' = s /\ submission.at = "built"
      BY <1>6 DEF ExecuteCreatePool, Continue
    <2>3. ~paused => effect = "success"
      BY DEF CreatePoolRuns
    <2> HIDE DEF effect, s
    <2>4. QED
      BY <2>1, <2>2, <2>3 DEF ReportInv
  <1>7. CASE SubmitAnswered
    <2> DEFINE s == [submission EXCEPT !.at = "invite"]
    <2>1. /\ s.at = "invite" /\ s.effect = submission.effect /\ s.moved = submission.moved
          /\ HasFields(s, {"at", "effect", "moved"})
      BY <1>0 DEF HasFields
    <2>2. submission' = s /\ submission.at = "executed"
      BY <1>7 DEF SubmitAnswered, Continue
    <2> HIDE DEF s
    <2>3. QED
      BY <2>1, <2>2 DEF ReportInv
  <1>8. CASE InviteMember
    <2> DEFINE s == [submission EXCEPT !.invites = submission.invites - 1]
    <2>1. /\ s.at = submission.at /\ s.effect = submission.effect /\ s.moved = submission.moved
          /\ HasFields(s, {"at", "effect", "moved"})
      BY <1>0 DEF HasFields
    <2>2. submission' = s /\ submission.at = "invite"
      BY <1>8 DEF InviteMember, Continue
    <2> HIDE DEF s
    <2>3. QED
      BY <2>1, <2>2 DEF ReportInv
  <1>9. CASE DeskAdminNext
    <2> DEFINE moved == submission.moved \/ submission.at = "built"
               s == [submission EXCEPT !.moved = moved]
    <2>1. /\ s.at = submission.at /\ s.effect = submission.effect /\ s.moved = moved
          /\ HasFields(s, {"at", "effect", "moved"})
      BY <1>0 DEF HasFields
    <2>2. submission' = s
      BY <1>9 DEF DeskAdminNext
    <2>3. submission.at = "built" => moved
      OBVIOUS
    <2>4. submission.moved => moved
      OBVIOUS
    <2> HIDE DEF moved, s
    <2>5. QED
      BY <2>1, <2>2, <2>3, <2>4 DEF ReportInv
  <1>10. CASE CallNext \/ Elsewhere \/ IndexNext
    <2>1. submission' = submission
      BY <1>10, DeskLeavesWizard DEF wizardVars
    <2>2. QED
      BY <1>1, <1>10, <2>1, DeskLeavesPause
  <1>11. CASE UNCHANGED allVars
    BY <1>1, <1>11 DEF allVars, wizardVars, vars, roomVars
  <1>12. QED
    BY <1>2, <1>3, <1>4, <1>5, <1>6, <1>7, <1>8, <1>9, <1>10, <1>11
    DEF DealsNext, WizardNext, SubmissionNext

\* A pool the page reports as created was created, unless an administrator changed the
\* platform between the dry run of create_pool and the report.
THEOREM ReportedPoolExists == DealsSpec => []PoolReportedExists
  <1>1. DealsInit => ReportInv
    BY DEF DealsInit, WizardInit, NoSubmission, ReportInv, HasFields
  <1>2. ReportInv => PoolReportedExists
    BY DEF ReportInv, PoolReportedExists
  <1>3. QED
    BY <1>1, <1>2, ReportStep, PTL DEF DealsSpec
================================================================================
