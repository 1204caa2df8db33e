------------------------------ MODULE PoolWizard ------------------------------
(***************************************************************************)
(* How a pool comes to be: the five-step form of the web application       *)
(* (pools/new), the mutation useCreatePool behind its submit button, the   *)
(* endpoints POST /pools and POST /pools/:id/sign, and create_pool itself. *)
(*                                                                         *)
(* The mutation is split at its awaits, and the form stays usable between  *)
(* them.  The first pool created is the one the variables of Pool are      *)
(* about; they hold its initial state until then.                          *)
(***************************************************************************)
EXTENDS Pool

CONSTANTS
    AuthMethods,  \* how the user may have logged in
    CsrfHeaders,  \* whether the page sends a valid x-csrf-token: may it, must it?
    MaxItems,     \* bound of the model on the checklist items of the form,
    MaxInvites,   \*   on its invited members,
    MaxSubmits,   \*   on clicks on the submit button
    MaxLost       \*   and on answers lost on the way

ASSUME WizardAssumption ==
    /\ AuthMethods \subseteq {"wallet", "zklogin"} /\ CsrfHeaders \subseteq BOOLEAN
    /\ MaxItems \in Nat \ {0}
    /\ MaxInvites \in Nat /\ MaxSubmits \in Nat /\ MaxLost \in Nat

VARIABLES
    authMethod,  \* AuthContext.authMethod
    form,        \* PoolFormState, and whether the page is still open
    submission,  \* the run of the mutation
    created,     \* the number of pools on the chain
    submits,     \* history: clicks on the submit button
    lost         \*   and answers lost

wizardVars == <<authMethod, form, submission, created, submits, lost>>

-----------------------------------------------------------------------------
(* The form.  The text fields of the first step are abstracted to whom they *)
(* satisfy: both checks, the page only (an amount like 1.5), the schema of  *)
(* the API only (a date gone by, a blank borrower, an amount of 0), nobody. *)

FieldClasses == {"good", "page_only", "api_only", "empty"}

Steps == 0..4   \* basic info, encryption, checklist, members, review

FormState ==
    [step : Steps, fields : FieldClasses, scheme : {"aes", "seal"}, ack : BOOLEAN,
     items : 1..MaxItems, invites : Seq({"blank", "named"}),
     returnToReview : BOOLEAN, submitting : BOOLEAN, open : BOOLEAN]

BlankForm ==
    [step |-> 0, fields |-> "empty", scheme |-> "aes", ack |-> FALSE,
     items |-> MaxItems, invites |-> <<>>,
     returnToReview |-> FALSE, submitting |-> FALSE, open |-> TRUE]

\* What was typed goes with the page.
ClosedForm == [BlankForm EXCEPT !.open = FALSE]

ValidStep1(f) == f.fields \in {"good", "page_only"}
ValidStep2(f) == f.scheme = "seal" => f.ack

\* The page accepts the click: the step shown has the input.
OnStep(s) == form.open /\ form.step = s

Edit(f) == form' = f /\ UNCHANGED <<vars, authMethod, submission, created, submits, lost>>

SetFields(class) == OnStep(0) /\ Edit([form EXCEPT !.fields = class])

\* A date chosen in time is gone by when midnight comes.
DatePasses ==
    /\ form.open /\ form.fields = "good"
    /\ Edit([form EXCEPT !.fields = "api_only"])

SetScheme(scheme) == OnStep(1) /\ Edit([form EXCEPT !.scheme = scheme])

\* The box is there only under Seal, and its value outlives a change of mind.
Acknowledge(value) ==
    OnStep(1) /\ form.scheme = "seal" /\ Edit([form EXCEPT !.ack = value])

AddCustomItem ==
    OnStep(2) /\ form.items < MaxItems /\ Edit([form EXCEPT !.items = @ + 1])

RemoveItem == OnStep(2) /\ form.items > 1 /\ Edit([form EXCEPT !.items = @ - 1])

AddInvite ==
    /\ OnStep(3) /\ Len(form.invites) < MaxInvites
    /\ Edit([form EXCEPT !.invites = Append(@, "blank")])

\* Any text: a wrong, own or duplicate address is marked, and not refused.
NameInvite(i) == OnStep(3) /\ Edit([form EXCEPT !.invites[i] = "named"])

RemoveInvite(i) ==
    /\ OnStep(3)
    /\ Edit([form EXCEPT !.invites = SubSeq(@, 1, i - 1) \o SubSeq(@, i + 1, Len(@))])

Review(f) == [f EXCEPT !.step = 4, !.returnToReview = FALSE]

HandleNext ==
    /\ form.open /\ form.step < 4
    /\ form.step = 0 => ValidStep1(form)
    /\ form.step = 1 => ValidStep2(form)
    /\ Edit(IF form.returnToReview THEN Review(form) ELSE [form EXCEPT !.step = @ + 1])

\* Coming back from an edit is not validated.
HandleBack ==
    /\ form.open /\ form.step > 0 /\ ~form.submitting
    /\ Edit(IF form.returnToReview THEN Review(form) ELSE [form EXCEPT !.step = @ - 1])

\* The edit buttons of the review stay active while the mutation runs.
EditFromReview(step) ==
    OnStep(4) /\ Edit([form EXCEPT !.step = step, !.returnToReview = TRUE])

\* The link back to the dashboard.  A mutation under way goes on.  Bound of the
\* model: the page is not opened again.
LeavePage == form.open /\ Edit(ClosedForm)

-----------------------------------------------------------------------------
(* The mutation.  moved is history: the chain changed after the build.      *)

SubmissionPhases == {"idle", "post", "built", "executed", "invite"}

NoSubmission ==
    [at |-> "idle", fields |-> "empty", invites |-> 0,
     effect |-> "none", moved |-> FALSE]

Continue(s) == submission' = s /\ UNCHANGED <<authMethod, submits>>

\* catch in handleSubmit: a toast, and the button works again.
FailSubmission ==
    /\ Continue(NoSubmission)
    /\ form' = [form EXCEPT !.submitting = FALSE]

\* members.filter((m) => m.address)
NamedInvites(f) == {i \in DOMAIN f.invites : f.invites[i] = "named"}

\* Mutant: the button is not disabled while a submission runs.
HandleSubmit_Impatient ==
    /\ OnStep(4)
    /\ submits < MaxSubmits
    /\ submits' = submits + 1
    /\ form' = [form EXCEPT !.submitting = TRUE]
    /\ submission' = [NoSubmission EXCEPT
           !.at = "post",
           !.fields = form.fields,
           !.invites = Cardinality(NamedInvites(form))]
    /\ UNCHANGED <<vars, authMethod, created, lost>>

\* handleSubmit hands over the fields as they are now.  create_pool takes either
\* scheme; the blank invites and the checklist stay behind.
HandleSubmit ==
    /\ OnStep(4) /\ ~form.submitting
    /\ submits < MaxSubmits
    /\ submits' = submits + 1
    /\ form' = [form EXCEPT !.submitting = TRUE]
    /\ submission' = [NoSubmission EXCEPT
           !.at = "post",
           !.fields = form.fields,
           !.invites = Cardinality(NamedInvites(form))]
    /\ UNCHANGED <<vars, authMethod, created, lost>>

\* CsrfGuard stands before both POST /pools and POST /pools/:id/sign.
CsrfGuardPasses == TRUE \in CsrfHeaders

\* createPoolSchema
Acceptable(fields) == fields \in {"good", "api_only"}

\* create_pool, to which every scheme of the form is valid.  tx.build runs it
\* dry, against the chain as it is.
CreatePoolRuns == ~paused

BuildCreatePool ==
    /\ submission.at = "post" /\ CsrfGuardPasses
    /\ authMethod = "wallet" /\ Acceptable(submission.fields) /\ CreatePoolRuns
    /\ Continue([submission EXCEPT !.at = "built", !.fields = "empty"])
    /\ UNCHANGED <<vars, form, created, lost>>

\* CsrfGuard, the guard against zkLogin, the schema, a dry run that aborts, or no
\* answer.
RefuseCreatePool ==
    /\ submission.at = "post"
    /\ FailSubmission
    /\ UNCHANGED <<vars, created, lost>>

\* The wallet's user refuses, or the signed transaction does not arrive or is
\* answered 403 by CsrfGuard.
CancelSigning ==
    /\ submission.at = "built"
    /\ FailSubmission
    /\ UNCHANGED <<vars, created, lost>>

\* executeTransactionBlock returns for an aborted transaction as well.
ExecuteCreatePool ==
    /\ submission.at = "built" /\ CsrfGuardPasses
    /\ created' = IF CreatePoolRuns THEN created + 1 ELSE created
    /\ Continue([submission EXCEPT
           !.at = "executed",
           !.effect = IF CreatePoolRuns THEN "success" ELSE "failure"])
    /\ UNCHANGED <<vars, form, lost>>

\* The status among the effects is not looked at.
SubmitAnswered ==
    /\ submission.at = "executed"
    /\ Continue([submission EXCEPT !.at = "invite"])
    /\ UNCHANGED <<vars, form, created, lost>>

LoseSubmitAnswer ==
    /\ submission.at = "executed" /\ lost < MaxLost
    /\ lost' = lost + 1
    /\ FailSubmission
    /\ UNCHANGED <<vars, created>>

\* POST /pools answers without a pool id, so that every invitation goes to the
\* pool "undefined", fails, and is forgotten.
InviteMember ==
    /\ submission.at = "invite" /\ submission.invites > 0
    /\ Continue([submission EXCEPT !.invites = @ - 1])
    /\ UNCHANGED <<vars, form, created, lost>>

\* The toast of success, and router.push away from the page.
FinishSubmission ==
    /\ submission.at = "invite" /\ submission.invites = 0
    /\ Continue(NoSubmission)
    /\ form' = ClosedForm
    /\ UNCHANGED <<vars, created, lost>>

-----------------------------------------------------------------------------

WizardInit ==
    /\ authMethod \in AuthMethods
    /\ form = BlankForm
    /\ submission = NoSubmission
    /\ created = 0
    /\ submits = 0 /\ lost = 0

FormNext ==
    \/ \E class \in FieldClasses : SetFields(class)
    \/ DatePasses
    \/ \E scheme \in {"aes", "seal"} : SetScheme(scheme)
    \/ \E value \in BOOLEAN : Acknowledge(value)
    \/ AddCustomItem \/ RemoveItem
    \/ AddInvite
    \/ \E i \in 1 .. Len(form.invites) : NameInvite(i) \/ RemoveInvite(i)
    \/ HandleNext \/ HandleBack \/ LeavePage
    \/ \E step \in 0..3 : EditFromReview(step)

SubmissionNext ==
    \/ HandleSubmit
    \/ BuildCreatePool \/ RefuseCreatePool \/ CancelSigning
    \/ ExecuteCreatePool \/ SubmitAnswered \/ LoseSubmitAnswer
    \/ InviteMember \/ FinishSubmission

WizardNext == FormNext \/ SubmissionNext

-----------------------------------------------------------------------------
(* Properties *)

WizardTypeOK ==
    /\ authMethod \in AuthMethods
    /\ form \in FormState
    /\ submission.at \in SubmissionPhases
    /\ submission.effect \in {"none", "success", "failure"}
    /\ submission.invites \in 0..MaxInvites
    /\ created \in 0..MaxSubmits /\ submits \in 0..MaxSubmits /\ lost \in 0..MaxLost

\* A second pool comes only from a user who was told that the first one failed.
\* Double clicks, edits during the submission and going back and forth between
\* the steps create none: beyond one pool, each has its lost answer.  This is about
\* one visit of the page, whose button knows of no other visit's submission.
OnePoolPerLostAnswer == created <= lost + 1
=============================================================================
