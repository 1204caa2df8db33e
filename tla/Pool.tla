--------------------------------- MODULE Pool ---------------------------------
(***************************************************************************)
(* The whole on-chain package around one pool: pool.move, pool_entry.move  *)
(* and ic_decision.move on top of Documents and DataRoom.                  *)
(***************************************************************************)
EXTENDS Documents

CONSTANTS
    CommitteeInputs,  \* the lengths of the committee and vote vectors passed
    DecisionBound     \* bound of the model on the decisions of the pool

ASSUME PoolAssumption == CommitteeInputs \subseteq Nat /\ DecisionBound \in Nat

VARIABLES
    poolState,           \* Pool.current_state
    icDecisions,         \* the ICDecision fields by index: decision_type
    icDecisionCount,     \* Pool.ic_decision_count
    hasIcApprovalCached  \* Pool.has_ic_approval_cached

decisionVars == <<icDecisions, icDecisionCount, hasIcApprovalCached>>
poolVars     == <<poolState, icDecisions, icDecisionCount, hasIcApprovalCached>>
vars         == <<roomVars, docs, poolState, icDecisions, icDecisionCount,
                  hasIcApprovalCached>>

-----------------------------------------------------------------------------
(* pool.move *)

\* is_valid_transition.  No function of the package asks for the last two.
ValidTransitions ==
    {<<"DRAFT", "DD_IN_PROGRESS">>,     <<"DRAFT", "CANCELLED">>,
     <<"DD_IN_PROGRESS", "IC_REVIEW">>, <<"DD_IN_PROGRESS", "CANCELLED">>,
     <<"IC_REVIEW", "APPROVED_INTERNAL">>, <<"IC_REVIEW", "REJECTED">>,
     <<"IC_REVIEW", "DD_IN_PROGRESS">>,
     <<"APPROVED_INTERNAL", "READY_TO_ISSUE">>,
     <<"REJECTED", "DRAFT">>,
     <<"READY_TO_ISSUE", "ISSUED">>,
     <<"ISSUED", "CLOSED">>}

SetState(new) ==
    /\ <<poolState, new>> \in ValidTransitions
    /\ poolState' = new

\* Mutant: every decision but a rejection sets the cached approval.
AttachIcDecision_CachesChanges(type) ==
    /\ icDecisionCount \notin DOMAIN icDecisions
    /\ icDecisions' = [i \in DOMAIN icDecisions \union {icDecisionCount} |->
                           IF i = icDecisionCount THEN type ELSE icDecisions[i]]
    /\ icDecisionCount' = icDecisionCount + 1
    /\ hasIcApprovalCached' = (hasIcApprovalCached \/ type # "REJECT")

\* Mutant: the index is not advanced and the decision written over.
AttachIcDecision_SameIndex(type) ==
    /\ icDecisions' = [i \in DOMAIN icDecisions \union {icDecisionCount} |->
                           IF i = icDecisionCount THEN type ELSE icDecisions[i]]
    /\ hasIcApprovalCached' = (hasIcApprovalCached \/ type = "APPROVE")
    /\ UNCHANGED icDecisionCount

\* df::add aborts on a key in use.  The cached approval is never taken back.
AttachIcDecision(type) ==
    /\ icDecisionCount \notin DOMAIN icDecisions
    /\ icDecisions' = [i \in DOMAIN icDecisions \union {icDecisionCount} |->
                           IF i = icDecisionCount THEN type ELSE icDecisions[i]]
    /\ icDecisionCount' = icDecisionCount + 1
    /\ hasIcApprovalCached' = (hasIcApprovalCached \/ type = "APPROVE")

-----------------------------------------------------------------------------
(* pool_entry.move.  Each function runs for a caller with an administrator's *)
(* role while the platform is not paused.                                    *)

Permitted(caller) == ~paused /\ IsAuthorized(caller, OwnerUp)

\* The list of ids is the caller's own; required flags are not consulted.
AllDocsHaveApproval(ids) == \A d \in ids : HasDocument(d) /\ HasAnyApproval(d)

ProgressToDd(caller) ==
    /\ Permitted(caller)
    /\ poolState = "DRAFT"
    /\ SetState("DD_IN_PROGRESS")
    /\ UNCHANGED <<roomVars, docs, decisionVars>>

ProgressToIcReview(caller, ids) ==
    /\ Permitted(caller)
    /\ poolState = "DD_IN_PROGRESS"
    /\ AllDocsHaveApproval(ids)
    /\ SetState("IC_REVIEW")
    /\ UNCHANGED <<roomVars, docs, decisionVars>>

\* Mutant: assert_state is missing, so the committee may decide whenever the
\* whitelist has a way to the outcome.
RecordIcDecision_AnyState(caller, committee, votes, type, outcome) ==
    /\ Permitted(caller)
    /\ committee = votes /\ committee > 0
    /\ icDecisionCount < DecisionBound
    /\ AttachIcDecision(type)
    /\ SetState(outcome)
    /\ UNCHANGED <<roomVars, docs>>

\* The body shared by the three record functions.  ic_decision::new compares
\* the lengths of the two vectors; no vote is ever read.
RecordIcDecision(caller, committee, votes, type, outcome) ==
    /\ Permitted(caller)
    /\ poolState = "IC_REVIEW"
    /\ committee = votes /\ committee > 0
    /\ icDecisionCount < DecisionBound
    /\ AttachIcDecision(type)
    /\ SetState(outcome)
    /\ UNCHANGED <<roomVars, docs>>

RecordIcApproval(caller, committee, votes) ==
    RecordIcDecision(caller, committee, votes, "APPROVE", "APPROVED_INTERNAL")

\* Mutant: copied from record_ic_request_changes, decision type and all.
RecordIcRejection_CopiedType(caller, committee, votes) ==
    RecordIcDecision(caller, committee, votes, "REQUEST_CHANGES", "REJECTED")

RecordIcRejection(caller, committee, votes) ==
    RecordIcDecision(caller, committee, votes, "REJECT", "REJECTED")

RecordIcRequestChanges(caller, committee, votes) ==
    RecordIcDecision(caller, committee, votes, "REQUEST_CHANGES", "DD_IN_PROGRESS")

ProgressToReadyToIssue(caller, ids) ==
    /\ Permitted(caller)
    /\ poolState = "APPROVED_INTERNAL"
    /\ hasIcApprovalCached
    /\ AllDocsHaveApproval(ids)
    /\ SetState("READY_TO_ISSUE")
    /\ UNCHANGED <<roomVars, docs, decisionVars>>

CancelPool(caller) ==
    /\ Permitted(caller)
    /\ poolState \in {"DRAFT", "DD_IN_PROGRESS"}
    /\ SetState("CANCELLED")
    /\ UNCHANGED <<roomVars, docs, decisionVars>>

\* Mutant: the pause check is missing.
ReopenRejectedPool_Paused(caller) ==
    /\ IsAuthorized(caller, OwnerUp)
    /\ poolState = "REJECTED"
    /\ SetState("DRAFT")
    /\ UNCHANGED <<roomVars, docs, decisionVars>>

ReopenRejectedPool(caller) ==
    /\ Permitted(caller)
    /\ poolState = "REJECTED"
    /\ SetState("DRAFT")
    /\ UNCHANGED <<roomVars, docs, decisionVars>>

-----------------------------------------------------------------------------

PoolInit ==
    /\ poolState = "DRAFT"
    /\ icDecisions = [i \in {} |-> "APPROVE"]
    /\ icDecisionCount = 0
    /\ hasIcApprovalCached = FALSE

Init == RoomInit /\ DocInit /\ PoolInit

PoolCallNext ==
    \E caller \in Address :
        \/ ProgressToDd(caller)
        \/ \E ids \in SUBSET Doc : ProgressToIcReview(caller, ids)
        \/ \E committee, votes \in CommitteeInputs :
               \/ RecordIcApproval(caller, committee, votes)
               \/ RecordIcRejection(caller, committee, votes)
               \/ RecordIcRequestChanges(caller, committee, votes)
        \/ \E ids \in SUBSET Doc : ProgressToReadyToIssue(caller, ids)
        \/ CancelPool(caller)
        \/ ReopenRejectedPool(caller)

Next ==
    \/ DocumentsNext /\ UNCHANGED poolVars
    \/ PoolCallNext

Spec == Init /\ [][Next]_vars

-----------------------------------------------------------------------------
(* Properties *)

PoolTypeOK ==
    /\ poolState \in PoolStates
    /\ icDecisionCount \in Nat
    /\ icDecisions \in [0 .. icDecisionCount - 1 -> ICDecisionTypes]
    /\ hasIcApprovalCached \in BOOLEAN

\* has_ic_approval_cached is set by an approval and never taken back, through
\* any number of rejections, reopenings and requests for changes, and
\* progress_to_ready_to_issue trusts it.  It is nevertheless never stale: it is
\* TRUE exactly while the pool is past its approval.
CachedApprovalIsCurrent ==
    hasIcApprovalCached <=> poolState \in {"APPROVED_INTERNAL", "READY_TO_ISSUE"}

\* The state and the decision log never disagree: an approved pool's newest
\* decision is its one and only approval, and a rejected pool's newest decision
\* is the rejection.
StateMatchesLastDecision ==
    LET last == icDecisionCount - 1 IN
    /\ poolState \in {"APPROVED_INTERNAL", "READY_TO_ISSUE"} =>
           last >= 0 /\ icDecisions[last] = "APPROVE"
    /\ poolState = "REJECTED" => last >= 0 /\ icDecisions[last] = "REJECT"
    /\ \A i \in DOMAIN icDecisions : icDecisions[i] = "APPROVE" =>
           i = last /\ poolState \in {"APPROVED_INTERNAL", "READY_TO_ISSUE"}

\* admin.move:48 "Emergency pause - blocks all state-changing entry functions":
\* in a paused platform no call of anybody changes a room, a document or a
\* pool, whatever state the pause caught them in.
PauseFreezes ==
    [][paused => UNCHANGED <<memberVars, folderVars, folderKeys, docs, poolVars>>]_vars

\* pool.move and pool_entry.move implement the documented lifecycle: whatever
\* members, documents and pauses do, the pool moves along the whitelist, and a
\* decision enters the log exactly when it ends a review, with its outcome.
DecisionLog == [i \in 1 .. icDecisionCount |-> icDecisions[i - 1]]

Lifecycle == INSTANCE DealLifecycle WITH state <- poolState, log <- DecisionLog

ImplementsLifecycle == Lifecycle!Spec

\* docs/design/move-interface.md:550 "All documents with required_flag == true
\* must have at least one ReviewRecord with status == APPROVED" for
\* progress_to_ic_review.
RequiredDocsReviewedBeforeIC ==
    [][poolState = "DD_IN_PROGRESS" /\ poolState' = "IC_REVIEW" =>
          \A d \in Doc : HasDocument(d) /\ docs[d].required => HasAnyApproval(d)]_vars
=============================================================================
