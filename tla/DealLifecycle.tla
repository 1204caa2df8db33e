---------------------------- MODULE DealLifecycle ----------------------------
(***************************************************************************)
(* What the contract promises about the life of a deal, without members,   *)
(* documents, pauses or gates: a deal moves along the whitelist of         *)
(* pool.move, and the investment committee's decisions form a log that     *)
(* grows by one entry exactly when a review ends, with the outcome that    *)
(* entry names.                                                            *)
(***************************************************************************)
EXTENDS RoomTypes, Sequences

VARIABLES
    state,   \* the state of the deal
    log      \* the committee's decisions, oldest first

lifecycleVars == <<state, log>>

(* The moves nobody has to decide on. *)
PlainMoves ==
    {<<"DRAFT", "DD_IN_PROGRESS">>,
     <<"DRAFT", "CANCELLED">>,
     <<"DD_IN_PROGRESS", "IC_REVIEW">>,
     <<"DD_IN_PROGRESS", "CANCELLED">>,
     <<"APPROVED_INTERNAL", "READY_TO_ISSUE">>,
     <<"REJECTED", "DRAFT">>}

(* Where each decision takes a deal under review. *)
Outcome ==
    [APPROVE         |-> "APPROVED_INTERNAL",
     REJECT          |-> "REJECTED",
     REQUEST_CHANGES |-> "DD_IN_PROGRESS"]

Init == state = "DRAFT" /\ log = <<>>

Move ==
    /\ \E move \in PlainMoves : state = move[1] /\ state' = move[2]
    /\ UNCHANGED log

Decide(decision) ==
    /\ state = "IC_REVIEW"
    /\ state' = Outcome[decision]
    /\ log' = Append(log, decision)

Next == Move \/ \E decision \in ICDecisionTypes : Decide(decision)

Spec == Init /\ [][Next]_lifecycleVars
=============================================================================
