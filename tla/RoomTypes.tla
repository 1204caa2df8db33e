------------------------------ MODULE RoomTypes ------------------------------
(***************************************************************************)
(* The shared vocabulary of the on-chain package (types.move): the role    *)
(* bitmask, the pool states, the review statuses and the decision types.   *)
(*                                                                         *)
(* A role bitmask is the set of its bits.  "role & required > 0" is then a *)
(* non-empty intersection, and "0 < role <= ROLE_ALL" a non-empty subset   *)
(* of Roles.                                                               *)
(***************************************************************************)

Roles == {"VIEWER", "REVIEWER", "EDITOR", "OWNER", "AUDITOR", "ORG_ADMIN"}

\* The three composite masks that guard the entry functions.  The hierarchy
\* is not a chain: EDITOR is not above REVIEWER, and ORG_ADMIN is no editor.
ReviewerUp == {"REVIEWER", "OWNER", "ORG_ADMIN"}
EditorUp   == {"EDITOR", "OWNER"}
OwnerUp    == {"OWNER", "ORG_ADMIN"}

HasRole(role, required) == role \intersect required # {}
IsValidRole(role)       == role # {} /\ role \subseteq Roles

PoolStates == {"DRAFT", "DD_IN_PROGRESS", "IC_REVIEW", "APPROVED_INTERNAL",
               "READY_TO_ISSUE", "REJECTED", "CANCELLED", "ISSUED", "CLOSED"}

ReviewStatuses == {"PENDING", "APPROVED", "NEEDS_REVISION"}

ICDecisionTypes == {"APPROVE", "REJECT", "REQUEST_CHANGES"}
=============================================================================
