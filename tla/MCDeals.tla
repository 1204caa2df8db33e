------------------------------- MODULE MCDeals -------------------------------
(* Finite instance of DealDesk: the creator of the pool and a colleague, one *)
(* document, one item of the checklist, two calls at a time.                 *)
EXTENDS DealDesk, TLC

CONSTANTS owner, ann, deed, item, c1, c2

MCAddress  == {owner, ann}
MCRoles    == {{"REVIEWER", "EDITOR"}}
MCSymmetry == Permutations({c1, c2})
=============================================================================
