------------------------------- MODULE MCPool -------------------------------
(* Finite instance of Pool: the owner and one colleague, one document.      *)
EXTENDS Pool

CONSTANTS owner, ann, deed

MCAddress == {owner, ann}
MCRoles   == {{"REVIEWER", "EDITOR"}, {"ORG_ADMIN"}}
=============================================================================
