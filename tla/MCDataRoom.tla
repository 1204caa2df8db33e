----------------------------- MODULE MCDataRoom -----------------------------
(* Finite instance of DataRoom: the owner and two other addresses that may  *)
(* be given the masks of an administrator, an editor or an ineffective one. *)
EXTENDS DataRoom, TLC

CONSTANTS owner, ann, bob

MCAddress  == {owner, ann, bob}
MCRoles    == {{}, {"OWNER"}, {"ORG_ADMIN"}, {"EDITOR", "VIEWER"}}
MCSymmetry == Permutations({ann, bob})
=============================================================================
