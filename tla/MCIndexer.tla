------------------------------ MODULE MCIndexer ------------------------------
(* Finite instance of Indexer: the owner, one more member, one document.    *)
EXTENDS Indexer

CONSTANTS owner, ann, deed

MCUser  == {owner, ann}
MCRoles == {{"REVIEWER"}, {"EDITOR"}}
=============================================================================
