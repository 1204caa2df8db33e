----------------------------- MODULE MCAccounts -----------------------------
EXTENDS Accounts, TLC

Sym == Permutations(Org)
=============================================================================
