----------------------------- MODULE MCAccounts -----------------------------
(***************************************************************************)
(* Instances of the accounts for TLC.                                      *)
(***************************************************************************)
EXTENDS AccountsProps, TLC

CONSTANTS i1, i2, e1, e2, n1, p1, p2, r1, r2

EveryOp == AllOps

Sym == Permutations(Ids) \cup Permutations(Identities) \cup Permutations(Requests)
=============================================================================
