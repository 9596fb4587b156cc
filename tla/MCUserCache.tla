----------------------------- MODULE MCUserCache ----------------------------
(***************************************************************************)
(* Instances of the user cache for TLC.                                    *)
(***************************************************************************)
EXTENDS UserCacheProps, TLC

CONSTANTS r1, r2

EveryOp == AllOps
AbortOnly == {"abort"}

Sym == Permutations(Requests)
=============================================================================
