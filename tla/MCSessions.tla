----------------------------- MODULE MCSessions -----------------------------
(***************************************************************************)
(* Instances of the session store for TLC.                                 *)
(***************************************************************************)
EXTENDS SessionsProps, TLC

CONSTANTS s1, s2, s3, r1, r2, r3, u1, u2

FreeTier == [u \in Users |-> 1]         \* tiers.config.ts: free
TwoSessions == [u \in Users |-> 2]
\* One user of each kind.
MixedTiers == [u \in Users |-> IF u = u1 THEN 1 ELSE 2]

EveryOp == AllOps
LoginOps == {"login", "logout", "revoke"}
TokenOps == {"login", "refresh", "logout"}

EveryEvent == AllEvents
TimeEvents == {"expire", "cleanup"}
NoEvents == {}

Sym == Permutations(Requests) \cup Permutations(SessionIds)
=============================================================================
