----------------------------- MODULE MCGateway -----------------------------
(***************************************************************************)
(* Instances of the cluster and its gateway for TLC.                       *)
(***************************************************************************)
EXTENDS GatewayProps

CONSTANTS w1, w2, queue, a, b, mail, cleanup, ip1, u

OneOfEach == {"register", "avatar"}
Granted(tier, upload) == [user |-> u, tier |-> tier, upload |-> upload]
BothTiers == {Granted("free", TRUE), Granted("premium", FALSE)}
OneAndTwo == [t \in Tiers |-> IF t = "free" THEN 1 ELSE 2]

Upto(ts, s, f) == [tasks |-> ts, signals |-> s, faults |-> f]

\* Two requests and a crash; a signal during a request with its mail, and during one
\* that may be stuck; a mail and a daily job; two signals; a signal and a cleanup task
\* that fails, or a crash.
Scenarios == {Upto({a, b}, 0, 1), Upto({b, mail}, 1, 0), Upto({a}, 1, 0),
              Upto({b, mail, cleanup}, 0, 0), Upto({cleanup}, 2, 0), Upto({cleanup}, 1, 1)}
=============================================================================
