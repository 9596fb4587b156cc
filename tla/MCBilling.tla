----------------------------- MODULE MCBilling -----------------------------
(***************************************************************************)
(* Instances of the billing tables for TLC.                                *)
(***************************************************************************)
EXTENDS BillingProps, TLC

CONSTANTS u1, u2, x1, x2, r1, r2

WebhookOps == {"checkout", "webhook"}
FulfilOps == {"checkout", "webhook", "confirm"}
NoConfirmOps == AllOps \ {"confirm"}

AbortOnly == {"abort"}
NoEvents == {}

EveryChange == {"fails", "renews", "canceled"}
OnlyCancels == {"canceled"}
OnlyFails == {"fails"}

Sym == Permutations(Requests) \cup Permutations(Subs) \cup Permutations(Users)
=============================================================================
