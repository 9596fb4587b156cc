------------------------------- MODULE MCOtp -------------------------------
(***************************************************************************)
(* Instances of the one-time codes for TLC.                                *)
(***************************************************************************)
EXTENDS OtpProps, TLC

CONSTANTS c1, c2, c3, g1, r1, r2

Sym == Permutations(Codes) \cup Permutations(Grants) \cup Permutations(Requests)
=============================================================================
