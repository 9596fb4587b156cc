----------------------------- MODULE MCAvatars -----------------------------
(***************************************************************************)
(* Instances of the avatars for TLC.                                       *)
(***************************************************************************)
EXTENDS AvatarsProps, TLC

CONSTANTS u1, u2, o1, o2, o3, r1, r2

Sym == Permutations(Users) \cup Permutations(Objects) \cup Permutations(Requests)
=============================================================================
