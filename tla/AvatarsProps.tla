---------------------------- MODULE AvatarsProps ----------------------------
(***************************************************************************)
(* What avatars must guarantee.                                            *)
(***************************************************************************)
EXTENDS Avatars

\* A user's avatar, and any object a delete in progress is about to remove, is an
\* upload of that same user, whatever keys users confirm and whatever confirm and
\* delete do to each other (avatar-confirm.service.ts and avatar-delete.service.ts
\* compare the prefix).
OwnAvatar ==
    /\ \A u \in Users : avatar[u] # NoObject => prefix[avatar[u]] = u
    /\ \A r \in Requests : At(r, "deleteObject") => prefix[req[r].o] = req[r].u
=============================================================================
