------------------------------ MODULE Avatars ------------------------------
(***************************************************************************)
(* Avatars: objects that clients PUT into the bucket with presigned URLs,  *)
(* and users.avatarUrl, which confirm and delete set and clear.  The       *)
(* bucket and the table have no common transaction; handlers interleave    *)
(* between their awaits.                                                   *)
(***************************************************************************)
EXTENDS Naturals

CONSTANTS
    Users,
    Objects,    \* object keys; bound: each is handed out once
    Requests,   \* slots for concurrently executing handlers
    Events,     \* "abort": a handler may end between two awaits
    NoUser, NoObject

ASSUME AvatarsAssumption ==
    NoUser \notin Users /\ NoObject \notin Objects /\ Events \subseteq {"abort"}

VARIABLES
    prefix,     \* prefix[o]: the user in the key avatars/<user>/<uuid>
    open,       \* the objects whose upload URL has not expired
    stored,     \* the objects in the bucket
    avatar,     \* avatar[u]: users.avatarUrl
    req         \* req[r]: the handler slot r executes

vars == <<prefix, open, stored, avatar, req>>

Steps == {"idle", "head", "set", "findAvatar", "deleteObject", "clear"}

Request == [pc: Steps, u: Users \cup {NoUser}, o: Objects \cup {NoObject}]

Idle == [pc |-> "idle", u |-> NoUser, o |-> NoObject]

TypeOK ==
    /\ prefix \in [Objects -> Users \cup {NoUser}]
    /\ open \subseteq Objects /\ stored \subseteq Objects
    /\ \A o \in open \cup stored : prefix[o] \in Users
    /\ avatar \in [Users -> Objects \cup {NoObject}]
    /\ req \in [Requests -> Request]

Init ==
    /\ prefix = [o \in Objects |-> NoUser]
    /\ open = {} /\ stored = {}
    /\ avatar = [u \in Users |-> NoObject]
    /\ req = [r \in Requests |-> Idle]

-----------------------------------------------------------------------------
\* POST /users/me/avatar/upload-url, and what the client does with the answer.

\* Faulty: the key has no user in it.
FaultyUploadUrl(u, o) ==
    /\ prefix[o] = NoUser
    /\ open' = open \cup {o}
    /\ UNCHANGED <<prefix, stored, avatar, req>>

\* A key nobody has yet (randomUUID), under the caller's prefix.
UploadUrl(u, o) ==
    /\ prefix[o] = NoUser
    /\ prefix' = [prefix EXCEPT ![o] = u]
    /\ open' = open \cup {o}
    /\ UNCHANGED <<stored, avatar, req>>

\* The client uses the URL, as often as it likes until it expires.
Put(o) ==
    /\ o \in open
    /\ stored' = stored \cup {o}
    /\ UNCHANGED <<prefix, open, avatar, req>>

UrlExpires(o) ==
    /\ o \in open
    /\ open' = open \ {o}
    /\ UNCHANGED <<prefix, stored, avatar, req>>

-----------------------------------------------------------------------------
\* Control of one handler.

At(r, pc) == req[r].pc = pc

Start(r, pc, u, o) ==
    /\ req[r] = Idle
    /\ req' = [req EXCEPT ![r] = [pc |-> pc, u |-> u, o |-> o]]
    /\ UNCHANGED <<prefix, open, stored, avatar>>

Goto(r, pc) == req' = [req EXCEPT ![r] = [pc |-> pc, u |-> req[r].u, o |-> req[r].o]]

Return(r) == req' = [req EXCEPT ![r] = Idle]

ReadOnly == UNCHANGED <<prefix, open, stored, avatar>>

-----------------------------------------------------------------------------
\* POST /users/me/avatar/confirm, with any key that was handed out.

StartConfirm(r, u, o) == prefix[o] # NoUser /\ Start(r, "head", u, o)

\* verifyObjectExists: HEAD.
Head(r) ==
    /\ At(r, "head")
    /\ IF req[r].o \in stored THEN Goto(r, "set") ELSE Return(r)
    /\ ReadOnly

\* Faulty: any user's key will do.
FaultyOwnKey(u, o) == TRUE

\* The key begins with the caller's prefix.
OwnKey(u, o) == prefix[o] = u

\* The new key replaces the old one, whose object stays in the bucket.
SetAvatar(r) ==
    /\ At(r, "set")
    /\ avatar' = IF OwnKey(req[r].u, req[r].o)
                 THEN [avatar EXCEPT ![req[r].u] = req[r].o] ELSE avatar
    /\ Return(r)
    /\ UNCHANGED <<prefix, open, stored>>

-----------------------------------------------------------------------------
\* DELETE /users/me/avatar.

StartDelete(r, u) == Start(r, "findAvatar", u, NoObject)

\* findById; without an avatar there is nothing to do.
FindAvatar(r) ==
    /\ At(r, "findAvatar")
    /\ LET u == req[r].u
           o == avatar[u]
       IN  IF o # NoObject /\ OwnKey(u, o)
           THEN req' = [req EXCEPT ![r] = [pc |-> "deleteObject", u |-> u, o |-> o]]
           ELSE Return(r)
    /\ ReadOnly

\* deleteObject of S3, which also succeeds when there is none.
DeleteObject(r) ==
    /\ At(r, "deleteObject")
    /\ stored' = stored \ {req[r].o}
    /\ Goto(r, "clear")
    /\ UNCHANGED <<prefix, open, avatar>>

\* userRepo.update, whatever the avatar is by now.
ClearAvatar(r) ==
    /\ At(r, "clear")
    /\ avatar' = [avatar EXCEPT ![req[r].u] = NoObject]
    /\ Return(r)
    /\ UNCHANGED <<prefix, open, stored>>

-----------------------------------------------------------------------------
\* An await rejects or the process dies.
Abort(r) ==
    /\ "abort" \in Events
    /\ req[r] # Idle
    /\ Return(r)
    /\ ReadOnly

Step(r) ==
    \/ Head(r) \/ SetAvatar(r)
    \/ FindAvatar(r) \/ DeleteObject(r) \/ ClearAvatar(r)

Arrive(r) ==
    \/ \E u \in Users, o \in Objects : StartConfirm(r, u, o)
    \/ \E u \in Users : StartDelete(r, u)

Client ==
    \/ \E u \in Users, o \in Objects : UploadUrl(u, o)
    \/ \E o \in Objects : Put(o) \/ UrlExpires(o)

Next ==
    \/ Client
    \/ \E r \in Requests : Arrive(r) \/ Step(r) \/ Abort(r)

Spec == Init /\ [][Next]_vars
=============================================================================
