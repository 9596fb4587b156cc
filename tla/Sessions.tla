------------------------------ MODULE Sessions ------------------------------
(***************************************************************************)
(* The session store of the auth module: the sessions table of PostgreSQL, *)
(* the Redis entry session:<id> that refresh and logout look sessions up   *)
(* in, and the Redis set user:sessions:<user> that the tier limit counts.  *)
(* Requests run interleaved: between two awaits of a handler any other     *)
(* request, of this or of another clustered process, may take its steps,   *)
(* so every database or Redis call is an action of its own.                *)
(*                                                                         *)
(* Time is kept per session.  A session is "young" until the expiresAt of  *)
(* its row passes, then "due"; it is "old" once its refresh token expired  *)
(* as well.  The token is signed after the row is written and its expiry   *)
(* has a granularity of a second, so the two instants are distinct.        *)
(*                                                                         *)
(* Ops names the handlers that clients call and Events what happens beside *)
(* them: "expire" lets time pass, "cleanup" runs the daily job, "abort"    *)
(* lets a request end between two steps (an await rejects, or its process  *)
(* dies).                                                                  *)
(***************************************************************************)
EXTENDS Naturals, FiniteSets

CONSTANTS
    Users,          \* user ids
    SessionIds,     \* the ids randomUUID() draws from
    Requests,       \* slots for concurrently executing requests
    MaxSessions,    \* the tier limit of each user
    Ops, Events,    \* the handlers and the events of this instance
    NoUser, NoSession

AllOps == {"login", "refresh", "logout", "revoke",
           "revokeAll", "changePassword", "resetPassword"}
AllEvents == {"expire", "cleanup", "abort"}

ASSUME SessionsAssumption ==
    /\ NoUser \notin Users
    /\ NoSession \notin SessionIds
    /\ Ops \subseteq AllOps
    /\ Events \subseteq AllEvents

ASSUME FiniteInstance ==
    /\ IsFiniteSet(SessionIds) /\ IsFiniteSet(Requests)
    /\ MaxSessions \in [Users -> Nat \ {0}]

VARIABLES
    owner,      \* owner[s]: the user id s was generated for; NoUser: not drawn yet
    row,        \* row[s]: userId of the sessions row, NoUser when there is none
    age,        \* age[s]: "young", "due" or "old"
    key,        \* key[s]: userId stored under session:<s>, NoUser when absent
    members,    \* members[u]: the Redis set user:sessions:<u>
    delivered,  \* the sessions whose tokens were returned to the client
    req         \* req[r]: the handler slot r executes

store == <<owner, row, age, key, members, delivered>>
vars == <<owner, row, age, key, members, delivered, req>>

Steps == {"idle", "count", "countRows", "create", "storeKey", "storeMember",
          "lookupKey", "lookupRow", "deleteRow", "dropKey", "dropMember",
          "deleteUserRows", "readMembers", "dropKeys", "dropSet"}

Request == [op: AllOps \cup {"none"}, pc: Steps,
            u: Users \cup {NoUser}, s: SessionIds \cup {NoSession},
            todo: SUBSET SessionIds]

Idle == [op |-> "none", pc |-> "idle", u |-> NoUser, s |-> NoSession, todo |-> {}]

\* One invariant per variable: its type.
TypeOK ==
    /\ owner \in [SessionIds -> Users \cup {NoUser}]
    /\ row \in [SessionIds -> Users \cup {NoUser}]
    /\ age \in [SessionIds -> {"young", "due", "old"}]
    /\ key \in [SessionIds -> Users \cup {NoUser}]
    /\ members \in [Users -> SUBSET SessionIds]
    /\ delivered \subseteq SessionIds
    /\ req \in [Requests -> Request]

Init ==
    /\ owner = [s \in SessionIds |-> NoUser]
    /\ row = [s \in SessionIds |-> NoUser]
    /\ age = [s \in SessionIds |-> "young"]
    /\ key = [s \in SessionIds |-> NoUser]
    /\ members = [u \in Users |-> {}]
    /\ delivered = {}
    /\ req = [r \in Requests |-> Idle]

-----------------------------------------------------------------------------
\* Control of one request: start a handler, move to its next await, return.

Start(r, op, pc, u, s) ==
    /\ op \in Ops
    /\ req[r] = Idle
    /\ req' = [req EXCEPT ![r] = [op |-> op, pc |-> pc, u |-> u, s |-> s, todo |-> {}]]
    /\ UNCHANGED store

At(r, pc) == req[r].pc = pc

\* The handler goes on at step pc with what it knows by then.
Resume(r, pc, u, s, todo) ==
    req' = [req EXCEPT ![r] = [op |-> req[r].op, pc |-> pc, u |-> u, s |-> s, todo |-> todo]]

Goto(r, pc) == Resume(r, pc, req[r].u, req[r].s, req[r].todo)

Return(r) == req' = [req EXCEPT ![r] = Idle]

\* The sessions the database counts or lists as active: expiresAt > now().
ActiveRows(u) == {s \in SessionIds : row[s] = u /\ age[s] = "young"}

\* authGuard accepts u: u holds an access token, issued with some session.
Authenticated(u) ==
    \E s \in delivered : owner[s] = u /\ age[s] = "young"

-----------------------------------------------------------------------------
\* Login by password or by OAuth, from the point where the user is known.

\* Bound of the instance: a handler that will draw an id starts only while an
\* id is left for it, since randomUUID() never runs out of them.
IdLeft ==
    Cardinality({x \in Requests : req[x].op \in {"login", "refresh"}
                                   /\ req[x].pc \notin {"storeKey", "storeMember"}})
        < Cardinality({s \in SessionIds : owner[s] = NoUser})

StartLogin(r, u) == IdLeft /\ Start(r, "login", "count", u, NoSession)

\* enforceSessionLimit: the size of the Redis set decides unless it is zero.
CountCached(r) ==
    /\ At(r, "count")
    /\ LET n == Cardinality(members[req[r].u])
       IN  IF n = 0 THEN Goto(r, "countRows")
           ELSE IF n >= MaxSessions[req[r].u] THEN Return(r)
           ELSE Goto(r, "create")
    /\ UNCHANGED store

\* ... and if it is zero the active rows are counted instead.
CountRows(r) ==
    /\ At(r, "countRows")
    /\ IF Cardinality(ActiveRows(req[r].u)) >= MaxSessions[req[r].u]
       THEN Return(r)
       ELSE Goto(r, "create")
    /\ UNCHANGED store

\* Faulty: refresh writes its session again under the id it had.
FaultyCreateRow(r) ==
    /\ At(r, "create")
    /\ \E s \in SessionIds :
        /\ IF req[r].op = "refresh" THEN s = req[r].s ELSE owner[s] = NoUser
        /\ owner' = [owner EXCEPT ![s] = req[r].u]
        /\ row' = [row EXCEPT ![s] = req[r].u]
        /\ Resume(r, "storeKey", req[r].u, s, {})
    /\ UNCHANGED <<age, key, members, delivered>>

\* sessionRepo.create with a fresh random id.
CreateRow(r) ==
    /\ At(r, "create")
    /\ \E s \in SessionIds :
        /\ owner[s] = NoUser
        /\ owner' = [owner EXCEPT ![s] = req[r].u]
        /\ row' = [row EXCEPT ![s] = req[r].u]
        /\ Resume(r, "storeKey", req[r].u, s, {})
    /\ UNCHANGED <<age, key, members, delivered>>

\* Faulty: the arguments of addSession swapped.
FaultyStoreKey(r) ==
    /\ At(r, "storeKey")
    /\ key' = [key EXCEPT ![req[r].s] = req[r].s]
    /\ Goto(r, "storeMember")
    /\ UNCHANGED <<owner, row, age, members, delivered>>

\* SessionCache.addSession, first command: SETEX session:<s>.
StoreKey(r) ==
    /\ At(r, "storeKey")
    /\ key' = [key EXCEPT ![req[r].s] = req[r].u]
    /\ Goto(r, "storeMember")
    /\ UNCHANGED <<owner, row, age, members, delivered>>

\* Second command: SADD user:sessions:<u>; login and refresh then sign and
\* return the tokens, with no await in between.
StoreMember(r) ==
    /\ At(r, "storeMember")
    /\ members' = [members EXCEPT ![req[r].u] = @ \cup {req[r].s}]
    /\ delivered' = delivered \cup {req[r].s}
    /\ Return(r)
    /\ UNCHANGED <<owner, row, age, key>>

-----------------------------------------------------------------------------
\* Refresh, logout and revoke: one session is looked up and removed.

\* verifyToken accepts the refresh token of s until it expires.
StartRefresh(r, s) ==
    /\ IdLeft
    /\ s \in delivered /\ age[s] # "old"
    /\ Start(r, "refresh", "lookupKey", NoUser, s)

StartLogout(r, s) ==
    /\ s \in delivered /\ age[s] # "old"
    /\ Start(r, "logout", "lookupKey", NoUser, s)

\* The path parameter of DELETE /auth/sessions/:id may be any session's id.
StartRevoke(r, u, s) ==
    /\ Authenticated(u)
    /\ owner[s] # NoUser
    /\ Start(r, "revoke", "lookupRow", u, s)

\* getSessionUserId.  Logout goes on without an owner, refresh asks the table.
LookupKey(r) ==
    /\ At(r, "lookupKey")
    /\ LET found == key[req[r].s]
           next == IF found = NoUser /\ req[r].op = "refresh"
                   THEN "lookupRow" ELSE "deleteRow"
       IN  Resume(r, next, found, req[r].s, {})
    /\ UNCHANGED store

\* sessionRepo.findById: refresh rejects a missing or an expired row, revoke a
\* missing row or one of another user.
LookupRow(r) ==
    /\ At(r, "lookupRow")
    /\ LET s == req[r].s
           refused == \/ row[s] = NoUser
                      \/ req[r].op = "refresh" /\ age[s] # "young"
                      \/ req[r].op = "revoke" /\ row[s] # req[r].u
       IN  IF refused THEN Return(r)
           ELSE Resume(r, "deleteRow", row[s], s, {})
    /\ UNCHANGED store

\* Faulty: rotation forgets the cache of the old session.
FaultyDeleteRow(r) ==
    /\ At(r, "deleteRow")
    /\ row' = [row EXCEPT ![req[r].s] = NoUser]
    /\ IF req[r].u = NoUser THEN Return(r)
       ELSE IF req[r].op = "refresh" THEN Goto(r, "create")
       ELSE Goto(r, "dropKey")
    /\ UNCHANGED <<owner, age, key, members, delivered>>

\* sessionRepo.delete: whether a row was there is not looked at.
DeleteRow(r) ==
    /\ At(r, "deleteRow")
    /\ row' = [row EXCEPT ![req[r].s] = NoUser]
    /\ IF req[r].u = NoUser THEN Return(r) ELSE Goto(r, "dropKey")
    /\ UNCHANGED <<owner, age, key, members, delivered>>

\* SessionCache.removeSession, first command: DEL session:<s>.
DropKey(r) ==
    /\ At(r, "dropKey")
    /\ key' = [key EXCEPT ![req[r].s] = NoUser]
    /\ Goto(r, "dropMember")
    /\ UNCHANGED <<owner, row, age, members, delivered>>

\* Faulty: DEL of the whole set instead of SREM.
FaultyDropMember(r) ==
    /\ At(r, "dropMember")
    /\ members' = [members EXCEPT ![req[r].u] = {}]
    /\ IF req[r].op = "refresh" THEN Goto(r, "create") ELSE Return(r)
    /\ UNCHANGED <<owner, row, age, key, delivered>>

\* Faulty: the set is left to the cleanup.
ForgetfulDropMember(r) ==
    /\ At(r, "dropMember")
    /\ IF req[r].op = "refresh" THEN Goto(r, "create") ELSE Return(r)
    /\ UNCHANGED store

\* Second command: SREM; refresh goes on to create the next session.
DropMember(r) ==
    /\ At(r, "dropMember")
    /\ members' = [members EXCEPT ![req[r].u] = @ \ {req[r].s}]
    /\ IF req[r].op = "refresh" THEN Goto(r, "create") ELSE Return(r)
    /\ UNCHANGED <<owner, row, age, key, delivered>>

-----------------------------------------------------------------------------
\* Revoke-all, change-password and reset-password: all of a user's sessions.

StartRevokeAll(r, u) ==
    /\ Authenticated(u)
    /\ Start(r, "revokeAll", "deleteUserRows", u, NoSession)

\* Faulty: the session to keep is an argument of the call.
FaultyStartChangePassword(r, s) ==
    \E t \in delivered :
        /\ age[t] = "young"
        /\ owner[s] # NoUser
        /\ Start(r, "changePassword", "deleteUserRows", owner[t], s)

\* The session is the jti of the access token; nothing checks that it lives.
StartChangePassword(r, s) ==
    /\ s \in delivered /\ age[s] = "young"
    /\ Start(r, "changePassword", "deleteUserRows", owner[s], s)

\* Reached with a reset token, without any session.
StartResetPassword(r, u) == Start(r, "resetPassword", "deleteUserRows", u, NoSession)

\* Faulty: the userId condition is lost from the statement.
FaultyDeleteUserRows(r) ==
    /\ At(r, "deleteUserRows")
    /\ row' = [s \in SessionIds |-> IF s # req[r].s THEN NoUser ELSE row[s]]
    /\ Goto(r, "readMembers")
    /\ UNCHANGED <<owner, age, key, members, delivered>>

\* One statement or transaction; change-password spares its own session.
DeleteUserRows(r) ==
    /\ At(r, "deleteUserRows")
    /\ row' = [s \in SessionIds |->
                IF row[s] = req[r].u /\ s # req[r].s THEN NoUser ELSE row[s]]
    /\ Goto(r, "readMembers")
    /\ UNCHANGED <<owner, age, key, members, delivered>>

\* removeAllSessionsForUser: SMEMBERS.
ReadMembers(r) ==
    /\ At(r, "readMembers")
    /\ LET found == members[req[r].u]
           next == IF found = {} THEN "dropSet" ELSE "dropKeys"
       IN  Resume(r, next, req[r].u, req[r].s, found)
    /\ UNCHANGED store

\* ... one DEL per member, in the order Redis returned them ...
DropOneKey(r) ==
    /\ At(r, "dropKeys")
    /\ \E s \in req[r].todo :
        /\ key' = [key EXCEPT ![s] = NoUser]
        /\ LET left == req[r].todo \ {s}
               next == IF left = {} THEN "dropSet" ELSE "dropKeys"
           IN  Resume(r, next, req[r].u, req[r].s, left)
    /\ UNCHANGED <<owner, row, age, members, delivered>>

\* ... and DEL of the set; change-password then adds its own session again.
DropSet(r) ==
    /\ At(r, "dropSet")
    /\ members' = [members EXCEPT ![req[r].u] = {}]
    /\ IF req[r].op = "changePassword" THEN Goto(r, "storeKey") ELSE Return(r)
    /\ UNCHANGED <<owner, row, age, key, delivered>>

-----------------------------------------------------------------------------
\* What happens beside the requests.

\* An await of r rejects, or its process dies; what was done stays done.
Abort(r) ==
    /\ "abort" \in Events
    /\ req[r] # Idle
    /\ Return(r)
    /\ UNCHANGED store

\* Seven days pass: expiresAt of the row, then the refresh token's exp.
Age(s) ==
    /\ "expire" \in Events
    /\ owner[s] # NoUser
    /\ age[s] # "old"
    /\ age' = [age EXCEPT ![s] = IF @ = "young" THEN "due" ELSE "old"]
    /\ UNCHANGED <<owner, row, key, members, delivered, req>>

\* The TTL of session:<s> counts from its last SETEX; the set has no TTL.
ExpireKey(s) ==
    /\ age[s] # "young"
    /\ key[s] # NoUser
    /\ key' = [key EXCEPT ![s] = NoUser]
    /\ UNCHANGED <<owner, row, age, members, delivered, req>>

\* The daily job deletes the expired rows, and only the rows.
CleanUp ==
    /\ "cleanup" \in Events
    /\ row' = [s \in SessionIds |-> IF age[s] = "young" THEN row[s] ELSE NoUser]
    /\ UNCHANGED <<owner, age, key, members, delivered, req>>

-----------------------------------------------------------------------------
\* The next await of request r resolves.
Step(r) ==
    \/ CountCached(r) \/ CountRows(r) \/ CreateRow(r)
    \/ StoreKey(r) \/ StoreMember(r)
    \/ LookupKey(r) \/ LookupRow(r) \/ DeleteRow(r) \/ DropKey(r) \/ DropMember(r)
    \/ DeleteUserRows(r) \/ ReadMembers(r) \/ DropOneKey(r) \/ DropSet(r)

\* A client's call arrives.
Arrive(r) ==
    \/ \E u \in Users : StartLogin(r, u) \/ StartRevokeAll(r, u) \/ StartResetPassword(r, u)
    \/ \E s \in SessionIds : StartRefresh(r, s) \/ StartLogout(r, s) \/ StartChangePassword(r, s)
    \/ \E u \in Users, s \in SessionIds : StartRevoke(r, u, s)

Next ==
    \/ \E r \in Requests : Arrive(r) \/ Step(r) \/ Abort(r)
    \/ \E s \in SessionIds : Age(s) \/ ExpireKey(s)
    \/ CleanUp

Spec == Init /\ [][Next]_vars
=============================================================================
