--------------------------- MODULE SessionsProps ---------------------------
(***************************************************************************)
(* What the session store must guarantee, and under which workloads (Ops,  *)
(* Events, the number of Requests) the code guarantees it.                 *)
(***************************************************************************)
EXTENDS Sessions

Pending(s, pcs) == \E r \in Requests : req[r].pc \in pcs /\ req[r].s = s

Quiescent == \A r \in Requests : req[r] = Idle

\* The abstract ledger, read off the table and the clock.
Ledger == INSTANCE SessionLedger WITH
    open <- {s \in SessionIds : row[s] # NoUser},
    overdue <- {s \in SessionIds : age[s] # "young"}

\* The sessions table implements the ledger whatever the interleaving, aborts
\* included: no delete-then-create of a refresh, no retry and no late write of
\* another request ever reopens a session or gives it to another user.
ImplementsLedger == Ledger!Spec

StoredOwners ==
    /\ \A s \in SessionIds :
        /\ row[s] \in {owner[s], NoUser}
        /\ key[s] \in {owner[s], NoUser}
        /\ s \in delivered => owner[s] # NoUser
    /\ \A u \in Users : \A s \in members[u] : owner[s] = u

\* The steps before which a handler knows its user.
UserKnown == {"count", "countRows", "create", "storeKey", "storeMember", "dropKey",
              "dropMember", "deleteUserRows", "readMembers", "dropKeys", "dropSet"}

RequestOwners(r) ==
    LET q == req[r]
    IN  /\ q.pc \in UserKnown => q.u \in Users
        /\ q.pc \in {"lookupKey", "lookupRow", "deleteRow"} => q.s \in SessionIds
        /\ q.pc = "lookupKey" => q.op \in {"refresh", "logout"}
        /\ \/ q.pc \in {"storeKey", "storeMember", "dropKey", "dropMember"}
           \/ q.op = "changePassword"
           => q.s \in SessionIds /\ owner[q.s] = q.u /\ q.u \in Users
        /\ q.pc = "deleteRow" => \/ q.u = owner[q.s] /\ q.u \in Users
                                 \/ q.u = NoUser /\ q.op = "logout"
        /\ \A s \in q.todo : owner[s] = q.u /\ q.u \in Users

\* All copies of a session agree on its owner: the row, the Redis entry, the
\* set it is counted in and what the requests working on it believe
\* (session-cache.ts writes the copies one by one, refresh and logout take the
\* owner from the cache, change-password rewrites entries from its token).
OwnersAgree == StoredOwners /\ \A r \in Requests : RequestOwners(r)

\* Request r takes this step, for the owner of s or with the refresh token of s.
ActsFor(r, s) ==
    /\ req'[r] # req[r]
    /\ \/ req[r].u = owner[s]
       \/ req[r].op = "logout" /\ req[r].s = s

\* Before its time a session is removed, from the table, from Redis or from the
\* counted set, only by a request of its owner (revoke-session.service.ts: "User
\* can only revoke their own sessions"), never by another user's bulk removal,
\* rotation or late cache write.
OnlyOwnerRemoves ==
    [][\A s \in SessionIds :
        age[s] = "young" /\ owner[s] # NoUser
            /\ \/ row[s] # row'[s]
               \/ key[s] # NoUser /\ key'[s] = NoUser
               \/ s \in members[owner[s]] /\ s \notin members'[owner[s]]
        => \E r \in Requests : ActsFor(r, s)]_vars

\* No session escapes the count that login compares with the tier limit: every
\* row is in its user's Redis set, or the request that created it is about to
\* add it.  Holds without bulk removals and aborts, because addSession follows
\* the insert and removeSession follows the delete.
RowsCounted ==
    \A s \in SessionIds : row[s] # NoUser =>
        s \in members[row[s]] \/ Pending(s, {"storeKey", "storeMember"})

\* A session that is gone from the table is gone from the cache that refresh
\* trusts, or its removal is on the way.  Holds for login, refresh and logout:
\* nobody holds a token of a session before all its copies exist.
NoGhostKey ==
    \A s \in SessionIds : key[s] # NoUser /\ age[s] = "young" =>
        row[s] # NoUser \/ Pending(s, {"dropKey"})

\* The tier limit itself: it is what enforceSessionLimit promises.
WithinLimit ==
    \A u \in Users : Cardinality(ActiveRows(u)) <= MaxSessions[u]

\* Between requests table, cache and set tell the same story of every session
\* that is not expired: the separate writes of login, rotation and logout meet
\* again in whatever order they ran.  Holds without bulk removals and aborts.
StoresAgree ==
    Quiescent => \A s \in SessionIds : age[s] = "young" =>
        /\ key[s] = row[s]
        /\ \A u \in Users : s \in members[u] <=> row[s] = u
=============================================================================
