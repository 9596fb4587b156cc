----------------------------- MODULE UserCache -----------------------------
(***************************************************************************)
(* The users row of one user and the two copies of it in Redis, under      *)
(* user:id:<id> and user:email:<email>: the handlers that read it through  *)
(* the cache and the ones that change it, interleaving between their       *)
(* awaits.  Users share neither rows nor entries, so one user is enough.   *)
(*                                                                         *)
(* What matters of a copy is where it differs from the row: a copy is the  *)
(* set of the fields that were written since it was read.                  *)
(* Time is counted in units of USER_CACHE_TTL_SECONDS.                     *)
(***************************************************************************)
EXTENDS Naturals

CONSTANTS
    Requests,   \* slots for concurrently executing handlers and jobs
    Ops,        \* the operations of this instance
    Events      \* "abort": a handler may end between two awaits

Readers == {"login", "getMe", "refresh"}
Writers == {"changePassword", "resetPassword", "updateMe", "avatarConfirm", "avatarDelete",
            "billing", "verifyEmail", "demotion"}
AllOps == Readers \cup Writers \cup {"register"}

ASSUME UserCacheAssumption ==
    Ops \subseteq AllOps /\ Events \subseteq {"abort"}

Fields == {"password", "tier", "profile"}
Keys == {"id", "email"}

VARIABLES
    row,    \* whether the users row exists
    entry,  \* entry[k]: the copy stored under key k, Nothing when absent
    left,   \* left[k]: ticks that entry[k] outlives, at most
    quiet,  \* ticks since the row was last written, or a refresh took over what
            \* was cached; 3: three or more
    req     \* req[r]: the handler slot r executes

vars == <<row, entry, left, quiet, req>>

Copy == SUBSET Fields
Accurate == {}
Nothing == {"nothing"}

Steps == {"idle", "insert", "lookup", "fetch", "setId", "setEmail", "find", "write",
          "delId", "delEmail"}

\* user: the copy the handler holds; old: a tick has passed since it started.
Request == [op: AllOps \cup {"none"}, pc: Steps, user: Copy \cup {Nothing}, old: BOOLEAN]

Idle == [op |-> "none", pc |-> "idle", user |-> Nothing, old |-> FALSE]

TypeOK ==
    /\ row \in BOOLEAN
    /\ entry \in [Keys -> Copy \cup {Nothing}]
    /\ left \in [Keys -> 0..1]
    /\ quiet \in 0..3
    /\ req \in [Requests -> Request]

Init ==
    /\ row = FALSE
    /\ entry = [k \in Keys |-> Nothing]
    /\ left = [k \in Keys |-> 0]
    /\ quiet = 3
    /\ req = [r \in Requests |-> Idle]

-----------------------------------------------------------------------------
\* Control of one handler.

Start(r, op, pc) ==
    /\ op \in Ops
    /\ req[r] = Idle
    /\ req' = [req EXCEPT ![r] = [Idle EXCEPT !.op = op, !.pc = pc]]
    /\ UNCHANGED <<row, entry, left, quiet>>

At(r, pc) == req[r].pc = pc

Resume(r, pc, user) == req' = [req EXCEPT ![r].pc = pc, ![r].user = user]

Goto(r, pc) == Resume(r, pc, req[r].user)

Return(r) == req' = [req EXCEPT ![r] = Idle]

-----------------------------------------------------------------------------
\* Readers: cache, then table, then fill the cache.

StartRegister(r) == Start(r, "register", "insert")

StartRead(r, op) == op \in Readers /\ Start(r, op, "lookup")

\* Registration inserts the row and caches what it inserted.
Insert(r) ==
    /\ At(r, "insert")
    /\ IF row THEN Return(r) /\ UNCHANGED <<row, quiet>>
       ELSE row' = TRUE /\ quiet' = 0 /\ Resume(r, "setId", Accurate)
    /\ UNCHANGED <<entry, left>>

\* Login looks under the email, the others under the id.
KeyOf(op) == IF op = "login" THEN "email" ELSE "id"

\* Faulty: login caches what it found as well.
FaultyLookup(r) ==
    /\ At(r, "lookup")
    /\ LET found == entry[KeyOf(req[r].op)]
       IN  IF found = Nothing THEN Goto(r, "fetch") /\ UNCHANGED quiet
           ELSE IF req[r].op = "refresh" THEN Resume(r, "setId", found) /\ quiet' = 0
           ELSE IF req[r].op = "login" THEN Resume(r, "setId", found) /\ UNCHANGED quiet
           ELSE Return(r) /\ UNCHANGED quiet
    /\ UNCHANGED <<row, entry, left>>

\* A hit is the answer.  Only refresh caches it once more.
Lookup(r) ==
    /\ At(r, "lookup")
    /\ LET found == entry[KeyOf(req[r].op)]
       IN  IF found = Nothing THEN Goto(r, "fetch") /\ UNCHANGED quiet
           ELSE IF req[r].op = "refresh" THEN Resume(r, "setId", found) /\ quiet' = 0
           ELSE Return(r) /\ UNCHANGED quiet
    /\ UNCHANGED <<row, entry, left>>

\* findById, findByEmail.
Fetch(r) ==
    /\ At(r, "fetch")
    /\ IF row THEN Resume(r, "setId", Accurate) ELSE Return(r)
    /\ UNCHANGED <<row, entry, left, quiet>>

\* Faulty: the TTL is given in half seconds.
FaultyPut(k, user) ==
    /\ entry' = [entry EXCEPT ![k] = user]
    /\ left' = [left EXCEPT ![k] = 2]

\* SETEX: the copy stays for one TTL from now, that is across one tick at most.
Put(k, user) ==
    /\ entry' = [entry EXCEPT ![k] = user]
    /\ left' = [left EXCEPT ![k] = 1]

\* UserCache.set, first the entry under the id, then the one under the email.
SetId(r) ==
    /\ At(r, "setId")
    /\ Put("id", req[r].user)
    /\ Goto(r, "setEmail")
    /\ UNCHANGED <<row, quiet>>

SetEmail(r) ==
    /\ At(r, "setEmail")
    /\ Put("email", req[r].user)
    /\ Return(r)
    /\ UNCHANGED <<row, quiet>>

-----------------------------------------------------------------------------
\* Writers: the statement or transaction, then the invalidation if there is one.

StartWrite(r, op) == op \in Writers /\ Start(r, op, "find")

\* findById; without a user the handler fails.
Find(r) ==
    /\ At(r, "find")
    /\ IF row THEN Goto(r, "write") ELSE Return(r)
    /\ UNCHANGED <<row, entry, left, quiet>>

\* The columns of users it writes: passwordHash, tierId, or any others.
FieldOf(op) ==
    IF op \in {"changePassword", "resetPassword"} THEN "password"
    ELSE IF op \in {"billing", "demotion"} THEN "tier"
    ELSE "profile"

\* verify-email-otp.service.ts and the demotion job invalidate nothing.
Silent == {"verifyEmail", "demotion"}

\* Every copy there is, stored or held by a handler, is behind from now on.
Write(r) ==
    /\ At(r, "write")
    /\ LET Behind(copy) == IF copy = Nothing THEN Nothing ELSE copy \cup {FieldOf(req[r].op)}
           next == IF req[r].op \in Silent THEN Idle ELSE [req[r] EXCEPT !.pc = "delId"]
       IN  /\ entry' = [k \in Keys |-> Behind(entry[k])]
           /\ req' = [q \in Requests |->
                        IF q = r THEN next ELSE [req[q] EXCEPT !.user = Behind(@)]]
    /\ quiet' = 0
    /\ UNCHANGED <<row, left>>

\* Update-me without a username writes nothing, and invalidates.
WriteNothing(r) ==
    /\ At(r, "write")
    /\ req[r].op = "updateMe"
    /\ Goto(r, "delId")
    /\ UNCHANGED <<row, entry, left, quiet>>

\* UserCache.invalidateUser; webhook and confirm-session call it without email.
DelId(r) ==
    /\ At(r, "delId")
    /\ entry' = [entry EXCEPT !["id"] = Nothing]
    /\ IF req[r].op = "billing" THEN Return(r) ELSE Goto(r, "delEmail")
    /\ UNCHANGED <<row, left, quiet>>

DelEmail(r) ==
    /\ At(r, "delEmail")
    /\ entry' = [entry EXCEPT !["email"] = Nothing]
    /\ Return(r)
    /\ UNCHANGED <<row, left, quiet>>

-----------------------------------------------------------------------------
\* A command or statement rejects, or the process dies.
Abort(r) ==
    /\ "abort" \in Events
    /\ req[r] # Idle
    /\ Return(r)
    /\ UNCHANGED <<row, entry, left, quiet>>

\* Redis drops an entry some time after the one tick and before the next.
Expire(k) ==
    /\ entry[k] # Nothing /\ left[k] = 0
    /\ entry' = [entry EXCEPT ![k] = Nothing]
    /\ UNCHANGED <<row, left, quiet, req>>

\* A TTL passes, while handlers run or not: none runs that long, so that none sees
\* two ticks, and no entry lives longer.
Tick ==
    /\ \A r \in Requests : ~ req[r].old
    /\ \A k \in Keys : entry[k] # Nothing => left[k] = 1
    /\ left' = [k \in Keys |-> 0]
    /\ quiet' = IF quiet = 3 THEN 3 ELSE quiet + 1
    /\ req' = [r \in Requests |-> [req[r] EXCEPT !.old = (req[r] # Idle)]]
    /\ UNCHANGED <<row, entry>>

Step(r) ==
    \/ Insert(r) \/ Lookup(r) \/ Fetch(r) \/ SetId(r) \/ SetEmail(r)
    \/ Find(r) \/ Write(r) \/ WriteNothing(r) \/ DelId(r) \/ DelEmail(r)

Arrive(r) ==
    \/ StartRegister(r)
    \/ \E op \in Readers : StartRead(r, op)
    \/ \E op \in Writers : StartWrite(r, op)

Next ==
    \/ \E r \in Requests : Arrive(r) \/ Step(r) \/ Abort(r)
    \/ \E k \in Keys : Expire(k)
    \/ Tick

Spec == Init /\ [][Next]_vars
=============================================================================
