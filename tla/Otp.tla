-------------------------------- MODULE Otp --------------------------------
(***************************************************************************)
(* The one-time codes of one user, to verify the email or to get a reset   *)
(* token: sending them with a cooldown, accepting them, and setting a new  *)
(* password with the reset token.  Codes of both types are rows of the     *)
(* table verification_tokens; cooldowns and reset tokens are Redis keys.   *)
(* Handlers interleave between their awaits.                               *)
(***************************************************************************)
EXTENDS Naturals, FiniteSets

CONSTANTS
    Codes,      \* six-digit codes; bound: each is drawn once
    Grants,     \* reset tokens; bound: each is drawn once
    Requests,   \* slots for concurrently executing handlers
    Events,     \* "abort", "expire": handlers that end early, rows and keys that expire
    NoCode, NoGrant

ASSUME OtpAssumption ==
    /\ NoCode \notin Codes /\ NoGrant \notin Grants
    /\ Events \subseteq {"abort", "expire"}
    /\ IsFiniteSet(Codes) /\ IsFiniteSet(Requests) /\ Requests # {}

Types == {"email_verify", "password_reset"}

VARIABLES
    purpose,    \* purpose[c]: the type code c was drawn for
    age,        \* age[c]: the age of the unexpired row of code c, 1 for the newest of its
                \* type, 0 without such a row
    jobs,       \* codes in the mail queues
    cooldown,   \* the types whose cooldown key exists
    late,       \* late[type]: mails queued while that key existed
    verified,   \* users.isEmailVerified
    issued,     \* the reset tokens drawn so far
    grants,     \* the reset tokens stored in Redis
    opened,     \* opened[c]: reset tokens issued for code c
    resets,     \* resets[g]: passwords set with reset token g
    req         \* req[r]: the handler slot r executes

mails == <<jobs, cooldown, late>>
resetting == <<issued, grants, opened, resets>>
vars == <<purpose, age, mails, verified, resetting, req>>

Steps == {"idle", "readCooldown", "findUser", "invalidate", "insert", "enqueue", "setCooldown",
          "findToken", "compare", "confirm", "grant", "getGrant", "delGrant", "change"}

\* c: the code sent or entered; row: the code whose row was found; g: the reset token.
Request == [op: {"none", "send", "verify", "reset"}, type: Types \cup {"none"}, pc: Steps,
            c: Codes \cup {NoCode}, row: Codes \cup {NoCode}, g: Grants \cup {NoGrant}]

Idle == [op |-> "none", type |-> "none", pc |-> "idle", c |-> NoCode, row |-> NoCode, g |-> NoGrant]

TypeOK ==
    /\ purpose \in [Codes -> Types \cup {"none"}]
    /\ age \in [Codes -> Nat]
    /\ jobs \subseteq Codes
    /\ cooldown \subseteq Types
    /\ late \in [Types -> Nat]
    /\ verified \in BOOLEAN
    /\ issued \subseteq Grants /\ grants \subseteq issued
    /\ opened \in [Codes -> Nat]
    /\ resets \in [Grants -> Nat]
    /\ req \in [Requests -> Request]

Init ==
    /\ purpose = [c \in Codes |-> "none"]
    /\ age = [c \in Codes |-> 0]
    /\ jobs = {} /\ cooldown = {} /\ late = [type \in Types |-> 0]
    /\ verified = FALSE
    /\ issued = {} /\ grants = {}
    /\ opened = [c \in Codes |-> 0]
    /\ resets = [g \in Grants |-> 0]
    /\ req = [r \in Requests |-> Idle]

\* The unexpired rows of a type.
Rows(type) == {c \in Codes : age[c] > 0 /\ purpose[c] = type}

-----------------------------------------------------------------------------
\* Control of one handler.

ReadOnly == UNCHANGED <<purpose, age, mails, verified, resetting>>

Start(r, q) ==
    /\ req[r] = Idle
    /\ req' = [req EXCEPT ![r] = q]
    /\ ReadOnly

At(r, pc) == req[r].pc = pc

Goto(r, pc) == req' = [req EXCEPT ![r].pc = pc]

Return(r) == req' = [req EXCEPT ![r] = Idle]

-----------------------------------------------------------------------------
\* POST /auth/email/send-verification and /auth/forgot-password.

Undrawn == {c \in Codes : purpose[c] = "none"}

\* Bound: a handler that will draw a code starts while one is left for it.
CodeLeft ==
    Cardinality({r \in Requests : At(r, "readCooldown") \/ At(r, "findUser")})
        < Cardinality(Undrawn)

StartSend(r, type) ==
    CodeLeft /\ Start(r, [Idle EXCEPT !.op = "send", !.type = type, !.pc = "readCooldown"])

\* Faulty: the remaining time is not looked at.
FaultyReadCooldown(r) ==
    /\ At(r, "readCooldown")
    /\ Goto(r, "findUser")
    /\ ReadOnly

\* The remaining seconds of the cooldown of this type.
ReadCooldown(r) ==
    /\ At(r, "readCooldown")
    /\ IF req[r].type \in cooldown THEN Return(r) ELSE Goto(r, "findUser")
    /\ ReadOnly

\* A verified email needs no code; otherwise one is drawn and hashed.
FindUser(r) ==
    /\ At(r, "findUser")
    /\ IF req[r].type = "email_verify" /\ verified
       THEN Return(r) /\ UNCHANGED purpose
       ELSE \E c \in Undrawn :
                /\ purpose' = [purpose EXCEPT ![c] = req[r].type]
                /\ req' = [req EXCEPT ![r].pc = "invalidate", ![r].c = c]
    /\ UNCHANGED <<age, mails, verified, resetting>>

\* Sending goes on to the insert, accepting a reset code to the reset token.
AfterInvalidate(r) == Goto(r, IF req[r].op = "send" THEN "insert" ELSE "grant")

\* Faulty: the rows there are stay.
FaultyInvalidate(r) ==
    /\ At(r, "invalidate")
    /\ AfterInvalidate(r)
    /\ ReadOnly

\* invalidateByUserIdAndType, before a new code and when a reset code is used.
Invalidate(r) ==
    /\ At(r, "invalidate")
    /\ age' = [c \in Codes |-> IF purpose[c] = req[r].type THEN 0 ELSE age[c]]
    /\ AfterInvalidate(r)
    /\ UNCHANGED <<purpose, mails, verified, resetting>>

\* tokenRepo.create.
Insert(r) ==
    /\ At(r, "insert")
    /\ age' = [c \in Codes |-> IF c = req[r].c THEN 1
                               ELSE IF c \in Rows(req[r].type) THEN age[c] + 1 ELSE age[c]]
    /\ Goto(r, "enqueue")
    /\ UNCHANGED <<purpose, mails, verified, resetting>>

\* Faulty: what is queued is the row that was found, and there is none.
FaultyQueued(r) == req[r].row

\* What the payload carries.
Queued(r) == req[r].c

\* addEmailJobIfEnabled: a disabled gate skips the mail.
Enqueue(r) ==
    /\ At(r, "enqueue")
    /\ \/ /\ jobs' = jobs \cup {Queued(r)}
          /\ late' = IF req[r].type \in cooldown
                     THEN [late EXCEPT ![req[r].type] = late[req[r].type] + 1] ELSE late
       \/ UNCHANGED <<jobs, late>>
    /\ Goto(r, "setCooldown")
    /\ UNCHANGED <<purpose, age, cooldown, verified, resetting>>

\* SETEX; a cooldown that runs is prolonged.
SetCooldown(r) ==
    /\ At(r, "setCooldown")
    /\ cooldown' = cooldown \cup {req[r].type}
    /\ Return(r)
    /\ UNCHANGED <<purpose, age, jobs, late, verified, resetting>>

-----------------------------------------------------------------------------
\* POST /auth/email/verify and /auth/verify-reset-otp.

\* With a code from a mail, an old mail, or the other mail; or a mistyped one.
StartVerify(r, type, c) ==
    Start(r, [Idle EXCEPT !.op = "verify", !.type = type, !.pc = "findToken", !.c = c])

\* Faulty: the type is not asked for.
FaultyOfType(type) == {c \in Codes : age[c] > 0}

\* The conditions type = ? and expiresAt > now of the query.
OfType(type) == Rows(type)

\* findValidByUserIdAndType: the newest such row.
FindToken(r) ==
    /\ At(r, "findToken")
    /\ LET found == OfType(req[r].type)
       IN  \/ found = {} /\ Return(r)
           \/ \E c \in found :
                /\ \A d \in found : age[c] <= age[d]
                /\ req' = [req EXCEPT ![r].pc = "compare", ![r].row = c]
    /\ ReadOnly

\* passwordHasher.verify takes its time.
Compare(r) ==
    /\ At(r, "compare")
    /\ IF req[r].c # req[r].row THEN Return(r)
       ELSE Goto(r, IF req[r].type = "email_verify" THEN "confirm" ELSE "invalidate")
    /\ ReadOnly

\* The transaction of verify-email: the flag, and the row by its id.
Confirm(r) ==
    /\ At(r, "confirm")
    /\ verified' = TRUE
    /\ age' = [age EXCEPT ![req[r].row] = 0]
    /\ Return(r)
    /\ UNCHANGED <<purpose, mails, resetting>>

\* setResetToken, with a random token (or none, when Grants, the bound, is used up).
Grant(r) ==
    /\ At(r, "grant")
    /\ \/ \E g \in Grants \ issued :
            issued' = issued \cup {g} /\ grants' = grants \cup {g}
       \/ issued = Grants /\ UNCHANGED <<issued, grants>>
    /\ opened' = [opened EXCEPT ![req[r].c] = opened[req[r].c] + 1]
    /\ Return(r)
    /\ UNCHANGED <<purpose, age, mails, verified, resets>>

-----------------------------------------------------------------------------
\* POST /auth/reset-password, with a reset token that was issued.

StartReset(r, g) == g \in issued /\ Start(r, [Idle EXCEPT !.op = "reset", !.pc = "getGrant", !.g = g])

\* consumeResetToken, GET ...
GetGrant(r) ==
    /\ At(r, "getGrant")
    /\ IF req[r].g \in grants THEN Goto(r, "delGrant") ELSE Return(r)
    /\ ReadOnly

\* Faulty: the token is left to its TTL.
FaultyDelGrant(r) ==
    /\ At(r, "delGrant")
    /\ Goto(r, "change")
    /\ ReadOnly

\* ... and DEL, whose result is not looked at.
DelGrant(r) ==
    /\ At(r, "delGrant")
    /\ grants' = grants \ {req[r].g}
    /\ Goto(r, "change")
    /\ UNCHANGED <<purpose, age, mails, verified, issued, opened, resets>>

\* The transaction that sets the password; what it does to the sessions is in
\* module Sessions, to the cached user in module UserCache.
Change(r) ==
    /\ At(r, "change")
    /\ resets' = [resets EXCEPT ![req[r].g] = resets[req[r].g] + 1]
    /\ Return(r)
    /\ UNCHANGED <<purpose, age, mails, verified, issued, grants, opened>>

-----------------------------------------------------------------------------
\* The mail workers take the jobs in any order; a job that fails is gone as well,
\* since no queue sets attempts.
Mail(c) ==
    /\ c \in jobs
    /\ jobs' = jobs \ {c}
    /\ UNCHANGED <<purpose, age, cooldown, late, verified, resetting, req>>

CooldownEnds(type) ==
    /\ "expire" \in Events
    /\ type \in cooldown
    /\ cooldown' = cooldown \ {type}
    /\ late' = [late EXCEPT ![type] = 0]
    /\ UNCHANGED <<purpose, age, jobs, verified, resetting, req>>

\* Rows of a type live equally long, so the oldest of them expires first.
TokenExpires(c) ==
    /\ "expire" \in Events
    /\ c \in Rows(purpose[c])
    /\ \A d \in Rows(purpose[c]) : age[d] <= age[c]
    /\ age' = [age EXCEPT ![c] = 0]
    /\ UNCHANGED <<purpose, mails, verified, resetting, req>>

GrantExpires(g) ==
    /\ "expire" \in Events
    /\ g \in grants
    /\ grants' = grants \ {g}
    /\ UNCHANGED <<purpose, age, mails, verified, issued, opened, resets, req>>

\* An await rejects (a mail that cannot be queued is answered with 409) or the process dies.
Abort(r) ==
    /\ "abort" \in Events
    /\ req[r] # Idle
    /\ Return(r)
    /\ ReadOnly

Step(r) ==
    \/ ReadCooldown(r) \/ FindUser(r) \/ Invalidate(r) \/ Insert(r) \/ Enqueue(r)
    \/ SetCooldown(r)
    \/ FindToken(r) \/ Compare(r) \/ Confirm(r) \/ Grant(r)
    \/ GetGrant(r) \/ DelGrant(r) \/ Change(r)

Arrive(r) ==
    \/ \E type \in Types : StartSend(r, type) \/ \E c \in Codes : StartVerify(r, type, c)
    \/ \E g \in Grants : StartReset(r, g)

Next ==
    \/ \E r \in Requests : Arrive(r) \/ Step(r) \/ Abort(r)
    \/ \E c \in Codes : Mail(c) \/ TokenExpires(c)
    \/ \E type \in Types : CooldownEnds(type)
    \/ \E g \in Grants : GrantExpires(g)

Spec == Init /\ [][Next]_vars
=============================================================================
