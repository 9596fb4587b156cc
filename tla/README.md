# Authbox in TLA+

This directory holds a formal model of the Authbox API (`src/src`): an Express
service with sessions, e-mail codes, OAuth sign-in, avatars and Stripe billing,
which keeps its state in PostgreSQL, Redis, an S3 bucket and Stripe and runs as
a cluster of web processes beside a queue process.

The code is single-threaded per process, but every `await` is a point where
another request, another process of the cluster or a daily job may run, and only
a few writes are in a transaction. So the models all have the same shape: a
handler is a small program counter per request slot (`req[r]`), **each database,
Redis, S3 or Stripe call is one action**, and everything between two awaits
belongs to the action of the await before it. `Abort` ends a handler between any
two actions: a rejected await and the death of a process look the same to the
stores.

Run a configuration with `tlc -config MCSessions_all.cfg MCSessions.tla`, check
the proofs with `tlapm SessionsProofs.tla` (and the other `*Proofs` modules).

## Inventory

| Component | State | Operations | Module |
|---|---|---|---|
| Auth sessions | table `sessions`, Redis `session:<id>` and `user:sessions:<user>` | login, refresh, logout, revoke, revoke-all, change and reset password, list | `Sessions` |
| User cache | table `users`, Redis `user:id:*`, `user:email:*` | every reader and writer of a user | `UserCache` |
| Accounts | `users`, `social_providers` with their UNIQUE constraints | register, OAuth callback, update-me | `Accounts` |
| One-time codes | table `verification_tokens`, Redis cooldowns and reset tokens, mail queues | send and verify both types, reset-password | `Otp` |
| Avatars | S3 objects, `users.avatarUrl` | upload URL, client PUT, confirm, delete | `Avatars` |
| Billing | `subscriptions`, `payments`, `processed_stripe_events`, `users.tierId`; Stripe | checkout, webhook, confirm-session, reminder and demotion jobs | `Billing` |
| Processes of a deployment | per process: pool, Redis connection, shutdown; the primary's children | start, signal, cleanup tasks, timer, exit, crash, fork and respawn | `Cluster` |
| Queues and workers | the BullMQ queues | add, repeat, take, fail | `Cluster`, `Gateway` |
| Request pipeline | Redis `rl:*` counters; none otherwise | guard, limiters, permission, handler, error handler | `Gateway` |
| OAuth provider clients | the state of a sign-in | initiate, exchange, profile | `Accounts` |
| Hasher, headers, validation, DI, logging, OpenAPI | none or constant | | not modelled |

How they interact:

* **Through the `users` row.** Accounts inserts it; billing writes `tierId`,
  avatars write `avatarUrl`, codes set `isEmailVerified`, change and reset
  password write the hash. Only some of these writers invalidate the cache.
* **Through the session store.** Change and reset password delete sessions with
  the same bulk routine as revoke-all; the tier of a user, which billing changes,
  decides how many sessions a login may leave.
* **Through the queues.** Registration, OAuth and the codes enqueue mails; the
  daily jobs run in the queue process, beside all handlers.
* **Through the process.** The shutdown closes the pool and the Redis connection
  that handlers, limiters and jobs use; the end of a process ends the work in it,
  at any await, which is the `Abort` of the other modules.
* **Through the primary.** It replaces web processes, but not the queue process,
  and the web processes end with it.

What is hard in each of them, and makes it correct:

* *Sessions*: three copies written one by one, read by different handlers. A
  session must never come back, change its owner, be taken away by somebody
  else, or escape the count of the tier limit.
* *User cache*: cache-aside fills race with invalidations, and several writers
  do not invalidate. Staleness must be bounded.
* *Accounts*: lookup and insert are separate. The constraints must decide, and
  nobody may be signed in to another account.
* *Codes*: delete-then-insert, compare-then-delete and get-then-del. A code and a
  reset token must be used up, for their own purpose: whoever comes later is refused,
  though not who has looked already.
* *Billing*: at-least-once, unordered delivery with a separate check and record of
  the event id; two handlers for one payment; jobs that act on what they queried.
  Row, tier and Stripe must agree, no payment may be lost, and no mail repeat.
* *Cluster*: everything is closed at once while work drains, cleanup tasks fail,
  processes die at any moment, signals repeat. A shutdown must end, and a web process
  that is gone must come back.
* *Pipeline*: one counter in Redis for all processes, whose requests pass at the
  same time and are cut off in the middle. No more may pass than the limit, and
  whatever is thrown or rejected must end in an answer.

## Modules

For every component `X`: `X.tla` is the model, `XProps.tla` its properties, and
`MCX.tla` with `MCX_*.cfg` its instances. Definitions carry the names of the code
where they can. Definitions named `Faulty...`, `Forgetful...` and `HalfCancelRow` are
wrong variants of the operator after them; no specification uses them. They
exist to show that the properties notice such a mistake.

### `Sessions`, `SessionsProps`, `SessionLedger`, `SessionsProofs`

`row`, `key` and `members` are the table, the Redis entries and the counted sets;
`owner` remembers for whom an id was drawn, `delivered` which tokens a client
holds. Login is `StartLogin`, `CountCached`, `CountRows` (the fallback when SCARD
is 0), `CreateRow`, `StoreKey`, `StoreMember`: one action per await of
`login-with-email.service.ts`, `tier-enforcement.service.ts` and
`session-cache.ts`. Refresh joins it at `CreateRow` after `LookupKey`,
`LookupRow`, `DeleteRow`, `DropKey`, `DropMember`, which logout and revoke share.
Revoke-all, change-password and reset-password share `DeleteUserRows`,
`ReadMembers`, `DropOneKey`, `DropSet`; change-password then stores its own
session again, as the code does, without looking whether the row still exists.

Time is an age per session: `young`, `due` once `expiresAt` has passed, `old` once
the refresh token has expired too (it is signed after the row is written, with a
granularity of a second). `ExpireKey` is the TTL, `CleanUp` the daily job.

`SessionLedger` is the abstract specification: sessions are opened once for one
user, closed together with others of the same user, lapse, and are purged once
lapsed. `Ledger` in `SessionsProps` is the refinement mapping (a session is open
when it has a row).

### `UserCache`, `UserCacheProps`, `UserCacheProofs`

The row and the two entries of one user: users share nothing here. A copy is
represented by *the set of fields in which it differs from the row*, so a write
adds its field (`FieldOf`) to every copy there is, in the cache and in the hands of
handlers, and `Fetch` takes the empty set. This keeps the model finite without a
bound on the number of writes. `KeyOf` says which entry a reader uses; `Silent`
writers (verify-email, demotion job) invalidate nothing; the billing writers
invalidate the entry under the id only. `Tick` is one TTL; `left` forces an entry
to expire, `old` marks a handler that began before the last tick, and `quiet` counts
ticks (up to three) since the last write, and since a refresh gave a copy it found in
the cache a new TTL: with refreshes often enough a stale copy lives on, and the bound
on staleness counts from the last of them. A handler runs for less than a TTL and
so sees at most one tick: the one assumption of the model about speed.

### `Accounts`, `AccountsProps`, `AccountDirectory`, `AccountsProofs`

A text is a pair of a word and its spelling, so that `Lower` does what the code's
`toLowerCase` does. `EmailFree`, `NameFree` and `IdentityFree` are the UNIQUE
constraints; an insert that meets one is a 500 and ends the handler.
`Initiate` issues a state, `Exchange` and `Profile` are the two calls to a provider,
either of which may fail and which may name any address. The state is a signed
text that is valid for ten minutes, also a second time (`invited`).
`CreateAndLink` is the transaction of `createUserAndLink`.

`AccountDirectory` is the abstract specification: members join with an address
nobody has (`Open`, `OpenFor`), identities are linked once (`Link`), and later sign-ins
go where the link leads (`Enter`). It knows words and no spelling. `Directory` in
`AccountsProps` is the refinement mapping: rows are members, `social_providers`
rows are links, and inside are the callbacks that have reached their session.

### `Otp`, `OtpProps`, `OtpProofs`

One user, several requests. `purpose[c]` is the type a code was drawn for, `age[c]` the
place of its row among the unexpired ones of its type, 1 for the newest:
`FindToken` takes that one, as `findValidByUserIdAndType` does, and rows expire from
the oldest. No clock is needed for that. `GetGrant` and `DelGrant` are the two Redis
commands of `consumeResetToken`. `late` counts the mails queued while the cooldown key
of their type existed; `opened` and `resets` how often a code and a reset token were
used. `OneTimeUse` is what the documentation says of that, `CodeUsedUp` and
`TokenUsedUp` what the code keeps of it: after a use, every later lookup fails. Codes
are drawn once each: two equal draws of six digits are not what
the properties are about.

### `Avatars`, `AvatarsProps`, `AvatarsProofs`

`prefix[o]` is the user whose id begins the key of object `o`. Clients may confirm
any key that was ever drawn, their own or not. A presigned URL can be used again
until it expires, also after a delete.

### `Billing`, `BillingProps`, `BillingLedger`, `BillingProofs`, `BillingBooksProofs`

`stripe` and `events` are Stripe's side, modelled from how `src` uses it: a checkout
session that is completed or paid, renewals, failures and cancellations, each
with the events the webhook handles and the state of the subscription in their
payload. An event may be delivered at any time, repeatedly and concurrently
(`Ordered` restricts the order, and only that). `CheckProcessed`, the work, and
`RecordEvent` are separate actions because they are separate awaits; `Upsert`,
`ApplyUpdate` and `CancelRow` are the transactions. Weeks are the unit of time: a
period is two weeks, the reminder window its last, the grace period the next one.

`BillingLedger` is the abstract specification of what a webhook delivery does to a
customer's holdings and payments: every event of Stripe's log is handled once, after
all before it, in one step (`Fulfil`, `Record`, `Acknowledge`). `Ledger` in `BillingProps`
is the refinement mapping. It counts an event as handled when only the record of it
is missing (`HandledIds`), and the subscription in a customer's row as what the
customer holds.

### `Cluster`

The processes of a deployment (`Web` slots and `Queue`), each `starting`, `up` or
ended with an exit code, with a database pool and a Redis connection; and tasks,
HTTP requests or jobs, which are at work `at` a process and send queries and
commands (`Query`, `Command`, `Answered`). `Signal` is the first step of the shutdown of
a process and starts all cleanup tasks at once; `PoolDestroyed`, `QueuesClosed` and
`RedisClosed` finish in any order; `Complete` is their `Promise.all`. It waits until each is
done (`Cleaned`) or has failed (`CleanupFails`, noted in `broken`: `shutdown.ts` logs the
failure and goes on, so that the exit code is 0 all the same), and until the server is
drained (`Drained`: `server.close` and `worker.close` call back when the work is over,
however often they are called). `Timeout` is the ten-second timer of a web process,
`Respawn` the `exit` listener of the primary. `Crash` and `End` lose the tasks at work. `SignalEarly`,
`SignalPrimary` and `Orphaned` are signals where no handler is installed.
Jobs come from the scheduler (`Due`) or from handlers; `JobFails` is final.

### `Gateway`, `GatewayProps`, `GatewayProofs`

`Gateway` extends `Cluster` by what a request goes through: `Arrive` (the guard, which has no
await), `Count` (the limiter's script in Redis), `Admit` (429, the permission check, or
the handler), `Ask` and `AddMail` (what a handler does, whatever it is about), `Return`,
`Throw` (the global error handler) and `Swallow` (registration without its mail).
The handlers themselves are the other modules. `KeyOf` and `LimitOf` are the key
generators and limits of the two kinds of limiter, `Rollover` the expiry of a
counter. Every action of `Cluster` is an action of `Gateway`, so that both are checked
together.

## Runs

| Run | Instance | Shows |
|---|---|---|
| `sessions_all` | 2 users (limits 1 and 2), 2 ids, 2 requests, all handlers, expiry, cleanup, aborts | `OwnersAgree`, `ImplementsLedger`, `OnlyOwnerRemoves` |
| `sessions_rotation` | 1 user, 3 ids, 3 requests; login, refresh, logout; expiry, cleanup | `RowsCounted`, `NoGhostKey`, `StoresAgree` |
| `sessions_limit_race` | a free user, 2 logins | **violated**: `WithinLimit` |
| `user_cache_ttl` | 2 requests, all operations, aborts | `StaleAtMostTTL` (three TTLs) |
| `accounts_all` | 2 accounts, 2 addresses, 1 name in two spellings, 2 identities, 2 requests, aborts | `DistinctAccounts`, `SignedInAsLinked`, `WelcomedOnce`, `ImplementsDirectory` |
| `otp_codes` | 3 codes, 1 reset token, 2 requests, aborts, expiry | `FewCodes`, `CodeUsedUp`, `TypesApart`, `TokenUsedUp`, `CooldownKept` |
| `otp_one_time` | 1 code, 1 reset token, 2 requests, neither cut off | **violated**: `OneTimeUse` |
| `avatars_all` | 2 users, 3 objects, 2 requests, aborts | `OwnAvatar` |
| `billing_books` | 1 user, 2 subscriptions, 5 events in order and repeated, one handler or job at a time, 4 weeks | `PaymentsComplete`, `MailedOnce`, `Converges`, `ImplementsBillingLedger` |
| `billing_race` | 2 users, 1 subscription, 3 events in any order, webhook and confirm-session racing, 2 handlers, aborts; with fairness | `PremiumBacked`, `ActiveRowPremium`, `EventsProcessed` |
| `billing_grace` | a renewal that fails | **violated**: `GraceRespected` |
| `gateway_all` | 2 web processes and the queue process, 2 requests (one of which may hang), 2 jobs; six combinations of tasks, signals and faults (a fault is a crash or a cleanup task that fails); with fairness | `AdmittedWithinLimit`, `Terminates`, `Respawned`, `AllAnswered`, `JobsWorkedOff` |

Every run that passes also checks, or is joined by one that checks, the type
invariant of its module.

**Bounds.** Two concurrent handlers are what every race listed below needs, three
are used where rotation chains matter (a refresh against a login against a
logout). Two users are needed wherever a property says "of another user". Two ids
suffice for the ledger, because ids are never reused: each step concerns one
session and the sessions of one user. `MaxEvents` 5 is one subscription's life
(completed, updated, invoice, deleted) and the begin of the next; `MaxWeek` 4 lets
a period end, the grace period pass, and a reminder be due twice. Three codes
are one of each type and one that replaces another, or three of one type for two
senders, which is one more than may work; one reset token is read by two
requests. The scenarios of `gateway_all` (`Bounds`) each put some trouble beside
the tasks it disturbs: a crash among two requests, a signal against a request
and the mail it adds or against a request that may be stuck, two jobs at the same time
with a request, two signals, or a signal and a fault, against a job. `MaxWindow` 1 lets a counter expire once between
requests. Counters that would grow (`payments`, `mailed`, `welcomed`) stop at 2, which
is what "more than once" needs. Symmetry is declared on sets of model values only,
and never in the runs with liveness properties.

**Fairness.** `Billing!Fairness`: a handler that is at an await resumes (`WF` of
`Step`), and Stripe delivers an event it got no 2xx for again, at a moment a
process is free for it (`SF` of `Retry`); Stripe retries for three days. That
deliveries of an event are not cut off for ever (`CutsOff`) is a hypothesis of `EventsProcessed`
itself.
`Cluster!ProcessFairness`: some process goes on as long as one can (it boots, is
replaced, closes what it is closing, ends, its timer rings). `Cluster!JobFairness`: workers
take jobs and their calls are answered (`WF`), and a job, which calls the database
and the mailer between two ends, comes to one (`SF`, because it may go back and forth
before). `Gateway!RequestFairness` says the same of a request that is not in `Stuck`; a
handler in `Stuck` may never end, and the timer is what makes `Terminates` hold. No other
specification assumes fairness, and no safety property needs any.

## What is proved

For every number of users, sessions, accounts, objects, subscriptions, codes,
processes, jobs and concurrent requests, for every choice of operations and events, and for every
tier limit. The assumptions are the named `ASSUME`s of the modules
(`SessionsAssumption`, `UserCacheAssumption`, `AccountsAssumption`,
`AvatarsAssumption`, `BillingAssumption`, `OtpAssumption`, `ClusterAssumption`,
`GatewayAssumption`), which TLC evaluates in the runs, and `FiniteInstance` for the count of
sessions. A workload to which a theorem is limited is a hypothesis of the theorem: one on
the constants (`Ordered`, `"confirm" \notin Ops`, `"abort" \notin Events`), or one on behaviours
(`[]OneDelivery`, `[]DemotionAlone`).

* `SessionsProofs!TypeCorrect`, `OwnersCorrect`. `OwnersAgree` is inductive together with
  `TypeOK`, because it does not only relate the stores: `RequestOwners` says what a
  handler in the middle of its work believes, step by step (a handler about to
  drop a key has the right owner; logout may have none; the members read by a
  bulk removal are all of its user). Without those clauses the late cache write
  of an interleaved handler is unconstrained and the invariant is not preserved.
  `TypeStep` and `OwnersStep` go through the actions; `OtherRequests` and
  `OwnersFrame` carry over the requests a step does not touch. `Invariance` is
  the conjunction as one theorem.
* `LedgerImplemented`: under this invariant each action maps to a step of the
  ledger or to a stutter. `DeleteRow` maps to `Close` of the owner, which is why the
  invariant is needed: without it the row might be another user's.
* `RemovalsAuthorised`: the action property `OnlyOwnerRemoves`, from the same
  invariant, case by case.
* `CountComplete`: without the bulk operations and aborts (a hypothesis on `Ops` and
  `Events`), `RowsCounted` holds. The strengthening adds that a handler at
  `DropKey` or `DropMember` works on a session without a row (`Removed`), and that no
  bulk removal is under way (`NoBulk`).
* `NoGhosts`, `StoresMeet`: with logins, refreshes and logouts that are not cut off,
  `NoGhostKey` and `StoresAgree` hold. `Agreeing` adds to the count that a session has one
  request that stores it (`Lone`), that until it is done nobody holds its tokens, so
  that nobody removes it (`Created`, `Sound`), and that from then on the three copies agree
  but for a removal that is under way (`Together`).
* `UserCacheProofs!TypeCorrect` and `StalenessBounded`: no entry differs from the row once
  three TTLs have passed without a write, and without a refresh that put a cached
  copy back. The inductive invariant says that a copy in the hands of a handler is right unless
  the row was written since the last tick, or before it while the handler was running
  (`HeldCopies`), and that an entry is right unless such a handler may have filled it since
  the last tick, or it has outlived that tick and dies before the next (`StoredCopies`).

The proofs about avatars, accounts and billing have one shape. The code holds,
in a handler between two awaits, data it read from a store that others write
meanwhile. So the invariant
says *what a handler at a given step may still rely on* (`Slot` or `Known`), it is
shown to survive the steps of all others because the stores only develop in one
direction (`Grown`, `Harmless`), and each action then has to establish it for its
own slot only (`SlotStep`, `ReadStep`, `WriteStep`).

* `AvatarsProofs!OwnAvatarAlways`: `OwnAvatar` is inductive once it is known that a
  handler past its lookup has an object (`Known`). A prefix never changes once drawn, which is
  why a comparison made several awaits before the write is still good at the write.
* `AccountsProofs!AccountsStayApart` and `EverybodySignsInToTheirOwn`: rows are added
  and never deleted, links never change (`Grown`). `InsertDistinct` and
  `StoreDistinct` are where the UNIQUE constraints on the *lowered* text keep accounts
  apart; the lookups before them are of no use for that and the proof does not
  use them. The second property is the clause of `Slot` for the step `session`.
  `WelcomedAtMostOnce`: a handler that is on its way to the mail has made the account
  of that address, there is one such handler, and no account is made twice.
  `DirectoryImplemented`: under the same invariant each step is one of the directory or
  none. The guards of the directory are the constraints (`Joining`, `Renaming`, `Linking`);
  `Enter` rests on the clause of `Slot` for the step `loadUser`.
* `BillingProofs!PremiumIsPaid`: a session of Stripe's keeps its owner and remains
  paid, and a row remains (`Grown`). Checkout events tell the truth about the
  payment (`EventsOK`), rows are about paid subscriptions of their user (`RowsOK`), and
  a handler that goes to `upsert` holds a paid subscription and its owner (`Slot`),
  the webhook because it took the user from the session, confirm-session because
  it compared the owner. Deliveries are unordered, repeated and concurrent, and the
  demotion job runs.
* `BillingProofs!ActiveRowsArePremium`, under `"demotion" \notin Ops`: every transaction
  that makes a row active makes the user premium. `StepKeepsOp` shows that no
  handler turns into a demotion job, which is the only one to write the tier alone.
* `BillingBooksProofs` is about what happens *once* and *in the end*, for any number of
  handlers and jobs at the same time. Where the code relies on its environment the theorems say so:
  `OneDelivery`, two deliveries of one event do not overlap, because Stripe sends an
  event again only when the attempt before has failed; `DemotionAlone`, nothing runs
  beside the nightly demotion job; `Ordered`, events arrive in order, as Stripe mostly but not
  necessarily delivers them; no confirm-session, which may repeat what a checkout did.
  Without them the properties are false of the code (see below).
  * `RemindedOnce`, events in any order: Stripe announces a paid checkout once (`OneCheckout`),
    and what has a row has had its checkout handled (`RowBooks`), so that it never gets a
    second row with an empty mark, on which `MailBooks` rests. One reminder job runs at a
    time (the worker's `concurrency: 1`), and what is left of its list is not mailed yet
    (`ListOf`).
  * `BillingLedgerImplemented`: a handler at `CheckProcessed` that goes on works on the one
    event whose turn it is, so that its transaction, or the decision that there is nothing
    to do, is one step of the ledger and everything else is none. That needs that
    a handler at work on an event is the only one, that the event is not processed yet
    (`Unrecorded`), and that a payment stands for an event that is processed or
    just being recorded (`PaymentBooks`).
  * `InvoicesHavePayments`, with aborts: an invoice whose checkout has been
    handled, and no later one, finds the row (`Latest`). An abort takes an event
    back out of `HandledIds`, which keeps that, and never a row or a payment.
  * `TablesConverge`, with aborts: the log is numbered and tells the truth (`Log`), what is
    processed is closed downwards (`InOrder`), and `MirrorInv` says of each row that
    it is as Stripe has its subscription *or an event that says so is still awaited*,
    and the same of what a handler is about to write. When everything is
    processed nothing is awaited.
* `OtpProofs`: `CodesUsedUp` and `TokensUsedUp` say that a code or reset token that has been
  used finds no row, or no key, at any later lookup. What is stored was not used, and no
  handler is about to count a use of it (`Fresh` for rows, `Whole` for keys): who counts a
  use has deleted before, and nothing writes a row or key again. A row needs more than a key:
  a code has no row *yet* while its one sender still holds it (`Pending`).
  The bounds by the number of requests are counts. An occurrence of the bad thing and the
  requests that may still cause one are counted together, and the sum never exceeds
  `AtOnce`: rows and those about to insert (`RowsCounted`), late mails and senders past the
  check (`Cooling`). A request joins the second summand only while the first is 0, because
  the rows were deleted, or the cooldown is not yet there. `Counts`, `Shrinks` and `Leaves` are
  the facts about cardinalities.
* `GatewayProofs!LimitsHold`: the hits of one counter in one window are distinct numbers
  (`Distinct`) up to its count (`Bounded`), so that those within the limit are at most as
  many; a process that dies takes none of them along.

Every safety property that a run passes, invariant, action property or refinement, is a
theorem. Only model-checked are the liveness properties, since `ENABLED` and fairness
are out of the prover's reach: `EventsProcessed`, `Terminates`, `Respawned`, `AllAnswered` and
`JobsWorkedOff`. The proofs use no `RECURSIVE` operator.

## Where the code falls short

Four checked disagreements between what is written and what happens, in three runs:

1. **Tier limit** (`sessions_limit_race`). The count, the insert and the SADD of a
   login are separate awaits; two logins of a free user that count first are
   both let in, while `tier-enforcement.service.ts:22` says it "Throws
   ForbiddenError if the user has reached their tier's max session limit".
2. **Grace period** (`billing_grace`). `handleSubscriptionUpdated` writes the free
   tier for every status that is not active or trialing, and so demotes as soon
   as a renewal fails; `PAYMENT_SUBSCRIPTION_DESIGN.md:70` promises up to 7 days
   after `currentPeriodEnd` with "No demotion yet."
3. **Single-use reset tokens** (`otp_one_time`). `consumeResetToken` is a GET and a DEL
   whose result is not looked at. Two requests that read before either deletes both
   set their password with one token, which `README.md:58` calls a "10-min single-use reset token"
   (so do `redis.client.ts:108` and `reset-password.service.ts:15`).
4. **One-time codes** (the same run). Two requests that find the row of a code before either
   deletes it both get a reset token; `DATABASE_CLEANUP.md:20` says
   "**Verification tokens**: One-time use".

The properties above are stated for the workloads in which the code keeps them.
Outside those, the model reaches these states, each found by widening one
constant of a run (the hazards of `PROJECT.json` give the lines):

* *Sessions.* Two refreshes with one token create two sessions. Ids of expired
  sessions stay counted in the Redis set until a bulk removal, so that a user
  without a session can be refused (`session-cache.ts:53`: "May overcount by expired
  sessions"). Change-password writes back the key of a session that was revoked
  meanwhile, and a login that overlaps a bulk removal keeps a key without a row;
  refresh, which trusts the key, then revives it under a new id. A bulk removal
  that overlaps a login drops the set and leaves the new session uncounted.
* *User cache.* With refresh, which caches again what it found in the cache, a stale
  copy can live for ever. `user-cache.ts:63` says "Call after any user mutation"; verify-email
  and the demotion job do not, and the billing handlers leave the entry under the email.
* *Codes.* Concurrent senders leave as many rows as they are. The transaction after the
  `DEL` of a reset token does not give it back when it fails.
* *Avatars.* A confirm between the lookup and the update of a delete is undone.
* *Billing.* `invoice.paid` before `checkout.session.completed` is acknowledged and
  lost. Updates out of order leave the older state. A delivery of an invoice
  that fails between `paymentRepo.create` (`handle-stripe-webhook.service.ts:253`) and the
  insert of the event id (`:103`) and is sent again, or that overlaps another, records the
  payment twice: nothing is UNIQUE about `stripeInvoiceId`, although
  `PAYMENT_SUBSCRIPTION_DESIGN.md:56` counts on idempotency. No property says "once" of
  payments: the workloads in which it would hold leave out exactly these two cases. Two open checkouts give two subscriptions and one
  row. A repeated confirm-session writes an old period and clears the reminder
  mark, and the update of a renewal does not clear it. A job that dies between
  mail and mark mails again. The demotion job demotes a user who paid after its
  query (`subscription-demotion.processor.ts:22`); that it demotes nobody else is no
  property either, because it holds by construction when nothing runs beside the job.
* *Processes.* Requests that drain after the pool is destroyed are answered with
  500. A cleanup task that fails counts as done, so that a process can exit
  with 0 and its pool or Redis connection open, the queue process also with jobs at
  work. The primary has no signal handler, and its loss ends the web processes. The
  queue process is not replaced. The limiters keep the
  connection they got at start, so that, when Redis is away, their routes
  answer 500; `rate-limit.middleware.ts:36` says "Uses Redis store when available,
  otherwise memory". A job that fails is not tried again, while the cooldown of its code runs.

## Not modelled

Security headers, CORS and request ids (stateless); argon2 and JWT signatures
(their answers are taken); request validation beyond the case of names and
addresses; the shape of responses and errors; logging, dependency injection and
configuration; migrations as programs (their constraints are modelled where
handlers meet them); OpenAPI. The nonce in an OAuth state is not looked at by the
code. `pruneProcessedEvents` of the cleanup job only deletes ids Stripe has long
stopped sending. Endpoints that only read (list sessions, status, read URL)
change nothing. What a mail says, and whether the provider accepts it, is
outside: a mail job is done or has failed. Redis is one sequential store that
loses entries by TTL only; eviction is not modelled.

## Plan

Done: every component that keeps state has its model, its properties and proofs.

What would add most from here:

1. **Composition.** One module in which change and reset password run over
   `Sessions`, `UserCache` and `Otp` together: after a reset no session and no cached
   hash from before it can be used for longer than a TTL.
2. **More abstract specifications**: a register with bounded staleness for `UserCache`,
   and a fixed-window counter for the limiters of `Gateway`.
3. **Weaker hypotheses**: how often a payment can be recorded, and what remains of
   `RemindedOnce` with confirm-session, counted by the handlers that were cut off, repeated
   or overlapped.
