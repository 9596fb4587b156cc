------------------------------ MODULE Billing ------------------------------
(***************************************************************************)
(* Subscriptions: Stripe's side of them, the webhook and confirm-session   *)
(* handlers that copy it into the tables subscriptions, payments,          *)
(* processed_stripe_events and users.tierId, checkout creation, and the    *)
(* daily reminder and demotion jobs.  Handlers interleave between their    *)
(* awaits.  Stripe delivers each event at least once: at any time, more    *)
(* than once, concurrently, and in any order unless Ordered.               *)
(*                                                                         *)
(* Time is counted in weeks, and a billing period is two of them: the      *)
(* reminder window is its last week, the grace period the week after it.   *)
(***************************************************************************)
EXTENDS Naturals, FiniteSets

CONSTANTS
    Users, Subs,    \* users; Stripe subscriptions, one per checkout session
    Requests,       \* slots for concurrently executing handlers and jobs
    Ops,            \* the handlers and jobs of this instance
    Events,         \* "abort": a handler may end between two awaits
    Changes,        \* what may become of a subscription after its payment
    Ordered,        \* TRUE: events are delivered in the order they occurred
    MaxEvents,      \* bound: Stripe emits at most so many events
    MaxWeek,        \* bound: the clock stops here
    NoUser, NoSub

AllOps == {"checkout", "webhook", "confirm", "reminder", "demotion"}

ASSUME BillingAssumption ==
    /\ NoUser \notin Users /\ NoSub \notin Subs
    /\ Ops \subseteq AllOps /\ Events \subseteq {"abort"}
    /\ Changes \subseteq {"fails", "renews", "canceled"}
    /\ Ordered \in BOOLEAN
    /\ MaxEvents \in Nat /\ MaxWeek \in Nat

VARIABLES
    stripe,     \* Stripe: owner, status, end of the paid period of each subscription
    events,     \* Stripe: every event it emitted
    row,        \* row[u]: the subscriptions row of u; it is never deleted
    tier,       \* tier[u]: users.tierId
    payments,   \* payments[i]: payments rows for the invoice of event i; 2: two or more
    processed,  \* ids in processed_stripe_events
    mailed,     \* mailed[x][w]: reminders sent that x renews in week w; 2: two or more
    week,       \* the clock
    req         \* req[r]: the handler slot r executes

outside == <<stripe, events, week>>
tables == <<row, tier, payments, processed>>
vars == <<stripe, events, row, tier, payments, processed, mailed, week, req>>

EventIds == 1..MaxEvents
Month == 2
Weeks == 0..(MaxWeek + Month)
Statuses == {"active", "past_due", "canceled"}

\* Counters that need not tell apart more than none, one and several.
Tally == 0..2
OneMore(n) == IF n = 2 THEN 2 ELSE n + 1

EventTypes == {"checkout", "updated", "deleted", "invoice"}

\* A status in an event: that of the subscription, or of the checkout's payment.
Event == [id: EventIds, type: EventTypes, x: Subs,
          status: Statuses \cup {"paid", "unpaid"}, ends: Weeks]

Row == [x: Subs \cup {NoSub}, status: Statuses \cup {"none"}, ends: Weeks, reminded: BOOLEAN]

NoRow == [x |-> NoSub, status |-> "none", ends |-> 0, reminded |-> FALSE]

Steps == {"idle", "readTier", "readRow", "openSession",
          "check", "findSub", "findUser", "retrieve", "upsert", "refetch", "apply", "cancel",
          "pay", "record", "readSession", "findDue", "send", "mark", "demote"}

\* ev, x: the event and the subscription it is about; u: the user found so far;
\* status, ends: the copy of Stripe's data held; todo: what a job still has to do.
Request == [op: AllOps \cup {"none"}, pc: Steps, ev: 0..MaxEvents, type: EventTypes \cup {"none"},
            u: Users \cup {NoUser}, x: Subs \cup {NoSub},
            status: Statuses \cup {"paid", "unpaid", "none"}, ends: Weeks,
            hadRow: BOOLEAN, todo: SUBSET (Users \X Subs \X Weeks)]

Idle == [op |-> "none", pc |-> "idle", ev |-> 0, type |-> "none", u |-> NoUser, x |-> NoSub,
         status |-> "none", ends |-> 0, hadRow |-> FALSE, todo |-> {}]

TypeOK ==
    /\ stripe \in [Subs -> [owner: Users \cup {NoUser},
                            status: {"none", "offered"} \cup Statuses, ends: Weeks]]
    /\ events \subseteq Event
    /\ row \in [Users -> Row]
    /\ tier \in [Users -> {"free", "premium"}]
    /\ payments \in [EventIds -> Tally]
    /\ processed \subseteq EventIds
    /\ mailed \in [Subs -> [Weeks -> Tally]]
    /\ week \in 0..MaxWeek
    /\ req \in [Requests -> Request]

Init ==
    /\ stripe = [x \in Subs |-> [owner |-> NoUser, status |-> "none", ends |-> 0]]
    /\ events = {}
    /\ row = [u \in Users |-> NoRow]
    /\ tier = [u \in Users |-> "free"]
    /\ payments = [i \in EventIds |-> 0]
    /\ processed = {}
    /\ mailed = [x \in Subs |-> [w \in Weeks |-> 0]]
    /\ week = 0
    /\ req = [r \in Requests |-> Idle]

-----------------------------------------------------------------------------
\* Stripe, as the handlers see it.

Paid(x) == stripe[x].status \in Statuses

\* Stripe emits events: one record per pair of type and status in ts.
Emit(x, ends, ts) ==
    LET n == Cardinality(events)
    IN  /\ n + Cardinality(ts) <= MaxEvents
        /\ \E order \in [1..Cardinality(ts) -> ts] :
            /\ \A t \in ts : \E i \in DOMAIN order : order[i] = t
            /\ events' = events \cup
                {[id |-> n + i, type |-> order[i][1], x |-> x,
                  status |-> order[i][2], ends |-> ends] : i \in DOMAIN order}

\* The subscription of x has a new status and is paid until the given week.
Turn(x, status, ends) ==
    stripe' = [stripe EXCEPT ![x] = [owner |-> stripe[x].owner, status |-> status, ends |-> ends]]

Quiet == UNCHANGED <<row, tier, payments, processed, mailed, week, req>>

\* The checkout of a session completes before an asynchronous payment arrives.
CompleteUnpaid(x) ==
    /\ "fails" \in Changes
    /\ stripe[x].status = "offered"
    /\ ~ \E e \in events : e.x = x
    /\ Emit(x, week, {<<"checkout", "unpaid">>})
    /\ UNCHANGED stripe
    /\ Quiet

\* The customer pays the session: subscription, first invoice.
Pay(x) ==
    /\ stripe[x].status = "offered"
    /\ Turn(x, "active", week + Month)
    /\ Emit(x, week + Month, {<<"checkout", "paid">>, <<"invoice", "paid">>})
    /\ Quiet

\* A period is over and its renewal paid, possibly after failures.
Renew(x) ==
    /\ "renews" \in Changes
    /\ stripe[x].status \in {"active", "past_due"}
    /\ stripe[x].ends <= week
    /\ Turn(x, "active", stripe[x].ends + Month)
    /\ Emit(x, stripe[x].ends + Month, {<<"updated", "active">>, <<"invoice", "paid">>})
    /\ Quiet

FailRenewal(x) ==
    /\ "fails" \in Changes
    /\ stripe[x].status = "active"
    /\ stripe[x].ends <= week
    /\ Turn(x, "past_due", stripe[x].ends)
    /\ Emit(x, stripe[x].ends, {<<"updated", "past_due">>})
    /\ Quiet

CancelAtStripe(x) ==
    /\ "canceled" \in Changes
    /\ stripe[x].status \in {"active", "past_due"}
    /\ Turn(x, "canceled", stripe[x].ends)
    /\ Emit(x, stripe[x].ends, {<<"deleted", "canceled">>})
    /\ Quiet

\* A week passes; no handler and no job runs that long.
Tick ==
    /\ week < MaxWeek
    /\ \A r \in Requests : req[r] = Idle
    /\ week' = week + 1
    /\ UNCHANGED <<stripe, events, row, tier, payments, processed, mailed, req>>

-----------------------------------------------------------------------------
\* Control of one handler.

Start(r, q) == /\ q.op \in Ops
               /\ req[r] = Idle
               /\ req' = [req EXCEPT ![r] = q]
               /\ UNCHANGED <<stripe, events, week, tables, mailed>>

At(r, pc) == req[r].pc = pc

Goto(r, pc) == req' = [req EXCEPT ![r] = [@ EXCEPT !.pc = pc]]

Return(r) == req' = [req EXCEPT ![r] = Idle]

ReadOnly == UNCHANGED <<stripe, events, week, tables, mailed>>

-----------------------------------------------------------------------------
\* POST /subscriptions/checkout.

StartCheckout(r, u) ==
    Start(r, [Idle EXCEPT !.op = "checkout", !.pc = "readTier", !.u = u])

\* A premium user is refused ...
ReadTier(r) ==
    /\ At(r, "readTier")
    /\ IF tier[req[r].u] = "premium" THEN Return(r) ELSE Goto(r, "readRow")
    /\ ReadOnly

\* ... and so is one whose row is active.
ReadRow(r) ==
    /\ At(r, "readRow")
    /\ IF row[req[r].u].status = "active" THEN Return(r) ELSE Goto(r, "openSession")
    /\ ReadOnly

\* checkout.sessions.create: a session that leads to a new subscription, or an
\* error (also when Subs, the bound, is used up).
OpenSession(r) ==
    /\ At(r, "openSession")
    /\ \/ \E x \in Subs :
            /\ stripe[x].status = "none"
            /\ stripe' = [stripe EXCEPT ![x].owner = req[r].u, ![x].status = "offered"]
       \/ UNCHANGED stripe
    /\ Return(r)
    /\ UNCHANGED <<events, week, tables, mailed>>

-----------------------------------------------------------------------------
\* POST /webhooks/stripe.

\* Stripe calls with event e, signed; the payload travels with the request.
Deliver(r, e) ==
    /\ Ordered => \A d \in events : d.id < e.id => d.id \in processed
    /\ Start(r, [Idle EXCEPT !.op = "webhook", !.pc = "check", !.ev = e.id, !.type = e.type,
                             !.x = e.x, !.status = e.status, !.ends = e.ends])

\* Faulty: the event is not looked up.
FaultyCheckProcessed(r) ==
    /\ At(r, "check")
    /\ Goto(r, "findSub")
    /\ ReadOnly

\* processedEventRepo.exists; an unpaid checkout ends the handler at once.
CheckProcessed(r) ==
    /\ At(r, "check")
    /\ IF req[r].ev \in processed THEN Return(r)
       ELSE IF req[r].type = "checkout" /\ req[r].status = "unpaid" THEN Goto(r, "record")
       ELSE Goto(r, "findSub")
    /\ ReadOnly

\* Faulty: only a subscription in good standing is found.
FaultyHolders(x) == {u \in Users : row[u].x = x /\ row[u].status = "active"}

\* findByStripeSubscriptionId: whose row stands for subscription x?
Holders(x) == {u \in Users : row[u].x = x}

\* A checkout goes on when there is no row of its subscription, every other event
\* when there is one; if not, the event counts as processed.
FindSub(r) ==
    /\ At(r, "findSub")
    /\ LET holders == Holders(req[r].x)
           found == holders # {}
       IN  IF req[r].type = "checkout"
           THEN Goto(r, IF found THEN "record" ELSE "findUser")
           ELSE IF ~ found THEN Goto(r, "record")
           ELSE \E u \in holders, pc \in {"refetch", "apply", "cancel", "pay"} :
                    /\ req[r].type = "updated" <=> pc \in {"refetch", "apply"}
                    /\ req[r].type = "deleted" <=> pc = "cancel"
                    /\ req' = [req EXCEPT ![r] = [@ EXCEPT !.pc = pc, !.u = u]]
    /\ ReadOnly

\* Is there a row of the user already?  A webhook asks for the checkout's
\* client_reference_id before it calls Stripe, confirm-session for the caller
\* after that, inside its transaction.
FindUser(r) ==
    /\ At(r, "findUser")
    /\ LET webhook == req[r].op = "webhook"
           u == IF webhook THEN stripe[req[r].x].owner ELSE req[r].u
           next == IF webhook THEN "retrieve" ELSE "upsert"
       IN  req' = [req EXCEPT ![r] = [@ EXCEPT !.pc = next, !.u = u,
                                                       !.hadRow = (row[u] # NoRow)]]
    /\ ReadOnly

\* subscriptions.retrieve: the subscription as it is now.
Retrieve(r) ==
    /\ At(r, "retrieve") \/ At(r, "refetch")
    /\ LET now == stripe[req[r].x]
           next == IF At(r, "refetch") THEN "apply"
                   ELSE IF req[r].op = "webhook" THEN "upsert" ELSE "findUser"
       IN  req' = [req EXCEPT ![r] = [@ EXCEPT !.pc = next, !.status = now.status,
                                                       !.ends = now.ends]]
    /\ ReadOnly

\* The row that checkout and confirm-session write, and the tier with it.
Fulfill(u, x, status, ends) ==
    /\ row' = [row EXCEPT ![u] = [x |-> x, status |-> status, ends |-> ends,
                                  reminded |-> FALSE]]
    /\ tier' = [tier EXCEPT ![u] = IF status = "active" THEN "premium" ELSE @]

\* The transaction of checkout and confirm-session commits.  It inserts if no row
\* was found, so that one written meanwhile makes it fail on UNIQUE("userId").
Upsert(r) ==
    /\ At(r, "upsert")
    /\ LET q == req[r]
       IN  IF ~ q.hadRow /\ row[q.u] # NoRow
           THEN Return(r) /\ UNCHANGED <<row, tier>>
           ELSE /\ Fulfill(q.u, q.x, q.status, q.ends)
                /\ IF q.op = "webhook" THEN Goto(r, "record") ELSE Return(r)
    /\ UNCHANGED <<stripe, events, week, payments, processed, mailed>>

\* The transaction of customer.subscription.updated: by row id, whatever Stripe
\* subscription the row stands for by now; any status but active is free.
ApplyUpdate(r) ==
    /\ At(r, "apply")
    /\ row' = [row EXCEPT ![req[r].u].status = req[r].status, ![req[r].u].ends = req[r].ends]
    /\ tier' = [tier EXCEPT ![req[r].u] = IF req[r].status = "active" THEN "premium" ELSE "free"]
    /\ Goto(r, "record")
    /\ UNCHANGED <<stripe, events, week, payments, processed, mailed>>

\* Faulty: the tier is left to the demotion job.
FaultyCancelRow(r) ==
    /\ At(r, "cancel")
    /\ row' = [row EXCEPT ![req[r].u].status = "canceled"]
    /\ Goto(r, "record")
    /\ UNCHANGED <<stripe, events, week, tier, payments, processed, mailed>>

\* Faulty: the row is left to a later event.
HalfCancelRow(r) ==
    /\ At(r, "cancel")
    /\ tier' = [tier EXCEPT ![req[r].u] = "free"]
    /\ Goto(r, "record")
    /\ UNCHANGED <<stripe, events, week, row, payments, processed, mailed>>

\* Faulty: there is nothing to do for a row that is canceled, and the handler returns.
ForgetfulCancelRow(r) ==
    /\ At(r, "cancel")
    /\ row' = [row EXCEPT ![req[r].u].status = "canceled"]
    /\ tier' = [tier EXCEPT ![req[r].u] = "free"]
    /\ IF row[req[r].u].status = "canceled" THEN Return(r) ELSE Goto(r, "record")
    /\ UNCHANGED <<stripe, events, week, payments, processed, mailed>>

\* The transaction of customer.subscription.deleted.
CancelRow(r) ==
    /\ At(r, "cancel")
    /\ row' = [row EXCEPT ![req[r].u].status = "canceled"]
    /\ tier' = [tier EXCEPT ![req[r].u] = "free"]
    /\ Goto(r, "record")
    /\ UNCHANGED <<stripe, events, week, payments, processed, mailed>>

\* paymentRepo.create; no constraint makes the invoice unique.
RecordPayment(r) ==
    /\ At(r, "pay")
    /\ payments' = [payments EXCEPT ![req[r].ev] = OneMore(@)]
    /\ Goto(r, "record")
    /\ UNCHANGED <<stripe, events, week, row, tier, processed, mailed>>

\* processedEventRepo.insert, which fails when another delivery was faster.
RecordEvent(r) ==
    /\ At(r, "record")
    /\ processed' = processed \cup {req[r].ev}
    /\ Return(r)
    /\ UNCHANGED <<stripe, events, week, row, tier, payments, mailed>>

-----------------------------------------------------------------------------
\* POST /subscriptions/confirm-session, with the session of x.

StartConfirm(r, u, x) ==
    /\ stripe[x].status # "none"
    /\ Start(r, [Idle EXCEPT !.op = "confirm", !.pc = "readSession", !.u = u, !.x = x])

\* Faulty: whose session it is does not matter.
FaultyReadSession(r) ==
    /\ At(r, "readSession")
    /\ IF Paid(req[r].x) THEN Goto(r, "retrieve") ELSE Return(r)
    /\ ReadOnly

\* checkout.sessions.retrieve: paid, and the caller's own.
ReadSession(r) ==
    /\ At(r, "readSession")
    /\ IF Paid(req[r].x) /\ stripe[req[r].x].owner = req[r].u
       THEN Goto(r, "retrieve") ELSE Return(r)
    /\ ReadOnly

-----------------------------------------------------------------------------
\* The daily jobs; a queue runs one job at a time.

StartJob(r, op) ==
    /\ op \in {"reminder", "demotion"}
    /\ \A q \in Requests : req[q].op # op
    /\ Start(r, [Idle EXCEPT !.op = op, !.pc = "findDue"])

\* currentPeriodEnd within the next week, no reminder marked.
DueForReminder(u) ==
    /\ row[u].status = "active" /\ ~ row[u].reminded
    /\ week < row[u].ends /\ row[u].ends <= week + 1

\* currentPeriodEnd more than a week ago, not renewed.
DueForDemotion(u) ==
    /\ row[u].status \in {"canceled", "past_due"}
    /\ row[u].ends + 1 < week

FindDue(r) ==
    /\ At(r, "findDue")
    /\ LET reminding == req[r].op = "reminder"
           due == {u \in Users : IF reminding THEN DueForReminder(u) ELSE DueForDemotion(u)}
       IN  IF due = {} THEN Return(r)
           ELSE req' = [req EXCEPT ![r] = [@ EXCEPT
                            !.pc = IF reminding THEN "send" ELSE "demote",
                            !.todo = {<<u, row[u].x, row[u].ends>> : u \in due}]]
    /\ ReadOnly

\* Work on one entry d is done: on to the next, or the job ends.
Finish(r, d, pc) ==
    IF req[r].todo = {d} THEN Return(r)
    ELSE req' = [req EXCEPT ![r] = [@ EXCEPT !.pc = pc, !.todo = req[r].todo \ {d}, !.u = NoUser]]

\* The mail goes out, to a user whose data may have changed since the query.
SendReminder(r) ==
    /\ At(r, "send")
    /\ \E d \in req[r].todo :
        /\ mailed' = [mailed EXCEPT ![d[2]][d[3]] = OneMore(@)]
        /\ req' = [req EXCEPT ![r] = [@ EXCEPT !.pc = "mark", !.u = d[1]]]
    /\ UNCHANGED <<stripe, events, week, tables>>

\* Faulty: the mail goes out and nothing is marked.
FaultyMarkReminded(r) ==
    /\ At(r, "mark")
    /\ \E d \in req[r].todo : d[1] = req[r].u /\ Finish(r, d, "send")
    /\ ReadOnly

\* Then the row is marked, by its id.
MarkReminded(r) ==
    /\ At(r, "mark")
    /\ row' = [row EXCEPT ![req[r].u].reminded = TRUE]
    /\ \E d \in req[r].todo : d[1] = req[r].u /\ Finish(r, d, "send")
    /\ UNCHANGED <<stripe, events, week, tier, payments, processed, mailed>>

\* userRepo.update for each subscription found, without looking again.
Demote(r) ==
    /\ At(r, "demote")
    /\ \E d \in req[r].todo :
        /\ tier' = [tier EXCEPT ![d[1]] = "free"]
        /\ Finish(r, d, "demote")
    /\ UNCHANGED <<stripe, events, week, row, payments, processed, mailed>>

-----------------------------------------------------------------------------
\* An await rejects, an invalidation fails or the process dies.
Abort(r) ==
    /\ "abort" \in Events
    /\ req[r] # Idle
    /\ Return(r)
    /\ ReadOnly

Step(r) ==
    \/ ReadTier(r) \/ ReadRow(r) \/ OpenSession(r)
    \/ CheckProcessed(r) \/ FindSub(r) \/ FindUser(r) \/ Retrieve(r) \/ Upsert(r)
    \/ ApplyUpdate(r) \/ CancelRow(r) \/ RecordPayment(r) \/ RecordEvent(r)
    \/ ReadSession(r)
    \/ FindDue(r) \/ SendReminder(r) \/ MarkReminded(r) \/ Demote(r)

Arrive(r) ==
    \/ \E u \in Users : StartCheckout(r, u)
    \/ \E e \in events : Deliver(r, e)
    \/ \E u \in Users, x \in Subs : StartConfirm(r, u, x)
    \/ \E op \in {"reminder", "demotion"} : StartJob(r, op)

AtStripe ==
    \E x \in Subs : CompleteUnpaid(x) \/ Pay(x) \/ Renew(x) \/ FailRenewal(x) \/ CancelAtStripe(x)

Next ==
    \/ \E r \in Requests : Arrive(r) \/ Step(r) \/ Abort(r)
    \/ AtStripe
    \/ Tick

Spec == Init /\ [][Next]_vars

(***************************************************************************)
(* Fairness: handlers resume when their awaits resolve, and Stripe sends   *)
(* an event again until it is acknowledged, however busy the server is.    *)
(***************************************************************************)
Retry(i) == \E r \in Requests, e \in events :
                e.id = i /\ i \notin processed /\ Deliver(r, e)

Fairness == /\ \A r \in Requests : WF_vars(Step(r))
            /\ \A i \in EventIds : SF_vars(Retry(i))

FairSpec == Spec /\ Fairness
=============================================================================
