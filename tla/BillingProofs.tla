--------------------------- MODULE BillingProofs ---------------------------
(***************************************************************************)
(* Premium is paid for, for any number of users, subscriptions, handlers   *)
(* and events, delivered in any order and cut off anywhere.                *)
(***************************************************************************)
EXTENDS BillingProps, FiniteSetTheorems, TLAPS

\* Paid, of the subscriptions as they stand in st.
PaidIn(st, x) == st[x].status \in Statuses

\* What a handler that is about to take step q.pc may rely on, given Stripe's
\* subscriptions and the rows.
Slot(q, st, rows) ==
    /\ q \in Request
    /\ q.pc \in {"readTier", "readRow", "openSession", "mark"} => q.u \in Users
    /\ q.pc \in {"check", "findSub"} =>
        /\ q.op = "webhook" /\ q.x \in Subs
        /\ q.type = "checkout" => PaidIn(st, q.x) \/ (q.pc = "check" /\ q.status = "unpaid")
        /\ q.type = "updated" => q.status \in Statuses
    /\ q.pc \in {"check", "findSub", "pay", "record"} => q.ev \in EventIds
    /\ q.pc \in {"refetch", "apply", "cancel", "pay"} =>
        q.op = "webhook" /\ q.ev \in EventIds /\ q.u \in Users /\ rows[q.u].x \in Subs
    /\ q.pc = "refetch" => q.x \in Subs /\ PaidIn(st, q.x)
    /\ q.pc \in {"apply", "upsert"} \/ (q.pc = "findUser" /\ q.op = "confirm") =>
        q.status \in Statuses
    /\ q.pc \in {"findUser", "retrieve", "upsert"} =>
        /\ q.op \in {"webhook", "confirm"}
        /\ q.op = "webhook" => q.ev \in EventIds
        /\ q.x \in Subs /\ PaidIn(st, q.x)
        /\ q.pc # "findUser" \/ q.op = "confirm" => q.u = st[q.x].owner
    /\ q.pc = "readSession" => q.op = "confirm" /\ q.x \in Subs
    /\ q.pc = "findDue" => q.op \in {"reminder", "demotion"}
    /\ q.pc = "demote" => q.op = "demotion"

\* A session that was opened has an owner.
StripeOK ==
    /\ stripe \in [Subs -> [owner: Users \cup {NoUser},
                            status: {"none", "offered"} \cup Statuses, ends: Weeks]]
    /\ \A x \in Subs : stripe[x].status # "none" => stripe[x].owner \in Users

\* A checkout event says truly whether it was paid.
EventsOK ==
    /\ events \subseteq Event /\ IsFiniteSet(events)
    /\ \A e \in events :
        /\ e.type = "checkout" => PaidIn(stripe, e.x) \/ e.status = "unpaid"
        /\ e.type = "updated" => e.status \in Statuses

\* A row stands for a paid subscription of its user, and only users with a row
\* are premium.
RowsOK ==
    /\ row \in [Users -> Row] /\ tier \in [Users -> {"free", "premium"}]
    /\ \A u \in Users :
        /\ row[u].x # NoSub => PaidIn(stripe, row[u].x) /\ stripe[row[u].x].owner = u
        /\ row[u].status # "none" \/ tier[u] = "premium" => row[u].x # NoSub

CountsOK ==
    /\ payments \in [EventIds -> Tally]
    /\ processed \subseteq EventIds
    /\ mailed \in [Subs -> [Weeks -> Tally]]
    /\ week \in 0..MaxWeek

Data == StripeOK /\ EventsOK /\ RowsOK /\ CountsOK

Inv ==
    /\ Data /\ req \in [Requests -> Request]
    /\ \A r \in Requests : Slot(req[r], stripe, row)

Becomes(r, q) == req' = [req EXCEPT ![r] = q]

\* Sessions keep their owner and remain paid, and rows remain.
Grown ==
    /\ \A x \in Subs : stripe[x].status # "none" => stripe'[x].owner = stripe[x].owner
    /\ \A x \in Subs : PaidIn(stripe, x) => PaidIn(stripe', x)
    /\ \A u \in Users : row[u].x \in Subs => row'[u].x \in Subs

-----------------------------------------------------------------------------
\* What the assumption on the constants says of weeks and events.
LEMMA Constants ==
    /\ MaxEvents \in Nat /\ MaxWeek \in Nat
    /\ \A w \in 0..MaxWeek : w \in Weeks /\ w + Month \in Weeks
    /\ 0 \in Weeks /\ NoUser \notin Users /\ NoSub \notin Subs
  BY BillingAssumption DEF Weeks, Month

\* An idle slot relies on nothing.
LEMMA IdleSlot == ASSUME NEW st, NEW rows PROVE Slot(Idle, st, rows)
  BY Constants DEF Slot, Idle, Request, Steps

\* What a handler relies on outlives the steps of others.
LEMMA SlotKept ==
    ASSUME NEW q, Slot(q, stripe, row), Grown PROVE Slot(q, stripe', row')
<1>1. \A x \in Subs : PaidIn(stripe, x) =>
        PaidIn(stripe', x) /\ stripe'[x].owner = stripe[x].owner
  BY DEF Grown, PaidIn, Statuses
<1> QED
  BY <1>1 DEF Slot, Grown

\* A step of handler r keeps the invariant if it leaves its own slot and the data in
\* order.
LEMMA SlotStep ==
    ASSUME Inv, NEW r \in Requests, NEW q, Becomes(r, q), Slot(q, stripe', row'),
           Data', Grown
    PROVE  Inv'
<1>1. req \in [Requests -> Request] /\ q \in Request
  BY DEF Inv, Slot
<1>2. req' \in [Requests -> Request] /\ req'[r] = q
  BY <1>1 DEF Becomes
<1>3. \A s \in Requests \ {r} : req'[s] = req[s]
  BY <1>1 DEF Becomes
<1>4. \A s \in Requests : Slot(req'[s], stripe', row')
  <2> SUFFICES ASSUME NEW s \in Requests PROVE Slot(req'[s], stripe', row')
    OBVIOUS
  <2>1. CASE s = r
    BY <1>2, <2>1
  <2>2. CASE s # r
    <3>1. Slot(req[s], stripe, row)
      BY DEF Inv
    <3> QED
      BY <1>3, <2>2, <3>1, SlotKept
  <2> QED
    BY <2>1, <2>2
<1> QED
  BY <1>2, <1>4 DEF Inv

\* With the data unchanged only the slot has to be looked at.
LEMMA ReadStep ==
    ASSUME Inv, NEW r \in Requests, NEW q, Becomes(r, q), ReadOnly, Slot(q, stripe, row)
    PROVE  Inv'
<1>1. /\ stripe' = stripe /\ events' = events /\ week' = week /\ row' = row /\ tier' = tier
      /\ payments' = payments /\ processed' = processed /\ mailed' = mailed
  BY DEF ReadOnly, tables
<1>2. Data'
  BY <1>1 DEF Inv, Data, StripeOK, EventsOK, RowsOK, CountsOK, PaidIn
<1>3. Grown
  BY <1>1 DEF Grown
<1> QED
  BY <1>1, <1>2, <1>3, SlotStep

\* The empty tables satisfy the invariant.
LEMMA InitInv == Init => Inv
<1> SUFFICES ASSUME Init PROVE Inv
  OBVIOUS
<1>1. Idle \in Request /\ \A r \in Requests : req[r] = Idle
  BY IdleSlot DEF Init, Slot
<1>2. StripeOK /\ CountsOK
  BY Constants DEF Init, StripeOK, CountsOK, Tally, Statuses
<1>3. EventsOK
  BY FS_EmptySet DEF Init, EventsOK
<1>4. RowsOK
  BY Constants DEF Init, RowsOK, NoRow, Row
<1>5. req \in [Requests -> Request] /\ \A r \in Requests : Slot(req[r], stripe, row)
  BY <1>1, IdleSlot DEF Init
<1> QED
  BY <1>2, <1>3, <1>4, <1>5 DEF Inv, Data

-----------------------------------------------------------------------------
\* What Stripe emits is a finite number of events of the given types.
LEMMA Emitted ==
    ASSUME EventsOK, NEW x \in Subs, NEW ends \in Weeks,
           NEW ts \in SUBSET (EventTypes \X (Statuses \cup {"paid", "unpaid"})),
           IsFiniteSet(ts), Emit(x, ends, ts)
    PROVE  /\ events' \subseteq Event /\ IsFiniteSet(events')
           /\ \A e \in events' \ events : e.x = x /\ <<e.type, e.status>> \in ts
<1> DEFINE n == Cardinality(events)
           m == Cardinality(ts)
<1>1. n \in Nat /\ m \in Nat
  BY FS_CardinalityType DEF EventsOK
<1>2. PICK order \in [1..m -> ts] :
        events' = events \cup {[id |-> n + i, type |-> order[i][1], x |-> x,
                                status |-> order[i][2], ends |-> ends] : i \in DOMAIN order}
  BY DEF Emit
<1>3. n + m <= MaxEvents
  BY DEF Emit
<1> HIDE DEF n, m
<1> DEFINE record(i) == [id |-> n + i, type |-> order[i][1], x |-> x,
                         status |-> order[i][2], ends |-> ends]
           new == {record(i) : i \in 1..m}
<1>4. events' = events \cup new
  BY <1>2
<1>5. \A i \in 1..m : record(i) \in Event /\ record(i).x = x
                      /\ <<record(i).type, record(i).status>> \in ts
  <2> SUFFICES ASSUME NEW i \in 1..m
               PROVE  record(i) \in Event /\ record(i).x = x
                      /\ <<record(i).type, record(i).status>> \in ts
    OBVIOUS
  <2>1. order[i] \in ts /\ order[i] = <<order[i][1], order[i][2]>>
        /\ order[i][1] \in EventTypes /\ order[i][2] \in Statuses \cup {"paid", "unpaid"}
    OBVIOUS
  <2>2. n + i \in EventIds
    BY <1>1, <1>3, Constants DEF EventIds
  <2> QED
    BY <2>1, <2>2 DEF Event
<1>6. IsFiniteSet(new)
  <2> DEFINE f == [i \in 1..m |-> record(i)]
  <2>1. f \in Surjection(1..m, new)
    <3>1. \A i \in 1..m : f[i] = record(i)
      OBVIOUS
    <3>2. \A i \in 1..m : record(i) \in new
      OBVIOUS
    <3>3. \A y \in new : \E i \in 1..m : y = record(i)
      OBVIOUS
    <3>4. f = [i \in 1..m |-> f[i]]
      OBVIOUS
    <3> HIDE DEF f, record, new
    <3> QED
      BY <3>1, <3>2, <3>3, <3>4 DEF Surjection
  <2>2. IsFiniteSet(1..m)
    <3>1. 1 \in Int /\ m \in Int
      BY <1>1
    <3> HIDE DEF f, record, new
    <3> QED
      BY ONLY <3>1, FS_Interval
  <2> HIDE DEF f, new
  <2> QED
    BY <2>1, <2>2, FS_Surjection
<1>7. IsFiniteSet(events')
  BY <1>4, <1>6, FS_Union DEF EventsOK
<1> QED
  BY <1>4, <1>5, <1>7 DEF EventsOK

\* A step of Stripe touches one subscription, which keeps its owner and is paid
\* from then on if its checkout is announced as paid.
LEMMA StripeStep ==
    ASSUME Inv, NEW x \in Subs, NEW ends \in Weeks,
           NEW ts \in SUBSET (EventTypes \X (Statuses \cup {"paid", "unpaid"})),
           IsFiniteSet(ts), Emit(x, ends, ts), Quiet,
           NEW new \in [owner: Users \cup {NoUser}, status: {"offered"} \cup Statuses, ends: Weeks],
           stripe' = [stripe EXCEPT ![x] = new],
           new.owner = stripe[x].owner, stripe[x].status # "none",
           PaidIn(stripe, x) => new.status \in Statuses,
           \A t \in ts : /\ t[1] = "checkout" => t[2] = "unpaid" \/ new.status \in Statuses
                         /\ t[1] = "updated" => t[2] \in Statuses
    PROVE  Inv'
<1>1. /\ row' = row /\ tier' = tier /\ payments' = payments /\ processed' = processed
      /\ mailed' = mailed /\ week' = week /\ req' = req
  BY DEF Quiet
<1>2. StripeOK /\ EventsOK /\ RowsOK /\ CountsOK
  BY DEF Inv, Data
<1>3. stripe'[x] = new /\ \A y \in Subs \ {x} : stripe'[y] = stripe[y]
  BY <1>2 DEF StripeOK
<1>4. StripeOK'
  BY <1>2, <1>3 DEF StripeOK
<1>5. \A y \in Subs : /\ PaidIn(stripe, y) => PaidIn(stripe', y)
                      /\ stripe'[y].owner = stripe[y].owner
  BY <1>3 DEF PaidIn
<1>6. Grown
  BY <1>1, <1>5 DEF Grown
<1>7. EventsOK'
  <2>1. /\ events' \subseteq Event /\ IsFiniteSet(events')
        /\ \A e \in events' \ events : e.x = x /\ <<e.type, e.status>> \in ts
    BY <1>2, Emitted
  <2>2. \A e \in events : e.x \in Subs
    BY <1>2 DEF EventsOK, Event
  <2>3. \A e \in events : /\ e.type = "checkout" => PaidIn(stripe', e.x) \/ e.status = "unpaid"
                          /\ e.type = "updated" => e.status \in Statuses
    BY <1>2, <1>5, <2>2 DEF EventsOK
  <2>4. \A e \in events' \ events :
            /\ e.type = "checkout" => PaidIn(stripe', e.x) \/ e.status = "unpaid"
            /\ e.type = "updated" => e.status \in Statuses
    BY <1>3, <2>1 DEF PaidIn
  <2> QED
    BY <2>1, <2>3, <2>4 DEF EventsOK
<1>8. RowsOK'
  <2>1. \A u \in Users : row[u].x # NoSub => row[u].x \in Subs
    BY <1>2 DEF RowsOK, Row
  <2> QED
    BY <1>1, <1>2, <1>5, <2>1 DEF RowsOK
<1>9. CountsOK'
  BY <1>1, <1>2 DEF CountsOK
<1>10. \A r \in Requests : Slot(req'[r], stripe', row')
  BY <1>1, <1>6, SlotKept DEF Inv
<1> QED
  BY <1>1, <1>4, <1>7, <1>8, <1>9, <1>10 DEF Inv, Data

\* Every step of Stripe is of that kind.
LEMMA AtStripeStep == ASSUME Inv, AtStripe PROVE Inv'
<1>1. StripeOK /\ CountsOK
  BY DEF Inv, Data
<1>2. PICK x \in Subs :
        CompleteUnpaid(x) \/ Pay(x) \/ Renew(x) \/ FailRenewal(x) \/ CancelAtStripe(x)
  BY DEF AtStripe
<1> DEFINE with(status, ends) == [owner |-> stripe[x].owner, status |-> status, ends |-> ends]
           Old == [owner: Users \cup {NoUser}, status: {"none", "offered"} \cup Statuses,
                   ends: Weeks]
           New == [owner: Users \cup {NoUser}, status: {"offered"} \cup Statuses, ends: Weeks]
           Pairs == EventTypes \X (Statuses \cup {"paid", "unpaid"})
<1>3. stripe[x] \in Old /\ stripe \in [Subs -> Old]
  BY <1>1 DEF StripeOK
<1>4. week \in Weeks /\ week + Month \in Weeks
  BY <1>1, Constants DEF CountsOK
<1>5. \A a, b : IsFiniteSet({a}) /\ IsFiniteSet({a, b})
  <2> SUFFICES ASSUME NEW a, NEW b PROVE IsFiniteSet({a}) /\ IsFiniteSet({a, b})
    OBVIOUS
  <2>1. IsFiniteSet({a})
    BY FS_Singleton
  <2>2. {a, b} = {a} \cup {b}
    OBVIOUS
  <2> QED
    BY <2>1, <2>2, FS_AddElement
<1>6. CASE CompleteUnpaid(x)
  <2> DEFINE ts == {<<"checkout", "unpaid">>}
  <2>1. stripe' = stripe /\ stripe[x].status = "offered" /\ Emit(x, week, ts) /\ Quiet
    BY <1>6 DEF CompleteUnpaid
  <2>2. stripe[x] \in New /\ stripe' = [stripe EXCEPT ![x] = stripe[x]]
    BY <1>3, <2>1
  <2>3. ts \in SUBSET Pairs
    BY DEF EventTypes
  <2>4. IsFiniteSet(ts)
    BY <1>5, Zenon
  <2>5. PaidIn(stripe, x) => stripe[x].status \in Statuses
    BY DEF PaidIn
  <2>6. \A t \in ts : /\ t[1] = "checkout" => t[2] = "unpaid" \/ stripe[x].status \in Statuses
                      /\ t[1] = "updated" => t[2] \in Statuses
    OBVIOUS
  <2> HIDE DEF ts
  <2> QED
    BY <1>4, <2>1, <2>2, <2>3, <2>4, <2>5, <2>6, StripeStep
<1>7. ASSUME NEW status \in Statuses, NEW ends \in Weeks, NEW ts \in SUBSET Pairs,
             IsFiniteSet(ts), Emit(x, ends, ts), Quiet, Turn(x, status, ends),
             stripe[x].status # "none",
             \A t \in ts : t[1] = "updated" => t[2] \in Statuses
      PROVE  Inv'
  <2> DEFINE new == [owner |-> stripe[x].owner, status |-> status, ends |-> ends]
  <2>1. new \in New
    BY <1>3
  <2>2. stripe' = [stripe EXCEPT ![x] = new]
    BY <1>7 DEF Turn
  <2>3. new.owner = stripe[x].owner /\ new.status \in Statuses
    OBVIOUS
  <2> HIDE DEF new
  <2> QED
    BY <1>7, <2>1, <2>2, <2>3, StripeStep
<1>8. CASE Pay(x)
  <2> DEFINE ts == {<<"checkout", "paid">>, <<"invoice", "paid">>}
  <2>1. ts \in SUBSET Pairs /\ \A t \in ts : t[1] # "updated"
    BY DEF EventTypes
  <2>2. IsFiniteSet(ts)
    BY <1>5, Zenon
  <2>3. "active" \in Statuses
    BY DEF Statuses
  <2>4. Emit(x, week + Month, ts)
    BY <1>8 DEF Pay
  <2> HIDE DEF ts
  <2> QED
    BY <1>4, <1>7, <1>8, <2>1, <2>2, <2>3, <2>4 DEF Pay
<1>9. CASE Renew(x)
  <2> DEFINE ts == {<<"updated", "active">>, <<"invoice", "paid">>}
  <2>1. stripe[x].ends + Month \in Weeks
    BY <1>1, <1>3, <1>9, Constants DEF Renew, CountsOK, Weeks, Month
  <2>2. ts \in SUBSET Pairs /\ \A t \in ts : t[1] = "updated" => t[2] \in Statuses
    BY DEF EventTypes, Statuses
  <2>3. IsFiniteSet(ts)
    BY <1>5, Zenon
  <2>4. "active" \in Statuses
    BY DEF Statuses
  <2>5. Emit(x, stripe[x].ends + Month, ts) /\ stripe[x].status # "none"
    BY <1>9 DEF Renew
  <2> HIDE DEF ts
  <2> QED
    BY <1>7, <1>9, <2>1, <2>2, <2>3, <2>4, <2>5 DEF Renew
<1>10. CASE FailRenewal(x) \/ CancelAtStripe(x)
  <2>1. PICK t \in {<<"updated", "past_due">>, <<"deleted", "canceled">>} :
            /\ stripe[x].status # "none" /\ Quiet
            /\ Turn(x, t[2], stripe[x].ends)
            /\ Emit(x, stripe[x].ends, {t})
    BY <1>10 DEF FailRenewal, CancelAtStripe
  <2> DEFINE ts == {t}
  <2>2. t[2] \in Statuses /\ ts \in SUBSET Pairs
    BY DEF EventTypes, Statuses
  <2>3. IsFiniteSet(ts)
    BY <1>5, Zenon
  <2>4. stripe[x].ends \in Weeks
    BY <1>3
  <2>5. \A p \in ts : p[1] = "updated" => p[2] \in Statuses
    BY <2>2
  <2>6. Emit(x, stripe[x].ends, ts)
    BY <2>1
  <2> HIDE DEF ts
  <2> QED
    BY <1>7, <2>1, <2>2, <2>3, <2>4, <2>5, <2>6
<1> QED
  BY <1>2, <1>6, <1>8, <1>9, <1>10

-----------------------------------------------------------------------------
\* The clock moves nothing but itself.
LEMMA TickStep == ASSUME Inv, Tick PROVE Inv'
<1>1. /\ stripe' = stripe /\ events' = events /\ row' = row /\ tier' = tier
      /\ payments' = payments /\ processed' = processed /\ mailed' = mailed /\ req' = req
  BY DEF Tick
<1>2. week' \in 0..MaxWeek
  BY Constants DEF Tick, Inv, Data, CountsOK
<1>3. Data'
  BY <1>1, <1>2 DEF Inv, Data, StripeOK, EventsOK, RowsOK, CountsOK, PaidIn
<1> QED
  BY <1>1, <1>3 DEF Inv

\* A handler starts with what its caller or the event says.
LEMMA ArriveStep == ASSUME Inv, NEW r \in Requests, Arrive(r) PROVE Inv'
<1>1. StripeOK /\ EventsOK
  BY DEF Inv, Data
<1>2. Idle \in Request
  BY IdleSlot DEF Slot
<1>3. ASSUME NEW q, Start(r, q), Slot(q, stripe, row) PROVE Inv'
  <2>1. Becomes(r, q) /\ ReadOnly
    BY <1>3 DEF Start, Becomes, ReadOnly
  <2> QED
    BY <1>3, <2>1, ReadStep
<1>4. ASSUME NEW u \in Users, StartCheckout(r, u) PROVE Inv'
  <2>1. PICK q : q = [Idle EXCEPT !.op = "checkout", !.pc = "readTier", !.u = u]
    OBVIOUS
  <2>2. q \in Request /\ q.pc = "readTier" /\ q.u = u
    BY <1>2, <2>1 DEF Request, AllOps, Steps
  <2>3. Slot(q, stripe, row)
    BY <2>2 DEF Slot
  <2> QED
    BY <1>3, <1>4, <2>1, <2>3 DEF StartCheckout
<1>5. ASSUME NEW e \in events, Deliver(r, e) PROVE Inv'
  <2>1. PICK q : q = [Idle EXCEPT !.op = "webhook", !.pc = "check", !.ev = e.id,
                                  !.type = e.type, !.x = e.x, !.status = e.status,
                                  !.ends = e.ends]
    OBVIOUS
  <2>2. /\ e \in Event
        /\ e.type = "updated" => e.status \in Statuses
        /\ e.type = "checkout" => PaidIn(stripe, e.x) \/ e.status = "unpaid"
    BY <1>1 DEF EventsOK
  <2>3. e.id \in 0..MaxEvents /\ e.id \in EventIds /\ e.x \in Subs
    BY <2>2, Constants DEF Event, EventIds
  <2>4. /\ q \in Request /\ q.op = "webhook" /\ q.pc = "check" /\ q.ev = e.id
        /\ q.type = e.type /\ q.x = e.x /\ q.status = e.status
    <3>1. "webhook" \in AllOps /\ "check" \in Steps
      BY DEF AllOps, Steps
    <3> QED
      BY <1>2, <2>1, <2>2, <2>3, <3>1 DEF Request, Event
  <2>5. Slot(q, stripe, row)
    BY <2>2, <2>3, <2>4 DEF Slot
  <2> QED
    BY <1>3, <1>5, <2>1, <2>5 DEF Deliver
<1>6. ASSUME NEW u \in Users, NEW x \in Subs, StartConfirm(r, u, x) PROVE Inv'
  <2>1. PICK q : q = [Idle EXCEPT !.op = "confirm", !.pc = "readSession", !.u = u, !.x = x]
    OBVIOUS
  <2>2. q \in Request /\ q.op = "confirm" /\ q.pc = "readSession" /\ q.x = x
    BY <1>2, <2>1 DEF Request, AllOps, Steps
  <2>3. Slot(q, stripe, row)
    BY <2>2 DEF Slot
  <2> QED
    BY <1>3, <1>6, <2>1, <2>3 DEF StartConfirm
<1>7. ASSUME NEW op \in {"reminder", "demotion"}, StartJob(r, op) PROVE Inv'
  <2>1. PICK q : q = [Idle EXCEPT !.op = op, !.pc = "findDue"]
    OBVIOUS
  <2>2. q \in Request /\ q.pc = "findDue" /\ q.op = op
    BY <1>2, <2>1 DEF Request, AllOps, Steps
  <2>3. Slot(q, stripe, row)
    BY <2>2 DEF Slot
  <2> QED
    BY <1>3, <1>7, <2>1, <2>3 DEF StartJob
<1> QED
  BY <1>4, <1>5, <1>6, <1>7 DEF Arrive

-----------------------------------------------------------------------------
\* The slot after a step to pc that changes no other field the steps rely on.
Moved(p, q, pc) ==
    /\ q \in Request /\ q.pc = pc
    /\ q.op = p.op /\ q.ev = p.ev /\ q.type = p.type /\ q.x = p.x /\ q.u = p.u
    /\ q.status = p.status /\ q.ends = p.ends

\* Goto moves the slot in this sense.
LEMMA MovedSlot ==
    ASSUME Inv, NEW r \in Requests, NEW pc \in Steps, Goto(r, pc)
    PROVE  \E q : Becomes(r, q) /\ Moved(req[r], q, pc)
<1>1. PICK q : q = [req[r] EXCEPT !.pc = pc]
  OBVIOUS
<1>2. req[r] \in Request
  BY DEF Inv
<1>3. Moved(req[r], q, pc)
  BY <1>1, <1>2 DEF Moved, Request
<1>4. Becomes(r, q)
  BY <1>1 DEF Goto, Becomes
<1> QED
  BY <1>3, <1>4

\* A step to pc that only reads.
LEMMA GotoStep ==
    ASSUME Inv, NEW r \in Requests, NEW pc \in Steps, Goto(r, pc), ReadOnly,
           \A q : Moved(req[r], q, pc) => Slot(q, stripe, row)
    PROVE  Inv'
<1>1. PICK q : Becomes(r, q) /\ Moved(req[r], q, pc)
  BY MovedSlot
<1>2. Slot(q, stripe, row)
  BY <1>1
<1> QED
  BY <1>1, <1>2, ReadStep

\* A handler that ends without a write.
LEMMA ReturnStep == ASSUME Inv, NEW r \in Requests, Return(r), ReadOnly PROVE Inv'
<1>1. Becomes(r, Idle)
  BY DEF Return, Becomes
<1> QED
  BY <1>1, IdleSlot, ReadStep

\* Checkout creation, where a session of Stripe's gets its owner.
LEMMA CheckoutStep ==
    ASSUME Inv, NEW r \in Requests, ReadTier(r) \/ ReadRow(r) \/ OpenSession(r)
    PROVE  Inv'
<1>1. Data /\ Slot(req[r], stripe, row)
  BY DEF Inv
<1>2. CASE ReadTier(r)
  <2>1. req[r].u \in Users
    BY <1>1, <1>2 DEF ReadTier, At, Slot
  <2>2. "readRow" \in Steps /\ \A q : Moved(req[r], q, "readRow") => Slot(q, stripe, row)
    BY <2>1 DEF Moved, Slot, Steps
  <2> QED
    BY <1>2, <2>2, GotoStep, ReturnStep DEF ReadTier
<1>3. CASE ReadRow(r)
  <2>1. req[r].u \in Users
    BY <1>1, <1>3 DEF ReadRow, At, Slot
  <2>2. "openSession" \in Steps /\ \A q : Moved(req[r], q, "openSession") => Slot(q, stripe, row)
    BY <2>1 DEF Moved, Slot, Steps
  <2> QED
    BY <1>3, <2>2, GotoStep, ReturnStep DEF ReadRow
<1>4. CASE OpenSession(r) /\ UNCHANGED stripe
  <2>1. Return(r) /\ ReadOnly
    BY <1>4 DEF OpenSession, ReadOnly
  <2> QED
    BY <2>1, ReturnStep
<1>5. ASSUME NEW x \in Subs, OpenSession(r), stripe[x].status = "none",
             stripe' = [stripe EXCEPT ![x].owner = req[r].u, ![x].status = "offered"]
      PROVE  Inv'
  <2>1. req[r].u \in Users
    BY <1>1, <1>5 DEF OpenSession, At, Slot
  <2>2. StripeOK' /\ stripe'[x].status = "offered"
        /\ \A y \in Subs \ {x} : stripe'[y] = stripe[y]
    BY <1>1, <1>5, <2>1 DEF Data, StripeOK
  <2>3. /\ events' = events /\ row' = row /\ tier' = tier /\ payments' = payments
        /\ processed' = processed /\ mailed' = mailed /\ week' = week
    BY <1>5 DEF OpenSession, tables
  <2>4. \A y \in Subs : PaidIn(stripe, y) =>
            PaidIn(stripe', y) /\ stripe'[y].owner = stripe[y].owner
    BY <1>5, <2>2 DEF PaidIn, Statuses
  <2>5. Grown
    BY <1>5, <2>2, <2>3, <2>4 DEF Grown
  <2>6. EventsOK'
    BY <1>1, <2>3, <2>4 DEF Data, EventsOK, Event
  <2>7. RowsOK'
    <3>1. \A u \in Users : row[u].x # NoSub => row[u].x \in Subs
      BY <1>1 DEF Data, RowsOK, Row
    <3> QED
      BY <1>1, <2>3, <2>4, <3>1 DEF Data, RowsOK
  <2>8. CountsOK'
    BY <1>1, <2>3 DEF Data, CountsOK
  <2>9. Becomes(r, Idle)
    BY <1>5 DEF OpenSession, Return, Becomes
  <2> QED
    BY <2>2, <2>5, <2>6, <2>7, <2>8, <2>9, IdleSlot, SlotStep DEF Data
<1> QED
  BY <1>2, <1>3, <1>4, <1>5 DEF OpenSession

\* What the webhook and confirm-session read.
LEMMA FulfilmentStep ==
    ASSUME Inv, NEW r \in Requests,
           CheckProcessed(r) \/ FindSub(r) \/ FindUser(r) \/ Retrieve(r) \/ ReadSession(r)
    PROVE  Inv'
<1>1. StripeOK /\ RowsOK /\ Slot(req[r], stripe, row) /\ req[r] \in Request
  BY DEF Inv, Data
<1>2. ASSUME NEW x \in Subs, PaidIn(stripe, x)
      PROVE  stripe[x].owner \in Users /\ stripe[x].ends \in Weeks
  BY <1>1, <1>2 DEF StripeOK, PaidIn, Statuses
<1>3. CASE CheckProcessed(r)
  <2>1. /\ req[r].ev \in EventIds /\ req[r].op = "webhook" /\ req[r].x \in Subs
        /\ req[r].type = "updated" => req[r].status \in Statuses
        /\ req[r].type = "checkout" => PaidIn(stripe, req[r].x) \/ req[r].status = "unpaid"
    BY <1>1, <1>3 DEF CheckProcessed, At, Slot
  <2>2. "record" \in Steps /\ \A q : Moved(req[r], q, "record") => Slot(q, stripe, row)
    BY <2>1 DEF Moved, Slot, Steps
  <2>3. ASSUME req[r].type = "checkout" => req[r].status # "unpaid"
        PROVE  "findSub" \in Steps /\ \A q : Moved(req[r], q, "findSub") => Slot(q, stripe, row)
    BY <2>1, <2>3 DEF Moved, Slot, Steps
  <2> QED
    BY <1>3, <2>2, <2>3, GotoStep, ReturnStep DEF CheckProcessed
<1>4. CASE FindSub(r)
  <2> DEFINE holders == Holders(req[r].x)
  <2>1. /\ req[r].ev \in EventIds /\ req[r].op = "webhook" /\ req[r].x \in Subs
        /\ req[r].type = "updated" => req[r].status \in Statuses
        /\ req[r].type = "checkout" => PaidIn(stripe, req[r].x)
    BY <1>1, <1>4 DEF FindSub, At, Slot
  <2>2. "record" \in Steps /\ \A q : Moved(req[r], q, "record") => Slot(q, stripe, row)
    BY <2>1 DEF Moved, Slot, Steps
  <2>3. ASSUME req[r].type = "checkout"
        PROVE  "findUser" \in Steps /\ \A q : Moved(req[r], q, "findUser") => Slot(q, stripe, row)
    BY <2>1, <2>3 DEF Moved, Slot, Steps
  <2>4. ASSUME NEW u \in holders, NEW pc \in {"refetch", "apply", "cancel", "pay"},
               req[r].type = "updated" <=> pc \in {"refetch", "apply"},
               req' = [req EXCEPT ![r] = [@ EXCEPT !.pc = pc, !.u = u]]
        PROVE  Inv'
    <3>1. PICK q : q = [req[r] EXCEPT !.pc = pc, !.u = u]
      OBVIOUS
    <3>2. /\ q \in Request /\ q.pc = pc /\ q.u = u
          /\ q.op = req[r].op /\ q.ev = req[r].ev /\ q.x = req[r].x /\ q.status = req[r].status
      BY <1>1, <3>1 DEF Request, Steps, Holders
    <3>3. u \in Users /\ row[u].x \in Subs /\ PaidIn(stripe, row[u].x) /\ row[u].x = q.x
      BY <1>1, <2>1, <3>2, Constants DEF RowsOK, Holders
    <3>4. Slot(q, stripe, row)
      BY <2>1, <2>4, <3>2, <3>3 DEF Slot
    <3>5. Becomes(r, q) /\ ReadOnly
      BY <1>4, <2>4, <3>1 DEF Becomes, FindSub
    <3> QED
      BY <3>4, <3>5, ReadStep
  <2>5. ReadOnly
    BY <1>4 DEF FindSub
  <2> QED
    BY <1>4, <2>2, <2>3, <2>4, <2>5, GotoStep DEF FindSub
<1>5. CASE FindUser(r)
  <2>1. /\ req[r].op \in {"webhook", "confirm"} /\ req[r].x \in Subs
        /\ req[r].op = "webhook" => req[r].ev \in EventIds
        /\ PaidIn(stripe, req[r].x)
        /\ req[r].op = "confirm" =>
            req[r].u = stripe[req[r].x].owner /\ req[r].status \in Statuses
    BY <1>1, <1>5 DEF FindUser, At, Slot
  <2>2. PICK u, next, had :
            /\ u = stripe[req[r].x].owner /\ next \in {"retrieve", "upsert"} /\ had \in BOOLEAN
            /\ next = "upsert" => req[r].op = "confirm"
            /\ req' = [req EXCEPT ![r] = [@ EXCEPT !.pc = next, !.u = u, !.hadRow = had]]
    BY <1>5, <2>1 DEF FindUser
  <2>3. PICK q : q = [req[r] EXCEPT !.pc = next, !.u = u, !.hadRow = had]
    OBVIOUS
  <2>4. u \in Users
    BY <1>2, <2>1, <2>2
  <2>5. /\ q \in Request /\ q.pc = next /\ q.u = u
        /\ q.op = req[r].op /\ q.ev = req[r].ev /\ q.x = req[r].x /\ q.status = req[r].status
    <3>1. next \in Steps /\ u \in Users /\ had \in BOOLEAN
      BY <2>2, <2>4 DEF Steps
    <3> QED
      BY <1>1, <2>3, <3>1 DEF Request
  <2>6. Slot(q, stripe, row)
    BY <2>1, <2>2, <2>5 DEF Slot
  <2>7. Becomes(r, q) /\ ReadOnly
    BY <1>5, <2>2, <2>3 DEF Becomes, FindUser
  <2> QED
    BY <2>6, <2>7, ReadStep
<1>6. CASE Retrieve(r)
  <2>1. /\ req[r].op \in {"webhook", "confirm"} /\ req[r].x \in Subs
        /\ req[r].op = "webhook" => req[r].ev \in EventIds
        /\ PaidIn(stripe, req[r].x)
        /\ At(r, "retrieve") => req[r].u = stripe[req[r].x].owner
        /\ At(r, "refetch") =>
            req[r].op = "webhook" /\ req[r].u \in Users /\ row[req[r].u].x \in Subs
    BY <1>1, <1>6 DEF Retrieve, At, Slot
  <2>2. PICK next \in {"apply", "upsert", "findUser"} :
            /\ next = "apply" => At(r, "refetch")
            /\ next = "upsert" => req[r].op = "webhook" /\ At(r, "retrieve")
            /\ next = "findUser" => req[r].op = "confirm" /\ At(r, "retrieve")
            /\ req' = [req EXCEPT ![r] = [@ EXCEPT !.pc = next,
                                                   !.status = stripe[req[r].x].status,
                                                   !.ends = stripe[req[r].x].ends]]
    BY <1>6, <2>1 DEF Retrieve, At
  <2>3. PICK q : q = [req[r] EXCEPT !.pc = next, !.status = stripe[req[r].x].status,
                                    !.ends = stripe[req[r].x].ends]
    OBVIOUS
  <2>4. stripe[req[r].x].status \in Statuses /\ stripe[req[r].x].ends \in Weeks
    BY <1>2, <2>1 DEF PaidIn
  <2>5. /\ q \in Request /\ q.pc = next /\ q.status \in Statuses
        /\ q.op = req[r].op /\ q.ev = req[r].ev /\ q.x = req[r].x /\ q.u = req[r].u
    BY <1>1, <2>3, <2>4 DEF Request, Steps
  <2>6. next = "upsert" => req[r].u = stripe[req[r].x].owner
    BY <2>1, <2>2
  <2>7. Slot(q, stripe, row)
    BY <2>1, <2>2, <2>5, <2>6 DEF Slot
  <2>8. Becomes(r, q) /\ ReadOnly
    BY <1>6, <2>2, <2>3 DEF Becomes, Retrieve
  <2> QED
    BY <2>7, <2>8, ReadStep
<1>7. CASE ReadSession(r)
  <2>1. req[r].op = "confirm" /\ req[r].x \in Subs
    BY <1>1, <1>7 DEF ReadSession, At, Slot
  <2>2. ASSUME Paid(req[r].x), stripe[req[r].x].owner = req[r].u
        PROVE  "retrieve" \in Steps /\ \A q : Moved(req[r], q, "retrieve") => Slot(q, stripe, row)
    BY <2>1, <2>2 DEF Moved, Slot, Steps, Paid, PaidIn
  <2> QED
    BY <1>7, <2>2, GotoStep, ReturnStep DEF ReadSession
<1> QED
  BY <1>3, <1>4, <1>5, <1>6, <1>7

-----------------------------------------------------------------------------
\* A step that writes the row and the tier of one user.
LEMMA WriteStep ==
    ASSUME Inv, NEW r \in Requests, NEW q, Becomes(r, q), Slot(q, stripe, row'),
           stripe' = stripe, events' = events, week' = week, payments' = payments,
           processed' = processed, mailed' = mailed,
           NEW u \in Users, NEW new \in Row, row' = [row EXCEPT ![u] = new],
           NEW t \in {"free", "premium"}, tier' = [tier EXCEPT ![u] = t],
           row[u].x # NoSub \/ new.status # "none" \/ t = "premium" => new.x # NoSub,
           new.x # NoSub => PaidIn(stripe, new.x) /\ stripe[new.x].owner = u
    PROVE  Inv'
<1>1. StripeOK /\ EventsOK /\ RowsOK /\ CountsOK
  BY DEF Inv, Data
<1>2. /\ row'[u] = new /\ \A v \in Users \ {u} : row'[v] = row[v]
      /\ tier'[u] = t /\ \A v \in Users \ {u} : tier'[v] = tier[v]
      /\ row' \in [Users -> Row] /\ tier' \in [Users -> {"free", "premium"}]
  BY <1>1 DEF RowsOK
<1>3. RowsOK'
  BY <1>1, <1>2 DEF RowsOK, PaidIn
<1>4. Data'
  BY <1>1, <1>3 DEF Data, StripeOK, EventsOK, CountsOK, PaidIn
<1>5. Grown
  <2>1. \A v \in Users : row[v].x \in Subs => row'[v].x \in Subs
    BY <1>2, Constants DEF Row
  <2> QED
    BY <2>1 DEF Grown
<1> QED
  BY <1>4, <1>5, SlotStep

\* The transactions of checkout, confirm-session and customer.subscription.*.
LEMMA TransactionStep ==
    ASSUME Inv, NEW r \in Requests, Upsert(r) \/ ApplyUpdate(r) \/ CancelRow(r)
    PROVE  Inv'
<1> DEFINE u == req[r].u
<1>1. StripeOK /\ RowsOK /\ CountsOK /\ Slot(req[r], stripe, row) /\ req[r] \in Request
  BY DEF Inv, Data
<1>2. /\ stripe' = stripe /\ events' = events /\ week' = week /\ payments' = payments
      /\ processed' = processed /\ mailed' = mailed
  BY DEF Upsert, ApplyUpdate, CancelRow
<1>3. ASSUME Goto(r, "record"), req[r].ev \in EventIds
      PROVE  \E q : Becomes(r, q) /\ Slot(q, stripe, row')
  <2>1. "record" \in Steps
    BY DEF Steps
  <2>2. PICK q : Becomes(r, q) /\ Moved(req[r], q, "record")
    BY <1>3, <2>1, MovedSlot
  <2>3. Slot(q, stripe, row')
    BY <1>3, <2>2 DEF Moved, Slot
  <2> QED
    BY <2>2, <2>3
<1>4. CASE Upsert(r) /\ Return(r) /\ UNCHANGED <<row, tier>>
  BY <1>2, <1>4, ReturnStep DEF ReadOnly, tables
<1>5. CASE Upsert(r) /\ Fulfill(u, req[r].x, req[r].status, req[r].ends)
  <2> DEFINE new == [x |-> req[r].x, status |-> req[r].status, ends |-> req[r].ends,
                     reminded |-> FALSE]
             t == IF req[r].status = "active" THEN "premium" ELSE tier[u]
  <2>1. /\ req[r].op \in {"webhook", "confirm"}
        /\ req[r].op = "webhook" => req[r].ev \in EventIds
        /\ req[r].x \in Subs /\ PaidIn(stripe, req[r].x) /\ stripe[req[r].x].owner = u
        /\ req[r].status \in Statuses
    BY <1>1, <1>5 DEF Upsert, At, Slot
  <2>2. u \in Users
    BY <1>1, <2>1 DEF StripeOK, PaidIn, Statuses
  <2>3. new \in Row /\ new.x = req[r].x /\ req[r].x # NoSub
    BY <1>1, <2>1, Constants DEF Row, Request
  <2>4. t \in {"free", "premium"} /\ row' = [row EXCEPT ![u] = new]
        /\ tier' = [tier EXCEPT ![u] = t]
    BY <1>1, <1>5, <2>2 DEF Fulfill, RowsOK
  <2>5. PICK q : Becomes(r, q) /\ Slot(q, stripe, row')
    <3>1. CASE Return(r)
      BY <3>1, IdleSlot DEF Return, Becomes
    <3>2. CASE Goto(r, "record") /\ req[r].op = "webhook"
      BY <1>3, <2>1, <3>2
    <3>3. Return(r) \/ (Goto(r, "record") /\ req[r].op = "webhook")
      BY <1>5 DEF Upsert
    <3> QED
      BY <3>1, <3>2, <3>3
  <2> HIDE DEF new, t
  <2> QED
    BY <1>2, <2>1, <2>2, <2>3, <2>4, <2>5, WriteStep
<1>6. CASE ApplyUpdate(r) \/ CancelRow(r)
  <2>1. /\ u \in Users /\ req[r].ev \in EventIds /\ row[u].x \in Subs
        /\ At(r, "apply") => req[r].status \in Statuses
    BY <1>1, <1>6 DEF ApplyUpdate, CancelRow, At, Slot
  <2>2. row \in [Users -> Row] /\ row[u] \in Row /\ req[r].ends \in Weeks
    BY <1>1, <2>1 DEF RowsOK, Request
  <2>3. PICK status \in Statuses, ends \in Weeks, t \in {"free", "premium"} :
            /\ row' = [row EXCEPT ![u] = [x |-> row[u].x, status |-> status, ends |-> ends,
                                          reminded |-> row[u].reminded]]
            /\ tier' = [tier EXCEPT ![u] = t]
    <3>1. CASE ApplyUpdate(r)
      <4> DEFINE new == [x |-> row[u].x, status |-> req[r].status, ends |-> req[r].ends,
                         reminded |-> row[u].reminded]
      <4>1. [row EXCEPT ![u] = new]
              = [row EXCEPT ![u].status = req[r].status, ![u].ends = req[r].ends]
        BY <2>1, <2>2 DEF Row
      <4> QED
        BY <2>1, <2>2, <3>1, <4>1 DEF ApplyUpdate
    <3>2. CASE CancelRow(r)
      <4> DEFINE new == [x |-> row[u].x, status |-> "canceled", ends |-> row[u].ends,
                         reminded |-> row[u].reminded]
      <4>1. [row EXCEPT ![u] = new] = [row EXCEPT ![u].status = "canceled"]
        BY <2>1, <2>2 DEF Row
      <4>2. "canceled" \in Statuses /\ row[u].ends \in Weeks
        BY <2>2 DEF Statuses, Row
      <4> QED
        BY <3>2, <4>1, <4>2 DEF CancelRow
    <3> QED
      BY <1>6, <3>1, <3>2
  <2> DEFINE new == [x |-> row[u].x, status |-> status, ends |-> ends,
                     reminded |-> row[u].reminded]
  <2>4. new \in Row /\ new.x = row[u].x /\ new.x # NoSub
    BY <2>1, <2>2, Constants DEF Row
  <2>5. PaidIn(stripe, new.x) /\ stripe[new.x].owner = u
    BY <1>1, <2>1, <2>4 DEF RowsOK
  <2>6. PICK q : Becomes(r, q) /\ Slot(q, stripe, row')
    BY <1>3, <1>6, <2>1 DEF ApplyUpdate, CancelRow
  <2>7. row' = [row EXCEPT ![u] = new] /\ tier' = [tier EXCEPT ![u] = t]
    BY <2>3
  <2> HIDE DEF new
  <2> QED
    BY <1>2, <2>1, <2>4, <2>5, <2>6, <2>7, WriteStep
<1> QED
  BY <1>4, <1>5, <1>6 DEF Upsert

\* The payment and the event are recorded.
LEMMA RecordStep ==
    ASSUME Inv, NEW r \in Requests, RecordPayment(r) \/ RecordEvent(r)
    PROVE  Inv'
<1>1. Data /\ Slot(req[r], stripe, row) /\ req[r].ev \in EventIds
  BY DEF Inv, RecordPayment, RecordEvent, At, Slot
<1>2. /\ stripe' = stripe /\ events' = events /\ week' = week /\ row' = row /\ tier' = tier
      /\ mailed' = mailed
  BY DEF RecordPayment, RecordEvent
<1>3. CountsOK'
  <2>1. CASE RecordPayment(r)
    <3>1. OneMore(payments[req[r].ev]) \in Tally
      BY <1>1 DEF Data, CountsOK, Tally, OneMore
    <3> QED
      BY <1>1, <1>2, <2>1, <3>1 DEF RecordPayment, Data, CountsOK
  <2>2. CASE RecordEvent(r)
    BY <1>1, <1>2, <2>2 DEF RecordEvent, Data, CountsOK
  <2> QED
    BY <2>1, <2>2
<1>4. Data' /\ Grown
  BY <1>1, <1>2, <1>3 DEF Data, StripeOK, EventsOK, RowsOK, PaidIn, Grown
<1>5. PICK q : Becomes(r, q) /\ Slot(q, stripe', row')
  <2>1. CASE Return(r)
    BY <2>1, IdleSlot DEF Return, Becomes
  <2>2. CASE Goto(r, "record")
    <3>1. "record" \in Steps
      BY DEF Steps
    <3>2. PICK q : Becomes(r, q) /\ Moved(req[r], q, "record")
      BY <2>2, <3>1, MovedSlot
    <3>3. Slot(q, stripe', row')
      BY <1>1, <3>2 DEF Moved, Slot
    <3> QED
      BY <3>2, <3>3
  <2> QED
    BY <2>1, <2>2 DEF RecordPayment, RecordEvent
<1> QED
  BY <1>4, <1>5, SlotStep

-----------------------------------------------------------------------------
\* Done with an entry, a job goes on to the next or ends.
LEMMA FinishSlot ==
    ASSUME Inv, NEW r \in Requests, NEW d, NEW pc \in {"send", "demote"}, Finish(r, d, pc),
           pc = "demote" => req[r].op = "demotion"
    PROVE  \E q : Becomes(r, q) /\ \A st, rows : Slot(q, st, rows)
<1>1. CASE Return(r)
  BY <1>1, IdleSlot DEF Return, Becomes
<1>2. CASE ~ Return(r)
  <2>1. PICK q : q = [req[r] EXCEPT !.pc = pc, !.todo = req[r].todo \ {d}, !.u = NoUser]
    OBVIOUS
  <2>2. req[r] \in Request
    BY DEF Inv
  <2>3. q \in Request /\ q.pc = pc /\ q.op = req[r].op
    BY <2>1, <2>2 DEF Request, Steps
  <2>4. \A st, rows : Slot(q, st, rows)
    BY <2>3 DEF Slot
  <2>5. Becomes(r, q)
    <3>1. req' = [req EXCEPT ![r] = [@ EXCEPT !.pc = pc, !.todo = req[r].todo \ {d}, !.u = NoUser]]
      BY <1>2, Zenon DEF Finish
    <3>2. req \in [Requests -> Request]
      BY DEF Inv
    <3> QED
      BY <2>1, <3>1, <3>2 DEF Becomes
  <2> QED
    BY <2>4, <2>5
<1> QED
  BY <1>1, <1>2

\* The daily jobs.
LEMMA JobStep ==
    ASSUME Inv, NEW r \in Requests,
           FindDue(r) \/ SendReminder(r) \/ MarkReminded(r) \/ Demote(r)
    PROVE  Inv'
<1>1. StripeOK /\ EventsOK /\ RowsOK /\ CountsOK
      /\ Slot(req[r], stripe, row) /\ req[r] \in Request
  BY DEF Inv, Data
<1>2. \A d \in req[r].todo : d[1] \in Users /\ d[2] \in Subs /\ d[3] \in Weeks
  BY <1>1 DEF Request
<1>3. CASE FindDue(r)
  <2>1. ASSUME NEW pc \in {"send", "demote"}, NEW due \in SUBSET Users,
               pc = "demote" => req[r].op = "demotion",
               \A u \in due : row[u].status # "none",
               req' = [req EXCEPT ![r] = [@ EXCEPT !.pc = pc,
                                  !.todo = {<<u, row[u].x, row[u].ends>> : u \in due}]]
        PROVE  Inv'
    <3> DEFINE todo == {<<u, row[u].x, row[u].ends>> : u \in due}
    <3>1. \A u \in due : u \in Users /\ row[u].x \in Subs /\ row[u].ends \in Weeks
      BY <1>1, <2>1 DEF RowsOK, Row
    <3>2. todo \in SUBSET (Users \X Subs \X Weeks)
      BY <3>1
    <3>3. PICK q : q = [req[r] EXCEPT !.pc = pc, !.todo = todo]
      OBVIOUS
    <3>4. Becomes(r, q)
      BY <2>1, <3>3 DEF Becomes
    <3> HIDE DEF todo
    <3>5. q \in Request /\ q.pc = pc /\ q.op = req[r].op
      BY <1>1, <3>2, <3>3 DEF Request, Steps
    <3>6. Slot(q, stripe, row)
      BY <2>1, <3>5 DEF Slot
    <3>7. ReadOnly
      BY <1>3 DEF FindDue
    <3> QED
      BY <3>4, <3>6, <3>7, ReadStep
  <2> DEFINE due == {u \in Users : IF req[r].op = "reminder" THEN DueForReminder(u)
                                   ELSE DueForDemotion(u)}
  <2>2. due \in SUBSET Users /\ \A u \in due : row[u].status # "none"
    BY DEF DueForReminder, DueForDemotion
  <2>3. req[r].op = "reminder" \/ req[r].op = "demotion"
    BY <1>1, <1>3 DEF FindDue, At, Slot
  <2>4. CASE Return(r)
    BY <1>3, <2>4, ReturnStep DEF FindDue
  <2>5. CASE ~ Return(r)
    <3> DEFINE pc == IF req[r].op = "reminder" THEN "send" ELSE "demote"
    <3>1. req' = [req EXCEPT ![r] = [@ EXCEPT !.pc = pc,
                                     !.todo = {<<u, row[u].x, row[u].ends>> : u \in due}]]
      BY <1>3, <2>5, Zenon DEF FindDue
    <3>2. pc \in {"send", "demote"} /\ (pc = "demote" => req[r].op = "demotion")
      BY <2>3
    <3> HIDE DEF due, pc
    <3> QED
      BY <2>1, <2>2, <3>1, <3>2
  <2> QED
    BY <2>4, <2>5
<1>4. ASSUME NEW d \in req[r].todo, SendReminder(r),
             mailed' = [mailed EXCEPT ![d[2]][d[3]] = OneMore(@)],
             req' = [req EXCEPT ![r] = [@ EXCEPT !.pc = "mark", !.u = d[1]]]
      PROVE  Inv'
  <2>1. PICK q : q = [req[r] EXCEPT !.pc = "mark", !.u = d[1]]
    OBVIOUS
  <2>2. q \in Request /\ q.pc = "mark" /\ q.u \in Users
    BY <1>1, <1>2, <2>1 DEF Request, Steps
  <2>3. Slot(q, stripe, row)
    BY <2>2 DEF Slot
  <2>4. Becomes(r, q)
    BY <1>4, <2>1 DEF Becomes
  <2>5. /\ stripe' = stripe /\ events' = events /\ week' = week /\ row' = row /\ tier' = tier
        /\ payments' = payments /\ processed' = processed
    BY <1>4 DEF SendReminder, tables
  <2>6. mailed' \in [Subs -> [Weeks -> Tally]]
    <3>1. mailed \in [Subs -> [Weeks -> Tally]] /\ d[2] \in Subs /\ d[3] \in Weeks
      BY <1>1, <1>2 DEF CountsOK
    <3>2. OneMore(mailed[d[2]][d[3]]) \in Tally
      BY <3>1 DEF Tally, OneMore
    <3> QED
      BY <1>4, <3>1, <3>2
  <2>7. Data' /\ Grown
    BY <1>1, <2>5, <2>6 DEF Data, StripeOK, EventsOK, RowsOK, CountsOK, PaidIn, Grown
  <2> QED
    BY <2>3, <2>4, <2>5, <2>7, SlotStep
<1>5. ASSUME NEW u \in Users, NEW pc \in {"send", "demote"}, NEW d, Finish(r, d, pc),
             pc = "demote" => req[r].op = "demotion",
             NEW t \in {"free", "premium"}, tier' = [tier EXCEPT ![u] = t], t \in {"free", tier[u]},
             NEW new \in Row, row' = [row EXCEPT ![u] = new], new.x = row[u].x,
             new.status = row[u].status,
             UNCHANGED <<stripe, events, week, payments, processed, mailed>>
      PROVE  Inv'
  <2>1. PICK q : Becomes(r, q) /\ Slot(q, stripe, row')
    BY <1>5, FinishSlot
  <2>2. row[u].x # NoSub \/ new.status # "none" \/ t = "premium" => new.x # NoSub
    BY <1>1, <1>5 DEF RowsOK
  <2>3. new.x # NoSub => PaidIn(stripe, new.x) /\ stripe[new.x].owner = u
    BY <1>1, <1>5 DEF RowsOK
  <2> QED
    BY <1>5, <2>1, <2>2, <2>3, WriteStep
<1>6. CASE MarkReminded(r)
  <2>1. req[r].u \in Users
    BY <1>1, <1>6 DEF MarkReminded, At, Slot
  <2>2. PICK d : Finish(r, d, "send")
    BY <1>6 DEF MarkReminded
  <2> DEFINE u == req[r].u
             new == [x |-> row[u].x, status |-> row[u].status, ends |-> row[u].ends,
                     reminded |-> TRUE]
  <2>3. row \in [Users -> Row] /\ row[u] \in Row /\ tier \in [Users -> {"free", "premium"}]
    BY <1>1, <2>1 DEF RowsOK
  <2>4. [row EXCEPT ![u] = new] = [row EXCEPT ![u].reminded = TRUE]
    BY <2>1, <2>3 DEF Row
  <2>5. row' = [row EXCEPT ![u] = new] /\ tier' = [tier EXCEPT ![u] = tier[u]]
    BY <1>6, <2>1, <2>3, <2>4 DEF MarkReminded
  <2>6. new \in Row /\ new.x = row[u].x /\ new.status = row[u].status
    BY <2>1, <2>3 DEF Row
  <2>7. tier[u] \in {"free", "premium"} /\ "send" \in {"send", "demote"}
    BY <2>1, <2>3
  <2>8. UNCHANGED <<stripe, events, week, payments, processed, mailed>>
    BY <1>6 DEF MarkReminded
  <2> HIDE DEF new
  <2> QED
    BY <1>5, <2>1, <2>2, <2>5, <2>6, <2>7, <2>8
<1>7. CASE Demote(r)
  <2>1. PICK d \in req[r].todo : tier' = [tier EXCEPT ![d[1]] = "free"] /\ Finish(r, d, "demote")
    BY <1>7 DEF Demote
  <2>2. req[r].op = "demotion"
    BY <1>1, <1>7 DEF Demote, At, Slot
  <2>3. d[1] \in Users
    BY <1>2
  <2>4. row \in [Users -> Row] /\ row' = row
    BY <1>1, <1>7 DEF RowsOK, Demote
  <2>5. row[d[1]] \in Row /\ row' = [row EXCEPT ![d[1]] = row[d[1]]]
    BY <2>3, <2>4
  <2>6. UNCHANGED <<stripe, events, week, payments, processed, mailed>>
    BY <1>7 DEF Demote
  <2> QED
    BY <1>5, <2>1, <2>2, <2>3, <2>5, <2>6
<1> QED
  BY <1>3, <1>4, <1>6, <1>7 DEF SendReminder

-----------------------------------------------------------------------------
\* The steps together.
LEMMA NextInv == Inv /\ [Next]_vars => Inv'
<1> SUFFICES ASSUME Inv, [Next]_vars PROVE Inv'
  OBVIOUS
<1>1. CASE UNCHANGED vars
  <2>1. /\ stripe' = stripe /\ events' = events /\ row' = row /\ tier' = tier
        /\ payments' = payments /\ processed' = processed /\ mailed' = mailed
        /\ week' = week /\ req' = req
    BY <1>1 DEF vars
  <2> QED
    BY <2>1 DEF Inv, Data, StripeOK, EventsOK, RowsOK, CountsOK, PaidIn
<1>2. ASSUME NEW r \in Requests, Step(r) PROVE Inv'
  BY <1>2, CheckoutStep, FulfilmentStep, TransactionStep, RecordStep, JobStep DEF Step
<1>3. ASSUME NEW r \in Requests, Abort(r) PROVE Inv'
  BY <1>3, ReturnStep DEF Abort
<1> QED
  BY <1>1, <1>2, <1>3, ArriveStep, AtStripeStep, TickStep DEF Next

\* Handlers find their slots as the steps before left them: what they hold of
\* Stripe's data is about a subscription that is paid, and the user they found
\* its owner.
THEOREM Invariance == Spec => []Inv
<1> QED
  BY InitInv, NextInv, PTL DEF Spec

\* Every column and every field of a handler holds what its type says.
THEOREM TypeCorrect == Spec => []TypeOK
<1>1. Inv => TypeOK
  BY DEF Inv, Data, StripeOK, EventsOK, RowsOK, CountsOK, TypeOK
<1> QED
  BY <1>1, Invariance, PTL

\* Nobody is premium for somebody else's money or for none, whichever of the
\* webhook, confirm-session and the jobs write users.tierId, in any interleaving.
THEOREM PremiumIsPaid == Spec => []PremiumBacked
<1>1. Inv => PremiumBacked
  BY DEF Inv, Data, RowsOK, PremiumBacked, Paid, PaidIn
<1> QED
  BY <1>1, Invariance, PTL

\* A handler remains what it is until it ends.
LEMMA StepKeepsOp ==
    ASSUME req \in [Requests -> Request], NEW r \in Requests, Step(r)
    PROVE  /\ req'[r].op \in {req[r].op, "none"}
           /\ \A s \in Requests \ {r} : req'[s] = req[s]
<1> DEFINE Kept == /\ req'[r].op \in {req[r].op, "none"}
                   /\ \A s \in Requests \ {r} : req'[s] = req[s]
<1>1. req[r] \in Request
  OBVIOUS
<1>2. ASSUME NEW q, req' = [req EXCEPT ![r] = q], q.op \in {req[r].op, "none"} PROVE Kept
  BY <1>2
<1> SUFFICES Kept
  OBVIOUS
<1> HIDE DEF Kept
<1>3. ASSUME NEW pc, Goto(r, pc) PROVE Kept
  <2>1. PICK q : q = [req[r] EXCEPT !.pc = pc]
    OBVIOUS
  <2>2. q.op = req[r].op /\ req' = [req EXCEPT ![r] = q]
    BY <1>1, <1>3, <2>1 DEF Request, Goto
  <2> QED
    BY <1>2, <2>2
<1>4. ASSUME Return(r) PROVE Kept
  BY <1>2, <1>4 DEF Return, Idle
<1>5. ASSUME NEW pc, NEW u, req' = [req EXCEPT ![r] = [@ EXCEPT !.pc = pc, !.u = u]] PROVE Kept
  <2>1. PICK q : q = [req[r] EXCEPT !.pc = pc, !.u = u]
    OBVIOUS
  <2>2. q.op = req[r].op /\ req' = [req EXCEPT ![r] = q]
    BY <1>1, <1>5, <2>1 DEF Request
  <2> QED
    BY <1>2, <2>2
<1>6. CASE FindSub(r)
  <2>1. CASE \E pc : Goto(r, pc)
    <3>1. PICK pc : Goto(r, pc)
      BY <2>1
    <3> QED
      BY <1>3, <3>1
  <2>2. CASE ~ \E pc : Goto(r, pc)
    <3>1. PICK pc, u : req' = [req EXCEPT ![r] = [@ EXCEPT !.pc = pc, !.u = u]]
      BY <1>6, <2>2, Zenon DEF FindSub
    <3> QED
      BY <1>5, <3>1
  <2> QED
    BY <2>1, <2>2
<1>7. CASE FindUser(r)
  <2>1. PICK pc, u, had :
            req' = [req EXCEPT ![r] = [@ EXCEPT !.pc = pc, !.u = u, !.hadRow = had]]
    BY <1>7 DEF FindUser
  <2>2. PICK q : q = [req[r] EXCEPT !.pc = pc, !.u = u, !.hadRow = had]
    OBVIOUS
  <2>3. q.op = req[r].op /\ req' = [req EXCEPT ![r] = q]
    BY <1>1, <2>1, <2>2 DEF Request
  <2> QED
    BY <1>2, <2>3
<1>8. CASE Retrieve(r)
  <2>1. PICK pc, status, ends :
            req' = [req EXCEPT ![r] = [@ EXCEPT !.pc = pc, !.status = status, !.ends = ends]]
    BY <1>8 DEF Retrieve
  <2>2. PICK q : q = [req[r] EXCEPT !.pc = pc, !.status = status, !.ends = ends]
    OBVIOUS
  <2>3. q.op = req[r].op /\ req' = [req EXCEPT ![r] = q]
    BY <1>1, <2>1, <2>2 DEF Request
  <2> QED
    BY <1>2, <2>3
<1>9. CASE FindDue(r) /\ ~ Return(r)
  <2>1. PICK pc, todo : req' = [req EXCEPT ![r] = [@ EXCEPT !.pc = pc, !.todo = todo]]
    BY <1>9 DEF FindDue
  <2>2. PICK q : q = [req[r] EXCEPT !.pc = pc, !.todo = todo]
    OBVIOUS
  <2>3. q.op = req[r].op /\ req' = [req EXCEPT ![r] = q]
    BY <1>1, <2>1, <2>2 DEF Request
  <2> QED
    BY <1>2, <2>3
<1>10. CASE SendReminder(r)
  <2>1. PICK u : req' = [req EXCEPT ![r] = [@ EXCEPT !.pc = "mark", !.u = u]]
    BY <1>10 DEF SendReminder
  <2> QED
    BY <1>5, <2>1
<1>11. ASSUME NEW d, NEW pc, Finish(r, d, pc), ~ Return(r) PROVE Kept
  <2>1. PICK todo, u : req' = [req EXCEPT ![r] = [@ EXCEPT !.pc = pc, !.todo = todo, !.u = u]]
    BY <1>11, Zenon DEF Finish
  <2>2. PICK q : q = [req[r] EXCEPT !.pc = pc, !.todo = todo, !.u = u]
    OBVIOUS
  <2>3. q.op = req[r].op /\ req' = [req EXCEPT ![r] = q]
    BY <1>1, <2>1, <2>2 DEF Request
  <2> QED
    BY <1>2, <2>3
<1>12. CASE MarkReminded(r) \/ Demote(r)
  <2>1. PICK d, pc : Finish(r, d, pc)
    BY <1>12 DEF MarkReminded, Demote
  <2> QED
    BY <1>4, <1>11, <2>1
<1> QED
  BY <1>3, <1>4, <1>6, <1>7, <1>8, <1>9, <1>10, <1>12
     DEF Step, ReadTier, ReadRow, OpenSession, CheckProcessed, Upsert, ApplyUpdate,
         CancelRow, RecordPayment, RecordEvent, ReadSession

\* Without the demotion job a user whose row is active is premium: the webhook's
\* transactions write row and tier together, and confirm-session does too.
THEOREM ActiveRowsArePremium ==
    ASSUME "demotion" \notin Ops
    PROVE  Spec => []ActiveRowPremium
<1> DEFINE NoDemotion == \A r \in Requests : req[r].op # "demotion"
           Both == NoDemotion /\ ActiveRowPremium
<1>1. Init => Both
  BY DEF Init, Idle, NoRow, ActiveRowPremium
<1>2. Inv /\ Both /\ [Next]_vars => Both'
  <2> SUFFICES ASSUME Inv, Both, [Next]_vars PROVE Both'
    OBVIOUS
  <2>1. RowsOK /\ req \in [Requests -> Request]
    BY DEF Inv, Data
  <2>2. ASSUME UNCHANGED <<row, tier>> PROVE ActiveRowPremium'
    BY <2>2 DEF ActiveRowPremium
  <2>3. ASSUME NEW r \in Requests, Step(r) PROVE Both'
    <3>1. NoDemotion'
      BY <2>1, <2>3, StepKeepsOp
    <3>2. req[r].op # "demotion" /\ Slot(req[r], stripe, row)
      BY DEF Inv
    <3>3. CASE ApplyUpdate(r) \/ CancelRow(r) \/ MarkReminded(r)
      <4>1. req[r].u \in Users
        BY <3>2, <3>3 DEF ApplyUpdate, CancelRow, MarkReminded, At, Slot
      <4>2. \A u \in Users \ {req[r].u} : row'[u] = row[u] /\ tier'[u] = tier[u]
        BY <2>1, <3>3 DEF ApplyUpdate, CancelRow, MarkReminded, RowsOK
      <4>3. row'[req[r].u].status = "active" => tier'[req[r].u] = "premium"
        BY <2>1, <3>3, <4>1 DEF ApplyUpdate, CancelRow, MarkReminded, RowsOK, Row,
                                ActiveRowPremium
      <4> QED
        BY <3>1, <4>2, <4>3 DEF ActiveRowPremium
    <3>4. CASE Upsert(r)
      <4>1. CASE Fulfill(req[r].u, req[r].x, req[r].status, req[r].ends)
        BY <2>1, <3>1, <4>1 DEF Fulfill, RowsOK, ActiveRowPremium
      <4> QED
        BY <2>2, <3>1, <3>4, <4>1 DEF Upsert
    <3>5. ~ Demote(r)
      BY <3>2 DEF Demote, At, Slot
    <3>6. CASE UNCHANGED <<row, tier>>
      BY <2>2, <3>1, <3>6
    <3> QED
      BY <2>3, <3>3, <3>4, <3>5, <3>6
         DEF Step, ReadTier, ReadRow, OpenSession, CheckProcessed, FindSub, FindUser, Retrieve,
             RecordPayment, RecordEvent, ReadSession, FindDue, SendReminder, ReadOnly, tables
  <2>4. ASSUME NEW r \in Requests, Abort(r) \/ Arrive(r) PROVE Both'
    <3>1. UNCHANGED <<row, tier>>
      BY <2>4 DEF Abort, Arrive, StartCheckout, Deliver, StartConfirm, StartJob, Start,
                  ReadOnly, tables
    <3>2. NoDemotion'
      <4>1. CASE Abort(r)
        BY <2>1, <4>1 DEF Abort, Return, Idle
      <4>2. ASSUME NEW q, Start(r, q) PROVE NoDemotion'
        BY <2>1, <4>2 DEF Start
      <4> QED
        BY <2>4, <4>1, <4>2 DEF Arrive, StartCheckout, Deliver, StartConfirm, StartJob
    <3> QED
      BY <2>2, <3>1, <3>2
  <2>5. CASE AtStripe \/ Tick \/ UNCHANGED vars
    <3>1. UNCHANGED <<row, tier, req>>
      BY <2>5 DEF AtStripe, CompleteUnpaid, Pay, Renew, FailRenewal, CancelAtStripe, Quiet,
                  Tick, vars
    <3> QED
      BY <2>2, <3>1
  <2> QED
    BY <2>3, <2>4, <2>5 DEF Next
<1>3. Both => ActiveRowPremium
  OBVIOUS
<1> QED
  BY <1>1, <1>2, <1>3, Invariance, PTL DEF Spec
=============================================================================
