------------------------ MODULE BillingBooksProofs -------------------------
(***************************************************************************)
(* What the code does once, for any number of users, subscriptions,        *)
(* events, weeks and handlers at the same time.  Two deliveries of one     *)
(* event must not overlap (OneDelivery), which the code does not see to:   *)
(* then no reminder is sent twice, in whatever order the events come, and  *)
(* when they come in order the handlers implement BillingLedger; both only *)
(* as long as no handler is cut off.  Whatever is cut off, no invoice is   *)
(* acknowledged without its payment, and when nothing runs beside the      *)
(* demotion job (DemotionAlone, which the code does not see to either) the *)
(* tables end up as Stripe has the subscriptions.                          *)
(***************************************************************************)
EXTENDS BillingProofs

\* Event e says that the checkout of x is paid.
Announces(e, x) == e.type = "checkout" /\ e.status # "unpaid" /\ e.x = x

\* A checkout is paid once.
OneCheckout ==
    \A e, f \in events, x \in Subs : Announces(e, x) /\ Announces(f, x) => e = f

\* The events that say how subscription x stands, and those that say when its
\* period ends.
News(x) == {e \in events : e.x = x /\ e.type \in {"updated", "deleted"}}
Periods(x) == {e \in events : e.x = x /\ e.type = "updated"}

\* e is the last of es.
Last(e, es) == \A f \in es : f.id <= e.id

\* Events are numbered from 1 on.
Numbered ==
    /\ \A e \in events : e.id \in 1..Cardinality(events)
    /\ \A e, f \in events : e.id = f.id => e = f

\* The last event about a subscription says how Stripe has it, and what is not as
\* the checkout brought it has been announced, after the checkout.
Truthful ==
    /\ \A e \in events :
        /\ stripe[e.x].status # "none"
        /\ e.type = "checkout" => e.status \in {"paid", "unpaid"}
        /\ e.type = "deleted" => stripe[e.x].status = "canceled"
        /\ e.type = "updated" /\ Last(e, News(e.x)) => e.status = stripe[e.x].status
        /\ e.type = "updated" /\ Last(e, Periods(e.x)) => e.ends = stripe[e.x].ends
    /\ \A x \in Subs :
        /\ stripe[x].status \in {"past_due", "canceled"} => News(x) # {}
        /\ \A e \in News(x) : PaidIn(stripe, x) /\ \A c \in events : Announces(c, x) => c.id < e.id

\* The numbers and the contents.
Log == Numbered /\ Truthful

\* All that is always true of the log.
LogInv == Log /\ OneCheckout

-----------------------------------------------------------------------------
\* Of two events Stripe emits together, one announces the checkout.
LEMMA EmittedApart ==
    ASSUME EventsOK, NEW x \in Subs, NEW ends \in Weeks, NEW a, NEW b,
           NEW one, NEW other, one # other, a[1] = one, b[1] = other,
           Emit(x, ends, {a, b})
    PROVE  \A e, f \in events' \ events : e.type = one /\ f.type = one => e = f
<1>1. Cardinality({a, b}) = 2 /\ a # b
  <2>1. IsFiniteSet({b}) /\ Cardinality({b}) = 1
    BY FS_Singleton
  <2>2. PICK s : s = {b}
    OBVIOUS
  <2>3. IsFiniteSet(s) /\ a \notin s /\ Cardinality(s) = 1 /\ {a, b} = s \cup {a}
    BY <2>1, <2>2
  <2>4. Cardinality(s \cup {a}) = Cardinality(s) + 1
    BY <2>3, FS_AddElement
  <2> QED
    BY <2>3, <2>4
<1> DEFINE n == Cardinality(events)
           record(order, i) == [id |-> n + i, type |-> order[i][1], x |-> x,
                                status |-> order[i][2], ends |-> ends]
<1>2. PICK order \in [1..2 -> {a, b}] :
        /\ \A t \in {a, b} : \E i \in DOMAIN order : order[i] = t
        /\ events' = events \cup {[id |-> n + i, type |-> order[i][1], x |-> x,
                                status |-> order[i][2], ends |-> ends] : i \in DOMAIN order}
  BY <1>1 DEF Emit
<1>3. events' = events \cup {record(order, 1), record(order, 2)}
  <2>1. DOMAIN order = {1, 2}
    BY <1>2
  <2> QED
    BY <1>2, <2>1
<1>4. order[1] # order[2] /\ order[1] \in {a, b} /\ order[2] \in {a, b}
  BY <1>1, <1>2
<1>5. record(order, 1).type = order[1][1] /\ record(order, 2).type = order[2][1]
  OBVIOUS
<1> HIDE DEF record
<1> QED
  BY <1>3, <1>4, <1>5

\* What is emitted is about x and of the given types.
LEMMA EmittedOf ==
    ASSUME NEW x, NEW ends, NEW ts, Emit(x, ends, ts)
    PROVE  /\ events \subseteq events'
           /\ \A e \in events' \ events :
                e.x = x /\ \E t \in ts : e.type = t[1] /\ e.status = t[2]
<1> DEFINE n == Cardinality(events)
<1>1. PICK order \in [1..Cardinality(ts) -> ts] :
        events' = events \cup {[id |-> n + i, type |-> order[i][1], x |-> x,
                                status |-> order[i][2], ends |-> ends] : i \in DOMAIN order}
  BY DEF Emit
<1> QED
  BY <1>1

\* What a step emits.
Fresh == events' \ events

\* Events are numbered as they are emitted.
LEMMA EmittedInOrder ==
    ASSUME EventsOK, Numbered, NEW x \in Subs, NEW ends \in Weeks,
           NEW ts \in SUBSET (EventTypes \X (Statuses \cup {"paid", "unpaid"})),
           IsFiniteSet(ts), Emit(x, ends, ts)
    PROVE  /\ events \subseteq events' /\ Numbered'
           /\ Cardinality(events) <= Cardinality(events')
           /\ \A e \in Fresh : /\ e.x = x /\ e.ends = ends /\ <<e.type, e.status>> \in ts
                               /\ Cardinality(events) < e.id
           /\ \A t \in ts : \E e \in Fresh : e.type = t[1] /\ e.status = t[2]
<1> DEFINE n == Cardinality(events)
           m == Cardinality(ts)
<1>1. n \in Nat /\ m \in Nat
  BY FS_CardinalityType DEF EventsOK
<1>2. PICK order \in [1..m -> ts] :
        /\ \A t \in ts : \E i \in DOMAIN order : order[i] = t
        /\ events' = events \cup {[id |-> n + i, type |-> order[i][1], x |-> x,
                                status |-> order[i][2], ends |-> ends] : i \in DOMAIN order}
  BY DEF Emit
<1>3. events' \subseteq Event /\ \A e \in Fresh : e.x = x /\ <<e.type, e.status>> \in ts
  BY Emitted DEF Fresh
<1>4. \A e \in events : e.id \in 1..n
  BY DEF Numbered
<1> HIDE DEF n, m
<1> DEFINE record(i) == [id |-> n + i, type |-> order[i][1], x |-> x,
                         status |-> order[i][2], ends |-> ends]
           new == {record(i) : i \in 1..m}
<1>5. events' = events \cup new
  BY <1>2
<1>6. \A i \in 1..m : /\ record(i).id = n + i /\ record(i).type = order[i][1]
                      /\ record(i).status = order[i][2] /\ record(i).ends = ends
  OBVIOUS
<1>7. \A i, j \in 1..m : record(i) = record(j) => i = j
  <2> SUFFICES ASSUME NEW i \in 1..m, NEW j \in 1..m, record(i) = record(j) PROVE i = j
    OBVIOUS
  <2>1. n + i = n + j
    BY <1>6
  <2> QED
    BY <1>1, <2>1
<1> HIDE DEF record
<1>8. new = Fresh
  <2>1. \A i \in 1..m : record(i) \notin events
    BY <1>1, <1>4, <1>6
  <2> QED
    BY <1>5, <2>1 DEF Fresh
<1>9. IsFiniteSet(new) /\ Cardinality(new) = m
  <2> DEFINE f == [i \in 1..m |-> record(i)]
  <2>1. f \in Surjection(1..m, new) /\ f \in Injection(1..m, new)
    <3>1. \A i \in 1..m : f[i] = record(i)
      OBVIOUS
    <3>2. \A i \in 1..m : record(i) \in new
      OBVIOUS
    <3>3. \A y \in new : \E i \in 1..m : y = record(i)
      OBVIOUS
    <3>4. f \in [1..m -> new]
      BY <3>2
    <3> HIDE DEF f, new
    <3>5. \A a, b \in 1..m : f[a] = f[b] => a = b
      BY <1>7, <3>1
    <3>6. \A t \in new : \E s \in 1..m : f[s] = t
      BY <3>1, <3>3
    <3> QED
      BY <3>4, <3>5, <3>6 DEF Surjection, Injection, IsInjective
  <2>2. IsFiniteSet(1..m) /\ Cardinality(1..m) = m
    <3>1. 1 \in Int /\ m \in Int /\ (1 > m => m = 0) /\ m - 1 + 1 = m
      BY <1>1
    <3> HIDE DEF f, new
    <3>2. /\ IsFiniteSet(1..m)
          /\ Cardinality(1..m) = IF 1 > m THEN 0 ELSE m - 1 + 1
      BY ONLY <3>1, FS_Interval
    <3> QED
      BY ONLY <3>1, <3>2
  <2> HIDE DEF f, new
  <2> QED
    BY <2>1, <2>2, FS_Surjection
<1>10. Cardinality(events') = n + m
  <2>1. events \cap new = {}
    BY <1>8 DEF Fresh
  <2> HIDE DEF new
  <2>2. IsFiniteSet(events)
    BY DEF EventsOK
  <2>3. Cardinality(events \cup new) =
            Cardinality(events) + Cardinality(new) - Cardinality(events \cap new)
    BY <1>9, <2>2, FS_Union
  <2>4. Cardinality(events \cap new) = 0
    BY <2>1, FS_EmptySet
  <2> QED
    BY <1>1, <1>5, <1>9, <2>3, <2>4 DEF n
<1>11. \A e \in Fresh : \E i \in 1..m : e = record(i)
  BY <1>8
<1>12. Numbered'
  <2>1. \A e \in events' : e.id \in 1..(n + m)
    BY <1>1, <1>4, <1>6, <1>11 DEF Fresh
  <2>2. \A e, f \in events' : e.id = f.id => e = f
    <3> SUFFICES ASSUME NEW e \in events', NEW f \in events', e.id = f.id PROVE e = f
      OBVIOUS
    <3>1. CASE e \in events /\ f \in events
      BY <3>1 DEF Numbered
    <3>2. CASE e \in Fresh /\ f \in Fresh
      <4>1. PICK i \in 1..m, j \in 1..m : e = record(i) /\ f = record(j)
        BY <1>11, <3>2
      <4>2. n + i = n + j
        BY <1>6, <4>1
      <4> QED
        BY <1>1, <4>1, <4>2
    <3>3. ASSUME NEW g \in events, NEW h \in Fresh PROVE g.id # h.id
      <4>1. PICK i \in 1..m : h = record(i)
        BY <1>11
      <4> QED
        BY <1>1, <1>4, <1>6, <4>1
    <3> QED
      BY <3>1, <3>2, <3>3 DEF Fresh
  <2> QED
    BY <1>10, <2>1, <2>2 DEF Numbered
<1>13. \A e \in Fresh : e.ends = ends /\ n < e.id
  BY <1>1, <1>6, <1>11
<1>14. \A t \in ts : \E e \in Fresh : e.type = t[1] /\ e.status = t[2]
  <2> SUFFICES ASSUME NEW t \in ts PROVE \E e \in Fresh : e.type = t[1] /\ e.status = t[2]
    OBVIOUS
  <2>1. PICK i \in 1..m : order[i] = t
    BY <1>2
  <2>2. record(i) \in Fresh
    BY <1>8
  <2> QED
    BY <1>6, <2>1, <2>2
<1>15. n <= Cardinality(events')
  BY <1>1, <1>10
<1> QED
  BY <1>3, <1>5, <1>12, <1>13, <1>14, <1>15 DEF n

\* What Stripe's steps have in common: something happens to one subscription, and
\* what its rows say is announced.
Says(x) ==
    /\ \A y \in Subs \ {x} : stripe'[y] = stripe[y]
    /\ stripe'[x].owner = stripe[x].owner
    /\ events \subseteq events' /\ Cardinality(events) <= Cardinality(events')
    /\ \A e \in Fresh : /\ e.x = x /\ Cardinality(events) < e.id
                        /\ e.type = "checkout" => e.status \in {"paid", "unpaid"}
    /\ \/ /\ stripe[x].status = "offered"
          /\ stripe'[x] = stripe[x] \/ stripe'[x].status = "active"
          /\ \A e \in Fresh : e.type \notin {"updated", "deleted"}
       \/ /\ stripe[x].status \in {"active", "past_due"} /\ PaidIn(stripe', x)
          /\ stripe'[x].status # "canceled"
          /\ \E e \in Fresh : /\ e.type = "updated" /\ e.status = stripe'[x].status
                              /\ e.ends = stripe'[x].ends
          /\ \A e \in Fresh : /\ e.type \notin {"checkout", "deleted"}
                              /\ e.type = "updated" => /\ e.status = stripe'[x].status
                                                       /\ e.ends = stripe'[x].ends
       \/ /\ stripe[x].status \in {"active", "past_due"}
          /\ stripe'[x].status = "canceled" /\ stripe'[x].ends = stripe[x].ends
          /\ \E e \in Fresh : e.type = "deleted"
          /\ \A e \in Fresh : e.type = "deleted"

\* Each of Stripe's steps is of this kind.
LEMMA StripeSays ==
    ASSUME Inv, Numbered, AtStripe PROVE Quiet /\ Numbered' /\ \E x \in Subs : Says(x)
<1>1. StripeOK /\ EventsOK /\ CountsOK
  BY DEF Inv, Data
<1>2. PICK x \in Subs :
        CompleteUnpaid(x) \/ Pay(x) \/ Renew(x) \/ FailRenewal(x) \/ CancelAtStripe(x)
  BY DEF AtStripe
<1>3. Quiet
  BY <1>2 DEF CompleteUnpaid, Pay, Renew, FailRenewal, CancelAtStripe
<1> DEFINE Pairs == EventTypes \X (Statuses \cup {"paid", "unpaid"})
<1>4. /\ week \in Weeks /\ week + Month \in Weeks /\ stripe[x].ends \in Weeks
      /\ stripe[x].ends <= week => stripe[x].ends + Month \in Weeks
  BY <1>1, Constants DEF CountsOK, StripeOK, Weeks, Month
<1>5. \A a, b : IsFiniteSet({a}) /\ IsFiniteSet({a, b})
  <2> SUFFICES ASSUME NEW a, NEW b PROVE IsFiniteSet({a}) /\ IsFiniteSet({a, b})
    OBVIOUS
  <2>1. IsFiniteSet({a})
    BY FS_Singleton
  <2>2. {a, b} = {a} \cup {b}
    OBVIOUS
  <2> QED
    BY <2>1, <2>2, FS_AddElement
<1>6. ASSUME NEW status, NEW ends, Turn(x, status, ends)
      PROVE  /\ stripe'[x].owner = stripe[x].owner
             /\ stripe'[x].status = status /\ stripe'[x].ends = ends
             /\ \A y \in Subs \ {x} : stripe'[y] = stripe[y]
  BY <1>1, <1>6 DEF Turn, StripeOK
<1>7. ASSUME NEW ends \in Weeks, NEW ts \in SUBSET Pairs, IsFiniteSet(ts), Emit(x, ends, ts)
      PROVE  /\ events \subseteq events' /\ Numbered'
             /\ Cardinality(events) <= Cardinality(events')
             /\ \A e \in Fresh : /\ e.x = x /\ e.ends = ends /\ Cardinality(events) < e.id
                                 /\ \E t \in ts : t[1] = e.type /\ t[2] = e.status
             /\ \A t \in ts : \E e \in Fresh : e.type = t[1] /\ e.status = t[2]
  <2>1. /\ events \subseteq events' /\ Numbered'
        /\ Cardinality(events) <= Cardinality(events')
        /\ \A e \in Fresh : /\ e.x = x /\ e.ends = ends /\ <<e.type, e.status>> \in ts
                            /\ Cardinality(events) < e.id
        /\ \A t \in ts : \E e \in Fresh : e.type = t[1] /\ e.status = t[2]
    BY <1>1, <1>7, EmittedInOrder
  <2>2. \A e \in Fresh : \E t \in ts : t[1] = e.type /\ t[2] = e.status
    <3> SUFFICES ASSUME NEW e \in Fresh PROVE \E t \in ts : t[1] = e.type /\ t[2] = e.status
      OBVIOUS
    <3>1. PICK t \in ts : t = <<e.type, e.status>>
      BY <2>1
    <3> QED
      BY <3>1
  <2> QED
    BY <2>1, <2>2
<1>8. CASE CompleteUnpaid(x)
  <2> DEFINE ts == {<<"checkout", "unpaid">>}
  <2>1. ts \in SUBSET Pairs
    BY DEF EventTypes
  <2>2. IsFiniteSet(ts)
    BY <1>5, Zenon
  <2>3. Emit(x, week, ts)
    BY <1>8 DEF CompleteUnpaid
  <2>4. \A t \in ts : t[1] = "checkout" /\ t[2] = "unpaid"
    OBVIOUS
  <2> HIDE DEF ts
  <2>5. /\ events \subseteq events' /\ Numbered' /\ Cardinality(events) <= Cardinality(events')
        /\ \A e \in Fresh : /\ e.x = x /\ Cardinality(events) < e.id
                            /\ e.type = "checkout" /\ e.status = "unpaid"
    BY <1>4, <1>7, <2>1, <2>2, <2>3, <2>4
  <2>8. Says(x)
    BY <1>8, <2>5 DEF CompleteUnpaid, Says
  <2> QED
    BY <1>3, <2>8, <2>5
<1>9. CASE Pay(x)
  <2> DEFINE ts == {<<"checkout", "paid">>, <<"invoice", "paid">>}
  <2>1. ts \in SUBSET Pairs
    BY DEF EventTypes
  <2>2. IsFiniteSet(ts)
    BY <1>5, Zenon
  <2>3. Emit(x, week + Month, ts) /\ Turn(x, "active", week + Month)
    BY <1>9 DEF Pay
  <2>4. \A t \in ts : t[1] \in {"checkout", "invoice"} /\ t[2] = "paid"
    OBVIOUS
  <2> HIDE DEF ts
  <2>5. /\ events \subseteq events' /\ Numbered' /\ Cardinality(events) <= Cardinality(events')
        /\ \A e \in Fresh : /\ e.x = x /\ Cardinality(events) < e.id
                            /\ e.type \in {"checkout", "invoice"} /\ e.status = "paid"
    BY <1>4, <1>7, <2>1, <2>2, <2>3, <2>4
  <2>8. Says(x)
    BY <1>6, <1>9, <2>3, <2>5 DEF Pay, Says
  <2> QED
    BY <1>3, <2>8, <2>5
<1>10. CASE Renew(x)
  <2> DEFINE ts == {<<"updated", "active">>, <<"invoice", "paid">>}
  <2>1. ts \in SUBSET Pairs
    BY DEF EventTypes, Statuses
  <2>2. IsFiniteSet(ts)
    BY <1>5, Zenon
  <2>3. PICK ends \in Weeks : ends = stripe[x].ends + Month
    BY <1>4, <1>10 DEF Renew
  <2>4. Emit(x, ends, ts) /\ Turn(x, "active", ends)
    BY <1>10, <2>3 DEF Renew
  <2>5. /\ \A t \in ts : t[1] \in {"updated", "invoice"} /\ (t[1] = "updated" => t[2] = "active")
        /\ \E t \in ts : t[1] = "updated" /\ t[2] = "active"
    OBVIOUS
  <2> HIDE DEF ts
  <2>6. /\ events \subseteq events' /\ Numbered' /\ Cardinality(events) <= Cardinality(events')
        /\ \A e \in Fresh : /\ e.x = x /\ Cardinality(events) < e.id /\ e.ends = ends
                            /\ e.type \in {"updated", "invoice"}
                            /\ e.type = "updated" => e.status = "active"
        /\ \E e \in Fresh : e.type = "updated" /\ e.status = "active"
    BY <1>7, <2>1, <2>2, <2>4, <2>5
  <2>7. "active" \in Statuses
    BY DEF Statuses
  <2>8. Says(x)
    BY <1>6, <1>10, <2>4, <2>6, <2>7 DEF Renew, Says, PaidIn
  <2> QED
    BY <1>3, <2>8, <2>6
<1>11. CASE FailRenewal(x)
  <2> DEFINE ts == {<<"updated", "past_due">>}
  <2>1. ts \in SUBSET Pairs
    BY DEF EventTypes, Statuses
  <2>2. IsFiniteSet(ts)
    BY <1>5, Zenon
  <2>3. PICK ends \in Weeks : ends = stripe[x].ends
    BY <1>4
  <2>4. Emit(x, ends, ts) /\ Turn(x, "past_due", ends)
    BY <1>11, <2>3 DEF FailRenewal
  <2>5. /\ \A t \in ts : t[1] = "updated" /\ t[2] = "past_due"
        /\ \E t \in ts : t[1] = "updated" /\ t[2] = "past_due"
    OBVIOUS
  <2> HIDE DEF ts
  <2>6. /\ events \subseteq events' /\ Numbered' /\ Cardinality(events) <= Cardinality(events')
        /\ \A e \in Fresh : /\ e.x = x /\ Cardinality(events) < e.id /\ e.ends = ends
                            /\ e.type = "updated" /\ e.status = "past_due"
        /\ \E e \in Fresh : e.type = "updated"
    BY <1>7, <2>1, <2>2, <2>4, <2>5
  <2>7. "past_due" \in Statuses
    BY DEF Statuses
  <2>8. Says(x)
    BY <1>6, <1>11, <2>4, <2>6, <2>7 DEF FailRenewal, Says, PaidIn
  <2> QED
    BY <1>3, <2>8, <2>6
<1>12. CASE CancelAtStripe(x)
  <2> DEFINE ts == {<<"deleted", "canceled">>}
  <2>1. ts \in SUBSET Pairs
    BY DEF EventTypes, Statuses
  <2>2. IsFiniteSet(ts)
    BY <1>5, Zenon
  <2>3. PICK ends \in Weeks : ends = stripe[x].ends
    BY <1>4
  <2>4. Emit(x, ends, ts) /\ Turn(x, "canceled", ends)
    BY <1>12, <2>3 DEF CancelAtStripe
  <2>5. (\A t \in ts : t[1] = "deleted") /\ (\E t \in ts : t[1] = "deleted")
    OBVIOUS
  <2> HIDE DEF ts
  <2>6. /\ events \subseteq events' /\ Numbered' /\ Cardinality(events) <= Cardinality(events')
        /\ \A e \in Fresh : e.x = x /\ Cardinality(events) < e.id /\ e.type = "deleted"
        /\ \E e \in Fresh : e.type = "deleted"
    BY <1>7, <2>1, <2>2, <2>4, <2>5
  <2>8. Says(x)
    BY <1>6, <1>12, <2>3, <2>4, <2>6 DEF CancelAtStripe, Says
  <2> QED
    BY <1>3, <2>8, <2>6
<1> QED
  BY <1>2, <1>8, <1>9, <1>10, <1>11, <1>12

\* The log stays true.
LEMMA LogGrows ==
    ASSUME Inv, Log, NEW x \in Subs, Says(x), Numbered' PROVE Log'
<1>1. Numbered /\ Truthful /\ EventsOK
  BY DEF Log, Inv, Data
<1>2. Cardinality(events) \in Nat /\ \A e \in events : e.id \in 1..Cardinality(events)
  BY <1>1, FS_CardinalityType DEF EventsOK, Numbered
<1>3. \A e \in events : e.x \in Subs
  BY <1>1 DEF EventsOK, Event
<1>4. /\ events \subseteq events'
      /\ \A e \in events' : e \in events \/ e \in Fresh
      /\ \A e \in Fresh : e.x = x
      /\ \A y \in Subs \ {x} : stripe'[y] = stripe[y]
  BY DEF Says, Fresh
<1>5. \A e \in Fresh, f \in events : f.id < e.id /\ ~ (e.id <= f.id)
  <2>1. Cardinality(events') \in Nat \/ \A e \in events' : e.id \in Int
    BY DEF Numbered
  <2>2. \A e \in Fresh : e.id \in Int /\ Cardinality(events) < e.id
    BY <2>1 DEF Says, Numbered, Fresh
  <2> QED
    BY <1>2, <2>2
<1>6. \A y \in Subs \ {x} : News(y)' = News(y) /\ Periods(y)' = Periods(y)
  BY <1>4 DEF News, Periods
<1>7. stripe[x].status = "offered" => News(x) = {} /\ Periods(x) = {}
  BY <1>1 DEF Truthful, PaidIn, Statuses, News, Periods
<1>8. ASSUME NEW e \in events'
      PROVE  /\ stripe'[e.x].status # "none"
             /\ e.type = "checkout" => e.status \in {"paid", "unpaid"}
             /\ e.type = "deleted" => stripe'[e.x].status = "canceled"
             /\ e.type = "updated" /\ Last(e, News(e.x)') => e.status = stripe'[e.x].status
             /\ e.type = "updated" /\ Last(e, Periods(e.x)') => e.ends = stripe'[e.x].ends
  <2>1. CASE e.x # x
    <3>1. e \in events /\ e.x \in Subs \ {x}
      BY <1>3, <1>4, <1>8, <2>1
    <3> QED
      BY <1>1, <1>4, <1>6, <3>1 DEF Truthful
  <2>2. CASE e.x = x /\ stripe[x].status = "offered"
    <3>1. e.type \notin {"updated", "deleted"}
      BY <1>4, <1>7, <1>8, <2>2 DEF Says, News
    <3>2. e.type = "checkout" => e.status \in {"paid", "unpaid"}
      BY <1>1, <1>4, <1>8 DEF Truthful, Says
    <3> QED
      BY <2>2, <3>1, <3>2 DEF Says
  <2>3. CASE e.x = x /\ stripe[x].status \in {"active", "past_due"} /\ e \in events
    <3>1. /\ e.type # "deleted" /\ stripe'[x].status # "none"
          /\ e.type = "checkout" => e.status \in {"paid", "unpaid"}
      BY <1>1, <2>3 DEF Truthful, Says, PaidIn, Statuses
    <3>2. ~ Last(e, News(x)')
      <4>1. PICK f \in Fresh : f.type \in {"updated", "deleted"}
        BY <2>3 DEF Says
      <4>2. f \in News(x)' /\ ~ (f.id <= e.id)
        BY <1>4, <1>5, <2>3, <4>1 DEF News, Fresh
      <4> QED
        BY <4>2 DEF Last
    <3>3. e.type = "updated" /\ Last(e, Periods(x)') => e.ends = stripe'[x].ends
      <4>1. CASE stripe'[x].status = "canceled"
        <5>1. stripe'[x].ends = stripe[x].ends /\ Periods(x) \subseteq Periods(x)'
          BY <1>4, <2>3, <4>1 DEF Says, Periods
        <5> QED
          BY <1>1, <2>3, <5>1 DEF Truthful, Last
      <4>2. CASE stripe'[x].status # "canceled"
        <5>1. PICK f \in Fresh : f.type = "updated"
          BY <2>3, <4>2 DEF Says
        <5>2. f \in Periods(x)' /\ ~ (f.id <= e.id)
          BY <1>4, <1>5, <2>3, <5>1 DEF Periods, Fresh
        <5> QED
          BY <5>2 DEF Last
      <4> QED
        BY <4>1, <4>2
    <3> QED
      BY <2>3, <3>1, <3>2, <3>3
  <2>4. CASE e.x = x /\ stripe[x].status \in {"active", "past_due"} /\ e \in Fresh
    BY <2>4 DEF Says, PaidIn, Statuses
  <2>5. stripe[x].status \in {"offered", "active", "past_due"}
    BY DEF Says
  <2> QED
    BY <1>4, <1>8, <2>1, <2>2, <2>3, <2>4, <2>5
<1>9. ASSUME NEW y \in Subs
      PROVE  /\ stripe'[y].status \in {"past_due", "canceled"} => News(y)' # {}
             /\ \A e \in News(y)' : PaidIn(stripe', y)
                                    /\ \A c \in events' : Announces(c, y) => c.id < e.id
  <2>1. CASE y # x
    <3>1. \A c \in events' : Announces(c, y) => c \in events
      BY <1>4, <2>1 DEF Announces
    <3>2. News(y)' = News(y) /\ stripe'[y] = stripe[y]
      BY <1>4, <1>6, <2>1
    <3> QED
      BY <1>1, <3>1, <3>2 DEF Truthful, PaidIn
  <2>2. CASE y = x /\ stripe[x].status = "offered"
    <3>1. News(x)' = {}
      BY <1>4, <1>7, <2>2 DEF Says, News
    <3>2. stripe'[x].status \notin {"past_due", "canceled"}
      BY <2>2 DEF Says
    <3> QED
      BY <2>2, <3>1, <3>2
  <2>3. CASE y = x /\ stripe[x].status \in {"active", "past_due"}
    <3>1. News(x)' # {} /\ PaidIn(stripe', x)
      BY <1>4, <2>3 DEF Says, News, Fresh, PaidIn, Statuses
    <3>2. \A c \in events' : Announces(c, x) => c \in events
      BY <1>4, <2>3 DEF Says, Announces
    <3>3. \A e \in News(x)' : e \in News(x) \/ e \in Fresh
      BY <1>4 DEF News
    <3> QED
      BY <1>1, <1>5, <2>3, <3>1, <3>2, <3>3 DEF Truthful
  <2>4. stripe[x].status \in {"offered", "active", "past_due"}
    BY DEF Says
  <2> QED
    BY <2>1, <2>2, <2>3, <2>4
<1>10. Truthful'
  BY <1>8, <1>9 DEF Truthful, Last, Announces, PaidIn
<1> QED
  BY <1>10 DEF Log

\* What Stripe changes about a subscription that was paid it says in an event that
\* nobody has handled.
\* A checkout is announced when it is paid, which happens once.
LEMMA CheckoutOnce == ASSUME Inv, LogInv, AtStripe PROVE OneCheckout'
<1>1. StripeOK /\ EventsOK /\ Numbered /\ OneCheckout
  BY DEF Inv, Data, LogInv, Log
<1>2. PICK x \in Subs :
        CompleteUnpaid(x) \/ Pay(x) \/ Renew(x) \/ FailRenewal(x) \/ CancelAtStripe(x)
  BY DEF AtStripe
<1>3. /\ events \subseteq events'
      /\ \A e \in events' \ events : \A y : Announces(e, y) => Pay(x) /\ y = x
  <2>1. CASE Pay(x)
    BY <2>1, EmittedOf DEF Pay, Announces
  <2>2. CASE CompleteUnpaid(x)
    BY <2>2, EmittedOf DEF CompleteUnpaid, Announces
  <2>3. ASSUME NEW ends, NEW ts, Emit(x, ends, ts), \A t \in ts : t[1] # "checkout"
        PROVE  /\ events \subseteq events'
               /\ \A e \in events' \ events : \A y : ~ Announces(e, y)
    BY <2>3, EmittedOf DEF Announces
  <2>4. CASE Renew(x)
    <3>1. PICK ts : ts = {<<"updated", "active">>, <<"invoice", "paid">>}
      OBVIOUS
    <3>2. Emit(x, stripe[x].ends + Month, ts) /\ \A t \in ts : t[1] # "checkout"
      BY <2>4, <3>1 DEF Renew
    <3> QED
      BY <2>3, <3>2
  <2>5. CASE FailRenewal(x)
    <3>1. PICK ts : ts = {<<"updated", "past_due">>}
      OBVIOUS
    <3>2. Emit(x, stripe[x].ends, ts) /\ \A t \in ts : t[1] # "checkout"
      BY <2>5, <3>1 DEF FailRenewal
    <3> QED
      BY <2>3, <3>2
  <2>6. CASE CancelAtStripe(x)
    <3>1. PICK ts : ts = {<<"deleted", "canceled">>}
      OBVIOUS
    <3>2. Emit(x, stripe[x].ends, ts) /\ \A t \in ts : t[1] # "checkout"
      BY <2>6, <3>1 DEF CancelAtStripe
    <3> QED
      BY <2>3, <3>2
  <2> QED
    BY <1>2, <2>1, <2>2, <2>4, <2>5, <2>6
<1>4. Pay(x) => \A e \in events : ~ Announces(e, x)
  BY <1>1 DEF Pay, PaidIn, Statuses, EventsOK, Announces
<1>5. Pay(x) => \A g, h \in events' \ events : g.type = "checkout" /\ h.type = "checkout" => g = h
  <2> SUFFICES ASSUME Pay(x)
               PROVE  \A g, h \in events' \ events :
                        g.type = "checkout" /\ h.type = "checkout" => g = h
    OBVIOUS
  <2>1. PICK a, b : a = <<"checkout", "paid">> /\ b = <<"invoice", "paid">>
    OBVIOUS
  <2>2. Emit(x, week + Month, {a, b}) /\ a[1] = "checkout" /\ b[1] = "invoice"
    BY <2>1 DEF Pay
  <2>3. week + Month \in Weeks
    BY Constants DEF Inv, Data, CountsOK
  <2> QED
    BY <1>1, <2>2, <2>3, EmittedApart
<1> SUFFICES ASSUME NEW e \in events', NEW f \in events', NEW y \in Subs,
                    Announces(e, y), Announces(f, y)
             PROVE  e = f
  BY DEF OneCheckout, Announces
<1>6. CASE e \in events /\ f \in events
  BY <1>1, <1>6 DEF OneCheckout
<1>7. CASE e \notin events /\ f \notin events
  BY <1>3, <1>5, <1>7 DEF Announces
<1> QED
  BY <1>3, <1>4, <1>6, <1>7

\* Handlers and jobs leave Stripe's events alone, and change of its subscriptions at
\* most that a session is opened.
LEMMA LogRests ==
    ASSUME NEW r \in Requests, Arrive(r) \/ Step(r) \/ Abort(r)
    PROVE  events' = events /\ (stripe' = stripe \/ OpenSession(r))
  BY DEF Arrive, StartCheckout, Deliver, StartConfirm, StartJob, Start, Abort, ReadOnly, Step,
     ReadTier, ReadRow, CheckProcessed, FindSub, FindUser, Retrieve, Upsert, ApplyUpdate, CancelRow,
     RecordPayment, RecordEvent, ReadSession, FindDue, SendReminder, MarkReminded, Demote,
     OpenSession

\* The log is true at any time.
LEMMA LogStep == ASSUME Inv, LogInv, [Next]_vars PROVE LogInv' /\ events \subseteq events'
<1>1. ASSUME stripe' = stripe, events' = events PROVE LogInv'
  BY <1>1 DEF LogInv, Log, Numbered, Truthful, News, Periods, Last, Announces, PaidIn, OneCheckout
<1>2. ASSUME NEW r \in Requests, OpenSession(r) PROVE LogInv' /\ events' = events
  <2>1. events' = events /\ StripeOK /\ Truthful /\ Numbered /\ OneCheckout
    BY <1>2 DEF OpenSession, Inv, Data, LogInv, Log
  <2>2. \A x \in Subs : stripe'[x] = stripe[x]
                        \/ (stripe[x].status = "none" /\ stripe'[x].status = "offered")
    BY <1>2, <2>1 DEF OpenSession, StripeOK
  <2>3. Numbered' /\ OneCheckout' /\ \A x : News(x)' = News(x) /\ Periods(x)' = Periods(x)
    BY <2>1 DEF Numbered, OneCheckout, News, Periods, Announces
  <2>4. \A e \in events : e.x \in Subs
    BY DEF Inv, Data, EventsOK, Event
  <2>5. Truthful'
    BY <2>1, <2>2, <2>3, <2>4 DEF Truthful, Last, PaidIn, Statuses, Announces
  <2> QED
    BY <2>1, <2>3, <2>5 DEF LogInv, Log
<1>3. CASE AtStripe
  <2>1. Numbered' /\ \E x \in Subs : Says(x)
    BY <1>3, StripeSays DEF LogInv, Log
  <2> QED
    BY <1>3, <2>1, LogGrows, CheckoutOnce DEF LogInv, Says
<1>4. CASE Tick \/ UNCHANGED vars
  BY <1>1, <1>4 DEF Tick, vars
<1>5. CASE \E r \in Requests : Arrive(r) \/ Step(r) \/ Abort(r)
  BY <1>1, <1>2, <1>5, LogRests
<1> QED
  BY <1>3, <1>4, <1>5 DEF Next

\* So it is from the empty log on.
LEMMA LogInvariant == Spec => [](Inv /\ LogInv)
<1>1. Init => LogInv
  <2>1. Init => /\ events = {}
                /\ stripe = [x \in Subs |-> [owner |-> NoUser, status |-> "none", ends |-> 0]]
    BY DEF Init
  <2> QED
    BY <2>1 DEF LogInv, Log, Numbered, Truthful, OneCheckout, News
<1>2. Inv /\ LogInv /\ [Next]_vars => LogInv'
  BY LogStep
<1> QED
  BY <1>1, <1>2, Invariance, PTL DEF Spec

-----------------------------------------------------------------------------
\* Event e is the one that handler q is at.
Carries(q, e) ==
    /\ e.id = q.ev /\ e.type = q.type /\ e.x = q.x
    /\ q.pc \in {"check", "findSub"} => e.status = q.status /\ e.ends = q.ends
    /\ q.pc \in {"findUser", "retrieve", "upsert"} => e.status # "unpaid"

\* What the control flow of a handler says of it, whatever else runs.
Control(q, es) ==
    /\ q.op \in Ops \cup {"none"}
    /\ q.pc = "record" => q.op = "webhook"
    /\ q.pc \in {"send", "mark"} => q.op = "reminder"
    /\ q.op = "webhook" => \E e \in es : Carries(q, e)
    /\ q.op = "webhook" /\ q.pc \in {"findUser", "retrieve", "upsert"} => q.type = "checkout"
    /\ q.pc = "findSub" /\ q.type = "checkout" => q.status # "unpaid"
    /\ q.pc \in {"refetch", "apply"} => q.type = "updated"
    /\ q.pc = "cancel" => q.type = "deleted"
    /\ q.pc = "pay" => q.type = "invoice"

\* A queue runs one job at a time.
JobsApart ==
    \A r, s \in Requests :
        req[r].op = req[s].op /\ req[r].op \in {"reminder", "demotion"} => r = s

\* Where a handler goes from p, and what it takes along.
Continues(p, q) == q.op = p.op /\ q.ev = p.ev /\ q.type = p.type /\ q.x = p.x

\* The copy of Stripe's data it has, and the one it takes.
HasCopy(p, q) == q.status = p.status /\ q.ends = p.ends

TakesCopy(p, q) == q.status = stripe[p.x].status /\ q.ends = stripe[p.x].ends

\* Whom a job finds.
DueOf(op) == {u \in Users : IF op = "reminder" THEN DueForReminder(u) ELSE DueForDemotion(u)}

\* The ways that only read: what is found decides where the handler goes.
Looks(p, q) ==
    \/ p.pc = "readTier" /\ q.pc = "readRow"
    \/ p.pc = "readRow" /\ q.pc = "openSession"
    \/ p.pc = "readSession" /\ q.pc = "retrieve"
    \/ /\ p.pc = "check" /\ p.ev \notin processed /\ HasCopy(p, q)
       /\ q.pc = IF p.type = "checkout" /\ p.status = "unpaid" THEN "record" ELSE "findSub"
    \/ /\ p.pc = "findSub" /\ p.type = "checkout" /\ HasCopy(p, q)
       /\ q.pc = IF Holders(p.x) # {} THEN "record" ELSE "findUser"
    \/ /\ p.pc = "findSub" /\ p.type # "checkout" /\ HasCopy(p, q)
       /\ \/ Holders(p.x) = {} /\ q.pc = "record"
          \/ /\ q.u \in Holders(p.x) /\ q.pc \in {"refetch", "apply", "cancel", "pay"}
             /\ p.type = "updated" <=> q.pc \in {"refetch", "apply"}
             /\ p.type = "deleted" <=> q.pc = "cancel"
    \/ /\ p.pc = "findUser" /\ HasCopy(p, q)
       /\ q.pc = IF p.op = "webhook" THEN "retrieve" ELSE "upsert"
    \/ p.pc = "retrieve" /\ q.pc \in {"upsert", "findUser"} /\ TakesCopy(p, q)
    \/ p.pc = "refetch" /\ q.pc = "apply" /\ q.u = p.u /\ TakesCopy(p, q)
    \/ /\ p.pc = "findDue" /\ q.pc = IF p.op = "reminder" THEN "send" ELSE "demote"
       /\ q.todo = {<<u, row[u].x, row[u].ends>> : u \in DueOf(p.op)}

\* The ways that write.
Writes(p, q) ==
    \/ p.pc = "upsert" /\ p.op = "webhook" /\ q.pc = "record"
    \/ p.pc \in {"apply", "cancel", "pay"} /\ q.pc = "record"
    \/ p.pc = "send" /\ q.pc = "mark" /\ q.todo = p.todo /\ \E d \in p.todo : q.u = d[1]
    \/ p.pc = "mark" /\ q.pc = "send" /\ \E d \in p.todo : d[1] = p.u /\ q.todo = p.todo \ {d}
    \/ p.pc = "demote" /\ q.pc = "demote" /\ \E d \in p.todo : q.todo = p.todo \ {d}

\* A handler ends or goes one of these ways.
Advances(p, q) ==
    q = Idle \/ (q \in Request /\ Continues(p, q) /\ (Looks(p, q) \/ Writes(p, q)))

-----------------------------------------------------------------------------
\* The slots after a step of handler r.
LEMMA Slots ==
    ASSUME Inv, NEW r \in Requests, NEW q, Becomes(r, q)
    PROVE  /\ req'[r] = q
           /\ \A s \in Requests \ {r} : req'[s] = req[s]
  BY DEF Inv, Becomes

\* An idle slot has nothing in hand.
LEMMA IdleFields ==
    /\ Idle.op = "none" /\ Idle.pc = "idle" /\ Idle.ev = 0
    /\ Idle \in Request
<1>1. Idle \in Request
  BY IdleSlot DEF Slot
<1> QED
  BY <1>1 DEF Idle

\* The steps of the handlers and jobs, as ways from slot to slot.
LEMMA Flow ==
    ASSUME Inv, NEW r \in Requests, Step(r)
    PROVE  \E q : Becomes(r, q) /\ Advances(req[r], q)
<1>1. /\ req[r] \in Request /\ req \in [Requests -> Request] /\ Slot(req[r], stripe, row)
  BY DEF Inv
<1>2. ASSUME Return(r) PROVE \E q : Becomes(r, q) /\ Advances(req[r], q)
  BY <1>2 DEF Return, Becomes, Advances
<1>3. ASSUME NEW pc \in Steps, Goto(r, pc),
             \A q : Moved(req[r], q, pc) => Looks(req[r], q) \/ Writes(req[r], q)
      PROVE  \E q : Becomes(r, q) /\ Advances(req[r], q)
  <2>1. PICK q : Becomes(r, q) /\ Moved(req[r], q, pc)
    BY <1>3, MovedSlot
  <2> QED
    BY <1>3, <2>1 DEF Moved, Advances, Continues
<1>4. "readRow" \in Steps /\ "openSession" \in Steps /\ "retrieve" \in Steps
      /\ "record" \in Steps /\ "findSub" \in Steps /\ "findUser" \in Steps
  BY DEF Steps
<1>5. CASE ReadTier(r) \/ ReadRow(r) \/ ReadSession(r)
  BY <1>2, <1>3, <1>4, <1>5 DEF ReadTier, ReadRow, ReadSession, At, Moved, Looks
<1>6. CASE CheckProcessed(r)
  BY <1>2, <1>3, <1>4, <1>6 DEF CheckProcessed, At, Moved, Looks, HasCopy
<1>7. CASE FindSub(r) /\ req[r].type = "checkout"
  BY <1>3, <1>4, <1>7 DEF FindSub, At, Moved, Looks, HasCopy
<1>8. CASE FindSub(r) /\ req[r].type # "checkout" /\ Holders(req[r].x) = {}
  BY <1>3, <1>4, <1>8 DEF FindSub, At, Moved, Looks, HasCopy
<1>9. CASE FindSub(r) /\ req[r].type # "checkout" /\ Holders(req[r].x) # {}
  <2>1. PICK u \in Holders(req[r].x), pc \in {"refetch", "apply", "cancel", "pay"} :
            /\ req[r].type = "updated" <=> pc \in {"refetch", "apply"}
            /\ req[r].type = "deleted" <=> pc = "cancel"
            /\ req' = [req EXCEPT ![r] = [@ EXCEPT !.pc = pc, !.u = u]]
    BY <1>9, Zenon DEF FindSub
  <2>2. PICK q : q = [req[r] EXCEPT !.pc = pc, !.u = u]
    OBVIOUS
  <2>3. /\ q.pc = pc /\ q.u = u /\ Continues(req[r], q) /\ HasCopy(req[r], q)
        /\ q \in Request
    BY <1>1, <2>1, <2>2 DEF Request, Steps, Continues, HasCopy, Holders
  <2>4. Becomes(r, q)
    BY <1>1, <2>1, <2>2 DEF Becomes
  <2>5. Looks(req[r], q)
    BY <1>9, <2>1, <2>3 DEF FindSub, At, Looks
  <2> QED
    BY <2>3, <2>4, <2>5 DEF Advances
<1>10. CASE FindUser(r)
  <2> DEFINE u == IF req[r].op = "webhook" THEN stripe[req[r].x].owner ELSE req[r].u
             pc == IF req[r].op = "webhook" THEN "retrieve" ELSE "upsert"
             had == (row[u] # NoRow)
  <2>1. req' = [req EXCEPT ![r] = [@ EXCEPT !.pc = pc, !.u = u, !.hadRow = had]]
    BY <1>10 DEF FindUser
  <2>2. pc \in {"retrieve", "upsert"} /\ had \in BOOLEAN
    OBVIOUS
  <2>3. u \in Users \cup {NoUser}
    BY <1>1, <1>10 DEF FindUser, At, Slot, Request, Inv, Data, StripeOK
  <2> HIDE DEF u, had, pc
  <2>4. PICK q : q = [req[r] EXCEPT !.pc = pc, !.u = u, !.hadRow = had]
    OBVIOUS
  <2>5. q.pc = pc /\ Continues(req[r], q) /\ HasCopy(req[r], q) /\ q \in Request
    BY <1>1, <2>2, <2>3, <2>4 DEF Request, Steps, Continues, HasCopy
  <2>6. Becomes(r, q)
    BY <1>1, <2>1, <2>4 DEF Becomes
  <2>7. Looks(req[r], q)
    BY <1>10, <2>5 DEF FindUser, At, Looks, pc
  <2> QED
    BY <2>5, <2>6, <2>7 DEF Advances
<1>11. CASE Retrieve(r)
  <2> DEFINE pc == IF At(r, "refetch") THEN "apply"
                   ELSE IF req[r].op = "webhook" THEN "upsert" ELSE "findUser"
             status == stripe[req[r].x].status
             ends == stripe[req[r].x].ends
  <2>1. /\ req' = [req EXCEPT ![r] = [@ EXCEPT !.pc = pc, !.status = status, !.ends = ends]]
        /\ \/ req[r].pc = "refetch" /\ pc = "apply"
           \/ req[r].pc = "retrieve" /\ pc \in {"upsert", "findUser"}
    BY <1>11 DEF Retrieve, At
  <2>2. status \in Statuses /\ ends \in Weeks
    BY <1>1, <2>1 DEF Slot, PaidIn, Inv, Data, StripeOK
  <2> HIDE DEF pc
  <2>3. PICK q : q = [req[r] EXCEPT !.pc = pc, !.status = status, !.ends = ends]
    OBVIOUS
  <2>4. /\ q.pc = pc /\ q.u = req[r].u /\ Continues(req[r], q) /\ TakesCopy(req[r], q)
    BY <1>1, <2>3 DEF Request, Continues, TakesCopy
  <2>5. q \in Request
    BY <1>1, <2>1, <2>2, <2>3 DEF Request, Steps
  <2>6. Becomes(r, q)
    BY <1>1, <2>1, <2>3 DEF Becomes
  <2>7. Looks(req[r], q)
    BY <2>1, <2>4 DEF Looks
  <2> QED
    BY <2>4, <2>5, <2>6, <2>7 DEF Advances
<1>12. CASE FindDue(r) /\ ~ Return(r)
  <2> DEFINE pc == IF req[r].op = "reminder" THEN "send" ELSE "demote"
             todo == {<<u, row[u].x, row[u].ends>> : u \in DueOf(req[r].op)}
  <2>1. req' = [req EXCEPT ![r] = [@ EXCEPT !.pc = pc, !.todo = todo]] /\ req[r].pc = "findDue"
    BY <1>12, Zenon DEF FindDue, DueOf, At
  <2>2. todo \in SUBSET (Users \X Subs \X Weeks)
    <3>1. ASSUME NEW u \in DueOf(req[r].op)
          PROVE  u \in Users /\ row[u].x \in Subs /\ row[u].ends \in Weeks
      <4>1. u \in Users /\ row[u] \in Row /\ row[u].status # "none"
        BY <3>1 DEF DueOf, DueForReminder, DueForDemotion, Inv, Data, RowsOK
      <4> QED
        BY <4>1 DEF Inv, Data, RowsOK, Row
    <3> QED
      BY <3>1
  <2>3. PICK q : q = [req[r] EXCEPT !.pc = pc, !.todo = todo]
    OBVIOUS
  <2> HIDE DEF todo
  <2>4. q.pc = pc /\ q.todo = todo /\ Continues(req[r], q) /\ Becomes(r, q) /\ q \in Request
    <3>1. q.pc = pc /\ q.todo = todo /\ Continues(req[r], q)
      BY <1>1, <2>3 DEF Request, Continues
    <3>2. Becomes(r, q)
      BY <2>1, <2>3 DEF Becomes
    <3>3. pc \in Steps
      BY DEF Steps
    <3> HIDE DEF pc
    <3>4. q \in Request
      BY <1>1, <2>2, <2>3, <3>3 DEF Request
    <3> QED
      BY <3>1, <3>2, <3>4
  <2>5. Looks(req[r], q)
    BY <2>1, <2>4 DEF Looks, todo
  <2> QED
    BY <2>4, <2>5 DEF Advances
<1>13. CASE Upsert(r)
  BY <1>2, <1>3, <1>4, <1>13 DEF Upsert, At, Moved, Writes
<1>14. CASE ApplyUpdate(r) \/ CancelRow(r) \/ RecordPayment(r)
  BY <1>3, <1>4, <1>14 DEF ApplyUpdate, CancelRow, RecordPayment, At, Moved, Writes
<1>15. CASE SendReminder(r)
  <2>1. PICK d \in req[r].todo : req' = [req EXCEPT ![r] = [@ EXCEPT !.pc = "mark", !.u = d[1]]]
    BY <1>15 DEF SendReminder
  <2>2. d[1] \in Users
    BY <1>1 DEF Request
  <2>3. PICK q : q = [req[r] EXCEPT !.pc = "mark", !.u = d[1]]
    OBVIOUS
  <2>4. /\ q.pc = "mark" /\ q.u = d[1] /\ q.todo = req[r].todo /\ Continues(req[r], q)
        /\ Becomes(r, q) /\ q \in Request
    BY <1>1, <2>1, <2>2, <2>3 DEF Request, Becomes, Continues, Steps
  <2> QED
    BY <1>15, <2>4 DEF SendReminder, At, Writes, Advances
<1>16. ASSUME NEW d \in req[r].todo, NEW pc \in {"send", "demote"}, Finish(r, d, pc), ~ Return(r)
       PROVE  \E q : /\ Becomes(r, q) /\ q \in Request /\ Continues(req[r], q)
                     /\ q.pc = pc /\ q.todo = req[r].todo \ {d}
  <2>1. PICK q : q = [req[r] EXCEPT !.pc = pc, !.todo = req[r].todo \ {d}, !.u = NoUser]
    OBVIOUS
  <2>2. req' = [req EXCEPT ![r] = [@ EXCEPT !.pc = pc, !.todo = req[r].todo \ {d}, !.u = NoUser]]
    BY <1>16, Zenon DEF Finish
  <2>3. /\ q.pc = pc /\ q.todo = req[r].todo \ {d} /\ Continues(req[r], q)
        /\ Becomes(r, q) /\ q \in Request
    BY <1>1, <2>1, <2>2 DEF Request, Becomes, Continues, Steps
  <2> QED
    BY <2>3
<1>17. CASE MarkReminded(r) /\ ~ Return(r)
  <2>1. PICK d \in req[r].todo : d[1] = req[r].u /\ Finish(r, d, "send")
    BY <1>17 DEF MarkReminded
  <2>2. PICK q : /\ Becomes(r, q) /\ q \in Request /\ Continues(req[r], q)
                 /\ q.pc = "send" /\ q.todo = req[r].todo \ {d}
    BY <1>16, <1>17, <2>1
  <2> QED
    BY <1>17, <2>1, <2>2 DEF MarkReminded, At, Writes, Advances
<1>18. CASE Demote(r) /\ ~ Return(r)
  <2>1. PICK d \in req[r].todo : Finish(r, d, "demote")
    BY <1>18 DEF Demote
  <2>2. PICK q : /\ Becomes(r, q) /\ q \in Request /\ Continues(req[r], q)
                 /\ q.pc = "demote" /\ q.todo = req[r].todo \ {d}
    BY <1>16, <1>18, <2>1
  <2> QED
    BY <1>18, <2>1, <2>2 DEF Demote, At, Writes, Advances
<1>19. CASE OpenSession(r) \/ RecordEvent(r)
  BY <1>2, <1>19 DEF OpenSession, RecordEvent
<1> QED
  BY <1>2, <1>5, <1>6, <1>7, <1>8, <1>9, <1>10, <1>11, <1>12, <1>13, <1>14, <1>15, <1>17, <1>18,
     <1>19 DEF Step

-----------------------------------------------------------------------------
\* What is true of the handlers and jobs, whatever else runs.
HandlersInv == JobsApart /\ \A r \in Requests : Control(req[r], events)

\* What a handler has in hand stays Stripe's.
LEMMA ControlKept ==
    ASSUME NEW q, Control(q, events), events \subseteq events' PROVE Control(q, events')
  BY DEF Control, Carries

\* Nothing of this concerns an idle slot.
LEMMA IdleControl == ASSUME NEW es PROVE Control(Idle, es)
  BY IdleFields DEF Control

\* One step of a handler.
LEMMA ControlFlow ==
    ASSUME EventsOK, NEW p, NEW q, Control(p, events), Slot(p, stripe, row), Advances(p, q)
    PROVE  Control(q, events)
<1>1. CASE q = Idle
  BY <1>1, IdleControl
<1>2. CASE q \in Request /\ Continues(p, q) /\ Looks(p, q)
  <2>1. ASSUME p.op = "webhook" PROVE \E e \in events : Carries(q, e)
    <3>1. PICK e \in events : Carries(p, e)
      BY <2>1 DEF Control
    <3>2. e.id = q.ev /\ e.type = q.type /\ e.x = q.x
      BY <1>2, <3>1 DEF Carries, Continues
    <3>3. q.pc \in {"check", "findSub"} => e.status = q.status /\ e.ends = q.ends
      BY <1>2, <3>1 DEF Carries, Looks, HasCopy
    <3>4. CASE p.pc = "findSub" /\ q.pc = "findUser"
      BY <1>2, <2>1, <3>1, <3>2, <3>3, <3>4 DEF Control, Carries, Looks
    <3>5. CASE p.pc \in {"findUser", "retrieve"}
      BY <1>2, <3>1, <3>2, <3>3, <3>5 DEF Carries, Looks
    <3>6. CASE q.pc \notin {"findUser", "retrieve", "upsert"}
      BY <3>2, <3>3, <3>6 DEF Carries
    <3>7. q.pc \in {"findUser", "retrieve", "upsert"} =>
            p.pc \in {"findUser", "retrieve"} \/ (p.pc = "findSub" /\ q.pc = "findUser")
      BY <1>2, <2>1 DEF Looks, Slot
    <3> QED
      BY <3>4, <3>5, <3>6, <3>7
  <2>2. q.op = p.op /\ q.type = p.type /\ q.op \in Ops \cup {"none"}
    BY <1>2 DEF Continues, Control
  <2>3. /\ q.pc = "record" => q.op = "webhook"
        /\ q.pc \in {"send", "mark"} => q.op = "reminder"
    BY <1>2, <2>2 DEF Looks, Slot
  <2>4. /\ q.op = "webhook" /\ q.pc \in {"findUser", "retrieve", "upsert"} => q.type = "checkout"
        /\ q.pc = "findSub" /\ q.type = "checkout" => q.status # "unpaid"
    BY <1>2, <2>2 DEF Looks, Slot, Control, HasCopy
  <2>5. CASE p.pc = "findSub"
    <3>1. p.type \in {"checkout", "updated", "deleted", "invoice"}
      BY <2>5 DEF Slot, Control, Carries, EventsOK, Event, EventTypes
    <3> QED
      BY <1>2, <2>1, <2>2, <2>3, <2>4, <2>5, <3>1 DEF Control, Looks
  <2>6. CASE p.pc # "findSub"
    BY <1>2, <2>1, <2>2, <2>3, <2>4, <2>6 DEF Control, Looks
  <2> QED
    BY <2>5, <2>6
<1>3. CASE q \in Request /\ Continues(p, q) /\ Writes(p, q)
  BY <1>3 DEF Control, Carries, Continues, Writes, Slot
<1> QED
  BY <1>1, <1>2, <1>3 DEF Advances

\* A handler or job that starts has nothing in hand but an event.
Begins(q) ==
    /\ q.op \in Ops /\ q.todo = {}
    /\ \/ q.op = "checkout" /\ q.pc = "readTier" /\ q.ev = 0
       \/ /\ q.op = "webhook" /\ q.pc = "check"
          /\ \E e \in events :
                /\ Carries(q, e)
                /\ Ordered => \A d \in events : d.id < e.id => d.id \in processed
       \/ q.op = "confirm" /\ q.pc = "readSession" /\ q.ev = 0
       \/ /\ q.op \in {"reminder", "demotion"} /\ q.pc = "findDue" /\ q.ev = 0
          /\ \A s \in Requests : req[s].op # q.op

\* Nothing else starts, and starting writes nothing.
LEMMA Arrivals ==
    ASSUME Inv, NEW r \in Requests, Arrive(r)
    PROVE  /\ ReadOnly /\ req[r] = Idle
           /\ \E q \in Request : Becomes(r, q) /\ Begins(q)
<1>1. Idle \in Request /\ Idle.todo = {} /\ Idle.ev = 0
  BY IdleFields DEF Idle
<1>2. ASSUME NEW q, Start(r, q) PROVE ReadOnly /\ req[r] = Idle /\ Becomes(r, q) /\ q.op \in Ops
  BY <1>2 DEF Start, ReadOnly, Becomes
<1>4. CASE \E u \in Users : StartCheckout(r, u)
  <2>9. PICK u \in Users : StartCheckout(r, u)
    BY <1>4
  <2>1. PICK q : q = [Idle EXCEPT !.op = "checkout", !.pc = "readTier", !.u = u] /\ Start(r, q)
    BY <2>9 DEF StartCheckout
  <2>2. q \in Request /\ q.op = "checkout" /\ q.pc = "readTier" /\ q.ev = 0 /\ q.todo = {}
    BY <1>1, <2>1 DEF Request, AllOps, Steps
  <2> QED
    BY <1>2, <2>1, <2>2 DEF Begins
<1>5. CASE \E e \in events : Deliver(r, e)
  <2>9. PICK e \in events : Deliver(r, e)
    BY <1>5
  <2>1. PICK q :
            /\ q = [Idle EXCEPT !.op = "webhook", !.pc = "check", !.ev = e.id, !.type = e.type,
                                !.x = e.x, !.status = e.status, !.ends = e.ends]
            /\ Start(r, q)
            /\ Ordered => \A d \in events : d.id < e.id => d.id \in processed
    BY <2>9 DEF Deliver
  <2>2. e \in Event
    BY DEF Inv, Data, EventsOK
  <2>3. /\ q \in Request /\ q.op = "webhook" /\ q.pc = "check" /\ q.todo = {}
        /\ q.ev = e.id /\ q.type = e.type /\ q.x = e.x /\ q.status = e.status /\ q.ends = e.ends
    <3>1. e.id \in 0..MaxEvents /\ "webhook" \in AllOps /\ "check" \in Steps
      BY <2>2, Constants DEF Event, EventIds, AllOps, Steps
    <3> QED
      BY <1>1, <2>1, <2>2, <3>1 DEF Request, Event
  <2>4. Carries(q, e)
    BY <2>3 DEF Carries
  <2> QED
    BY <1>2, <2>1, <2>3, <2>4 DEF Begins
<1>6. CASE \E u \in Users, x \in Subs : StartConfirm(r, u, x)
  <2>9. PICK u \in Users, x \in Subs : StartConfirm(r, u, x)
    BY <1>6
  <2>1. PICK q :
            /\ q = [Idle EXCEPT !.op = "confirm", !.pc = "readSession", !.u = u, !.x = x]
            /\ Start(r, q)
    BY <2>9 DEF StartConfirm
  <2>2. q \in Request /\ q.op = "confirm" /\ q.pc = "readSession" /\ q.ev = 0 /\ q.todo = {}
    BY <1>1, <2>1 DEF Request, AllOps, Steps
  <2> QED
    BY <1>2, <2>1, <2>2 DEF Begins
<1>7. CASE \E op \in {"reminder", "demotion"} : StartJob(r, op)
  <2>9. PICK op \in {"reminder", "demotion"} : StartJob(r, op)
    BY <1>7
  <2>1. PICK q :
            /\ q = [Idle EXCEPT !.op = op, !.pc = "findDue"]
            /\ Start(r, q) /\ \A s \in Requests : req[s].op # op
    BY <2>9 DEF StartJob
  <2>2. q \in Request /\ q.op = op /\ q.pc = "findDue" /\ q.ev = 0 /\ q.todo = {}
    BY <1>1, <2>1 DEF Request, AllOps, Steps
  <2> QED
    BY <1>2, <2>1, <2>2 DEF Begins
<1> QED
  BY <1>4, <1>5, <1>6, <1>7 DEF Arrive

\* The handlers and jobs at any time.
LEMMA HandlersStep ==
    ASSUME Inv, LogInv, HandlersInv, [Next]_vars PROVE HandlersInv'
<1>1. events \subseteq events' /\ req \in [Requests -> Request]
  BY LogStep DEF Inv
<1>2. ASSUME NEW r \in Requests, NEW q, Becomes(r, q), Control(q, events),
             q.op = req[r].op \/ q = Idle
      PROVE  HandlersInv'
  <2>1. req'[r] = q /\ \A s \in Requests \ {r} : req'[s] = req[s]
    BY <1>2, Slots
  <2>2. \A s \in Requests : Control(req'[s], events')
    BY <1>1, <1>2, <2>1, ControlKept DEF HandlersInv
  <2>3. JobsApart'
    BY <1>2, <2>1, IdleFields DEF HandlersInv, JobsApart
  <2> QED
    BY <2>2, <2>3 DEF HandlersInv, Control, Carries
<1>3. ASSUME req' = req PROVE HandlersInv'
  BY <1>1, <1>3, ControlKept DEF HandlersInv, JobsApart
<1>4. ASSUME NEW r \in Requests, Step(r) PROVE HandlersInv'
  <2>1. PICK q : Becomes(r, q) /\ Advances(req[r], q)
    BY <1>4, Flow
  <2>2. Control(q, events)
    BY <2>1, ControlFlow DEF HandlersInv, Inv, Data
  <2> QED
    BY <1>2, <2>1, <2>2 DEF Advances, Continues
<1>5. ASSUME NEW r \in Requests, Abort(r) PROVE HandlersInv'
  BY <1>2, <1>5, IdleControl DEF Abort, Return, Becomes
<1>6. ASSUME NEW r \in Requests, Arrive(r) PROVE HandlersInv'
  <2>1. PICK q \in Request : Becomes(r, q) /\ Begins(q)
    BY <1>6, Arrivals
  <2>2. req'[r] = q /\ \A s \in Requests \ {r} : req'[s] = req[s]
    BY <2>1, Slots
  <2>3. Control(q, events)
    BY <2>1 DEF Begins, Control
  <2>4. \A s \in Requests : Control(req'[s], events')
    BY <1>1, <2>2, <2>3, ControlKept DEF HandlersInv
  <2>5. JobsApart'
    BY <2>1, <2>2 DEF Begins, HandlersInv, JobsApart
  <2> QED
    BY <2>4, <2>5 DEF HandlersInv, Control, Carries
<1>7. CASE AtStripe \/ Tick \/ UNCHANGED vars
  <2>1. req' = req
    BY <1>7 DEF AtStripe, CompleteUnpaid, Pay, Renew, FailRenewal, CancelAtStripe, Quiet, Tick, vars
  <2> QED
    BY <1>3, <2>1
<1> QED
  BY <1>4, <1>5, <1>6, <1>7 DEF Next

\* What is true of the log and of each handler, whatever runs.
LEMMA HandlersInvariant == Spec => [](Inv /\ LogInv /\ HandlersInv)
<1>1. Init => HandlersInv
  BY IdleControl, IdleFields DEF Init, HandlersInv, JobsApart
<1>2. Inv /\ LogInv /\ HandlersInv /\ [Next]_vars => HandlersInv'
  BY HandlersStep
<1> QED
  BY <1>1, <1>2, LogInvariant, PTL DEF Spec

-----------------------------------------------------------------------------
\* The deliveries of one event come one after the other.

\* The steps from the lookup of the event to the record of it.
AtWork == {"findSub", "findUser", "retrieve", "upsert", "refetch", "apply", "cancel", "pay",
           "record"}

\* An event is worked on before it is recorded.
Unrecorded ==
    \A r \in Requests : req[r].op = "webhook" /\ req[r].pc \in AtWork => req[r].ev \notin processed

\* Without cut-offs a payment is recorded once, and with it its event is handled.
PaymentBooks ==
    \A i \in EventIds : payments[i] < 2 /\ (payments[i] > 0 => i \in HandledIds)

\* The slots after a step.
LEMMA Moves ==
    ASSUME Inv, NEW r \in Requests, Step(r)
    PROVE  Advances(req[r], req'[r]) /\ \A s \in Requests \ {r} : req'[s] = req[s]
<1>1. PICK q : Becomes(r, q) /\ Advances(req[r], q)
  BY Flow
<1> QED
  BY <1>1, Slots

\* Two ways to move a slot.
LEMMA GoesTo ==
    ASSUME Inv, NEW r \in Requests, NEW pc \in Steps, Goto(r, pc) PROVE req'[r].pc = pc
<1>1. PICK q : Becomes(r, q) /\ Moved(req[r], q, pc)
  BY MovedSlot
<1> QED
  BY <1>1, Slots DEF Moved

\* The other one.
LEMMA Returns ==
    ASSUME Inv, NEW r \in Requests, Return(r)
    PROVE  req'[r] = Idle /\ \A s \in Requests \ {r} : req'[s] = req[s]
  BY DEF Inv, Return

\* What a step that is none of a handler's or job's leaves alone.
LEMMA OutsideRests ==
    ASSUME AtStripe \/ Tick \/ UNCHANGED vars
    PROVE  UNCHANGED <<row, tier, payments, processed, mailed, req>>
  BY DEF AtStripe, CompleteUnpaid, Pay, Renew, FailRenewal, CancelAtStripe, Quiet, Tick, vars

\* Which step writes what.
LEMMA Writers ==
    ASSUME NEW r \in Requests, Step(r)
    PROVE  /\ payments' = payments \/ RecordPayment(r)
           /\ processed' = processed \/ RecordEvent(r)
           /\ mailed' = mailed \/ SendReminder(r)
           /\ row' = row \/ Upsert(r) \/ ApplyUpdate(r) \/ CancelRow(r) \/ MarkReminded(r)
           /\ tier' = tier \/ Upsert(r) \/ ApplyUpdate(r) \/ CancelRow(r) \/ Demote(r)
           /\ events' = events /\ week' = week
  BY DEF Step, ReadOnly, tables, ReadTier, ReadRow, OpenSession, CheckProcessed, FindSub, FindUser,
     Retrieve, Upsert, ApplyUpdate, CancelRow, RecordPayment, RecordEvent, ReadSession, FindDue,
     SendReminder, MarkReminded, Demote

\* A step handles the event whose record it leaves as the next one.
LEMMA HandledStep ==
    ASSUME Inv, HandlersInv, NEW r \in Requests, Step(r)
    PROVE  HandledIds' = HandledIds \cup (IF req'[r].pc = "record" THEN {req'[r].ev} ELSE {})
<1>1. Advances(req[r], req'[r]) /\ \A s \in Requests \ {r} : req'[s] = req[s]
  BY Moves
<1>2. CASE req[r].pc = "record"
  <2>1. RecordEvent(r)
    BY <1>2 DEF Step, ReadTier, ReadRow, OpenSession, CheckProcessed, FindSub, FindUser, Retrieve,
       Upsert, ApplyUpdate, CancelRow, RecordPayment, ReadSession, FindDue, SendReminder,
       MarkReminded, Demote, At
  <2>2. req'[r] = Idle /\ Idle.pc # "record" /\ processed' = processed \cup {req[r].ev}
    BY <2>1, Returns, IdleFields DEF RecordEvent
  <2> QED
    BY <1>1, <1>2, <2>2 DEF HandledIds, At
<1>3. CASE req[r].pc # "record"
  <2>1. processed' = processed
    BY <1>3, Writers DEF RecordEvent, At
  <2> QED
    BY <1>1, <1>3, <2>1 DEF HandledIds, At
<1> QED
  BY <1>2, <1>3

\* Nothing is handled by what starts or happens elsewhere.
LEMMA HandledRests ==
    ASSUME Inv, (\E r \in Requests : Arrive(r)) \/ AtStripe \/ Tick \/ UNCHANGED vars
    PROVE  HandledIds' = HandledIds /\ processed' = processed
<1>1. CASE \E r \in Requests : Arrive(r)
  <2>1. PICK r \in Requests : Arrive(r)
    BY <1>1
  <2>2. PICK q \in Request : Becomes(r, q) /\ Begins(q)
    BY <2>1, Arrivals
  <2>3. /\ req'[r].pc # "record" /\ req[r].pc # "record" /\ processed' = processed
        /\ \A s \in Requests \ {r} : req'[s] = req[s]
    BY <2>1, <2>2, Arrivals, Slots, IdleFields DEF Begins, ReadOnly, tables
  <2> QED
    BY <2>3 DEF HandledIds, At
<1>2. CASE AtStripe \/ Tick \/ UNCHANGED vars
  BY <1>2, OutsideRests DEF HandledIds, At
<1> QED
  BY <1>1, <1>2

\* What an aborted handler was about to record it will do again.
LEMMA HandledAborts ==
    ASSUME Inv, NEW r \in Requests, Abort(r)
    PROVE  /\ HandledIds' \subseteq HandledIds /\ processed' = processed
           /\ HandledIds \ {req[r].ev} \subseteq HandledIds'
  BY Returns, IdleFields DEF Abort, ReadOnly, tables, HandledIds, At

\* An event in hand has not been handled.
LEMMA InHand ==
    ASSUME HandlersInv, OneDelivery, Unrecorded, NEW r \in Requests, req[r].op = "webhook",
           req[r].pc \in AtWork \ {"record"}
    PROVE  req[r].ev \notin HandledIds
  BY DEF HandlersInv, OneDelivery, Unrecorded, HandledIds, At, Control

\* Another delivery could only record it while this one works on it.
LEMMA UnrecordedStep ==
    ASSUME Inv, HandlersInv, OneDelivery, Unrecorded, [Next]_vars PROVE Unrecorded'
<1>1. ASSUME NEW r \in Requests, Step(r) PROVE Unrecorded'
  <2>1. Advances(req[r], req'[r]) /\ \A s \in Requests \ {r} : req'[s] = req[s]
    BY <1>1, Moves
  <2>2. CASE RecordEvent(r)
    <3>1. req'[r] = Idle /\ processed' = processed \cup {req[r].ev} /\ req[r].op = "webhook"
      BY <2>2, Returns DEF RecordEvent, At, HandlersInv, Control
    <3> QED
      BY <2>1, <3>1, IdleFields DEF Unrecorded, OneDelivery, AtWork
  <2>3. CASE ~ RecordEvent(r)
    <3>1. processed' = processed
      BY <1>1, <2>3, Writers
    <3>2. req'[r].op = "webhook" /\ req'[r].pc \in AtWork =>
            req[r].op = "webhook" /\ req'[r].ev \notin processed
      BY <2>1, IdleFields DEF Advances, Continues, Looks, Writes, Unrecorded, AtWork, Inv, Slot
    <3> QED
      BY <2>1, <3>1, <3>2 DEF Unrecorded
  <2> QED
    BY <2>2, <2>3
<1>2. ASSUME NEW r \in Requests, Arrive(r) PROVE Unrecorded'
  <2>1. PICK q \in Request : Becomes(r, q) /\ Begins(q)
    BY <1>2, Arrivals
  <2>2. /\ req'[r].pc \notin AtWork /\ processed' = processed
        /\ \A s \in Requests \ {r} : req'[s] = req[s]
    BY <1>2, <2>1, Arrivals, Slots DEF Begins, ReadOnly, tables, AtWork
  <2> QED
    BY <2>2 DEF Unrecorded
<1>3. ASSUME NEW r \in Requests, Abort(r) PROVE Unrecorded'
  <2>1. /\ req'[r].pc \notin AtWork /\ processed' = processed
        /\ \A s \in Requests \ {r} : req'[s] = req[s]
    BY <1>3, Returns, IdleFields DEF Abort, ReadOnly, tables, AtWork
  <2> QED
    BY <2>1 DEF Unrecorded
<1>4. CASE AtStripe \/ Tick \/ UNCHANGED vars
  BY <1>4, OutsideRests DEF Unrecorded
<1> QED
  BY <1>1, <1>2, <1>3, <1>4 DEF Next

\* With one delivery of an event at a time this is so from the start on.
LEMMA DeliveriesInvariant ==
    Spec /\ []OneDelivery => [](Inv /\ LogInv /\ HandlersInv /\ OneDelivery /\ Unrecorded)
<1>1. Init => Unrecorded
  BY IdleFields DEF Init, Unrecorded, AtWork
<1>2. Inv /\ HandlersInv /\ OneDelivery /\ Unrecorded /\ [Next]_vars => Unrecorded'
  BY UnrecordedStep
<1> QED
  BY <1>1, <1>2, HandlersInvariant, PTL DEF Spec

-----------------------------------------------------------------------------
\* Payments, recorded once when no handler is cut off.  (One that is cut off between the
\* payment and the record of its event leaves the payment to be recorded again.)
LEMMA PaymentStep ==
    ASSUME Inv, HandlersInv, OneDelivery, Unrecorded, PaymentBooks, "abort" \notin Events,
           [Next]_vars
    PROVE  PaymentBooks'
<1>1. ASSUME HandledIds \subseteq HandledIds', payments' = payments PROVE PaymentBooks'
  BY <1>1 DEF PaymentBooks
<1>2. ASSUME NEW r \in Requests, Step(r) PROVE PaymentBooks'
  <2>1. HandledIds' = HandledIds \cup (IF req'[r].pc = "record" THEN {req'[r].ev} ELSE {})
    BY <1>2, HandledStep
  <2>2. CASE RecordPayment(r)
    <3>1. /\ req[r].pc = "pay" /\ req[r].op = "webhook" /\ req[r].ev \in EventIds
          /\ payments \in [EventIds -> Tally]
      BY <2>2 DEF RecordPayment, At, Inv, Slot, Data, CountsOK
    <3>2. req[r].ev \notin HandledIds
      BY <3>1, InHand DEF AtWork
    <3>3. payments[req[r].ev] = 0
      BY <3>1, <3>2 DEF PaymentBooks, Tally
    <3>4. payments' = [payments EXCEPT ![req[r].ev] = 1]
      BY <2>2, <3>3 DEF RecordPayment, OneMore
    <3>5. req'[r].pc = "record" /\ req'[r].ev = req[r].ev
      <4>1. req'[r].pc = "record"
        BY <2>2, GoesTo DEF RecordPayment, Steps
      <4> QED
        BY <1>2, <4>1, Moves, IdleFields DEF Advances, Continues
    <3> QED
      BY <2>1, <3>1, <3>4, <3>5 DEF PaymentBooks
  <2>3. CASE ~ RecordPayment(r)
    BY <1>1, <1>2, <2>1, <2>3, Writers
  <2> QED
    BY <2>2, <2>3
<1>3. ASSUME NEW r \in Requests, Arrive(r) PROVE PaymentBooks'
  BY <1>1, <1>3, Arrivals, HandledRests DEF ReadOnly, tables
<1>4. CASE AtStripe \/ Tick \/ UNCHANGED vars
  BY <1>1, <1>4, OutsideRests, HandledRests
<1> QED
  BY <1>2, <1>3, <1>4 DEF Next, Abort

\* So it is from the empty table on.
LEMMA PaymentsInvariant ==
    ASSUME "abort" \notin Events PROVE Spec /\ []OneDelivery => []PaymentBooks
<1>1. Init => PaymentBooks
  BY DEF Init, PaymentBooks
<1>2. Inv /\ HandlersInv /\ OneDelivery /\ Unrecorded /\ PaymentBooks /\ [Next]_vars
        => PaymentBooks'
  BY PaymentStep
<1> QED
  BY <1>1, <1>2, DeliveriesInvariant, PTL DEF Spec

-----------------------------------------------------------------------------
\* Reminders.

\* Subscription x has been seen in a row.
Used(x) ==
    \/ \E u \in Users : row[u].x = x
    \/ \E w \in Weeks : mailed[x][w] > 0
    \/ \E r \in Requests : req[r].pc \in {"send", "mark"} /\ \E d \in req[r].todo : d[2] = x

\* Once a subscription has a row its checkout has been handled, so that it gets no
\* second row, whose mark would be empty again.
RowBooks ==
    \A x \in Subs : Used(x) =>
        PaidIn(stripe, x) /\ \A e \in events : Announces(e, x) => e.id \in HandledIds

\* The job has sent the mail to u and not marked the row yet.
Marking(u) == \E r \in Requests : req[r].pc = "mark" /\ req[r].u = u

\* Of one renewal one mail is sent, after which the row is marked or about to be.
MailBooks ==
    \A x \in Subs, w \in Weeks :
        /\ mailed[x][w] < 2
        /\ mailed[x][w] > 0 => \A u \in Users : row[u].x = x => row[u].reminded \/ Marking(u)

\* What the reminder job has to do: each user once, of whose subscription nobody has
\* been reminded yet.
ListOf(q, st, sent) ==
    q.pc \in {"send", "mark"} =>
        /\ \A d \in q.todo : PaidIn(st, d[2]) /\ st[d[2]].owner = d[1]
        /\ \A c, d \in q.todo : c[1] = d[1] => c = d
        /\ \A d \in q.todo : q.pc = "send" \/ q.u # d[1] => \A w \in Weeks : sent[d[2]][w] = 0

\* What is true of reminders.
MailInv == RowBooks /\ MailBooks /\ \A r \in Requests : ListOf(req[r], stripe, mailed)

\* Sessions keep their owner and their payment.
LEMMA StripeKeeps ==
    ASSUME Inv, LogInv, [Next]_vars
    PROVE  /\ \A x \in Subs : PaidIn(stripe, x) =>
                PaidIn(stripe', x) /\ stripe'[x].owner = stripe[x].owner
           /\ \A e \in events' \ events, x \in Subs : Announces(e, x) => ~ PaidIn(stripe, x)
<1>1. ASSUME NEW r \in Requests, OpenSession(r)
      PROVE  events' = events /\ \A x \in Subs : PaidIn(stripe, x) => stripe'[x] = stripe[x]
  BY <1>1 DEF OpenSession, PaidIn, Statuses, Inv, Data, StripeOK
<1>2. CASE AtStripe
  <2>1. PICK x \in Subs : Says(x)
    BY <1>2, StripeSays DEF LogInv, Log
  <2>2. \A y \in Subs : PaidIn(stripe, y) =>
            PaidIn(stripe', y) /\ stripe'[y].owner = stripe[y].owner
    BY <2>1 DEF Says, PaidIn, Statuses
  <2>3. \A e \in events' \ events : e.x = x /\ (e.type = "checkout" => stripe[x].status = "offered")
    BY <2>1 DEF Says, Fresh
  <2> QED
    BY <2>2, <2>3 DEF Announces, PaidIn, Statuses
<1>3. CASE Tick \/ UNCHANGED vars
  BY <1>3 DEF Tick, vars, PaidIn
<1>4. CASE \E r \in Requests : Arrive(r) \/ Step(r) \/ Abort(r)
  BY <1>1, <1>4, LogRests DEF PaidIn
<1> QED
  BY <1>2, <1>3, <1>4 DEF Next

\* The reminder job is one.
LEMMA OneReminder ==
    ASSUME HandlersInv, NEW r \in Requests, NEW s \in Requests,
           req[r].op = "reminder", req[s].pc \in {"send", "mark"}
    PROVE  r = s
  BY DEF HandlersInv, JobsApart, Control

\* A step that writes no row and no mail, and of the jobs' lists at most takes one
\* away.
LEMMA MailRests ==
    ASSUME Inv, LogInv, MailInv, [Next]_vars, UNCHANGED <<row, mailed>>,
           HandledIds \subseteq HandledIds',
           \A r \in Requests : req'[r].pc \in {"send", "mark"} => req'[r] = req[r],
           \A r \in Requests : req[r].pc = "mark" => req'[r] = req[r]
    PROVE  MailInv'
<1>1. \A x \in Subs : PaidIn(stripe, x) => PaidIn(stripe', x) /\ stripe'[x].owner = stripe[x].owner
  BY StripeKeeps
<1>2. \A e \in events', x \in Subs : Announces(e, x) /\ PaidIn(stripe, x) => e \in events
  BY StripeKeeps
<1>3. \A x \in Subs : Used(x)' => Used(x)
  BY DEF Used
<1>4. RowBooks'
  BY <1>1, <1>2, <1>3 DEF MailInv, RowBooks, Announces
<1>5. MailBooks'
  BY DEF MailInv, MailBooks, Marking
<1>6. ASSUME NEW r \in Requests, req'[r].pc \in {"send", "mark"}
      PROVE  ListOf(req'[r], stripe', mailed')
  <2>1. req'[r] = req[r] /\ ListOf(req[r], stripe, mailed)
    BY <1>6 DEF MailInv
  <2>2. \A d \in req[r].todo : d[2] \in Subs
    BY DEF Inv, Request
  <2> QED
    BY <1>1, <1>6, <2>1, <2>2 DEF ListOf
<1>7. \A r \in Requests : ListOf(req'[r], stripe', mailed')
  BY <1>6 DEF ListOf
<1> QED
  BY <1>4, <1>5, <1>7 DEF MailInv

\* The job takes its list.
LEMMA FindDueMail ==
    ASSUME Inv, LogInv, HandlersInv, MailInv, NEW r \in Requests, FindDue(r) PROVE MailInv'
<1>1. Step(r) /\ ReadOnly /\ req[r].pc = "findDue"
  BY DEF Step, FindDue, At
<1>2. /\ Advances(req[r], req'[r]) /\ \A s \in Requests \ {r} : req'[s] = req[s]
  BY <1>1, Moves
<1>3. HandledIds \subseteq HandledIds' /\ UNCHANGED <<stripe, events, row, mailed>>
  BY <1>1, HandledStep DEF ReadOnly, tables
<1>4. CASE req'[r].pc \notin {"send", "mark"}
  <2>1. [Next]_vars
    BY <1>1 DEF Next
  <2> QED
    BY <1>1, <1>2, <1>3, <1>4, <2>1, MailRests
<1>5. CASE req'[r].pc \in {"send", "mark"}
  <2>1. /\ req'[r].pc = "send" /\ req[r].op = "reminder"
        /\ req'[r].todo = {<<u, row[u].x, row[u].ends>> : u \in DueOf("reminder")}
    BY <1>1, <1>2, <1>5, IdleFields DEF Advances, Looks, Writes
  <2>2. ASSUME NEW u \in DueOf("reminder")
        PROVE  /\ u \in Users /\ row[u].x \in Subs /\ PaidIn(stripe, row[u].x)
               /\ stripe[row[u].x].owner = u /\ \A w \in Weeks : mailed[row[u].x][w] = 0
    <3>1. u \in Users /\ row[u].status = "active" /\ ~ row[u].reminded
      BY <2>2 DEF DueOf, DueForReminder
    <3>2. row[u].x \in Subs /\ PaidIn(stripe, row[u].x) /\ stripe[row[u].x].owner = u
      BY <3>1 DEF Inv, Data, RowsOK, Row
    <3>3. ~ Marking(u)
      BY <1>1, <2>1, OneReminder DEF Marking
    <3>4. \A w \in Weeks : mailed[row[u].x][w] \in Nat /\ ~ (mailed[row[u].x][w] > 0)
      BY <3>1, <3>2, <3>3 DEF MailInv, MailBooks, Inv, Data, CountsOK, Tally
    <3> QED
      BY <3>1, <3>2, <3>4
  <2>3. \A d \in req'[r].todo :
            d[1] \in DueOf("reminder") /\ d = <<d[1], row[d[1]].x, row[d[1]].ends>>
    BY <2>1
  <2>4. ListOf(req'[r], stripe', mailed')
    <3>1. \A d \in req'[r].todo : PaidIn(stripe, d[2]) /\ stripe[d[2]].owner = d[1]
                                  /\ \A w \in Weeks : mailed[d[2]][w] = 0
      BY <2>2, <2>3
    <3>2. \A c, d \in req'[r].todo : c[1] = d[1] => c = d
      BY <2>3
    <3> QED
      BY <1>3, <2>1, <3>1, <3>2 DEF ListOf
  <2>5. \A s \in Requests : ListOf(req'[s], stripe', mailed')
    BY <1>2, <1>3, <2>4 DEF MailInv
  <2>6. \A x \in Subs : Used(x)' => Used(x)
    <3>1. \A d \in req'[r].todo : Used(d[2])
      BY <2>2, <2>3 DEF Used
    <3> QED
      BY <1>2, <1>3, <3>1 DEF Used
  <2>7. RowBooks'
    BY <1>3, <2>6 DEF MailInv, RowBooks, Announces
  <2>8. \A u : Marking(u)' <=> Marking(u)
    BY <1>1, <1>2, <2>1 DEF Marking
  <2>9. MailBooks'
    BY <1>3, <2>8 DEF MailInv, MailBooks
  <2> QED
    BY <2>5, <2>7, <2>9 DEF MailInv
<1> QED
  BY <1>4, <1>5

\* The mail goes out, for the first time.
LEMMA SendMail ==
    ASSUME Inv, LogInv, HandlersInv, MailInv, NEW r \in Requests, SendReminder(r) PROVE MailInv'
<1>1. Step(r) /\ req[r].pc = "send" /\ req[r].op = "reminder"
  BY DEF Step, SendReminder, At, HandlersInv, Control
<1>2. /\ \A s \in Requests \ {r} : req'[s] = req[s]
      /\ HandledIds \subseteq HandledIds' /\ UNCHANGED <<stripe, events, row>>
  BY <1>1, Moves, HandledStep DEF SendReminder, tables
<1>3. PICK d \in req[r].todo :
        /\ mailed' = [mailed EXCEPT ![d[2]][d[3]] = OneMore(@)]
        /\ req' = [req EXCEPT ![r] = [@ EXCEPT !.pc = "mark", !.u = d[1]]]
  BY DEF SendReminder
<1>4. req'[r].pc = "mark" /\ req'[r].u = d[1] /\ req'[r].todo = req[r].todo
  BY <1>3 DEF Inv, Request
<1>5. /\ \A c \in req[r].todo : c[1] \in Users /\ c[2] \in Subs /\ c[3] \in Weeks
      /\ mailed \in [Subs -> [Weeks -> Tally]]
  BY DEF Inv, Request, Data, CountsOK
<1>6. /\ \A c \in req[r].todo : PaidIn(stripe, c[2]) /\ stripe[c[2]].owner = c[1]
      /\ \A b, c \in req[r].todo : b[1] = c[1] => b = c
      /\ \A c \in req[r].todo, w \in Weeks : mailed[c[2]][w] = 0
  BY <1>1 DEF MailInv, ListOf
<1>7. /\ mailed'[d[2]][d[3]] = 1
      /\ \A x \in Subs, w \in Weeks : x # d[2] => mailed'[x][w] = mailed[x][w]
      /\ \A w \in Weeks : w # d[3] => mailed'[d[2]][w] = 0
  BY <1>3, <1>5, <1>6 DEF OneMore
<1>8. \A s \in Requests : ListOf(req'[s], stripe', mailed')
  <2>1. ListOf(req'[r], stripe', mailed')
    <3>1. \A c \in req[r].todo : c[1] # d[1] => \A w \in Weeks : mailed'[c[2]][w] = 0
      BY <1>5, <1>6, <1>7
    <3> QED
      BY <1>2, <1>4, <1>6, <3>1 DEF ListOf
  <2>2. \A s \in Requests \ {r} : req[s].pc \notin {"send", "mark"}
    BY <1>1, OneReminder
  <2> QED
    BY <1>2, <2>1, <2>2 DEF ListOf
<1>9. RowBooks'
  <2>1. Used(d[2])
    BY <1>1 DEF Used
  <2>2. \A x \in Subs : Used(x)' => Used(x)
    <3>1. \A x \in Subs, w \in Weeks : mailed'[x][w] > 0 => x = d[2] \/ mailed[x][w] > 0
      BY <1>7
    <3>2. \A s \in Requests : req'[s].pc \in {"send", "mark"} => req[s].pc \in {"send", "mark"}
                                                                /\ req'[s].todo = req[s].todo
      BY <1>1, <1>2, <1>4
    <3> QED
      BY <1>2, <2>1, <3>1, <3>2 DEF Used
  <2> QED
    BY <1>2, <2>2 DEF MailInv, RowBooks, Announces
<1>10. MailBooks'
  <2>1. Marking(d[1])' /\ \A u : Marking(u) => Marking(u)'
    BY <1>1, <1>2, <1>4 DEF Marking
  <2>2. \A u \in Users : row[u].x = d[2] => u = d[1]
    BY <1>5, <1>6, Constants DEF Inv, Data, RowsOK
  <2> SUFFICES ASSUME NEW x \in Subs, NEW w \in Weeks
               PROVE  /\ mailed'[x][w] < 2
                      /\ mailed'[x][w] > 0 =>
                            \A u \in Users : row[u].x = x => row[u].reminded \/ Marking(u)'
    BY <1>2 DEF MailBooks
  <2>3. CASE x = d[2]
    BY <1>7, <2>1, <2>2, <2>3
  <2>4. CASE x # d[2]
    BY <1>7, <2>1, <2>4 DEF MailInv, MailBooks
  <2> QED
    BY <2>3, <2>4
<1> QED
  BY <1>8, <1>9, <1>10 DEF MailInv

\* The row is marked.
LEMMA MarkMail ==
    ASSUME Inv, LogInv, HandlersInv, MailInv, NEW r \in Requests, MarkReminded(r) PROVE MailInv'
<1>1. Step(r) /\ req[r].pc = "mark" /\ req[r].op = "reminder"
  BY DEF Step, MarkReminded, At, HandlersInv, Control
<1>2. /\ Advances(req[r], req'[r]) /\ \A s \in Requests \ {r} : req'[s] = req[s]
      /\ HandledIds \subseteq HandledIds' /\ UNCHANGED <<stripe, events, mailed>>
      /\ row' = [row EXCEPT ![req[r].u].reminded = TRUE]
  BY <1>1, Moves, HandledStep DEF MarkReminded
<1>3. \A u \in Users : row'[u].x = row[u].x /\ row'[u].reminded = (row[u].reminded \/ u = req[r].u)
  <2>1. row \in [Users -> Row]
    BY DEF Inv, Data, RowsOK
  <2> QED
    BY <1>2, <2>1 DEF Row
<1>4. \/ /\ req'[r].pc = "send"
         /\ \E d \in req[r].todo : d[1] = req[r].u /\ req'[r].todo = req[r].todo \ {d}
      \/ req'[r] = Idle
  BY <1>1, <1>2 DEF Advances, Looks, Writes
<1>5. \A s \in Requests : ListOf(req'[s], stripe', mailed')
  BY <1>1, <1>2, <1>4, IdleFields DEF MailInv, ListOf
<1>6. \A x \in Subs : Used(x)' => Used(x)
  BY <1>1, <1>2, <1>3, <1>4, IdleFields DEF Used
<1>7. RowBooks'
  BY <1>2, <1>6 DEF MailInv, RowBooks, Announces
<1>8. MailBooks'
  <2>1. \A u \in Users : row[u].reminded \/ Marking(u) => row'[u].reminded \/ Marking(u)'
    BY <1>2, <1>3 DEF Marking
  <2> QED
    BY <1>2, <1>3, <2>1 DEF MailInv, MailBooks
<1> QED
  BY <1>5, <1>7, <1>8 DEF MailInv

\* A checkout gives its subscription the first row it has, and takes the mark from
\* the one that it writes over.
LEMMA UpsertMail ==
    ASSUME Inv, LogInv, HandlersInv, OneDelivery, Unrecorded, MailInv, "confirm" \notin Ops,
           NEW r \in Requests, Upsert(r)
    PROVE  MailInv'
<1>1. /\ Step(r) /\ req[r].pc = "upsert" /\ req[r].op = "webhook" /\ Slot(req[r], stripe, row)
      /\ Control(req[r], events)
  <2>1. req[r].pc = "upsert" /\ Slot(req[r], stripe, row) /\ Control(req[r], events)
    BY DEF Upsert, At, Inv, HandlersInv
  <2> QED
    BY <2>1 DEF Step, Slot, Control
<1>2. /\ Advances(req[r], req'[r]) /\ \A s \in Requests \ {r} : req'[s] = req[s]
      /\ HandledIds \subseteq HandledIds' /\ UNCHANGED <<stripe, events, mailed>>
  BY <1>1, Moves, HandledStep DEF Upsert
<1> DEFINE x == req[r].x
           u == req[r].u
<1>3. CASE row' = row
  <2>1. [Next]_vars /\ req'[r].pc \notin {"send", "mark"}
    BY <1>1, <1>2, IdleFields DEF Next, Advances, Looks, Writes
  <2> QED
    BY <1>1, <1>2, <1>3, <2>1, MailRests
<1>4. CASE Fulfill(u, x, req[r].status, req[r].ends) /\ Goto(r, "record")
  <2>1. req'[r].pc = "record" /\ req'[r].ev = req[r].ev
    <3>1. req'[r].pc = "record"
      BY <1>4, GoesTo DEF Steps
    <3> QED
      BY <1>2, <3>1, IdleFields DEF Advances, Continues
  <2>2. PICK e \in events : e.id = req[r].ev /\ Announces(e, x)
    BY <1>1 DEF Control, Carries, Announces
  <2>3. x \in Subs /\ PaidIn(stripe, x) /\ req[r].ev \notin HandledIds
    BY <1>1, InHand DEF Slot, AtWork
  <2>4. ~ Used(x)
    BY <2>2, <2>3 DEF MailInv, RowBooks
  <2>5. /\ \A v \in Users : v # u => row'[v] = row[v]
        /\ u \in Users => row'[u].x = x
    BY <1>4 DEF Fulfill, Inv, Data, RowsOK
  <2>6. \A s \in Requests : ListOf(req'[s], stripe', mailed')
    BY <1>2, <2>1 DEF MailInv, ListOf
  <2>7. \A y \in Subs : Used(y)' => Used(y) \/ y = x
    BY <1>1, <1>2, <2>1, <2>5 DEF Used
  <2>8. HandledIds' = HandledIds \cup {req[r].ev}
    BY <1>1, <2>1, HandledStep
  <2>9. \A f \in events : Announces(f, x) => f = e
    BY <2>2, <2>3 DEF LogInv, OneCheckout
  <2>10. RowBooks'
    <3> SUFFICES ASSUME NEW y \in Subs, Used(y)'
                 PROVE  /\ PaidIn(stripe, y)
                        /\ \A f \in events : Announces(f, y) => f.id \in HandledIds'
      BY <1>2 DEF RowBooks, Announces, PaidIn
    <3>1. CASE y = x
      BY <2>2, <2>3, <2>8, <2>9, <3>1
    <3>2. CASE Used(y)
      BY <1>2, <3>2 DEF MailInv, RowBooks
    <3> QED
      BY <2>7, <3>1, <3>2
  <2>11. \A v : Marking(v) => Marking(v)'
    BY <1>1, <1>2 DEF Marking
  <2>12. \A w \in Weeks : ~ (mailed[x][w] > 0)
    BY <2>4 DEF Used
  <2>13. MailBooks'
    BY <1>2, <2>5, <2>11, <2>12 DEF MailInv, MailBooks
  <2> QED
    BY <2>6, <2>10, <2>13 DEF MailInv
<1> QED
  BY <1>1, <1>3, <1>4 DEF Upsert

\* The transactions that leave the marks alone.
LEMMA ApplyMail ==
    ASSUME Inv, LogInv, HandlersInv, MailInv, NEW r \in Requests, ApplyUpdate(r) \/ CancelRow(r)
    PROVE  MailInv'
<1>1. Step(r) /\ req[r].pc \in {"apply", "cancel"}
  BY DEF Step, ApplyUpdate, CancelRow, At
<1>2. /\ req'[r].pc \notin {"send", "mark"} /\ \A s \in Requests \ {r} : req'[s] = req[s]
      /\ HandledIds \subseteq HandledIds' /\ UNCHANGED <<stripe, events, mailed>>
  BY <1>1, Moves, HandledStep, IdleFields DEF ApplyUpdate, CancelRow, Advances, Looks, Writes
<1>3. \A u \in Users : row'[u].x = row[u].x /\ row'[u].reminded = row[u].reminded
  <2>1. row \in [Users -> Row]
    BY DEF Inv, Data, RowsOK
  <2> QED
    BY <2>1 DEF Row, ApplyUpdate, CancelRow
<1>4. \A x \in Subs : Used(x)' => Used(x)
  BY <1>2, <1>3 DEF Used
<1>5. RowBooks'
  BY <1>2, <1>4 DEF MailInv, RowBooks, Announces
<1>6. \A u : Marking(u) => Marking(u)'
  BY <1>1, <1>2 DEF Marking
<1>7. MailBooks'
  BY <1>2, <1>3, <1>6 DEF MailInv, MailBooks
<1>8. \A s \in Requests : ListOf(req'[s], stripe', mailed')
  BY <1>2 DEF MailInv, ListOf
<1> QED
  BY <1>5, <1>7, <1>8 DEF MailInv

\* Every step keeps the reminders in order, ...
LEMMA MailStep ==
    ASSUME Inv, LogInv, HandlersInv, OneDelivery, Unrecorded, MailInv, "confirm" \notin Ops,
           "abort" \notin Events, [Next]_vars
    PROVE  MailInv'
<1>1. ASSUME NEW r \in Requests, Step(r) PROVE MailInv'
  <2>1. CASE row' = row /\ mailed' = mailed /\ ~ FindDue(r) /\ ~ MarkReminded(r)
    <3>1. /\ Advances(req[r], req'[r]) /\ \A s \in Requests \ {r} : req'[s] = req[s]
          /\ HandledIds \subseteq HandledIds'
      BY <1>1, Moves, HandledStep
    <3>2. ~ SendReminder(r) \/ req[r].pc = "send"
      BY DEF SendReminder, At
    <3>3. CASE req[r].pc \in {"send", "mark", "findDue"}
      <4>1. SendReminder(r)
        BY <1>1, <2>1, <3>3 DEF Step, ReadTier, ReadRow, OpenSession, CheckProcessed, FindSub,
           FindUser, Retrieve, Upsert, ApplyUpdate, CancelRow, RecordPayment, RecordEvent,
           ReadSession, Demote, At
      <4> QED
        BY <4>1, SendMail
    <3>4. CASE req[r].pc \notin {"send", "mark", "findDue"}
      <4>1. req'[r].pc \notin {"send", "mark"}
        BY <3>1, <3>4, IdleFields DEF Advances, Looks, Writes
      <4> QED
        BY <2>1, <3>1, <3>4, <4>1, MailRests
    <3> QED
      BY <3>3, <3>4
  <2> QED
    BY <1>1, <2>1, Writers, FindDueMail, SendMail, MarkMail, UpsertMail, ApplyMail
<1>2. ASSUME NEW r \in Requests, Arrive(r) PROVE MailInv'
  <2>1. PICK q \in Request : Becomes(r, q) /\ Begins(q)
    BY <1>2, Arrivals
  <2>2. /\ req'[r] = q /\ q.pc \notin {"send", "mark"} /\ req[r].pc # "mark"
        /\ \A s \in Requests \ {r} : req'[s] = req[s]
    BY <1>2, <2>1, Arrivals, Slots, IdleFields DEF Begins
  <2>3. HandledIds' = HandledIds /\ UNCHANGED <<row, mailed>>
    BY <1>2, HandledRests, Arrivals DEF ReadOnly, tables
  <2> QED
    BY <2>2, <2>3, MailRests
<1>3. CASE AtStripe \/ Tick \/ UNCHANGED vars
  BY <1>3, OutsideRests, HandledRests, MailRests
<1> QED
  BY <1>1, <1>2, <1>3 DEF Next, Abort

\* ... and so they are from the start on.
LEMMA MailInvariant ==
    ASSUME "confirm" \notin Ops, "abort" \notin Events PROVE Spec /\ []OneDelivery => []MailInv
<1>1. Init => MailInv
  <2> SUFFICES ASSUME Init PROVE MailInv
    OBVIOUS
  <2>1. \A x \in Subs : ~ Used(x)
    BY Constants, IdleFields DEF Init, Used, NoRow
  <2>2. \A r \in Requests : ListOf(req[r], stripe, mailed)
    BY IdleFields DEF Init, ListOf
  <2> QED
    BY <2>1, <2>2 DEF Init, MailInv, RowBooks, MailBooks
<1>2. Inv /\ LogInv /\ HandlersInv /\ OneDelivery /\ Unrecorded /\ MailInv /\ [Next]_vars
        => MailInv'
  BY MailStep
<1> QED
  BY <1>1, <1>2, DeliveriesInvariant, PTL DEF Spec

\* No customer is reminded twice of one renewal: only a checkout that is fulfilled
\* takes the mark off a row, which happens once per subscription.
THEOREM RemindedOnce ==
    ASSUME "confirm" \notin Ops, "abort" \notin Events PROVE Spec /\ []OneDelivery => []MailedOnce
<1>1. MailInv => MailedOnce
  BY DEF MailInv, MailBooks, MailedOnce
<1> QED
  BY <1>1, MailInvariant, PTL

-----------------------------------------------------------------------------
\* Demotions.

\* The grace period of u is over.
Overdue(u) == row[u].status # "active" /\ row[u].ends + 1 < week

\* Everybody on the demotion job's list is overdue.
DemotionInv ==
    \A r \in Requests : req[r].pc = "demote" => \A d \in req[r].todo : Overdue(d[1])

\* The demotion job finds what it has to do, and while it does so nothing else runs.
LEMMA DemotionStep ==
    ASSUME Inv, DemotionAlone, DemotionInv, [Next]_vars PROVE DemotionInv'
<1>1. ASSUME UNCHANGED <<row, week>>,
             \A r \in Requests : req'[r].pc = "demote" => req'[r] = req[r]
      PROVE  DemotionInv'
  BY <1>1 DEF DemotionInv, Overdue
<1>2. ASSUME NEW r \in Requests, Step(r) PROVE DemotionInv'
  <2>1. /\ Advances(req[r], req'[r]) /\ \A s \in Requests \ {r} : req'[s] = req[s]
        /\ Slot(req[r], stripe, row)
    BY <1>2, Moves DEF Inv
  <2>2. CASE req[r].pc = "demote"
    <3>1. row' = row /\ week' = week
      BY <1>2, <2>2, Writers DEF Upsert, ApplyUpdate, CancelRow, MarkReminded, At
    <3>2. req'[r].pc = "demote" => req'[r].todo \subseteq req[r].todo
      BY <2>1, <2>2, IdleFields DEF Advances, Looks, Writes
    <3> QED
      BY <2>1, <2>2, <3>1, <3>2 DEF DemotionInv, Overdue
  <2>3. CASE req[r].pc = "findDue" /\ req'[r].pc = "demote"
    <3>1. row' = row /\ week' = week
      BY <1>2, <2>3, Writers DEF Upsert, ApplyUpdate, CancelRow, MarkReminded, At
    <3>2. \A d \in req'[r].todo : \E u \in Users :
            d = <<u, row[u].x, row[u].ends>> /\ DueForDemotion(u)
      BY <2>1, <2>3, IdleFields DEF Advances, Looks, Writes, DueOf, Slot
    <3>3. \A d \in req'[r].todo : Overdue(d[1])
      BY <3>2 DEF DueForDemotion, Overdue
    <3> QED
      BY <2>1, <3>1, <3>3 DEF DemotionInv, Overdue
  <2>4. CASE req[r].pc # "demote" /\ req'[r].pc # "demote"
    <3>1. req[r] # Idle
      BY <1>2, IdleFields DEF Step, ReadTier, ReadRow, OpenSession, CheckProcessed, FindSub,
         FindUser, Retrieve, Upsert, ApplyUpdate, CancelRow, RecordPayment, RecordEvent,
         ReadSession, FindDue, SendReminder, MarkReminded, Demote, At
    <3>2. \A s \in Requests : req[s].pc # "demote"
      BY <2>4, <3>1 DEF DemotionAlone, Inv, Slot
    <3> QED
      BY <2>1, <2>4, <3>2 DEF DemotionInv
  <2>5. req'[r].pc = "demote" => req[r].pc \in {"findDue", "demote"}
    BY <2>1, IdleFields DEF Advances, Looks, Writes
  <2> QED
    BY <2>2, <2>3, <2>4, <2>5
<1>3. ASSUME NEW r \in Requests, Arrive(r) PROVE DemotionInv'
  <2>1. PICK q \in Request : Becomes(r, q) /\ Begins(q)
    BY <1>3, Arrivals
  <2> QED
    BY <1>1, <1>3, <2>1, Arrivals, Slots DEF Begins, ReadOnly, tables
<1>4. ASSUME NEW r \in Requests, Abort(r) PROVE DemotionInv'
  BY <1>1, <1>4, Returns, IdleFields DEF Abort, ReadOnly, tables
<1>5. CASE AtStripe \/ UNCHANGED vars
  <2>1. week' = week
    BY <1>5 DEF AtStripe, CompleteUnpaid, Pay, Renew, FailRenewal, CancelAtStripe, Quiet, vars
  <2> QED
    BY <1>1, <1>5, <2>1, OutsideRests
<1>6. CASE Tick
  BY <1>6, IdleFields DEF Tick, DemotionInv
<1> QED
  BY <1>2, <1>3, <1>4, <1>5, <1>6 DEF Next

\* This is so at any time.
LEMMA DemotionInvariant == Spec /\ []DemotionAlone => []DemotionInv
<1>1. Init => DemotionInv
  BY IdleFields DEF Init, DemotionInv
<1>2. Inv /\ DemotionAlone /\ DemotionInv /\ [Next]_vars => DemotionInv'
  BY DemotionStep
<1> QED
  BY <1>1, <1>2, Invariance, PTL DEF Spec

-----------------------------------------------------------------------------
\* Events in order.

\* All events before number i are processed.
Reached(i) == \A e \in events : e.id < i => e.id \in processed

\* No event is processed, and none is in hand, before those that came before it.
InOrder ==
    /\ \A i \in processed : Reached(i) /\ \E e \in events : e.id = i
    /\ \A r \in Requests : req[r].op = "webhook" => Reached(req[r].ev)

\* A handler that has found the row of its subscription may rely on it.
RowHeld ==
    \A r \in Requests :
        req[r].pc \in {"refetch", "apply", "cancel", "pay"} => row[req[r].u].x = req[r].x

\* Events are numbered as they come.
LEMMA FreshLast ==
    ASSUME Inv, LogInv, [Next]_vars
    PROVE  /\ events \subseteq events'
           /\ \A e \in events, f \in events' \ events : e.id < f.id /\ ~ (f.id <= e.id)
           /\ \A e \in events' : e.id \in Nat /\ e.x \in Subs
           /\ \A e, f \in events' : e.id = f.id => e = f
<1>1. events \subseteq events' /\ LogInv' /\ Inv'
  BY LogStep, NextInv
<1>2. /\ \A e \in events' : e.id \in Nat /\ e.x \in Subs
      /\ \A e, f \in events' : e.id = f.id => e = f
  BY <1>1 DEF LogInv, Log, Numbered, Inv, Data, EventsOK, Event, EventIds
<1>3. CASE AtStripe
  <2>1. PICK x \in Subs : Says(x)
    BY <1>3, StripeSays DEF LogInv, Log
  <2>2. \A f \in events' \ events : Cardinality(events) < f.id
    BY <2>1 DEF Says, Fresh
  <2>3. IsFiniteSet(events) /\ \A e \in events : e.id \in 1..Cardinality(events)
    BY DEF LogInv, Log, Numbered, Inv, Data, EventsOK
  <2>4. Cardinality(events) \in Nat
    BY <2>3, FS_CardinalityType
  <2>5. \A e \in events, f \in events' \ events : e.id < f.id /\ ~ (f.id <= e.id)
    BY <1>1, <1>2, <2>2, <2>3, <2>4
  <2> QED
    BY <1>1, <1>2, <2>5
<1>4. CASE ~ AtStripe
  <2>1. events' = events
    BY <1>4, LogRests DEF Next, Tick, vars
  <2> QED
    BY <1>1, <1>2, <2>1
<1> QED
  BY <1>3, <1>4

\* What has been reached stays so.
LEMMA ReachedStays ==
    ASSUME Inv, LogInv, [Next]_vars, processed \subseteq processed',
           NEW e \in events, Reached(e.id)
    PROVE  Reached(e.id)'
  BY FreshLast DEF Reached

\* Stripe goes on to an event when those before it are processed.
LEMMA OrderStep ==
    ASSUME Inv, LogInv, HandlersInv, InOrder, Ordered, [Next]_vars PROVE InOrder'
<1>1. \A r \in Requests : req[r].op = "webhook" => \E e \in events : e.id = req[r].ev
  BY DEF HandlersInv, Control, Carries
<1>2. events \subseteq events'
  BY FreshLast
<1>3. ASSUME processed' = processed,
             \A r \in Requests : req'[r].op = "webhook" =>
                (req[r].op = "webhook" /\ req'[r].ev = req[r].ev)
                \/ \E e \in events : e.id = req'[r].ev /\ Reached(e.id)
      PROVE  InOrder'
  <2>1. \A i \in processed : Reached(i)' /\ \E e \in events' : e.id = i
    BY <1>2, <1>3, ReachedStays DEF InOrder
  <2>2. ASSUME NEW r \in Requests, req'[r].op = "webhook"
        PROVE  \A f \in events' : f.id < req'[r].ev => f.id \in processed'
    <3>1. PICK e \in events : e.id = req'[r].ev /\ Reached(e.id)
      BY <1>1, <1>3, <2>2 DEF InOrder
    <3> QED
      BY <1>3, <3>1, ReachedStays DEF Reached
  <2> QED
    BY <1>3, <2>1, <2>2 DEF InOrder, Reached
<1>4. ASSUME NEW r \in Requests, Step(r) PROVE InOrder'
  <2>1. /\ Advances(req[r], req'[r]) /\ \A s \in Requests \ {r} : req'[s] = req[s]
        /\ events' = events
    BY <1>4, Moves, Writers
  <2>2. \A s \in Requests : req'[s].op = "webhook" =>
            req[s].op = "webhook" /\ req'[s].ev = req[s].ev
    BY <2>1, IdleFields DEF Advances, Continues
  <2>3. CASE processed' = processed
    BY <1>3, <2>2, <2>3
  <2>4. CASE RecordEvent(r)
    <3>1. processed' = processed \cup {req[r].ev} /\ req[r].op = "webhook"
      BY <2>4 DEF RecordEvent, At, HandlersInv, Control
    <3> QED
      BY <1>1, <2>1, <2>2, <3>1 DEF InOrder, Reached
  <2> QED
    BY <1>4, <2>3, <2>4, Writers
<1>5. ASSUME NEW r \in Requests, Arrive(r) PROVE InOrder'
  <2>1. PICK q \in Request : Becomes(r, q) /\ Begins(q)
    BY <1>5, Arrivals
  <2>2. q.op = "webhook" => \E e \in events : e.id = q.ev /\ Reached(e.id)
    BY <2>1 DEF Begins, Carries, Reached
  <2>3. processed' = processed /\ req'[r] = q /\ \A s \in Requests \ {r} : req'[s] = req[s]
    BY <1>5, <2>1, Slots, HandledRests
  <2> QED
    BY <1>3, <2>2, <2>3
<1>6. ASSUME NEW r \in Requests, Abort(r) PROVE InOrder'
  BY <1>3, <1>6, Returns, IdleFields DEF Abort, ReadOnly, tables
<1>7. CASE AtStripe \/ Tick \/ UNCHANGED vars
  BY <1>3, <1>7, OutsideRests
<1> QED
  BY <1>4, <1>5, <1>6, <1>7 DEF Next

\* One handler at a time has an event in hand that was not processed.
LEMMA OneWorks ==
    ASSUME Inv, HandlersInv, OneDelivery, InOrder,
           NEW r \in Requests, NEW s \in Requests, req[r].op = "webhook", req[s].op = "webhook",
           req[r].ev \notin processed, req[s].ev \notin processed
    PROVE  r = s
<1>1. PICK e \in events : e.id = req[r].ev
  BY DEF HandlersInv, Control, Carries
<1>2. PICK f \in events : f.id = req[s].ev
  BY DEF HandlersInv, Control, Carries
<1>3. e.id \in Nat /\ f.id \in Nat
  BY DEF Inv, Data, EventsOK, Event, EventIds
<1>4. ~ (e.id < f.id) /\ ~ (f.id < e.id)
  BY <1>1, <1>2 DEF InOrder, Reached
<1> QED
  BY <1>1, <1>2, <1>3, <1>4 DEF OneDelivery

\* One handler at a time works on an event.
LEMMA OneAtWork ==
    ASSUME Inv, HandlersInv, OneDelivery, Unrecorded, InOrder,
           NEW r \in Requests, NEW s \in Requests, req[r].op = "webhook", req[s].op = "webhook",
           req[r].pc \in AtWork, req[s].pc \in AtWork
    PROVE  r = s
  BY OneWorks DEF Unrecorded

\* Only a checkout changes what a row is about.
LEMMA RowsStay ==
    ASSUME Inv, NEW r \in Requests, Step(r), ~ Upsert(r)
    PROVE  \A u \in Users : row'[u].x = row[u].x
<1>1. row \in [Users -> Row]
  BY DEF Inv, Data, RowsOK
<1>2. CASE row' = row
  BY <1>2
<1>3. CASE ApplyUpdate(r) \/ CancelRow(r) \/ MarkReminded(r)
  BY <1>1, <1>3 DEF ApplyUpdate, CancelRow, MarkReminded, Row
<1> QED
  BY <1>2, <1>3, Writers

\* The only step that changes what a row is about is that of another such handler.
LEMMA RowHeldStep ==
    ASSUME Inv, HandlersInv, OneDelivery, Unrecorded, InOrder, RowHeld, "confirm" \notin Ops,
           [Next]_vars
    PROVE  RowHeld'
<1>1. ASSUME NEW r \in Requests, Step(r) PROVE RowHeld'
  <2>1. /\ Advances(req[r], req'[r]) /\ \A s \in Requests \ {r} : req'[s] = req[s]
        /\ Slot(req[r], stripe, row) /\ Control(req[r], events)
    BY <1>1, Moves DEF Inv, HandlersInv
  <2>2. CASE Upsert(r)
    <3>1. req[r].pc = "upsert" /\ req[r].op = "webhook"
      BY <2>1, <2>2 DEF Upsert, At, Slot, Control
    <3>2. req'[r].pc \notin {"refetch", "apply", "cancel", "pay"}
      BY <2>1, <3>1, IdleFields DEF Advances, Looks, Writes
    <3>3. ASSUME NEW s \in Requests \ {r}, req[s].pc \in {"refetch", "apply", "cancel", "pay"}
          PROVE  FALSE
      <4>1. req[s].op = "webhook"
        BY <3>3 DEF Inv, Slot
      <4> QED
        BY <3>1, <3>3, <4>1, OneAtWork DEF AtWork
    <3> QED
      BY <2>1, <3>2, <3>3 DEF RowHeld
  <2>3. CASE ~ Upsert(r)
    <3>1. \A u \in Users : row'[u].x = row[u].x
      BY <1>1, <2>3, RowsStay
    <3>2. ASSUME req'[r].pc \in {"refetch", "apply", "cancel", "pay"}
          PROVE  req'[r].u \in Users /\ row[req'[r].u].x = req'[r].x
      <4>1. CASE req[r].pc = "findSub"
        BY <2>1, <3>2, <4>1, IdleFields DEF Advances, Continues, Looks, Writes, Holders
      <4>2. CASE req[r].pc # "findSub"
        BY <2>1, <3>2, <4>2, IdleFields DEF Advances, Continues, Looks, Writes, RowHeld, Slot
      <4> QED
        BY <4>1, <4>2
    <3>3. \A s \in Requests :
            req[s].pc \in {"refetch", "apply", "cancel", "pay"} => req[s].u \in Users
      BY DEF Inv, Slot
    <3> QED
      BY <2>1, <3>1, <3>2, <3>3 DEF RowHeld
  <2> QED
    BY <2>2, <2>3
<1>2. ASSUME NEW r \in Requests, Arrive(r) PROVE RowHeld'
  <2>1. PICK q \in Request : Becomes(r, q) /\ Begins(q)
    BY <1>2, Arrivals
  <2> QED
    BY <1>2, <2>1, Arrivals, Slots DEF Begins, ReadOnly, tables, RowHeld
<1>3. ASSUME NEW r \in Requests, Abort(r) PROVE RowHeld'
  BY <1>3, Returns, IdleFields DEF Abort, ReadOnly, tables, RowHeld
<1>4. CASE AtStripe \/ Tick \/ UNCHANGED vars
  BY <1>4, OutsideRests DEF RowHeld
<1> QED
  BY <1>1, <1>2, <1>3, <1>4 DEF Next

\* This is so at any time.
LEMMA OrderInvariant ==
    ASSUME Ordered, "confirm" \notin Ops PROVE Spec /\ []OneDelivery => [](InOrder /\ RowHeld)
<1>1. Init => InOrder /\ RowHeld
  BY IdleFields DEF Init, InOrder, RowHeld
<1>2. Inv /\ LogInv /\ HandlersInv /\ InOrder /\ [Next]_vars => InOrder'
  BY OrderStep
<1>3. Inv /\ HandlersInv /\ OneDelivery /\ Unrecorded /\ InOrder /\ RowHeld /\ [Next]_vars
        => RowHeld'
  BY RowHeldStep
<1> QED
  BY <1>1, <1>2, <1>3, DeliveriesInvariant, PTL DEF Spec

-----------------------------------------------------------------------------
\* The ledger.

\* Which step is taken where something may be concluded.
LEMMA StepsAt ==
    ASSUME NEW r \in Requests, Step(r)
    PROVE  /\ req[r].pc = "check" => CheckProcessed(r)
           /\ req[r].pc = "findSub" => FindSub(r)
           /\ req[r].pc = "upsert" => Upsert(r)
           /\ req[r].pc \in {"apply", "cancel"} => ApplyUpdate(r) \/ CancelRow(r)
           /\ req[r].pc = "pay" => RecordPayment(r)
  BY DEF Step, ReadTier, ReadRow, OpenSession, CheckProcessed, FindSub, FindUser, Retrieve,
     Upsert, ApplyUpdate, CancelRow, RecordPayment, RecordEvent, ReadSession, FindDue,
     SendReminder, MarkReminded, Demote, At

\* No entry of the log changes while Stripe emits nothing: the subscriptions that
\* events are about keep their owner.
LEMMA SameEntries ==
    ASSUME Truthful, EventsOK, events' = events,
           \A x \in Subs : stripe[x].status # "none" => stripe'[x].owner = stripe[x].owner
    PROVE  Entries' = Entries
<1>1. \A e \in events : stripe'[e.x].owner = stripe[e.x].owner
  BY DEF Truthful, EventsOK, Event
<1>2. \A e \in events : Entry(e)' = Entry(e)
  BY <1>1 DEF Entry
<1>3. \A y : y \in Entries' <=> y \in Entries
  BY <1>2 DEF Entries
<1> QED
  BY <1>3

\* No handler and no job changes an entry.
LEMMA StepEntries ==
    ASSUME Inv, LogInv, NEW r \in Requests, Step(r) PROVE Entries' = Entries
<1>1. events' = events /\ StripeOK /\ EventsOK /\ Truthful
  BY Writers DEF Inv, Data, LogInv, Log
<1>2. \A x \in Subs : stripe[x].status # "none" => stripe'[x].owner = stripe[x].owner
  BY <1>1, LogRests DEF OpenSession, StripeOK
<1> QED
  BY <1>1, <1>2, SameEntries

\* The step that concludes event e handles its entry: it is the next one.
Concludes(r, e) ==
    /\ Step(r)
    /\ req[r].op = "webhook" /\ req[r].pc # "record" /\ req'[r].pc = "record"
    /\ e \in events /\ e.id \notin processed /\ Carries(req[r], e)

\* It is, although the record is still missing.
LEMMA HandlesNext ==
    ASSUME Inv, LogInv, HandlersInv, OneDelivery, InOrder,
           NEW r \in Requests, NEW e, Concludes(r, e)
    PROVE  Entry(e) \in Entries /\ Entry(e).id = e.id /\ Ledger!Handle(Entry(e))
<1>1. /\ Step(r) /\ req[r].ev = e.id /\ req[r].pc # "record" /\ req[r].op = "webhook"
      /\ e \in events /\ e.id \notin processed
  BY DEF Concludes, Carries
<1>2. Entry(e) \in Entries /\ \A f : Entry(f).id = f.id
  BY <1>1 DEF Entry, Entries
<1>3. e.id \notin HandledIds
  BY <1>1 DEF HandledIds, HandlersInv, Control, OneDelivery, At
<1>4. \A d \in Entries : d.id < e.id => d.id \in HandledIds
  BY <1>1, <1>2 DEF Entries, InOrder, Reached, HandledIds
<1>5. HandledIds' = HandledIds \cup {e.id}
  <2>1. req'[r].pc = "record" /\ req'[r].ev = e.id
    BY <1>1, Moves, IdleFields DEF Concludes, Advances, Continues
  <2> QED
    BY <1>1, <2>1, HandledStep
<1>6. Entries' = Entries
  BY <1>1, StepEntries
<1> QED
  BY <1>2, <1>3, <1>4, <1>5, <1>6 DEF Ledger!Handle

\* An event that changes nothing is acknowledged: an unpaid checkout, an invoice of a
\* subscription that nobody's row is about, or one of those the ledger does not tell
\* apart.
LEMMA Acknowledged ==
    ASSUME Inv, LogInv, HandlersInv, OneDelivery, InOrder,
           NEW r \in Requests, NEW e, Concludes(r, e),
           payments' = payments, \A u \in Users : row'[u].x = row[u].x,
           e.type = "checkout" => e.status = "unpaid",
           e.type = "invoice" => Holders(e.x) = {}
    PROVE  Ledger!Next
<1>1. Entry(e) \in Entries /\ Ledger!Handle(Entry(e))
  BY HandlesNext
<1>2. /\ Entry(e).type # "checkout" /\ Entry(e).x = e.x
      /\ Entry(e).type = "invoice" => e.type = "invoice"
  BY DEF Entry
<1>3. \A u \in Users : Holdings[u] = row[u].x
  BY DEF Holdings
<1>4. Holdings' = Holdings
  BY DEF Holdings
<1>5. Entry(e).type = "invoice" => \A u \in Users : Holdings[u] # Entry(e).x
  BY <1>2, <1>3 DEF Holders
<1>6. Ledger!Acknowledge(Entry(e))
  BY <1>1, <1>2, <1>4, <1>5 DEF Ledger!Acknowledge
<1> QED
  BY <1>1, <1>6 DEF Ledger!Next

\* A paid checkout makes its subscription the one the customer holds.
LEMMA Fulfilled ==
    ASSUME Inv, LogInv, HandlersInv, OneDelivery, InOrder,
           NEW r \in Requests, NEW e, Concludes(r, e),
           payments' = payments, e.type = "checkout", e.status # "unpaid",
           NEW u \in Users, u = stripe[e.x].owner,
           \A v \in Users : row'[v].x = IF v = u THEN e.x ELSE row[v].x
    PROVE  Ledger!Next
<1>1. Entry(e).type = "checkout" /\ Entry(e).x = e.x /\ Entry(e).by = u
  BY DEF Entry
<1>2. Holdings' = [Holdings EXCEPT ![u] = e.x]
  BY DEF Holdings
<1>3. Entry(e) \in Entries /\ Ledger!Handle(Entry(e))
  BY HandlesNext
<1>4. Ledger!Fulfil(Entry(e))
  BY <1>1, <1>2, <1>3 DEF Ledger!Fulfil
<1> QED
  BY <1>3, <1>4 DEF Ledger!Next

\* The payment that is recorded is the first one of its invoice.
LEMMA Recorded ==
    ASSUME Inv, LogInv, HandlersInv, OneDelivery, Unrecorded, InOrder, RowHeld, PaymentBooks,
           NEW r \in Requests, NEW e, Concludes(r, e), RecordPayment(r)
    PROVE  Ledger!Next
<1>1. /\ Slot(req[r], stripe, row) /\ Control(req[r], events) /\ payments \in [EventIds -> Tally]
      /\ req[r].pc = "pay" /\ row' = row
  BY DEF Inv, Data, CountsOK, HandlersInv, RecordPayment, At
<1>2. e.type = "invoice" /\ e.id = req[r].ev /\ e.x = req[r].x /\ req[r].op = "webhook"
  BY <1>1 DEF Concludes, Carries, Control
<1>3. Entry(e).type = "invoice" /\ Entry(e).x = e.x /\ Entry(e).id = e.id
  BY <1>2 DEF Entry
<1>4. req[r].u \in Users /\ Holdings[req[r].u] = e.x
  BY <1>1, <1>2 DEF Slot, RowHeld, Holdings
<1>5. payments' = [payments EXCEPT ![e.id] = 1]
  <2>1. e.id \in EventIds
    BY <1>1, <1>2 DEF Slot
  <2>2. e.id \notin HandledIds
    BY <1>1, <1>2, InHand DEF AtWork
  <2>3. payments[e.id] = 0
    BY <1>1, <2>1, <2>2 DEF PaymentBooks, Tally
  <2> QED
    BY <1>2, <2>1, <2>3 DEF RecordPayment, OneMore
<1>6. Holdings' = Holdings
  BY <1>1 DEF Holdings
<1>7. Entry(e) \in Entries /\ Ledger!Handle(Entry(e))
  BY HandlesNext
<1>8. Ledger!Record(Entry(e))
  BY <1>3, <1>4, <1>5, <1>6, <1>7 DEF Ledger!Record
<1> QED
  BY <1>7, <1>8 DEF Ledger!Next

\* Which event a step concludes.
LEMMA Conclusion ==
    ASSUME Inv, HandlersInv, Unrecorded, NEW r \in Requests, Step(r), req'[r].pc = "record"
    PROVE  /\ \E e : Concludes(r, e)
           /\ req[r].op = "webhook"
           /\ req[r].pc \in {"check", "findSub", "upsert", "apply", "cancel", "pay"}
<1>1. /\ Advances(req[r], req'[r]) /\ req'[r] # Idle
      /\ Slot(req[r], stripe, row) /\ Control(req[r], events)
  BY Moves, IdleFields DEF Inv, HandlersInv
<1>2. req[r].pc \in {"check", "findSub", "upsert", "apply", "cancel", "pay"}
  BY <1>1 DEF Advances, Looks, Writes
<1>3. req[r].op = "webhook"
  BY <1>1, <1>2 DEF Advances, Looks, Writes, Slot
<1>4. PICK e \in events : Carries(req[r], e)
  BY <1>1, <1>3 DEF Control
<1>5. req[r].ev \notin processed
  BY <1>1, <1>2, <1>3 DEF Unrecorded, AtWork, Advances, Looks, Writes
<1>6. Concludes(r, e)
  BY <1>2, <1>3, <1>4, <1>5 DEF Concludes, Carries
<1> QED
  BY <1>2, <1>3, <1>6

\* The step that concludes an event is a step of the ledger.
LEMMA ConclusionLedger ==
    ASSUME Inv, LogInv, HandlersInv, OneDelivery, Unrecorded, InOrder, RowHeld, PaymentBooks,
           NEW r \in Requests, Step(r), req'[r].pc = "record"
    PROVE  Ledger!Next
<1>1. /\ Slot(req[r], stripe, row) /\ Control(req[r], events) /\ RowsOK /\ StripeOK
      /\ Advances(req[r], req'[r]) /\ req'[r] # Idle
  BY Moves, IdleFields DEF Inv, Data, HandlersInv
<1>2. PICK e : Concludes(r, e)
  BY Conclusion
<1>3. /\ req[r].op = "webhook" /\ e.x = req[r].x /\ e.type = req[r].type
      /\ req[r].pc \in {"check", "findSub"} => e.status = req[r].status
  BY <1>2 DEF Concludes, Carries
<1>4. ASSUME ~ Upsert(r), ~ RecordPayment(r)
      PROVE  payments' = payments /\ \A u \in Users : row'[u].x = row[u].x
  BY <1>4, Writers, RowsStay
<1>5. CASE req[r].pc = "check"
  BY <1>1, <1>2, <1>3, <1>4, <1>5, Acknowledged
     DEF Advances, Looks, Writes, Upsert, RecordPayment, At
<1>6. CASE req[r].pc = "findSub" /\ req[r].type # "checkout"
  <2>1. Holders(req[r].x) = {}
    BY <1>1, <1>6 DEF Advances, Looks, Writes
  <2> QED
    BY <1>2, <1>3, <1>4, <1>6, <2>1, Acknowledged DEF Upsert, RecordPayment, At
<1>7. CASE req[r].pc = "findSub" /\ req[r].type = "checkout"
  <2>1. e.status # "unpaid" /\ e.type = "checkout" /\ Holders(e.x) # {}
    BY <1>1, <1>3, <1>7 DEF Advances, Looks, Writes, Control
  <2>2. PICK u \in Users : row[u].x = e.x
    BY <2>1 DEF Holders
  <2>3. u = stripe[e.x].owner
    BY <1>1, <1>3, <1>7, <2>2, Constants DEF RowsOK, Slot
  <2>4. payments' = payments /\ \A v \in Users : row'[v].x = IF v = u THEN e.x ELSE row[v].x
    BY <1>4, <1>7, <2>2 DEF Upsert, RecordPayment, At
  <2> QED
    BY <1>2, <2>1, <2>3, <2>4, Fulfilled
<1>8. CASE req[r].pc = "upsert"
  <2>1. Upsert(r)
    BY <1>8, StepsAt
  <2>2. Fulfill(req[r].u, req[r].x, req[r].status, req[r].ends) /\ payments' = payments
    BY <1>1, <2>1, Returns DEF Upsert
  <2>3. e.type = "checkout" /\ e.status # "unpaid"
    BY <1>1, <1>2, <1>3, <1>8 DEF Control, Carries, Concludes
  <2>4. PICK u \in Users : u = req[r].u /\ u = stripe[e.x].owner
    <3>1. req[r].x \in Subs /\ PaidIn(stripe, req[r].x) /\ req[r].u = stripe[req[r].x].owner
      BY <1>1, <1>8 DEF Slot
    <3>2. stripe[req[r].x].owner \in Users
      BY <1>1, <3>1 DEF StripeOK, PaidIn, Statuses
    <3> QED
      BY <1>3, <3>1, <3>2
  <2>5. \A v \in Users : row'[v].x = IF v = u THEN e.x ELSE row[v].x
    BY <1>1, <1>3, <2>2, <2>4 DEF Fulfill, RowsOK
  <2> QED
    BY <1>2, <2>2, <2>3, <2>4, <2>5, Fulfilled
<1>9. CASE req[r].pc \in {"apply", "cancel"}
  <2>1. e.type \in {"updated", "deleted"}
    BY <1>1, <1>3, <1>9 DEF Control
  <2> QED
    BY <1>2, <1>4, <1>9, <2>1, Acknowledged DEF Upsert, RecordPayment, At
<1>10. CASE req[r].pc = "pay"
  BY <1>2, <1>10, StepsAt, Recorded
<1> QED
  BY <1>5, <1>6, <1>7, <1>8, <1>9, <1>10, Conclusion

\* A step that concludes nothing leaves what customers hold and have paid.
LEMMA HoldingsRest ==
    ASSUME Inv, HandlersInv, "confirm" \notin Ops, NEW r \in Requests, Step(r),
           req'[r].pc # "record"
    PROVE  payments' = payments /\ \A u \in Users : row'[u].x = row[u].x
<1>1. payments' = payments
  BY Writers, GoesTo DEF RecordPayment, Steps
<1>2. CASE Upsert(r)
  <2>1. req[r].op = "webhook"
    BY <1>2 DEF Upsert, At, Inv, Slot, HandlersInv, Control
  <2>2. "record" \in Steps
    BY DEF Steps
  <2> QED
    BY <1>1, <1>2, <2>1, <2>2, GoesTo DEF Upsert
<1>3. CASE ~ Upsert(r)
  BY <1>1, <1>3, RowsStay
<1> QED
  BY <1>2, <1>3

\* Every other step of a handler or a job is none.
LEMMA OtherLedger ==
    ASSUME Inv, LogInv, HandlersInv, "confirm" \notin Ops,
           NEW r \in Requests, Step(r), req'[r].pc # "record"
    PROVE  UNCHANGED Ledger!ledger
<1>1. HandledIds' = HandledIds /\ Entries' = Entries
  BY HandledStep, StepEntries
<1>2. payments' = payments /\ \A u \in Users : row'[u].x = row[u].x
  BY HoldingsRest
<1>3. Holdings' = Holdings
  BY <1>2 DEF Holdings
<1> QED
  BY <1>1, <1>2, <1>3 DEF Ledger!ledger

\* What Stripe emits gets into the log, behind all that is there.
LEMMA StripeLedger ==
    ASSUME Inv, LogInv, AtStripe PROVE Ledger!Next
<1>1. /\ StripeOK /\ EventsOK /\ Numbered /\ Truthful /\ Quiet
  BY StripeSays DEF Inv, Data, LogInv, Log
<1>2. PICK x \in Subs : Says(x) /\ Numbered'
  BY StripeSays DEF LogInv, Log
<1>3. Inv'
  BY AtStripeStep
<1>4. \A y \in Subs : stripe'[y].owner = stripe[y].owner
  BY <1>2 DEF Says
<1>5. \A e \in events' : e.x \in Subs
  BY <1>3 DEF Inv, Data, EventsOK, Event
<1>6. events \subseteq events' /\ \A e \in events' : e \in events \/ e \in Fresh
  BY <1>2 DEF Says, Fresh
<1>7. \A e \in events : Entry(e)' = Entry(e)
  BY <1>4, <1>5, <1>6 DEF Entry
<1>8. Entries \subseteq Entries'
  BY <1>6, <1>7 DEF Entries
<1>9. \A e \in events' : stripe'[e.x].owner \in Users /\ e.id \in EventIds /\ e.type \in EventTypes
  <2>1. stripe[x].status # "none" /\ \A e \in events : stripe[e.x].status # "none"
    BY <1>1, <1>2 DEF Says, Truthful
  <2>2. \A e \in Fresh : e.x = x
    BY <1>2 DEF Says
  <2>3. \A e \in events' : stripe[e.x].owner \in Users
    BY <1>1, <1>5, <1>6, <2>1, <2>2 DEF StripeOK
  <2> QED
    BY <1>3, <1>4, <1>5, <2>3 DEF Inv, Data, EventsOK, Event
<1>10. Entries' \subseteq Ledger!Entry
  <2> SUFFICES ASSUME NEW e \in events' PROVE Entry(e)' \in Ledger!Entry
    BY DEF Entries
  <2>1. e.type \in {"checkout", "updated", "deleted", "invoice"}
    BY <1>9 DEF EventTypes
  <2> QED
    BY <1>5, <1>9, <2>1 DEF Entry, Ledger!Entry
<1>11. \A e \in Entries' \ Entries, d \in Entries : d.id < e.id
  <2>1. \A e \in Entries' \ Entries : \E f \in Fresh : e = Entry(f)'
    BY <1>6, <1>7 DEF Entries
  <2>2. \A d \in Entries : \E f \in events : d = Entry(f)
    BY DEF Entries
  <2>3. \A f : Entry(f).id = f.id /\ Entry(f)'.id = f.id
    BY DEF Entry
  <2>4. \A f \in Fresh, g \in events : g.id < f.id
    BY FreshLast DEF Fresh, Next
  <2> QED
    BY <2>1, <2>2, <2>3, <2>4
<1>12. HandledIds' = HandledIds /\ Holdings' = Holdings /\ payments' = payments
  BY <1>1 DEF Quiet, HandledIds, Holdings, At
<1>13. Ledger!Publish
  BY <1>8, <1>10, <1>11, <1>12 DEF Ledger!Publish
<1> QED
  BY <1>13 DEF Ledger!Next

\* Every step is one of the ledger, or changes nothing of it.
LEMMA LedgerStep ==
    ASSUME Inv, LogInv, HandlersInv, OneDelivery, Unrecorded, InOrder, RowHeld, PaymentBooks,
           "confirm" \notin Ops, "abort" \notin Events, [Next]_vars
    PROVE  [Ledger!Next]_(Ledger!ledger)
<1>1. CASE \E r \in Requests : Arrive(r)
  <2>1. HandledIds' = HandledIds /\ events' = events /\ stripe' = stripe /\ row' = row
        /\ payments' = payments
    BY <1>1, HandledRests, Arrivals DEF ReadOnly, tables
  <2>2. Entries' = Entries /\ Holdings' = Holdings
    BY <2>1 DEF Entries, Entry, Holdings
  <2> QED
    BY <2>1, <2>2 DEF Ledger!ledger
<1>2. CASE Tick \/ UNCHANGED vars
  <2>1. HandledIds' = HandledIds /\ events' = events /\ stripe' = stripe /\ row' = row
        /\ payments' = payments
    BY <1>2, HandledRests DEF Tick, vars
  <2>2. Entries' = Entries /\ Holdings' = Holdings
    BY <2>1 DEF Entries, Entry, Holdings
  <2> QED
    BY <2>1, <2>2 DEF Ledger!ledger
<1> QED
  BY <1>1, <1>2, StripeLedger, ConclusionLedger, OtherLedger DEF Next, Abort

\* Handlers that take the events in order implement the ledger of what customers hold
\* and have paid: each event takes effect at one step, once, after all that came
\* before it, and nothing but a paid checkout changes what a customer holds.
THEOREM BillingLedgerImplemented ==
    ASSUME Ordered, "confirm" \notin Ops, "abort" \notin Events
    PROVE  Spec /\ []OneDelivery => ImplementsBillingLedger
<1>1. Init => Ledger!Init
  <2> SUFFICES ASSUME Init PROVE Ledger!Init
    OBVIOUS
  <2>1. Entries = {}
    BY DEF Init, Entries
  <2>2. HandledIds = {}
    BY DEF Init, HandledIds, At, Idle
  <2>3. Holdings = [u \in Users |-> NoSub]
    BY DEF Init, Holdings, NoRow
  <2> QED
    BY <2>1, <2>2, <2>3 DEF Init, Ledger!Init
<1>2. Inv /\ LogInv /\ HandlersInv /\ OneDelivery /\ Unrecorded /\ InOrder /\ RowHeld
      /\ PaymentBooks /\ [Next]_vars => [Ledger!Next]_(Ledger!ledger)
  BY LedgerStep
<1> QED
  BY <1>1, <1>2, DeliveriesInvariant, OrderInvariant, PaymentsInvariant, PTL
     DEF Spec, ImplementsBillingLedger, Ledger!Spec

-----------------------------------------------------------------------------
\* What invoices are recorded.

\* The paid checkouts of customer u.
Checkouts(u) == {c \in events : Announces(c, c.x) /\ stripe[c.x].owner = u}

\* A row is about the last checkout of its user that was handled, or about a later
\* one that is in hand.
Latest(u) ==
    (\E c \in Checkouts(u) : c.id \in HandledIds) =>
        \E c \in Checkouts(u) :
            /\ row[u].x = c.x /\ Reached(c.id)
            /\ \A d \in Checkouts(u) : d.id \in HandledIds => d.id <= c.id

\* An invoice is handled with its payment.
PaidFor ==
    \A e, c \in events :
        e.type = "invoice" /\ e.id \in HandledIds /\ Follows(e, c) => payments[e.id] > 0

\* What is true of rows and payments.
PaidInv == (\A u \in Users : Latest(u)) /\ PaidFor

\* Subscriptions that events are about keep their owner.
LEMMA OwnersStay ==
    ASSUME Inv, LogInv, [Next]_vars PROVE \A e \in events : stripe'[e.x].owner = stripe[e.x].owner
<1>1. StripeOK /\ \A e \in events : e.x \in Subs /\ stripe[e.x].status # "none"
  BY DEF Inv, Data, EventsOK, Event, LogInv, Log, Truthful
<1>2. CASE AtStripe
  BY <1>1, <1>2, StripeSays DEF LogInv, Log, Says
<1>3. CASE ~ AtStripe
  <2>1. stripe' = stripe \/ \E r \in Requests : OpenSession(r)
    BY <1>3, LogRests DEF Next, Tick, vars
  <2> QED
    BY <1>1, <2>1 DEF OpenSession, StripeOK
<1> QED
  BY <1>2, <1>3

\* Handled ids are those of events.
LEMMA HandledKnown ==
    ASSUME HandlersInv, InOrder PROVE \A i \in HandledIds : \E e \in events : e.id = i
  BY DEF HandlersInv, Control, Carries, InOrder, HandledIds, At

\* What is not concluded changes nothing: neither rows nor the order of events.
LEMMA PaidRests ==
    ASSUME Inv, LogInv, HandlersInv, InOrder, PaidInv, [Next]_vars,
           HandledIds' \subseteq HandledIds, processed \subseteq processed', payments' = payments,
           \A u \in Users : row'[u].x = row[u].x
    PROVE  PaidInv'
<1>1. /\ events \subseteq events'
      /\ \A e \in events : stripe'[e.x].owner = stripe[e.x].owner
  BY FreshLast, OwnersStay
<1>2. \A e \in events' : e.id \in HandledIds => e \in events
  <2>1. \A e \in events, f \in events' : e.id = f.id => e = f
    BY FreshLast
  <2> QED
    BY <2>1, HandledKnown
<1>3. \A e \in events, c \in events' : c.id < e.id => c \in events
  <2>1. \A e \in events, f \in events' \ events : e.id < f.id
    BY FreshLast
  <2>2. \A e \in events' : e.id \in Nat
    BY FreshLast
  <2> QED
    BY <1>1, <2>1, <2>2
<1>4. \A u : Checkouts(u) \subseteq Checkouts(u)'
  BY <1>1 DEF Checkouts, Announces
<1>5. \A u : \A c \in Checkouts(u)' : c.id \in HandledIds => c \in Checkouts(u)
  BY <1>1, <1>2 DEF Checkouts, Announces
<1>6. \A u \in Users : Latest(u)'
  <2> SUFFICES ASSUME NEW u \in Users, NEW d \in Checkouts(u)', d.id \in HandledIds'
               PROVE  \E c \in Checkouts(u)' :
                        /\ row'[u].x = c.x /\ Reached(c.id)'
                        /\ \A g \in Checkouts(u)' : g.id \in HandledIds' => g.id <= c.id
    BY DEF Latest
  <2>1. d \in Checkouts(u) /\ d.id \in HandledIds
    BY <1>5
  <2>2. PICK c \in Checkouts(u) :
            /\ row[u].x = c.x /\ Reached(c.id)
            /\ \A g \in Checkouts(u) : g.id \in HandledIds => g.id <= c.id
    BY <2>1 DEF PaidInv, Latest
  <2>3. Reached(c.id)'
    BY <2>2, ReachedStays DEF Checkouts
  <2> QED
    BY <1>4, <1>5, <2>2, <2>3
<1>7. PaidFor'
  <2> SUFFICES ASSUME NEW e \in events', NEW c \in events', e.type = "invoice",
                      e.id \in HandledIds', Follows(e, c)'
               PROVE  payments'[e.id] > 0
    BY DEF PaidFor
  <2>1. e \in events /\ e.id \in HandledIds /\ c.id < e.id
    BY <1>2 DEF Follows
  <2>2. c \in events
    BY <1>3, <2>1
  <2>3. Follows(e, c)
    BY <1>1, <2>1, <2>2 DEF Follows
  <2> QED
    BY <2>1, <2>2, <2>3 DEF PaidInv, PaidFor
<1> QED
  BY <1>6, <1>7 DEF PaidInv

\* When an event is concluded, those that are handled are those before it.
LEMMA HandledBefore ==
    ASSUME Inv, LogInv, HandlersInv, OneDelivery, Unrecorded, InOrder,
           NEW r \in Requests, NEW e, Concludes(r, e)
    PROVE  /\ HandledIds' = HandledIds \cup {e.id} /\ events' = events /\ processed' = processed
           /\ stripe' = stripe
           /\ \A f \in events : /\ f.id \in Nat /\ (f.id = e.id => f = e)
                                /\ f.id \in HandledIds <=> f.id < e.id
                                /\ f.id \in processed <=> f.id < e.id
<1>1. /\ Step(r) /\ req[r].ev = e.id /\ req[r].pc # "record" /\ req[r].op = "webhook"
      /\ e \in events /\ e.id \notin processed /\ req'[r].pc = "record"
  BY DEF Concludes, Carries
<1>2. HandledIds = processed
  <2> SUFFICES ASSUME NEW s \in Requests, req[s].pc = "record" PROVE FALSE
    BY DEF HandledIds, At
  <2>1. req[s].op = "webhook" /\ req[s].ev \notin processed
    BY DEF HandlersInv, Control, Unrecorded, AtWork
  <2> QED
    BY <1>1, <2>1, OneWorks
<1>3. HandledIds' = HandledIds \cup {e.id}
  <2>1. req'[r].ev = e.id
    BY <1>1, Moves, IdleFields DEF Advances, Continues
  <2> QED
    BY <1>1, <2>1, HandledStep
<1>4. events' = events /\ processed' = processed /\ stripe' = stripe
  <2>1. ~ RecordEvent(r) /\ ~ OpenSession(r)
    BY <1>1, Returns, IdleFields DEF RecordEvent, OpenSession
  <2> QED
    BY <1>1, <2>1, Writers, LogRests
<1>5. \A f \in events : f.id \in Nat /\ (f.id = e.id => f = e)
  BY <1>1 DEF Inv, Data, EventsOK, Event, EventIds, LogInv, Log, Numbered
<1>6. \A f \in events : f.id \in processed <=> f.id < e.id
  <2>1. \A f \in events : f.id < e.id => f.id \in processed
    BY <1>1 DEF InOrder, Reached
  <2>2. \A f \in events : f.id \in processed => ~ (e.id < f.id) /\ f.id # e.id
    BY <1>1 DEF InOrder, Reached
  <2> QED
    BY <1>1, <1>5, <2>1, <2>2
<1> QED
  BY <1>2, <1>3, <1>4, <1>5, <1>6

\* An invoice finds the row of its customer about the checkout it comes after.
LEMMA InvoiceHasRow ==
    ASSUME Inv, LogInv, PaidInv, NEW e \in events, NEW c \in events,
           e.type = "invoice", Follows(e, c), e.id \notin processed,
           \A f \in events : f.id \in HandledIds <=> f.id < e.id
    PROVE  Holders(e.x) # {}
<1> DEFINE u == stripe[e.x].owner
<1>1. Truthful /\ (\A v \in Users : Latest(v)) /\ StripeOK
      /\ \A f \in events : f.id \in Nat /\ f.x \in Subs
  BY DEF LogInv, Log, PaidInv, Inv, Data, EventsOK, Event, EventIds
<1>2. u \in Users
  BY <1>1 DEF Truthful, StripeOK
<1>3. c \in Checkouts(u) /\ c.x = e.x /\ c.id \in HandledIds
  BY DEF Follows, Checkouts, Announces
<1>4. PICK d \in Checkouts(u) :
            /\ row[u].x = d.x /\ Reached(d.id)
            /\ \A g \in Checkouts(u) : g.id \in HandledIds => g.id <= d.id
  BY <1>1, <1>2, <1>3 DEF Latest
<1>5. d \in events /\ d.type = "checkout" /\ d.status = "paid" /\ stripe[d.x].owner = u
  BY <1>1 DEF Checkouts, Announces, Truthful
<1>6. d.id < e.id
  <2>1. ~ (e.id < d.id)
    BY <1>4 DEF Reached
  <2>2. d.id # e.id
    BY <1>5 DEF LogInv, Log, Numbered
  <2> QED
    BY <1>1, <1>5, <2>1, <2>2
<1>7. d.id <= c.id /\ c.id <= d.id
  BY <1>3, <1>4, <1>5, <1>6 DEF Follows
<1>8. d = c
  BY <1>1, <1>5, <1>7 DEF LogInv, Log, Numbered
<1> QED
  BY <1>2, <1>3, <1>4, <1>8 DEF Holders

\* What a conclusion does to rows and payments.
LEMMA ConclusionWrites ==
    ASSUME Inv, HandlersInv, Unrecorded, NEW r \in Requests, NEW e, Concludes(r, e)
    PROVE  /\ \A i \in EventIds : payments[i] > 0 => payments'[i] > 0
           /\ e.type = "invoice" =>
                \/ req[r].pc = "findSub" /\ Holders(e.x) = {}
                \/ payments'[e.id] > 0
           /\ ~ Announces(e, e.x) => \A u \in Users : row'[u].x = row[u].x
           /\ Announces(e, e.x) =>
                \A u \in Users : row'[u].x = IF u = stripe[e.x].owner THEN e.x ELSE row[u].x
<1>1. /\ Slot(req[r], stripe, row) /\ Control(req[r], events) /\ RowsOK /\ CountsOK
      /\ Step(r) /\ req'[r].pc = "record" /\ Advances(req[r], req'[r]) /\ req'[r] # Idle
      /\ req[r].op = "webhook" /\ e \in events
      /\ e.id = req[r].ev /\ e.x = req[r].x /\ e.type = req[r].type
      /\ req[r].pc \in {"check", "findSub"} => e.status = req[r].status
      /\ req[r].pc \in {"findUser", "retrieve", "upsert"} => e.status # "unpaid"
  BY Moves, IdleFields DEF Inv, Data, HandlersInv, Concludes, Carries
<1>2. req[r].pc \in {"check", "findSub", "upsert", "apply", "cancel", "pay"}
  BY <1>1, Conclusion
<1>3. CASE req[r].pc = "pay"
  <2>1. RecordPayment(r) /\ row' = row /\ e.type = "invoice" /\ e.id \in EventIds
    BY <1>1, <1>3, StepsAt DEF RecordPayment, Control, Slot
  <2>2. \A n \in Tally : OneMore(n) > 0
    BY DEF Tally, OneMore
  <2>3. \A i \in EventIds : payments'[i] = IF i = e.id THEN OneMore(payments[i]) ELSE payments[i]
    BY <1>1, <2>1 DEF RecordPayment, CountsOK
  <2>4. payments'[e.id] > 0 /\ \A i \in EventIds : payments[i] > 0 => payments'[i] > 0
    BY <1>1, <2>1, <2>2, <2>3 DEF CountsOK
  <2> QED
    BY <2>1, <2>4 DEF Announces
<1>4. CASE req[r].pc = "upsert"
  <2>1. Upsert(r)
    BY <1>1, <1>4, StepsAt
  <2>2. Fulfill(req[r].u, req[r].x, req[r].status, req[r].ends) /\ payments' = payments
    BY <1>1, <2>1, Returns DEF Upsert
  <2>3. e.type = "checkout" /\ e.status # "unpaid" /\ req[r].u = stripe[e.x].owner
    BY <1>1, <1>4 DEF Control, Slot
  <2>4. \A v \in Users : row'[v].x = IF v = stripe[e.x].owner THEN e.x ELSE row[v].x
    BY <1>1, <2>2, <2>3 DEF Fulfill, RowsOK
  <2> QED
    BY <2>2, <2>3, <2>4 DEF Announces
<1>5. CASE req[r].pc \notin {"pay", "upsert"}
  <2>1. payments' = payments /\ \A u \in Users : row'[u].x = row[u].x
    BY <1>1, <1>5, Writers, RowsStay DEF Upsert, RecordPayment, At
  <2>2. e.type = "invoice" => req[r].pc = "findSub" /\ Holders(e.x) = {}
    BY <1>1, <1>2, <1>5 DEF Control, Advances, Looks, Writes
  <2>3. Announces(e, e.x) => \A u \in Users : u = stripe[e.x].owner => row[u].x = e.x
    <3> SUFFICES ASSUME Announces(e, e.x), NEW u \in Users, u = stripe[e.x].owner
                 PROVE  row[u].x = e.x
      OBVIOUS
    <3>1. req[r].pc = "findSub" /\ Holders(e.x) # {}
      BY <1>1, <1>2, <1>5 DEF Announces, Control, Advances, Looks, Writes
    <3>2. PICK v \in Users : row[v].x = e.x
      BY <3>1 DEF Holders
    <3>3. e.x \in Subs
      BY <1>1 DEF Inv, Data, EventsOK, Event
    <3> QED
      BY <1>1, <3>2, <3>3, Constants DEF RowsOK
  <2> QED
    BY <2>1, <2>2, <2>3
<1> QED
  BY <1>3, <1>4, <1>5

\* A conclusion keeps the rows and the payments in order.
LEMMA PaidConclusion ==
    ASSUME Inv, LogInv, HandlersInv, OneDelivery, Unrecorded, InOrder, PaidInv,
           NEW r \in Requests, NEW e, Concludes(r, e)
    PROVE  PaidInv'
<1>1. /\ HandledIds' = HandledIds \cup {e.id} /\ events' = events /\ processed' = processed
      /\ stripe' = stripe /\ e \in events /\ e.id \notin processed
      /\ \A f \in events : /\ f.id \in Nat /\ (f.id = e.id => f = e)
                           /\ f.id \in HandledIds <=> f.id < e.id
                           /\ f.id \in processed <=> f.id < e.id
  BY HandledBefore DEF Concludes
<1>2. \A u : Checkouts(u)' = Checkouts(u)
  BY <1>1 DEF Checkouts, Announces
<1>3. \A i : Reached(i)' <=> Reached(i)
  BY <1>1 DEF Reached
<1>4. ASSUME NEW u \in Users, e \notin Checkouts(u) PROVE Latest(u)'
  <2>1. row'[u].x = row[u].x
    BY <1>1, <1>4, ConclusionWrites DEF Checkouts
  <2>2. \A d \in Checkouts(u) : d.id \in HandledIds' <=> d.id \in HandledIds
    BY <1>1, <1>4 DEF Checkouts
  <2> QED
    BY <1>2, <1>3, <2>1, <2>2 DEF PaidInv, Latest
<1>5. ASSUME NEW u \in Users, e \in Checkouts(u) PROVE Latest(u)'
  <2>1. row'[u].x = e.x
    BY <1>5, ConclusionWrites DEF Checkouts
  <2>2. \A d \in Checkouts(u) : d.id \in HandledIds' => d.id <= e.id
    BY <1>1 DEF Checkouts
  <2>3. Reached(e.id)
    BY <1>1 DEF Reached
  <2> QED
    BY <1>2, <1>3, <1>5, <2>1, <2>2, <2>3 DEF Latest
<1>6. PaidFor'
  <2> SUFFICES ASSUME NEW f \in events, NEW c \in events, f.type = "invoice",
                      f.id \in HandledIds', Follows(f, c)
               PROVE  payments'[f.id] > 0
    BY <1>1 DEF PaidFor, Follows
  <2>1. f.id \in EventIds
    BY DEF Inv, Data, EventsOK, Event
  <2>2. CASE f.id \in HandledIds
    BY <2>1, <2>2, ConclusionWrites DEF PaidInv, PaidFor
  <2>3. CASE f = e
    <3>1. Holders(e.x) # {}
      BY <1>1, <2>3, InvoiceHasRow
    <3> QED
      BY <2>3, <3>1, ConclusionWrites
  <2> QED
    BY <1>1, <2>2, <2>3
<1> QED
  BY <1>4, <1>5, <1>6 DEF PaidInv

\* Every step keeps them so, ...
LEMMA PaidStep ==
    ASSUME Inv, LogInv, HandlersInv, OneDelivery, Unrecorded, InOrder, PaidInv,
           "confirm" \notin Ops, [Next]_vars
    PROVE  PaidInv'
<1>1. ASSUME NEW r \in Requests, Step(r) PROVE PaidInv'
  <2>1. CASE req'[r].pc = "record"
    BY <1>1, <2>1, Conclusion, PaidConclusion
  <2>2. CASE req'[r].pc # "record"
    <3>1. HandledIds' = HandledIds /\ processed \subseteq processed'
      BY <1>1, <2>2, HandledStep, Writers DEF RecordEvent
    <3> QED
      BY <1>1, <2>2, <3>1, HoldingsRest, PaidRests
  <2> QED
    BY <2>1, <2>2
<1>2. ASSUME NEW r \in Requests, Abort(r) PROVE PaidInv'
  BY <1>2, HandledAborts, PaidRests DEF Abort, ReadOnly, tables
<1>3. CASE \E r \in Requests : Arrive(r)
  BY <1>3, HandledRests, Arrivals, PaidRests DEF ReadOnly, tables
<1>4. CASE AtStripe \/ Tick \/ UNCHANGED vars
  BY <1>4, HandledRests, OutsideRests, PaidRests
<1> QED
  BY <1>1, <1>2, <1>3, <1>4 DEF Next

\* ... from the start on.
LEMMA PaidInvariant ==
    ASSUME Ordered, "confirm" \notin Ops PROVE Spec /\ []OneDelivery => []PaidInv
<1>1. Init => PaidInv
  BY DEF Init, PaidInv, Latest, PaidFor, Checkouts
<1>2. Inv /\ LogInv /\ HandlersInv /\ OneDelivery /\ Unrecorded /\ InOrder /\ PaidInv /\ [Next]_vars
        => PaidInv'
  BY PaidStep
<1> QED
  BY <1>1, <1>2, DeliveriesInvariant, OrderInvariant, PTL DEF Spec

\* No payment gets lost: an invoice that comes after the checkout of its subscription
\* finds the customer's row, whatever failed in between.
THEOREM InvoicesHavePayments ==
    ASSUME Ordered, "confirm" \notin Ops PROVE Spec /\ []OneDelivery => []PaymentsComplete
<1>1. PaidInv => PaymentsComplete
  BY DEF PaidInv, PaidFor, PaymentsComplete, HandledIds
<1> QED
  BY <1>1, PaidInvariant, PTL

-----------------------------------------------------------------------------
\* The tables as Stripe has the subscriptions.

\* One of these events will still be handled.
Awaited(es) == \E e \in es : e.id \notin HandledIds

\* A row and its tier are as Stripe has the subscription, or an event will tell.
Mirrored(u) ==
    row[u].x # NoSub =>
        /\ \/ /\ row[u].status = stripe[row[u].x].status
              /\ tier[u] = "premium" <=> row[u].status = "active"
           \/ Awaited(News(row[u].x))
        /\ row[u].ends = stripe[row[u].x].ends \/ Awaited(Periods(row[u].x))

\* One of these events comes after the one that q has in hand.
Later(es, q) == \E e \in es : e.id > q.ev

\* What a handler is about to write is what Stripe has, or a later event will tell.
Pending(q) ==
    q.pc \in {"apply", "upsert"} =>
        /\ q.x \in Subs /\ PaidIn(stripe, q.x)
        /\ q.status = stripe[q.x].status \/ Later(News(q.x), q)
        /\ q.ends = stripe[q.x].ends \/ Later(Periods(q.x), q)
        /\ q.pc = "upsert" => q.status = "active" \/ Later(News(q.x), q)

\* What is true of the tables while events are still to come.
MirrorInv == (\A r \in Requests : Pending(req[r])) /\ \A u \in Users : Mirrored(u)

\* What happens to a paid subscription is announced.
LEMMA PaidTold ==
    ASSUME Inv, LogInv, [Next]_vars, NEW x \in Subs, PaidIn(stripe, x)
    PROVE  /\ PaidIn(stripe', x)
           /\ stripe'[x].status = stripe[x].status \/ \E f \in News(x)' : f \in Fresh
           /\ stripe'[x].ends = stripe[x].ends \/ \E f \in Periods(x)' : f \in Fresh
<1>1. StripeOK
  BY DEF Inv, Data
<1>2. CASE AtStripe
  <2>1. PICK y \in Subs : Says(y)
    BY <1>2, StripeSays DEF LogInv, Log
  <2>2. CASE x # y
    BY <2>1, <2>2 DEF Says, PaidIn
  <2>3. CASE x = y
    <3>1. \A f \in Fresh : f \in events' /\ f.x = x
      BY <2>1, <2>3 DEF Says, Fresh
    <3>2. stripe[x].status # "offered"
      BY DEF PaidIn, Statuses
    <3>3. CASE /\ PaidIn(stripe', x)
               /\ \E e \in Fresh : /\ e.type = "updated" /\ e.status = stripe'[x].status
                                   /\ e.ends = stripe'[x].ends
      BY <3>1, <3>3 DEF News, Periods
    <3>4. CASE /\ stripe'[x].status = "canceled" /\ stripe'[x].ends = stripe[x].ends
               /\ \E e \in Fresh : e.type = "deleted"
      BY <3>1, <3>4 DEF News, PaidIn, Statuses
    <3> QED
      BY <2>1, <2>3, <3>2, <3>3, <3>4 DEF Says
  <2> QED
    BY <2>2, <2>3
<1>3. CASE ~ AtStripe
  <2>1. stripe' = stripe \/ \E r \in Requests : OpenSession(r)
    BY <1>3, LogRests DEF Next, Tick, vars
  <2>2. stripe'[x] = stripe[x]
    BY <1>1, <2>1 DEF OpenSession, StripeOK, PaidIn, Statuses
  <2> QED
    BY <2>2 DEF PaidIn
<1> QED
  BY <1>2, <1>3

\* What a handler has read remains as true, or a later event tells what changed.
LEMMA PendingKept ==
    ASSUME Inv, LogInv, [Next]_vars, NEW q, Pending(q), \E e \in events : e.id = q.ev
    PROVE  Pending(q)'
<1> SUFFICES ASSUME q.pc \in {"apply", "upsert"}
             PROVE  /\ q.x \in Subs /\ PaidIn(stripe', q.x)
                    /\ q.status = stripe'[q.x].status \/ Later(News(q.x), q)'
                    /\ q.ends = stripe'[q.x].ends \/ Later(Periods(q.x), q)'
                    /\ q.pc = "upsert" => q.status = "active" \/ Later(News(q.x), q)'
  BY DEF Pending, PaidIn
<1>1. PICK x \in Subs : x = q.x /\ PaidIn(stripe, x)
  BY DEF Pending
<1>2. /\ Later(News(x), q) => Later(News(x), q)'
      /\ Later(Periods(x), q) => Later(Periods(x), q)'
  BY FreshLast DEF Later, News, Periods
<1>3. PICK e \in events : e.id = q.ev
  OBVIOUS
<1>4. \A f \in Fresh : f.id > q.ev
  BY <1>3, FreshLast DEF Fresh
<1>5. /\ (\E f \in News(x)' : f \in Fresh) => Later(News(x), q)'
      /\ (\E f \in Periods(x)' : f \in Fresh) => Later(Periods(x), q)'
  BY <1>4 DEF Later
<1>6. /\ PaidIn(stripe', x)
      /\ stripe'[x].status = stripe[x].status \/ Later(News(x), q)'
      /\ stripe'[x].ends = stripe[x].ends \/ Later(Periods(x), q)'
  BY <1>1, <1>5, PaidTold
<1> QED
  BY <1>1, <1>2, <1>6 DEF Pending

\* An update that goes on with its own data is the last one, or a later one will tell.
LEMMA OwnData ==
    ASSUME Inv, LogInv, NEW q, NEW e \in events, e.type = "updated", e.id = q.ev, e.x = q.x,
           e.status = q.status, e.ends = q.ends
    PROVE  /\ q.status = stripe[q.x].status \/ Later(News(q.x), q)
           /\ q.ends = stripe[q.x].ends \/ Later(Periods(q.x), q)
<1>1. \A f \in events : f.id \in Nat
  BY DEF Inv, Data, EventsOK, Event, EventIds
<1>2. Last(e, News(e.x)) \/ Later(News(e.x), q)
  BY <1>1 DEF Last, Later, News
<1>3. Last(e, Periods(e.x)) \/ Later(Periods(e.x), q)
  BY <1>1 DEF Last, Later, Periods
<1> QED
  BY <1>2, <1>3 DEF LogInv, Log, Truthful

\* A subscription that is not active when it is retrieved has an event that says so,
\* later than the checkout.
LEMMA RetrievedNews ==
    ASSUME Inv, LogInv, NEW q, NEW c \in events, Announces(c, q.x), c.id = q.ev,
           q.x \in Subs, PaidIn(stripe, q.x), stripe[q.x].status # "active"
    PROVE  Later(News(q.x), q)
<1>1. stripe[q.x].status \in {"past_due", "canceled"}
  BY DEF PaidIn, Statuses
<1>2. PICK f \in News(q.x) : c.id < f.id
  BY <1>1 DEF LogInv, Log, Truthful
<1>3. c.id \in Nat /\ f.id \in Nat
  BY <1>2 DEF Inv, Data, EventsOK, Event, EventIds, News
<1> QED
  BY <1>2, <1>3 DEF Later

\* Every step keeps what the handlers are about to write, ...
LEMMA PendingStep ==
    ASSUME Inv, LogInv, HandlersInv, MirrorInv, "confirm" \notin Ops, [Next]_vars
    PROVE  (\A s \in Requests : Pending(req[s]))'
<1>1. ASSUME NEW q, NEW s \in Requests, q = req[s] PROVE Pending(q)'
  <2>1. CASE q.pc \in {"apply", "upsert"}
    <3>1. q.op = "webhook" /\ \E e \in events : e.id = q.ev
      BY <1>1, <2>1 DEF Inv, Slot, HandlersInv, Control, Carries
    <3> QED
      BY <1>1, <3>1, PendingKept DEF MirrorInv
  <2>2. CASE q.pc \notin {"apply", "upsert"}
    BY <2>2 DEF Pending
  <2> QED
    BY <2>1, <2>2
<1>2. ASSUME NEW r \in Requests, Step(r), NEW q, q = req'[r] PROVE Pending(q)'
  <2>1. CASE q.pc \in {"apply", "upsert"}
    <3>1. PICK p : p = req[r]
      OBVIOUS
    <3>2. /\ Slot(p, stripe, row) /\ Control(p, events) /\ q # Idle /\ Continues(p, q)
          /\ Looks(p, q) \/ Writes(p, q)
      BY <1>2, <2>1, <3>1, Moves, IdleFields DEF Inv, HandlersInv, Advances
    <3>3. \/ p.pc = "findSub" /\ q.pc = "apply"
          \/ p.pc = "refetch" /\ q.pc = "apply"
          \/ p.pc = "retrieve" /\ q.pc = "upsert"
      BY <2>1, <3>2 DEF Looks, Writes, Slot, Control
    <3>4. p.op = "webhook"
      BY <3>2, <3>3 DEF Slot, Control
    <3>5. PICK e \in events : Carries(p, e)
      BY <3>2, <3>4 DEF Control
    <3>6. e.id = q.ev /\ e.type = q.type /\ e.x = q.x /\ q.x = p.x
      BY <3>2, <3>5 DEF Carries, Continues
    <3>7. CASE p.pc = "findSub" /\ q.pc = "apply"
      <4>1. q.u \in Holders(p.x) /\ p.type = "updated" /\ HasCopy(p, q) /\ p.x \in Subs
        BY <3>2, <3>7 DEF Looks, Writes, Slot
      <4>2. PaidIn(stripe, q.x)
        BY <3>6, <4>1, Constants DEF Holders, Inv, Data, RowsOK
      <4>3. e.type = "updated" /\ e.status = q.status /\ e.ends = q.ends
        BY <3>2, <3>5, <3>7, <4>1 DEF Carries, HasCopy
      <4>4. Pending(q)
        BY <3>6, <3>7, <4>1, <4>2, <4>3, OwnData DEF Pending
      <4> QED
        BY <3>6, <4>4, PendingKept
    <3>8. CASE p.pc = "refetch" /\ q.pc = "apply"
      <4>1. TakesCopy(p, q) /\ p.x \in Subs /\ PaidIn(stripe, p.x)
        BY <3>2, <3>8 DEF Looks, Writes, Slot
      <4>2. Pending(q)
        BY <3>6, <3>8, <4>1 DEF Pending, TakesCopy
      <4> QED
        BY <3>6, <4>2, PendingKept
    <3>9. CASE p.pc = "retrieve" /\ q.pc = "upsert"
      <4>1. TakesCopy(p, q) /\ p.x \in Subs /\ PaidIn(stripe, p.x)
        BY <3>2, <3>9 DEF Looks, Writes, Slot
      <4>2. Announces(e, q.x)
        BY <3>2, <3>4, <3>5, <3>6, <3>9 DEF Carries, Control, Announces
      <4>3. q.status = "active" \/ Later(News(q.x), q)
        BY <3>6, <4>1, <4>2, RetrievedNews DEF TakesCopy
      <4>4. Pending(q)
        BY <3>6, <3>9, <4>1, <4>3 DEF Pending, TakesCopy
      <4> QED
        BY <3>6, <4>4, PendingKept
    <3> QED
      BY <3>3, <3>7, <3>8, <3>9
  <2>2. CASE q.pc \notin {"apply", "upsert"}
    BY <2>2 DEF Pending
  <2> QED
    BY <2>1, <2>2
<1>3. ASSUME NEW r \in Requests, Arrive(r) \/ Abort(r), NEW q, q = req'[r] PROVE Pending(q)'
  <2>1. q.pc \notin {"apply", "upsert"}
    <3>1. CASE Arrive(r)
      BY <1>3, <3>1, Arrivals, Slots DEF Begins
    <3>2. CASE Abort(r)
      BY <1>3, <3>2, Returns, IdleFields DEF Abort
    <3> QED
      BY <1>3, <3>1, <3>2
  <2> QED
    BY <2>1 DEF Pending
<1>4. \A s \in Requests : \/ req'[s] = req[s]
                          \/ Step(s) \/ Arrive(s) \/ Abort(s)
  <2>1. CASE \E r \in Requests : Step(r)
    BY <2>1, Moves
  <2>2. CASE \E r \in Requests : Arrive(r)
    BY <2>2, Arrivals, Slots
  <2>3. CASE \E r \in Requests : Abort(r)
    BY <2>3, Returns DEF Abort
  <2>4. CASE AtStripe \/ Tick \/ UNCHANGED vars
    BY <2>4, OutsideRests
  <2> QED
    BY <2>1, <2>2, <2>3, <2>4 DEF Next
<1> QED
  <2> SUFFICES ASSUME NEW s \in Requests, NEW q, q = req'[s] PROVE Pending(q)'
    OBVIOUS
  <2> QED
    BY <1>1, <1>2, <1>3, <1>4

\* A step that concludes nothing and writes at most marks and tiers, which it sets as
\* the rows say, leaves the rows as true as they were.
LEMMA MirrorRests ==
    ASSUME Inv, LogInv, HandlersInv, InOrder, MirrorInv, [Next]_vars,
           HandledIds' \subseteq HandledIds,
           NEW u \in Users,
           row'[u].x = row[u].x, row'[u].status = row[u].status, row'[u].ends = row[u].ends,
           \/ tier'[u] = tier[u]
           \/ tier'[u] = "premium" <=> row[u].status = "active"
    PROVE  Mirrored(u)'
<1> SUFFICES ASSUME NEW x \in Subs, x = row[u].x
             PROVE  /\ \/ /\ row'[u].status = stripe'[x].status
                          /\ tier'[u] = "premium" <=> row'[u].status = "active"
                       \/ Awaited(News(x))'
                    /\ row'[u].ends = stripe'[x].ends \/ Awaited(Periods(x))'
  <2>1. row[u].x \in Subs \cup {NoSub}
    BY DEF Inv, Data, RowsOK, Row
  <2> QED
    BY <2>1 DEF Mirrored, Awaited, News, Periods
<1>1. PaidIn(stripe, x) /\ x # NoSub
  BY Constants DEF Inv, Data, RowsOK
<1>2. /\ Awaited(News(x)) => Awaited(News(x))'
      /\ Awaited(Periods(x)) => Awaited(Periods(x))'
  BY FreshLast DEF Awaited, News, Periods
<1>3. \A f \in Fresh : f.id \notin HandledIds'
  <2>1. \A e \in events, f \in Fresh : e.id # f.id
    <3>1. \A e \in events, f \in Fresh : e.id < f.id /\ f.id \in Nat /\ e.id \in Nat
      BY FreshLast DEF Fresh
    <3> QED
      BY <3>1
  <2> QED
    BY <2>1, HandledKnown
<1>4. /\ (\E f \in News(x)' : f \in Fresh) => Awaited(News(x))'
      /\ (\E f \in Periods(x)' : f \in Fresh) => Awaited(Periods(x))'
  BY <1>3 DEF Awaited
<1>5. /\ stripe'[x].status = stripe[x].status \/ Awaited(News(x))'
      /\ stripe'[x].ends = stripe[x].ends \/ Awaited(Periods(x))'
  BY <1>1, <1>4, PaidTold
<1>6. Mirrored(u)
  BY DEF MirrorInv
<1> QED
  BY <1>1, <1>2, <1>5, <1>6 DEF Mirrored

\* What was awaited of other subscriptions still is, and so is what the event that is
\* concluded does not say.
LEMMA StillAwaited ==
    ASSUME Inv, LogInv, HandlersInv, OneDelivery, Unrecorded, InOrder,
           NEW r \in Requests, NEW e, Concludes(r, e), NEW x
    PROVE  /\ e \notin News(x) /\ Awaited(News(x)) => Awaited(News(x))'
           /\ e \notin Periods(x) /\ Awaited(Periods(x)) => Awaited(Periods(x))'
           /\ Later(News(x), req[r]) => Awaited(News(x))'
           /\ Later(Periods(x), req[r]) => Awaited(Periods(x))'
<1>1. /\ HandledIds' = HandledIds \cup {e.id} /\ events' = events /\ e \in events
      /\ \A f \in events : /\ f.id \in Nat /\ (f.id = e.id => f = e)
                           /\ f.id \in HandledIds <=> f.id < e.id
  BY HandledBefore DEF Concludes
<1>2. req[r].ev = e.id
  BY DEF Concludes, Carries
<1>3. \A f \in events : f.id > req[r].ev => f.id \notin HandledIds'
  BY <1>1, <1>2
<1>4. \A f \in events : f # e /\ f.id \notin HandledIds => f.id \notin HandledIds'
  BY <1>1
<1>5. /\ News(x)' = News(x) /\ Periods(x)' = Periods(x)
      /\ News(x) \subseteq events /\ Periods(x) \subseteq events
  BY <1>1 DEF News, Periods
<1>6. ASSUME NEW es \in SUBSET events
      PROVE  /\ Later(es, req[r]) => \E f \in es : f.id \notin HandledIds'
             /\ e \notin es /\ Awaited(es) => \E f \in es : f.id \notin HandledIds'
  BY <1>3, <1>4 DEF Later, Awaited
<1> QED
  BY <1>5, <1>6 DEF Awaited

\* An event that says nothing about a row leaves it as true as it was.
LEMMA RowKept ==
    ASSUME Inv, LogInv, HandlersInv, OneDelivery, Unrecorded, InOrder, MirrorInv,
           NEW r \in Requests, NEW e, Concludes(r, e),
           NEW u \in Users, row'[u] = row[u], tier'[u] = tier[u],
           row[u].x # e.x \/ e.type \notin {"updated", "deleted"}
    PROVE  Mirrored(u)'
<1>1. PICK x : x = row[u].x
  OBVIOUS
<1>2. e \notin News(x) /\ e \notin Periods(x)
  BY <1>1 DEF News, Periods
<1>3. /\ Awaited(News(x)) => Awaited(News(x))'
      /\ Awaited(Periods(x)) => Awaited(Periods(x))'
  BY <1>2, StillAwaited
<1>4. Mirrored(u) /\ stripe' = stripe
  BY HandledBefore DEF MirrorInv
<1> QED
  BY <1>1, <1>3, <1>4 DEF Mirrored, Awaited, News, Periods

\* A row that was written says what Stripe says, or what a later event will correct.
LEMMA RowWritten ==
    ASSUME Inv, LogInv, HandlersInv, OneDelivery, Unrecorded, InOrder,
           NEW r \in Requests, NEW e, Concludes(r, e),
           NEW u, NEW x, row'[u].x = x,
           \/ /\ row'[u].status = stripe[x].status
              /\ tier'[u] = "premium" <=> row'[u].status = "active"
           \/ Later(News(x), req[r]),
           \/ row'[u].ends = stripe[x].ends
           \/ Later(Periods(x), req[r])
           \/ e \notin Periods(x) /\ Awaited(Periods(x))
    PROVE  Mirrored(u)'
<1>1. /\ Later(News(x), req[r]) => Awaited(News(x))'
      /\ Later(Periods(x), req[r]) => Awaited(Periods(x))'
      /\ e \notin Periods(x) /\ Awaited(Periods(x)) => Awaited(Periods(x))'
  BY StillAwaited
<1>2. stripe' = stripe
  BY HandledBefore
<1> QED
  BY <1>1, <1>2 DEF Mirrored, Awaited, News, Periods

\* The checkout writes the row as Stripe has the subscription.
LEMMA UpsertMirror ==
    ASSUME Inv, LogInv, HandlersInv, OneDelivery, Unrecorded, InOrder, MirrorInv,
           NEW r \in Requests, NEW e, Concludes(r, e), req[r].pc = "upsert",
           NEW v \in Users
    PROVE  Mirrored(v)'
<1>1. /\ Slot(req[r], stripe, row) /\ Control(req[r], events) /\ StripeOK /\ RowsOK
      /\ req[r].op = "webhook" /\ req'[r].pc = "record"
      /\ e.x = req[r].x /\ e.type = req[r].type
  BY DEF Inv, Data, HandlersInv, Concludes, Carries
<1>2. Upsert(r)
  BY StepsAt DEF Concludes
<1>3. Fulfill(req[r].u, req[r].x, req[r].status, req[r].ends)
  BY <1>1, <1>2, Returns, IdleFields DEF Upsert
<1>4. PICK x \in Subs, u \in Users : x = req[r].x /\ u = req[r].u
  <2>1. req[r].x \in Subs /\ PaidIn(stripe, req[r].x) /\ req[r].u = stripe[req[r].x].owner
    BY <1>1 DEF Slot
  <2> QED
    BY <1>1, <2>1 DEF StripeOK, PaidIn, Statuses
<1>5. /\ row'[u].x = x /\ row'[u].status = req[r].status /\ row'[u].ends = req[r].ends
      /\ req[r].status = "active" => tier'[u] = "premium"
      /\ \A w \in Users \ {u} : row'[w] = row[w] /\ tier'[w] = tier[w]
  BY <1>1, <1>3, <1>4 DEF Fulfill, RowsOK
<1>6. CASE v = u
  <2>1. /\ req[r].status = stripe[x].status \/ Later(News(x), req[r])
        /\ req[r].ends = stripe[x].ends \/ Later(Periods(x), req[r])
        /\ req[r].status = "active" \/ Later(News(x), req[r])
    BY <1>4 DEF MirrorInv, Pending
  <2> QED
    BY <1>5, <1>6, <2>1, RowWritten
<1>7. CASE v # u
  <2>1. e.type = "checkout"
    BY <1>1 DEF Control
  <2> QED
    BY <1>5, <1>7, <2>1, RowKept
<1> QED
  BY <1>6, <1>7

\* An update writes what it says, or what Stripe says by now; a subscription that was
\* deleted stays canceled, and a renewal that is still to come says its period.
LEMMA ApplyMirror ==
    ASSUME Inv, LogInv, HandlersInv, OneDelivery, Unrecorded, InOrder, RowHeld, MirrorInv,
           NEW r \in Requests, NEW e, Concludes(r, e), ApplyUpdate(r) \/ CancelRow(r),
           NEW v \in Users
    PROVE  Mirrored(v)'
<1>1. /\ Slot(req[r], stripe, row) /\ Control(req[r], events) /\ RowsOK /\ Truthful
      /\ e.x = req[r].x /\ e.type = req[r].type /\ e \in events
      /\ req[r].pc \in {"apply", "cancel"}
  BY DEF Inv, Data, HandlersInv, LogInv, Log, Concludes, Carries, ApplyUpdate, CancelRow, At
<1>2. /\ ApplyUpdate(r) => e.type = "updated" /\ req[r].pc = "apply"
      /\ CancelRow(r) => e.type = "deleted" /\ req[r].pc = "cancel"
  BY <1>1 DEF Control, ApplyUpdate, CancelRow, At
<1>3. PICK u \in Users, x \in Subs : u = req[r].u /\ x = req[r].x /\ row[u].x = x
  BY <1>1 DEF Slot, RowHeld
<1>4. row \in [Users -> Row] /\ tier \in [Users -> {"free", "premium"}]
  BY <1>1 DEF RowsOK
<1>5. CASE ApplyUpdate(r)
  <2>1. PICK status, ends : status = req[r].status /\ ends = req[r].ends
    OBVIOUS
  <2>2. /\ row' = [row EXCEPT ![u].status = status, ![u].ends = ends]
        /\ tier' = [tier EXCEPT ![u] = IF status = "active" THEN "premium" ELSE "free"]
    BY <1>3, <1>5, <2>1 DEF ApplyUpdate
  <2>3. \A w \in Users : row'[w] =
            IF w = u THEN [row[w] EXCEPT !.status = status, !.ends = ends] ELSE row[w]
    BY <1>4, <2>2
  <2>4. /\ row'[u].x = x /\ row'[u].status = status /\ row'[u].ends = ends
        /\ tier'[u] = "premium" <=> status = "active"
        /\ \A w \in Users \ {u} : row'[w] = row[w] /\ tier'[w] = tier[w]
    <3>1. row[u] \in Row /\ row'[u] = [row[u] EXCEPT !.status = status, !.ends = ends]
      BY <1>4, <2>3
    <3>2. row'[u].x = x /\ row'[u].status = status /\ row'[u].ends = ends
      BY <1>3, <3>1 DEF Row
    <3> QED
      BY <1>4, <2>2, <2>3, <3>2
  <2>5. CASE v = u
    <3>1. /\ status = stripe[x].status \/ Later(News(x), req[r])
          /\ ends = stripe[x].ends \/ Later(Periods(x), req[r])
      BY <1>2, <1>3, <1>5, <2>1 DEF MirrorInv, Pending
    <3> QED
      BY <2>4, <2>5, <3>1, RowWritten
  <2>6. CASE v # u
    <3>1. row[v].x # e.x
      BY <1>1, <1>3, <2>6, Constants DEF RowsOK
    <3> QED
      BY <2>4, <2>6, <3>1, RowKept
  <2> QED
    BY <2>5, <2>6
<1>6. CASE CancelRow(r)
  <2>1. row' = [row EXCEPT ![u].status = "canceled"] /\ tier' = [tier EXCEPT ![u] = "free"]
    BY <1>3, <1>6 DEF CancelRow
  <2>2. /\ row'[u].x = x /\ row'[u].status = "canceled" /\ row'[u].ends = row[u].ends
        /\ tier'[u] = "free"
        /\ \A w \in Users \ {u} : row'[w] = row[w] /\ tier'[w] = tier[w]
    BY <1>3, <1>4, <2>1 DEF Row
  <2>3. CASE v = u
    <3>1. stripe[x].status = "canceled"
      BY <1>1, <1>2, <1>3, <1>6 DEF Truthful
    <3>2. row[u].ends = stripe[x].ends \/ Awaited(Periods(x))
      BY <1>3, Constants DEF MirrorInv, Mirrored
    <3>3. e \notin Periods(x)
      BY <1>2, <1>6 DEF Periods
    <3> QED
      BY <2>2, <2>3, <3>1, <3>2, <3>3, RowWritten
  <2>4. CASE v # u
    <3>1. row[v].x # e.x
      BY <1>1, <1>3, <2>4, Constants DEF RowsOK
    <3> QED
      BY <2>2, <2>4, <3>1, RowKept
  <2> QED
    BY <2>3, <2>4
<1> QED
  BY <1>5, <1>6

\* A conclusion keeps the rows as Stripe has the subscriptions.
LEMMA MirrorConclusion ==
    ASSUME Inv, LogInv, HandlersInv, OneDelivery, Unrecorded, InOrder, RowHeld, MirrorInv,
           NEW r \in Requests, NEW e, Concludes(r, e), NEW u \in Users
    PROVE  Mirrored(u)'
<1>1. /\ Step(r) /\ req'[r].pc = "record" /\ Control(req[r], events)
      /\ Advances(req[r], req'[r]) /\ req'[r] # Idle
      /\ e.x = req[r].x /\ e.type = req[r].type
      /\ req[r].pc \in {"check", "findSub", "upsert", "apply", "cancel", "pay"}
  BY Moves, Conclusion, IdleFields DEF Concludes, Carries, HandlersInv
<1>2. CASE req[r].pc \in {"check", "findSub", "pay"}
  <2>1. row' = row /\ tier' = tier
    BY <1>1, <1>2, Writers DEF Upsert, ApplyUpdate, CancelRow, MarkReminded, Demote, At
  <2>2. e.type \notin {"updated", "deleted"} \/ Holders(e.x) = {}
    BY <1>1, <1>2 DEF Control, Advances, Looks, Writes
  <2> QED
    BY <2>1, <2>2, RowKept DEF Holders
<1> QED
  BY <1>1, <1>2, StepsAt, UpsertMirror, ApplyMirror

\* What another step of a handler or job writes.
LEMMA OtherWrites ==
    ASSUME Inv, HandlersInv, DemotionInv, "confirm" \notin Ops,
           NEW r \in Requests, Step(r), req'[r].pc # "record", NEW u \in Users
    PROVE  /\ row'[u].x = row[u].x /\ row'[u].status = row[u].status
           /\ row'[u].ends = row[u].ends
           /\ \/ tier'[u] = tier[u]
              \/ tier'[u] = "premium" <=> row[u].status = "active"
<1>1. row \in [Users -> Row] /\ tier \in [Users -> {"free", "premium"}]
  BY DEF Inv, Data, RowsOK
<1>2. ~ ApplyUpdate(r) /\ ~ CancelRow(r)
  BY GoesTo DEF ApplyUpdate, CancelRow, Steps
<1>3. Upsert(r) => row' = row /\ tier' = tier
  <2> SUFFICES ASSUME Upsert(r) PROVE row' = row /\ tier' = tier
    OBVIOUS
  <2>1. req[r].op = "webhook" /\ "record" \in Steps
    BY DEF Upsert, At, Inv, Slot, HandlersInv, Control, Steps
  <2> QED
    BY <2>1, GoesTo DEF Upsert
<1>4. CASE MarkReminded(r)
  BY <1>1, <1>4 DEF MarkReminded, Row
<1>5. CASE Demote(r)
  <2>1. PICK d \in req[r].todo : tier' = [tier EXCEPT ![d[1]] = "free"]
    BY <1>5 DEF Demote
  <2>2. row' = row /\ row[d[1]].status # "active"
    BY <1>5 DEF Demote, At, DemotionInv, Overdue
  <2> QED
    BY <1>1, <2>1, <2>2
<1> QED
  BY <1>2, <1>3, <1>4, <1>5, Writers

\* ... and with it what the tables say, ...
LEMMA MirrorStep ==
    ASSUME Inv, LogInv, HandlersInv, OneDelivery, Unrecorded, InOrder, RowHeld, DemotionInv,
           MirrorInv, "confirm" \notin Ops, [Next]_vars
    PROVE  MirrorInv'
<1>1. ASSUME NEW r \in Requests, Step(r), NEW u \in Users PROVE Mirrored(u)'
  <2>1. CASE req'[r].pc = "record"
    BY <1>1, <2>1, Conclusion, MirrorConclusion
  <2>2. CASE req'[r].pc # "record"
    BY <1>1, <2>2, HandledStep, OtherWrites, MirrorRests
  <2> QED
    BY <2>1, <2>2
<1>2. ASSUME NEW r \in Requests, Abort(r), NEW u \in Users PROVE Mirrored(u)'
  <2>1. HandledIds' \subseteq HandledIds /\ row' = row /\ tier' = tier
    BY <1>2, HandledAborts DEF Abort, ReadOnly, tables
  <2> QED
    BY <2>1, MirrorRests
<1>3. ASSUME \E r \in Requests : Arrive(r), NEW u \in Users PROVE Mirrored(u)'
  <2>1. HandledIds' \subseteq HandledIds /\ row' = row /\ tier' = tier
    BY <1>3, HandledRests, Arrivals DEF ReadOnly, tables
  <2> QED
    BY <2>1, MirrorRests
<1>4. ASSUME AtStripe \/ Tick \/ UNCHANGED vars, NEW u \in Users PROVE Mirrored(u)'
  <2>1. HandledIds' \subseteq HandledIds /\ row' = row /\ tier' = tier
    BY <1>4, HandledRests, OutsideRests
  <2> QED
    BY <2>1, MirrorRests
<1>5. \A u \in Users : Mirrored(u)'
  BY <1>1, <1>2, <1>3, <1>4 DEF Next
<1> QED
  BY <1>5, PendingStep DEF MirrorInv

\* ... from the start on.
LEMMA MirrorInvariant ==
    ASSUME Ordered, "confirm" \notin Ops
    PROVE  Spec /\ []OneDelivery /\ []DemotionAlone => []MirrorInv
<1>1. Init => MirrorInv
  BY IdleFields DEF Init, MirrorInv, Pending, Mirrored, NoRow
<1>2. Inv /\ LogInv /\ HandlersInv /\ OneDelivery /\ Unrecorded /\ InOrder /\ RowHeld /\ DemotionInv
      /\ MirrorInv /\ [Next]_vars => MirrorInv'
  BY MirrorStep
<1> QED
  BY <1>1, <1>2, DeliveriesInvariant, OrderInvariant, DemotionInvariant, PTL DEF Spec

\* When everything is settled nothing is awaited, and the tables are as Stripe has the
\* subscriptions, however often handlers were cut off on the way.
THEOREM TablesConverge ==
    ASSUME Ordered, "confirm" \notin Ops
    PROVE  Spec /\ []OneDelivery /\ []DemotionAlone => []Converges
<1>1. MirrorInv => Converges
  <2> SUFFICES ASSUME MirrorInv, Settled, NEW u \in Users, row[u].x # NoSub
               PROVE  /\ row[u].status = stripe[row[u].x].status
                      /\ row[u].ends = stripe[row[u].x].ends
                      /\ tier[u] = "premium" <=> row[u].status = "active"
    BY DEF Converges
  <2>1. \A x : ~ Awaited(News(x)) /\ ~ Awaited(Periods(x))
    BY DEF Settled, Awaited, News, Periods, HandledIds
  <2> QED
    BY <2>1 DEF MirrorInv, Mirrored
<1> QED
  BY <1>1, MirrorInvariant, PTL
=============================================================================
