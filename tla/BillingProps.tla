---------------------------- MODULE BillingProps ----------------------------
(***************************************************************************)
(* What the billing tables must guarantee, and under which workloads the   *)
(* code guarantees it.                                                     *)
(***************************************************************************)
EXTENDS Billing

Quiescent == \A r \in Requests : req[r] = Idle

\* Nothing is under way and Stripe has nothing left to deliver.
Settled == Quiescent /\ \A e \in events : e.id \in processed

\* Stripe delivers an event again when the attempt before has failed: no two handlers
\* are at work on the same event.  The code does not see to it, so what rests on this
\* is proved under it.
OneDelivery ==
    \A r, s \in Requests :
        req[r].op = "webhook" /\ req[s].op = "webhook" /\ req[r].ev = req[s].ev => r = s

\* Nothing runs beside the demotion job, which is due once, at night.  The code does
\* not see to it either.
DemotionAlone ==
    \A r, s \in Requests : req[r].op = "demotion" /\ req[s] # Idle => r = s

\* Nobody is premium for somebody else's money or for none: the row of a premium
\* user is about a subscription of theirs that was paid (confirm-checkout-session
\* checks the session's owner, the webhook takes the user from the session).
PremiumBacked ==
    \A u \in Users : tier[u] = "premium" =>
        /\ row[u].x # NoSub
        /\ stripe[row[u].x].owner = u
        /\ Paid(row[u].x)

\* A user whose row is active is premium, whatever handlers interleave, fail
\* halfway or run twice: each transaction writes row and tier together.  Only the
\* demotion job, which looks first and writes later, is left out.
ActiveRowPremium ==
    \A u \in Users : row[u].status = "active" => tier[u] = "premium"

\* When events arrive in order, one at a time, the tables end up as Stripe has the
\* subscription the row stands for, repeated deliveries, two checkouts of one user
\* and a checkout overtaken by its own cancellation included.
Converges ==
    Settled => \A u \in Users : row[u].x # NoSub =>
        /\ row[u].status = stripe[row[u].x].status
        /\ row[u].ends = stripe[row[u].x].ends
        /\ tier[u] = "premium" <=> row[u].status = "active"

\* e comes after c, the checkout that brought its subscription, and before any
\* other checkout of the same customer.
Follows(e, c) ==
    /\ c.type = "checkout" /\ c.status = "paid" /\ c.x = e.x /\ c.id < e.id
    /\ \A d \in events :
        /\ d.type = "checkout" /\ d.status = "paid"
        /\ stripe[d.x].owner = stripe[e.x].owner
        /\ d.id < e.id
        => d.id <= c.id

\* No payment gets lost: when events arrive in order, an invoice that counts as
\* processed has its payment, also while the renewal it pays for was failing or the
\* subscription is being canceled.  An invoice that comes before its checkout, or
\* after a later checkout took the row, is acknowledged without one.
PaymentsComplete ==
    \A e, c \in events :
        e.type = "invoice" /\ e.id \in processed /\ Follows(e, c) => payments[e.id] > 0

\* An event as the ledger sees it; a checkout that is not paid yet is none.
Entry(e) ==
    [id |-> e.id, x |-> e.x, by |-> stripe[e.x].owner,
     type |-> IF e.type = "checkout" /\ e.status = "unpaid" THEN "other"
              ELSE IF e.type \in {"updated", "deleted"} THEN "other" ELSE e.type]

Entries == {Entry(e) : e \in events}

\* An event has been handled as soon as only the record of it is missing.
HandledIds == processed \cup {req[r].ev : r \in {s \in Requests : At(s, "record")}}

Holdings == [u \in Users |-> row[u].x]

Ledger == INSTANCE BillingLedger WITH
    log <- Entries, handled <- HandledIds, holds <- Holdings

\* When events arrive in order, one at a time, the handlers implement the ledger: the
\* effect of an event happens once and at one moment, although a transaction, the
\* record of the event and the lookup that prevents a repetition are three steps.
ImplementsBillingLedger == Ledger!Spec

Demoted(u) == tier[u] = "premium" /\ tier'[u] = "free"

\* "Grace period: up to 7 days after currentPeriodEnd ... No demotion yet": a
\* subscription that is merely past due costs nobody the tier before that.
GraceRespected ==
    [][\A u \in Users : Demoted(u) /\ row'[u].status = "past_due" =>
        row[u].ends + 1 < week]_vars

\* No customer is reminded twice of the same renewal, although the mark is
\* written after the mail and other handlers rewrite the row in between.
MailedOnce == \A x \in Subs, w \in Weeks : mailed[x][w] < 2

\* A delivery of event i ends where the handler itself would not end it.
CutsOff(i) ==
    \E r \in Requests : req[r].op = "webhook" /\ req[r].ev = i /\ Abort(r) /\ ~ Step(r)

\* No event of Stripe's is left unprocessed for ever unless deliveries are cut off for
\* ever: also none whose transaction fails because confirm-session was faster, since the
\* next delivery sees its row.  (Events are finitely many, so that all are processed
\* again and again only if each is in the end.)
EventsProcessed ==
    <>[][\A i \in EventIds : ~ CutsOff(i)]_vars => []<>(\A e \in events : e.id \in processed)
=============================================================================
