--------------------------- MODULE BillingLedger ---------------------------
(***************************************************************************)
(* What the webhook promises of money, without handlers: each event Stripe *)
(* emits is handled once and at once, after all that came before it.  The  *)
(* checkout of a subscription makes it the one its customer holds, and an  *)
(* invoice is recorded if somebody holds its subscription by then; nothing *)
(* else changes what a customer holds or which payments are on record.     *)
(***************************************************************************)
EXTENDS Naturals

CONSTANTS Users, Subs, EventIds, NoSub

VARIABLES
    log,        \* the events that Stripe emitted
    handled,    \* the ids of those that have been handled
    holds,      \* holds[u]: the subscription of u, or NoSub
    payments    \* payments[i]: how often the invoice of event i is on record

ledger == <<log, handled, holds, payments>>

\* Events are about a subscription x, which user by has opened.
Entry == [id: EventIds, type: {"checkout", "invoice", "other"}, x: Subs, by: Users]

Init ==
    /\ log = {}
    /\ handled = {}
    /\ holds = [u \in Users |-> NoSub]
    /\ payments = [i \in EventIds |-> 0]

\* Stripe adds to the log.
Publish ==
    /\ log \subseteq log' /\ log' \subseteq Entry
    /\ \A e \in log' \ log, d \in log : d.id < e.id
    /\ UNCHANGED <<handled, holds, payments>>

\* Event e is the next one to be handled.
Handle(e) ==
    /\ e.id \notin handled
    /\ \A d \in log : d.id < e.id => d.id \in handled
    /\ handled' = handled \cup {e.id}
    /\ UNCHANGED log

Fulfil(e) ==
    /\ e.type = "checkout"
    /\ Handle(e)
    /\ holds' = [holds EXCEPT ![e.by] = e.x]
    /\ UNCHANGED payments

Record(e) ==
    /\ e.type = "invoice"
    /\ \E u \in Users : holds[u] = e.x
    /\ Handle(e)
    /\ payments' = [payments EXCEPT ![e.id] = 1]
    /\ UNCHANGED holds

Acknowledge(e) ==
    /\ e.type = "invoice" => \A u \in Users : holds[u] # e.x
    /\ e.type # "checkout"
    /\ Handle(e)
    /\ UNCHANGED <<holds, payments>>

Next ==
    \/ Publish
    \/ \E e \in log : Fulfil(e) \/ Record(e) \/ Acknowledge(e)

Spec == Init /\ [][Next]_ledger
=============================================================================
