--------------------------- MODULE SessionLedger ---------------------------
(***************************************************************************)
(* What the sessions table promises, without caches or handlers: a session *)
(* is opened once, for one user, under an id never used before; it is      *)
(* closed once, either with other sessions of the same user or, when its   *)
(* lifetime is over, by the clean-up; a closed session stays closed.       *)
(***************************************************************************)
CONSTANTS Users, SessionIds, NoUser

VARIABLES
    owner,      \* owner[s]: the user the session was opened for, or NoUser
    open,       \* the sessions that are open
    overdue     \* the sessions whose lifetime is over

ledger == <<owner, open, overdue>>

Init ==
    /\ owner = [s \in SessionIds |-> NoUser]
    /\ open = {}
    /\ overdue = {}

Open(u) ==
    /\ \E s \in SessionIds :
        /\ owner[s] = NoUser
        /\ owner' = [owner EXCEPT ![s] = u]
        /\ open' = open \cup {s}
    /\ UNCHANGED overdue

\* Any of one user's sessions close together.
Close(u) ==
    /\ \E S \in SUBSET {s \in open : owner[s] = u} : open' = open \ S
    /\ UNCHANGED <<owner, overdue>>

Lapse(s) ==
    /\ owner[s] # NoUser
    /\ overdue' = overdue \cup {s}
    /\ UNCHANGED <<owner, open>>

\* The clean-up closes every overdue session, and no other.
Purge ==
    /\ open' = open \ overdue
    /\ UNCHANGED <<owner, overdue>>

Next ==
    \/ \E u \in Users : Open(u) \/ Close(u)
    \/ \E s \in SessionIds : Lapse(s)
    \/ Purge

Spec == Init /\ [][Next]_ledger
=============================================================================
