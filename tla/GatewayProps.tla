---------------------------- MODULE GatewayProps ----------------------------
(***************************************************************************)
(* What the processes of a deployment and the requests they serve must     *)
(* guarantee.                                                              *)
(***************************************************************************)
EXTENDS Gateway

\* Requests that passed their limiter in window w of what it counts.
Admitted(q) == http[q].key # NoKey /\ ~ Over(q)

Counted(q) == http[q].key # NoKey

\* What the limiter is for: of the requests of one address, or of one user, that
\* passed it in one window, each was within the limit of its own route and token,
\* whatever processes they went to, and however these were replaced meanwhile.
AdmittedWithinLimit ==
    \A q \in Requests : Admitted(q) =>
        Cardinality({o \in Requests :
            /\ Admitted(o) /\ http[o].hits <= http[q].hits /\ http[o].win = http[q].win
            /\ IF http[q].route \in Tiered
               THEN http[o].route \in Tiered /\ http[o].token.user = http[q].token.user
               ELSE http[o].route \in Strict /\ http[o].ip = http[q].ip}) <= LimitOf(q)

\* "Max time to wait before force-exit": a web process that got its signal ends even
\* when a request never does; the queue process ends when its jobs do.
Terminates == (\E p \in Procs : calls[p] > 0) ~> (\A p \in Procs : calls[p] = 0)

\* The primary keeps its web processes up: after whatever ended some of them all are
\* up in the end, as long as the primary lives.
Respawned == (\E p \in Web : life[p] \in Ended) ~> (~ primary \/ \A p \in Web : life[p] = "up")

\* Every request is answered in the end, unless its process dies first or its
\* handler hangs: nothing that is thrown or rejected gets lost on the way.
AllAnswered ==
    \A q \in Requests \ Stuck : task[q].at # NoProc ~> task[q].st \in {"done", "lost"}

\* The jobs in the queues are worked off in the end, as long as the queue process,
\* which nobody replaces, stays up and gets no signal.
JobsWorkedOff ==
    (\E j \in Jobs : task[j].st = "waiting") ~>
        (\A j \in Jobs : task[j].st \notin AtWork \cup {"waiting"}) \/ ~ Takes(Queue)
=============================================================================
