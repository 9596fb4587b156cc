------------------------------ MODULE Cluster ------------------------------
(***************************************************************************)
(* The processes of a deployment: the primary, the web processes it forks  *)
(* and replaces, and the queue process it forks once.  Each comes up,      *)
(* works on tasks (HTTP requests or jobs) that talk to the database and to *)
(* Redis, and ends: after a signal by its shutdown, or at once.            *)
(*                                                                         *)
(* Of Node and the libraries this much is used: a signal without a handler *)
(* ends a process; so does, for a web process, the loss of its primary; a  *)
(* closing pool or connection finishes what was sent and refuses what      *)
(* comes later; a closing server or worker takes nothing new and is closed *)
(* when nothing is at work.                                                *)
(***************************************************************************)
EXTENDS Naturals, FiniteSets

CONSTANTS
    Web,        \* the web processes: workerCount slots of the primary
    Queue,      \* the queue process
    NoProc,
    Requests,   \* HTTP requests, each sent at most once
    Jobs,       \* jobs, each due at most once
    Daily,      \* the jobs the scheduler repeats; handlers add the others
    Stuck,      \* requests whose handler may never end
    Bounds      \* of a behaviour: tasks that come up, signals sent, crashes and
                \* failed cleanup tasks

Procs == Web \cup {Queue}
Tasks == Requests \cup Jobs

ASSUME ClusterAssumption ==
    /\ Queue \notin Web /\ NoProc \notin Procs
    /\ Requests \cap Jobs = {} /\ Stuck \subseteq Requests /\ Daily \subseteq Jobs
    /\ Bounds \subseteq [tasks : SUBSET Tasks, signals : Nat, faults : Nat]

VARIABLES
    primary,    \* whether the primary process lives
    life,       \* life[p]: "starting", "up", or how the last process in slot p ended
    pool,       \* pool[p]: its database pool
    redis,      \* redis[p]: its queues and its Redis connection
    broken,     \* broken[p]: the cleanup tasks of its shutdown that have failed
    calls,      \* calls[p]: how often its shutdown function was called
    task,       \* task[t]: where task t is and what it does there
    signals,    \* signals sent so far
    faults,     \* crashes and failed cleanup tasks so far
    bound       \* the bounds of this behaviour

conns == <<pool, redis, broken>>
procs == <<primary, life, calls, signals, faults, bound>>
vars == <<procs, conns, task>>

Ended == {"success", "failure"}

\* What registerOnShutdown was given; a web process has no workers.
Cleanups == {"pool", "redis", "workers"}

AtWork == {"busy", "query", "command", "rejected"}

\* A job waits in its queue; a task is at work in a process until it is done, or
\* failed, or lost with its process.
Task == [st: AtWork \cup {"new", "waiting", "done", "failed", "lost"}, at: Procs \cup {NoProc}]

Away(st) == [st |-> st, at |-> NoProc]

TypeOK ==
    /\ primary \in BOOLEAN
    /\ life \in [Procs -> {"starting", "up"} \cup Ended]
    /\ pool \in [Procs -> {"open", "closing", "closed"}]
    /\ redis \in [Procs -> {"open", "queues", "closing", "closed"}]
    /\ broken \in [Procs -> SUBSET Cleanups]
    /\ calls \in [Procs -> Nat]
    /\ task \in [Tasks -> Task]
    /\ bound \in Bounds
    /\ signals \in 0..bound.signals
    /\ faults \in 0..bound.faults

\* The primary has forked its children (the queue process because of RUN_WORKERS).
Init ==
    /\ primary = TRUE
    /\ life = [p \in Procs |-> "starting"]
    /\ pool = [p \in Procs |-> "open"]
    /\ redis = [p \in Procs |-> "open"]
    /\ broken = [p \in Procs |-> {}]
    /\ calls = [p \in Procs |-> 0]
    /\ task = [t \in Tasks |-> Away("new")]
    /\ signals = 0
    /\ faults = 0
    /\ bound \in Bounds

-----------------------------------------------------------------------------
\* Tasks.

ComesUp(t) == t \in bound.tasks /\ task[t] = Away("new")

Become(t, st) == task' = [task EXCEPT ![t].st = st]
Leave(t, st) == task' = [task EXCEPT ![t] = Away(st)]

\* The first call of the shutdown closes server or workers at once.
Takes(p) == life[p] = "up" /\ calls[p] = 0

\* Its time has come: Redis keeps the repeatable jobs, whoever scheduled them.
Due(j) ==
    /\ j \in Daily /\ ComesUp(j)
    /\ Leave(j, "waiting")
    /\ UNCHANGED <<procs, conns>>

\* Faulty: the queue has no worker definition.
FaultyTake(j) == FALSE /\ UNCHANGED vars

\* A worker takes a job of its queue.
Take(j) ==
    /\ Takes(Queue)
    /\ task[j] = Away("waiting")
    /\ task' = [task EXCEPT ![j] = [st |-> "busy", at |-> Queue]]
    /\ UNCHANGED <<procs, conns>>

\* A query or a command is sent, unless its connection refuses.
Send(t, st, refused) ==
    /\ task[t].st = "busy"
    /\ Become(t, IF refused THEN "rejected" ELSE st)
    /\ UNCHANGED <<procs, conns>>

Query(t) == Send(t, "query", pool[task[t].at] # "open")

\* getQueueConnection opens another connection once the old one is gone.
Command(t) == Send(t, "command", redis[task[t].at] = "closing")

\* Pending calls are answered, or rejected.
Answered(t) ==
    /\ task[t].st \in {"query", "command"}
    /\ \E st \in {"busy", "rejected"} : Become(t, st)
    /\ UNCHANGED <<procs, conns>>

\* The task has come to its end.
Done(t) ==
    /\ task[t].st = "busy"
    /\ Leave(t, "done")
    /\ UNCHANGED <<procs, conns>>

\* A job that throws has failed: queues set no attempts.
JobFails(j) ==
    /\ j \in Jobs /\ task[j].st \in {"busy", "rejected"}
    /\ Leave(j, "failed")
    /\ UNCHANGED <<procs, conns>>

-----------------------------------------------------------------------------
\* Life and death of a process.

\* Faulty: a process that ends well is not replaced.
FaultyRespawn(p) ==
    /\ primary /\ p \in Web /\ life[p] = "failure"
    /\ life' = [life EXCEPT ![p] = "starting"]
    /\ UNCHANGED <<primary, calls, signals, faults, bound, conns, task>>

\* cluster.on("exit"): whatever the code.
Respawn(p) ==
    /\ primary /\ p \in Web /\ life[p] \in Ended
    /\ life' = [life EXCEPT ![p] = "starting"]
    /\ UNCHANGED <<primary, calls, signals, faults, bound, conns, task>>

\* The database answers, the server listens or the workers run, and the signal
\* handlers are installed.
Boot(p) ==
    /\ life[p] = "starting"
    /\ life' = [life EXCEPT ![p] = "up"]
    /\ UNCHANGED <<primary, calls, signals, faults, bound, conns, task>>

\* The process in slot p ends, whatever is at work in it.
End(p, how) ==
    /\ life' = [life EXCEPT ![p] = how]
    /\ calls' = [calls EXCEPT ![p] = 0]
    /\ pool' = [pool EXCEPT ![p] = "open"]
    /\ redis' = [redis EXCEPT ![p] = "open"]
    /\ broken' = [broken EXCEPT ![p] = {}]
    /\ task' = [t \in Tasks |-> IF task[t].at = p THEN Away("lost") ELSE task[t]]

\* An exception nobody catches, or a start that fails: process.exit(1).
Crash(p) ==
    /\ faults < bound.faults /\ life[p] \notin Ended
    /\ faults' = faults + 1
    /\ End(p, "failure")
    /\ UNCHANGED <<primary, signals, bound>>

-----------------------------------------------------------------------------
\* Signals and the shutdown.

Signalled == signals < bound.signals /\ signals' = signals + 1

\* The primary has no handler.
SignalPrimary ==
    /\ primary /\ Signalled
    /\ primary' = FALSE
    /\ UNCHANGED <<life, calls, faults, bound, conns, task>>

\* node:cluster ends a web process that has lost its primary.
Orphaned(p) ==
    /\ ~ primary /\ p \in Web /\ life[p] \notin Ended
    /\ End(p, "success")
    /\ UNCHANGED <<primary, signals, faults, bound>>

\* Before the handlers are installed, a signal ends the process.
SignalEarly(p) ==
    /\ life[p] = "starting" /\ Signalled
    /\ End(p, "failure")
    /\ UNCHANGED <<primary, faults, bound>>

\* gracefulShutdown or runShutdownTasks, up to its first await.
Signal(p) ==
    /\ life[p] = "up" /\ Signalled
    /\ calls' = [calls EXCEPT ![p] = @ + 1]
    /\ pool' = [pool EXCEPT ![p] = IF @ = "open" THEN "closing" ELSE @]
    /\ redis' = [redis EXCEPT ![p] = IF @ = "open" THEN "queues" ELSE @]
    /\ UNCHANGED <<primary, life, faults, bound, broken, task>>

Quiet(p, st) == \A t \in Tasks : task[t].at = p => task[t].st # st

PoolDestroyed(p) ==
    /\ pool[p] = "closing" /\ "pool" \notin broken[p] /\ Quiet(p, "query")
    /\ pool' = [pool EXCEPT ![p] = "closed"]
    /\ UNCHANGED <<procs, redis, broken, task>>

\* closeAllQueues, then quit.
QueuesClosed(p) ==
    /\ redis[p] = "queues" /\ "redis" \notin broken[p]
    /\ redis' = [redis EXCEPT ![p] = "closing"]
    /\ UNCHANGED <<procs, pool, broken, task>>

RedisClosed(p) ==
    /\ redis[p] = "closing" /\ "redis" \notin broken[p] /\ Quiet(p, "command")
    /\ redis' = [redis EXCEPT ![p] = "closed"]
    /\ UNCHANGED <<procs, pool, broken, task>>

\* server.close and worker.close wait for the work, however often they are called.
Drained(p) == \A t \in Tasks : task[t].at # p

\* The cleanup task has done what it is for.
Cleaned(p, c) ==
    CASE c = "pool" -> pool[p] = "closed"
      [] c = "redis" -> redis[p] = "closed"
      [] c = "workers" -> p \in Web \/ Drained(p)

\* A cleanup task rejects: what it did not get to stays undone.
CleanupFails(p, c) ==
    /\ calls[p] > 0 /\ faults < bound.faults
    /\ c \notin broken[p] /\ ~ Cleaned(p, c)
    /\ faults' = faults + 1
    /\ broken' = [broken EXCEPT ![p] = @ \cup {c}]
    /\ UNCHANGED <<primary, life, calls, signals, bound, pool, redis, task>>

\* Every task of a shutdown is done or has failed, which only is logged.
Complete(p) ==
    /\ calls[p] > 0
    /\ \A c \in Cleanups : c \in broken[p] \/ Cleaned(p, c)
    /\ p \in Web => Drained(p)
    /\ End(p, "success")
    /\ UNCHANGED <<primary, signals, faults, bound>>

\* Faulty: there is no timer.
FaultyTimeout(p) == FALSE /\ UNCHANGED vars

\* Ten seconds are over; the queue process has no timer.
Timeout(p) ==
    /\ p \in Web /\ calls[p] > 0
    /\ End(p, "failure")
    /\ UNCHANGED <<primary, signals, faults, bound>>

Closing(p) == PoolDestroyed(p) \/ QueuesClosed(p) \/ RedisClosed(p)

\* What the processes do by themselves, whatever their tasks are about.
Process(p) ==
    \/ Respawn(p) \/ Boot(p) \/ Crash(p) \/ Orphaned(p)
    \/ SignalEarly(p) \/ Signal(p) \/ Closing(p) \/ Complete(p) \/ Timeout(p)
    \/ \E c \in Cleanups : CleanupFails(p, c)

\* The jobs, of whatever queue.
Work(j) == Due(j) \/ Take(j) \/ Query(j) \/ Answered(j) \/ Done(j) \/ JobFails(j)

(***************************************************************************)
(* Fairness: the primary and its children go on, connections answer,       *)
(* closing ones get closed, timers ring, workers take jobs and jobs, which *)
(* only call the database and the mailer, come to an end.                  *)
(***************************************************************************)
Progress(p) ==
    Respawn(p) \/ Boot(p) \/ Orphaned(p) \/ Closing(p) \/ Complete(p) \/ Timeout(p)

ProcessFairness == WF_vars(\E p \in Procs : Progress(p))

JobFairness ==
    /\ WF_vars(\E j \in Jobs : Take(j) \/ Answered(j))
    /\ \A j \in Jobs : SF_vars(Done(j) \/ JobFails(j))
=============================================================================
