------------------------------ MODULE Gateway ------------------------------
(***************************************************************************)
(* What an HTTP request goes through in a web process of the cluster: the  *)
(* authentication guard, a rate limiter, the permission check, its         *)
(* handler, and the answer, which the global error handler gives when      *)
(* anything throws.  The handlers themselves are the other modules; here   *)
(* they send queries and commands, add mails, and end.                     *)
(*                                                                         *)
(* The limiters count in Redis, for all processes together: INCR and the   *)
(* expiry of the counter are one script (rate-limit-redis), which answers  *)
(* with the count.                                                         *)
(***************************************************************************)
EXTENDS Cluster

CONSTANTS
    IPs, Users,     \* addresses of clients; users
    Routes,         \* the routes of this instance
    Authorities,    \* what access tokens say: user, tier, permission to upload
    NoToken,        \* no token, an expired or forged one, or one of another type
    NoKey,
    AuthMax, TierMax, \* AUTH_MAX_PER_WINDOW, requestsPerMinute of each tier
    MaxWindow       \* bound: windows of one counter

Tiers == {"free", "premium"}
AllRoutes == {"webhook", "login", "register", "forgotPassword", "refresh", "sessions",
              "resendOtp", "profile", "checkout", "avatar", "unknown"}

ASSUME GatewayAssumption ==
    /\ IPs \cap Users = {} /\ NoKey \notin IPs \cup Users
    /\ Routes \subseteq AllRoutes
    /\ IsFiniteSet(Requests)
    /\ Authorities \subseteq [user : Users, tier : Tiers, upload : BOOLEAN]
    /\ NoToken \notin Authorities
    /\ AuthMax \in Nat /\ TierMax \in [Tiers -> Nat] /\ MaxWindow \in Nat

Keys == IPs \cup Users

VARIABLES
    count,  \* count[k]: the counter "rl:<k>" in Redis, 0 when absent
    window, \* window[k]: how often it has expired
    http    \* http[q]: how far request q has come

vars2 == <<vars, count, window, http>>

Answers == {"none", "ok", "unauthorized", "forbidden", "notFound", "tooMany", "error"}

\* key, hits, win: what the limiter counted; stage: what the request does next.
Request == [stage : {"new", "limit", "limited", "handle", "end"},
            route : Routes \cup {"none"}, ip : IPs \cup {NoKey},
            token : Authorities \cup {NoToken},
            key : Keys \cup {NoKey}, hits : 0..Cardinality(Requests), win : 0..MaxWindow,
            answer : Answers]

NewRequest == [stage |-> "new", route |-> "none", ip |-> NoKey, token |-> NoToken,
               key |-> NoKey, hits |-> 0, win |-> 0, answer |-> "none"]

GatewayTypeOK ==
    /\ TypeOK
    /\ count \in [Keys -> 0..Cardinality(Requests)]
    /\ window \in [Keys -> 0..MaxWindow]
    /\ http \in [Requests -> Request]

GatewayInit ==
    /\ Init
    /\ count = [k \in Keys |-> 0]
    /\ window = [k \in Keys |-> 0]
    /\ http = [q \in Requests |-> NewRequest]

-----------------------------------------------------------------------------
\* The routes: which middlewares come before the handler.

Strict == {"login", "register", "forgotPassword"}
Tiered == {"profile", "checkout", "avatar"}
Guarded == Tiered \cup {"sessions", "resendOtp"}
Uploads == {"avatar"}
\* Routes whose handlers add mails to a queue.
Mailing == {"register", "forgotPassword", "resendOtp"}

Limited(route) == route \in Strict \cup Tiered

\* The strict limiter counts per address, the tier limiter per user.
KeyOf(q) == IF http[q].route \in Tiered THEN http[q].token.user ELSE http[q].ip

LimitOf(q) == IF http[q].route \in Tiered THEN TierMax[http[q].token.tier] ELSE AuthMax

-----------------------------------------------------------------------------
\* The pipeline.

Stage(q, stage) == http' = [http EXCEPT ![q].stage = stage]

Counters == <<count, window>>

\* The response is sent and the request leaves its process.
Answer(q, answer) ==
    /\ Leave(q, "done")
    /\ http' = [http EXCEPT ![q].stage = "end", ![q].answer = answer]
    /\ UNCHANGED <<procs, conns>>

\* A request is accepted by some process; the guard needs no await.
Arrive(q, p) ==
    \E route \in Routes, ip \in IPs :
    \E token \in IF route \in Guarded THEN Authorities \cup {NoToken} ELSE {NoToken} :
        LET entered == [NewRequest EXCEPT !.route = route, !.ip = ip, !.token = token]
            refusal == IF route \in Guarded /\ token = NoToken THEN "unauthorized"
                       ELSE IF route = "unknown" THEN "notFound"
                       ELSE "none"
        IN  /\ UNCHANGED <<procs, conns, Counters>>
            /\ p \in Web /\ Takes(p) /\ ComesUp(q)
            /\ IF refusal = "none"
               THEN /\ task' = [task EXCEPT ![q] = [st |-> "busy", at |-> p]]
                    /\ http' = [http EXCEPT ![q] = [entered EXCEPT
                            !.stage = IF Limited(route) THEN "limit" ELSE "handle"]]
               ELSE /\ Leave(q, "done")
                    /\ http' = [http EXCEPT ![q] =
                            [entered EXCEPT !.stage = "end", !.answer = refusal]]

\* Faulty: two limiters of a chain count in one counter, for they share the prefix.
FaultyHit(k) == count[k] + 2

Hit(k) == count[k] + 1

\* RedisStore.increment, on the connection the process had when it started: once
\* that one is closed the limiter has none.
Count(q) ==
    LET k == KeyOf(q)
        refused == redis[task[q].at] \in {"closing", "closed"}
    IN  /\ http[q].stage = "limit"
        /\ Send(q, "command", refused)
        /\ IF refused THEN UNCHANGED <<count, http>>
           ELSE /\ count' = [count EXCEPT ![k] = Hit(k)]
                /\ http' = [http EXCEPT ![q] = [http[q] EXCEPT
                        !.stage = "limited", !.key = k, !.hits = Hit(k), !.win = window[k]]]
        /\ UNCHANGED window

\* Faulty: off by one.
FaultyOver(q) == http[q].hits > LimitOf(q) + 1

Over(q) == http[q].hits > LimitOf(q)

\* After the limiter: 429, or requirePermission, or the handler.
Admit(q) ==
    /\ http[q].stage = "limited" /\ task[q].st = "busy"
    /\ IF Over(q) THEN Answer(q, "tooMany")
       ELSE IF http[q].route \in Uploads /\ ~ http[q].token.upload THEN Answer(q, "forbidden")
       ELSE Stage(q, "handle") /\ UNCHANGED <<procs, conns, task>>
    /\ UNCHANGED Counters

Handling(q) == http[q].stage = "handle"

Ask(q) ==
    /\ Handling(q)
    /\ Query(q) \/ Command(q)
    /\ UNCHANGED <<Counters, http>>

\* addEmailJobIfEnabled: a queue that is being closed takes no job.
AddMail(q, j) ==
    /\ Handling(q) /\ http[q].route \in Mailing
    /\ task[q].st = "busy" /\ j \notin Daily /\ ComesUp(j)
    /\ redis[task[q].at] # "queues"
    /\ task' = [task EXCEPT ![q].st = "command", ![j] = Away("waiting")]
    /\ UNCHANGED <<procs, conns, Counters, http>>

Resume(q) == Answered(q) /\ UNCHANGED <<Counters, http>>

\* The controller answers, or an AppError of its service is answered: "ok".
Return(q) ==
    /\ Handling(q) /\ task[q].st = "busy"
    /\ Answer(q, "ok")
    /\ UNCHANGED Counters

\* Registration goes on without its welcome mail.
Swallow(q) ==
    /\ Handling(q) /\ http[q].route = "register"
    /\ task[q].st = "rejected"
    /\ Become(q, "busy")
    /\ UNCHANGED <<procs, conns, Counters, http>>

\* Faulty: a controller without asyncHandler, its rejection is nobody's.
FaultyThrow(q) == FALSE /\ UNCHANGED vars2

\* A rejected await in a handler or a limiter: asyncHandler or the limiter passes
\* it on, and globalErrorHandler answers 500.
Throw(q) ==
    /\ task[q].st = "rejected"
    /\ Answer(q, "error")
    /\ UNCHANGED Counters

\* A minute after its first hit the counter expires.
Rollover(k) ==
    /\ count[k] > 0 /\ window[k] < MaxWindow
    /\ count' = [count EXCEPT ![k] = 0]
    /\ window' = [window EXCEPT ![k] = @ + 1]
    /\ UNCHANGED <<vars, http>>

-----------------------------------------------------------------------------

Serve(q) ==
    \/ Count(q) \/ Admit(q) \/ Ask(q) \/ Resume(q) \/ Return(q)
    \/ Swallow(q) \/ Throw(q)
    \/ \E j \in Jobs : AddMail(q, j)

GatewayNext ==
    \/ \E q \in Requests, p \in Web : Arrive(q, p)
    \/ \E q \in Requests : Serve(q)
    \/ \E k \in Keys : Rollover(k)
    \/ (SignalPrimary \/ (\E p \in Procs : Process(p)) \/ (\E j \in Jobs : Work(j)))
       /\ UNCHANGED <<Counters, http>>

Spec == GatewayInit /\ [][GatewayNext]_vars2

(***************************************************************************)
(* Fairness: that of the cluster; pending calls are answered, the pipeline *)
(* goes on, and a handler that is not stuck comes to its end whatever it   *)
(* does on the way.                                                        *)
(***************************************************************************)
RequestFairness ==
    \A q \in Requests \ Stuck :
        /\ WF_vars2(Count(q) \/ Admit(q) \/ Resume(q) \/ Throw(q))
        /\ SF_vars2(Return(q))

FairSpec == Spec /\ ProcessFairness /\ JobFairness /\ RequestFairness
=============================================================================
