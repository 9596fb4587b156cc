--------------------------- MODULE GatewayProofs ---------------------------
(***************************************************************************)
(* The limiters hold across processes, for any number of processes,        *)
(* requests, jobs, signals and crashes.                                    *)
(***************************************************************************)
EXTENDS GatewayProps, FiniteSetTheorems, TLAPS

\* A request record whose count is not bounded yet.
Loose == [stage : {"new", "limit", "limited", "handle", "end"},
          route : Routes \cup {"none"}, ip : IPs \cup {NoKey},
          token : Authorities \cup {NoToken},
          key : Keys \cup {NoKey}, hits : Nat, win : 0..MaxWindow,
          answer : Answers]

KeyIn(r) == IF r.route \in Tiered THEN r.token.user ELSE r.ip

\* What a request may rely on that is about to be counted, or was counted, given
\* the counters c and their windows w.
Mark(r, c, w) ==
    /\ r.key # NoKey \/ r.stage = "limit" =>
        /\ r.route \in Strict \cup Tiered
        /\ IF r.route \in Tiered THEN r.token \in Authorities ELSE r.ip \in IPs
    /\ r.stage = "limit" => r.key = NoKey
    /\ r.key # NoKey =>
        /\ r.key \in Keys /\ r.key = KeyIn(r)
        /\ r.hits > 0
        /\ r.win <= w[r.key]
        /\ r.win = w[r.key] => r.hits <= c[r.key]

CountedSet == {q \in Requests : Counted(q)}

\* No two requests are the same hit of one window.
Distinct ==
    \A q, o \in Requests :
        /\ http[q].key # NoKey /\ http[o].key = http[q].key
        /\ http[o].win = http[q].win /\ http[o].hits = http[q].hits
        => o = q

Typed ==
    /\ count \in [Keys -> Nat]
    /\ window \in [Keys -> 0..MaxWindow]
    /\ http \in [Requests -> Loose]

Marked == \A q \in Requests : Mark(http[q], count, window)

\* Every request is counted once.
Bounded ==
    /\ \A k \in Keys : count[k] <= Cardinality(CountedSet)
    /\ \A q \in Requests : http[q].hits <= Cardinality(CountedSet)

Unused == \A q \in Requests : task[q] = Away("new") => http[q].key = NoKey

CountInv == Typed /\ Marked /\ Distinct /\ Bounded /\ Unused

Inv == TypeOK /\ CountInv

\* A step by which no task becomes new.
Older == \A t \in Tasks : task'[t] = Away("new") => task[t] = Away("new")

\* A request keeps what it was counted by, or is new and was not counted.
SameMark(old, new) ==
    /\ new.key = old.key
    /\ \/ /\ new.hits = old.hits /\ new.win = old.win
          /\ new.route = old.route /\ new.token = old.token /\ new.ip = old.ip
          /\ new.stage = "limit" => old.stage = "limit"
       \/ /\ old.key = NoKey /\ new.hits = 0
          /\ new.stage = "limit" =>
                /\ new.route \in Strict \cup Tiered
                /\ IF new.route \in Tiered THEN new.token \in Authorities ELSE new.ip \in IPs

\* A step by which all requests do.
SameMarks ==
    /\ http' \in [Requests -> Loose]
    /\ \A q \in Requests : SameMark(http[q], http'[q])

-----------------------------------------------------------------------------
\* Constants of the instance.
LEMMA Names ==
    /\ Queue \in Procs /\ Web \subseteq Procs /\ Requests \subseteq Tasks /\ Jobs \subseteq Tasks
    /\ NoKey \notin Keys
  BY ClusterAssumption, GatewayAssumption DEF Procs, Tasks, Keys

\* A tier limit and the limit of the strict routes are numbers; so is the key a
\* request is counted under one of the keys.
LEMMA MarkTypes ==
    ASSUME NEW r, r.route \in Strict \cup Tiered,
           IF r.route \in Tiered THEN r.token \in Authorities ELSE r.ip \in IPs
    PROVE  /\ KeyIn(r) \in Keys
           /\ r.route \in Tiered => TierMax[r.token.tier] \in Nat
  BY GatewayAssumption DEF KeyIn, Keys

\* The set of the counted is finite.
LEMMA CountedFinite ==
    IsFiniteSet(CountedSet) /\ Cardinality(CountedSet) \in Nat
    /\ Cardinality(CountedSet) <= Cardinality(Requests) /\ Cardinality(Requests) \in Nat
<1>1. IsFiniteSet(Requests) /\ CountedSet \in SUBSET Requests
  BY GatewayAssumption DEF CountedSet
<1> QED
  BY <1>1, FS_Subset, FS_CardinalityType

\* What a mark says survives when the mark does.
LEMMA SameMarked ==
    ASSUME NEW c, NEW w, NEW old, NEW new, Mark(old, c, w), SameMark(old, new)
    PROVE  Mark(new, c, w)
<1>1. CASE old.key = NoKey
  BY <1>1 DEF Mark, SameMark
<1>2. CASE old.key # NoKey
  <2>1. KeyIn(new) = KeyIn(old)
    BY <1>2 DEF SameMark, KeyIn
  <2> QED
    BY <1>2, <2>1 DEF Mark, SameMark
<1> QED
  BY <1>1, <1>2

\* One request changes and keeps its mark.
LEMMA OneSameMark ==
    ASSUME http \in [Requests -> Loose], NEW q \in Requests, NEW r \in Loose,
           http' = [http EXCEPT ![q] = r], SameMark(http[q], r)
    PROVE  SameMarks
<1>1. http'[q] = r /\ \A o \in Requests \ {q} : http'[o] = http[o]
  OBVIOUS
<1>2. \A o \in Requests : SameMark(http[o], http[o])
  BY DEF SameMark
<1>3. \A o \in Requests : SameMark(http[o], http'[o])
  BY <1>1, <1>2
<1> QED
  BY <1>3 DEF SameMarks

\* A step that keeps marks and counters and makes no task new keeps the invariant.
LEMMA KeepsCounts ==
    ASSUME CountInv, SameMarks, Older, UNCHANGED Counters
    PROVE  CountInv'
<1>1. count' = count /\ window' = window
  BY DEF Counters
<1>2. Typed'
  BY <1>1 DEF CountInv, Typed, SameMarks
<1>3. CountedSet' = CountedSet
  BY DEF CountedSet, Counted, SameMarks, SameMark
<1>4. Bounded'
  <2>1. \A q \in Requests : http'[q].hits \in {http[q].hits, 0}
    BY DEF SameMarks, SameMark
  <2> QED
    BY <1>1, <1>3, <2>1, CountedFinite DEF CountInv, Bounded
<1>5. Marked'
  <2> SUFFICES ASSUME NEW q \in Requests PROVE Mark(http'[q], count, window)
    BY <1>1 DEF Marked
  <2>1. Mark(http[q], count, window)
    BY DEF CountInv, Marked
  <2>2. SameMark(http[q], http'[q])
    BY DEF SameMarks
  <2> QED
    BY <2>1, <2>2, SameMarked
<1>6. Distinct'
  BY DEF CountInv, Distinct, SameMarks, SameMark
<1>7. Unused'
  BY Names DEF CountInv, Unused, SameMarks, SameMark, Older
<1> QED
  BY <1>2, <1>4, <1>5, <1>6, <1>7 DEF CountInv

\* So does a step that leaves the requests alone.
LEMMA LeavesRequests ==
    ASSUME CountInv, Older, UNCHANGED <<Counters, http>>
    PROVE  CountInv'
<1>1. SameMarks
  BY DEF SameMarks, SameMark, CountInv, Typed
<1> QED
  BY <1>1, KeepsCounts

-----------------------------------------------------------------------------
\* The processes keep their types.

Kept == TypeOK' /\ Older

\* A task goes on where it is.
LEMMA BecomeKept ==
    ASSUME TypeOK, NEW t \in Tasks, NEW st \in AtWork, Become(t, st),
           UNCHANGED <<procs, conns>>
    PROVE  Kept
<1>1. task' \in [Tasks -> Task]
  BY DEF TypeOK, Become, Task, AtWork
<1>2. Older
  BY DEF TypeOK, Become, Task, AtWork, Older, Away
<1> QED
  BY <1>1, <1>2 DEF TypeOK, procs, conns, Kept

\* A task leaves its process, or its queue takes it.
LEMMA LeaveKept ==
    ASSUME TypeOK, NEW t \in Tasks, NEW st \in {"waiting", "done", "failed", "lost"},
           Leave(t, st), UNCHANGED <<procs, conns>>
    PROVE  Kept
<1>1. task' \in [Tasks -> Task]
  BY DEF TypeOK, Leave, Task, Away
<1>2. Older
  BY DEF TypeOK, Leave, Older, Away
<1> QED
  BY <1>1, <1>2 DEF TypeOK, procs, conns, Kept

\* A task enters a process.
LEMMA EnterKept ==
    ASSUME TypeOK, NEW t \in Tasks, NEW p \in Procs, NEW st \in AtWork,
           task' = [task EXCEPT ![t] = [st |-> st, at |-> p]], UNCHANGED <<procs, conns>>
    PROVE  Kept
<1>1. task' \in [Tasks -> Task]
  BY DEF TypeOK, Task
<1>2. Older
  BY DEF TypeOK, Older, Away, AtWork
<1> QED
  BY <1>1, <1>2 DEF TypeOK, procs, conns, Kept

\* The jobs.
LEMMA WorkKept ==
    ASSUME TypeOK, NEW j \in Jobs, Work(j)
    PROVE  Kept
<1>1. j \in Tasks /\ Queue \in Procs
  BY Names
<1>2. CASE Due(j)
  BY <1>1, <1>2, LeaveKept DEF Due
<1>3. CASE Take(j)
  BY <1>1, <1>3, EnterKept DEF Take, AtWork
<1>4. CASE Query(j)
  BY <1>1, <1>4, BecomeKept DEF Query, Send, AtWork
<1>5. CASE Answered(j)
  BY <1>1, <1>5, BecomeKept DEF Answered, AtWork
<1>6. CASE Done(j)
  BY <1>1, <1>6, LeaveKept DEF Done
<1>7. CASE JobFails(j)
  BY <1>1, <1>7, LeaveKept DEF JobFails
<1> QED
  BY <1>2, <1>3, <1>4, <1>5, <1>6, <1>7 DEF Work

\* The end of a process.
LEMMA EndKept ==
    ASSUME TypeOK, NEW p \in Procs, NEW how \in Ended, End(p, how),
           primary' \in BOOLEAN, bound' = bound,
           signals' \in 0..bound.signals, faults' \in 0..bound.faults
    PROVE  Kept
<1>1. life' = [life EXCEPT ![p] = how] /\ calls' = [calls EXCEPT ![p] = 0]
  BY DEF End
<1>2. life' \in [Procs -> {"starting", "up"} \cup Ended] /\ calls' \in [Procs -> Nat]
  BY <1>1 DEF TypeOK
<1>3. /\ pool' \in [Procs -> {"open", "closing", "closed"}]
      /\ redis' \in [Procs -> {"open", "queues", "closing", "closed"}]
      /\ broken' \in [Procs -> SUBSET Cleanups]
  BY DEF TypeOK, End
<1>4. task' \in [Tasks -> Task] /\ Older
  BY DEF TypeOK, End, Task, Away, Older
<1> QED
  BY <1>2, <1>3, <1>4 DEF TypeOK, Kept

\* What the processes do by themselves.
LEMMA ProcessKept ==
    ASSUME TypeOK, NEW p \in Procs, Process(p)
    PROVE  Kept
<1>1. /\ bound.signals \in Nat /\ bound.faults \in Nat
      /\ signals \in 0..bound.signals /\ faults \in 0..bound.faults
  BY ClusterAssumption DEF TypeOK
<1>2. Signalled => signals' \in 0..bound.signals
  BY <1>1 DEF Signalled
<1>3. CASE Respawn(p)
  <2>1. life' \in [Procs -> {"starting", "up"} \cup Ended]
    BY <1>3 DEF Respawn, TypeOK, Ended
  <2> QED
    BY <1>3, <2>1 DEF Respawn, TypeOK, conns, Kept, Older
<1>4. CASE Boot(p)
  <2>1. life' \in [Procs -> {"starting", "up"} \cup Ended]
    BY <1>4 DEF Boot, TypeOK, Ended
  <2> QED
    BY <1>4, <2>1 DEF Boot, TypeOK, conns, Kept, Older
<1>5. CASE Crash(p)
  <2>1. faults' \in 0..bound.faults
    BY <1>1, <1>5 DEF Crash
  <2> QED
    BY <1>1, <1>5, <2>1, EndKept DEF Crash, TypeOK, Ended
<1>6. CASE Orphaned(p)
  BY <1>1, <1>6, EndKept DEF Orphaned, TypeOK, Ended
<1>7. CASE SignalEarly(p)
  BY <1>1, <1>2, <1>7, EndKept DEF SignalEarly, TypeOK, Ended
<1>8. CASE Signal(p)
  <2>1. calls' \in [Procs -> Nat]
    BY <1>8 DEF Signal, TypeOK, Ended
  <2>2. /\ pool' \in [Procs -> {"open", "closing", "closed"}]
        /\ redis' \in [Procs -> {"open", "queues", "closing", "closed"}]
    BY <1>8 DEF Signal, TypeOK
  <2> QED
    BY <1>2, <1>8, <2>1, <2>2 DEF Signal, TypeOK, Kept, Older
<1>9. CASE Closing(p)
  <2>1. /\ pool' \in [Procs -> {"open", "closing", "closed"}]
        /\ redis' \in [Procs -> {"open", "queues", "closing", "closed"}]
    BY <1>9 DEF Closing, PoolDestroyed, QueuesClosed, RedisClosed, TypeOK
  <2>2. UNCHANGED <<procs, broken, task>>
    BY <1>9 DEF Closing, PoolDestroyed, QueuesClosed, RedisClosed
  <2> QED
    BY <2>1, <2>2 DEF TypeOK, procs, Kept, Older
<1>10. CASE Complete(p)
  BY <1>1, <1>10, EndKept DEF Complete, TypeOK, Ended
<1>11. CASE Timeout(p)
  BY <1>1, <1>11, EndKept DEF Timeout, TypeOK, Ended
<1>12. ASSUME NEW c \in Cleanups, CleanupFails(p, c) PROVE Kept
  <2>1. faults' \in 0..bound.faults /\ broken' \in [Procs -> SUBSET Cleanups]
    BY <1>1, <1>12 DEF CleanupFails, TypeOK
  <2> QED
    BY <1>12, <2>1 DEF CleanupFails, TypeOK, Kept, Older
<1> QED
  BY <1>3, <1>4, <1>5, <1>6, <1>7, <1>8, <1>9, <1>10, <1>11, <1>12 DEF Process

\* The primary gets a signal.
LEMMA PrimaryKept == ASSUME TypeOK, SignalPrimary PROVE Kept
<1>1. bound.signals \in Nat /\ signals' \in 0..bound.signals
  BY ClusterAssumption DEF TypeOK, SignalPrimary, Signalled
<1> QED
  BY <1>1 DEF TypeOK, SignalPrimary, conns, Kept, Older

-----------------------------------------------------------------------------
\* The requests.

\* Stage and answer are no part of a mark.
LEMMA ChangeStage ==
    ASSUME http \in [Requests -> Loose], NEW q \in Requests,
           NEW stage \in {"handle", "end"}, NEW answer \in Answers,
           \/ http' = [http EXCEPT ![q].stage = stage, ![q].answer = answer]
           \/ http' = [http EXCEPT ![q].stage = stage]
    PROVE  SameMarks
<1>0. http[q].answer \in Answers
  BY DEF Loose
<1> PICK given \in Answers :
        http' = [http EXCEPT ![q] = [http[q] EXCEPT !.stage = stage, !.answer = given]]
  <2>1. CASE http' = [http EXCEPT ![q].stage = stage, ![q].answer = answer]
    BY <2>1
  <2>2. CASE http' = [http EXCEPT ![q].stage = stage]
    <3>1. [http[q] EXCEPT !.stage = stage]
            = [http[q] EXCEPT !.stage = stage, !.answer = http[q].answer]
      BY DEF Loose
    <3> QED
      BY <1>0, <2>2, <3>1
  <2> QED
    BY <2>1, <2>2
<1> DEFINE r == [http[q] EXCEPT !.stage = stage, !.answer = given]
<1>1. r \in Loose
  BY DEF Loose
<1>2. SameMark(http[q], r)
  BY DEF Loose, SameMark
<1> QED
  BY <1>1, <1>2, OneSameMark

\* A request that is answered keeps what it was counted by.
LEMMA AnswerKept ==
    ASSUME Inv, NEW q \in Requests, NEW answer \in Answers, Answer(q, answer),
           UNCHANGED Counters
    PROVE  Inv'
<1>1. Kept
  BY Names, LeaveKept DEF Inv, Answer
<1>2. SameMarks
  BY ChangeStage DEF Inv, CountInv, Typed, Answer
<1> QED
  BY <1>1, <1>2, KeepsCounts DEF Inv, Kept

\* What a request is when it comes in.
LEMMA NewLoose ==
    ASSUME NEW stage \in {"limit", "handle", "end"}, NEW route \in Routes, NEW ip \in IPs,
           NEW token \in Authorities \cup {NoToken}, NEW answer \in Answers
    PROVE  [stage |-> stage, route |-> route, ip |-> ip, token |-> token, key |-> NoKey,
            hits |-> 0, win |-> 0, answer |-> answer] \in Loose
  BY GatewayAssumption DEF Loose

\* The request is accepted, or refused at once.
LEMMA ArriveKept ==
    ASSUME Inv, NEW q \in Requests, NEW p \in Web, Arrive(q, p)
    PROVE  Inv'
<1>1. PICK route \in Routes, ip \in IPs, token \in Authorities \cup {NoToken} :
        LET entered == [NewRequest EXCEPT !.route = route, !.ip = ip, !.token = token]
            refusal == IF route \in Guarded /\ token = NoToken THEN "unauthorized"
                       ELSE IF route = "unknown" THEN "notFound"
                       ELSE "none"
        IN  /\ UNCHANGED <<procs, conns, Counters>>
            /\ p \in Web /\ Takes(p) /\ ComesUp(q)
            /\ IF refusal = "none"
               THEN /\ task' = [task EXCEPT ![q] = [st |-> "busy", at |-> p]]
                    /\ http' = [http EXCEPT ![q] = [entered EXCEPT
                            !.stage = IF Limited(route) THEN "limit" ELSE "handle"]]
               ELSE /\ Leave(q, "done")
                    /\ http' = [http EXCEPT ![q] =
                            [entered EXCEPT !.stage = "end", !.answer = refusal]]
  BY ZenonT(60) DEF Arrive
<1> DEFINE refused == (route \in Guarded /\ token = NoToken) \/ route = "unknown"
           refusal == IF route \in Guarded /\ token = NoToken THEN "unauthorized" ELSE "notFound"
<1>2. UNCHANGED <<procs, conns, Counters>> /\ task[q] = Away("new")
  BY <1>1 DEF ComesUp
<1>3. http[q].key = NoKey
  BY <1>2 DEF Inv, CountInv, Unused
<1>4. CASE refused
  <2>1. Leave(q, "done")
    BY <1>1, <1>4
  <2>2. http' = [http EXCEPT ![q] = [stage |-> "end", route |-> route, ip |-> ip,
                    token |-> token, key |-> NoKey, hits |-> 0, win |-> 0,
                    answer |-> refusal]]
    BY <1>1, <1>4 DEF NewRequest
  <2>3. Kept
    BY <1>2, <2>1, Names, LeaveKept DEF Inv
  <2> DEFINE r == [stage |-> "end", route |-> route, ip |-> ip, token |-> token,
                   key |-> NoKey, hits |-> 0, win |-> 0, answer |-> refusal]
  <2>4. r \in Loose /\ SameMark(http[q], r)
    BY <1>3, NewLoose DEF SameMark, Answers
  <2>5. SameMarks
    BY <2>2, <2>4, OneSameMark DEF Inv, CountInv, Typed
  <2> QED
    BY <1>2, <2>3, <2>5, KeepsCounts DEF Inv, Kept
<1>5. CASE ~ refused
  <2>1. task' = [task EXCEPT ![q] = [st |-> "busy", at |-> p]]
    BY <1>1, <1>5
  <2>2. http' = [http EXCEPT ![q] = [stage |-> IF Limited(route) THEN "limit" ELSE "handle",
                    route |-> route, ip |-> ip,
                    token |-> token, key |-> NoKey, hits |-> 0, win |-> 0,
                    answer |-> "none"]]
    BY <1>1, <1>5 DEF NewRequest
  <2>3. Kept
    BY <1>2, <2>1, Names, EnterKept DEF Inv, AtWork
  <2>4. Limited(route) => /\ route \in Strict \cup Tiered
                          /\ IF route \in Tiered THEN token \in Authorities ELSE ip \in IPs
    BY <1>5 DEF Limited, Guarded
  <2> DEFINE r == [stage |-> IF Limited(route) THEN "limit" ELSE "handle", route |-> route,
                   ip |-> ip, token |-> token, key |-> NoKey, hits |-> 0, win |-> 0,
                   answer |-> "none"]
  <2>5. r \in Loose /\ SameMark(http[q], r)
    BY <1>3, <2>4, NewLoose DEF SameMark, Answers
  <2>6. SameMarks
    BY <2>2, <2>5, OneSameMark DEF Inv, CountInv, Typed
  <2> QED
    BY <1>2, <2>3, <2>6, KeepsCounts DEF Inv, Kept
<1> QED
  BY <1>4, <1>5

\* The limiter counts a request: one more hit, and no other request's.
LEMMA CountKept ==
    ASSUME Inv, NEW q \in Requests, Count(q)
    PROVE  Inv'
<1> DEFINE k == KeyOf(q)
           refused == redis[task[q].at] \in {"closing", "closed"}
           r == [http[q] EXCEPT !.stage = "limited", !.key = k, !.hits = Hit(k), !.win = window[k]]
<1>1. Kept
  <2>1. \E st \in AtWork : Become(q, st)
    BY DEF Count, Send, AtWork
  <2>2. UNCHANGED <<procs, conns>>
    BY DEF Count, Send
  <2> QED
    BY <2>1, <2>2, Names, BecomeKept DEF Inv
<1>2. CASE refused
  <2>1. UNCHANGED <<Counters, http>>
    BY <1>2 DEF Count, Counters
  <2> QED
    BY <1>1, <2>1, LeavesRequests DEF Inv, Kept
<1>3. CASE ~ refused
  <2>1. /\ http[q].stage = "limit" /\ window' = window
        /\ count' = [count EXCEPT ![k] = count[k] + 1] /\ http' = [http EXCEPT ![q] = r]
    BY <1>3 DEF Count, Hit
  <2>2. /\ http[q].key = NoKey /\ k = KeyIn(http[q]) /\ k \in Keys /\ k # NoKey
        /\ http[q].route \in Strict \cup Tiered
        /\ IF http[q].route \in Tiered THEN http[q].token \in Authorities ELSE http[q].ip \in IPs
    BY <2>1, MarkTypes, Names DEF Inv, CountInv, Marked, Mark, KeyOf, KeyIn
  <2>3. /\ count \in [Keys -> Nat] /\ window \in [Keys -> 0..MaxWindow]
        /\ http \in [Requests -> Loose] /\ http[q] \in Loose
    BY DEF Inv, CountInv, Typed
  <2>4. /\ r \in Loose /\ r.key = k /\ r.hits = count[k] + 1 /\ r.win = window[k]
        /\ r.route = http[q].route /\ r.token = http[q].token /\ r.ip = http[q].ip
        /\ r.stage = "limited"
    <3>1. Hit(k) = count[k] + 1 /\ Hit(k) \in Nat /\ window[k] \in 0..MaxWindow
      BY <2>2, <2>3 DEF Hit
    <3> HIDE DEF k
    <3> QED
      BY <2>2, <2>3, <3>1 DEF Loose
  <2> HIDE DEF k, r
  <2>5. /\ http'[q] = r /\ \A o \in Requests \ {q} : http'[o] = http[o]
        /\ count'[k] = count[k] + 1 /\ \A l \in Keys \ {k} : count'[l] = count[l]
        /\ count[k] \in Nat
    BY <2>1, <2>2, <2>3
  <2>6. Typed'
    BY <2>1, <2>2, <2>3, <2>4 DEF Typed
  <2>7. Marked'
    <3> SUFFICES ASSUME NEW o \in Requests PROVE Mark(http'[o], count', window')
      BY DEF Marked
    <3>1. Mark(http[o], count, window)
      BY DEF Inv, CountInv, Marked
    <3>2. CASE o = q
      <4>1. KeyIn(r) = KeyIn(http[q])
        BY <2>4 DEF KeyIn
      <4> QED
        BY <2>1, <2>2, <2>3, <2>4, <2>5, <3>2, <4>1 DEF Mark
    <3>3. CASE o # q
      <4>1. \A l \in Keys : count[l] <= count'[l]
        BY <2>3, <2>5
      <4>2. http[o].hits \in Nat /\ http[o] \in Loose
        BY <2>3 DEF Loose
      <4>3. \A l \in Keys : count[l] \in Nat /\ count'[l] \in Nat
        BY <2>3, <2>6 DEF Typed
      <4> QED
        BY <2>1, <2>5, <3>1, <3>3, <4>1, <4>2, <4>3 DEF Mark
    <3> QED
      BY <3>2, <3>3
  <2>8. Distinct'
    <3>1. \A o \in Requests \ {q} :
            ~ (http[o].key = k /\ http[o].win = window[k] /\ http[o].hits = count[k] + 1)
      BY <2>2, <2>5 DEF Inv, CountInv, Marked, Mark
    <3> QED
      BY <2>1, <2>4, <2>5, <3>1 DEF Inv, CountInv, Distinct
  <2>9. Bounded'
    <3>1. CountedSet' = CountedSet \cup {q} /\ q \notin CountedSet
      BY <2>2, <2>4, <2>5 DEF CountedSet, Counted
    <3>2. Cardinality(CountedSet') = Cardinality(CountedSet) + 1
      BY <3>1, CountedFinite, FS_AddElement
    <3>3. \A l \in Keys : count[l] \in Nat /\ count[l] <= Cardinality(CountedSet)
      BY <2>3 DEF Inv, CountInv, Bounded
    <3>4. \A l \in Keys : count'[l] <= Cardinality(CountedSet')
      BY <2>5, <3>2, <3>3, CountedFinite
    <3>5. \A o \in Requests : http[o].hits \in Nat /\ http[o].hits <= Cardinality(CountedSet)
      BY <2>3 DEF Inv, CountInv, Bounded, Loose
    <3>6. \A o \in Requests : http'[o].hits <= Cardinality(CountedSet')
      BY <2>2, <2>4, <2>5, <3>2, <3>3, <3>5, CountedFinite
    <3> QED
      BY <3>4, <3>6 DEF Bounded
  <2>10. Unused'
    <3>1. task'[q] # Away("new")
      <4>1. Become(q, "command") /\ task \in [Tasks -> Task] /\ q \in Tasks
        BY <1>3, Names DEF Count, Send, Inv, TypeOK
      <4> QED
        BY <4>1 DEF Become, Away, Task
    <3>2. Older
      BY <1>1 DEF Kept
    <3> QED
      BY <2>5, <3>1, <3>2, Names DEF Inv, CountInv, Unused, Older
  <2> QED
    BY <1>1, <2>6, <2>7, <2>8, <2>9, <2>10 DEF Inv, Kept, CountInv
<1> QED
  BY <1>2, <1>3

\* A counter expires: what was counted by it belongs to an earlier window.
LEMMA RolloverKept ==
    ASSUME Inv, NEW k \in Keys, Rollover(k)
    PROVE  Inv'
<1>1. /\ count' = [count EXCEPT ![k] = 0] /\ window' = [window EXCEPT ![k] = window[k] + 1]
      /\ window[k] < MaxWindow /\ http' = http /\ UNCHANGED vars
  BY DEF Rollover
<1>2. count \in [Keys -> Nat] /\ window \in [Keys -> 0..MaxWindow] /\ http \in [Requests -> Loose]
  BY DEF Inv, CountInv, Typed
<1>3. TypeOK' /\ Unused'
  BY <1>1 DEF Inv, TypeOK, vars, procs, conns, CountInv, Unused
<1>4. Typed'
  BY <1>1, <1>2, GatewayAssumption DEF Typed
<1>5. Marked'
  <2> SUFFICES ASSUME NEW q \in Requests PROVE Mark(http[q], count', window')
    BY <1>1 DEF Marked
  <2>1. Mark(http[q], count, window) /\ http[q] \in Loose
    BY <1>2 DEF Inv, CountInv, Marked
  <2>2. http[q].win \in Int /\ \A l \in Keys : window[l] \in Int
    BY <1>2, <2>1 DEF Loose
  <2>3. /\ window'[k] = window[k] + 1
        /\ \A l \in Keys \ {k} : count'[l] = count[l] /\ window'[l] = window[l]
    BY <1>1, <1>2
  <2> QED
    BY <2>1, <2>2, <2>3 DEF Mark
<1>6. Distinct'
  BY <1>1 DEF Inv, CountInv, Distinct
<1>7. Bounded'
  <2>1. CountedSet' = CountedSet
    BY <1>1 DEF CountedSet, Counted
  <2>2. \A l \in Keys : count'[l] \in {count[l], 0}
    BY <1>1, <1>2
  <2> QED
    BY <1>1, <2>1, <2>2, CountedFinite DEF Inv, CountInv, Bounded
<1> QED
  BY <1>3, <1>4, <1>5, <1>6, <1>7 DEF Inv, CountInv

\* Everything else a request does changes no mark.
LEMMA ServeKept ==
    ASSUME Inv, NEW q \in Requests, Serve(q)
    PROVE  Inv'
<1>1. CASE Count(q)
  BY <1>1, CountKept
<1>2. CASE Admit(q)
  <2>1. CASE \E answer \in {"tooMany", "forbidden"} : Answer(q, answer)
    BY <1>2, <2>1, AnswerKept DEF Admit, Answers
  <2>2. CASE Stage(q, "handle") /\ UNCHANGED <<procs, conns, task>>
    <3>1. SameMarks
      BY <2>2, ChangeStage DEF Stage, Inv, CountInv, Typed, Answers
    <3>2. TypeOK' /\ Older
      BY <2>2 DEF Inv, TypeOK, procs, conns, Older
    <3> QED
      BY <1>2, <3>1, <3>2, KeepsCounts DEF Inv, Admit
  <2> QED
    BY <1>2, <2>1, <2>2 DEF Admit
<1>3. CASE Ask(q)
  <2>1. \E st \in AtWork : Become(q, st)
    BY <1>3 DEF Ask, Query, Command, Send, AtWork
  <2>2. UNCHANGED <<procs, conns>> /\ UNCHANGED <<Counters, http>>
    BY <1>3 DEF Ask, Query, Command, Send
  <2> QED
    BY <2>1, <2>2, Names, BecomeKept, LeavesRequests DEF Inv, Kept
<1>4. CASE Resume(q)
  <2>1. \E st \in AtWork : Become(q, st)
    BY <1>4 DEF Resume, Answered, AtWork
  <2>2. UNCHANGED <<procs, conns>> /\ UNCHANGED <<Counters, http>>
    BY <1>4 DEF Resume, Answered
  <2> QED
    BY <2>1, <2>2, Names, BecomeKept, LeavesRequests DEF Inv, Kept
<1>5. CASE Return(q)
  BY <1>5, AnswerKept DEF Return, Answers
<1>6. CASE Swallow(q)
  BY <1>6, Names, BecomeKept, LeavesRequests DEF Swallow, AtWork, Inv, Kept
<1>7. CASE Throw(q)
  BY <1>7, AnswerKept DEF Throw, Answers
<1>8. ASSUME NEW j \in Jobs, AddMail(q, j) PROVE Inv'
  <2>1. q \in Tasks /\ j \in Tasks /\ task \in [Tasks -> Task]
    BY Names DEF Inv, TypeOK
  <2>2. /\ task' = [task EXCEPT ![q].st = "command", ![j] = Away("waiting")]
        /\ UNCHANGED <<procs, conns, Counters, http>>
    BY <1>8 DEF AddMail
  <2>3. task' \in [Tasks -> Task] /\ Older
    BY <2>1, <2>2 DEF Task, Away, AtWork, Older
  <2>4. TypeOK'
    BY <2>2, <2>3 DEF Inv, TypeOK, procs, conns
  <2> QED
    BY <2>2, <2>3, <2>4, LeavesRequests DEF Inv
<1> QED
  BY <1>1, <1>2, <1>3, <1>4, <1>5, <1>6, <1>7, <1>8 DEF Serve

-----------------------------------------------------------------------------
\* At first nothing is counted.
LEMMA InitInv == GatewayInit => Inv
<1> SUFFICES ASSUME GatewayInit PROVE Inv
  OBVIOUS
<1>1. TypeOK
  BY ClusterAssumption DEF GatewayInit, Init, TypeOK, Ended, Task, Away
<1>2. NewRequest \in Loose /\ NewRequest.key = NoKey /\ NewRequest.hits = 0
      /\ NewRequest.stage = "new"
  BY GatewayAssumption DEF NewRequest, Loose, Answers
<1>3. Typed
  BY <1>2, GatewayAssumption DEF GatewayInit, Typed
<1>4. \A q \in Requests : http[q] = NewRequest
  BY DEF GatewayInit
<1>5. Marked /\ Distinct /\ Unused
  BY <1>2, <1>4 DEF Marked, Mark, Distinct, Unused
<1>6. Bounded
  BY <1>2, <1>4, CountedFinite DEF GatewayInit, Bounded
<1> QED
  BY <1>1, <1>3, <1>5, <1>6 DEF Inv, CountInv

\* Every step keeps the invariant.
LEMMA NextInv == Inv /\ [GatewayNext]_vars2 => Inv'
<1> SUFFICES ASSUME Inv, [GatewayNext]_vars2 PROVE Inv'
  OBVIOUS
<1>1. ASSUME NEW q \in Requests, NEW p \in Web, Arrive(q, p) PROVE Inv'
  BY <1>1, ArriveKept
<1>2. ASSUME NEW q \in Requests, Serve(q) PROVE Inv'
  BY <1>2, ServeKept
<1>3. ASSUME NEW k \in Keys, Rollover(k) PROVE Inv'
  BY <1>3, RolloverKept
<1>4. CASE (SignalPrimary \/ (\E p \in Procs : Process(p)) \/ (\E j \in Jobs : Work(j)))
           /\ UNCHANGED <<Counters, http>>
  <2>1. Kept
    BY <1>4, PrimaryKept, ProcessKept, WorkKept DEF Inv
  <2> QED
    BY <1>4, <2>1, LeavesRequests DEF Inv, Kept
<1>5. CASE UNCHANGED vars2
  <2>1. TypeOK' /\ Older /\ UNCHANGED <<Counters, http>>
    BY <1>5 DEF vars2, vars, procs, conns, Counters, Inv, TypeOK, Older
  <2> QED
    BY <2>1, LeavesRequests DEF Inv
<1> QED
  BY <1>1, <1>2, <1>3, <1>4, <1>5 DEF GatewayNext

\* The invariant holds in every state.
LEMMA Invariance == Spec => []Inv
  BY InitInv, NextInv, PTL DEF Spec

-----------------------------------------------------------------------------
\* Types are kept: no counter, and no hit, exceeds the number of requests.
THEOREM TypeCorrect == Spec => []GatewayTypeOK
<1>1. Inv => GatewayTypeOK
  <2> SUFFICES ASSUME Inv PROVE GatewayTypeOK
    OBVIOUS
  <2>1. count \in [Keys -> 0..Cardinality(Requests)]
    BY CountedFinite DEF Inv, CountInv, Typed, Bounded
  <2>2. \A q \in Requests : http[q] \in Request
    <3> SUFFICES ASSUME NEW q \in Requests PROVE http[q] \in Request
      OBVIOUS
    <3>1. http[q] \in Loose /\ http[q].hits <= Cardinality(CountedSet)
      BY DEF Inv, CountInv, Typed, Bounded
    <3>2. http[q].hits \in 0..Cardinality(Requests)
      BY <3>1, CountedFinite DEF Loose
    <3> QED
      BY <3>1, <3>2 DEF Loose, Request
  <2> QED
    BY <2>1, <2>2 DEF Inv, CountInv, Typed, GatewayTypeOK
<1> QED
  BY <1>1, Invariance, PTL

\* No more requests pass a limiter in a window than it lets pass: they are distinct
\* hits of one counter, and none is above the limit.
THEOREM LimitsHold == Spec => []AdmittedWithinLimit
<1>1. Inv => AdmittedWithinLimit
  <2> SUFFICES ASSUME Inv, NEW q \in Requests, Admitted(q)
               PROVE Cardinality({o \in Requests :
                        /\ Admitted(o) /\ http[o].hits <= http[q].hits /\ http[o].win = http[q].win
                        /\ IF http[q].route \in Tiered
                           THEN http[o].route \in Tiered /\ http[o].token.user = http[q].token.user
                           ELSE http[o].route \in Strict /\ http[o].ip = http[q].ip}) <= LimitOf(q)
    BY DEF AdmittedWithinLimit
  <2> DEFINE S == {o \in Requests :
                     /\ Admitted(o) /\ http[o].hits <= http[q].hits /\ http[o].win = http[q].win
                     /\ IF http[q].route \in Tiered
                        THEN http[o].route \in Tiered /\ http[o].token.user = http[q].token.user
                        ELSE http[o].route \in Strict /\ http[o].ip = http[q].ip}
             f == [o \in S |-> http[o].hits]
             T == 1..LimitOf(q)
  <2>1. LimitOf(q) \in Nat /\ http[q].hits \in Nat /\ http[q].hits <= LimitOf(q)
    <3>1. Mark(http[q], count, window) /\ http[q].key # NoKey /\ http[q] \in Loose
      BY DEF Inv, CountInv, Marked, Typed, Admitted
    <3>2. LimitOf(q) \in Nat
      BY <3>1, MarkTypes, GatewayAssumption DEF Mark, LimitOf
    <3> QED
      BY <3>1, <3>2 DEF Admitted, Over, Loose
  <2>2. \A o \in S : http[o].key = http[q].key /\ http[o].key # NoKey
    <3> SUFFICES ASSUME NEW o \in S PROVE http[o].key = http[q].key /\ http[o].key # NoKey
      OBVIOUS
    <3>1. /\ http[q].key = KeyIn(http[q]) /\ http[o].key = KeyIn(http[o]) /\ http[o].key # NoKey
          /\ http[q].route \in Strict \cup Tiered
      BY DEF Inv, CountInv, Marked, Mark, Admitted
    <3>2. Strict \cap Tiered = {}
      BY DEF Strict, Tiered
    <3> QED
      BY <3>1, <3>2 DEF KeyIn
  <2>3. f \in [S -> T]
    <3> SUFFICES ASSUME NEW o \in S PROVE http[o].hits \in 1..LimitOf(q)
      OBVIOUS
    <3>1. http[o].hits \in Nat /\ http[o].hits > 0
      BY <2>2 DEF Inv, CountInv, Marked, Mark, Typed, Loose
    <3> QED
      BY <2>1, <3>1
  <2>4. \A x, y \in S : f[x] = f[y] => x = y
    <3> SUFFICES ASSUME NEW x \in S, NEW y \in S, http[x].hits = http[y].hits PROVE x = y
      OBVIOUS
    <3> QED
      BY <2>2 DEF Inv, CountInv, Distinct
  <2>5. IsFiniteSet(S)
    <3>1. S \in SUBSET Requests /\ IsFiniteSet(Requests)
      BY GatewayAssumption
    <3> HIDE DEF S
    <3> QED
      BY <3>1, FS_Subset
  <2>6. IsFiniteSet(T) /\ Cardinality(T) = LimitOf(q)
    BY <2>1, FS_Interval
  <2> HIDE DEF S, f, T
  <2>7. ~ Cardinality(T) < Cardinality(S)
    <3> SUFFICES ASSUME Cardinality(T) < Cardinality(S) PROVE FALSE
      OBVIOUS
    <3>1. \E x, y \in S : x # y /\ f[x] = f[y]
      BY <2>3, <2>5, <2>6, FS_PigeonHole
    <3> QED
      BY <2>4, <3>1
  <2>8. Cardinality(S) \in Nat
    BY <2>5, FS_CardinalityType
  <2>9. Cardinality(S) <= LimitOf(q)
    BY <2>1, <2>6, <2>7, <2>8
  <2> QED
    BY <2>9 DEF S
<1> QED
  BY <1>1, Invariance, PTL
=============================================================================
