-------------------------- MODULE UserCacheProofs --------------------------
(***************************************************************************)
(* The TTL bounds how long a cached user is wrong, for any number of       *)
(* concurrent handlers, aborted ones included.                             *)
(***************************************************************************)
EXTENDS UserCacheProps, TLAPS

UpToDate(copy) == copy \in {Accurate, Nothing}

\* No handler outlives two ticks, so that what it holds is behind only if the row was
\* written since the last tick, or before it by a handler as old as this one.
HeldCopy(r) ==
    UpToDate(req[r].user) \/ quiet = 0 \/ (quiet = 1 /\ req[r].old)

HeldCopies == \A r \in Requests : HeldCopy(r)

\* An entry written since the last tick was filled by such a handler; one that
\* outlived the tick may be behind one tick longer, and then it is gone.
StoredCopies ==
    \A k \in Keys : \/ UpToDate(entry[k])
                    \/ quiet \in {0, 1}
                    \/ quiet = 2 /\ left[k] = 0

\* An idle slot holds no copy.
LEMMA IdleTyped == Idle \in Request /\ UpToDate(Idle.user)
  BY DEF Idle, Request, Steps, AllOps, UpToDate

\* Type correctness of the user cache: the representation invariant of rows,
\* entries and handlers (user-cache.ts), preserved by every step.
LEMMA TypeStep == TypeOK /\ [Next]_vars => TypeOK'
<1> SUFFICES ASSUME TypeOK, [Next]_vars PROVE TypeOK'
  OBVIOUS
<1> USE DEF TypeOK
<1>1. \A r \in Requests : req[r] \in Request
  OBVIOUS
<1>2. ASSUME NEW r \in Requests, Arrive(r) PROVE TypeOK'
  <2>1. ASSUME NEW op \in AllOps, NEW pc \in Steps, Start(r, op, pc) PROVE TypeOK'
    <3>1. [Idle EXCEPT !.op = op, !.pc = pc] \in Request
      BY <2>1, IdleTyped DEF Request
    <3> QED
      BY <2>1, <3>1 DEF Start
  <2> QED
    BY <1>2, <2>1 DEF Arrive, StartRegister, StartRead, StartWrite, Steps, AllOps
<1>3. ASSUME NEW r \in Requests, NEW pc \in Steps, NEW user \in Copy \cup {Nothing},
             Resume(r, pc, user)
      PROVE  req' \in [Requests -> Request]
  <2>1. [req[r] EXCEPT !.pc = pc, !.user = user] \in Request
    BY <1>1, <1>3 DEF Request
  <2> QED
    BY <1>3, <2>1 DEF Resume
<1>4. ASSUME NEW r \in Requests, Return(r) PROVE req' \in [Requests -> Request]
  BY <1>4, IdleTyped DEF Return
<1>5. ASSUME NEW r \in Requests, NEW pc \in Steps, Goto(r, pc)
      PROVE  req' \in [Requests -> Request]
  <2>1. req[r].user \in Copy \cup {Nothing}
    BY <1>1 DEF Request
  <2> QED
    BY <1>3, <1>5, <2>1 DEF Goto
<1>6. Accurate \in Copy
  BY DEF Accurate, Copy
<1>7. ASSUME NEW r \in Requests, Step(r) PROVE TypeOK'
  <2> USE DEF Steps
  <2>1. CASE Insert(r)
    <3>1. CASE row
      BY <1>4, <2>1, <3>1 DEF Insert
    <3>2. CASE ~ row
      <4>1. row' = TRUE /\ quiet' = 0 /\ Resume(r, "setId", Accurate) /\ UNCHANGED <<entry, left>>
        BY <2>1, <3>2 DEF Insert
      <4>2. req' \in [Requests -> Request]
        BY <1>3, <1>6, <4>1
      <4> QED
        BY <4>1, <4>2
    <3> QED
      BY <3>1, <3>2
  <2>2. CASE Lookup(r)
    <3>1. KeyOf(req[r].op) \in Keys
      BY DEF KeyOf, Keys
    <3>2. entry[KeyOf(req[r].op)] \in Copy \cup {Nothing}
      BY <3>1
    <3> QED
      BY <1>3, <1>4, <1>5, <2>2, <3>2 DEF Lookup
  <2>3. CASE Fetch(r)
    BY <1>3, <1>4, <1>6, <2>3 DEF Fetch
  <2>4. CASE SetId(r)
    BY <1>1, <1>5, <2>4 DEF SetId, Put, Request, Keys
  <2>5. CASE SetEmail(r)
    BY <1>1, <1>4, <2>5 DEF SetEmail, Put, Request, Keys
  <2>6. CASE Find(r)
    BY <1>4, <1>5, <2>6 DEF Find
  <2>7. CASE Write(r)
    <3> DEFINE Behind(copy) == IF copy = Nothing THEN Nothing ELSE copy \cup {FieldOf(req[r].op)}
               next == IF req[r].op \in Silent THEN Idle ELSE [req[r] EXCEPT !.pc = "delId"]
    <3>1. \A copy \in Copy \cup {Nothing} : Behind(copy) \in Copy \cup {Nothing}
      BY DEF FieldOf, Copy, Fields
    <3>2. next \in Request
      BY <1>1, IdleTyped DEF Request
    <3>3. \A q \in Requests : [req[q] EXCEPT !.user = Behind(@)] \in Request
      <4> SUFFICES ASSUME NEW q \in Requests PROVE [req[q] EXCEPT !.user = Behind(@)] \in Request
        OBVIOUS
      <4>1. req[q] \in Request /\ Behind(req[q].user) \in Copy \cup {Nothing}
        BY <1>1, <3>1 DEF Request
      <4> HIDE DEF Behind
      <4> QED
        BY <4>1 DEF Request
    <3>4. /\ entry' = [k \in Keys |-> Behind(entry[k])]
          /\ req' = [q \in Requests |->
                        IF q = r THEN next ELSE [req[q] EXCEPT !.user = Behind(@)]]
          /\ quiet' = 0 /\ row' = row /\ left' = left
      BY <2>7 DEF Write
    <3> HIDE DEF Behind, next
    <3> QED
      BY <3>1, <3>2, <3>3, <3>4
  <2>8. CASE WriteNothing(r)
    BY <1>5, <2>8 DEF WriteNothing
  <2>9. CASE DelId(r)
    BY <1>4, <1>5, <2>9 DEF DelId, Keys
  <2>10. CASE DelEmail(r)
    BY <1>4, <2>10 DEF DelEmail, Keys
  <2> QED
    BY <1>7, <2>1, <2>2, <2>3, <2>4, <2>5, <2>6, <2>7, <2>8, <2>9, <2>10 DEF Step
<1>8. ASSUME NEW r \in Requests, Abort(r) PROVE TypeOK'
  BY <1>4, <1>8 DEF Abort
<1>9. ASSUME NEW k \in Keys, Expire(k) PROVE TypeOK'
  BY <1>9 DEF Expire
<1>10. CASE Tick
  <2>1. \A r \in Requests : [req[r] EXCEPT !.old = (req[r] # Idle)] \in Request
    BY <1>1 DEF Request
  <2> QED
    BY <1>10, <2>1 DEF Tick
<1>11. CASE UNCHANGED vars
  BY <1>11 DEF vars
<1> QED
  BY <1>2, <1>7, <1>8, <1>9, <1>10, <1>11 DEF Next

\* The initial state has its type.
LEMMA InitTyped == Init => TypeOK
<1>1. Init => row \in BOOLEAN
  BY DEF Init
<1>2. Init => left \in [Keys -> 0..1] /\ quiet \in 0..3 /\ req \in [Requests -> Request]
  BY IdleTyped DEF Init
<1>3. Init => entry \in [Keys -> Copy \cup {Nothing}]
  BY DEF Init
<1> QED
  BY <1>1, <1>2, <1>3 DEF TypeOK

\* The cached user has its type in every reachable state.
THEOREM TypeCorrect == Spec => []TypeOK
  BY InitTyped, TypeStep, PTL DEF Spec

\* Every step keeps the bounds on how far copies are behind.
LEMMA CopiesStep ==
  TypeOK /\ HeldCopies /\ StoredCopies /\ [Next]_vars
    => HeldCopies' /\ StoredCopies'
<1> SUFFICES ASSUME TypeOK, HeldCopies, StoredCopies, [Next]_vars
             PROVE  HeldCopies' /\ StoredCopies'
  OBVIOUS
<1>1. /\ req \in [Requests -> Request] /\ entry \in [Keys -> Copy \cup {Nothing}]
      /\ left \in [Keys -> 0..1] /\ quiet \in 0..3
  BY DEF TypeOK
<1>2. UpToDate(Accurate) /\ UpToDate(Nothing)
  BY DEF UpToDate
<1>3. ASSUME quiet' = 0 PROVE HeldCopies' /\ StoredCopies'
  BY <1>3 DEF HeldCopies, HeldCopy, StoredCopies
<1>4. ASSUME NEW r \in Requests, NEW pc, NEW user, Resume(r, pc, user),
             UpToDate(user) \/ user = req[r].user, quiet' = quiet
      PROVE  HeldCopies'
  <2>1. req[r].old \in BOOLEAN /\ req[r] \in Request
    BY <1>1 DEF Request
  <2>2. req'[r].user = user /\ req'[r].old = req[r].old
    BY <1>1, <1>4, <2>1 DEF Resume, Request
  <2>3. \A q \in Requests \ {r} : req'[q] = req[q]
    BY <1>1, <1>4 DEF Resume
  <2>4. HeldCopy(r)'
    BY <1>4, <2>2 DEF HeldCopies, HeldCopy
  <2>5. \A q \in Requests \ {r} : HeldCopy(q)'
    BY <1>4, <2>3 DEF HeldCopies, HeldCopy
  <2> QED
    BY <2>4, <2>5 DEF HeldCopies
<1>5. ASSUME NEW r \in Requests, NEW pc, Goto(r, pc), quiet' = quiet PROVE HeldCopies'
  BY <1>4, <1>5 DEF Goto
<1>6. ASSUME NEW r \in Requests, Return(r), quiet' = quiet PROVE HeldCopies'
  BY <1>1, <1>6, IdleTyped DEF HeldCopies, HeldCopy, Return
<1>7. ASSUME UNCHANGED <<entry, left, quiet>> PROVE StoredCopies'
  BY <1>7 DEF StoredCopies
<1>8. ASSUME NEW k \in Keys, entry' = [entry EXCEPT ![k] = Nothing], UNCHANGED <<left, quiet>>
      PROVE  StoredCopies'
  BY <1>1, <1>2, <1>8 DEF StoredCopies
<1>9. ASSUME NEW r \in Requests, NEW k \in Keys, Put(k, req[r].user), quiet' = quiet
      PROVE  StoredCopies'
  <2>1. UpToDate(req[r].user) \/ quiet \in {0, 1}
    BY DEF HeldCopies, HeldCopy
  <2> QED
    BY <1>1, <1>9, <2>1 DEF StoredCopies, Put
<1>10. ASSUME NEW r \in Requests, Arrive(r) PROVE HeldCopies' /\ StoredCopies'
  <2>1. ASSUME NEW op, NEW pc, Start(r, op, pc) PROVE HeldCopies' /\ StoredCopies'
    <3>1. UNCHANGED <<entry, left, quiet>>
      BY <2>1 DEF Start
    <3>2. HeldCopies'
      <4>1. [Idle EXCEPT !.op = op, !.pc = pc].user = Nothing
        BY DEF Idle
      <4> QED
        BY <1>1, <1>2, <2>1, <3>1, <4>1 DEF Start, HeldCopies, HeldCopy
    <3> QED
      BY <1>7, <3>1, <3>2
  <2> QED
    BY <1>10, <2>1 DEF Arrive, StartRegister, StartRead, StartWrite
<1>11. ASSUME NEW r \in Requests, Step(r) PROVE HeldCopies' /\ StoredCopies'
  <2>1. CASE Insert(r)
    <3>1. CASE row
      BY <1>6, <1>7, <2>1, <3>1 DEF Insert
    <3>2. CASE ~ row
      BY <1>3, <2>1, <3>2 DEF Insert
    <3> QED
      BY <3>1, <3>2
  <2>2. CASE Lookup(r)
    \* Only a refresh takes over what it found.
    <3>1. quiet' = 0 \/ ((Goto(r, "fetch") \/ Return(r)) /\ quiet' = quiet)
      BY <2>2 DEF Lookup
    <3>2. UNCHANGED <<entry, left>>
      BY <2>2 DEF Lookup
    <3> QED
      BY <1>3, <1>5, <1>6, <1>7, <3>1, <3>2
  <2>3. CASE Fetch(r)
    <3>1. Resume(r, "setId", Accurate) \/ Return(r)
      BY <2>3 DEF Fetch
    <3>2. UNCHANGED <<entry, left, quiet>>
      BY <2>3 DEF Fetch
    <3> QED
      BY <1>2, <1>4, <1>6, <1>7, <3>1, <3>2
  <2>4. CASE SetId(r)
    BY <1>5, <1>9, <2>4 DEF SetId, Keys
  <2>5. CASE SetEmail(r)
    BY <1>6, <1>9, <2>5 DEF SetEmail, Keys
  <2>6. CASE Find(r)
    <3>1. (Goto(r, "write") \/ Return(r)) /\ UNCHANGED <<entry, left, quiet>>
      BY <2>6 DEF Find
    <3> QED
      BY <1>5, <1>6, <1>7, <3>1
  <2>7. CASE Write(r)
    BY <1>3, <2>7 DEF Write
  <2>8. CASE WriteNothing(r)
    BY <1>5, <1>7, <2>8 DEF WriteNothing
  <2>9. CASE DelId(r)
    <3>1. /\ Goto(r, "delEmail") \/ Return(r)
          /\ entry' = [entry EXCEPT !["id"] = Nothing] /\ UNCHANGED <<left, quiet>>
      BY <2>9 DEF DelId
    <3> QED
      BY <1>5, <1>6, <1>8, <3>1 DEF Keys
  <2>10. CASE DelEmail(r)
    BY <1>6, <1>8, <2>10 DEF DelEmail, Keys
  <2> QED
    BY <1>11, <2>1, <2>2, <2>3, <2>4, <2>5, <2>6, <2>7, <2>8, <2>9, <2>10 DEF Step
<1>12. ASSUME NEW r \in Requests, Abort(r) PROVE HeldCopies' /\ StoredCopies'
  BY <1>6, <1>7, <1>12 DEF Abort
<1>13. ASSUME NEW k \in Keys, Expire(k) PROVE HeldCopies' /\ StoredCopies'
  BY <1>8, <1>13 DEF Expire, HeldCopies, HeldCopy
<1>14. CASE Tick
  <2>1. HeldCopies'
    <3> SUFFICES ASSUME NEW r \in Requests PROVE HeldCopy(r)'
      BY DEF HeldCopies
    <3>1. req[r] \in Request /\ ~ req[r].old
      BY <1>1, <1>14 DEF Tick
    <3>2. req'[r].user = req[r].user /\ req'[r].old = (req[r] # Idle)
      BY <1>14, <3>1 DEF Tick, Request
    <3>3. CASE UpToDate(req[r].user)
      BY <3>2, <3>3 DEF HeldCopy
    <3>4. CASE ~ UpToDate(req[r].user)
      <4>1. quiet = 0 /\ req[r] # Idle
        BY <3>1, <3>4, IdleTyped DEF HeldCopies, HeldCopy
      <4>2. quiet' = 1
        BY <1>14, <4>1 DEF Tick
      <4>3. req'[r].old
        BY <3>2, <4>1, Zenon
      <4> QED
        BY <4>2, <4>3 DEF HeldCopy
    <3> QED
      BY <3>3, <3>4
  \* What outlives the tick was filled after the tick before.
  <2>2. ASSUME NEW k \in Keys
        PROVE  \/ UpToDate(entry'[k]) \/ quiet' \in {0, 1} \/ (quiet' = 2 /\ left'[k] = 0)
    <3>1. entry[k] = Nothing \/ left[k] = 1
      BY <1>14 DEF Tick
    <3>2. UpToDate(entry[k]) \/ quiet \in {0, 1}
      BY <1>1, <1>2, <3>1 DEF StoredCopies
    <3> QED
      BY <1>14, <3>2 DEF Tick
  <2> QED
    BY <2>1, <2>2 DEF StoredCopies
<1>15. CASE UNCHANGED vars
  BY <1>7, <1>15 DEF vars, HeldCopies, HeldCopy
<1> QED
  BY <1>10, <1>11, <1>12, <1>13, <1>14, <1>15 DEF Next

\* Stale copies are gone three ticks after the last write, and the last refresh that
\* took one over: whatever else interleaves, fails or is never invalidated.
THEOREM StalenessBounded == Spec => []StaleAtMostTTL
<1> DEFINE Inv == TypeOK /\ HeldCopies /\ StoredCopies
<1>1. Init => TypeOK
  BY InitTyped
<1>2. Init => HeldCopies /\ StoredCopies
  BY IdleTyped DEF Init, HeldCopies, HeldCopy, StoredCopies, UpToDate
<1>3. Inv /\ [Next]_vars => Inv'
  BY TypeStep, CopiesStep
<1>4. Inv => StaleAtMostTTL
  BY DEF StoredCopies, StaleAtMostTTL, UpToDate
<1> QED
  BY <1>1, <1>2, <1>3, <1>4, PTL DEF Spec

=============================================================================
