--------------------------- MODULE SessionsProofs ---------------------------
(***************************************************************************)
(* Theorems about the session store, for every set of users, sessions and  *)
(* requests, every tier limit, and every choice of Ops and Events unless   *)
(* a theorem restricts it.                                                 *)
(***************************************************************************)
EXTENDS SessionsProps, TLAPS

\* What the type invariant says of one request.
LEMMA RequestFields ==
    ASSUME TypeOK, NEW r \in Requests
    PROVE  /\ req \in [Requests -> Request]
           /\ req[r].op \in AllOps \cup {"none"}
           /\ req[r].pc \in Steps
           /\ req[r].u \in Users \cup {NoUser}
           /\ req[r].s \in SessionIds \cup {NoSession}
           /\ req[r].todo \subseteq SessionIds
  BY DEF TypeOK, Request

\* The ways a handler moves on keep its slot a request.
LEMMA ControlTypes ==
    ASSUME TypeOK, NEW r \in Requests
    PROVE  /\ \A pc \in Steps, u \in Users \cup {NoUser},
                 s \in SessionIds \cup {NoSession}, todo \in SUBSET SessionIds :
                Resume(r, pc, u, s, todo) => req' \in [Requests -> Request]
           /\ \A pc \in Steps : Goto(r, pc) => req' \in [Requests -> Request]
           /\ Return(r) => req' \in [Requests -> Request]
           /\ \A op \in Ops, pc \in Steps, u \in Users \cup {NoUser},
                 s \in SessionIds \cup {NoSession} :
                Start(r, op, pc, u, s) => req' \in [Requests -> Request]
<1>0. ASSUME NEW pc \in Steps, NEW u \in Users \cup {NoUser},
             NEW s \in SessionIds \cup {NoSession}, NEW todo \in SUBSET SessionIds,
             Resume(r, pc, u, s, todo)
      PROVE  req' \in [Requests -> Request]
  <2>1. [op |-> req[r].op, pc |-> pc, u |-> u, s |-> s, todo |-> todo] \in Request
    BY RequestFields DEF Request
  <2> QED
    BY <1>0, <2>1 DEF Resume, TypeOK
<1>1. \A pc \in Steps : Goto(r, pc) => req' \in [Requests -> Request]
  BY <1>0, RequestFields DEF Goto
<1>2. Return(r) => req' \in [Requests -> Request]
  BY DEF Return, Idle, TypeOK, Request, Steps
<1>3. ASSUME NEW op \in Ops, NEW pc \in Steps, NEW u \in Users \cup {NoUser},
             NEW s \in SessionIds \cup {NoSession}, Start(r, op, pc, u, s)
      PROVE  req' \in [Requests -> Request]
  <2>1. [op |-> op, pc |-> pc, u |-> u, s |-> s, todo |-> {}] \in Request
    BY SessionsAssumption DEF Request
  <2> QED
    BY <1>3, <2>1 DEF Start, TypeOK
<1> QED
  BY <1>0, <1>1, <1>2, <1>3

\* Every step preserves the types.  StoreMember needs to know that a request
\* which stores a session has one: types alone are not inductive.
LEMMA TypeStep ==
    TypeOK /\ (\A r \in Requests : RequestOwners(r)) /\ [Next]_vars => TypeOK'
<1> SUFFICES ASSUME TypeOK, \A r \in Requests : RequestOwners(r), [Next]_vars
             PROVE  TypeOK'
  OBVIOUS
<1>2. TypeOK'
  <2> USE DEF TypeOK, store
  <2>1. ASSUME NEW r \in Requests, Arrive(r) PROVE TypeOK'
    <3>1. \A op, pc, u, s : Start(r, op, pc, u, s) => op \in Ops /\ UNCHANGED store
      BY DEF Start
    <3>2. UNCHANGED store
      BY <2>1, <3>1 DEF Arrive, StartLogin, StartRevokeAll, StartResetPassword,
          StartRefresh, StartLogout, StartChangePassword, StartRevoke
    <3>3. \A s \in SessionIds : owner[s] \in Users \cup {NoUser}
      OBVIOUS
    <3>4. \A op \in Ops, pc \in Steps, u \in Users \cup {NoUser},
              s \in SessionIds \cup {NoSession} :
            Start(r, op, pc, u, s) => req' \in [Requests -> Request]
      BY ControlTypes
    <3>5. req' \in [Requests -> Request]
      BY <2>1, <3>1, <3>3, <3>4 DEF Arrive, StartLogin, StartRevokeAll, StartResetPassword,
          StartRefresh, StartLogout, StartChangePassword, StartRevoke, Steps
    <3> QED
      BY <3>2, <3>5
  <2>2. ASSUME NEW r \in Requests, Step(r) PROVE TypeOK'
    <3>1. CASE CountCached(r) \/ CountRows(r)
      BY <3>1, RequestFields, ControlTypes DEF CountCached, CountRows, Steps
    <3>2. CASE CreateRow(r)
      <4>1. PICK s \in SessionIds :
                /\ owner' = [owner EXCEPT ![s] = req[r].u]
                /\ row' = [row EXCEPT ![s] = req[r].u]
                /\ Resume(r, "storeKey", req[r].u, s, {})
        BY <3>2 DEF CreateRow
      <4>2. req' \in [Requests -> Request]
        BY <4>1, RequestFields, ControlTypes DEF Steps
      <4> QED
        BY <3>2, <4>1, <4>2, RequestFields DEF CreateRow
    <3>3. CASE StoreKey(r)
      BY <3>3, RequestFields, ControlTypes DEF StoreKey, Steps
    <3>4. CASE StoreMember(r)
      <4>1. req[r].s \in SessionIds
        BY <3>4 DEF StoreMember, At, RequestOwners
      <4> QED
        BY <3>4, <4>1, RequestFields, ControlTypes DEF StoreMember
    <3>5. CASE LookupKey(r)
      <4>1. req[r].s \in SessionIds
        BY <3>5 DEF LookupKey, At, RequestOwners
      <4> QED
        <5>1. PICK pc \in {"lookupRow", "deleteRow"} :
                Resume(r, pc, key[req[r].s], req[r].s, {})
          BY <3>5 DEF LookupKey
        <5>2. key[req[r].s] \in Users \cup {NoUser}
          BY <4>1
        <5>3. pc \in Steps /\ {} \in SUBSET SessionIds
          BY <5>1 DEF Steps
        <5>4. req' \in [Requests -> Request]
          BY ONLY <4>1, <5>1, <5>2, <5>3, TypeOK, ControlTypes
        <5> QED
          BY <3>5, <5>4 DEF LookupKey
    <3>6. CASE LookupRow(r)
      <4>1. req[r].s \in SessionIds
        BY <3>6 DEF LookupRow, At, RequestOwners
      <4> QED
        BY <3>6, <4>1, RequestFields, ControlTypes DEF LookupRow, Steps
    <3>7. CASE DeleteRow(r)
      BY <3>7, RequestFields, ControlTypes DEF DeleteRow, Steps
    <3>8. CASE DropKey(r)
      BY <3>8, RequestFields, ControlTypes DEF DropKey, Steps
    <3>9. CASE DropMember(r)
      BY <3>9, RequestFields, ControlTypes DEF DropMember, Steps
    <3>10. CASE DeleteUserRows(r)
      BY <3>10, RequestFields, ControlTypes DEF DeleteUserRows, Steps
    <3>11. CASE ReadMembers(r)
      <4>1. req[r].u \in Users
        BY <3>11 DEF ReadMembers, At, RequestOwners, UserKnown
      <4>2. req' \in [Requests -> Request]
        BY <3>11, <4>1, RequestFields, ControlTypes DEF ReadMembers, Steps
      <4> QED
        BY <3>11, <4>2 DEF ReadMembers
    <3>12. CASE DropOneKey(r)
      <4>1. PICK s \in req[r].todo :
                /\ key' = [key EXCEPT ![s] = NoUser]
                /\ LET left == req[r].todo \ {s}
                       next == IF left = {} THEN "dropSet" ELSE "dropKeys"
                   IN  Resume(r, next, req[r].u, req[r].s, left)
        BY <3>12 DEF DropOneKey
      <4>2. req' \in [Requests -> Request]
        <5>1. PICK pc \in {"dropSet", "dropKeys"}, todo \in SUBSET SessionIds :
                Resume(r, pc, req[r].u, req[r].s, todo)
          BY <4>1, RequestFields
        <5>2. pc \in Steps
          BY DEF Steps
        <5> QED
          BY ONLY <5>1, <5>2, TypeOK, RequestFields, ControlTypes
      <4> QED
        BY <3>12, <4>1, <4>2, RequestFields DEF DropOneKey
    <3>13. CASE DropSet(r)
      BY <3>13, RequestFields, ControlTypes DEF DropSet, Steps
    <3> QED
      BY <2>2, <3>1, <3>2, <3>3, <3>4, <3>5, <3>6, <3>7, <3>8, <3>9,
         <3>10, <3>11, <3>12, <3>13 DEF Step
  <2>3. ASSUME NEW r \in Requests, Abort(r) PROVE TypeOK'
    BY <2>3, ControlTypes DEF Abort
  <2>4. ASSUME NEW s \in SessionIds, Age(s) \/ ExpireKey(s) PROVE TypeOK'
    BY <2>4 DEF Age, ExpireKey
  <2>5. ASSUME CleanUp PROVE TypeOK'
    BY <2>5 DEF CleanUp
  <2>6. CASE UNCHANGED vars
    BY <2>6 DEF vars
  <2> QED
    BY <2>1, <2>2, <2>3, <2>4, <2>5, <2>6 DEF Next
<1> QED
  BY <1>2
-----------------------------------------------------------------------------
\* Whatever a request does, its slot alone changes.
LEMMA OtherRequests ==
    ASSUME TypeOK, NEW r \in Requests, NEW q \in Requests \ {r}
    PROVE  /\ \A pc, u, s, todo : Resume(r, pc, u, s, todo) => req'[q] = req[q]
           /\ \A pc : Goto(r, pc) => req'[q] = req[q]
           /\ Return(r) => req'[q] = req[q]
           /\ \A op, pc, u, s : Start(r, op, pc, u, s) => req'[q] = req[q]
  BY DEF TypeOK, Resume, Goto, Return, Start

\* What the slot holds afterwards.
LEMMA OwnRequest ==
    ASSUME TypeOK, NEW r \in Requests
    PROVE  /\ \A pc, u, s, todo : Resume(r, pc, u, s, todo) =>
                /\ req'[r].op = req[r].op /\ req'[r].pc = pc /\ req'[r].u = u
                /\ req'[r].s = s /\ req'[r].todo = todo
           /\ \A pc : Goto(r, pc) =>
                /\ req'[r].op = req[r].op /\ req'[r].pc = pc /\ req'[r].u = req[r].u
                /\ req'[r].s = req[r].s /\ req'[r].todo = req[r].todo
           /\ Return(r) => req'[r] = Idle
           /\ \A op, pc, u, s : Start(r, op, pc, u, s) =>
                /\ req'[r].op = op /\ req'[r].pc = pc /\ req'[r].u = u
                /\ req'[r].s = s /\ req'[r].todo = {}
  BY DEF TypeOK, Resume, Goto, Return, Start

\* A request that does not move keeps its owners while sessions are only added.
LEMMA OwnersFrame ==
    ASSUME NEW q \in Requests, req'[q] = req[q], RequestOwners(q), TypeOK,
           \A s \in SessionIds : owner[s] # NoUser => owner'[s] = owner[s]
    PROVE  RequestOwners(q)'
  BY RequestFields, SessionsAssumption DEF RequestOwners

\* An idle slot owes nothing.
LEMMA IdleOwners ==
    ASSUME NEW r \in Requests, req'[r] = Idle
    PROVE  RequestOwners(r)'
  BY DEF RequestOwners, Idle, UserKnown

\* It suffices to look at the request that moves, and at the stored copies.
LEMMA OwnersByRequest ==
    ASSUME TypeOK, OwnersAgree, NEW r \in Requests,
           \A q \in Requests \ {r} : req'[q] = req[q],
           \A s \in SessionIds : owner[s] # NoUser => owner'[s] = owner[s],
           RequestOwners(r)', StoredOwners'
    PROVE  OwnersAgree'
<1>1. \A q \in Requests \ {r} : RequestOwners(q)'
  BY OwnersFrame DEF OwnersAgree
<1> QED
  BY <1>1 DEF OwnersAgree

\* Every step preserves the agreement of the owners.
LEMMA OwnersStep ==
    TypeOK /\ OwnersAgree /\ [Next]_vars => OwnersAgree'
<1> SUFFICES ASSUME TypeOK, OwnersAgree, [Next]_vars
             PROVE  OwnersAgree'
  OBVIOUS
<1>1. ASSUME NEW r \in Requests, Arrive(r) PROVE OwnersAgree'
  <2>1. UNCHANGED store
    BY <1>1 DEF Arrive, Start, StartLogin, StartRevokeAll, StartResetPassword,
        StartRefresh, StartLogout, StartChangePassword, StartRevoke
  <2>2. \A q \in Requests \ {r} : req'[q] = req[q]
    BY <1>1, OtherRequests DEF Arrive, StartLogin, StartRevokeAll, StartResetPassword,
        StartRefresh, StartLogout, StartChangePassword, StartRevoke
  <2>3. RequestOwners(r)'
    <3>1. CASE \E u \in Users : StartLogin(r, u) \/ StartRevokeAll(r, u)
                                  \/ StartResetPassword(r, u)
      BY <2>1, <3>1, OwnRequest DEF StartLogin, StartRevokeAll, StartResetPassword,
          RequestOwners, UserKnown, store
    <3>2. CASE \E s \in SessionIds : StartRefresh(r, s) \/ StartLogout(r, s)
      BY <2>1, <3>2, OwnRequest DEF StartRefresh, StartLogout,
          RequestOwners, UserKnown, store
    <3>3. CASE \E s \in SessionIds : StartChangePassword(r, s)
      BY <2>1, <3>3, OwnRequest, SessionsAssumption DEF StartChangePassword, RequestOwners,
          UserKnown, store, OwnersAgree, StoredOwners, TypeOK
    <3>4. CASE \E u \in Users, s \in SessionIds : StartRevoke(r, u, s)
      BY <2>1, <3>4, OwnRequest DEF StartRevoke, RequestOwners, UserKnown, store
    <3> QED
      BY <1>1, <3>1, <3>2, <3>3, <3>4 DEF Arrive
  <2>4. StoredOwners'
    BY <2>1 DEF OwnersAgree, StoredOwners, store
  <2> QED
    BY <2>1, <2>2, <2>3, <2>4, OwnersByRequest DEF store
<1>2. ASSUME NEW r \in Requests, Step(r) PROVE OwnersAgree'
  <2>1. RequestOwners(r) /\ StoredOwners
    BY DEF OwnersAgree
  <2>2. OwnersAgree'
    <3>1. CASE CountCached(r)
      <4>1. RequestOwners(r)'
        BY <3>1, <2>1, OwnRequest, RequestFields, SessionsAssumption
        DEF CountCached, At, Idle, store, TypeOK, StoredOwners, RequestOwners, UserKnown
      <4>2. StoredOwners'
        BY <3>1, <2>1, RequestFields, SessionsAssumption
        DEF CountCached, At, store, TypeOK, StoredOwners, RequestOwners, UserKnown
      <4>3. \A q \in Requests \ {r} : req'[q] = req[q]
        BY <3>1, OtherRequests DEF CountCached
      <4>4. \A s \in SessionIds : owner[s] # NoUser => owner'[s] = owner[s]
        BY <3>1 DEF CountCached, store, TypeOK
      <4> QED
        BY <4>1, <4>2, <4>3, <4>4, OwnersByRequest
    <3>2. CASE CountRows(r)
      <4>1. RequestOwners(r)'
        BY <3>2, <2>1, OwnRequest, RequestFields, SessionsAssumption
        DEF CountRows, At, Idle, store, TypeOK, StoredOwners, RequestOwners, UserKnown
      <4>2. StoredOwners'
        BY <3>2, <2>1, RequestFields, SessionsAssumption
        DEF CountRows, At, store, TypeOK, StoredOwners, RequestOwners, UserKnown
      <4>3. \A q \in Requests \ {r} : req'[q] = req[q]
        BY <3>2, OtherRequests DEF CountRows
      <4>4. \A s \in SessionIds : owner[s] # NoUser => owner'[s] = owner[s]
        BY <3>2 DEF CountRows, store, TypeOK
      <4> QED
        BY <4>1, <4>2, <4>3, <4>4, OwnersByRequest
    <3>3. CASE CreateRow(r)
      <4>1. RequestOwners(r)'
        BY <3>3, <2>1, OwnRequest, RequestFields, SessionsAssumption
        DEF CreateRow, At, Idle, store, TypeOK, StoredOwners, RequestOwners, UserKnown
      <4>2. StoredOwners'
        BY <3>3, <2>1, RequestFields, SessionsAssumption
        DEF CreateRow, At, store, TypeOK, StoredOwners, RequestOwners, UserKnown
      <4>3. \A q \in Requests \ {r} : req'[q] = req[q]
        BY <3>3, OtherRequests DEF CreateRow
      <4>4. \A s \in SessionIds : owner[s] # NoUser => owner'[s] = owner[s]
        BY <3>3 DEF CreateRow, store, TypeOK
      <4> QED
        BY <4>1, <4>2, <4>3, <4>4, OwnersByRequest
    <3>4. CASE StoreKey(r)
      <4>1. RequestOwners(r)'
        BY <3>4, <2>1, OwnRequest, RequestFields, SessionsAssumption
        DEF StoreKey, At, Idle, store, TypeOK, StoredOwners, RequestOwners, UserKnown
      <4>2. StoredOwners'
        BY <3>4, <2>1, RequestFields, SessionsAssumption
        DEF StoreKey, At, store, TypeOK, StoredOwners, RequestOwners, UserKnown
      <4>3. \A q \in Requests \ {r} : req'[q] = req[q]
        BY <3>4, OtherRequests DEF StoreKey
      <4>4. \A s \in SessionIds : owner[s] # NoUser => owner'[s] = owner[s]
        BY <3>4 DEF StoreKey, store, TypeOK
      <4> QED
        BY <4>1, <4>2, <4>3, <4>4, OwnersByRequest
    <3>5. CASE StoreMember(r)
      <4>1. RequestOwners(r)'
        BY <3>5, <2>1, OwnRequest, RequestFields, SessionsAssumption
        DEF StoreMember, At, Idle, store, TypeOK, StoredOwners, RequestOwners, UserKnown
      <4>2. StoredOwners'
        BY <3>5, <2>1, RequestFields, SessionsAssumption
        DEF StoreMember, At, store, TypeOK, StoredOwners, RequestOwners, UserKnown
      <4>3. \A q \in Requests \ {r} : req'[q] = req[q]
        BY <3>5, OtherRequests DEF StoreMember
      <4>4. \A s \in SessionIds : owner[s] # NoUser => owner'[s] = owner[s]
        BY <3>5 DEF StoreMember, store, TypeOK
      <4> QED
        BY <4>1, <4>2, <4>3, <4>4, OwnersByRequest
    <3>6. CASE LookupKey(r)
      <4>1. RequestOwners(r)'
        BY <3>6, <2>1, OwnRequest, RequestFields, SessionsAssumption
        DEF LookupKey, At, Idle, store, TypeOK, StoredOwners, RequestOwners, UserKnown
      <4>2. StoredOwners'
        BY <3>6, <2>1, RequestFields, SessionsAssumption
        DEF LookupKey, At, store, TypeOK, StoredOwners, RequestOwners, UserKnown
      <4>3. \A q \in Requests \ {r} : req'[q] = req[q]
        BY <3>6, OtherRequests DEF LookupKey
      <4>4. \A s \in SessionIds : owner[s] # NoUser => owner'[s] = owner[s]
        BY <3>6 DEF LookupKey, store, TypeOK
      <4> QED
        BY <4>1, <4>2, <4>3, <4>4, OwnersByRequest
    <3>7. CASE LookupRow(r)
      <4>1. RequestOwners(r)'
        BY <3>7, <2>1, OwnRequest, RequestFields, SessionsAssumption
        DEF LookupRow, At, Idle, store, TypeOK, StoredOwners, RequestOwners, UserKnown
      <4>2. StoredOwners'
        BY <3>7, <2>1, RequestFields, SessionsAssumption
        DEF LookupRow, At, store, TypeOK, StoredOwners, RequestOwners, UserKnown
      <4>3. \A q \in Requests \ {r} : req'[q] = req[q]
        BY <3>7, OtherRequests DEF LookupRow
      <4>4. \A s \in SessionIds : owner[s] # NoUser => owner'[s] = owner[s]
        BY <3>7 DEF LookupRow, store, TypeOK
      <4> QED
        BY <4>1, <4>2, <4>3, <4>4, OwnersByRequest
    <3>8. CASE DeleteRow(r)
      <4>1. RequestOwners(r)'
        BY <3>8, <2>1, OwnRequest, RequestFields, SessionsAssumption
        DEF DeleteRow, At, Idle, store, TypeOK, StoredOwners, RequestOwners, UserKnown
      <4>2. StoredOwners'
        BY <3>8, <2>1, RequestFields, SessionsAssumption
        DEF DeleteRow, At, store, TypeOK, StoredOwners, RequestOwners, UserKnown
      <4>3. \A q \in Requests \ {r} : req'[q] = req[q]
        BY <3>8, OtherRequests DEF DeleteRow
      <4>4. \A s \in SessionIds : owner[s] # NoUser => owner'[s] = owner[s]
        BY <3>8 DEF DeleteRow, store, TypeOK
      <4> QED
        BY <4>1, <4>2, <4>3, <4>4, OwnersByRequest
    <3>9. CASE DropKey(r)
      <4>1. RequestOwners(r)'
        BY <3>9, <2>1, OwnRequest, RequestFields, SessionsAssumption
        DEF DropKey, At, Idle, store, TypeOK, StoredOwners, RequestOwners, UserKnown
      <4>2. StoredOwners'
        BY <3>9, <2>1, RequestFields, SessionsAssumption
        DEF DropKey, At, store, TypeOK, StoredOwners, RequestOwners, UserKnown
      <4>3. \A q \in Requests \ {r} : req'[q] = req[q]
        BY <3>9, OtherRequests DEF DropKey
      <4>4. \A s \in SessionIds : owner[s] # NoUser => owner'[s] = owner[s]
        BY <3>9 DEF DropKey, store, TypeOK
      <4> QED
        BY <4>1, <4>2, <4>3, <4>4, OwnersByRequest
    <3>10. CASE DropMember(r)
      <4>1. RequestOwners(r)'
        BY <3>10, <2>1, OwnRequest, RequestFields, SessionsAssumption
        DEF DropMember, At, Idle, store, TypeOK, StoredOwners, RequestOwners, UserKnown
      <4>2. StoredOwners'
        BY <3>10, <2>1, RequestFields, SessionsAssumption
        DEF DropMember, At, store, TypeOK, StoredOwners, RequestOwners, UserKnown
      <4>3. \A q \in Requests \ {r} : req'[q] = req[q]
        BY <3>10, OtherRequests DEF DropMember
      <4>4. \A s \in SessionIds : owner[s] # NoUser => owner'[s] = owner[s]
        BY <3>10 DEF DropMember, store, TypeOK
      <4> QED
        BY <4>1, <4>2, <4>3, <4>4, OwnersByRequest
    <3>11. CASE DeleteUserRows(r)
      <4>1. RequestOwners(r)'
        BY <3>11, <2>1, OwnRequest, RequestFields, SessionsAssumption
        DEF DeleteUserRows, At, Idle, store, TypeOK, StoredOwners, RequestOwners, UserKnown
      <4>2. StoredOwners'
        BY <3>11, <2>1, RequestFields, SessionsAssumption
        DEF DeleteUserRows, At, store, TypeOK, StoredOwners, RequestOwners, UserKnown
      <4>3. \A q \in Requests \ {r} : req'[q] = req[q]
        BY <3>11, OtherRequests DEF DeleteUserRows
      <4>4. \A s \in SessionIds : owner[s] # NoUser => owner'[s] = owner[s]
        BY <3>11 DEF DeleteUserRows, store, TypeOK
      <4> QED
        BY <4>1, <4>2, <4>3, <4>4, OwnersByRequest
    <3>12. CASE ReadMembers(r)
      <4>1. RequestOwners(r)'
        BY <3>12, <2>1, OwnRequest, RequestFields, SessionsAssumption
        DEF ReadMembers, At, Idle, store, TypeOK, StoredOwners, RequestOwners, UserKnown
      <4>2. StoredOwners'
        BY <3>12, <2>1, RequestFields, SessionsAssumption
        DEF ReadMembers, At, store, TypeOK, StoredOwners, RequestOwners, UserKnown
      <4>3. \A q \in Requests \ {r} : req'[q] = req[q]
        BY <3>12, OtherRequests DEF ReadMembers
      <4>4. \A s \in SessionIds : owner[s] # NoUser => owner'[s] = owner[s]
        BY <3>12 DEF ReadMembers, store, TypeOK
      <4> QED
        BY <4>1, <4>2, <4>3, <4>4, OwnersByRequest
    <3>13. CASE DropOneKey(r)
      <4>1. RequestOwners(r)'
        BY <3>13, <2>1, OwnRequest, RequestFields, SessionsAssumption
        DEF DropOneKey, At, Idle, store, TypeOK, StoredOwners, RequestOwners, UserKnown
      <4>2. StoredOwners'
        BY <3>13, <2>1, RequestFields, SessionsAssumption
        DEF DropOneKey, At, store, TypeOK, StoredOwners, RequestOwners, UserKnown
      <4>3. \A q \in Requests \ {r} : req'[q] = req[q]
        BY <3>13, OtherRequests DEF DropOneKey
      <4>4. \A s \in SessionIds : owner[s] # NoUser => owner'[s] = owner[s]
        BY <3>13 DEF DropOneKey, store, TypeOK
      <4> QED
        BY <4>1, <4>2, <4>3, <4>4, OwnersByRequest
    <3>14. CASE DropSet(r)
      <4>1. RequestOwners(r)'
        BY <3>14, <2>1, OwnRequest, RequestFields, SessionsAssumption
        DEF DropSet, At, Idle, store, TypeOK, StoredOwners, RequestOwners, UserKnown
      <4>2. StoredOwners'
        BY <3>14, <2>1, RequestFields, SessionsAssumption
        DEF DropSet, At, store, TypeOK, StoredOwners, RequestOwners, UserKnown
      <4>3. \A q \in Requests \ {r} : req'[q] = req[q]
        BY <3>14, OtherRequests DEF DropSet
      <4>4. \A s \in SessionIds : owner[s] # NoUser => owner'[s] = owner[s]
        BY <3>14 DEF DropSet, store, TypeOK
      <4> QED
        BY <4>1, <4>2, <4>3, <4>4, OwnersByRequest
    <3> QED
      BY <1>2, <3>1, <3>2, <3>3, <3>4, <3>5, <3>6, <3>7,
         <3>8, <3>9, <3>10, <3>11, <3>12, <3>13, <3>14 DEF Step
  <2> QED
    BY <2>2
<1>3. ASSUME NEW r \in Requests, Abort(r) PROVE OwnersAgree'
  <2>1. \A q \in Requests \ {r} : req'[q] = req[q]
    BY <1>3, OtherRequests DEF Abort
  <2>2. RequestOwners(r)'
    BY <1>3, OwnRequest, IdleOwners DEF Abort
  <2>3. StoredOwners'
    BY <1>3 DEF Abort, OwnersAgree, StoredOwners, store
  <2> QED
    BY <1>3, <2>1, <2>2, <2>3, OwnersByRequest DEF Abort, store
<1>4. ASSUME req' = req, owner' = owner, delivered' = delivered, members' = members,
             \A s \in SessionIds : row'[s] \in {row[s], NoUser} /\ key'[s] \in {key[s], NoUser}
      PROVE  OwnersAgree'
  BY <1>4 DEF OwnersAgree, StoredOwners, RequestOwners
<1>5. ASSUME NEW s \in SessionIds, Age(s) \/ ExpireKey(s) PROVE OwnersAgree'
  BY <1>4, <1>5 DEF Age, ExpireKey, TypeOK
<1>6. CASE CleanUp
  BY <1>4, <1>6 DEF CleanUp, TypeOK
<1>7. CASE UNCHANGED vars
  BY <1>4, <1>7 DEF vars
<1> QED
  BY <1>1, <1>2, <1>3, <1>5, <1>6, <1>7 DEF Next

-----------------------------------------------------------------------------
Inv == TypeOK /\ OwnersAgree

\* Types and owners together are inductive.
THEOREM Invariance == Spec => []Inv
<1>1. Init => Inv
  BY SessionsAssumption DEF Init, Inv, TypeOK, OwnersAgree, StoredOwners, RequestOwners,
      UserKnown, Idle, Request, Steps
<1>2. Inv /\ [Next]_vars => Inv'
  BY TypeStep, OwnersStep DEF Inv, OwnersAgree
<1> QED
  BY <1>1, <1>2, PTL DEF Spec

\* Every variable keeps its type.
THEOREM TypeCorrect == Spec => []TypeOK
  BY Invariance, PTL DEF Inv

\* The copies of a session, in the table, in Redis and in the handlers' local
\* variables, never disagree about its owner.
THEOREM OwnersCorrect == Spec => []OwnersAgree
  BY Invariance, PTL DEF Inv

-----------------------------------------------------------------------------
\* Each step of the store opens, closes, ages or purges ledger entries, or
\* leaves the ledger as it is.
LEMMA LedgerStep == Inv /\ [Next]_vars => [Ledger!Next]_(Ledger!ledger)
<1> SUFFICES ASSUME Inv, [Next]_vars PROVE [Ledger!Next]_(Ledger!ledger)
  OBVIOUS
<1>a. TypeOK /\ StoredOwners /\ \A r \in Requests : RequestOwners(r)
  BY DEF Inv, OwnersAgree
<1>1. ASSUME UNCHANGED <<owner, row, age>> PROVE [Ledger!Next]_(Ledger!ledger)
  BY <1>1 DEF Ledger!ledger
<1>2. ASSUME NEW r \in Requests, CreateRow(r) PROVE Ledger!Next
  <2>1. PICK u \in Users : u = req[r].u
    BY <1>a, <1>2 DEF CreateRow, At, RequestOwners, UserKnown
  <2>2. PICK s \in SessionIds : /\ owner[s] = NoUser
                               /\ owner' = [owner EXCEPT ![s] = u]
                               /\ row' = [row EXCEPT ![s] = u]
    BY <1>2, <2>1 DEF CreateRow
  <2>3. {x \in SessionIds : row'[x] # NoUser} = {x \in SessionIds : row[x] # NoUser} \cup {s}
    BY <1>a, <2>1, <2>2, SessionsAssumption DEF TypeOK
  <2>4. Ledger!Open(u)
    BY <1>2, <2>1, <2>2, <2>3 DEF Ledger!Open, CreateRow
  <2> QED
    BY <2>4 DEF Ledger!Next
<1>3. ASSUME NEW u \in Users, NEW S \in SUBSET SessionIds, UNCHANGED <<owner, age>>,
             \A s \in S : row[s] \in {u, NoUser},
             row' = [s \in SessionIds |-> IF s \in S THEN NoUser ELSE row[s]]
      PROVE  Ledger!Next
  <2>1. PICK T : T = {s \in S : row[s] = u}
    OBVIOUS
  <2>2. T \in SUBSET {s \in {x \in SessionIds : row[x] # NoUser} : owner[s] = u}
    BY <1>a, <1>3, <2>1, SessionsAssumption DEF StoredOwners
  <2>3. {x \in SessionIds : row'[x] # NoUser} = {x \in SessionIds : row[x] # NoUser} \ T
    BY <1>3, <2>1, SessionsAssumption
  <2>4. Ledger!Close(u)
    BY <1>3, <2>2, <2>3 DEF Ledger!Close
  <2> QED
    BY <2>4 DEF Ledger!Next
<1>4. ASSUME NEW r \in Requests, DeleteRow(r) PROVE [Ledger!Next]_(Ledger!ledger)
  <2>1. req[r].s \in SessionIds
    BY <1>a, <1>4 DEF DeleteRow, At, RequestOwners
  <2>2. row' = [s \in SessionIds |-> IF s \in {req[r].s} THEN NoUser ELSE row[s]]
    BY <1>a, <1>4, <2>1 DEF DeleteRow, TypeOK
  <2>3. CASE row[req[r].s] = NoUser
    <3>1. row' = row
      BY <1>a, <2>2, <2>3 DEF TypeOK
    <3> QED
      BY <1>1, <1>4, <3>1 DEF DeleteRow
  <2>4. CASE row[req[r].s] # NoUser
    <3>1. row[req[r].s] \in Users
      BY <1>a, <2>1, <2>4 DEF TypeOK
    <3>2. \A s \in {req[r].s} : row[s] \in {row[req[r].s], NoUser}
      OBVIOUS
    <3>3. {req[r].s} \in SUBSET SessionIds
      BY <2>1
    <3> QED
      BY <1>3, <1>4, <2>2, <3>1, <3>2, <3>3 DEF DeleteRow
  <2> QED
    BY <2>3, <2>4
<1>5. ASSUME NEW r \in Requests, DeleteUserRows(r) PROVE Ledger!Next
  <2>1. req[r].u \in Users
    BY <1>a, <1>5 DEF DeleteUserRows, At, RequestOwners, UserKnown
  <2>2. PICK S : S = {s \in SessionIds : row[s] = req[r].u /\ s # req[r].s}
    OBVIOUS
  <2>3. row' = [s \in SessionIds |-> IF s \in S THEN NoUser ELSE row[s]]
    BY <1>5, <2>2 DEF DeleteUserRows
  <2>4. S \in SUBSET SessionIds /\ \A s \in S : row[s] \in {req[r].u, NoUser}
    BY <2>2
  <2> QED
    BY <1>3, <1>5, <2>1, <2>3, <2>4 DEF DeleteUserRows
<1>6. ASSUME NEW s \in SessionIds, Age(s) PROVE Ledger!Next
  <2>1. {x \in SessionIds : age'[x] # "young"} = {x \in SessionIds : age[x] # "young"} \cup {s}
    BY <1>a, <1>6 DEF Age, TypeOK
  <2>2. owner[s] # NoUser /\ UNCHANGED <<owner, row>>
    BY <1>6 DEF Age
  <2>3. Ledger!Lapse(s)
    BY <2>1, <2>2 DEF Ledger!Lapse
  <2> QED
    BY <2>3 DEF Ledger!Next
<1>7. ASSUME CleanUp PROVE Ledger!Next
  <2>1. {s \in SessionIds : row'[s] # NoUser}
          = {s \in SessionIds : row[s] # NoUser} \ {s \in SessionIds : age[s] # "young"}
    BY <1>7 DEF CleanUp
  <2> QED
    BY <1>7, <2>1 DEF CleanUp, Ledger!Next, Ledger!Purge
<1>8. ASSUME NEW r \in Requests, Step(r), ~ CreateRow(r), ~ DeleteRow(r), ~ DeleteUserRows(r)
      PROVE  UNCHANGED <<owner, row, age>>
  BY <1>8 DEF Step, store, CountCached, CountRows, StoreKey, StoreMember, LookupKey, LookupRow,
      DropKey, DropMember, ReadMembers, DropOneKey, DropSet
<1>9. ASSUME NEW r \in Requests, Arrive(r) \/ Abort(r) PROVE UNCHANGED <<owner, row, age>>
  BY <1>9 DEF Arrive, Abort, Start, StartLogin, StartRevokeAll, StartResetPassword,
      StartRefresh, StartLogout, StartChangePassword, StartRevoke, store
<1>10. ASSUME NEW s \in SessionIds, ExpireKey(s) PROVE UNCHANGED <<owner, row, age>>
  BY <1>10 DEF ExpireKey
<1>11. CASE UNCHANGED vars
  BY <1>1, <1>11 DEF vars
<1> QED
  BY <1>1, <1>2, <1>4, <1>5, <1>6, <1>7, <1>8, <1>9, <1>10, <1>11 DEF Next

\* The sessions table implements the abstract ledger: no id is opened twice, a
\* closed session stays closed, sessions of different users never close
\* together, and the clean-up closes exactly the overdue ones.
THEOREM LedgerImplemented == Spec => ImplementsLedger
<1>1. Init => Ledger!Init
  BY DEF Init, Ledger!Init
<1> QED
  BY <1>1, Invariance, LedgerStep, PTL DEF Spec, ImplementsLedger, Ledger!Spec

-----------------------------------------------------------------------------
\* A young session loses a copy in a step of a request that acts for it.
LEMMA RemovalStep ==
    ASSUME Inv, [Next]_vars, NEW s \in SessionIds, age[s] = "young", owner[s] # NoUser,
           \/ row[s] # row'[s]
           \/ key[s] # NoUser /\ key'[s] = NoUser
           \/ s \in members[owner[s]] /\ s \notin members'[owner[s]]
    PROVE  \E r \in Requests : ActsFor(r, s)
<1>a. TypeOK /\ StoredOwners /\ \A r \in Requests : RequestOwners(r)
  BY DEF Inv, OwnersAgree
<1>b. owner[s] \in Users
  BY <1>a DEF TypeOK
<1>1. ASSUME NEW r \in Requests, Step(r) PROVE ActsFor(r, s)
  <2> USE <1>a, <1>b, SessionsAssumption DEF TypeOK, StoredOwners, RequestOwners, UserKnown, At
  <2>1. CASE CreateRow(r)
    BY <2>1 DEF CreateRow
  <2>2. CASE StoreKey(r)
    BY <2>2 DEF StoreKey
  <2>3. CASE StoreMember(r)
    BY <2>3 DEF StoreMember
  <2>4. CASE DeleteRow(r)
    <3>1. s = req[r].s
      BY <2>4 DEF DeleteRow
    <3>2. req'[r].pc # "deleteRow"
      BY <2>4, OwnRequest DEF DeleteRow, Idle
    <3> QED
      BY <2>4, <3>1, <3>2 DEF DeleteRow, ActsFor
  <2>5. CASE DropKey(r)
    <3>1. s = req[r].s
      BY <2>5 DEF DropKey
    <3>2. req'[r].pc # "dropKey"
      BY <2>5, OwnRequest DEF DropKey, Idle
    <3> QED
      BY <2>5, <3>1, <3>2 DEF DropKey, ActsFor
  <2>6. CASE DropMember(r)
    <3>1. s = req[r].s
      BY <2>6 DEF DropMember
    <3>2. req'[r].pc # "dropMember"
      BY <2>6, OwnRequest DEF DropMember, Idle
    <3> QED
      BY <2>6, <3>1, <3>2 DEF DropMember, ActsFor
  <2>7. CASE DeleteUserRows(r)
    <3>1. req[r].u = owner[s]
      BY <2>7 DEF DeleteUserRows
    <3>2. req'[r].pc # "deleteUserRows"
      BY <2>7, OwnRequest DEF DeleteUserRows, Idle
    <3> QED
      BY <2>7, <3>1, <3>2 DEF DeleteUserRows, ActsFor
  <2>8. CASE DropOneKey(r)
    <3>1. PICK x \in req[r].todo : /\ key' = [key EXCEPT ![x] = NoUser]
                                  /\ UNCHANGED <<row, members>>
                                  /\ req'[r].todo = req[r].todo \ {x}
      <4>1. PICK x \in req[r].todo : /\ key' = [key EXCEPT ![x] = NoUser]
                                    /\ \E pc \in {"dropSet", "dropKeys"} :
                                        Resume(r, pc, req[r].u, req[r].s, req[r].todo \ {x})
        BY <2>8 DEF DropOneKey
      <4>2. req'[r].todo = req[r].todo \ {x}
        BY <4>1, OwnRequest
      <4> QED
        BY <2>8, <4>1, <4>2 DEF DropOneKey
    <3>2. s = x
      BY <3>1
    <3>3. req'[r] # req[r]
      BY <3>1
    <3>4. req[r].u = owner[s]
      BY <3>1, <3>2
    <3> QED
      BY <3>3, <3>4 DEF ActsFor
  <2>9. CASE DropSet(r)
    <3>1. req[r].u = owner[s]
      BY <2>9 DEF DropSet
    <3>2. req'[r].pc # "dropSet"
      BY <2>9, OwnRequest DEF DropSet, Idle
    <3> QED
      BY <2>9, <3>1, <3>2 DEF DropSet, ActsFor
  <2>10. CASE CountCached(r) \/ CountRows(r) \/ LookupKey(r) \/ LookupRow(r) \/ ReadMembers(r)
    BY <2>10 DEF CountCached, CountRows, LookupKey, LookupRow, ReadMembers, store
  <2> QED
    BY <1>1, <2>1, <2>2, <2>3, <2>4, <2>5, <2>6, <2>7, <2>8, <2>9, <2>10 DEF Step
<1>2. ASSUME NEW r \in Requests, Arrive(r) \/ Abort(r) PROVE FALSE
  BY <1>2 DEF Arrive, Abort, Start, StartLogin, StartRevokeAll, StartResetPassword,
      StartRefresh, StartLogout, StartChangePassword, StartRevoke, store
<1>3. ASSUME NEW x \in SessionIds, Age(x) \/ ExpireKey(x) PROVE FALSE
  BY <1>3, <1>a DEF Age, ExpireKey, TypeOK
<1>4. CASE CleanUp
  BY <1>4 DEF CleanUp
<1>5. CASE UNCHANGED vars
  BY <1>5 DEF vars
<1> QED
  BY <1>1, <1>2, <1>3, <1>4, <1>5 DEF Next

\* Before its time a session is removed, from any of its three places, only on
\* behalf of its owner or by whoever holds its refresh token.
THEOREM RemovalsAuthorised == Spec => OnlyOwnerRemoves
<1>1. Inv /\ [Next]_vars =>
        [\A s \in SessionIds :
            age[s] = "young" /\ owner[s] # NoUser
                /\ \/ row[s] # row'[s]
                   \/ key[s] # NoUser /\ key'[s] = NoUser
                   \/ s \in members[owner[s]] /\ s \notin members'[owner[s]]
            => \E r \in Requests : ActsFor(r, s)]_vars
  BY RemovalStep
<1> QED
  BY <1>1, Invariance, PTL DEF Spec, OnlyOwnerRemoves

-----------------------------------------------------------------------------
(***************************************************************************)
(* The tier count sees every session.  Two facts make the property         *)
(* inductive: the set entry of a session is removed only after its row     *)
(* (Removed), and no bulk removal is ever under way (NoBulk).              *)
(***************************************************************************)
BulkSteps == {"deleteUserRows", "readMembers", "dropKeys", "dropSet"}

NoBulk == \A r \in Requests : req[r].pc \notin BulkSteps /\ req[r].op # "changePassword"

Removed == \A r \in Requests : req[r].pc \in {"dropKey", "dropMember"} => row[req[r].s] = NoUser

Counted == RowsCounted /\ NoBulk /\ Removed

LEMMA CountedStep ==
    ASSUME Ops \cap {"revokeAll", "changePassword", "resetPassword"} = {},
           "abort" \notin Events, Inv, Counted, [Next]_vars
    PROVE  Counted'
<1>a. TypeOK /\ StoredOwners /\ \A r \in Requests : RequestOwners(r)
  BY DEF Inv, OwnersAgree
<1> DEFINE Storing == {"storeKey", "storeMember"}
<1>b. ASSUME NEW r \in Requests, \A q \in Requests \ {r} : req'[q] = req[q],
             req'[r].pc \notin BulkSteps, req'[r].op # "changePassword"
      PROVE  NoBulk'
  BY <1>b DEF NoBulk, Counted
<1>c. ASSUME NEW r \in Requests, \A q \in Requests \ {r} : req'[q] = req[q], row' = row,
             req'[r].pc \in {"dropKey", "dropMember"} => row[req'[r].s] = NoUser
      PROVE  Removed'
  BY <1>c DEF Removed, Counted
<1>d. ASSUME NEW r \in Requests, \A q \in Requests \ {r} : req'[q] = req[q],
             UNCHANGED <<row, members>>,
             req[r].pc \in Storing => req'[r].pc \in Storing /\ req'[r].s = req[r].s
      PROVE  RowsCounted'
  BY <1>d DEF RowsCounted, Pending, Counted
<1>1. ASSUME NEW r \in Requests, Arrive(r) PROVE Counted'
  <2>1. UNCHANGED store /\ \A q \in Requests \ {r} : req'[q] = req[q]
    BY <1>1, <1>a, OtherRequests DEF Arrive, Start, StartLogin, StartRevokeAll, StartResetPassword,
        StartRefresh, StartLogout, StartChangePassword, StartRevoke
  <2>2. req[r] = Idle
    BY <1>1 DEF Arrive, Start, StartLogin, StartRevokeAll, StartResetPassword,
        StartRefresh, StartLogout, StartChangePassword, StartRevoke
  <2>3. req'[r].pc \in {"count", "lookupKey", "lookupRow"} /\ req'[r].op # "changePassword"
    <3>1. PICK op \in Ops, pc \in {"count", "lookupKey", "lookupRow", "deleteUserRows"},
               u \in Users \cup {NoUser}, s \in SessionIds \cup {NoSession} :
            /\ Start(r, op, pc, u, s)
            /\ pc = "deleteUserRows" => op \in {"revokeAll", "changePassword", "resetPassword"}
      BY <1>1, <1>a DEF Arrive, Start, StartLogin, StartRevokeAll, StartResetPassword,
          StartRefresh, StartLogout, StartChangePassword, StartRevoke, TypeOK
    <3> QED
      BY <3>1, <1>a, OwnRequest
  <2> QED
    BY <1>b, <1>c, <1>d, <2>1, <2>2, <2>3 DEF store, Idle, BulkSteps, Counted
<1>2. ASSUME NEW r \in Requests, Step(r) PROVE Counted'
  <2> USE <1>a, RequestFields
  <2>0. req[r].pc \notin BulkSteps /\ req[r].op # "changePassword"
    BY DEF Counted, NoBulk
  <2>1. \A q \in Requests \ {r} : req'[q] = req[q]
    BY <1>2, OtherRequests DEF Step, CountCached, CountRows, CreateRow, StoreKey, StoreMember,
        LookupKey, LookupRow, DeleteRow, DropKey, DropMember, DeleteUserRows, ReadMembers,
        DropOneKey, DropSet
  <2>2. NoBulk'
    <3>1. ~ (DeleteUserRows(r) \/ ReadMembers(r) \/ DropOneKey(r) \/ DropSet(r))
      BY <2>0 DEF DeleteUserRows, ReadMembers, DropOneKey, DropSet, At, BulkSteps
    <3>2. CASE CountCached(r) \/ CountRows(r) \/ CreateRow(r) \/ StoreKey(r) \/ StoreMember(r)
      BY <3>2, <1>b, <2>0, <2>1, OwnRequest
         DEF CountCached, CountRows, CreateRow, StoreKey, StoreMember, Idle, BulkSteps
    <3>3. CASE LookupKey(r) \/ LookupRow(r) \/ DeleteRow(r) \/ DropKey(r) \/ DropMember(r)
      BY <3>3, <1>b, <2>0, <2>1, OwnRequest
         DEF LookupKey, LookupRow, DeleteRow, DropKey, DropMember, Idle, BulkSteps
    <3> QED
      BY <1>2, <3>1, <3>2, <3>3 DEF Step
  <2>3. CASE CountCached(r) \/ CountRows(r) \/ LookupKey(r) \/ LookupRow(r)
    <3>1. UNCHANGED <<row, members>> /\ req[r].pc \notin Storing
      BY <2>3 DEF CountCached, CountRows, LookupKey, LookupRow, store, At
    <3>2. req'[r].pc \notin {"dropKey", "dropMember"}
      BY <2>3, OwnRequest DEF CountCached, CountRows, LookupKey, LookupRow, Idle
    <3> QED
      BY <1>c, <1>d, <2>1, <2>2, <3>1, <3>2 DEF Counted
  <2>4. CASE CreateRow(r)
    <3>1. PICK s \in SessionIds : /\ owner[s] = NoUser
                                 /\ row' = [row EXCEPT ![s] = req[r].u]
                                 /\ members' = members
                                 /\ req'[r].pc = "storeKey" /\ req'[r].s = s
      <4>1. PICK s \in SessionIds : /\ owner[s] = NoUser
                                   /\ row' = [row EXCEPT ![s] = req[r].u]
                                   /\ Resume(r, "storeKey", req[r].u, s, {})
        BY <2>4 DEF CreateRow
      <4>2. req'[r].pc = "storeKey" /\ req'[r].s = s
        BY <4>1, OwnRequest
      <4> QED
        BY <2>4, <4>1, <4>2 DEF CreateRow
    <3>2. req[r].pc = "create"
      BY <2>4 DEF CreateRow, At
    <3>3. RowsCounted'
      BY <2>1, <3>1, <3>2 DEF Counted, RowsCounted, Pending, TypeOK
    <3>4. Removed'
      <4> SUFFICES ASSUME NEW q \in Requests, req'[q].pc \in {"dropKey", "dropMember"}
                   PROVE  row'[req'[q].s] = NoUser
        BY DEF Removed
      <4>1. q # r /\ req'[q] = req[q]
        BY <2>1, <3>1
      <4>2. owner[req[q].s] \in Users /\ row[req[q].s] = NoUser
        BY <4>1 DEF RequestOwners, UserKnown, Counted, Removed
      <4> QED
        BY <3>1, <4>1, <4>2, SessionsAssumption DEF TypeOK
    <3> QED
      BY <2>2, <3>3, <3>4 DEF Counted
  <2>5. CASE StoreKey(r)
    <3>1. /\ UNCHANGED <<row, members>>
          /\ req'[r].pc = "storeMember" /\ req'[r].s = req[r].s
      BY <2>5, OwnRequest DEF StoreKey
    <3> QED
      BY <1>c, <1>d, <2>1, <2>2, <3>1 DEF Counted
  <2>6. CASE StoreMember(r)
    <3>1. /\ members' = [members EXCEPT ![req[r].u] = @ \cup {req[r].s}]
          /\ row' = row /\ req'[r] = Idle /\ req[r].pc = "storeMember"
      BY <2>6, OwnRequest DEF StoreMember, At
    <3>2. req[r].u \in Users /\ req[r].s \in SessionIds /\ owner[req[r].s] = req[r].u
      BY <3>1 DEF RequestOwners, UserKnown
    <3>3. RowsCounted'
      <4> SUFFICES ASSUME NEW s \in SessionIds, row[s] # NoUser
                   PROVE  s \in members'[row[s]] \/ Pending(s, Storing)'
        BY <3>1 DEF RowsCounted
      <4>1. row[s] \in Users /\ row[s] = owner[s]
        BY DEF TypeOK, StoredOwners
      <4>2. CASE s \in members[row[s]]
        BY <3>1, <3>2, <4>1, <4>2 DEF TypeOK
      <4>3. CASE Pending(s, Storing)
        <5>1. PICK q \in Requests : req[q].pc \in Storing /\ req[q].s = s
          BY <4>3 DEF Pending
        <5>2. CASE q = r
          BY <3>1, <3>2, <4>1, <5>1, <5>2 DEF TypeOK
        <5>3. CASE q # r
          BY <2>1, <5>1, <5>3 DEF Pending
        <5> QED
          BY <5>2, <5>3
      <4> QED
        BY <4>2, <4>3 DEF Counted, RowsCounted
    <3> QED
      BY <1>c, <2>1, <2>2, <3>1, <3>3 DEF Counted, Idle
  <2>7. CASE DeleteRow(r)
    <3>1. /\ row' = [row EXCEPT ![req[r].s] = NoUser] /\ members' = members
          /\ req[r].pc = "deleteRow"
          /\ req'[r].s = req[r].s \/ req'[r].pc = "idle"
      BY <2>7, OwnRequest DEF DeleteRow, At, Idle
    <3>2. req[r].s \in SessionIds
      BY <3>1 DEF RequestOwners
    <3>3. RowsCounted'
      BY <2>1, <3>1, <3>2 DEF Counted, RowsCounted, Pending, TypeOK
    <3>4. Removed'
      BY <2>1, <3>1, <3>2 DEF Counted, Removed, TypeOK
    <3> QED
      BY <2>2, <3>3, <3>4 DEF Counted
  <2>8. CASE DropKey(r)
    <3>1. /\ UNCHANGED <<row, members>> /\ req[r].pc = "dropKey"
          /\ req'[r].pc = "dropMember" /\ req'[r].s = req[r].s
      BY <2>8, OwnRequest DEF DropKey, At
    <3>2. row[req[r].s] = NoUser
      BY <3>1 DEF Counted, Removed
    <3> QED
      BY <1>c, <1>d, <2>1, <2>2, <3>1, <3>2 DEF Counted
  <2>9. CASE DropMember(r)
    <3>1. /\ members' = [members EXCEPT ![req[r].u] = @ \ {req[r].s}]
          /\ row' = row /\ req[r].pc = "dropMember"
          /\ req'[r].pc \in {"create", "idle"}
      BY <2>9, OwnRequest DEF DropMember, At, Idle
    <3>2. row[req[r].s] = NoUser
      BY <3>1 DEF Counted, Removed
    <3>3. RowsCounted'
      BY <2>1, <3>1, <3>2 DEF Counted, RowsCounted, Pending, TypeOK
    <3> QED
      BY <1>c, <2>1, <2>2, <3>1, <3>3 DEF Counted
  <2>10. ~ (DeleteUserRows(r) \/ ReadMembers(r) \/ DropOneKey(r) \/ DropSet(r))
    BY <2>0 DEF DeleteUserRows, ReadMembers, DropOneKey, DropSet, At, BulkSteps
  <2> QED
    BY <1>2, <2>3, <2>4, <2>5, <2>6, <2>7, <2>8, <2>9, <2>10 DEF Step
<1>3. ASSUME NEW r \in Requests PROVE ~ Abort(r)
  BY DEF Abort
<1>4. ASSUME req' = req, members' = members, \A s \in SessionIds : row'[s] \in {row[s], NoUser}
      PROVE  Counted'
  <2>1. NoBulk'
    BY <1>4 DEF Counted, NoBulk
  <2>2. Removed'
    BY <1>4, <1>a DEF Counted, Removed, RequestOwners
  <2>3. RowsCounted'
    BY <1>4 DEF Counted, RowsCounted, Pending
  <2> QED
    BY <2>1, <2>2, <2>3 DEF Counted
<1>5. ASSUME NEW s \in SessionIds, Age(s) \/ ExpireKey(s) PROVE Counted'
  BY <1>4, <1>5 DEF Age, ExpireKey
<1>6. CASE CleanUp
  BY <1>4, <1>6 DEF CleanUp
<1>7. CASE UNCHANGED vars
  BY <1>4, <1>7 DEF vars
<1> QED
  BY <1>1, <1>2, <1>3, <1>5, <1>6, <1>7 DEF Next

\* Without bulk removals and aborts no row ever escapes the count that
\* enforceSessionLimit compares with the tier limit.
THEOREM CountComplete ==
    ASSUME Ops \cap {"revokeAll", "changePassword", "resetPassword"} = {},
           "abort" \notin Events
    PROVE  Spec => []RowsCounted
<1>1. Init => Counted
  BY DEF Init, Idle, Counted, RowsCounted, NoBulk, Removed, BulkSteps
<1>2. Inv /\ Counted /\ [Next]_vars => Counted'
  BY CountedStep
<1>3. Counted => RowsCounted
  BY DEF Counted
<1> QED
  BY <1>1, <1>2, <1>3, Invariance, PTL DEF Spec

-----------------------------------------------------------------------------
(***************************************************************************)
(* With logins, refreshes and logouts only, table, cache and set of a      *)
(* session meet again whatever ran between.  A session has one request     *)
(* that stores it, before anybody holds its tokens; a removal deletes the  *)
(* row first and never stops halfway.                                      *)
(***************************************************************************)
WorkSteps == {"lookupKey", "lookupRow", "deleteRow", "dropKey", "dropMember"}

StoreSteps == {"storeKey", "storeMember"}

\* What a request may rely on where it is.
Sound(r) ==
    LET q == req[r]
    IN  /\ q.op \in {"none", "login", "refresh", "logout"}
        /\ q.pc \in WorkSteps => q.s \in delivered
        /\ q.pc \in StoreSteps => q.s \notin delivered
        /\ q.pc \in StoreSteps /\ age[q.s] = "young" =>
            /\ row[q.s] = owner[q.s]
            /\ q.pc = "storeMember" => key[q.s] = owner[q.s]
        /\ q.pc = "deleteRow" /\ q.u = NoUser /\ age[q.s] = "young" => row[q.s] = NoUser

Lone ==
    \A r, q \in Requests :
        req[r].pc \in StoreSteps /\ req[q].pc \in StoreSteps /\ req[r].s = req[q].s => r = q

Created == \A s \in SessionIds : owner[s] # NoUser => s \in delivered \/ Pending(s, StoreSteps)

Together ==
    \A s \in delivered : age[s] = "young" =>
        IF row[s] # NoUser THEN key[s] = owner[s] /\ s \in members[owner[s]]
        ELSE /\ key[s] # NoUser => Pending(s, {"dropKey"})
             /\ s \in members[owner[s]] => Pending(s, {"dropKey", "dropMember"})

Agreeing == (\A r \in Requests : Sound(r)) /\ Lone /\ Created /\ Together

\* A request that comes or ends, or looks something up, changes no store; it starts
\* or stops neither to store nor to remove.
LEMMA AgreeingLooks ==
    ASSUME Inv, Agreeing, NEW r \in Requests, UNCHANGED store,
           \A q \in Requests \ {r} : req'[q] = req[q],
           req[r].pc \notin StoreSteps \cup {"dropKey", "dropMember"},
           req'[r].pc \notin StoreSteps, Sound(r)'
    PROVE  Agreeing'
<1>1. /\ owner' = owner /\ row' = row /\ age' = age /\ key' = key /\ members' = members
      /\ delivered' = delivered
  BY DEF store
<1>2. \A q \in Requests : Sound(q)'
  BY <1>1 DEF Agreeing, Sound
<1>3. Lone'
  BY DEF Agreeing, Lone
<1>4. \A s \in SessionIds : /\ Pending(s, StoreSteps) => Pending(s, StoreSteps)'
                            /\ Pending(s, {"dropKey"}) => Pending(s, {"dropKey"})'
                            /\ Pending(s, {"dropKey", "dropMember"})
                                => Pending(s, {"dropKey", "dropMember"})'
  BY DEF Pending
<1>5. Created'
  BY <1>1, <1>4 DEF Agreeing, Created
<1>6. Together'
  BY <1>1, <1>4 DEF Agreeing, Together, Inv, TypeOK
<1> QED
  BY <1>2, <1>3, <1>5, <1>6 DEF Agreeing

\* Every step keeps the stores agreeing.
LEMMA AgreeingStep ==
    ASSUME Ops \subseteq {"login", "refresh", "logout"}, "abort" \notin Events,
           Inv, Counted, Agreeing, [Next]_vars
    PROVE  Agreeing'
<1>a. TypeOK /\ StoredOwners /\ NoUser \notin Users /\ \A r \in Requests : RequestOwners(r)
  BY SessionsAssumption DEF Inv, OwnersAgree
<1>b. \A r \in Requests : Sound(r)
  BY DEF Agreeing
<1>1. ASSUME NEW r \in Requests, Arrive(r) PROVE Agreeing'
  <2>1. UNCHANGED store /\ \A q \in Requests \ {r} : req'[q] = req[q]
    BY <1>1, <1>a, OtherRequests DEF Arrive, Start, StartLogin, StartRevokeAll, StartResetPassword,
        StartRefresh, StartLogout, StartChangePassword, StartRevoke
  <2>2. req[r] = Idle
    BY <1>1 DEF Arrive, Start, StartLogin, StartRevokeAll, StartResetPassword,
        StartRefresh, StartLogout, StartChangePassword, StartRevoke
  <2>3. PICK op \in Ops, pc \in {"count", "lookupKey"}, u \in Users \cup {NoUser},
             s \in SessionIds \cup {NoSession} :
          Start(r, op, pc, u, s) /\ (pc = "lookupKey" => s \in delivered)
    BY <1>1, <1>a DEF Arrive, Start, StartLogin, StartRevokeAll, StartResetPassword,
        StartRefresh, StartLogout, StartChangePassword, StartRevoke, TypeOK
  <2>4. Sound(r)'
    BY <1>a, <2>1, <2>3, OwnRequest DEF Sound, WorkSteps, StoreSteps, store
  <2> QED
    BY <1>a, <2>1, <2>2, <2>3, <2>4, AgreeingLooks, OwnRequest DEF Idle, StoreSteps
<1>2. ASSUME NEW r \in Requests, Step(r) PROVE Agreeing'
  <2> USE <1>a, <1>b, RequestFields
  <2>1. \A q \in Requests \ {r} : req'[q] = req[q]
    BY <1>2, OtherRequests DEF Step, CountCached, CountRows, CreateRow, StoreKey, StoreMember,
        LookupKey, LookupRow, DeleteRow, DropKey, DropMember, DeleteUserRows, ReadMembers,
        DropOneKey, DropSet
  <2>2. Sound(r) /\ RequestOwners(r)
    OBVIOUS
  <2>3. CASE CountCached(r) \/ CountRows(r)
    <3>1. /\ UNCHANGED store /\ req[r].pc \in {"count", "countRows"}
          /\ req'[r].pc \in {"idle", "countRows", "create"}
          /\ req'[r].op \in {"none", req[r].op}
      BY <2>3, OwnRequest DEF CountCached, CountRows, At, Idle
    <3>2. Sound(r)'
      BY <2>2, <3>1 DEF Sound, WorkSteps, StoreSteps
    <3> QED
      BY <2>1, <3>1, <3>2, AgreeingLooks DEF StoreSteps
  <2>4. CASE LookupKey(r)
    <3>1. /\ UNCHANGED store /\ req[r].pc = "lookupKey"
          /\ req'[r].pc \in {"lookupRow", "deleteRow"}
          /\ req'[r].op = req[r].op /\ req'[r].s = req[r].s /\ req'[r].u = key[req[r].s]
      BY <2>4, OwnRequest DEF LookupKey, At
    <3>2. req[r].s \in delivered /\ req[r].s \in SessionIds
      BY <2>2, <3>1 DEF Sound, WorkSteps, RequestOwners
    <3>3. age[req[r].s] = "young" /\ key[req[r].s] = NoUser => row[req[r].s] = NoUser
      BY <3>2 DEF Agreeing, Together, StoredOwners, TypeOK
    <3>4. Sound(r)'
      BY <2>2, <3>1, <3>2, <3>3 DEF Sound, WorkSteps, StoreSteps, store
    <3> QED
      BY <2>1, <3>1, <3>4, AgreeingLooks DEF StoreSteps
  <2>5. CASE LookupRow(r)
    <3>1. /\ UNCHANGED store /\ req[r].pc = "lookupRow"
          /\ \/ req'[r] = Idle
             \/ /\ req'[r].pc = "deleteRow" /\ req'[r].op = req[r].op
                /\ req'[r].s = req[r].s /\ req'[r].u # NoUser
      BY <2>5, OwnRequest DEF LookupRow, At
    <3>2. Sound(r)'
      BY <2>2, <3>1 DEF Sound, WorkSteps, StoreSteps, store, Idle
    <3> QED
      BY <2>1, <3>1, <3>2, AgreeingLooks DEF StoreSteps, Idle
  <2>6. CASE CreateRow(r)
    <3>1. PICK s \in SessionIds :
            /\ owner[s] = NoUser
            /\ owner' = [owner EXCEPT ![s] = req[r].u]
            /\ row' = [row EXCEPT ![s] = req[r].u]
            /\ Resume(r, "storeKey", req[r].u, s, {})
      BY <2>6 DEF CreateRow
    <3>2. /\ req'[r].pc = "storeKey" /\ req'[r].s = s /\ req'[r].op = req[r].op
          /\ req[r].pc = "create"
          /\ age' = age /\ key' = key /\ members' = members /\ delivered' = delivered
      BY <2>6, <3>1, OwnRequest DEF CreateRow, At
    <3>3. s \notin delivered /\ \A t \in delivered : t \in SessionIds /\ t # s
      BY <3>1 DEF StoredOwners, TypeOK
    <3>4. \A q \in Requests : req[q].pc \in StoreSteps => req[q].s # s /\ req[q].s \in SessionIds
      BY <3>1 DEF RequestOwners, UserKnown, StoreSteps
    <3>5. \A t \in SessionIds \ {s} : owner'[t] = owner[t] /\ row'[t] = row[t]
      BY <3>1, <1>a DEF TypeOK
    <3>6. \A q \in Requests \ {r} : Sound(q)'
      <4> SUFFICES ASSUME NEW q \in Requests \ {r}
                   PROVE  Sound(q)'
        OBVIOUS
      <4>1. req'[q] = req[q] /\ Sound(q)
        BY <2>1
      <4>2. req[q].pc \in WorkSteps => req[q].s \in delivered
        BY <4>1 DEF Sound
      <4> QED
        BY <3>2, <3>3, <3>4, <3>5, <4>1, <4>2 DEF Sound, WorkSteps
    <3>7. Sound(r)'
      BY <2>2, <3>1, <3>2, <3>3 DEF Sound, WorkSteps, StoreSteps, TypeOK
    <3>8. Lone'
      BY <2>1, <3>2, <3>4 DEF Agreeing, Lone
    <3>9. \A t \in SessionIds : \A pcs : Pending(t, pcs) /\ "create" \notin pcs => Pending(t, pcs)'
      BY <2>1, <3>2 DEF Pending
    <3>10. Created'
      <4>1. Pending(s, StoreSteps)'
        BY <3>2 DEF Pending, StoreSteps
      <4> QED
        BY <3>2, <3>5, <3>9, <4>1 DEF Agreeing, Created, StoreSteps
    <3>11. Together'
      BY <3>2, <3>3, <3>5, <3>9 DEF Agreeing, Together
    <3> QED
      BY <3>6, <3>7, <3>8, <3>10, <3>11 DEF Agreeing
  <2>7. CASE StoreKey(r)
    <3>1. /\ key' = [key EXCEPT ![req[r].s] = req[r].u]
          /\ req[r].pc = "storeKey" /\ req'[r].pc = "storeMember"
          /\ req'[r].s = req[r].s /\ req'[r].op = req[r].op
          /\ owner' = owner /\ row' = row /\ age' = age /\ members' = members
          /\ delivered' = delivered
      BY <2>7, OwnRequest DEF StoreKey, At
    <3>2. PICK s : s = req[r].s
      OBVIOUS
    <3>3. s \in SessionIds /\ owner[s] = req[r].u /\ s \notin delivered
      BY <2>2, <3>1, <3>2 DEF Sound, StoreSteps, RequestOwners
    <3>4. key'[s] = owner[s] /\ \A t \in SessionIds \ {s} : key'[t] = key[t]
      BY <3>1, <3>2, <3>3 DEF TypeOK
    <3>5. \A q \in Requests \ {r} : req[q].pc \in StoreSteps => req[q].s # s /\ req[q].s \in SessionIds
      BY <3>1, <3>2 DEF Agreeing, Lone, StoreSteps, RequestOwners
    <3>6. \A q \in Requests \ {r} : Sound(q)'
      BY <2>1, <3>1, <3>4, <3>5 DEF Sound
    <3>7. Sound(r)'
      BY <2>2, <3>1, <3>2, <3>3, <3>4 DEF Sound, WorkSteps, StoreSteps
    <3>8. Lone'
      BY <2>1, <3>1 DEF Agreeing, Lone, StoreSteps
    <3>9. \A t \in SessionIds : \A pcs : Pending(t, pcs) /\ ("storeKey" \in pcs => "storeMember" \in pcs)
                                    => Pending(t, pcs)'
      BY <2>1, <3>1 DEF Pending
    <3>10. Created'
      BY <3>1, <3>9 DEF Agreeing, Created, StoreSteps
    <3>11. Together'
      BY <3>1, <3>3, <3>4, <3>9 DEF Agreeing, Together, TypeOK
    <3> QED
      BY <3>6, <3>7, <3>8, <3>10, <3>11 DEF Agreeing
  <2>8. CASE StoreMember(r)
    <3>1. /\ members' = [members EXCEPT ![req[r].u] = @ \cup {req[r].s}]
          /\ delivered' = delivered \cup {req[r].s}
          /\ req'[r] = Idle /\ req[r].pc = "storeMember"
          /\ owner' = owner /\ row' = row /\ age' = age /\ key' = key
      BY <2>8, OwnRequest DEF StoreMember, At
    <3>2. PICK s : s = req[r].s
      OBVIOUS
    <3>3. s \in SessionIds /\ req[r].u \in Users /\ owner[s] = req[r].u
      BY <3>1, <3>2 DEF RequestOwners, UserKnown
    <3>4. age[s] = "young" => row[s] = owner[s] /\ key[s] = owner[s]
      BY <2>2, <3>1, <3>2 DEF Sound, StoreSteps
    <3>5. /\ s \in members'[owner[s]]
          /\ \A t \in SessionIds \ {s} : \A u \in Users : t \in members'[u] <=> t \in members[u]
      BY <3>1, <3>2, <3>3 DEF TypeOK
    <3>6. \A q \in Requests \ {r} : req[q].pc \in StoreSteps => req[q].s # s
      BY <3>1, <3>2 DEF Agreeing, Lone, StoreSteps
    <3>7. \A q \in Requests \ {r} : Sound(q)'
      BY <2>1, <3>1, <3>2, <3>6 DEF Sound
    <3>8. Sound(r)'
      BY <3>1 DEF Sound, Idle, WorkSteps, StoreSteps
    <3>9. Lone'
      BY <2>1, <3>1 DEF Agreeing, Lone, StoreSteps, Idle
    <3>10. \A t \in SessionIds \ {s} : \A pcs : Pending(t, pcs) => Pending(t, pcs)'
      BY <2>1, <3>1, <3>2 DEF Pending
    <3>11. Created'
      BY <3>1, <3>2, <3>10 DEF Agreeing, Created
    <3>12. Together'
      <4> SUFFICES ASSUME NEW t \in delivered', age'[t] = "young"
                   PROVE  IF row'[t] # NoUser
                          THEN key'[t] = owner'[t] /\ t \in members'[owner'[t]]
                          ELSE /\ key'[t] # NoUser => Pending(t, {"dropKey"})'
                               /\ t \in members'[owner'[t]] => Pending(t, {"dropKey", "dropMember"})'
        BY DEF Together
      <4>1. CASE t = s
        BY <3>1, <3>3, <3>4, <3>5, <4>1
      <4>2. CASE t # s
        <5>1. t \in delivered /\ t \in SessionIds /\ owner[t] \in Users
          BY <3>1, <3>2, <4>2 DEF TypeOK, StoredOwners
        <5> QED
          BY <3>1, <3>5, <3>10, <4>2, <5>1 DEF Agreeing, Together
      <4> QED
        BY <4>1, <4>2
    <3> QED
      BY <3>7, <3>8, <3>9, <3>11, <3>12 DEF Agreeing
  <2>9. CASE DeleteRow(r)
    <3>1. /\ row' = [row EXCEPT ![req[r].s] = NoUser] /\ req[r].pc = "deleteRow"
          /\ \/ req[r].u = NoUser /\ req'[r] = Idle
             \/ /\ req'[r].pc = "dropKey" /\ req'[r].s = req[r].s /\ req'[r].op = req[r].op
          /\ owner' = owner /\ age' = age /\ key' = key /\ members' = members
          /\ delivered' = delivered
      BY <2>9, OwnRequest DEF DeleteRow, At
    <3>2. PICK s : s = req[r].s
      OBVIOUS
    <3>3. s \in SessionIds /\ s \in delivered
      BY <2>2, <3>1, <3>2 DEF Sound, WorkSteps, RequestOwners
    <3>4. row'[s] = NoUser /\ \A t \in SessionIds \ {s} : row'[t] = row[t]
      BY <3>1, <3>2, <3>3 DEF TypeOK
    <3>5. \A q \in Requests \ {r} : Sound(q)'
      <4> SUFFICES ASSUME NEW q \in Requests \ {r}
                   PROVE  Sound(q)'
        OBVIOUS
      <4>1. req'[q] = req[q] /\ Sound(q)
        BY <2>1
      <4>2. /\ req[q].pc \in StoreSteps => req[q].s \in SessionIds \ {s}
            /\ req[q].pc = "deleteRow" => req[q].s \in SessionIds
        BY <3>3, <4>1 DEF Sound, StoreSteps, RequestOwners
      <4> QED
        BY <3>1, <3>4, <4>1, <4>2 DEF Sound
    <3>6. Sound(r)'
      BY <2>2, <3>1, <3>2, <3>3 DEF Sound, WorkSteps, StoreSteps, Idle
    <3>7. Lone'
      BY <2>1, <3>1 DEF Agreeing, Lone, StoreSteps, Idle
    <3>8. \A t \in SessionIds : \A pcs : Pending(t, pcs) /\ "deleteRow" \notin pcs => Pending(t, pcs)'
      BY <2>1, <3>1 DEF Pending
    <3>9. Created'
      BY <3>1, <3>8 DEF Agreeing, Created, StoreSteps
    <3>10. Together'
      <4>1. ASSUME req'[r].pc = "dropKey", req'[r].s = s
            PROVE  Pending(s, {"dropKey"})' /\ Pending(s, {"dropKey", "dropMember"})'
        BY <4>1 DEF Pending
      <4>2. CASE req'[r].pc = "dropKey" /\ req'[r].s = s
        BY <3>1, <3>4, <3>8, <4>1, <4>2 DEF Agreeing, Together, TypeOK
      <4>3. CASE req[r].u = NoUser
        <5>1. age[s] = "young" => row[s] = NoUser
          BY <2>2, <3>1, <3>2, <4>3 DEF Sound
        <5> QED
          BY <3>1, <3>4, <3>8, <5>1 DEF Agreeing, Together, TypeOK
      <4> QED
        BY <3>1, <3>2, <4>2, <4>3
    <3> QED
      BY <3>5, <3>6, <3>7, <3>9, <3>10 DEF Agreeing
  <2>10. CASE DropKey(r)
    <3>1. /\ key' = [key EXCEPT ![req[r].s] = NoUser]
          /\ req[r].pc = "dropKey" /\ req'[r].pc = "dropMember"
          /\ req'[r].s = req[r].s /\ req'[r].op = req[r].op
          /\ owner' = owner /\ row' = row /\ age' = age /\ members' = members
          /\ delivered' = delivered
      BY <2>10, OwnRequest DEF DropKey, At
    <3>2. PICK s : s = req[r].s
      OBVIOUS
    <3>3. s \in SessionIds /\ s \in delivered /\ row[s] = NoUser
      BY <2>2, <3>1, <3>2 DEF Sound, WorkSteps, RequestOwners, UserKnown, Counted, Removed
    <3>4. key'[s] = NoUser /\ \A t \in SessionIds \ {s} : key'[t] = key[t]
      BY <3>1, <3>2, <3>3 DEF TypeOK
    <3>5. \A q \in Requests \ {r} : Sound(q)'
      <4> SUFFICES ASSUME NEW q \in Requests \ {r}
                   PROVE  Sound(q)'
        OBVIOUS
      <4>1. req'[q] = req[q] /\ Sound(q)
        BY <2>1
      <4>2. req[q].pc \in StoreSteps => req[q].s \in SessionIds \ {s}
        BY <3>3, <4>1 DEF Sound, StoreSteps, RequestOwners
      <4> QED
        BY <3>1, <3>4, <4>1, <4>2 DEF Sound
    <3>6. Sound(r)'
      BY <2>2, <3>1, <3>2, <3>3 DEF Sound, WorkSteps, StoreSteps
    <3>7. Lone'
      BY <2>1, <3>1 DEF Agreeing, Lone, StoreSteps
    <3>8. \A t \in SessionIds : \A pcs :
            Pending(t, pcs) /\ (t # s \/ ("dropKey" \in pcs => "dropMember" \in pcs)) => Pending(t, pcs)'
      BY <2>1, <3>1, <3>2 DEF Pending
    <3>9. Created'
      BY <3>1, <3>8 DEF Agreeing, Created, StoreSteps
    <3>10. Together'
      BY <3>1, <3>3, <3>4, <3>8 DEF Agreeing, Together, TypeOK
    <3> QED
      BY <3>5, <3>6, <3>7, <3>9, <3>10 DEF Agreeing
  <2>11. CASE DropMember(r)
    <3>1. /\ members' = [members EXCEPT ![req[r].u] = @ \ {req[r].s}]
          /\ req[r].pc = "dropMember"
          /\ req'[r] = Idle \/ (req'[r].pc = "create" /\ req'[r].op = req[r].op)
          /\ owner' = owner /\ row' = row /\ age' = age /\ key' = key
          /\ delivered' = delivered
      BY <2>11, OwnRequest DEF DropMember, At
    <3>2. PICK s : s = req[r].s
      OBVIOUS
    <3>3. /\ s \in SessionIds /\ s \in delivered /\ row[s] = NoUser
          /\ req[r].u \in Users /\ owner[s] = req[r].u
      BY <2>2, <3>1, <3>2 DEF Sound, WorkSteps, RequestOwners, UserKnown, Counted, Removed
    <3>4. /\ s \notin members'[owner[s]]
          /\ \A t \in SessionIds \ {s} : \A u \in Users : t \in members'[u] <=> t \in members[u]
      BY <3>1, <3>2, <3>3 DEF TypeOK
    <3>5. \A q \in Requests \ {r} : Sound(q)'
      BY <2>1, <3>1 DEF Sound
    <3>6. Sound(r)'
      BY <2>2, <3>1 DEF Sound, WorkSteps, StoreSteps, Idle
    <3>7. Lone'
      BY <2>1, <3>1 DEF Agreeing, Lone, StoreSteps, Idle
    <3>8. \A t \in SessionIds : \A pcs :
            Pending(t, pcs) /\ (t # s \/ "dropMember" \notin pcs) => Pending(t, pcs)'
      BY <2>1, <3>1, <3>2 DEF Pending
    <3>9. Created'
      BY <3>1, <3>8 DEF Agreeing, Created, StoreSteps
    <3>10. Together'
      <4>1. \A t \in delivered : t \in SessionIds /\ owner[t] \in Users
        BY DEF TypeOK, StoredOwners
      <4> QED
        BY <3>1, <3>3, <3>4, <3>8, <4>1 DEF Agreeing, Together
    <3> QED
      BY <3>5, <3>6, <3>7, <3>9, <3>10 DEF Agreeing
  <2>12. ~ (DeleteUserRows(r) \/ ReadMembers(r) \/ DropOneKey(r) \/ DropSet(r))
    BY DEF Counted, NoBulk, DeleteUserRows, ReadMembers, DropOneKey, DropSet, At, BulkSteps
  <2> QED
    BY <1>2, <2>3, <2>4, <2>5, <2>6, <2>7, <2>8, <2>9, <2>10, <2>11, <2>12 DEF Step
<1>3. ASSUME NEW r \in Requests PROVE ~ Abort(r)
  BY DEF Abort
<1>4. ASSUME UNCHANGED <<req, owner, members, delivered>>,
             \A s \in SessionIds :
                /\ age'[s] = "young" => age[s] = "young" /\ key'[s] = key[s] /\ row'[s] = row[s]
      PROVE  Agreeing'
  <2>1. \A r \in Requests : Sound(r)'
    <3> SUFFICES ASSUME NEW r \in Requests
                 PROVE  Sound(r)'
      OBVIOUS
    <3>1. /\ req[r].pc \in StoreSteps \cup {"deleteRow"} => req[r].s \in SessionIds
          /\ Sound(r)
      BY <1>a, <1>b DEF RequestOwners, StoreSteps
    <3> QED
      BY <1>4, <3>1 DEF Sound
  <2>2. Lone' /\ Created'
    BY <1>4 DEF Agreeing, Lone, Created, Pending
  <2>3. Together'
    BY <1>4, <1>a DEF Agreeing, Together, Pending, TypeOK
  <2> QED
    BY <2>1, <2>2, <2>3 DEF Agreeing
<1>5. ASSUME NEW s \in SessionIds, Age(s) \/ ExpireKey(s) PROVE Agreeing'
  BY <1>4, <1>5, <1>a DEF Age, ExpireKey, TypeOK
<1>6. CASE CleanUp
  BY <1>4, <1>6, <1>a DEF CleanUp, TypeOK
<1>7. CASE UNCHANGED vars
  BY <1>4, <1>7 DEF vars
<1> QED
  BY <1>1, <1>2, <1>3, <1>5, <1>6, <1>7 DEF Next

\* With logins, refreshes and logouts only, none of them cut off, every step keeps
\* the whole.
LEMMA AgreementHolds ==
    ASSUME Ops \subseteq {"login", "refresh", "logout"}, "abort" \notin Events
    PROVE  Spec => [](Inv /\ Agreeing)
<1>0. Ops \cap {"revokeAll", "changePassword", "resetPassword"} = {}
  OBVIOUS
<1>1. Init => Counted /\ Agreeing
  BY DEF Init, Idle, Counted, RowsCounted, NoBulk, Removed, BulkSteps,
         Agreeing, Sound, Lone, Created, Together, WorkSteps, StoreSteps
<1>2. Inv /\ Counted /\ Agreeing /\ [Next]_vars => Counted' /\ Agreeing'
  BY <1>0, CountedStep, AgreeingStep
<1> QED
  BY <1>1, <1>2, Invariance, PTL DEF Spec

\* With logins, refreshes and logouts only, none of them cut off, a session whose row
\* is gone is gone from the cache, or its removal is on the way: no refresh token
\* outlives its rotation or logout.
THEOREM NoGhosts ==
    ASSUME Ops \subseteq {"login", "refresh", "logout"}, "abort" \notin Events
    PROVE  Spec => []NoGhostKey
<1>1. Inv /\ Agreeing => NoGhostKey
  <2> SUFFICES ASSUME Inv, Agreeing, NEW s \in SessionIds, key[s] # NoUser, age[s] = "young",
                      row[s] = NoUser
               PROVE  Pending(s, {"dropKey"})
    BY DEF NoGhostKey
  <2>1. owner[s] # NoUser
    BY DEF Inv, OwnersAgree, StoredOwners
  <2>2. CASE s \in delivered
    BY <2>2 DEF Agreeing, Together
  <2>3. CASE s \notin delivered
    <3>1. PICK r \in Requests : req[r].pc \in StoreSteps /\ req[r].s = s
      BY <2>1, <2>3 DEF Agreeing, Created, Pending
    <3> QED
      BY <2>1, <3>1 DEF Agreeing, Sound
  <2> QED
    BY <2>2, <2>3
<1> QED
  BY <1>1, AgreementHolds, PTL

\* With the same requests, whenever none is under way table, cache and counted set
\* tell the same of every session that is not expired: what the set counts too much
\* is expired.
THEOREM StoresMeet ==
    ASSUME Ops \subseteq {"login", "refresh", "logout"}, "abort" \notin Events
    PROVE  Spec => []StoresAgree
<1>1. Inv /\ Agreeing => StoresAgree
  <2> SUFFICES ASSUME Inv, Agreeing, Quiescent, NEW s \in SessionIds, age[s] = "young"
               PROVE  /\ key[s] = row[s]
                      /\ \A u \in Users : s \in members[u] <=> row[s] = u
    BY DEF StoresAgree
  <2>1. \A pcs : Pending(s, pcs) => "idle" \in pcs
    BY DEF Quiescent, Pending, Idle
  <2>2. /\ row[s] \in {owner[s], NoUser} /\ key[s] \in {owner[s], NoUser}
        /\ \A u \in Users : s \in members[u] => owner[s] = u
        /\ owner[s] \in Users \cup {NoUser} /\ NoUser \notin Users
        /\ s \in delivered => owner[s] # NoUser
    BY SessionsAssumption DEF Inv, OwnersAgree, StoredOwners, TypeOK
  <2>3. CASE owner[s] = NoUser
    BY <2>2, <2>3
  <2>4. CASE owner[s] # NoUser
    <3>1. s \in delivered
      BY <2>1, <2>4 DEF Agreeing, Created, StoreSteps
    <3>2. /\ ~ Pending(s, {"dropKey"}) /\ ~ Pending(s, {"dropKey", "dropMember"})
      BY <2>1
    <3> QED
      BY <2>2, <2>4, <3>1, <3>2 DEF Agreeing, Together
  <2> QED
    BY <2>3, <2>4
<1> QED
  BY <1>1, AgreementHolds, PTL
=============================================================================
