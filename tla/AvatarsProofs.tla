--------------------------- MODULE AvatarsProofs ---------------------------
(***************************************************************************)
(* Users keep to their own objects, for any number of users, objects and   *)
(* concurrent handlers.                                                    *)
(***************************************************************************)
EXTENDS AvatarsProps, TLAPS

\* A handler has its user, and past the lookup an object.
Known ==
    \A r \in Requests : At(r, "idle") \/
        /\ req[r].u \in Users
        /\ ~ At(r, "findAvatar") => req[r].o \in Objects

Inv == TypeOK /\ Known /\ OwnAvatar

\* An idle slot is well-typed and satisfies the invariant of its slot.
LEMMA IdleTyped == Idle \in Request /\ Idle.pc = "idle"
  BY DEF Idle, Request, Steps

\* The invariant holds in the beginning.
LEMMA InitInv == Init => Inv
<1> SUFFICES ASSUME Init PROVE Inv
  OBVIOUS
<1>1. \A r \in Requests : req[r] = Idle
  BY DEF Init
<1>2. TypeOK
  BY IdleTyped DEF Init, TypeOK
<1>3. Known
  BY <1>1, IdleTyped DEF Known, At
<1>4. OwnAvatar
  BY <1>1, IdleTyped DEF Init, OwnAvatar, At
<1> QED
  BY <1>2, <1>3, <1>4 DEF Inv

\* What a handler may write into its slot.
Becomes(r, q) == req' = [req EXCEPT ![r] = q]

Fine(q) ==
    /\ q \in Request
    /\ \/ q.pc = "idle"
       \/ q.u \in Users /\ (q.pc # "findAvatar" => q.o \in Objects)
    /\ q.pc = "deleteObject" => prefix[q.o] = q.u

\* What a handler may do to the bucket and the table.
Harmless ==
    /\ UNCHANGED <<prefix, open>> /\ stored' \subseteq stored
    /\ avatar' \in [Users -> Objects \cup {NoObject}]
    /\ \A u \in Users : \/ avatar'[u] = avatar[u]
                        \/ avatar'[u] = NoObject
                        \/ avatar'[u] \in Objects /\ prefix[avatar'[u]] = u

\* A handler that ends relies on nothing.
LEMMA IdleFine == Fine(Idle)
  BY IdleTyped DEF Fine

\* A step that only reads does no harm.
LEMMA ReadOnlyHarmless == TypeOK /\ ReadOnly => Harmless
<1> SUFFICES ASSUME TypeOK, ReadOnly PROVE Harmless
  OBVIOUS
<1>1. avatar' = avatar /\ prefix' = prefix /\ open' = open /\ stored' = stored
  BY DEF ReadOnly
<1>2. avatar \in [Users -> Objects \cup {NoObject}]
  BY DEF TypeOK
<1> QED
  BY <1>1, <1>2 DEF Harmless

\* Nothing else is needed to keep the invariant.
LEMMA SlotStep ==
    ASSUME Inv, NEW r \in Requests, NEW q, Becomes(r, q), Fine(q), Harmless
    PROVE  Inv'
<1> USE DEF Becomes, Fine, Harmless
<1>1. req \in [Requests -> Request] /\ req' \in [Requests -> Request]
  BY DEF Inv, TypeOK
<1>2. req'[r] = q /\ \A s \in Requests \ {r} : req'[s] = req[s]
  BY <1>1
<1>3. TypeOK'
  BY <1>1 DEF Inv, TypeOK
<1>4. Known'
  BY <1>2 DEF Inv, Known, At
<1>5. OwnAvatar'
  BY <1>2 DEF Inv, OwnAvatar, At
<1> QED
  BY <1>3, <1>4, <1>5 DEF Inv

\* Clients draw keys and upload; the prefix of a key never changes.
LEMMA ClientStep == ASSUME Inv, Client PROVE Inv'
<1>1. TypeOK /\ Known /\ OwnAvatar
  BY DEF Inv
<1>2. ASSUME NEW u \in Users, NEW o \in Objects, UploadUrl(u, o) PROVE Inv'
  <2>1. TypeOK'
    BY <1>1, <1>2 DEF UploadUrl, TypeOK
  <2>2. Known'
    BY <1>1, <1>2 DEF UploadUrl, Known, At
  <2>3. \A p \in Objects : prefix[p] \in Users => prefix'[p] = prefix[p]
    BY <1>1, <1>2, AvatarsAssumption DEF UploadUrl, TypeOK
  <2>4. OwnAvatar'
    BY <1>1, <1>2, <2>3 DEF UploadUrl, OwnAvatar, At, Known, TypeOK
  <2> QED
    BY <2>1, <2>2, <2>4 DEF Inv
<1>3. ASSUME NEW o \in Objects, Put(o) \/ UrlExpires(o) PROVE Inv'
  <2>1. TypeOK'
    BY <1>1, <1>3 DEF Put, UrlExpires, TypeOK
  <2>2. Known' /\ OwnAvatar'
    BY <1>1, <1>3 DEF Put, UrlExpires, Known, OwnAvatar, At
  <2> QED
    BY <2>1, <2>2 DEF Inv
<1> QED
  BY <1>2, <1>3 DEF Client

\* The handlers, one step each.
LEMMA HandlerStep ==
    ASSUME Inv, NEW r \in Requests, Arrive(r) \/ Step(r) \/ Abort(r)
    PROVE  Inv'
<1>1. TypeOK /\ Known /\ OwnAvatar /\ req[r] \in Request
  BY DEF Inv, TypeOK
<1>2. ASSUME Return(r), Harmless PROVE Inv'
  <2>1. Becomes(r, Idle)
    BY <1>2 DEF Return, Becomes
  <2> QED
    BY <1>2, <2>1, IdleFine, SlotStep
<1>3. ASSUME NEW u \in Users, NEW o \in Objects, StartConfirm(r, u, o) PROVE Inv'
  <2> DEFINE q == [pc |-> "head", u |-> u, o |-> o]
  <2>1. Becomes(r, q) /\ ReadOnly
    BY <1>3 DEF StartConfirm, Start, Becomes, ReadOnly
  <2>2. Fine(q)
    BY DEF Fine, Request, Steps
  <2> QED
    BY <1>1, <2>1, <2>2, ReadOnlyHarmless, SlotStep
<1>4. ASSUME NEW u \in Users, StartDelete(r, u) PROVE Inv'
  <2> DEFINE q == [pc |-> "findAvatar", u |-> u, o |-> NoObject]
  <2>1. Becomes(r, q) /\ ReadOnly
    BY <1>4 DEF StartDelete, Start, Becomes, ReadOnly
  <2>2. Fine(q)
    BY DEF Fine, Request, Steps
  <2> QED
    BY <1>1, <2>1, <2>2, ReadOnlyHarmless, SlotStep
<1>5. CASE Head(r)
  <2> DEFINE q == [pc |-> "set", u |-> req[r].u, o |-> req[r].o]
  <2>1. ReadOnly /\ (Becomes(r, q) \/ Return(r))
    BY <1>5 DEF Head, Goto, Becomes
  <2>2. Fine(q)
    BY <1>1, <1>5 DEF Head, Fine, Request, Steps, Known, At
  <2>3. CASE Becomes(r, q)
    BY <1>1, <2>1, <2>2, <2>3, ReadOnlyHarmless, SlotStep
  <2> QED
    BY <1>1, <1>2, <2>1, <2>3, ReadOnlyHarmless
<1>6. CASE SetAvatar(r)
  <2>1. req[r].u \in Users /\ req[r].o \in Objects
    BY <1>1, <1>6 DEF SetAvatar, Known, At
  <2>2. Harmless
    BY <1>1, <1>6, <2>1 DEF SetAvatar, OwnKey, Harmless, TypeOK
  <2> QED
    BY <1>2, <1>6, <2>2 DEF SetAvatar
<1>7. CASE FindAvatar(r)
  <2> DEFINE u == req[r].u
             o == avatar[u]
             q == [pc |-> "deleteObject", u |-> u, o |-> o]
  <2>1. ReadOnly /\ ((Becomes(r, q) /\ o # NoObject /\ OwnKey(u, o)) \/ Return(r))
    BY <1>7 DEF FindAvatar, Becomes
  <2>2. CASE Becomes(r, q) /\ o # NoObject /\ OwnKey(u, o)
    <3>1. u \in Users
      BY <1>1, <1>7 DEF FindAvatar, Known, At
    <3>2. o \in Objects /\ prefix[o] = u
      BY <1>1, <2>2, <3>1 DEF TypeOK, OwnKey
    <3>3. Fine(q)
      BY <3>1, <3>2 DEF Fine, Request, Steps
    <3> QED
      BY <1>1, <2>1, <2>2, <3>3, ReadOnlyHarmless, SlotStep
  <2> QED
    BY <1>1, <1>2, <2>1, <2>2, ReadOnlyHarmless
<1>8. CASE DeleteObject(r)
  <2> DEFINE q == [pc |-> "clear", u |-> req[r].u, o |-> req[r].o]
  <2>1. Fine(q)
    BY <1>1, <1>8 DEF DeleteObject, Known, At, Fine, Request, Steps
  <2>2. Becomes(r, q) /\ Harmless
    BY <1>1, <1>8 DEF DeleteObject, Goto, Becomes, Harmless, TypeOK
  <2> QED
    BY <2>1, <2>2, SlotStep
<1>9. CASE ClearAvatar(r)
  <2>1. Harmless
    BY <1>1, <1>9 DEF ClearAvatar, Harmless, TypeOK
  <2> QED
    BY <1>2, <1>9, <2>1 DEF ClearAvatar
<1>10. CASE Abort(r)
  BY <1>1, <1>2, <1>10, ReadOnlyHarmless DEF Abort
<1> QED
  BY <1>3, <1>4, <1>5, <1>6, <1>7, <1>8, <1>9, <1>10 DEF Arrive, Step

\* All of it at every moment.
THEOREM Invariance == Spec => []Inv
<1>1. Inv /\ [Next]_vars => Inv'
  <2>1. ASSUME Inv, UNCHANGED vars PROVE Inv'
    BY <2>1 DEF vars, Inv, TypeOK, Known, OwnAvatar, At
  <2> QED
    BY <2>1, ClientStep, HandlerStep DEF Next
<1> QED
  BY <1>1, InitInv, PTL DEF Spec

\* Every variable keeps its type; whoever can upload or has uploaded an object has
\* its key in their own name.
THEOREM TypeCorrect == Spec => []TypeOK
<1>1. Inv => TypeOK
  BY DEF Inv
<1> QED
  BY <1>1, Invariance, PTL

\* A user's avatar, and whatever a delete removes, is the user's own upload
\* (avatar-confirm.service.ts, avatar-delete.service.ts).
THEOREM OwnAvatarAlways == Spec => []OwnAvatar
<1>1. Inv => OwnAvatar
  BY DEF Inv
<1> QED
  BY <1>1, Invariance, PTL
=============================================================================
