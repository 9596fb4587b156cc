----------------------------- MODULE OtpProofs -----------------------------
(***************************************************************************)
(* How far codes, reset tokens and cooldowns can be undercut, for any      *)
(* number of codes, tokens and concurrent handlers.  What is still stored  *)
(* was not used, and nobody is about to count a use of it; a bound is a    *)
(* count of what happened plus the handlers that can still make it happen: *)
(* both together never exceed the number of slots.                         *)
(***************************************************************************)
EXTENDS OtpProps, FiniteSetTheorems, TLAPS

\* The handlers that can still do something, by what they would do.
Inserting(type) == {q \in Request : q.pc = "insert" /\ q.type = type}

Granting(c) == {q \in Request : q.row = c /\ q.pc = "grant"}

Changing(g) == {q \in Request : q.g = g /\ q.pc = "change"}

Sending(type) ==
    {q \in Request : q.type = type /\ q.op = "send" /\
                     q.pc \in {"findUser", "invalidate", "insert", "enqueue"}}

\* A code whose row is still to be written.
Holding(c) == {q \in Request : q.op = "send" /\ q.c = c /\ q.pc \in {"invalidate", "insert"}}

In(X) == {r \in Requests : req[r] \in X}

Num(X) == Cardinality(In(X))

\* What a handler knows where it is.
Fits(q) ==
    \/ q.op = "none" /\ q.pc = "idle" /\ q.row = NoCode
    \/ /\ q.op = "send" /\ q.type \in Types /\ q.row = NoCode
       /\ \/ q.pc \in {"readCooldown", "findUser"}
          \/ /\ q.pc \in {"invalidate", "insert", "enqueue", "setCooldown"}
             /\ q.c \in Codes /\ purpose[q.c] = q.type
    \/ /\ q.op = "verify" /\ q.type \in Types
       /\ \/ q.pc = "findToken" /\ q.row = NoCode
          \/ /\ q.pc \in {"compare", "confirm", "invalidate", "grant"}
             /\ q.row \in Codes /\ purpose[q.row] = q.type
             /\ q.pc \in {"invalidate", "grant"} => q.type = "password_reset" /\ q.c = q.row
    \/ /\ q.op = "reset" /\ q.g \in issued /\ q.row = NoCode
       /\ q.pc \in {"getGrant", "delGrant", "change"}

Shape == \A r \in Requests : Fits(req[r])

\* A code without a row yet: it was not drawn, or its one sender still holds it.
Pending(c) == purpose[c] = "none" \/ In(Holding(c)) # {}

Unused(c) == opened[c] = 0 /\ In(Granting(c)) = {}

Fresh ==
    \A c \in Codes :
        /\ Pending(c) => age[c] = 0 /\ \A r \in Requests : req[r].row # c
        /\ Pending(c) \/ age[c] > 0 => Unused(c)
        /\ \A r, s \in In(Holding(c)) : r = s

RowsCounted == \A type \in Types : Cardinality(Rows(type)) + Num(Inserting(type)) <= AtOnce

Whole ==
    \A g \in Grants : g \in grants \/ g \notin issued => resets[g] = 0 /\ In(Changing(g)) = {}

Cooling ==
    \A type \in Types :
        IF type \in cooldown THEN late[type] + Num(Sending(type)) < AtOnce ELSE late[type] = 0

Inv ==
    /\ TypeOK /\ Shape
    /\ Fresh /\ TypesApart
    /\ RowsCounted
    /\ Whole
    /\ Cooling

-----------------------------------------------------------------------------
\* A count of slots is a number, at most that of the slots, and less when one is out.
LEMMA Counts ==
    ASSUME NEW X
    PROVE  /\ AtOnce \in Nat /\ AtOnce > 0
           /\ Num(X) \in Nat /\ Num(X) <= AtOnce
           /\ Num(X)' \in Nat /\ Num(X)' <= AtOnce
           /\ IsFiniteSet(In(X)) /\ IsFiniteSet(In(X)')
           /\ \A r \in Requests : req'[r] \notin X => Num(X)' < AtOnce
<1>1. IsFiniteSet(Requests) /\ Requests # {}
  BY OtpAssumption
<1>2. In(X) \in SUBSET Requests /\ In(X)' \in SUBSET Requests
  BY DEF In
<1>3. AtOnce \in Nat /\ AtOnce # 0
  BY <1>1, FS_CardinalityType, FS_EmptySet DEF AtOnce
<1>4. /\ IsFiniteSet(In(X)) /\ IsFiniteSet(In(X)')
      /\ Cardinality(In(X)) <= AtOnce /\ Cardinality(In(X)') <= AtOnce
      /\ Cardinality(Requests) = Cardinality(In(X)') => Requests = In(X)'
  BY <1>1, <1>2, FS_Subset DEF AtOnce
<1>5. Cardinality(In(X)) \in Nat /\ Cardinality(In(X)') \in Nat
  BY <1>4, FS_CardinalityType
<1>6. ASSUME NEW r \in Requests, req'[r] \notin X
      PROVE  Cardinality(In(X)') < AtOnce
  <2>1. In(X)' # Requests
    BY <1>6 DEF In
  <2> QED
    BY <2>1, <1>3, <1>4, <1>5 DEF AtOnce
<1> QED
  BY <1>3, <1>4, <1>5, <1>6 DEF Num

\* Where nobody comes in the count does not grow.
LEMMA Shrinks ==
    ASSUME NEW X, \A s \in Requests : req'[s] \in X => req[s] \in X
    PROVE  Num(X)' <= Num(X)
<1>1. In(X)' \in SUBSET In(X)
  BY DEF In
<1> QED
  BY <1>1, Counts, FS_Subset DEF Num

\* Where one goes out and nobody comes in it falls.
LEMMA Leaves ==
    ASSUME NEW X, NEW r \in Requests, req[r] \in X, req'[r] \notin X,
           \A s \in Requests : s # r => req'[s] = req[s]
    PROVE  Num(X)' = Num(X) - 1
<1>1. In(X)' = In(X) \ {r} /\ r \in In(X)
  BY DEF In
<1> QED
  BY <1>1, Counts, FS_RemoveElement DEF Num

\* The rows of a type are finitely many.
LEMMA RowsFinite ==
    ASSUME NEW type
    PROVE  /\ IsFiniteSet(Rows(type)) /\ Cardinality(Rows(type)) \in Nat
           /\ IsFiniteSet(Rows(type)') /\ Cardinality(Rows(type)') \in Nat
<1>1. Rows(type) \in SUBSET Codes /\ Rows(type)' \in SUBSET Codes
  BY DEF Rows
<1> QED
  BY <1>1, OtpAssumption, FS_Subset, FS_CardinalityType

-----------------------------------------------------------------------------
\* What the environment does: no handler moves.
Surroundings ==
    \/ \E c \in Codes : Mail(c) \/ TokenExpires(c)
    \/ \E type \in Types : CooldownEnds(type)
    \/ \E g \in Grants : GrantExpires(g)

\* A handler's step, with the requests that arrive and those that are cut off.
Handler(r) == Arrive(r) \/ Step(r) \/ Abort(r)

\* Every step is of the one or the other kind.
LEMMA Kinds == Next => (\E r \in Requests : Handler(r)) \/ Surroundings
  BY DEF Next, Handler, Surroundings

\* An empty slot.
LEMMA IdleIs == Idle \in Request /\ Idle.op = "none" /\ Idle.pc = "idle" /\ Idle.row = NoCode
  BY DEF Idle, Request, Steps

\* Requests that arrive change their slot only, to one of three beginnings.
LEMMA Arrivals ==
    ASSUME TypeOK, NEW r \in Requests, Arrive(r)
    PROVE  /\ ReadOnly /\ req[r] = Idle
           /\ \E q \in Request :
                /\ req' = [req EXCEPT ![r] = q]
                /\ q.row = NoCode
                /\ \/ q.op = "send" /\ q.type \in Types /\ q.pc = "readCooldown"
                   \/ q.op = "verify" /\ q.type \in Types /\ q.pc = "findToken"
                   \/ q.op = "reset" /\ q.g \in issued /\ q.pc = "getGrant"
<1>1. CASE \E type \in Types : StartSend(r, type)
  <2>1. PICK type \in Types : StartSend(r, type)
    BY <1>1
  <2> DEFINE q == [Idle EXCEPT !.op = "send", !.type = type, !.pc = "readCooldown"]
  <2>2. q \in Request /\ q.row = NoCode /\ q.op = "send" /\ q.type \in Types /\ q.pc = "readCooldown"
    BY IdleIs DEF Request, Steps
  <2>3. req' = [req EXCEPT ![r] = q] /\ ReadOnly /\ req[r] = Idle
    BY <2>1 DEF StartSend, Start
  <2> QED
    BY <2>2, <2>3
<1>2. CASE \E type \in Types, c \in Codes : StartVerify(r, type, c)
  <2>1. PICK type \in Types, c \in Codes : StartVerify(r, type, c)
    BY <1>2
  <2> DEFINE q == [Idle EXCEPT !.op = "verify", !.type = type, !.pc = "findToken", !.c = c]
  <2>2. q \in Request /\ q.row = NoCode /\ q.op = "verify" /\ q.type \in Types /\ q.pc = "findToken"
    BY IdleIs DEF Request, Steps
  <2>3. req' = [req EXCEPT ![r] = q] /\ ReadOnly /\ req[r] = Idle
    BY <2>1 DEF StartVerify, Start
  <2> QED
    BY <2>2, <2>3
<1>3. CASE \E g \in Grants : StartReset(r, g)
  <2>1. PICK g \in Grants : StartReset(r, g)
    BY <1>3
  <2> DEFINE q == [Idle EXCEPT !.op = "reset", !.pc = "getGrant", !.g = g]
  <2>2. q \in Request /\ q.row = NoCode /\ q.op = "reset" /\ q.g = g /\ q.pc = "getGrant"
    BY IdleIs DEF Request, Steps
  <2>3. req' = [req EXCEPT ![r] = q] /\ ReadOnly /\ req[r] = Idle /\ g \in issued
    BY <2>1 DEF StartReset, Start
  <2> QED
    BY <2>2, <2>3
<1> QED
  BY <1>1, <1>2, <1>3 DEF Arrive

\* A handler's step changes its own slot only.
LEMMA OneSlot ==
    ASSUME TypeOK, NEW r \in Requests, Handler(r)
    PROVE  /\ req' \in [Requests -> Request]
           /\ \A s \in Requests : s # r => req'[s] = req[s]
<1> USE IdleIs
<1>0. req \in [Requests -> Request] /\ issued \subseteq Grants
  BY DEF TypeOK
<1>1. CASE Arrive(r)
  BY <1>0, <1>1, Arrivals
<1>2. CASE Abort(r)
  BY <1>0, <1>2 DEF Abort, Return
<1> USE DEF Request, Steps
<1>3. CASE ReadCooldown(r)
  BY <1>0, <1>3 DEF ReadCooldown, Goto, Return
<1>4. CASE FindUser(r)
  BY <1>0, <1>4 DEF FindUser, Goto, Return, Undrawn
<1>5. CASE Invalidate(r)
  BY <1>0, <1>5 DEF Invalidate, AfterInvalidate, Goto, Return
<1>6. CASE Insert(r)
  BY <1>0, <1>6 DEF Insert, Goto, Return
<1>7. CASE Enqueue(r)
  BY <1>0, <1>7 DEF Enqueue, Goto, Return
<1>8. CASE SetCooldown(r)
  BY <1>0, <1>8 DEF SetCooldown, Goto, Return
<1>9. CASE FindToken(r)
  BY <1>0, <1>9 DEF FindToken, Goto, Return, OfType, Rows
<1>10. CASE Compare(r)
  BY <1>0, <1>10 DEF Compare, Goto, Return
<1>11. CASE Confirm(r)
  BY <1>0, <1>11 DEF Confirm, Goto, Return
<1>12. CASE Grant(r)
  BY <1>0, <1>12 DEF Grant, Goto, Return
<1>13. CASE GetGrant(r)
  BY <1>0, <1>13 DEF GetGrant, Goto, Return
<1>14. CASE DelGrant(r)
  BY <1>0, <1>14 DEF DelGrant, Goto, Return
<1>15. CASE Change(r)
  BY <1>0, <1>15 DEF Change, Goto, Return
<1> QED
  BY <1>1, <1>2, <1>3, <1>4, <1>5, <1>6, <1>7, <1>8, <1>9, <1>10, <1>11, <1>12, <1>13,
     <1>14, <1>15 DEF Handler, Step

\* What a code was drawn for does not change, and no reset token is drawn again.
Lasting ==
    /\ \A c \in Codes : purpose[c] # "none" => purpose'[c] = purpose[c]
    /\ issued \subseteq issued'

\* Every step keeps the types.
LEMMA Typed ==
    ASSUME TypeOK, Shape, Next
    PROVE  TypeOK' /\ Lasting
<1> USE DEF TypeOK, Lasting
<1>1. ASSUME NEW r \in Requests, Handler(r)
      PROVE  TypeOK' /\ Lasting
  <2>1. req' \in [Requests -> Request] /\ req[r] \in Request
    BY <1>1, OneSlot
  <2>2. /\ req[r].c \in Codes \cup {NoCode} /\ req[r].g \in Grants \cup {NoGrant}
        /\ req[r].row \in Codes \cup {NoCode} /\ req[r].type \in Types \cup {"none"}
    BY <2>1 DEF Request
  <2>0. /\ At(r, "enqueue") => req[r].c \in Codes
        /\ At(r, "enqueue") \/ At(r, "setCooldown") => req[r].type \in Types
        /\ At(r, "grant") => req[r].c \in Codes
        /\ At(r, "delGrant") \/ At(r, "change") => req[r].g \in Grants
    BY DEF Shape, Fits, At
  <2>3. CASE Arrive(r)
    BY <2>1, <2>3, Arrivals DEF ReadOnly, mails, resetting
  <2>4. CASE Abort(r) \/ ReadCooldown(r) \/ FindToken(r) \/ Compare(r) \/ GetGrant(r)
    BY <2>1, <2>4 DEF Abort, ReadCooldown, FindToken, Compare, GetGrant, ReadOnly, mails, resetting
  <2>5. CASE FindUser(r)
    BY <2>1, <2>2, <2>5 DEF FindUser, Undrawn, mails, resetting
  <2>6. CASE Invalidate(r)
    BY <2>1, <2>6 DEF Invalidate, mails, resetting
  <2>7. CASE Insert(r)
    BY <2>1, <2>7 DEF Insert, Rows, mails, resetting
  <2>8. CASE Enqueue(r)
    BY <2>1, <2>0, <2>8 DEF Enqueue, Queued, mails, resetting
  <2>9. CASE SetCooldown(r)
    BY <2>1, <2>0, <2>9 DEF SetCooldown, mails, resetting
  <2>10. CASE Confirm(r)
    BY <2>1, <2>2, <2>10 DEF Confirm, mails, resetting
  <2>11. CASE Grant(r)
    BY <2>1, <2>0, <2>11 DEF Grant, mails, resetting
  <2>12. CASE DelGrant(r)
    BY <2>1, <2>12 DEF DelGrant, mails, resetting
  <2>13. CASE Change(r)
    BY <2>1, <2>0, <2>13 DEF Change, mails, resetting
  <2> QED
    BY <1>1, <2>3, <2>4, <2>5, <2>6, <2>7, <2>8, <2>9, <2>10, <2>11, <2>12, <2>13
       DEF Handler, Step
<1>2. CASE Surroundings
  BY <1>2 DEF Surroundings, Mail, TokenExpires, CooldownEnds, GrantExpires, mails, resetting
<1> QED
  BY <1>1, <1>2, Kinds

\* Every handler keeps knowing what it needs.
LEMMA ShapeKept ==
    ASSUME TypeOK, Shape, Next
    PROVE  Shape'
<1>0. Lasting
  BY Typed
<1>1. ASSUME NEW s \in Requests, req'[s] = req[s]
      PROVE  Fits(req[s])'
  BY <1>0, <1>1 DEF Shape, Fits, Lasting, Types
<1>2. ASSUME NEW r \in Requests, Handler(r)
      PROVE  Shape'
  <2>1. /\ req' \in [Requests -> Request]
        /\ \A s \in Requests : s # r => req'[s] = req[s]
    BY <1>2, OneSlot
  <2>2. ASSUME Fits(req[r])'
        PROVE  Shape'
    BY <1>1, <2>1, <2>2 DEF Shape
  <2>3. Fits(req[r]) /\ req \in [Requests -> Request]
    BY DEF Shape, TypeOK
  <2>4. CASE req'[r] = Idle
    BY <2>2, <2>4, IdleIs DEF Fits
  <2>5. CASE Arrive(r)
    <3>1. issued' = issued
      BY <2>5, Arrivals DEF ReadOnly, resetting
    <3> QED
      BY <2>2, <2>3, <2>5, <3>1, Arrivals DEF Fits
  <2>6. CASE Abort(r) \/ SetCooldown(r) \/ Confirm(r) \/ Grant(r) \/ Change(r)
    BY <2>3, <2>4, <2>6 DEF Abort, SetCooldown, Confirm, Grant, Change, Return
  <2> USE <2>3, <2>4, <2>2, <1>0 DEF Fits, At
  <2>7. CASE ReadCooldown(r)
    BY <2>7 DEF ReadCooldown, Goto, Return, Request
  <2>8. CASE FindUser(r)
    BY <2>8 DEF FindUser, Return, Undrawn, TypeOK, Request
  <2>9. CASE Invalidate(r)
    BY <2>9 DEF Invalidate, AfterInvalidate, Goto, Request
  <2>10. CASE Insert(r)
    BY <2>10 DEF Insert, Goto, Request
  <2>11. CASE Enqueue(r)
    BY <2>11 DEF Enqueue, Goto, Request
  <2>12. CASE FindToken(r)
    BY <2>12 DEF FindToken, Return, OfType, Rows, ReadOnly, Request
  <2>13. CASE Compare(r)
    BY <2>13 DEF Compare, Goto, Return, ReadOnly, Types, Request
  <2>14. CASE GetGrant(r)
    BY <2>14 DEF GetGrant, Goto, Return, ReadOnly, resetting, Request
  <2>15. CASE DelGrant(r)
    BY <2>15 DEF DelGrant, Goto, Request
  <2> QED
    BY <1>2, <2>5, <2>6, <2>7, <2>8, <2>9, <2>10, <2>11, <2>12, <2>13, <2>14, <2>15
       DEF Handler, Step
<1>3. CASE Surroundings
  <2>1. req' = req
    BY <1>3 DEF Surroundings, Mail, TokenExpires, CooldownEnds, GrantExpires
  <2> QED
    BY <1>1, <2>1 DEF Shape
<1> QED
  BY <1>2, <1>3, Kinds

-----------------------------------------------------------------------------
\* What the environment leaves alone.
LEMMA Outside ==
    ASSUME TypeOK, Surroundings
    PROVE  /\ UNCHANGED <<req, purpose, opened, issued, resets>>
           /\ \A c \in Codes : age'[c] > 0 => age[c] > 0
           /\ grants' \subseteq grants /\ cooldown' \subseteq cooldown
           /\ \A type \in Types : \/ late'[type] = late[type] /\ (type \in cooldown <=> type \in cooldown')
                                  \/ late'[type] = 0 /\ type \notin cooldown'
  BY DEF Surroundings, Mail, TokenExpires, CooldownEnds, GrantExpires, TypeOK, mails, resetting

\* Only issuing a reset token counts, for a reset code.
LEMMA OpenedMoves ==
    ASSUME TypeOK, Shape, NEW r \in Requests, Handler(r)
    PROVE  \/ opened' = opened
           \/ /\ req[r].c \in Codes /\ purpose[req[r].c] = "password_reset"
              /\ opened' = [opened EXCEPT ![req[r].c] = opened[req[r].c] + 1]
<1>1. CASE Grant(r)
  BY <1>1 DEF Grant, Shape, Fits, At
<1>2. CASE Arrive(r)
  BY <1>2, Arrivals DEF ReadOnly, resetting
<1>3. CASE Step(r) /\ ~ Grant(r)
  BY <1>3 DEF Step, ReadCooldown, FindUser, Invalidate, Insert, Enqueue, SetCooldown, FindToken,
              Compare, Confirm, GetGrant, DelGrant, Change, ReadOnly, resetting
<1> QED
  BY <1>1, <1>2, <1>3 DEF Handler, Abort, ReadOnly, resetting

\* A reset token is issued for a reset code.
LEMMA ApartKept ==
    ASSUME TypeOK, Shape, Fresh, TypesApart, Next
    PROVE  TypesApart'
<1>1. opened \in [Codes -> Nat] /\ Lasting
  BY Typed DEF TypeOK
<1>2. ASSUME NEW c \in Codes, opened'[c] > 0
      PROVE  opened[c] > 0 \/ purpose[c] = "password_reset"
  BY <1>1, <1>2, Kinds, Outside, OpenedMoves
<1>3. ASSUME NEW c \in Codes, purpose[c] = "none"
      PROVE  opened[c] = 0
  BY <1>3 DEF Fresh, Pending, Unused
<1> QED
  BY <1>1, <1>2, <1>3 DEF TypesApart, Lasting

\* How a step of a handler can change what is known of a code.
FreshMove(r, c) ==
    /\ purpose'[c] = "none" => purpose[c] = "none"
    /\ req'[r] \in Holding(c) => req[r] \in Holding(c) \/ purpose[c] = "none"
    /\ age'[c] > 0 => age[c] > 0 \/ (req[r] \in Holding(c) /\ req'[r] \notin Holding(c))
    /\ req'[r].row = c => req[r].row = c \/ age[c] > 0
    /\ req'[r] \in Granting(c) => req[r] \in Granting(c) \/ (req[r].row = c /\ age'[c] = 0)
    /\ opened'[c] # opened[c] => req[r] \in Granting(c)

\* Every step changes it that way.
LEMMA FreshMoves ==
    ASSUME TypeOK, Shape, NEW r \in Requests, Handler(r), NEW c \in Codes
    PROVE  FreshMove(r, c)
<1>1. /\ req \in [Requests -> Request] /\ req' \in [Requests -> Request] /\ Fits(req[r])
      /\ purpose \in [Codes -> Types \cup {"none"}] /\ age \in [Codes -> Nat]
      /\ opened \in [Codes -> Nat] /\ NoCode \notin Codes /\ "none" \notin Types
  BY OneSlot, OtpAssumption DEF Shape, TypeOK, Types
<1>2. Idle \notin Holding(c) /\ Idle \notin Granting(c) /\ Idle.row # c
  BY <1>1, IdleIs DEF Holding, Granting
<1> USE DEF FreshMove
<1>3. CASE Arrive(r)
  BY <1>1, <1>3, Arrivals DEF Holding, Granting, ReadOnly, resetting
<1>4. CASE Abort(r) \/ SetCooldown(r) \/ Confirm(r) \/ Change(r)
  BY <1>1, <1>2, <1>4 DEF Abort, SetCooldown, Confirm, Change, Return, ReadOnly, resetting
<1>5. CASE Grant(r)
  BY <1>1, <1>2, <1>5 DEF Grant, Return, Granting, Fits, At
<1> USE <1>1, <1>2 DEF Request
<1>6. CASE ReadCooldown(r)
  BY <1>6 DEF ReadCooldown, Goto, Return, ReadOnly, resetting, Holding, Granting
<1>7. CASE FindUser(r)
  BY <1>7 DEF FindUser, Return, resetting, Holding, Granting, At, Undrawn
<1>8. CASE Invalidate(r)
  BY <1>8 DEF Invalidate, AfterInvalidate, Goto, resetting, Holding, Granting, At, Fits
<1>9. CASE Insert(r)
  BY <1>9 DEF Insert, Goto, resetting, Holding, Granting, At, Fits, Rows
<1>10. CASE Enqueue(r)
  BY <1>10 DEF Enqueue, Goto, resetting, Holding, Granting
<1>11. CASE FindToken(r)
  BY <1>11 DEF FindToken, Return, OfType, Rows, ReadOnly, resetting, Holding, Granting
<1>12. CASE Compare(r)
  BY <1>12 DEF Compare, Goto, Return, ReadOnly, resetting, Holding, Granting, At, Fits
<1>13. CASE GetGrant(r)
  BY <1>13 DEF GetGrant, Goto, Return, ReadOnly, resetting, Holding, Granting
<1>14. CASE DelGrant(r)
  BY <1>14 DEF DelGrant, Goto, Holding, Granting
<1> QED
  BY <1>3, <1>4, <1>5, <1>6, <1>7, <1>8, <1>9, <1>10, <1>11, <1>12, <1>13, <1>14
     DEF Handler, Step

\* A code is used by its one sender until its row is written, and by nobody while
\* the row is there.
LEMMA FreshKept ==
    ASSUME TypeOK, Shape, Fresh, Next
    PROVE  Fresh'
<1> SUFFICES ASSUME NEW c \in Codes
             PROVE  /\ Pending(c)' => age'[c] = 0 /\ \A s \in Requests : req'[s].row # c
                    /\ Pending(c)' \/ age'[c] > 0 => Unused(c)'
                    /\ \A s, t \in In(Holding(c))' : s = t
  BY DEF Fresh
<1>1. /\ age[c] \in Nat /\ age'[c] \in Nat /\ opened[c] \in Nat
      /\ Pending(c) => age[c] = 0 /\ \A s \in Requests : req[s].row # c
      /\ Pending(c) \/ age[c] > 0 => Unused(c)
      /\ \A s, t \in In(Holding(c)) : s = t
  BY Typed DEF TypeOK, Fresh
<1>2. purpose[c] = "none" => In(Holding(c)) = {}
  BY DEF Shape, Fits, In, Holding, Types
<1>3. ASSUME NEW r \in Requests, Handler(r)
      PROVE  /\ Pending(c)' => age'[c] = 0 /\ \A s \in Requests : req'[s].row # c
             /\ Pending(c)' \/ age'[c] > 0 => Unused(c)'
             /\ \A s, t \in In(Holding(c))' : s = t
  <2>1. (\A s \in Requests : s # r => req'[s] = req[s]) /\ FreshMove(r, c)
    BY <1>3, OneSlot, FreshMoves
  <2>2. \A s \in In(Holding(c))' : s = r \/ s \in In(Holding(c))
    BY <2>1 DEF In
  <2>3. \A s, t \in In(Holding(c))' : s = t
    BY <1>1, <1>2, <2>1, <2>2 DEF In, FreshMove
  <2>4. Pending(c)' => Pending(c)
    BY <2>1 DEF Pending, In, FreshMove
  <2>5. Pending(c)' => age'[c] = 0
    <3>1. SUFFICES ASSUME Pending(c)', age'[c] > 0
                   PROVE  FALSE
      BY <1>1
    <3>2. req[r] \in Holding(c) /\ req'[r] \notin Holding(c)
      BY <1>1, <2>1, <2>4, <3>1 DEF FreshMove
    <3>3. In(Holding(c))' = {}
      BY <1>1, <2>1, <3>2 DEF In
    <3>4. purpose[c] # "none"
      BY <1>2, <3>2 DEF In
    <3> QED
      BY <2>1, <3>1, <3>3, <3>4 DEF Pending, FreshMove
  <2>6. Pending(c)' => \A s \in Requests : req'[s].row # c
    BY <1>1, <2>1, <2>4 DEF FreshMove
  <2>7. Pending(c)' \/ age'[c] > 0 => Unused(c)'
    <3>1. SUFFICES ASSUME Pending(c)' \/ age'[c] > 0
                   PROVE  Unused(c)'
      OBVIOUS
    <3>2. Pending(c) \/ age[c] > 0
      BY <2>1, <2>4, <3>1 DEF FreshMove, Pending, In
    <3>3. opened[c] = 0 /\ In(Granting(c)) = {}
      BY <1>1, <3>2 DEF Unused
    <3>4. opened'[c] = 0
      BY <2>1, <3>3 DEF FreshMove, In
    <3>5. req'[r] \notin Granting(c)
      <4>1. SUFFICES ASSUME req[r].row = c, age'[c] = 0
                     PROVE  FALSE
        BY <2>1, <3>3 DEF FreshMove, In
      <4>2. Pending(c)
        BY <2>4, <3>1, <4>1
      <4> QED
        BY <1>1, <4>1, <4>2
    <3> QED
      BY <2>1, <3>3, <3>4, <3>5 DEF Unused, In
  <2> QED
    BY <2>3, <2>5, <2>6, <2>7
<1>4. CASE Surroundings
  BY <1>1, <1>4, Outside DEF Pending, Unused, In
<1> QED
  BY <1>3, <1>4, Kinds

-----------------------------------------------------------------------------
\* A row appears where a handler was about to insert it, and handlers come to that
\* point when there is no row of their type.
LEMMA RowsMoves ==
    ASSUME TypeOK, Shape, Fresh, NEW r \in Requests, Handler(r), NEW type \in Types
    PROVE  \/ /\ Rows(type)' \in SUBSET Rows(type)
              /\ req'[r] \in Inserting(type) => req[r] \in Inserting(type)
           \/ Rows(type)' = {}
           \/ /\ Rows(type)' \in SUBSET (Rows(type) \cup {req[r].c})
              /\ req[r] \in Inserting(type) /\ req'[r] \notin Inserting(type)
<1>1. /\ req \in [Requests -> Request] /\ req' \in [Requests -> Request] /\ Fits(req[r])
      /\ purpose \in [Codes -> Types \cup {"none"}] /\ age \in [Codes -> Nat] /\ "none" \notin Types
      /\ \A c \in Codes : purpose[c] = "none" => age[c] = 0
  BY OneSlot DEF Shape, TypeOK, Types, Fresh, Pending
<1>2. Idle \notin Inserting(type)
  BY IdleIs DEF Inserting
<1>3. ASSUME age' = age, purpose' = purpose
      PROVE  Rows(type)' \in SUBSET Rows(type)
  BY <1>3 DEF Rows
<1>4. CASE Arrive(r)
  BY <1>1, <1>3, <1>4, Arrivals DEF Inserting, ReadOnly
<1>5. CASE Abort(r) \/ SetCooldown(r) \/ Change(r) \/ Grant(r)
  BY <1>1, <1>2, <1>3, <1>5 DEF Abort, SetCooldown, Change, Grant, Return, ReadOnly
<1>6. CASE Confirm(r)
  BY <1>1, <1>2, <1>6 DEF Confirm, Return, Rows
<1> USE <1>1, <1>2 DEF Request
<1>7. CASE ReadCooldown(r)
  BY <1>3, <1>7 DEF ReadCooldown, Goto, Return, ReadOnly, Inserting
<1>8. CASE FindUser(r)
  BY <1>8 DEF FindUser, Return, Inserting, Undrawn, Rows
<1>9. CASE Invalidate(r)
  BY <1>9 DEF Invalidate, AfterInvalidate, Goto, Inserting, At, Fits, Rows
<1>10. CASE Insert(r)
  BY <1>10 DEF Insert, Goto, Inserting, At, Fits, Rows
<1>11. CASE Enqueue(r)
  BY <1>3, <1>11 DEF Enqueue, Goto, Inserting
<1>12. CASE FindToken(r)
  BY <1>3, <1>12 DEF FindToken, Return, OfType, Rows, ReadOnly, Inserting
<1>13. CASE Compare(r)
  BY <1>3, <1>13 DEF Compare, Goto, Return, ReadOnly, Inserting
<1>14. CASE GetGrant(r) \/ DelGrant(r)
  BY <1>3, <1>14 DEF GetGrant, DelGrant, Goto, Return, ReadOnly, Inserting
<1> QED
  BY <1>4, <1>5, <1>6, <1>7, <1>8, <1>9, <1>10, <1>11, <1>12, <1>13, <1>14
     DEF Handler, Step

\* Inserting moves a sender from those that can add a row to those that did.
LEMMA RowsCountedKept ==
    ASSUME TypeOK, Shape, Fresh, RowsCounted, Next
    PROVE  RowsCounted'
<1> SUFFICES ASSUME NEW type \in Types
             PROVE  Cardinality(Rows(type)') + Num(Inserting(type))' <= AtOnce
  BY DEF RowsCounted
<1>1. Cardinality(Rows(type)) + Num(Inserting(type)) <= AtOnce
  BY DEF RowsCounted
<1>2. /\ AtOnce \in Nat /\ Num(Inserting(type)) \in Nat
      /\ Num(Inserting(type))' \in Nat /\ Num(Inserting(type))' <= AtOnce
      /\ IsFiniteSet(Rows(type)) /\ Cardinality(Rows(type)) \in Nat
      /\ Cardinality(Rows(type)') \in Nat
  BY Counts, RowsFinite
<1>3. ASSUME Rows(type)' \in SUBSET Rows(type)
      PROVE  Cardinality(Rows(type)') <= Cardinality(Rows(type))
  BY <1>2, <1>3, FS_Subset
<1>4. ASSUME NEW r \in Requests, Handler(r)
      PROVE  Cardinality(Rows(type)') + Num(Inserting(type))' <= AtOnce
  <2>1. \A s \in Requests : s # r => req'[s] = req[s]
    BY <1>4, OneSlot
  <2>2. CASE /\ Rows(type)' \in SUBSET Rows(type)
             /\ req'[r] \in Inserting(type) => req[r] \in Inserting(type)
    <3>1. Num(Inserting(type))' <= Num(Inserting(type))
      BY <2>1, <2>2, Shrinks
    <3> QED
      BY <1>1, <1>2, <1>3, <2>2, <3>1
  <2>3. CASE Rows(type)' = {}
    <3>1. Cardinality(Rows(type)') = 0
      BY <2>3, FS_EmptySet
    <3> QED
      BY <1>2, <3>1
  <2>4. CASE /\ Rows(type)' \in SUBSET (Rows(type) \cup {req[r].c})
             /\ req[r] \in Inserting(type) /\ req'[r] \notin Inserting(type)
    <3>1. Num(Inserting(type))' = Num(Inserting(type)) - 1
      BY <2>1, <2>4, Leaves
    <3>2. PICK more : more = Rows(type) \cup {req[r].c}
      OBVIOUS
    <3>3. IsFiniteSet(more) /\ Cardinality(more) <= Cardinality(Rows(type)) + 1
      <4>1. PICK rows, c : rows = Rows(type) /\ c = req[r].c
        OBVIOUS
      <4>2. more = rows \cup {c} /\ IsFiniteSet(rows) /\ Cardinality(rows) \in Nat
        BY <1>2, <3>2, <4>1
      <4>3. /\ IsFiniteSet(rows \cup {c})
            /\ Cardinality(rows \cup {c}) = IF c \in rows THEN Cardinality(rows)
                                            ELSE Cardinality(rows) + 1
        BY <4>2, FS_AddElement
      <4> QED
        BY <4>1, <4>2, <4>3
    <3>4. Cardinality(more) \in Nat /\ Cardinality(Rows(type)') <= Cardinality(more)
      BY <2>4, <3>2, <3>3, FS_Subset, FS_CardinalityType
    <3> QED
      BY <1>1, <1>2, <3>1, <3>3, <3>4
  <2> QED
    BY <1>4, <2>2, <2>3, <2>4, RowsMoves
<1>5. CASE Surroundings
  <2>1. req' = req /\ Rows(type)' \in SUBSET Rows(type)
    BY <1>5, Outside DEF Rows
  <2>2. Num(Inserting(type))' <= Num(Inserting(type))
    BY <2>1, Shrinks
  <2> QED
    BY <1>1, <1>2, <1>3, <2>1, <2>2
<1> QED
  BY <1>4, <1>5, Kinds

-----------------------------------------------------------------------------
\* How a step of a handler can change what is known of a reset token.
GrantMove(r, g) ==
    /\ g \in grants' => g \in grants \/ g \notin issued
    /\ g \in issued => g \in issued'
    /\ req'[r] \in Changing(g) => req[r] \in Changing(g) \/ (g \notin grants' /\ g \in issued')
    /\ \/ resets'[g] = resets[g]
       \/ req[r] \in Changing(g) /\ req'[r] = Idle /\ resets'[g] = resets[g] + 1

\* Every step changes it that way.
LEMMA GrantMoves ==
    ASSUME TypeOK, Shape, NEW r \in Requests, Handler(r), NEW g \in Grants
    PROVE  GrantMove(r, g)
<1>1. /\ req \in [Requests -> Request] /\ req' \in [Requests -> Request] /\ Fits(req[r])
      /\ resets \in [Grants -> Nat] /\ grants \subseteq issued /\ issued \subseteq Grants
  BY OneSlot DEF Shape, TypeOK
<1>2. Idle \notin Changing(g)
  BY IdleIs DEF Changing
<1> USE DEF GrantMove
<1>3. CASE Arrive(r)
  BY <1>1, <1>3, Arrivals DEF Changing, ReadOnly, resetting
<1>4. CASE Abort(r) \/ SetCooldown(r) \/ Confirm(r) \/ Grant(r)
  BY <1>1, <1>2, <1>4 DEF Abort, SetCooldown, Confirm, Grant, Return, ReadOnly, resetting
<1>5. CASE Change(r)
  BY <1>1, <1>2, <1>5 DEF Change, Return, Changing, At, Fits
<1> USE <1>1, <1>2 DEF Request
<1>6. CASE ReadCooldown(r)
  BY <1>6 DEF ReadCooldown, Goto, Return, ReadOnly, resetting, Changing
<1>7. CASE FindUser(r)
  BY <1>7 DEF FindUser, Return, resetting, Changing
<1>8. CASE Invalidate(r)
  BY <1>8 DEF Invalidate, AfterInvalidate, Goto, resetting, Changing
<1>9. CASE Insert(r)
  BY <1>9 DEF Insert, Goto, resetting, Changing
<1>10. CASE Enqueue(r)
  BY <1>10 DEF Enqueue, Goto, resetting, Changing
<1>11. CASE FindToken(r)
  BY <1>11 DEF FindToken, Return, ReadOnly, resetting, Changing
<1>12. CASE Compare(r)
  BY <1>12 DEF Compare, Goto, Return, ReadOnly, resetting, Changing
<1>13. CASE GetGrant(r)
  BY <1>13 DEF GetGrant, Goto, Return, ReadOnly, resetting, Changing
<1>14. CASE DelGrant(r)
  BY <1>14 DEF DelGrant, Goto, Changing, At, Fits
<1> QED
  BY <1>3, <1>4, <1>5, <1>6, <1>7, <1>8, <1>9, <1>10, <1>11, <1>12, <1>13, <1>14
     DEF Handler, Step

\* While a reset token is there nobody has used it.
LEMMA WholeKept ==
    ASSUME TypeOK, Shape, Whole, Next
    PROVE  Whole'
<1> SUFFICES ASSUME NEW g \in Grants, g \in grants' \/ g \notin issued'
             PROVE  resets'[g] = 0 /\ In(Changing(g))' = {}
  BY DEF Whole
<1>1. g \in grants \/ g \notin issued => resets[g] = 0 /\ In(Changing(g)) = {}
  BY DEF Whole
<1>2. ASSUME NEW r \in Requests, Handler(r)
      PROVE  resets'[g] = 0 /\ In(Changing(g))' = {}
  <2>1. (\A s \in Requests : s # r => req'[s] = req[s]) /\ GrantMove(r, g)
    BY <1>2, OneSlot, GrantMoves
  <2> QED
    BY <1>1, <2>1 DEF GrantMove, In
<1>3. CASE Surroundings
  BY <1>1, <1>3, Outside DEF In
<1> QED
  BY <1>2, <1>3, Kinds

-----------------------------------------------------------------------------
\* How a step of a handler can change what is known of a cooldown.
CoolMove(r, type) ==
    \/ /\ type \in cooldown' <=> type \in cooldown
       /\ late'[type] = late[type]
       /\ req'[r] \in Sending(type) => req[r] \in Sending(type) \/ type \notin cooldown
    \/ /\ type \in cooldown' <=> type \in cooldown
       /\ req[r] \in Sending(type) /\ req'[r] \notin Sending(type)
       /\ late'[type] = IF type \in cooldown THEN late[type] + 1 ELSE late[type]
    \/ /\ type \in cooldown' /\ late'[type] = late[type]
       /\ req[r] \notin Sending(type) /\ req'[r] = Idle

\* Every step changes it that way.
LEMMA CoolMoves ==
    ASSUME TypeOK, Shape, NEW r \in Requests, Handler(r), NEW type \in Types
    PROVE  CoolMove(r, type)
<1>1. /\ req \in [Requests -> Request] /\ req' \in [Requests -> Request] /\ Fits(req[r])
      /\ late \in [Types -> Nat] /\ cooldown \subseteq Types
  BY OneSlot DEF Shape, TypeOK
<1>2. Idle \notin Sending(type)
  BY IdleIs DEF Sending
<1> USE DEF CoolMove
<1>3. CASE Arrive(r)
  BY <1>1, <1>3, Arrivals DEF Sending, ReadOnly, mails
<1>4. CASE Abort(r) \/ Change(r) \/ Confirm(r) \/ Grant(r)
  BY <1>1, <1>2, <1>4 DEF Abort, Change, Confirm, Grant, Return, ReadOnly, mails
<1>5. CASE SetCooldown(r)
  BY <1>1, <1>2, <1>5 DEF SetCooldown, Return, Sending, At, Fits
<1> USE <1>1, <1>2 DEF Request
<1>6. CASE ReadCooldown(r)
  BY <1>6 DEF ReadCooldown, Goto, Return, ReadOnly, mails, Sending
<1>7. CASE FindUser(r)
  BY <1>7 DEF FindUser, Return, mails, Sending, At, Fits
<1>8. CASE Invalidate(r)
  BY <1>8 DEF Invalidate, AfterInvalidate, Goto, mails, Sending, At, Fits
<1>9. CASE Insert(r)
  BY <1>9 DEF Insert, Goto, mails, Sending, At, Fits
<1>10. CASE Enqueue(r)
  BY <1>10 DEF Enqueue, Goto, Sending, At, Fits
<1>11. CASE FindToken(r)
  BY <1>11 DEF FindToken, Return, ReadOnly, mails, Sending
<1>12. CASE Compare(r)
  BY <1>12 DEF Compare, Goto, Return, ReadOnly, mails, Sending, At, Fits
<1>13. CASE GetGrant(r)
  BY <1>13 DEF GetGrant, Goto, Return, ReadOnly, mails, Sending
<1>14. CASE DelGrant(r)
  BY <1>14 DEF DelGrant, Goto, mails, Sending
<1> QED
  BY <1>3, <1>4, <1>5, <1>6, <1>7, <1>8, <1>9, <1>10, <1>11, <1>12, <1>13, <1>14
     DEF Handler, Step

\* A mail queued in a cooldown takes one from the senders under way when it began,
\* and the one that began it is not among them.
LEMMA CoolingKept ==
    ASSUME TypeOK, Shape, Cooling, Next
    PROVE  Cooling'
<1> SUFFICES ASSUME NEW type \in Types
             PROVE  IF type \in cooldown' THEN late'[type] + Num(Sending(type))' < AtOnce
                    ELSE late'[type] = 0
  BY DEF Cooling
<1>1. /\ late[type] \in Nat
      /\ IF type \in cooldown THEN late[type] + Num(Sending(type)) < AtOnce ELSE late[type] = 0
  BY DEF TypeOK, Cooling
<1>2. AtOnce \in Nat /\ Num(Sending(type)) \in Nat /\ Num(Sending(type))' \in Nat
  BY Counts
<1>3. ASSUME NEW r \in Requests, Handler(r)
      PROVE  IF type \in cooldown' THEN late'[type] + Num(Sending(type))' < AtOnce
             ELSE late'[type] = 0
  <2>1. (\A s \in Requests : s # r => req'[s] = req[s]) /\ CoolMove(r, type)
    BY <1>3, OneSlot, CoolMoves
  <2>2. CASE /\ type \in cooldown' <=> type \in cooldown
             /\ late'[type] = late[type]
             /\ req'[r] \in Sending(type) => req[r] \in Sending(type) \/ type \notin cooldown
    <3>1. type \in cooldown => Num(Sending(type))' <= Num(Sending(type))
      BY <2>1, <2>2, Shrinks
    <3> QED
      BY <1>1, <1>2, <2>2, <3>1
  <2>3. CASE /\ type \in cooldown' <=> type \in cooldown
             /\ req[r] \in Sending(type) /\ req'[r] \notin Sending(type)
             /\ late'[type] = IF type \in cooldown THEN late[type] + 1 ELSE late[type]
    <3>1. Num(Sending(type))' = Num(Sending(type)) - 1
      BY <2>1, <2>3, Leaves
    <3> QED
      BY <1>1, <1>2, <2>3, <3>1
  <2>4. CASE /\ type \in cooldown' /\ late'[type] = late[type]
             /\ req[r] \notin Sending(type) /\ req'[r] = Idle
    <3>1. req'[r] \notin Sending(type)
      BY <2>4, IdleIs DEF Sending
    <3>2. Num(Sending(type))' <= Num(Sending(type))
      BY <2>1, <3>1, Shrinks
    <3>3. Num(Sending(type))' < AtOnce
      BY <3>1, Counts
    <3> QED
      BY <1>1, <1>2, <2>4, <3>2, <3>3
  <2> QED
    BY <2>1, <2>2, <2>3, <2>4 DEF CoolMove
<1>4. CASE Surroundings
  <2>1. req' = req
    BY <1>4, Outside
  <2>2. Num(Sending(type))' <= Num(Sending(type))
    BY <2>1, Shrinks
  <2>3. /\ cooldown' \subseteq cooldown
        /\ \/ late'[type] = late[type] /\ (type \in cooldown <=> type \in cooldown')
           \/ late'[type] = 0 /\ type \notin cooldown'
    BY <1>4, Outside
  <2> QED
    BY <1>1, <1>2, <2>2, <2>3
<1> QED
  BY <1>3, <1>4, Kinds

-----------------------------------------------------------------------------
\* In the beginning nothing happened, and no handler can make anything happen.
LEMMA InitInv == Init => Inv
<1> SUFFICES ASSUME Init
             PROVE  Inv
  OBVIOUS
<1>1. \A r \in Requests : req[r] = Idle
  BY DEF Init
<1>2. TypeOK
  BY IdleIs DEF Init, TypeOK, Types
<1>3. Shape
  BY <1>1, IdleIs DEF Shape, Fits
<1>4. \A c \in Codes : In(Holding(c)) = {} /\ In(Granting(c)) = {} /\ opened[c] = 0 /\ age[c] = 0
  BY <1>1, IdleIs DEF Init, In, Holding, Granting
<1>5. Fresh
  <2>1. \A c \in Codes : \A r \in Requests : req[r].row # c
    BY <1>1, IdleIs, OtpAssumption
  <2> QED
    BY <1>4, <2>1 DEF Fresh, Unused
<1>6. RowsCounted
  <2> SUFFICES ASSUME NEW type \in Types
               PROVE  Cardinality(Rows(type)) + Num(Inserting(type)) <= AtOnce
    BY DEF RowsCounted
  <2>1. Rows(type) = {}
    BY <1>4 DEF Rows
  <2>2. Cardinality(Rows(type)) = 0
    BY <2>1, FS_EmptySet
  <2>3. Num(Inserting(type)) \in Nat /\ Num(Inserting(type)) <= AtOnce
    BY Counts
  <2> QED
    BY <2>2, <2>3
<1>7. TypesApart
  BY <1>4 DEF TypesApart
<1>8. Whole
  BY <1>1, IdleIs DEF Init, Whole, In, Changing
<1>9. Cooling
  BY DEF Init, Cooling
<1> QED
  BY <1>2, <1>3, <1>5, <1>6, <1>6, <1>7, <1>8, <1>9 DEF Inv

\* The counts depend on the variables of the module only.
LEMMA StutterInv == Inv /\ UNCHANGED vars => Inv'
<1> SUFFICES ASSUME Inv, UNCHANGED vars
             PROVE  Inv'
  OBVIOUS
<1>1. UNCHANGED <<purpose, age, jobs, cooldown, late, verified, issued, grants, opened, resets, req>>
  BY DEF vars, mails, resetting
<1>2. TypeOK' /\ Shape' /\ TypesApart'
  BY <1>1 DEF Inv, TypeOK, Shape, Fits, TypesApart
<1>3. Fresh' /\ Whole'
  BY <1>1 DEF Inv, Fresh, Pending, Unused, Whole, In
<1>4. RowsCounted' /\ Cooling'
  BY <1>1 DEF Inv, RowsCounted, Cooling, Num, In, Rows
<1> QED
  BY <1>2, <1>3, <1>4 DEF Inv

\* Every step keeps the invariant.
LEMMA StepInv == Inv /\ [Next]_vars => Inv'
  BY StutterInv, Typed, ShapeKept, FreshKept, ApartKept, RowsCountedKept, WholeKept,
     CoolingKept DEF Inv

\* The invariant holds always.
LEMMA Invariance == Spec => []Inv
  BY InitInv, StepInv, PTL DEF Spec

\* Every variable of the one-time codes keeps its type.
THEOREM TypeCorrect == Spec => []TypeOK
<1>1. Inv => TypeOK
  BY DEF Inv
<1> QED
  BY <1>1, Invariance, PTL

\* No more codes of a type work than there are handlers at once: senders delete before
\* they insert.
THEOREM CodesFew == Spec => []FewCodes
<1>1. Inv => FewCodes
  <2> SUFFICES ASSUME Inv, NEW type \in Types
               PROVE  Cardinality(Rows(type)) <= AtOnce
    BY DEF FewCodes
  <2>1. Cardinality(Rows(type)) + Num(Inserting(type)) <= AtOnce
    BY DEF Inv, RowsCounted
  <2> QED
    BY <2>1, Counts, RowsFinite
<1> QED
  BY <1>1, Invariance, PTL

\* Only the step of the handler itself takes it from one place to another.
LEMMA OwnStep ==
    ASSUME TypeOK, NEW r \in Requests, [Next]_vars, req'[r] # req[r]
    PROVE  Handler(r)
<1>1. Next
  BY DEF vars
<1>2. ~ Surroundings
  BY Outside
<1> QED
  BY <1>1, <1>2, Kinds, OneSlot

\* The row of a code for which a reset token was issued is found no more: it was deleted
\* before, and never comes back.
THEOREM CodesUsedUp == Spec => CodeUsedUp
<1>1. ASSUME Inv, [Next]_vars, NEW r \in Requests, At(r, "findToken"), req'[r].pc = "compare"
      PROVE  opened[req'[r].row] = 0
  <2>1. TypeOK /\ Shape /\ Fresh
    BY <1>1 DEF Inv
  <2>2. Handler(r)
    BY <1>1, <2>1, OwnStep DEF At
  <2>3. FindToken(r)
    <3>1. ~ Arrive(r)
      BY <1>1, <2>1, Arrivals, IdleIs DEF At
    <3>2. ~ Abort(r)
      BY <1>1, <2>1, IdleIs DEF Abort, Return, TypeOK
    <3> QED
      BY <1>1, <2>2, <3>1, <3>2
         DEF Handler, Step, At, ReadCooldown, FindUser, Invalidate, Insert, Enqueue, SetCooldown,
             Compare, Confirm, Grant, GetGrant, DelGrant, Change
  <2>4. req'[r].row \in OfType(req[r].type)
    BY <1>1, <2>1, <2>3, IdleIs DEF FindToken, Return, TypeOK, Request
  <2> QED
    BY <2>1, <2>4 DEF OfType, Rows, Fresh, Unused
<1>2. Inv /\ [Next]_vars =>
          [\A r \in Requests :
               At(r, "findToken") /\ req'[r].pc = "compare" => opened[req'[r].row] = 0]_vars
  BY <1>1
<1> QED
  BY <1>2, Invariance, PTL DEF Spec, CodeUsedUp

\* A code that was sent to verify the email opens no password reset.
THEOREM TypesKeptApart == Spec => []TypesApart
<1>1. Inv => TypesApart
  BY DEF Inv
<1> QED
  BY <1>1, Invariance, PTL

\* A reset token that set a password is not found in Redis: it was deleted before, and
\* never comes back.
THEOREM TokensUsedUp == Spec => TokenUsedUp
<1>1. ASSUME Inv, [Next]_vars, NEW r \in Requests, At(r, "getGrant"), req'[r].pc = "delGrant"
      PROVE  resets[req[r].g] = 0
  <2>1. TypeOK /\ Shape /\ Whole
    BY <1>1 DEF Inv
  <2>2. Handler(r)
    BY <1>1, <2>1, OwnStep DEF At
  <2>3. GetGrant(r)
    <3>1. ~ Arrive(r)
      BY <1>1, <2>1, Arrivals, IdleIs DEF At
    <3>2. ~ Abort(r)
      BY <1>1, <2>1, IdleIs DEF Abort, Return, TypeOK
    <3> QED
      BY <1>1, <2>2, <3>1, <3>2
         DEF Handler, Step, At, ReadCooldown, FindUser, Invalidate, Insert, Enqueue, SetCooldown,
             FindToken, Compare, Confirm, Grant, DelGrant, Change
  <2>4. req[r].g \in grants
    BY <1>1, <2>1, <2>3, IdleIs DEF GetGrant, Return, TypeOK
  <2> QED
    BY <2>1, <2>4 DEF Whole, TypeOK
<1>2. Inv /\ [Next]_vars =>
          [\A r \in Requests :
               At(r, "getGrant") /\ req'[r].pc = "delGrant" => resets[req[r].g] = 0]_vars
  BY <1>1
<1> QED
  BY <1>2, Invariance, PTL DEF Spec, TokenUsedUp

\* In a cooldown, prolonged or not, fewer mails of its type are queued than there are
\* handlers at once: they are those of the senders under way when it began.
THEOREM CooldownsKept == Spec => []CooldownKept
<1>1. Inv => CooldownKept
  <2> SUFFICES ASSUME Inv, NEW type \in Types
               PROVE  late[type] < AtOnce
    BY DEF CooldownKept
  <2>1. /\ late[type] \in Nat
        /\ IF type \in cooldown THEN late[type] + Num(Sending(type)) < AtOnce ELSE late[type] = 0
    BY DEF Inv, TypeOK, Cooling
  <2> QED
    BY <2>1, Counts
<1> QED
  BY <1>1, Invariance, PTL
=============================================================================
