--------------------------- MODULE AccountsProofs ---------------------------
(***************************************************************************)
(* Accounts stay apart and everybody signs in to their own, for any number *)
(* of accounts, addresses, names, identities and concurrent handlers.      *)
(***************************************************************************)
EXTENDS AccountsProps, TLAPS

\* What a handler that is about to take step q.pc may rely on, given the tables.
\* An account that was looked up is still there and an identity that is linked
\* stays linked, because no handler deletes rows or changes a link.
Slot(q, accounts, links) ==
    /\ q \in Request
    /\ q.pc \in {"exchange", "profile", "findLink", "link", "createAndLink", "loadUser", "session"}
        => q.who \in Identities
    /\ q.pc \in {"findLink", "findEmail", "create", "cache", "welcome", "createAndLink"} =>
        q.text \in Spelled(Emails)
    /\ q.pc \in {"exchange", "profile", "findLink"} => q.op = "callback"
    /\ q.pc = "findEmail" => q.op = "register" \/ q.who \in Identities
    /\ q.pc \in {"link", "session", "findUser", "findName", "store"} =>
        q.id \in Ids /\ accounts[q.id] # NoAccount
    /\ q.pc \in {"loadUser", "session"} => q.id \in Ids /\ links[q.who] = q.id
    /\ q.pc \in {"findUser", "findName", "store"} => q.text \in Spelled(Names) \cup {NoText}
    /\ q.pc = "findName" => q.text # NoText

Tables ==
    /\ account \in [Ids -> Account \cup {NoAccount}]
    /\ link \in [Identities -> Ids \cup {NoId}]
    /\ welcomed \in [Emails -> 0..2]

Inv ==
    /\ Tables /\ invited \in BOOLEAN /\ req \in [Requests -> Request]
    /\ \A r \in Requests : Slot(req[r], account, link)
    /\ DistinctAccounts

Becomes(r, q) == req' = [req EXCEPT ![r] = q]

\* Rows are added and changed, never deleted, and links never change.
Grown ==
    /\ \A i \in Ids : account[i] # NoAccount => account'[i] # NoAccount
    /\ \A p \in Identities : link[p] # NoId => link'[p] = link[p]

-----------------------------------------------------------------------------
\* An idle slot relies on nothing.
LEMMA IdleSlot == ASSUME NEW accounts, NEW links PROVE Slot(Idle, accounts, links)
  BY DEF Slot, Idle, Request, Steps

\* What a handler relies on outlives the steps of others.
LEMMA SlotKept ==
    ASSUME NEW q, Slot(q, account, link), Grown PROVE Slot(q, account', link')
  BY AccountsAssumption DEF Slot, Grown

\* A step of handler r keeps the invariant if it leaves its own slot, the tables
\* and their constraints in order.
LEMMA SlotStep ==
    ASSUME Inv, NEW r \in Requests, NEW q, Becomes(r, q), Slot(q, account', link'),
           Tables', Grown, DistinctAccounts', invited' = invited
    PROVE  Inv'
<1>1. req \in [Requests -> Request] /\ q \in Request
  BY DEF Inv, Slot
<1>2. req' \in [Requests -> Request] /\ req'[r] = q
  BY <1>1 DEF Becomes
<1>3. \A s \in Requests \ {r} : req'[s] = req[s]
  BY <1>1 DEF Becomes
<1>4. \A s \in Requests : Slot(req'[s], account', link')
  <2> SUFFICES ASSUME NEW s \in Requests PROVE Slot(req'[s], account', link')
    OBVIOUS
  <2>1. CASE s = r
    BY <1>2, <2>1
  <2>2. CASE s # r
    <3>1. Slot(req[s], account, link)
      BY DEF Inv
    <3> QED
      BY <1>3, <2>2, <3>1, SlotKept
  <2> QED
    BY <2>1, <2>2
<1> QED
  BY <1>2, <1>4 DEF Inv

\* With the tables unchanged only the slot has to be looked at.
LEMMA ReadStep ==
    ASSUME Inv, NEW r \in Requests, NEW q, Becomes(r, q), UNCHANGED tables,
           Slot(q, account, link)
    PROVE  Inv'
<1>1. account' = account /\ link' = link /\ welcomed' = welcomed /\ invited' = invited
  BY DEF tables
<1>2. Tables' /\ DistinctAccounts' /\ Grown
  BY <1>1 DEF Inv, Tables, DistinctAccounts, Exists, Grown
<1> QED
  BY <1>1, <1>2, SlotStep

\* The empty tables satisfy the invariant.
LEMMA InitInv == Init => Inv
<1> SUFFICES ASSUME Init PROVE Inv
  OBVIOUS
<1>1. Idle \in Request /\ \A r \in Requests : req[r] = Idle
  BY IdleSlot DEF Init, Slot
<1>2. Tables
  BY DEF Init, Tables
<1>5. invited \in BOOLEAN
  BY DEF Init
<1>3. req \in [Requests -> Request] /\ \A r \in Requests : Slot(req[r], account, link)
  BY <1>1, IdleSlot DEF Init
<1>4. DistinctAccounts
  BY DEF Init, DistinctAccounts, Exists
<1> QED
  BY <1>2, <1>3, <1>4, <1>5 DEF Inv

-----------------------------------------------------------------------------
\* The UNIQUE constraint on the email keeps accounts apart when one is added.
LEMMA InsertDistinct ==
    ASSUME Tables, DistinctAccounts, NEW i \in Ids, NEW text \in Spelled(Emails),
           EmailFree(text), Insert(i, text)
    PROVE  /\ account' \in [Ids -> Account \cup {NoAccount}]
           /\ DistinctAccounts'
           /\ account'[i] # NoAccount
           /\ \A j \in Ids : account[j] # NoAccount => account'[j] = account[j]
<1> DEFINE new == [email |-> Lower(text), name |-> NoText]
<1>1. account \in [Ids -> Account \cup {NoAccount}]
  BY DEF Tables
<1>2. account[i] = NoAccount /\ account' = [account EXCEPT ![i] = new]
  BY DEF Insert, Exists
<1>3. Lower(text) \in Emails \X {"lower"} /\ Lower(text) # NoText
  BY AccountsAssumption DEF Lower, Spelled
<1>4. new \in Account /\ new # NoAccount
  BY <1>3 DEF Account, NoAccount
<1>5. account'[i] = new /\ \A j \in Ids \ {i} : account'[j] = account[j]
  BY <1>1, <1>2
<1>6. \A j \in Ids : account[j] # NoAccount => account[j].email[1] # new.email[1]
  <2> SUFFICES ASSUME NEW j \in Ids, account[j] # NoAccount
               PROVE  account[j].email[1] # new.email[1]
    OBVIOUS
  <2>1. account[j].email \in Emails \X {"lower"}
    BY <1>1 DEF Account
  <2>2. account[j].email # Lower(text)
    BY DEF EmailFree, WithEmail
  <2> QED
    BY <1>3, <2>1, <2>2
<1>7. DistinctAccounts'
  BY <1>5, <1>6 DEF DistinctAccounts, Exists
<1>8. account' \in [Ids -> Account \cup {NoAccount}]
  BY <1>1, <1>2, <1>4
<1> QED
  BY <1>2, <1>4, <1>5, <1>7, <1>8

\* So does the one on the username when a name is stored.
LEMMA StoreDistinct ==
    ASSUME Tables, DistinctAccounts, NEW i \in Ids, account[i] # NoAccount,
           NEW name \in (Names \X {"lower"}) \cup {NoText}, NameFree(name, i),
           account' = [account EXCEPT ![i].name = name]
    PROVE  /\ account' \in [Ids -> Account \cup {NoAccount}]
           /\ DistinctAccounts'
           /\ \A j \in Ids : account[j] # NoAccount => account'[j] # NoAccount
<1> DEFINE new == [email |-> account[i].email, name |-> name]
<1>1. account \in [Ids -> Account \cup {NoAccount}] /\ account[i] \in Account
  BY DEF Tables
<1>2. account' = [account EXCEPT ![i] = new]
  <2>1. [account[i] EXCEPT !.name = name] = new
    BY <1>1 DEF Account
  <2> QED
    BY <2>1
<1>3. new \in Account /\ new # NoAccount
  BY <1>1, AccountsAssumption DEF Account, NoAccount
<1>4. account'[i] = new /\ \A j \in Ids \ {i} : account'[j] = account[j]
  BY <1>1, <1>2
<1>5. \A j \in Ids \ {i} : account[j] # NoAccount =>
        /\ account[j].email[1] # new.email[1]
        /\ account[j].name # NoText /\ name # NoText => account[j].name[1] # name[1]
  <2> SUFFICES ASSUME NEW j \in Ids \ {i}, account[j] # NoAccount
               PROVE  /\ account[j].email[1] # new.email[1]
                      /\ account[j].name # NoText /\ name # NoText => account[j].name[1] # name[1]
    OBVIOUS
  <2>1. account[j] \in Account
    BY <1>1
  <2>2. account[j].email[1] # account[i].email[1]
    BY DEF DistinctAccounts, Exists
  <2>3. name # NoText => account[j].name # name
    BY DEF NameFree
  <2> QED
    BY <2>1, <2>2, <2>3 DEF Account
<1>6. DistinctAccounts'
  BY <1>4, <1>5 DEF DistinctAccounts, Exists
<1> QED
  BY <1>1, <1>2, <1>3, <1>4, <1>6

-----------------------------------------------------------------------------
\* A handler starts with what its caller sent.
LEMMA ArriveStep == ASSUME Inv, NEW r \in Requests, Arrive(r) PROVE Inv'
<1>1. ASSUME NEW e \in Spelled(Emails), StartRegister(r, e) PROVE Inv'
  <2> DEFINE q == [Idle EXCEPT !.op = "register", !.pc = "findEmail", !.text = e]
  <2>1. Slot(q, account, link)
    BY DEF Slot, Idle, Request, Steps, Spelled, AllOps
  <2> QED
    BY <1>1, <2>1, ReadStep DEF StartRegister, Start, Becomes
<1>2. ASSUME NEW p \in Identities, StartCallback(r, p) PROVE Inv'
  <2> DEFINE q == [Idle EXCEPT !.op = "callback", !.pc = "exchange", !.who = p]
  <2>1. Slot(q, account, link)
    BY DEF Slot, Idle, Request, Steps, Spelled, AllOps
  <2> QED
    BY <1>2, <2>1, ReadStep DEF StartCallback, Start, Becomes
<1>3. ASSUME NEW i \in Ids, NEW n \in Spelled(Names) \cup {NoText}, StartUpdateMe(r, i, n)
      PROVE  Inv'
  <2> DEFINE q == [Idle EXCEPT !.op = "updateMe", !.pc = "findUser", !.id = i, !.text = n]
  <2>1. Slot(q, account, link)
    BY <1>3 DEF StartUpdateMe, Exists, Slot, Idle, Request, Steps, Spelled, AllOps
  <2> QED
    BY <1>3, <2>1, ReadStep DEF StartUpdateMe, Start, Becomes
<1> QED
  BY <1>1, <1>2, <1>3 DEF Arrive

\* Each handler's steps.
LEMMA HandlerStep == ASSUME Inv, NEW r \in Requests, Step(r) \/ Abort(r) PROVE Inv'
<1> DEFINE with(pc, i) == [op |-> req[r].op, pc |-> pc, id |-> i,
                           text |-> req[r].text, who |-> req[r].who]
<1>1. Tables /\ DistinctAccounts /\ Slot(req[r], account, link) /\ req[r] \in Request
  BY DEF Inv
<1>2. ASSUME NEW pc, NEW i, GotoFor(r, pc, i) PROVE Becomes(r, with(pc, i))
  BY <1>2 DEF GotoFor, Becomes
<1>3. ASSUME Return(r), UNCHANGED tables PROVE Inv'
  <2>1. Becomes(r, Idle)
    BY <1>3 DEF Return, Becomes
  <2> QED
    BY <1>3, <2>1, IdleSlot, ReadStep
<1>4. ASSUME NEW pc, NEW i, GotoFor(r, pc, i), UNCHANGED tables,
             Slot(with(pc, i), account, link)
      PROVE  Inv'
  BY <1>2, <1>4, ReadStep
<1>5. CASE FindLink(r)
  <2> DEFINE i == link[req[r].who]
  <2>1. req[r].who \in Identities /\ req[r].text \in Spelled(Emails)
    BY <1>1, <1>5 DEF FindLink, At, Slot
  <2>2. CASE i # NoId /\ GotoFor(r, "loadUser", i)
    <3>1. i \in Ids
      BY <1>1, <2>1, <2>2 DEF Tables
    <3>2. Slot(with("loadUser", i), account, link)
      BY <1>1, <2>1, <3>1 DEF Slot, Request, Steps
    <3> QED
      BY <1>4, <1>5, <2>2, <3>2 DEF FindLink
  <2>3. CASE Goto(r, "findEmail")
    <3>1. Slot(with("findEmail", req[r].id), account, link)
      BY <1>1, <2>1 DEF Slot, Request, Steps
    <3> QED
      BY <1>4, <1>5, <2>3, <3>1 DEF FindLink, Goto
  <2> QED
    BY <1>5, <2>2, <2>3 DEF FindLink
<1>6. CASE FindEmail(r)
  <2> DEFINE found == WithEmail(req[r].text)
  <2>1. req[r].text \in Spelled(Emails) /\ (req[r].op = "register" \/ req[r].who \in Identities)
    BY <1>1, <1>6 DEF FindEmail, At, Slot
  <2>2. CASE Goto(r, "create")
    <3>1. Slot(with("create", req[r].id), account, link)
      BY <1>1, <2>1 DEF Slot, Request, Steps
    <3> QED
      BY <1>4, <1>6, <2>2, <3>1 DEF FindEmail, Goto
  <2>3. CASE req[r].op # "register" /\ Goto(r, "createAndLink")
    <3>1. Slot(with("createAndLink", req[r].id), account, link)
      BY <1>1, <2>1, <2>3 DEF Slot, Request, Steps
    <3> QED
      BY <1>4, <1>6, <2>3, <3>1 DEF FindEmail, Goto
  <2>4. ASSUME NEW i \in found, req[r].op # "register", GotoFor(r, "link", i) PROVE Inv'
    <3>1. i \in Ids /\ account[i] # NoAccount
      BY <2>1, AccountsAssumption DEF WithEmail, NoAccount, Lower, Spelled
    <3>2. Slot(with("link", i), account, link)
      BY <1>1, <2>1, <2>4, <3>1 DEF Slot, Request, Steps
    <3> QED
      BY <1>4, <1>6, <2>4, <3>2 DEF FindEmail
  <2> QED
    BY <1>3, <1>6, <2>2, <2>3, <2>4 DEF FindEmail
<1>7. CASE Create(r)
  <2>1. req[r].text \in Spelled(Emails)
    BY <1>1, <1>7 DEF Create, At, Slot
  <2>2. ASSUME NEW i \in Ids, EmailFree(req[r].text), Insert(i, req[r].text),
               GotoFor(r, "cache", i)
        PROVE  Inv'
    <3>1. /\ account' \in [Ids -> Account \cup {NoAccount}] /\ DistinctAccounts'
          /\ \A j \in Ids : account[j] # NoAccount => account'[j] # NoAccount
      BY <1>1, <2>1, <2>2, InsertDistinct
    <3>2. link' = link /\ welcomed' = welcomed /\ invited' = invited
      BY <1>7 DEF Create
    <3>3. Tables' /\ Grown
      BY <1>1, <3>1, <3>2 DEF Tables, Grown
    <3>4. Slot(with("cache", i), account', link')
      BY <1>1, <2>1 DEF Slot, Request, Steps
    <3> QED
      BY <1>2, <2>2, <3>1, <3>2, <3>3, <3>4, SlotStep
  <2> QED
    BY <1>3, <1>7, <2>2 DEF Create, tables
<1>8. CASE Cache(r)
  <2>1. Slot(with("welcome", req[r].id), account, link)
    BY <1>1, <1>8 DEF Cache, At, Slot, Request, Steps
  <2> QED
    BY <1>4, <1>8, <2>1 DEF Cache, Goto
<1>9. CASE Welcome(r)
  <2>1. account' = account /\ link' = link /\ invited' = invited /\ Becomes(r, Idle)
    BY <1>9 DEF Welcome, Return, Becomes
  <2>2. welcomed' \in [Emails -> 0..2]
    <3>1. welcomed \in [Emails -> 0..2] /\ req[r].text[1] \in Emails
      BY <1>1, <1>9 DEF Welcome, At, Slot, Spelled, Tables
    <3> QED
      BY <1>9, <3>1 DEF Welcome
  <2>3. Tables' /\ Grown /\ DistinctAccounts'
    BY <1>1, <2>1, <2>2 DEF Tables, Grown, DistinctAccounts, Exists
  <2> QED
    BY <2>1, <2>3, IdleSlot, SlotStep
<1>10. CASE CreateAndLink(r)
  <2>1. req[r].text \in Spelled(Emails) /\ req[r].who \in Identities
    BY <1>1, <1>10 DEF CreateAndLink, At, Slot
  <2>2. ASSUME NEW i \in Ids, EmailFree(req[r].text), IdentityFree(req[r].who),
               Insert(i, req[r].text), link' = [link EXCEPT ![req[r].who] = i],
               GotoFor(r, "loadUser", i)
        PROVE  Inv'
    <3>1. /\ account' \in [Ids -> Account \cup {NoAccount}] /\ DistinctAccounts'
          /\ \A j \in Ids : account[j] # NoAccount => account'[j] # NoAccount
      BY <1>1, <2>1, <2>2, InsertDistinct
    <3>2. welcomed' = welcomed /\ invited' = invited
      BY <1>10 DEF CreateAndLink
    <3>3. link' \in [Identities -> Ids \cup {NoId}] /\ link'[req[r].who] = i
      BY <1>1, <2>1, <2>2 DEF Tables
    <3>4. \A p \in Identities : link[p] # NoId => link'[p] = link[p]
      BY <1>1, <2>1, <2>2 DEF Tables, IdentityFree
    <3>5. Tables' /\ Grown
      BY <1>1, <3>1, <3>2, <3>3, <3>4 DEF Tables, Grown
    <3>6. Slot(with("loadUser", i), account', link')
      BY <1>1, <2>1, <3>3 DEF Slot, Request, Steps
    <3> QED
      BY <1>2, <2>2, <3>1, <3>2, <3>5, <3>6, SlotStep
  <2> QED
    BY <1>3, <1>10, <2>2 DEF CreateAndLink, tables
<1>11. CASE LinkProvider(r)
  <2>1. req[r].who \in Identities /\ req[r].id \in Ids /\ account[req[r].id] # NoAccount
    BY <1>1, <1>11 DEF LinkProvider, At, Slot
  <2>2. ASSUME IdentityFree(req[r].who), link' = [link EXCEPT ![req[r].who] = req[r].id],
               Goto(r, "session")
        PROVE  Inv'
    <3>1. account' = account /\ welcomed' = welcomed /\ invited' = invited
      BY <1>11 DEF LinkProvider
    <3>2. link' \in [Identities -> Ids \cup {NoId}] /\ link'[req[r].who] = req[r].id
      BY <1>1, <2>1, <2>2 DEF Tables
    <3>3. \A p \in Identities : link[p] # NoId => link'[p] = link[p]
      BY <1>1, <2>1, <2>2 DEF Tables, IdentityFree
    <3>4. Tables' /\ Grown /\ DistinctAccounts'
      BY <1>1, <3>1, <3>2, <3>3 DEF Tables, Grown, DistinctAccounts, Exists
    <3>5. Slot(with("session", req[r].id), account', link')
      BY <1>1, <2>1, <3>1, <3>2 DEF Slot, Request, Steps
    <3> QED
      BY <1>2, <2>2, <3>1, <3>4, <3>5, SlotStep DEF Goto
  <2> QED
    BY <1>3, <1>11, <2>2 DEF LinkProvider, tables
<1>12. CASE LoadUser(r)
  <2>1. CASE Exists(req[r].id) /\ Goto(r, "session")
    <3>1. Slot(with("session", req[r].id), account, link)
      BY <1>1, <1>12, <2>1 DEF LoadUser, At, Exists, Slot, Request, Steps
    <3> QED
      BY <1>4, <1>12, <2>1, <3>1 DEF LoadUser, Goto
  <2> QED
    BY <1>3, <1>12, <2>1 DEF LoadUser
<1>13. CASE SignIn(r)
  BY <1>3, <1>13 DEF SignIn
<1>14. CASE FindUser(r)
  <2>1. Slot(with("store", req[r].id), account, link)
    BY <1>1, <1>14 DEF FindUser, At, Slot, Request, Steps
  <2>2. req[r].text # NoText => Slot(with("findName", req[r].id), account, link)
    BY <1>1, <1>14 DEF FindUser, At, Slot, Request, Steps
  <2> QED
    BY <1>4, <1>14, <2>1, <2>2 DEF FindUser, Goto
<1>15. CASE FindName(r)
  <2>1. Slot(with("store", req[r].id), account, link)
    BY <1>1, <1>15 DEF FindName, At, Slot, Request, Steps
  <2> QED
    BY <1>3, <1>4, <1>15, <2>1 DEF FindName, Goto
<1>16. CASE Store(r)
  <2> DEFINE i == req[r].id
             name == IF req[r].text = NoText THEN NoText ELSE Lower(req[r].text)
  <2>1. i \in Ids /\ account[i] # NoAccount /\ req[r].text \in Spelled(Names) \cup {NoText}
    BY <1>1, <1>16 DEF Store, At, Slot
  <2>2. name \in (Names \X {"lower"}) \cup {NoText}
    BY <2>1 DEF Lower, Spelled
  <2>3. CASE NameFree(name, i) /\ account' = [account EXCEPT ![i].name = name]
    <3> HIDE DEF name
    <3>1. /\ account' \in [Ids -> Account \cup {NoAccount}] /\ DistinctAccounts'
          /\ \A j \in Ids : account[j] # NoAccount => account'[j] # NoAccount
      BY <1>1, <2>1, <2>2, <2>3, StoreDistinct
    <3>2. link' = link /\ welcomed' = welcomed /\ invited' = invited /\ Becomes(r, Idle)
      BY <1>16 DEF Store, Return, Becomes
    <3>3. Tables' /\ Grown
      BY <1>1, <3>1, <3>2 DEF Tables, Grown
    <3> QED
      BY <3>1, <3>2, <3>3, IdleSlot, SlotStep
  <2> QED
    BY <1>3, <1>16, <2>3 DEF Store, tables
<1>17. CASE Abort(r)
  BY <1>3, <1>17 DEF Abort
<1>18. CASE Exchange(r)
  <2>1. Slot(with("profile", req[r].id), account, link)
    BY <1>1, <1>18 DEF Exchange, At, Slot, Request, Steps
  <2> QED
    BY <1>3, <1>4, <1>18, <2>1 DEF Exchange, Goto
<1>19. CASE Profile(r)
  <2> DEFINE told(e) == [op |-> req[r].op, pc |-> "findLink", id |-> req[r].id,
                         text |-> e, who |-> req[r].who]
  <2>1. ASSUME NEW e \in Spelled(Emails), Becomes(r, told(e)) PROVE Inv'
    <3>1. Slot(told(e), account, link)
      BY <1>1, <1>19 DEF Profile, At, Slot, Request, Steps, Spelled
    <3> QED
      BY <1>19, <2>1, <3>1, ReadStep DEF Profile
  <2> QED
    BY <1>3, <1>19, <2>1 DEF Profile, Becomes
<1> QED
  BY <1>5, <1>6, <1>7, <1>8, <1>9, <1>10, <1>11, <1>12, <1>13, <1>14, <1>15, <1>16, <1>17,
     <1>18, <1>19 DEF Step

-----------------------------------------------------------------------------
\* All of it at every moment.
THEOREM Invariance == Spec => []Inv
<1>1. Inv /\ [Next]_vars => Inv'
  <2>1. ASSUME Inv, UNCHANGED vars PROVE Inv'
    BY <2>1 DEF vars, Inv, Tables, DistinctAccounts, Exists
  <2>2. ASSUME Inv, Initiate \/ StateExpires PROVE Inv'
    BY <2>2 DEF Initiate, StateExpires, Inv, Tables, DistinctAccounts, Exists
  <2> QED
    BY <2>1, <2>2, ArriveStep, HandlerStep DEF Next
<1> QED
  BY <1>1, InitInv, PTL DEF Spec

\* Every variable keeps its type.
THEOREM TypeCorrect == Spec => []TypeOK
<1>1. Inv => TypeOK
  BY DEF Inv, Tables, TypeOK
<1> QED
  BY <1>1, Invariance, PTL

\* No two accounts share an email or a username, however handlers that looked at
\* the same time go on to write (the UNIQUE constraints of the users table).
THEOREM AccountsStayApart == Spec => []DistinctAccounts
<1>1. Inv => DistinctAccounts
  BY DEF Inv
<1> QED
  BY <1>1, Invariance, PTL

\* A callback that is about to create a session does so for the account its
\* identity is linked to (oauth.service.ts).
THEOREM EverybodySignsInToTheirOwn == Spec => []SignedInAsLinked
<1>1. Inv => SignedInAsLinked
  BY DEF Inv, SignedInAsLinked, Slot, At, Exists
<1> QED
  BY <1>1, Invariance, PTL

-----------------------------------------------------------------------------
\* Whoever has an account has been welcomed, or is going to be, at most once.

Known(e) == \E i \in Ids : account[i].email = <<e, "lower">>

\* q is going to queue the welcome mail for e.
Welcomes(q, e) == q.pc \in {"cache", "welcome"} /\ q.text[1] = e

Mails ==
    \A e \in Emails :
        /\ welcomed[e] < 2
        /\ welcomed[e] > 0 => Known(e)
        /\ \A r \in Requests : Welcomes(req[r], e) =>
            /\ Known(e) /\ welcomed[e] = 0
            /\ \A s \in Requests \ {r} : ~ Welcomes(req[s], e)

\* A step that queues nothing and lets nobody begin to keeps this.
LEMMA NoMailStep ==
    ASSUME Inv, Mails, NEW r \in Requests, NEW q, Becomes(r, q), welcomed' = welcomed,
           \A e \in Emails : Known(e) => Known(e)',
           \A e \in Emails : Welcomes(q, e) => Welcomes(req[r], e)
    PROVE  Mails'
<1>1. req \in [Requests -> Request]
  BY DEF Inv
<1>2. req'[r] = q /\ \A s \in Requests \ {r} : req'[s] = req[s]
  BY <1>1 DEF Becomes
<1>3. \A s \in Requests, e \in Emails : Welcomes(req'[s], e) => Welcomes(req[s], e)
  BY <1>2
<1> QED
  BY <1>3 DEF Mails

\* Rows keep their emails.
LEMMA KnownKept ==
    ASSUME Inv, NEW r \in Requests, Arrive(r) \/ Step(r) \/ Abort(r)
    PROVE  \A e \in Emails : Known(e) => Known(e)'
<1> SUFFICES ASSUME NEW e \in Emails, NEW i \in Ids, account[i].email = <<e, "lower">>
             PROVE  account'[i].email = <<e, "lower">>
  BY DEF Known
<1>1. account \in [Ids -> Account \cup {NoAccount}]
  BY DEF Inv, Tables
<1>2. account[i] # NoAccount
  BY AccountsAssumption DEF NoAccount
<1>3. ASSUME NEW j \in Ids, NEW text, Insert(j, text) PROVE account'[i] = account[i]
  BY <1>1, <1>2, <1>3 DEF Insert, Exists
<1>4. ASSUME NEW name, account' = [account EXCEPT ![req[r].id].name = name]
      PROVE  account'[i].email = account[i].email
  BY <1>1, <1>2, <1>4 DEF Account
<1>5. CASE account' = account
  BY <1>5
<1>6. ASSUME UNCHANGED tables PROVE account' = account
  BY <1>6 DEF tables
<1>7. CASE Arrive(r)
  BY <1>5, <1>6, <1>7 DEF Arrive, StartRegister, StartCallback, StartUpdateMe, Start
<1>8. CASE Create(r)
  BY <1>3, <1>5, <1>8 DEF Create
<1>9. CASE CreateAndLink(r)
  BY <1>3, <1>5, <1>9 DEF CreateAndLink
<1>10. CASE Store(r)
  BY <1>4, <1>5, <1>10 DEF Store
<1>11. CASE Welcome(r) \/ LinkProvider(r)
  BY <1>5, <1>11 DEF Welcome, LinkProvider
<1>12. CASE Exchange(r) \/ Profile(r) \/ FindLink(r) \/ FindEmail(r) \/ Cache(r) \/ LoadUser(r)
  BY <1>5, <1>6, <1>12 DEF Exchange, Profile, FindLink, FindEmail, Cache, LoadUser
<1>13. CASE SignIn(r) \/ FindUser(r) \/ FindName(r) \/ Abort(r)
  BY <1>5, <1>6, <1>13 DEF SignIn, FindUser, FindName, Abort
<1> QED
  BY <1>7, <1>8, <1>9, <1>10, <1>11, <1>12, <1>13 DEF Step

\* Each handler's step keeps the mails in order: the UNIQUE constraint on the email
\* lets only one registration go on to queue one.
LEMMA MailStep ==
    ASSUME Inv, Mails, NEW r \in Requests, Arrive(r) \/ Step(r) \/ Abort(r)
    PROVE  Mails'
<1>1. /\ req \in [Requests -> Request] /\ Slot(req[r], account, link)
      /\ \A e \in Emails : Known(e) => Known(e)'
      /\ welcomed \in [Emails -> 0..2]
  BY KnownKept DEF Inv, Tables
<1>2. ASSUME NEW q, Becomes(r, q), q.pc \notin {"cache", "welcome"}, welcomed' = welcomed
      PROVE  Mails'
  BY <1>1, <1>2, NoMailStep DEF Welcomes
<1>3. ASSUME Return(r), welcomed' = welcomed PROVE Mails'
  BY <1>2, <1>3 DEF Return, Becomes, Idle
<1>4. ASSUME NEW pc, NEW i, GotoFor(r, pc, i), pc \notin {"cache", "welcome"},
             welcomed' = welcomed
      PROVE  Mails'
  BY <1>2, <1>4 DEF GotoFor, Becomes
<1>5. ASSUME NEW pc, Goto(r, pc), pc \notin {"cache", "welcome"}, welcomed' = welcomed
      PROVE  Mails'
  BY <1>4, <1>5 DEF Goto
<1>6. ASSUME UNCHANGED tables PROVE welcomed' = welcomed
  BY <1>6 DEF tables
<1>7. CASE Arrive(r)
  <2>1. ASSUME NEW e, StartRegister(r, e) PROVE Mails'
    BY <1>2, <1>6, <2>1 DEF StartRegister, Start, Becomes, Idle
  <2>2. ASSUME NEW p, StartCallback(r, p) PROVE Mails'
    BY <1>2, <1>6, <2>2 DEF StartCallback, Start, Becomes, Idle
  <2>3. ASSUME NEW i, NEW n, StartUpdateMe(r, i, n) PROVE Mails'
    BY <1>2, <1>6, <2>3 DEF StartUpdateMe, Start, Becomes, Idle
  <2> QED
    BY <1>7, <2>1, <2>2, <2>3 DEF Arrive
<1>8. CASE Create(r)
  <2>1. CASE /\ EmailFree(req[r].text)
             /\ \E i \in Ids : Insert(i, req[r].text) /\ GotoFor(r, "cache", i)
    <3>1. PICK i \in Ids : Insert(i, req[r].text) /\ GotoFor(r, "cache", i)
      BY <2>1
    <3>2. PICK e0 \in Emails : e0 = req[r].text[1]
      BY <1>1, <1>8 DEF Create, At, Slot, Spelled
    <3>3. ~ Known(e0)
      BY <2>1, <3>2 DEF EmailFree, WithEmail, Lower, Known
    <3>4. Known(e0)'
      <4>1. account \in [Ids -> Account \cup {NoAccount}]
        BY DEF Inv, Tables
      <4>2. account'[i].email = <<e0, "lower">>
        BY <3>1, <3>2, <4>1 DEF Insert, Lower
      <4> QED
        BY <4>2 DEF Known
    <3>5. req'[r].pc = "cache" /\ req'[r].text = req[r].text
      BY <1>1, <3>1 DEF GotoFor
    <3>6. \A s \in Requests \ {r} : req'[s] = req[s]
      BY <1>1, <3>1 DEF GotoFor
    <3>7. welcomed' = welcomed
      BY <1>8 DEF Create
    <3>8. welcomed[e0] = 0 /\ \A s \in Requests : ~ Welcomes(req[s], e0)
      BY <1>1, <3>2, <3>3 DEF Mails
    <3>9. \A e \in Emails \ {e0} : ~ Welcomes(req'[r], e)
      BY <3>2, <3>5 DEF Welcomes
    <3>10. ASSUME NEW e \in Emails PROVE
             /\ welcomed'[e] < 2 /\ (welcomed'[e] > 0 => Known(e)')
             /\ \A q \in Requests : Welcomes(req'[q], e) =>
                 /\ Known(e)' /\ welcomed'[e] = 0
                 /\ \A s \in Requests \ {q} : ~ Welcomes(req'[s], e)
      <4>1. CASE e = e0
        BY <3>4, <3>6, <3>7, <3>8, <4>1
      <4>2. CASE e # e0
        BY <1>1, <3>6, <3>7, <3>9, <4>2 DEF Mails
      <4> QED
        BY <4>1, <4>2
    <3> QED
      BY <3>10 DEF Mails
  <2> QED
    BY <1>3, <1>8, <2>1 DEF Create
<1>9. CASE Cache(r)
  <2> DEFINE q == [op |-> req[r].op, pc |-> "welcome", id |-> req[r].id,
                   text |-> req[r].text, who |-> req[r].who]
  <2>1. Becomes(r, q) /\ welcomed' = welcomed
    BY <1>6, <1>9 DEF Cache, Goto, GotoFor, Becomes
  <2>2. \A e \in Emails : Welcomes(q, e) => Welcomes(req[r], e)
    BY <1>9 DEF Cache, At, Welcomes
  <2> QED
    BY <1>1, <2>1, <2>2, NoMailStep
<1>10. CASE Welcome(r)
  <2>1. PICK e0 \in Emails : e0 = req[r].text[1] /\ Welcomes(req[r], e0)
    BY <1>1, <1>10 DEF Welcome, At, Slot, Spelled, Welcomes
  <2>2. Known(e0) /\ welcomed[e0] = 0 /\ \A s \in Requests \ {r} : ~ Welcomes(req[s], e0)
    BY <2>1 DEF Mails
  <2>3. req'[r] = Idle /\ \A s \in Requests \ {r} : req'[s] = req[s]
    BY <1>1, <1>10 DEF Welcome, Return
  <2>4. welcomed'[e0] \in {0, 1} /\ \A e \in Emails \ {e0} : welcomed'[e] = welcomed[e]
    BY <1>1, <1>10, <2>1, <2>2 DEF Welcome
  <2>5. \A e \in Emails : ~ Welcomes(req'[r], e)
    BY <2>3 DEF Welcomes, Idle
  <2>6. ASSUME NEW e \in Emails PROVE
          /\ welcomed'[e] < 2 /\ (welcomed'[e] > 0 => Known(e)')
          /\ \A q \in Requests : Welcomes(req'[q], e) =>
              /\ Known(e)' /\ welcomed'[e] = 0
              /\ \A s \in Requests \ {q} : ~ Welcomes(req'[s], e)
    <3>1. CASE e = e0
      BY <1>1, <2>2, <2>3, <2>4, <2>5, <3>1
    <3>2. CASE e # e0
      BY <1>1, <2>3, <2>4, <2>5, <3>2 DEF Mails
    <3> QED
      BY <3>1, <3>2
  <2> QED
    BY <2>6 DEF Mails
<1>11. CASE Profile(r)
  <2>1. ASSUME NEW e, Becomes(r, [op |-> req[r].op, pc |-> "findLink", id |-> req[r].id,
                                  text |-> e, who |-> req[r].who])
        PROVE  Mails'
    BY <1>2, <1>6, <1>11, <2>1 DEF Profile
  <2> QED
    BY <1>3, <1>6, <1>11, <2>1 DEF Profile, Becomes
<1>12. CASE Exchange(r) \/ LoadUser(r) \/ SignIn(r) \/ FindUser(r) \/ FindName(r) \/ Abort(r)
  BY <1>3, <1>5, <1>6, <1>12 DEF Exchange, LoadUser, SignIn, FindUser, FindName, Abort
<1>13. CASE FindLink(r)
  BY <1>4, <1>5, <1>6, <1>13 DEF FindLink
<1>14. CASE FindEmail(r)
  BY <1>3, <1>4, <1>5, <1>6, <1>14 DEF FindEmail
<1>15. CASE CreateAndLink(r)
  BY <1>3, <1>4, <1>15 DEF CreateAndLink
<1>16. CASE LinkProvider(r)
  BY <1>3, <1>5, <1>16 DEF LinkProvider
<1>17. CASE Store(r)
  BY <1>3, <1>17 DEF Store
<1> QED
  BY <1>7, <1>8, <1>9, <1>10, <1>11, <1>12, <1>13, <1>14, <1>15, <1>16, <1>17 DEF Step

\* Nobody is welcomed twice: of concurrent registrations of one email only the one
\* whose insert succeeds queues the mail.
THEOREM WelcomedAtMostOnce == Spec => []WelcomedOnce
<1>1. Init => Mails
  BY DEF Init, Mails, Idle, Welcomes
<1>2. Inv /\ Mails /\ [Next]_vars => Mails'
  <2>1. ASSUME Mails, UNCHANGED vars \/ Initiate \/ StateExpires PROVE Mails'
    BY <2>1 DEF vars, Initiate, StateExpires, Mails, Known
  <2> QED
    BY <2>1, MailStep DEF Next
<1>3. Mails => WelcomedOnce
  BY DEF Mails, WelcomedOnce
<1> QED
  BY <1>1, <1>2, <1>3, Invariance, PTL DEF Spec

-----------------------------------------------------------------------------
\* The handlers implement the directory.

\* What the directory sees does not change with the rest.
LEMMA SameTables ==
    ASSUME account' = account, link' = link PROVE Members' = Members /\ Links' = Links
  BY DEF Members, MemberOf, Exists, Links

\* An account as a member.
LEMMA MemberFacts ==
    ASSUME Tables, NEW i \in Ids, Exists(i)
    PROVE  /\ MemberOf(i) \in Directory!Member /\ MemberOf(i) \in Members
           /\ account[i].email = <<MemberOf(i).email, "lower">>
           /\ account[i].name = NoText => MemberOf(i).name = NoText
           /\ account[i].name # NoText =>
                account[i].name = <<MemberOf(i).name, "lower">> /\ MemberOf(i).name \in Names
<1>1. account[i] \in Account
  BY DEF Tables, Exists
<1>2. /\ account[i].email \in Emails \X {"lower"}
      /\ account[i].name \in (Names \X {"lower"}) \cup {NoText}
  BY <1>1 DEF Account
<1>3. account[i].email = <<account[i].email[1], "lower">> /\ account[i].email[1] \in Emails
  BY <1>2
<1>4. account[i].name # NoText =>
        account[i].name = <<account[i].name[1], "lower">> /\ account[i].name[1] \in Names
  BY <1>2
<1>5. MemberOf(i).name \in Names \cup {NoText}
  BY <1>4 DEF MemberOf
<1>6. MemberOf(i) \in Directory!Member
  BY <1>3, <1>5 DEF MemberOf, Directory!Member
<1>7. MemberOf(i) \in Members
  BY DEF Members
<1> QED
  BY <1>3, <1>4, <1>6, <1>7 DEF MemberOf

\* Who is inside when handler r has gone on.
LEMMA InsideStep ==
    ASSUME Inv, NEW r \in Requests, NEW q, Becomes(r, q)
    PROVE  /\ q.pc # "session" => Inside' \subseteq Inside
           /\ q.pc # "session" /\ req[r].pc # "session" => Inside' = Inside
           /\ q.pc = "session" /\ req[r].pc # "session" =>
                Inside' = Inside \cup {<<q.who, q.id>>}
<1>1. req'[r] = q /\ \A s \in Requests \ {r} : req'[s] = req[s]
  BY DEF Inv, Becomes
<1> DEFINE others == {<<req[s].who, req[s].id>> : s \in {s \in Requests \ {r} : At(s, "session")}}
<1>2. /\ req[r].pc # "session" => Inside = others
      /\ req[r].pc = "session" => Inside = others \cup {<<req[r].who, req[r].id>>}
  BY DEF Inside, At
<1>3. /\ q.pc # "session" => Inside' = others
      /\ q.pc = "session" => Inside' = others \cup {<<q.who, q.id>>}
  BY <1>1 DEF Inside, At
<1> QED
  BY <1>2, <1>3

\* A step that leaves the tables and does not sign in.
LEMMA Leaving ==
    ASSUME Inv, NEW r \in Requests, NEW q, Becomes(r, q), q.pc # "session",
           account' = account, link' = link
    PROVE  Directory!Next
  BY InsideStep, SameTables DEF Directory!Next, Directory!Leave

\* A new row is a new member.
LEMMA Joining ==
    ASSUME Inv, NEW r \in Requests, NEW q, Becomes(r, q),
           q.pc # "session", req[r].pc # "session",
           NEW i \in Ids, NEW text \in Spelled(Emails), EmailFree(text), Insert(i, text)
    PROVE  \E m \in Directory!Member : m.id = i /\ Directory!Join(m)
<1> DEFINE m == [id |-> i, email |-> text[1], name |-> NoText]
<1>1. Tables
  BY DEF Inv
<1>2. /\ ~ Exists(i) /\ account' = [account EXCEPT ![i] = [email |-> Lower(text), name |-> NoText]]
      /\ text[1] \in Emails /\ Lower(text) = <<text[1], "lower">>
  BY DEF Insert, Spelled, Lower
<1>3. account \in [Ids -> Account \cup {NoAccount}]
  BY <1>1 DEF Tables
<1>4. account'[i] = [email |-> <<text[1], "lower">>, name |-> NoText]
  BY <1>2, <1>3
<1>5. \A j \in Ids \ {i} : account'[j] = account[j]
  BY <1>2, <1>3
<1>6. (Exists(i))' /\ MemberOf(i)' = m
  <2>1. <<text[1], "lower">> # NoText
    BY <1>2, AccountsAssumption
  <2>2. account'[i] # NoAccount
    BY <1>4, <2>1 DEF NoAccount
  <2> QED
    BY <1>4, <2>2 DEF Exists, MemberOf
<1>7. \A j \in Ids \ {i} : (Exists(j))' = Exists(j) /\ MemberOf(j)' = MemberOf(j)
  BY <1>5 DEF Exists, MemberOf
<1>8. Members' = Members \cup {m}
  BY <1>2, <1>6, <1>7 DEF Members
<1>9. ASSUME NEW n \in Members PROVE n.id # m.id /\ n.email # m.email
  <2>1. PICK j \in Ids : Exists(j) /\ n = MemberOf(j)
    BY <1>9 DEF Members
  <2>2. account[j].email = <<n.email, "lower">>
    BY <1>1, <2>1, MemberFacts
  <2>3. account[j].email # <<text[1], "lower">>
    BY <1>2 DEF EmailFree, WithEmail
  <2>4. n.id = j
    BY <2>1 DEF MemberOf
  <2> QED
    BY <1>2, <2>1, <2>2, <2>3, <2>4
<1>10. Inside' = Inside
  BY InsideStep
<1>11. m \in Directory!Member
  BY <1>2 DEF Directory!Member
<1> QED
  BY <1>8, <1>9, <1>10, <1>11 DEF Directory!Join

\* A new name is a member's new name.
LEMMA Renaming ==
    ASSUME Inv, NEW r \in Requests, At(r, "store"), Becomes(r, Idle), link' = link,
           NEW i \in Ids, Exists(i), NEW name \in (Names \X {"lower"}) \cup {NoText},
           NameFree(name, i), account' = [account EXCEPT ![i].name = name]
    PROVE  Directory!Next
<1> DEFINE word == IF name = NoText THEN NoText ELSE name[1]
           m == MemberOf(i)
<1>1. Tables /\ account \in [Ids -> Account \cup {NoAccount}] /\ account[i] \in Account
  BY DEF Inv, Tables, Exists
<1>2. account'[i] = [email |-> account[i].email, name |-> name]
  BY <1>1 DEF Account
<1>3. \A j \in Ids \ {i} : account'[j] = account[j]
  BY <1>1
<1>4. (Exists(i))' /\ MemberOf(i)' = [m EXCEPT !.name = word]
  <2>1. account[i].email # NoText
    BY <1>1, AccountsAssumption DEF Account
  <2>2. account'[i] # NoAccount
    BY <1>2, <2>1 DEF NoAccount
  <2> QED
    BY <1>2, <2>2 DEF Exists, MemberOf
<1>5. \A j \in Ids \ {i} : (Exists(j))' = Exists(j) /\ MemberOf(j)' = MemberOf(j)
  BY <1>3 DEF Exists, MemberOf
<1>6. \A j, k \in Ids : MemberOf(j) = MemberOf(k) => j = k
  BY DEF MemberOf
<1>7. Members' = (Members \ {m}) \cup {[m EXCEPT !.name = word]}
  <2>1. Members' = {MemberOf(j) : j \in {k \in Ids \ {i} : Exists(k)}} \cup {MemberOf(i)'}
    BY <1>4, <1>5 DEF Members
  <2>2. Members \ {m} = {MemberOf(j) : j \in {k \in Ids \ {i} : Exists(k)}}
    BY <1>6 DEF Members
  <2> QED
    BY <1>4, <2>1, <2>2
<1>8. ASSUME word # NoText, NEW n \in Members \ {m} PROVE n.name # word
  <2>1. PICK j \in Ids \ {i} : Exists(j) /\ n = MemberOf(j)
    BY <1>8 DEF Members
  <2>2. name # NoText /\ name = <<word, "lower">>
    BY <1>8
  <2>3. account[j].name # name
    BY <2>2 DEF NameFree
  <2>4. /\ account[j].name = NoText => n.name = NoText
        /\ account[j].name # NoText => account[j].name = <<n.name, "lower">>
    BY <1>1, <2>1, MemberFacts
  <2> QED
    BY <1>8, <2>2, <2>3, <2>4
<1>9. Inside' = Inside
  BY InsideStep DEF At, Idle
<1>10. Links' = Links
  BY DEF Links
<1>11. word \in Names \cup {NoText} /\ m \in Members
  BY <1>1, MemberFacts
<1>12. Directory!Rename(m, word)
  BY <1>7, <1>8, <1>9, <1>10 DEF Directory!Rename
<1> QED
  BY <1>11, <1>12 DEF Directory!Next

\* A new row in social_providers is a new link.
LEMMA Linking ==
    ASSUME Inv, NEW p \in Identities, NEW i \in Ids, IdentityFree(p),
           link' = [link EXCEPT ![p] = i]
    PROVE  ~ Directory!Linked(p) /\ Links' = Links \cup {<<p, i>>}
<1>1. link \in [Identities -> Ids \cup {NoId}] /\ link[p] = NoId /\ i # NoId
  BY AccountsAssumption DEF Inv, Tables, IdentityFree
<1>2. link'[p] = i /\ \A q \in Identities \ {p} : link'[q] = link[q]
  BY <1>1
<1>3. Links' = Links \cup {<<p, i>>}
  BY <1>1, <1>2 DEF Links
<1>4. ~ Directory!Linked(p)
  BY <1>1 DEF Links, Directory!Linked
<1> QED
  BY <1>3, <1>4

\* Every step of a handler is one of the directory, or none.
LEMMA DirectoryStep ==
    ASSUME Inv, NEW r \in Requests, Arrive(r) \/ Step(r) \/ Abort(r) PROVE Directory!Next
<1>1. Tables /\ Slot(req[r], account, link)
  BY DEF Inv
<1>2. ASSUME NEW pc, NEW i, GotoFor(r, pc, i)
      PROVE  \E q : Becomes(r, q) /\ q.pc = pc /\ q.id = i /\ q.who = req[r].who
  <2> DEFINE q == [op |-> req[r].op, pc |-> pc, id |-> i,
                   text |-> req[r].text, who |-> req[r].who]
  <2>1. Becomes(r, q)
    BY <1>2 DEF GotoFor, Becomes
  <2>2. q.pc = pc /\ q.id = i /\ q.who = req[r].who
    OBVIOUS
  <2> QED
    BY <2>1, <2>2
<1>3. ASSUME account' = account, link' = link, Return(r) PROVE Directory!Next
  <2>1. Becomes(r, Idle)
    BY <1>3 DEF Return, Becomes
  <2>2. Idle.pc # "session"
    BY DEF Idle
  <2> QED
    BY <1>3, <2>1, <2>2, Leaving
<1>4. ASSUME account' = account, link' = link, NEW pc, NEW i, GotoFor(r, pc, i), pc # "session"
      PROVE  Directory!Next
  <2>1. PICK q : Becomes(r, q) /\ q.pc = pc
    BY <1>2, <1>4
  <2> QED
    BY <1>4, <2>1, Leaving
<1>5. ASSUME account' = account, link' = link, NEW pc, Goto(r, pc), pc # "session"
      PROVE  Directory!Next
  BY <1>4, <1>5 DEF Goto
<1>6. ASSUME UNCHANGED tables PROVE account' = account /\ link' = link
  BY <1>6 DEF tables
<1>7. CASE Arrive(r)
  <2>1. ASSUME NEW q, Start(r, q), q.pc # "session" PROVE Directory!Next
    BY <1>6, <2>1, Leaving DEF Start, Becomes
  <2> QED
    BY <1>7, <2>1 DEF Arrive, StartRegister, StartCallback, StartUpdateMe, Idle
<1>8. CASE Create(r)
  <2>1. req[r].text \in Spelled(Emails) /\ req[r].pc # "session" /\ link' = link
    BY <1>1, <1>8 DEF Create, At, Slot
  <2>2. ASSUME NEW i \in Ids, EmailFree(req[r].text), Insert(i, req[r].text),
               GotoFor(r, "cache", i)
        PROVE  Directory!Next
    <3>1. PICK q : Becomes(r, q) /\ q.pc = "cache"
      BY <1>2, <2>2
    <3>2. PICK m \in Directory!Member : Directory!Join(m)
      BY <2>1, <2>2, <3>1, Joining
    <3>3. Links' = Links
      BY <2>1 DEF Links
    <3> QED
      BY <3>2, <3>3 DEF Directory!Next, Directory!Open
  <2> QED
    BY <1>3, <1>8, <2>1, <2>2 DEF Create
<1>9. CASE CreateAndLink(r)
  <2>1. req[r].text \in Spelled(Emails) /\ req[r].who \in Identities /\ req[r].pc # "session"
    BY <1>1, <1>9 DEF CreateAndLink, At, Slot
  <2>2. ASSUME NEW i \in Ids, EmailFree(req[r].text), IdentityFree(req[r].who),
               Insert(i, req[r].text), link' = [link EXCEPT ![req[r].who] = i],
               GotoFor(r, "loadUser", i)
        PROVE  Directory!Next
    <3>1. PICK q : Becomes(r, q) /\ q.pc = "loadUser"
      BY <1>2, <2>2
    <3>2. PICK m \in Directory!Member : m.id = i /\ Directory!Join(m)
      BY <2>1, <2>2, <3>1, Joining
    <3>3. ~ Directory!Linked(req[r].who) /\ Links' = Links \cup {<<req[r].who, m.id>>}
      BY <2>1, <2>2, <3>2, Linking
    <3> QED
      BY <2>1, <3>2, <3>3 DEF Directory!Next, Directory!OpenFor
  <2> QED
    BY <1>3, <1>9, <2>2 DEF CreateAndLink
<1>10. CASE LinkProvider(r)
  <2>1. /\ req[r].who \in Identities /\ req[r].id \in Ids /\ Exists(req[r].id)
        /\ req[r].pc # "session" /\ account' = account
    BY <1>1, <1>10 DEF LinkProvider, At, Slot, Exists
  <2>2. ASSUME IdentityFree(req[r].who), link' = [link EXCEPT ![req[r].who] = req[r].id],
               Goto(r, "session")
        PROVE  Directory!Next
    <3> DEFINE m == MemberOf(req[r].id)
    <3>1. m \in Members /\ m.id = req[r].id
      BY <1>1, <2>1, MemberFacts DEF MemberOf
    <3>2. ~ Directory!Linked(req[r].who) /\ Links' = Links \cup {<<req[r].who, m.id>>}
      BY <2>1, <2>2, <3>1, Linking
    <3>3. Inside' = Inside \cup {<<req[r].who, m.id>>}
      <4>1. PICK q : /\ Becomes(r, q) /\ q.pc = "session"
                     /\ q.id = req[r].id /\ q.who = req[r].who
        BY <1>2, <2>2 DEF Goto
      <4> QED
        BY <2>1, <3>1, <4>1, InsideStep
    <3>4. Members' = Members
      BY <2>1 DEF Members, MemberOf, Exists
    <3>5. Directory!Link(req[r].who, m)
      BY <3>2, <3>3, <3>4 DEF Directory!Link
    <3> QED
      BY <2>1, <3>1, <3>5 DEF Directory!Next
  <2> QED
    BY <1>3, <1>10, <2>1, <2>2 DEF LinkProvider
<1>11. CASE LoadUser(r)
  <2>1. CASE Exists(req[r].id) /\ Goto(r, "session")
    <3> DEFINE m == MemberOf(req[r].id)
    <3>1. /\ req[r].who \in Identities /\ req[r].id \in Ids /\ link[req[r].who] = req[r].id
          /\ req[r].pc # "session"
      BY <1>1, <1>11 DEF LoadUser, At, Slot
    <3>2. m \in Members /\ m.id = req[r].id
      BY <1>1, <2>1, <3>1, MemberFacts DEF MemberOf
    <3>3. <<req[r].who, m.id>> \in Links
      BY <3>1, <3>2, AccountsAssumption DEF Links
    <3>4. Inside' = Inside \cup {<<req[r].who, m.id>>}
      <4>1. PICK q : /\ Becomes(r, q) /\ q.pc = "session"
                     /\ q.id = req[r].id /\ q.who = req[r].who
        BY <1>2, <2>1 DEF Goto
      <4> QED
        BY <3>1, <3>2, <4>1, InsideStep
    <3>5. Members' = Members /\ Links' = Links
      BY <1>6, <1>11, SameTables DEF LoadUser
    <3>6. Directory!Enter(req[r].who, m)
      BY <3>3, <3>4, <3>5 DEF Directory!Enter
    <3> QED
      BY <3>1, <3>2, <3>6 DEF Directory!Next
  <2> QED
    BY <1>3, <1>6, <1>11, <2>1 DEF LoadUser
<1>12. CASE Store(r)
  <2> DEFINE name == IF req[r].text = NoText THEN NoText ELSE Lower(req[r].text)
  <2>1. /\ req[r].id \in Ids /\ Exists(req[r].id) /\ link' = link /\ At(r, "store")
        /\ req[r].text \in Spelled(Names) \cup {NoText} /\ Becomes(r, Idle)
    BY <1>1, <1>12 DEF Store, At, Slot, Exists, Return, Becomes
  <2>2. name \in (Names \X {"lower"}) \cup {NoText}
    BY <2>1 DEF Lower, Spelled
  <2>3. CASE NameFree(name, req[r].id) /\ account' = [account EXCEPT ![req[r].id].name = name]
    <3> HIDE DEF name
    <3> QED
      BY <2>1, <2>2, <2>3, Renaming
  <2> QED
    BY <1>3, <1>12, <2>1, <2>3 DEF Store
<1>13. CASE Profile(r)
  <2>1. ASSUME NEW e, Becomes(r, [op |-> req[r].op, pc |-> "findLink", id |-> req[r].id,
                                  text |-> e, who |-> req[r].who])
        PROVE  Directory!Next
    BY <1>6, <1>13, <2>1, Leaving DEF Profile
  <2> QED
    BY <1>3, <1>6, <1>13, <2>1 DEF Profile, Becomes
<1>14. CASE Exchange(r) \/ FindLink(r) \/ FindEmail(r) \/ Cache(r)
  BY <1>3, <1>4, <1>5, <1>6, <1>14 DEF Exchange, FindLink, FindEmail, Cache
<1>15. CASE Welcome(r) \/ SignIn(r) \/ FindUser(r) \/ FindName(r) \/ Abort(r)
  BY <1>3, <1>5, <1>6, <1>15 DEF Welcome, SignIn, FindUser, FindName, Abort
<1> QED
  BY <1>7, <1>8, <1>9, <1>10, <1>11, <1>12, <1>13, <1>14, <1>15 DEF Step

\* The handlers implement the directory, for any number of them, cut off anywhere:
\* who joins does so once and at one moment, and a link decides every later sign-in.
THEOREM DirectoryImplemented == Spec => ImplementsDirectory
<1>1. Init => Directory!Init
  <2> SUFFICES ASSUME Init PROVE Directory!Init
    OBVIOUS
  <2>1. Members = {}
    BY DEF Init, Members, Exists
  <2>2. Links = {}
    BY DEF Init, Links
  <2>3. Inside = {}
    BY DEF Init, Inside, At, Idle
  <2> QED
    BY <2>1, <2>2, <2>3 DEF Directory!Init
<1>2. Inv /\ [Next]_vars => [Directory!Next]_Directory!directory
  <2>1. ASSUME UNCHANGED vars \/ Initiate \/ StateExpires
        PROVE  UNCHANGED Directory!directory
    <3>1. account' = account /\ link' = link /\ req' = req
      BY <2>1 DEF vars, Initiate, StateExpires
    <3>2. Inside' = Inside
      BY <3>1 DEF Inside, At
    <3> QED
      BY <3>1, <3>2, SameTables DEF Directory!directory
  <2> QED
    BY <2>1, DirectoryStep DEF Next
<1> QED
  BY <1>1, <1>2, Invariance, PTL DEF Spec, ImplementsDirectory, Directory!Spec
=============================================================================
