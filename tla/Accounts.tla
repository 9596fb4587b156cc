------------------------------ MODULE Accounts ------------------------------
(***************************************************************************)
(* How accounts come to be and stay distinct: registration by email, the   *)
(* callback of an OAuth provider, and choosing a username.  Each handler   *)
(* looks first and writes later, so that concurrent ones meet at the       *)
(* UNIQUE constraints of the tables users and social_providers.            *)
(***************************************************************************)
EXTENDS Naturals, FiniteSets

CONSTANTS
    Ids,            \* users.id; bound: so many accounts are created
    Emails, Names,  \* addresses and usernames, apart from upper and lower case
    Identities,     \* (providerName, providerId) of the people who sign in
    Requests,       \* slots for concurrently executing handlers
    Ops,            \* the handlers of this instance
    Events,         \* "abort": a handler may end between two awaits
    NoId, NoText

AllOps == {"register", "callback", "updateMe"}

ASSUME AccountsAssumption ==
    /\ NoId \notin Ids /\ NoText \notin (Emails \cup Names) \X {"lower", "mixed"}
    /\ Ops \subseteq AllOps /\ Events \subseteq {"abort"}

\* Ways to write a text, and what toLowerCase makes of them.
Spelled(texts) == texts \X {"lower", "mixed"}

\* Faulty: the case is kept.
FaultyLower(text) == text

Lower(text) == <<text[1], "lower">>

VARIABLES
    account,    \* account[i]: the users row with that id
    link,       \* link[p]: the account the social_providers row of p names
    welcomed,   \* welcomed[e]: welcome mails queued for e; 2: two or more
    invited,    \* whether a state was issued in the last ten minutes
    req         \* req[r]: the handler slot r executes

vars == <<account, link, welcomed, invited, req>>

NoAccount == [email |-> NoText, name |-> NoText]
Account == [email : Emails \X {"lower"}, name : (Names \X {"lower"}) \cup {NoText}]

Steps == {"idle", "exchange", "profile", "findLink", "findEmail", "create", "cache", "welcome", "createAndLink",
          "link", "loadUser", "session", "findUser", "findName", "store"}

\* text: the email or the username of the request; id: the account it works on.
Request == [op: AllOps \cup {"none"}, pc: Steps, id: Ids \cup {NoId},
            text: Spelled(Emails \cup Names) \cup {NoText}, who: Identities \cup {"none"}]

Idle == [op |-> "none", pc |-> "idle", id |-> NoId, text |-> NoText, who |-> "none"]

TypeOK ==
    /\ account \in [Ids -> Account \cup {NoAccount}]
    /\ link \in [Identities -> Ids \cup {NoId}]
    /\ welcomed \in [Emails -> 0..2]
    /\ invited \in BOOLEAN
    /\ req \in [Requests -> Request]

Init ==
    /\ account = [i \in Ids |-> NoAccount]
    /\ link = [p \in Identities |-> NoId]
    /\ welcomed = [e \in Emails |-> 0]
    /\ invited = FALSE
    /\ req = [r \in Requests |-> Idle]

Exists(i) == account[i] # NoAccount
WithEmail(text) == {i \in Ids : account[i].email = Lower(text)}
WithName(text) == {i \in Ids : account[i].name = Lower(text)}

-----------------------------------------------------------------------------
\* Control of one handler.

tables == <<account, link, welcomed, invited>>

Start(r, q) ==
    /\ q.op \in Ops
    /\ req[r] = Idle
    /\ req' = [req EXCEPT ![r] = q]
    /\ UNCHANGED tables

At(r, pc) == req[r].pc = pc

GotoFor(r, pc, i) ==
    req' = [req EXCEPT ![r] = [op |-> req[r].op, pc |-> pc, id |-> i,
                               text |-> req[r].text, who |-> req[r].who]]

Goto(r, pc) == GotoFor(r, pc, req[r].id)

\* The answer, or an error: 4xx or, when a constraint is violated, 500.
Return(r) == req' = [req EXCEPT ![r] = Idle]

-----------------------------------------------------------------------------
\* POST /auth/register and GET /auth/oauth/<provider>/callback.

StartRegister(r, email) ==
    Start(r, [Idle EXCEPT !.op = "register", !.pc = "findEmail", !.text = email])

\* GET /auth/oauth/<provider>, for a provider of the registry: a signed state.
Initiate ==
    /\ "callback" \in Ops
    /\ invited' = TRUE
    /\ UNCHANGED <<account, link, welcomed, req>>

\* STATE_EXPIRY.
StateExpires ==
    /\ invited' = FALSE
    /\ UNCHANGED <<account, link, welcomed, req>>

\* Person p comes back from the provider with a code and a state that is valid;
\* the state names the provider, and may come back more than once.
StartCallback(r, p) ==
    /\ invited
    /\ Start(r, [Idle EXCEPT !.op = "callback", !.pc = "exchange", !.who = p])

\* exchangeCodeForTokens: the provider takes a code once, if at all.
Exchange(r) ==
    /\ At(r, "exchange")
    /\ Goto(r, "profile") \/ Return(r)
    /\ UNCHANGED tables

\* getUserProfile: the email is the one the person has there now, if any.
Profile(r) ==
    /\ At(r, "profile")
    /\ \/ \E email \in Spelled(Emails) :
            req' = [req EXCEPT ![r] = [op |-> req[r].op, pc |-> "findLink", id |-> req[r].id,
                                       text |-> email, who |-> req[r].who]]
       \/ Return(r)
    /\ UNCHANGED tables

\* findByProvider.
FindLink(r) ==
    /\ At(r, "findLink")
    /\ IF link[req[r].who] # NoId THEN GotoFor(r, "loadUser", link[req[r].who])
       ELSE Goto(r, "findEmail")
    /\ UNCHANGED tables

\* findByEmail: taken, to be linked, or new.
FindEmail(r) ==
    /\ At(r, "findEmail")
    /\ LET found == WithEmail(req[r].text)
           register == req[r].op = "register"
       IN  \/ found = {} /\ Goto(r, IF register THEN "create" ELSE "createAndLink")
           \/ found # {} /\ register /\ Return(r)
           \/ \E i \in found : ~ register /\ GotoFor(r, "link", i)
    /\ UNCHANGED tables

\* The users row of registration and of an OAuth callback, under a new id.
Insert(i, email) ==
    /\ ~ Exists(i)
    /\ account' = [account EXCEPT ![i] = [email |-> Lower(email), name |-> NoText]]

\* users.email is UNIQUE.
EmailFree(text) == WithEmail(text) = {}

\* Faulty: the mail is queued whether or not the row could be inserted.
FaultyCreate(r) ==
    /\ At(r, "create")
    /\ IF EmailFree(req[r].text)
       THEN \E i \in Ids : Insert(i, req[r].text) /\ GotoFor(r, "cache", i)
       ELSE Goto(r, "cache") /\ UNCHANGED account
    /\ UNCHANGED <<link, welcomed, invited>>

\* The insert of registration.
Create(r) ==
    /\ At(r, "create")
    /\ IF EmailFree(req[r].text)
       THEN \E i \in Ids : Insert(i, req[r].text) /\ GotoFor(r, "cache", i)
       ELSE Return(r) /\ UNCHANGED account
    /\ UNCHANGED <<link, welcomed, invited>>

\* UserCache.set, see module UserCache.
Cache(r) ==
    /\ At(r, "cache")
    /\ Goto(r, "welcome")
    /\ UNCHANGED tables

\* queueWelcomeEmail; nothing is queued when delivery is off or queueing fails.
Welcome(r) ==
    /\ At(r, "welcome")
    /\ \/ welcomed' = [welcomed EXCEPT ![req[r].text[1]] = IF @ = 2 THEN 2 ELSE @ + 1]
       \/ UNCHANGED welcomed
    /\ Return(r)
    /\ UNCHANGED <<account, link, invited>>

\* Faulty: the row of an identity is replaced (ON CONFLICT DO UPDATE).
FaultyIdentityFree(p) == TRUE

\* UNIQUE("providerName", "providerId").
IdentityFree(p) == link[p] = NoId

\* The transaction of createUserAndLink: both rows or none.
CreateAndLink(r) ==
    /\ At(r, "createAndLink")
    /\ IF EmailFree(req[r].text) /\ IdentityFree(req[r].who)
       THEN \E i \in Ids :
                /\ Insert(i, req[r].text)
                /\ link' = [link EXCEPT ![req[r].who] = i]
                /\ GotoFor(r, "loadUser", i)
       ELSE Return(r) /\ UNCHANGED <<account, link>>
    /\ UNCHANGED <<welcomed, invited>>

\* Faulty: an identity that is linked already is passed over (ON CONFLICT DO NOTHING).
FaultyLinkProvider(r) ==
    /\ At(r, "link")
    /\ IF IdentityFree(req[r].who) THEN link' = [link EXCEPT ![req[r].who] = req[r].id]
       ELSE UNCHANGED link
    /\ Goto(r, "session")
    /\ UNCHANGED <<account, welcomed, invited>>

\* linkProvider, for the account found by email.
LinkProvider(r) ==
    /\ At(r, "link")
    /\ IF IdentityFree(req[r].who)
       THEN link' = [link EXCEPT ![req[r].who] = req[r].id] /\ Goto(r, "session")
       ELSE Return(r) /\ UNCHANGED link
    /\ UNCHANGED <<account, welcomed, invited>>

\* findById.
LoadUser(r) ==
    /\ At(r, "loadUser")
    /\ IF Exists(req[r].id) THEN Goto(r, "session") ELSE Return(r)
    /\ UNCHANGED tables

\* createSessionAndTokens, see module Sessions: the person is signed in.
SignIn(r) ==
    /\ At(r, "session")
    /\ Return(r)
    /\ UNCHANGED tables

-----------------------------------------------------------------------------
\* PATCH /users/me; text is NoText to clear the username.

StartUpdateMe(r, i, name) ==
    /\ Exists(i)
    /\ Start(r, [Idle EXCEPT !.op = "updateMe", !.pc = "findUser", !.id = i, !.text = name])

FindUser(r) ==
    /\ At(r, "findUser")
    /\ Goto(r, IF req[r].text = NoText THEN "store" ELSE "findName")
    /\ UNCHANGED tables

\* findByUsername: somebody else's name is a conflict.
FindName(r) ==
    /\ At(r, "findName")
    /\ IF WithName(req[r].text) \subseteq {req[r].id} THEN Goto(r, "store")
       ELSE Return(r)
    /\ UNCHANGED tables

\* Faulty: the constraint is missing.
FaultyNameFree(name, i) == TRUE

\* users.username is UNIQUE, NULLs excepted.
NameFree(name, i) == name # NoText => \A j \in Ids \ {i} : account[j].name # name

\* The update, by the id of the caller.
Store(r) ==
    /\ At(r, "store")
    /\ LET name == IF req[r].text = NoText THEN NoText ELSE Lower(req[r].text)
       IN  IF NameFree(name, req[r].id)
           THEN /\ account' = [account EXCEPT ![req[r].id].name = name]
                /\ Return(r)
           ELSE Return(r) /\ UNCHANGED account
    /\ UNCHANGED <<link, welcomed, invited>>

-----------------------------------------------------------------------------
\* An await rejects or the process dies.
Abort(r) ==
    /\ "abort" \in Events
    /\ req[r] # Idle
    /\ Return(r)
    /\ UNCHANGED tables

Step(r) ==
    \/ Exchange(r) \/ Profile(r) \/ FindLink(r) \/ FindEmail(r)
    \/ Create(r) \/ Cache(r) \/ Welcome(r)
    \/ CreateAndLink(r) \/ LinkProvider(r) \/ LoadUser(r) \/ SignIn(r)
    \/ FindUser(r) \/ FindName(r) \/ Store(r)

Arrive(r) ==
    \/ \E e \in Spelled(Emails) : StartRegister(r, e)
    \/ \E p \in Identities : StartCallback(r, p)
    \/ \E i \in Ids, n \in Spelled(Names) \cup {NoText} : StartUpdateMe(r, i, n)

Next ==
    \/ \E r \in Requests : Arrive(r) \/ Step(r) \/ Abort(r)
    \/ Initiate \/ StateExpires

Spec == Init /\ [][Next]_vars
=============================================================================
