--------------------------- MODULE AccountsProps ---------------------------
(***************************************************************************)
(* What registration, OAuth sign-in and usernames must guarantee.          *)
(***************************************************************************)
EXTENDS Accounts

\* However handlers that looked at the same time go on, no two accounts share an
\* email or a username, not even spelled differently (register and oauth insert
\* after a lookup, update-me updates after one; lookups and writes both lower
\* the case).
DistinctAccounts ==
    \A i, j \in Ids : Exists(i) /\ Exists(j) /\ i # j =>
        /\ account[i].email[1] # account[j].email[1]
        /\ account[i].name # NoText /\ account[j].name # NoText =>
            account[i].name[1] # account[j].name[1]

\* Who signs in with a provider gets a session of the one account that is linked
\* to that identity, however the callbacks and the emails in the profiles change
\* meanwhile: the link is written before the session, and its constraint decides.
SignedInAsLinked ==
    \A r \in Requests : At(r, "session") =>
        /\ link[req[r].who] = req[r].id
        /\ Exists(req[r].id)

\* Nobody is welcomed twice: of concurrent registrations only the one whose
\* insert succeeds goes on to queue the mail (queue-welcome-email.service.ts).
WelcomedOnce == \A e \in Emails : welcomed[e] < 2

\* The directory's view of the tables: spelling does not matter to it.
MemberOf(i) ==
    [id |-> i, email |-> account[i].email[1],
     name |-> IF account[i].name = NoText THEN NoText ELSE account[i].name[1]]

Members == {MemberOf(i) : i \in {j \in Ids : Exists(j)}}

Links == {<<p, link[p]>> : p \in {q \in Identities : link[q] # NoId}}

Inside == {<<req[r].who, req[r].id>> : r \in {s \in Requests : At(s, "session")}}

Directory == INSTANCE AccountDirectory WITH
    members <- Members, links <- Links, inside <- Inside

\* The handlers implement the directory: joining and linking happen once and at one
\* moment, although lookups come before and handlers are cut off; a link, once made,
\* decides every later sign-in, and nobody takes an address, a name or a link away.
ImplementsDirectory == Directory!Spec
=============================================================================
