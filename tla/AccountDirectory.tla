-------------------------- MODULE AccountDirectory --------------------------
(***************************************************************************)
(* What registration and OAuth sign-in promise of accounts, without        *)
(* handlers and without spelling: a member joins once, at one moment, with *)
(* an address nobody has; an identity is linked once, to somebody who is   *)
(* there, and from then on leads to nobody else.                           *)
(***************************************************************************)

CONSTANTS Ids, Emails, Names, Identities, NoText

VARIABLES
    members,    \* whoever has an account
    links,      \* <<identity, account>>
    inside      \* <<identity, account>>: who has just been signed in, as whom

directory == <<members, links, inside>>

Member == [id: Ids, email: Emails, name: Names \cup {NoText}]

Init == members = {} /\ links = {} /\ inside = {}

Linked(p) == \E l \in links : l[1] = p

Join(m) ==
    /\ m.name = NoText
    /\ \A n \in members : n.id # m.id /\ n.email # m.email
    /\ members' = members \cup {m}
    /\ UNCHANGED inside

\* Registration.
Open(m) == Join(m) /\ UNCHANGED links

\* The first sign-in of a person who has no account: both at once.
OpenFor(p, m) ==
    /\ ~ Linked(p)
    /\ Join(m)
    /\ links' = links \cup {<<p, m.id>>}

\* The first sign-in of a person who has one.
Link(p, m) ==
    /\ ~ Linked(p)
    /\ links' = links \cup {<<p, m.id>>}
    /\ inside' = inside \cup {<<p, m.id>>}
    /\ UNCHANGED members

\* Any other sign-in.
Enter(p, m) ==
    /\ <<p, m.id>> \in links
    /\ inside' = inside \cup {<<p, m.id>>}
    /\ UNCHANGED <<members, links>>

Rename(m, name) ==
    /\ name # NoText => \A n \in members \ {m} : n.name # name
    /\ members' = (members \ {m}) \cup {[m EXCEPT !.name = name]}
    /\ UNCHANGED <<links, inside>>

\* Sign-ins are over: their sessions are made, or they have failed.
Leave ==
    /\ inside' \subseteq inside
    /\ UNCHANGED <<members, links>>

Next ==
    \/ \E m \in Member : Open(m) \/ \E p \in Identities : OpenFor(p, m)
    \/ \E m \in members, p \in Identities : Link(p, m) \/ Enter(p, m)
    \/ \E m \in members, name \in Names \cup {NoText} : Rename(m, name)
    \/ Leave

Spec == Init /\ [][Next]_directory
=============================================================================
