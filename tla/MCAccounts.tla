----------------------------- MODULE MCAccounts -----------------------------
(***************************************************************************)
(* Accounts on the small instances of the MC*.cfg files.                   *)
(***************************************************************************)
EXTENDS Accounts, TLC

CONSTANTS ann, bob, number, other

\* Two people have shared one number as theirs in turn, and one of them another.
ContactsShared == {<<ann, number>>, <<bob, number>>, <<bob, other>>}

\* Two challenges are for the number that both have had; one alone may be for
\* the number that ann can only send as somebody else's.
OneNumber ==
    LET asked == {c \in Challenges : Exists(c)} IN
    \/ \A c \in asked : challenge[c].phone = number
    \/ Cardinality(asked) = 1 /\ \A c \in asked : challenge[c].purpose = "signup"

\* A card that Bale does not vouch for is only sent by a chat that has opened a
\* challenge, of a number that is asked for and not its own: any other is refused
\* for another reason already, or names a number that the chat may prove anyway.
CardsOfAsked ==
    \A i \in 1 .. Len(inbox) : inbox[i].kind = "contact" /\ ~inbox[i].own =>
        /\ <<inbox[i].chat, inbox[i].of>> \notin Owns
        /\ \E c \in Challenges : Exists(c) /\ challenge[c].phone = inbox[i].of
        /\ \E k \in 1 .. i - 1 : inbox[k].kind = "start" /\ inbox[k].chat = inbox[i].chat

\* Bound on the challenges and messages of one exploration; the second challenge
\* of an account, for a login or a new password, is delivered by its request.
SmallTraffic ==
    LET asked == {c \in Challenges : Exists(c)} IN
    /\ Cardinality(asked) + Len(inbox) <= 3
    /\ Cardinality(asked) = 2 /\ Len(inbox) > 0 => \A p \in Phones : ~HasAccount(p)

ChallengeSymmetry == Permutations(Challenges)
=============================================================================
