------------------------------ MODULE Accounts ------------------------------
(***************************************************************************)
(* Accounts and logins (accounts.py, auth.py) on top of the one-time       *)
(* codes.  Each request decides and commits under SQLite's write lock; the *)
(* middleware's look at the login (main.py) is an earlier one, so no step  *)
(* here relies on it.                                                      *)
(***************************************************************************)
EXTENDS OneTimeCodes

CONSTANT MaxEpoch \* bound on the times the logins of an account are ended

ASSUME EpochAssumption == MaxEpoch \in Nat

VARIABLES
    standing, \* users.status, "none" for no account
    epoch,    \* times the logins of the account were all ended
    logins    \* epochs under which a login was issued that is still in its table

accountVars == <<standing, epoch, logins>>
allVars     == <<codeVars, accountVars>>

HasAccount(p) == standing[p] # "none"

Issue(p) == logins' = [logins EXCEPT ![p] = @ \cup {epoch[p]}]

\* Bound: MaxEpoch.
EndLogins(p, left) ==
    /\ epoch[p] < MaxEpoch
    /\ epoch' = [epoch EXCEPT ![p] = @ + 1]
    /\ logins' = [logins EXCEPT ![p] = left]

\* signup: a right code for a phone that has an account answers 409, and the
\* transaction, the spent code included, is rolled back.
Signup(c) ==
    LET p == challenge[c].phone IN
    /\ Exists(c) /\ Spend(c, "signup")
    /\ ~HasAccount(p)
    /\ standing' = [standing EXCEPT ![p] = "pending"]
    /\ Issue(p)
    /\ UNCHANGED epoch

PasswordLogin(p) ==
    /\ HasAccount(p)
    /\ Issue(p)
    /\ UNCHANGED <<codeVars, standing, epoch>>

BaleLogin(c) ==
    LET p == challenge[c].phone IN
    /\ Exists(c) /\ Spend(c, "login")
    /\ HasAccount(p)
    /\ Issue(p)
    /\ UNCHANGED <<standing, epoch>>

ResetKeepsLogins(c) ==                     \* mutant: only the password changes
    LET p == challenge[c].phone IN
    /\ Exists(c) /\ Spend(c, "reset")
    /\ HasAccount(p)
    /\ EndLogins(p, logins[p])
    /\ UNCHANGED standing
ResetPassword(c) ==
    LET p == challenge[c].phone IN
    /\ Exists(c) /\ Spend(c, "reset")
    /\ HasAccount(p)
    /\ EndLogins(p, {})
    /\ UNCHANGED standing

\* change_password: whoever knows the password gets the one login that is left.
ChangePassword(p) ==
    /\ HasAccount(p)
    /\ EndLogins(p, {epoch[p] + 1})
    /\ UNCHANGED <<codeVars, standing>>

\* The last login of an epoch leaves, by logout or by its age.
Logout(p) ==
    /\ \E e \in logins[p] : logins' = [logins EXCEPT ![p] = @ \ {e}]
    /\ UNCHANGED <<codeVars, standing, epoch>>

\* set_status, by an administrator.
SetStatus(p, st) ==
    /\ HasAccount(p)
    /\ standing' = [standing EXCEPT ![p] = st]
    /\ IF st = "approved" THEN UNCHANGED <<epoch, logins>> ELSE EndLogins(p, {})
    /\ UNCHANGED codeVars

AccountsInit ==
    /\ CodesInit
    /\ standing = [p \in Phones |-> "none"]
    /\ epoch = [p \in Phones |-> 0]
    /\ logins = [p \in Phones |-> {}]

CodesNext ==
    /\ \/ \E c \in Challenges, p \in Phones, u \in Purposes : CreateChallenge(c, p, u)
       \/ \E p \in Phones : CoolDown(p)
       \/ \E c \in Challenges : Expire(c) \/ DeliveryStep(c) \/ WrongCode(c)
       \/ \E u \in Updates : Message(u)
       \/ BotStep \/ BotCrash
    /\ UNCHANGED accountVars

AccountsNext ==
    \/ CodesNext
    \/ \E c \in Challenges : Signup(c) \/ BaleLogin(c) \/ ResetPassword(c)
    \/ \E p \in Phones :
        \/ PasswordLogin(p) \/ ChangePassword(p) \/ Logout(p)
        \/ \E st \in {"pending", "approved", "suspended"} : SetStatus(p, st)

AccountsSpec == AccountsInit /\ [][AccountsNext]_allVars

-----------------------------------------------------------------------------
(* Safety. *)

Standings == {"none", "pending", "approved", "suspended"}

AccountsTypeOK ==
    /\ challenge \in [Challenges -> Row \cup {None}]
    /\ recent \in [Phones -> Challenges \cup {None}]
    /\ identity \in [Phones -> Chats \cup {None}]
    /\ flow \in [Chats -> Challenges \cup {None}]
    /\ drawn \in [Challenges -> 0 .. MaxCodes]
    /\ outbox \subseteq Challenges \X (1 .. MaxCodes) \X Chats
    /\ at \in [Deliverers -> {"idle", "prepare", "send", "confirm", "tell", "save"}]
    /\ mine \in [Deliverers -> [of : Challenges \cup {None}, code : 0 .. MaxCodes,
                                chat : Chats \cup {None}]]
    /\ inbox \in Seq(Updates) /\ offset \in 0 .. Len(inbox)
    /\ wrong \in [Challenges -> Nat] /\ spent \in [Challenges -> Nat]
    /\ standing \in [Phones -> Standings]
    /\ epoch \in [Phones -> 0 .. MaxEpoch]
    /\ logins \in [Phones -> SUBSET (0 .. MaxEpoch)]

\* A phone has at most one code that can still be used, however requests,
\* deliveries and the bot interleave.
OneOpenChallenge ==
    \A c, d \in Challenges :
        /\ Exists(c) /\ ~challenge[c].used
        /\ Exists(d) /\ ~challenge[d].used
        /\ challenge[c].phone = challenge[d].phone
        => c = d

\* A challenge that accepts codes accepts the one that reached the chat of its
\* phone's owner, and no other, although two deliverers may draw codes for it.
DeliveredCodeWasSent ==
    \A c \in Challenges :
        Exists(c) /\ challenge[c].delivered =>
            LET chat == identity[challenge[c].phone] IN
            /\ <<c, challenge[c].code, chat>> \in outbox
            /\ <<chat, challenge[c].phone>> \in Owns

\* A challenge answers at most MaxAttempts wrong codes.
GuessBound == \A c \in Challenges : wrong[c] <= MaxAttempts

\* A challenge is accepted once: one signup, one login or one new password.
SpentOnce == \A c \in Challenges : spent[c] <= 1

\* No login outlives a new password or the loss of the approval.
LoginsAreCurrent == \A p \in Phones : logins[p] \subseteq {epoch[p]}

\* The chat of a phone never changes, and no two phones share one.
IdentityStable ==
    [][/\ \A p \in Phones : identity[p] # None => identity'[p] = identity[p]
       /\ \A p, q \in Phones : identity'[p] = identity'[q] /\ p # q => identity'[p] = None
      ]_allVars
=============================================================================
