---------------------------- MODULE OneTimeCodes ----------------------------
(***************************************************************************)
(* Verification challenges and how their codes reach a phone's owner: the  *)
(* requests of the site (accounts.py, auth.py), the bot process (bale.py)  *)
(* with its inbox, and deliver_code, which both of them run.               *)
(***************************************************************************)
EXTENDS Naturals, Sequences, FiniteSets

CONSTANTS
    Challenges,  \* ids (token_urlsafe, never reused)
    Phones,
    Chats,       \* private chats; in one, chat_id = user_id of its sender
    Owns,        \* <<chat, phone>>: the numbers Bale has registered for a sender
    None,
    MaxAttempts, \* wrong codes a challenge survives: 5 in consume_challenge
    MaxCodes,    \* bound on the codes drawn for one challenge
    MaxUpdates,  \* bound on the messages the bot receives
    CodeFaults   \* "send": the transport fails; "crash": the bot is killed

Purposes == {"signup", "login", "reset"}

\* What verification_challenges says of one.
Row == [phone : Phones, purpose : Purposes, code : 0 .. MaxCodes,
        attempts : 0 .. MaxAttempts, delivered : BOOLEAN, used : BOOLEAN,
        expired : BOOLEAN]

ASSUME CodesAssumption ==
    /\ None \notin Challenges \cup Phones \cup Chats \cup Row
    /\ "bot" \notin Challenges
    /\ Owns \subseteq Chats \X Phones
    /\ MaxAttempts \in Nat \ {0} /\ MaxCodes \in Nat /\ MaxUpdates \in Nat
    /\ CodeFaults \subseteq {"send", "crash"}

\* deliver_code runs in the request that creates a challenge, and in the bot.
Deliverers == Challenges \cup {"bot"}

VARIABLES
    challenge, \* verification_challenges: what a row says, None for no row
    recent,    \* the challenge created in the last 60 seconds, per phone
    identity,  \* bale_identities: the chat of a phone
    flow,      \* bale_flows: the challenge a chat has opened
    drawn,     \* codes drawn for a challenge so far; a code is its number
    outbox,    \* <<challenge, code, chat>> that reached the chat
    at,        \* where a deliverer is
    mine,      \* the challenge, code and chat of its deliver_code
    inbox,     \* the messages the bot was ever sent
    offset,    \* bot_state: how many of them are done with
    wrong,     \* wrong codes answered, per challenge
    spent      \* times a challenge was accepted

codeRows == <<challenge, recent, identity, flow>>
delivery == <<drawn, outbox, at, mine>>
bot      == <<inbox, offset>>
guesses  == <<wrong, spent>>
codeVars == <<challenge, recent, identity, flow, drawn, outbox, at, mine, inbox,
              offset, wrong, spent>>

Updates == [kind : {"start"}, chat : Chats, of : Challenges]
           \cup [kind : {"contact"}, chat : Chats, of : Phones, own : BOOLEAN]

Exists(c) == challenge[c] # None
Usable(c) == Exists(c) /\ ~challenge[c].used /\ ~challenge[c].expired

Set(c, row) == challenge' = [challenge EXCEPT ![c] = row]
Move(d, where) == at' = [at EXCEPT ![d] = where]

-----------------------------------------------------------------------------
\* create_challenge: older codes of the phone end with the new one's commit;
\* a phone the bot knows is served at once.
NewRow(p, purpose) ==
    [phone |-> p, purpose |-> purpose, code |-> 0, attempts |-> 0,
     delivered |-> FALSE, used |-> FALSE, expired |-> FALSE]

Superseded(p) ==
    [d \in Challenges |-> IF Exists(d) /\ challenge[d].phone = p
                          THEN [challenge[d] EXCEPT !.used = TRUE] ELSE challenge[d]]

CreateKeepsOlder(c, p, purpose) ==         \* mutant: older codes stay open
    /\ ~Exists(c) /\ recent[p] = None
    /\ Set(c, NewRow(p, purpose))
    /\ recent' = [recent EXCEPT ![p] = c]
    /\ IF identity[p] # None
       THEN Move(c, "prepare") /\ mine' = [mine EXCEPT ![c].of = c, ![c].chat = identity[p]]
       ELSE UNCHANGED <<at, mine>>
    /\ UNCHANGED <<identity, flow, drawn, outbox, bot, guesses>>
CreateChallenge(c, p, purpose) ==
    /\ ~Exists(c) /\ recent[p] = None
    /\ challenge' = [Superseded(p) EXCEPT ![c] = NewRow(p, purpose)]
    /\ recent' = [recent EXCEPT ![p] = c]
    /\ IF identity[p] # None
       THEN Move(c, "prepare") /\ mine' = [mine EXCEPT ![c].of = c, ![c].chat = identity[p]]
       ELSE UNCHANGED <<at, mine>>
    /\ UNCHANGED <<identity, flow, drawn, outbox, bot, guesses>>

\* Time: the minute after a challenge, and then the five minutes of its code.
CoolDown(p) ==
    /\ recent[p] # None
    /\ recent' = [recent EXCEPT ![p] = None]
    /\ UNCHANGED <<challenge, identity, flow, delivery, bot, guesses>>

Expire(c) ==
    /\ Exists(c) /\ ~challenge[c].expired /\ recent[challenge[c].phone] # c
    /\ Set(c, [challenge[c] EXCEPT !.expired = TRUE])
    /\ UNCHANGED <<recent, identity, flow, delivery, bot, guesses>>

-----------------------------------------------------------------------------
\* deliver_code.  A deliverer that is through goes back to its caller.
Return(d) ==
    /\ Move(d, IF d = "bot" THEN "save" ELSE "idle")
    /\ mine' = [mine EXCEPT ![d] = [of |-> None, code |-> 0, chat |-> None]]

\* An exception: a request swallows it, the bot takes the same message again.
Raise(d) ==
    /\ Move(d, "idle")
    /\ mine' = [mine EXCEPT ![d] = [of |-> None, code |-> 0, chat |-> None]]

MayDeliver(c, chat) ==
    /\ Usable(c) /\ ~challenge[c].delivered
    /\ identity[challenge[c].phone] = chat

Prepare(d) ==
    LET c == mine[d].of IN
    /\ at[d] = "prepare"
    /\ IF MayDeliver(c, mine[d].chat)
       THEN /\ drawn[c] < MaxCodes
            /\ drawn' = [drawn EXCEPT ![c] = @ + 1]
            /\ Set(c, [challenge[c] EXCEPT !.code = drawn[c] + 1])
            /\ mine' = [mine EXCEPT ![d].code = drawn[c] + 1]
            /\ Move(d, "send")
       ELSE Return(d) /\ UNCHANGED <<challenge, drawn>>
    /\ UNCHANGED <<recent, identity, flow, outbox, bot, guesses>>

Posted(d) == outbox \cup {<<mine[d].of, mine[d].code, mine[d].chat>>}

SendCode(d) ==
    /\ at[d] = "send"
    /\ outbox' = Posted(d)
    /\ Move(d, "confirm")
    /\ UNCHANGED <<codeRows, drawn, mine, bot, guesses>>

\* The transport fails, perhaps after the message has arrived.
SendCodeFails(d) ==
    /\ "send" \in CodeFaults /\ at[d] = "send"
    /\ outbox' \in {outbox, Posted(d)}
    /\ Raise(d)
    /\ UNCHANGED <<codeRows, drawn, bot, guesses>>

\* UPDATE ... SET delivered WHERE the code is still this deliverer's.
ConfirmAny(d) ==                           \* mutant: WHERE on the id only
    LET c == mine[d].of IN
    /\ at[d] = "confirm"
    /\ Set(c, [challenge[c] EXCEPT !.delivered = TRUE])
    /\ Return(d)
    /\ UNCHANGED <<recent, identity, flow, drawn, outbox, bot, guesses>>
Confirm(d) ==
    LET c == mine[d].of IN
    /\ at[d] = "confirm"
    /\ Set(c, [challenge[c] EXCEPT !.delivered = @ \/ challenge[c].code = mine[d].code])
    /\ Return(d)
    /\ UNCHANGED <<recent, identity, flow, drawn, outbox, bot, guesses>>

-----------------------------------------------------------------------------
\* The bot.  process_update handles one message; the offset is saved after it,
\* and whatever goes wrong before that makes the bot handle it once more.

\* A contact may name any phone.  Bale puts the sender's id on a card that was
\* not forwarded (own) only if the number is the sender's.  Bound: MaxUpdates.
Message(u) ==
    /\ Len(inbox) < MaxUpdates
    /\ u.kind = "start" => Exists(u.of)
    /\ u.kind = "contact" /\ u.own => <<u.chat, u.of>> \in Owns
    /\ inbox' = Append(inbox, u)
    /\ UNCHANGED <<codeRows, delivery, offset, guesses>>

Next1 == inbox[offset + 1]

Waiting(kind) == at["bot"] = "idle" /\ offset < Len(inbox) /\ Next1.kind = kind

\* /start v_<challenge>: the chat opens the challenge, or is told off.
BotStart ==
    /\ Waiting("start")
    /\ flow' = IF Usable(Next1.of) THEN [flow EXCEPT ![Next1.chat] = Next1.of] ELSE flow
    /\ Move("bot", "tell")
    /\ UNCHANGED <<challenge, recent, identity, drawn, outbox, mine, bot, guesses>>

\* A contact has to be the sender's own and the phone of the challenge that was
\* opened, and neither the phone nor the sender may be known otherwise.
Matches(chat, p) ==
    flow[chat] # None /\ Usable(flow[chat]) /\ challenge[flow[chat]].phone = p

UnclaimedPhoneAside(chat, p) ==            \* mutant: the phone's own row is not read
    \A q \in Phones : identity[q] = chat => q = p
Unclaimed(chat, p) ==
    /\ identity[p] \in {None, chat}
    /\ \A q \in Phones : identity[q] = chat => q = p

BotContactAnyCard ==                       \* mutant: somebody else's card will do
    LET chat == Next1.chat
        p    == Next1.of
    IN
    /\ Waiting("contact")
    /\ IF Matches(chat, p) /\ Unclaimed(chat, p)
       THEN /\ identity' = [identity EXCEPT ![p] = chat]
            /\ mine' = [mine EXCEPT !["bot"].of = flow[chat], !["bot"].chat = chat]
            /\ Move("bot", "prepare")
       ELSE Move("bot", "tell") /\ UNCHANGED <<identity, mine>>
    /\ UNCHANGED <<challenge, recent, flow, drawn, outbox, bot, guesses>>
BotContact ==
    LET chat == Next1.chat
        p    == Next1.of
    IN
    /\ Waiting("contact")
    /\ IF Next1.own /\ Matches(chat, p) /\ Unclaimed(chat, p)
       THEN /\ identity' = [identity EXCEPT ![p] = chat]
            /\ mine' = [mine EXCEPT !["bot"].of = flow[chat], !["bot"].chat = chat]
            /\ Move("bot", "prepare")
       ELSE Move("bot", "tell") /\ UNCHANGED <<identity, mine>>
    /\ UNCHANGED <<challenge, recent, flow, drawn, outbox, bot, guesses>>

BotTells ==
    /\ at["bot"] = "tell"
    /\ Move("bot", "save")
    /\ UNCHANGED <<codeRows, drawn, outbox, mine, bot, guesses>>

BotTellsFails ==
    /\ "send" \in CodeFaults /\ at["bot"] = "tell"
    /\ Raise("bot")
    /\ UNCHANGED <<codeRows, drawn, outbox, bot, guesses>>

BotSave ==
    /\ at["bot"] = "save"
    /\ offset' = offset + 1
    /\ Move("bot", "idle")
    /\ UNCHANGED <<codeRows, drawn, outbox, mine, inbox, guesses>>

BotCrash ==
    /\ "crash" \in CodeFaults /\ at["bot"] # "idle"
    /\ Raise("bot")
    /\ UNCHANGED <<codeRows, drawn, outbox, bot, guesses>>

-----------------------------------------------------------------------------
\* consume_challenge, under the write lock of its caller.

AcceptableUnlimited(c, purpose) ==         \* mutant: the attempts are not looked at
    /\ Usable(c) /\ challenge[c].purpose = purpose
    /\ challenge[c].delivered /\ challenge[c].code # 0
Acceptable(c, purpose) ==
    /\ Usable(c) /\ challenge[c].purpose = purpose
    /\ challenge[c].attempts < MaxAttempts
    /\ challenge[c].delivered /\ challenge[c].code # 0

\* A wrong code counts although the request fails.
WrongCodeRolledBack(c) ==                  \* mutant: not committed
    /\ Exists(c) /\ Acceptable(c, challenge[c].purpose)
    /\ wrong[c] <= MaxAttempts
    /\ wrong' = [wrong EXCEPT ![c] = @ + 1]
    /\ UNCHANGED <<codeRows, delivery, bot, spent>>
WrongCode(c) ==
    /\ Exists(c) /\ Acceptable(c, challenge[c].purpose)
    /\ Set(c, [challenge[c] EXCEPT !.attempts = @ + 1])
    /\ wrong' = [wrong EXCEPT ![c] = @ + 1]
    /\ UNCHANGED <<recent, identity, flow, delivery, bot, spent>>

SpendAgain(c, purpose) ==                  \* mutant: the code stays usable
    /\ Acceptable(c, purpose)
    /\ Set(c, [challenge[c] EXCEPT !.attempts = @ + 1])
    /\ spent' = [spent EXCEPT ![c] = @ + 1]
    /\ UNCHANGED <<recent, identity, flow, delivery, bot, wrong>>
Spend(c, purpose) ==
    /\ Acceptable(c, purpose)
    /\ Set(c, [challenge[c] EXCEPT !.attempts = @ + 1, !.used = TRUE])
    /\ spent' = [spent EXCEPT ![c] = @ + 1]
    /\ UNCHANGED <<recent, identity, flow, delivery, bot, wrong>>

CodesInit ==
    /\ challenge = [c \in Challenges |-> None]
    /\ recent = [p \in Phones |-> None]
    /\ identity \in {f \in [Phones -> Chats \cup {None}] :
                        /\ \A p \in Phones : f[p] = None \/ <<f[p], p>> \in Owns
                        /\ \A p, q \in Phones : f[p] = f[q] /\ f[p] # None => p = q}
    /\ flow = [chat \in Chats |-> None]
    /\ drawn = [c \in Challenges |-> 0]
    /\ outbox = {}
    /\ at = [d \in Deliverers |-> "idle"]
    /\ mine = [d \in Deliverers |-> [of |-> None, code |-> 0, chat |-> None]]
    /\ inbox = <<>>
    /\ offset = 0
    /\ wrong = [c \in Challenges |-> 0]
    /\ spent = [c \in Challenges |-> 0]

\* What goes on by itself: requests in the thread pool, and the bot.
DeliveryStep(d) == Prepare(d) \/ SendCode(d) \/ SendCodeFails(d) \/ Confirm(d)

BotStep == BotStart \/ BotContact \/ BotTells \/ BotTellsFails \/ BotSave \/ DeliveryStep("bot")
=============================================================================
