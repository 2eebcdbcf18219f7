---------------------------- MODULE AccountsProofs ----------------------------
(***************************************************************************)
(* What holds of one-time codes and logins for any number of challenges,   *)
(* phones, chats and messages, whatever the transport loses and however    *)
(* often the bot is killed.                                                *)
(***************************************************************************)
EXTENDS Accounts, SequenceTheorems, TLAPS

\* What a deliverer works for.
Work == [of : Challenges \cup {None}, code : 0 .. MaxCodes, chat : Chats \cup {None}]

\* The part of AccountsTypeOK that is about codes.
CodeTypes ==
    /\ challenge \in [Challenges -> Row \cup {None}]
    /\ recent \in [Phones -> Challenges \cup {None}]
    /\ identity \in [Phones -> Chats \cup {None}]
    /\ flow \in [Chats -> Challenges \cup {None}]
    /\ drawn \in [Challenges -> 0 .. MaxCodes]
    /\ outbox \subseteq Challenges \X (1 .. MaxCodes) \X Chats
    /\ at \in [Deliverers -> {"idle", "prepare", "send", "confirm", "tell", "save"}]
    /\ mine \in [Deliverers -> Work]
    /\ inbox \in Seq(Updates) /\ offset \in 0 .. Len(inbox)
    /\ wrong \in [Challenges -> Nat] /\ spent \in [Challenges -> Nat]

\* Whoever is in deliver_code works for a challenge and a chat, and has drawn a
\* code unless it is about to; the bot has a message while it works.
Working(d) ==
    /\ at[d] \in {"prepare", "send", "confirm"} =>
          /\ mine[d].of \in Challenges /\ Exists(mine[d].of)
          /\ mine[d].chat \in Chats
    /\ at[d] \in {"send", "confirm"} => mine[d].code \in 1 .. MaxCodes

Delivering ==
    /\ \A d \in Deliverers : Working(d)
    /\ at["bot"] # "idle" => offset < Len(inbox)

CodeInv == CodeTypes /\ Delivering

\* The steps that touch a code, an identity or the bot, without what else the
\* request does.
CodeStep ==
    \/ \E c \in Challenges, p \in Phones, u \in Purposes : CreateChallenge(c, p, u)
    \/ \E p \in Phones : CoolDown(p)
    \/ \E c \in Challenges : Expire(c) \/ WrongCode(c)
    \/ \E c \in Challenges, u \in Purposes : Exists(c) /\ Spend(c, u)
    \/ \E u \in Updates : Message(u)
    \/ \E d \in Deliverers : DeliveryStep(d)
    \/ BotStart \/ BotContact \/ BotTells \/ BotTellsFails \/ BotSave \/ BotCrash
    \/ UNCHANGED codeVars

\* Every step of the system is one of them.
LEMMA CodeSteps == [AccountsNext]_allVars => CodeStep
<1> SUFFICES ASSUME [AccountsNext]_allVars PROVE CodeStep
  OBVIOUS
<1> USE DEF CodeStep
<1>1. CASE CodesNext
  BY <1>1 DEF CodesNext, BotStep, Deliverers
<1>2. ASSUME NEW c \in Challenges, Signup(c) \/ BaleLogin(c) \/ ResetPassword(c)
      PROVE  CodeStep
  BY <1>2 DEF Signup, BaleLogin, ResetPassword, Purposes
<1>3. ASSUME NEW p \in Phones, PasswordLogin(p) \/ ChangePassword(p) \/ Logout(p)
      PROVE  CodeStep
  BY <1>3 DEF PasswordLogin, ChangePassword, Logout
<1>4. ASSUME NEW p \in Phones, NEW st \in {"pending", "approved", "suspended"},
             SetStatus(p, st)
      PROVE  CodeStep
  BY <1>4 DEF SetStatus
<1>5. CASE UNCHANGED allVars
  BY <1>5 DEF allVars
<1> QED BY <1>1, <1>2, <1>3, <1>4, <1>5 DEF AccountsNext

-----------------------------------------------------------------------------

\* A row stays a row when one of its columns changes.
LEMMA RowColumns ==
    ASSUME NEW r \in Row
    PROVE  /\ [r EXCEPT !.used = TRUE] \in Row /\ [r EXCEPT !.expired = TRUE] \in Row
           /\ \A n \in 0 .. MaxCodes : [r EXCEPT !.code = n] \in Row
           /\ \A b \in BOOLEAN : [r EXCEPT !.delivered = b] \in Row
  BY DEF Row

\* So it does when an attempt is counted, as long as there was one left.
LEMMA RowAttempt ==
    ASSUME NEW r \in Row, r.attempts < MaxAttempts
    PROVE  /\ [r EXCEPT !.attempts = @ + 1] \in Row
           /\ [r EXCEPT !.attempts = @ + 1, !.used = TRUE] \in Row
<1>1. r.attempts + 1 \in 0 .. MaxAttempts
  BY CodesAssumption DEF Row
<1>2. [r EXCEPT !.attempts = @ + 1] \in Row
  BY <1>1 DEF Row
<1>3. [r EXCEPT !.attempts = @ + 1, !.used = TRUE] \in Row
  BY <1>1 DEF Row
<1> QED BY <1>2, <1>3

\* Nothing is there before the first request but the identities.
LEMMA CodeInit == CodesInit => CodeInv
  BY CodesAssumption, EmptySeq
  DEF CodesInit, CodeInv, CodeTypes, Work, Delivering, Working, Deliverers, Updates

\* A row that is written is there, and no other goes away.
LEMMA SetRows ==
    ASSUME CodeTypes, NEW c \in Challenges, NEW r \in Row, Set(c, r)
    PROVE  /\ challenge' \in [Challenges -> Row \cup {None}]
           /\ \A d \in Challenges : Exists(d) => Exists(d)'
  BY CodesAssumption DEF CodeTypes, Set, Exists

\* A deliverer takes on a challenge and a chat, or draws a code.
TakesOn(d, o, h) == mine' = [mine EXCEPT ![d].of = o, ![d].chat = h]
Draws(d, n)      == mine' = [mine EXCEPT ![d].code = n]

\* What a deliverer works for keeps its type then, and the others keep theirs.
LEMMA NewJob ==
    ASSUME CodeTypes, NEW d \in Deliverers, NEW o \in Challenges, NEW h \in Chats,
           TakesOn(d, o, h)
    PROVE  /\ mine' \in [Deliverers -> Work]
           /\ mine'[d].of = o /\ mine'[d].chat = h
           /\ \A x \in Deliverers : x # d => mine'[x] = mine[x]
<1> DEFINE new == [mine[d] EXCEPT !.of = o, !.chat = h]
<1>1. mine \in [Deliverers -> Work] /\ mine[d] \in Work
  BY DEF CodeTypes
<1>2. mine' = [mine EXCEPT ![d] = new]
  BY <1>1 DEF TakesOn
<1>3. new \in Work /\ new.of = o /\ new.chat = h
  BY <1>1 DEF Work
<1> HIDE DEF new
<1> QED BY <1>1, <1>2, <1>3

\* Likewise when it draws a code.
LEMMA NewCode ==
    ASSUME CodeTypes, NEW d \in Deliverers, NEW n \in 0 .. MaxCodes, Draws(d, n)
    PROVE  /\ mine' \in [Deliverers -> Work]
           /\ mine'[d] = [mine[d] EXCEPT !.code = n]
           /\ mine'[d].of = mine[d].of /\ mine'[d].chat = mine[d].chat
           /\ mine'[d].code = n
           /\ \A x \in Deliverers : x # d => mine'[x] = mine[x]
<1> DEFINE new == [mine[d] EXCEPT !.code = n]
<1>1. mine \in [Deliverers -> Work] /\ mine[d] \in Work
  BY DEF CodeTypes
<1>2. mine' = [mine EXCEPT ![d] = new]
  BY <1>1 DEF Draws
<1>3. new \in Work /\ new.of = mine[d].of /\ new.chat = mine[d].chat /\ new.code = n
  BY <1>1 DEF Work
<1> HIDE DEF new
<1>4. mine' \in [Deliverers -> Work] /\ mine'[d] = new
      /\ \A x \in Deliverers : x # d => mine'[x] = mine[x]
  BY <1>1, <1>2, <1>3
<1> QED BY <1>3, <1>4 DEF new

\* A step of one deliverer leaves the others at work.
LEMMA OthersWork ==
    ASSUME CodeInv, NEW d \in Deliverers, Working(d)',
           \A e \in Challenges : Exists(e) => Exists(e)',
           \A x \in Deliverers : x # d => at'[x] = at[x] /\ mine'[x] = mine[x]
    PROVE  \A x \in Deliverers : Working(x)'
  BY DEF CodeInv, Delivering, Working

\* Every step keeps the types.
LEMMA CodeInvStep == CodeInv /\ CodeStep => CodeInv'
<1> SUFFICES ASSUME CodeInv, CodeStep PROVE CodeInv'
  OBVIOUS
<1> USE CodesAssumption
        DEF CodeInv, CodeTypes, Work, Delivering, Working, Deliverers, Exists, Move,
            codeRows, delivery, bot, guesses
<1>1. ASSUME NEW c \in Challenges, NEW p \in Phones, NEW u \in Purposes,
             CreateChallenge(c, p, u)
      PROVE  CodeInv'
  <2>1. NewRow(p, u) \in Row
    BY DEF NewRow, Row
  <2>2. \A d \in Challenges : /\ Superseded(p)[d] \in Row \cup {None}
                              /\ Exists(d) => Superseded(p)[d] \in Row
    <3> SUFFICES ASSUME NEW d \in Challenges
                 PROVE  /\ Superseded(p)[d] \in Row \cup {None}
                        /\ Exists(d) => Superseded(p)[d] \in Row
      OBVIOUS
    <3>1. CASE Exists(d)
      <4>1. challenge[d] \in Row
        BY <3>1
      <4> QED BY <3>1, <4>1, RowColumns DEF Superseded
    <3>2. CASE ~Exists(d)
      BY <3>2 DEF Superseded
    <3> QED BY <3>1, <3>2
  <2>3. challenge' = [Superseded(p) EXCEPT ![c] = NewRow(p, u)]
    BY <1>1 DEF CreateChallenge
  <2>4. /\ challenge' \in [Challenges -> Row \cup {None}]
        /\ challenge'[c] \in Row
        /\ \A d \in Challenges : Exists(d) => challenge'[d] \in Row
    <3>1. Superseded(p) \in [Challenges -> Row \cup {None}]
      BY <2>2 DEF Superseded
    <3> QED BY <2>1, <2>2, <2>3, <3>1
  <2>5. \A d \in Challenges : Exists(d) => Exists(d)'
    BY <2>4
  <2>6. /\ recent' \in [Phones -> Challenges \cup {None}]
        /\ UNCHANGED <<identity, flow, drawn, outbox, inbox, offset, wrong, spent>>
    BY <1>1 DEF CreateChallenge
  <2>7. CASE identity[p] # None
    <3>1. /\ at' = [at EXCEPT ![c] = "prepare"]
          /\ mine' = [mine EXCEPT ![c].of = c, ![c].chat = identity[p]]
          /\ identity[p] \in Chats
      BY <1>1, <2>7 DEF CreateChallenge
    <3>2. /\ mine' \in [Deliverers -> Work]
          /\ mine'[c].of = c /\ mine'[c].chat \in Chats
          /\ \A d \in Deliverers : d # c => mine'[d] = mine[d]
      <4>1. c \in Deliverers /\ CodeTypes /\ TakesOn(c, c, identity[p])
        BY <3>1 DEF TakesOn
      <4> HIDE DEF CodeTypes, Work, Deliverers
      <4> QED BY <3>1, <4>1, NewJob
    <3>3. /\ at' \in [Deliverers -> {"idle", "prepare", "send", "confirm", "tell", "save"}]
          /\ at'[c] = "prepare" /\ at'["bot"] = at["bot"]
          /\ \A d \in Deliverers : d # c => at'[d] = at[d]
      BY <3>1
    <3>4. Working(c)'
      BY <2>4, <3>2, <3>3
    <3>5. \A d \in Deliverers : Working(d)'
      <4>1. CodeInv /\ c \in Deliverers
        OBVIOUS
      <4> HIDE DEF CodeInv, CodeTypes, Delivering, Work, Working, Exists, Deliverers
      <4> QED BY <2>5, <3>2, <3>3, <3>4, <4>1, OthersWork
    <3> HIDE DEF Work, Working
    <3> QED BY <2>4, <2>6, <3>2, <3>3, <3>5
  <2>8. CASE identity[p] = None
    <3>1. UNCHANGED <<at, mine>>
      BY <1>1, <2>8 DEF CreateChallenge
    <3> QED BY <2>4, <2>5, <2>6, <3>1
  <2> QED BY <2>7, <2>8
<1>2. ASSUME NEW p \in Phones, CoolDown(p) PROVE CodeInv'
  BY <1>2 DEF CoolDown
<1>3. ASSUME NEW c \in Challenges, Expire(c) PROVE CodeInv'
  <2>1. challenge[c] \in Row
    BY <1>3 DEF Expire
  <2>2. [challenge[c] EXCEPT !.expired = TRUE] \in Row
    BY <2>1, RowColumns
  <2>3. /\ challenge' \in [Challenges -> Row \cup {None}]
        /\ \A e \in Challenges : Exists(e) => Exists(e)'
    BY <1>3, <2>2, SetRows DEF Expire
  <2> QED BY <1>3, <2>3 DEF Expire
<1>4. ASSUME NEW c \in Challenges, WrongCode(c) PROVE CodeInv'
  <2>1. challenge[c] \in Row /\ challenge[c].attempts < MaxAttempts
    BY <1>4 DEF WrongCode, Acceptable
  <2>2. [challenge[c] EXCEPT !.attempts = @ + 1] \in Row
    BY <2>1, RowAttempt
  <2>3. /\ challenge' \in [Challenges -> Row \cup {None}]
        /\ \A e \in Challenges : Exists(e) => Exists(e)'
    BY <1>4, <2>2, SetRows DEF WrongCode
  <2>4. /\ wrong' \in [Challenges -> Nat]
        /\ UNCHANGED <<recent, identity, flow, drawn, outbox, at, mine, inbox, offset, spent>>
    BY <1>4 DEF WrongCode
  <2> QED BY <2>3, <2>4
<1>5. ASSUME NEW c \in Challenges, NEW u \in Purposes, Spend(c, u) PROVE CodeInv'
  <2>1. challenge[c] \in Row /\ challenge[c].attempts < MaxAttempts
    BY <1>5 DEF Spend, Acceptable, Usable
  <2>2. [challenge[c] EXCEPT !.attempts = @ + 1, !.used = TRUE] \in Row
    BY <2>1, RowAttempt
  <2>3. /\ challenge' \in [Challenges -> Row \cup {None}]
        /\ \A e \in Challenges : Exists(e) => Exists(e)'
    BY <1>5, <2>2, SetRows DEF Spend
  <2>4. /\ spent' \in [Challenges -> Nat]
        /\ UNCHANGED <<recent, identity, flow, drawn, outbox, at, mine, inbox, offset, wrong>>
    BY <1>5 DEF Spend
  <2> QED BY <2>3, <2>4
<1>6. ASSUME NEW u \in Updates, Message(u) PROVE CodeInv'
  <2>1. /\ inbox' \in Seq(Updates) /\ Len(inbox') = Len(inbox) + 1
        /\ UNCHANGED <<codeRows, delivery, offset, guesses>>
    BY <1>6 DEF Message
  <2>2. Len(inbox) \in Nat /\ offset \in 0 .. Len(inbox)
    OBVIOUS
  <2> HIDE DEF Work
  <2> QED BY <2>1, <2>2
<1>7. ASSUME NEW d \in Deliverers, Prepare(d) PROVE CodeInv'
  <2> DEFINE c == mine[d].of
  <2>1. CASE MayDeliver(c, mine[d].chat)
    <3>1. c \in Challenges /\ challenge[c] \in Row /\ drawn[c] + 1 \in 1 .. MaxCodes
      BY <1>7, <2>1 DEF Prepare, MayDeliver, Usable
    <3>2. [challenge[c] EXCEPT !.code = drawn[c] + 1] \in Row
      <4>1. drawn[c] + 1 \in 0 .. MaxCodes
        BY <3>1
      <4> HIDE DEF c
      <4> QED BY <3>1, <4>1, RowColumns
    <3>3. Set(c, [challenge[c] EXCEPT !.code = drawn[c] + 1])
      BY <1>7, <2>1 DEF Prepare
    <3>4. /\ challenge' \in [Challenges -> Row \cup {None}]
          /\ \A e \in Challenges : Exists(e) => Exists(e)'
      BY <3>1, <3>2, <3>3, SetRows
    <3>5. /\ mine' = [mine EXCEPT ![d].code = drawn[c] + 1] /\ at' = [at EXCEPT ![d] = "send"]
          /\ drawn' = [drawn EXCEPT ![c] = @ + 1] /\ at[d] = "prepare"
          /\ UNCHANGED <<recent, identity, flow, outbox, bot, guesses>>
      BY <1>7, <2>1 DEF Prepare
    <3>6. /\ mine' \in [Deliverers -> Work]
          /\ mine'[d].of = c /\ mine'[d].chat = mine[d].chat
          /\ mine'[d].code = drawn[c] + 1
          /\ \A x \in Deliverers : x # d => mine'[x] = mine[x]
      <4>1. drawn[c] + 1 \in 0 .. MaxCodes
        BY <3>1
      <4>2. CodeTypes /\ Draws(d, drawn[c] + 1) /\ c = mine[d].of
        BY <3>5 DEF Draws
      <4> HIDE DEF c, CodeTypes, Work
      <4> QED BY <4>1, <4>2, NewCode
    <3>7. /\ at' \in [Deliverers -> {"idle", "prepare", "send", "confirm", "tell", "save"}]
          /\ at'[d] = "send"
          /\ \A x \in Deliverers : x # d => at'[x] = at[x]
          /\ at'["bot"] # "idle" => at["bot"] # "idle"
      BY <3>5
    <3>8. Working(d)'
      BY <3>1, <3>4, <3>5, <3>6, <3>7
    <3>9. \A x \in Deliverers : Working(x)'
      <4>1. CodeInv
        OBVIOUS
      <4> HIDE DEF c, CodeInv, CodeTypes, Delivering, Work, Working, Exists, Deliverers
      <4> QED BY <3>4, <3>6, <3>7, <3>8, <4>1, OthersWork
    <3>10. drawn' \in [Challenges -> 0 .. MaxCodes]
      BY <3>1, <3>5
    <3> HIDE DEF c, Work, Working
    <3> QED BY <3>4, <3>5, <3>6, <3>7, <3>9, <3>10
  <2>2. CASE ~MayDeliver(c, mine[d].chat)
    <3>1. Return(d) /\ UNCHANGED <<challenge, drawn>> /\ at[d] = "prepare"
          /\ UNCHANGED <<recent, identity, flow, outbox, bot, guesses>>
      BY <1>7, <2>2 DEF Prepare
    <3> QED BY <3>1 DEF Return
  <2> QED BY <2>1, <2>2
<1>8. ASSUME NEW d \in Deliverers, SendCode(d) PROVE CodeInv'
  <2>1. /\ at[d] = "send" /\ at' = [at EXCEPT ![d] = "confirm"]
        /\ UNCHANGED <<challenge, recent, identity, flow, drawn, mine, inbox, offset, wrong, spent>>
    BY <1>8 DEF SendCode
  <2>2. outbox' \subseteq Challenges \X (1 .. MaxCodes) \X Chats
    <3>1. /\ mine[d].of \in Challenges /\ mine[d].chat \in Chats
          /\ mine[d].code \in 1 .. MaxCodes
      BY <2>1
    <3> HIDE DEF Work, Working
    <3> QED BY <1>8, <3>1 DEF SendCode, Posted
  <2>3. \A x \in Deliverers : Working(x)'
    BY <2>1
  <2> HIDE DEF Work, Working
  <2> QED BY <2>1, <2>2, <2>3
<1>9. ASSUME NEW d \in Deliverers, SendCodeFails(d) PROVE CodeInv'
  <2>1. /\ at[d] = "send" /\ at' = [at EXCEPT ![d] = "idle"]
        /\ mine' = [mine EXCEPT ![d] = [of |-> None, code |-> 0, chat |-> None]]
        /\ UNCHANGED <<challenge, recent, identity, flow, drawn, inbox, offset, wrong, spent>>
    BY <1>9 DEF SendCodeFails, Raise
  <2>2. outbox' \subseteq Challenges \X (1 .. MaxCodes) \X Chats
    <3>1. /\ mine[d].of \in Challenges /\ mine[d].chat \in Chats
          /\ mine[d].code \in 1 .. MaxCodes
      BY <2>1
    <3> HIDE DEF Work, Working
    <3> QED BY <1>9, <3>1 DEF SendCodeFails, Posted
  <2>3. (\A x \in Deliverers : Working(x)') /\ mine' \in [Deliverers -> Work]
    BY <2>1
  <2> HIDE DEF Work, Working
  <2> QED BY <2>1, <2>2, <2>3
<1>10. ASSUME NEW d \in Deliverers, Confirm(d) PROVE CodeInv'
  <2> DEFINE c == mine[d].of
             now == challenge[c].delivered \/ challenge[c].code = mine[d].code
  <2>1. c \in Challenges /\ challenge[c] \in Row /\ now \in BOOLEAN
    BY <1>10 DEF Confirm, Row
  <2>2. Set(c, [challenge[c] EXCEPT !.delivered = now])
    BY <1>10 DEF Confirm
  <2>3. [challenge[c] EXCEPT !.delivered = now] \in Row
    BY <2>1, RowColumns
  <2>4. /\ challenge' \in [Challenges -> Row \cup {None}]
        /\ \A e \in Challenges : Exists(e) => Exists(e)'
    BY <2>1, <2>2, <2>3, SetRows
  <2>5. /\ at' = [at EXCEPT ![d] = IF d = "bot" THEN "save" ELSE "idle"]
        /\ mine' = [mine EXCEPT ![d] = [of |-> None, code |-> 0, chat |-> None]]
        /\ at[d] = "confirm"
        /\ UNCHANGED <<recent, identity, flow, drawn, outbox, inbox, offset, wrong, spent>>
    BY <1>10 DEF Confirm, Return
  <2>6. (\A x \in Deliverers : Working(x)') /\ mine' \in [Deliverers -> Work]
    BY <2>4, <2>5
  <2> HIDE DEF c, now, Work, Working
  <2> QED BY <2>4, <2>5, <2>6
<1>11. CASE BotStart
  <2>1. /\ at' = [at EXCEPT !["bot"] = "tell"] /\ offset < Len(inbox)
        /\ UNCHANGED <<challenge, recent, identity, drawn, outbox, mine, inbox, offset,
                      wrong, spent>>
    BY <1>11 DEF BotStart, Waiting
  <2>2. Next1 \in Updates /\ Next1.kind = "start"
    <3>1. inbox \in Seq(Updates) /\ offset \in 0 .. Len(inbox) /\ offset < Len(inbox)
      BY <2>1
    <3> QED BY <1>11, <3>1 DEF BotStart, Waiting, Next1
  <2>3. Next1.chat \in Chats /\ Next1.of \in Challenges
    BY <2>2 DEF Updates
  <2>4. flow' \in [Chats -> Challenges \cup {None}]
    <3>1. flow \in [Chats -> Challenges \cup {None}]
      OBVIOUS
    <3> QED BY <1>11, <2>3, <3>1 DEF BotStart
  <2>5. \A x \in Deliverers : Working(x)'
    BY <2>1
  <2> HIDE DEF Work, Working
  <2> QED BY <2>1, <2>4, <2>5
<1>12. CASE BotContact
  <2>1. Next1 \in Updates /\ Next1.kind = "contact" /\ offset < Len(inbox)
    <3>1. inbox \in Seq(Updates) /\ offset \in 0 .. Len(inbox)
      OBVIOUS
    <3> HIDE DEF CodeInv, CodeTypes, Delivering
    <3> QED BY <1>12, <3>1 DEF BotContact, Waiting, Next1
  <2>2. Next1.chat \in Chats /\ Next1.of \in Phones
    BY <2>1 DEF Updates
  <2>3. CASE Next1.own /\ Matches(Next1.chat, Next1.of) /\ Unclaimed(Next1.chat, Next1.of)
    <3>1. flow[Next1.chat] \in Challenges /\ Exists(flow[Next1.chat])
      BY <2>2, <2>3 DEF Matches, Usable
    <3> DEFINE chat == Next1.chat
    <3>2. /\ mine' = [mine EXCEPT !["bot"].of = flow[chat], !["bot"].chat = chat]
          /\ identity' = [identity EXCEPT ![Next1.of] = chat]
          /\ at' = [at EXCEPT !["bot"] = "prepare"]
          /\ UNCHANGED <<challenge, recent, flow, drawn, outbox, bot, guesses>>
      BY <1>12, <2>3 DEF BotContact
    <3>3. /\ mine' \in [Deliverers -> Work]
          /\ mine'["bot"].of = flow[chat] /\ mine'["bot"].chat = chat
          /\ \A x \in Deliverers : x # "bot" => mine'[x] = mine[x]
      <4>1. "bot" \in Deliverers /\ CodeTypes /\ TakesOn("bot", flow[chat], chat)
        BY <3>2 DEF TakesOn
      <4> HIDE DEF CodeTypes, Work, Deliverers
      <4> QED BY <2>2, <3>1, <4>1, NewJob
    <3>4. /\ at' \in [Deliverers -> {"idle", "prepare", "send", "confirm", "tell", "save"}]
          /\ at'["bot"] = "prepare"
          /\ \A x \in Deliverers : x # "bot" => at'[x] = at[x]
      BY <3>2
    <3>5. Working("bot")'
      BY <2>2, <3>1, <3>2, <3>3, <3>4
    <3>6. \A x \in Deliverers : Working(x)'
      <4>1. CodeInv /\ "bot" \in Deliverers
            /\ \A e \in Challenges : Exists(e) => Exists(e)'
        BY <3>2
      <4> HIDE DEF CodeInv, CodeTypes, Delivering, Work, Working, Exists, Deliverers
      <4> QED BY <3>3, <3>4, <3>5, <4>1, OthersWork
    <3>7. identity' \in [Phones -> Chats \cup {None}]
      BY <2>2, <3>2
    <3> HIDE DEF chat, Work, Working
    <3> QED BY <2>1, <3>2, <3>3, <3>4, <3>6, <3>7
  <2>4. CASE ~(Next1.own /\ Matches(Next1.chat, Next1.of) /\ Unclaimed(Next1.chat, Next1.of))
    BY <1>12, <2>1, <2>4 DEF BotContact
  <2> QED BY <2>3, <2>4
<1>13. CASE BotTells \/ BotTellsFails
  BY <1>13 DEF BotTells, BotTellsFails, Raise
<1>14. CASE BotSave
  BY <1>14 DEF BotSave
<1>15. CASE BotCrash
  BY <1>15 DEF BotCrash, Raise
<1>16. CASE UNCHANGED codeVars
  BY <1>16 DEF codeVars
<1> QED
  BY <1>1, <1>2, <1>3, <1>4, <1>5, <1>6, <1>7, <1>8, <1>9, <1>10, <1>11, <1>12,
     <1>13, <1>14, <1>15, <1>16
  DEF CodeStep, DeliveryStep

-----------------------------------------------------------------------------

\* What a step other than the creation of a challenge can do to a row: it stays
\* where it is, a wrong code is counted in it, or it is spent, which ends it; and
\* it is only called delivered by a deliverer that holds its very code.
Lifecycle(c) ==
    IF Exists(c)
    THEN /\ Exists(c)' /\ challenge'[c].phone = challenge[c].phone
         /\ challenge[c].used => challenge'[c].used
         /\ challenge'[c].delivered =>
               /\ challenge'[c].code = challenge[c].code
               /\ \/ challenge[c].delivered
                  \/ \E d \in Deliverers : /\ at[d] = "confirm" /\ mine[d].of = c
                                           /\ mine[d].code = challenge[c].code
         /\ \/ /\ challenge'[c].attempts = challenge[c].attempts
               /\ wrong'[c] = wrong[c] /\ spent'[c] = spent[c]
            \/ /\ challenge'[c].attempts = challenge[c].attempts + 1
               /\ wrong'[c] = wrong[c] + 1 /\ spent'[c] = spent[c]
            \/ /\ challenge'[c].attempts = challenge[c].attempts + 1
               /\ ~challenge[c].used /\ challenge'[c].used
               /\ wrong'[c] = wrong[c] /\ spent'[c] = spent[c] + 1
    ELSE ~Exists(c)' /\ wrong'[c] = wrong[c] /\ spent'[c] = spent[c]

\* A write of one row leaves the others.
LEMMA OtherRows ==
    ASSUME CodeTypes, NEW c \in Challenges, NEW r \in Row, Set(c, r)
    PROVE  /\ challenge'[c] = r /\ Exists(c)'
           /\ \A d \in Challenges : d # c => challenge'[d] = challenge[d]
  BY CodesAssumption DEF CodeTypes, Set, Exists

\* A row and its two counters that nobody touches only go on.
LEMMA SameRow ==
    ASSUME NEW x \in Challenges,
           challenge'[x] = challenge[x], wrong'[x] = wrong[x], spent'[x] = spent[x]
    PROVE  Lifecycle(x)
  BY DEF Lifecycle, Exists

\* A row goes through its life in this way whatever happens.
LEMMA RowMoves ==
    ASSUME CodeInv, CodeStep
    PROVE  \/ \E c \in Challenges, p \in Phones, u \in Purposes : CreateChallenge(c, p, u)
           \/ \A c \in Challenges : Lifecycle(c)
<1> DEFINE Goal == \A c \in Challenges : Lifecycle(c)
<1> CodeTypes /\ Delivering
  BY DEF CodeInv
<1> USE DEF codeRows, delivery, bot, guesses
<1>1. ASSUME UNCHANGED <<challenge, wrong, spent>> PROVE Goal
  BY <1>1 DEF Lifecycle, Exists
<1>2. ASSUME NEW p \in Phones, CoolDown(p) PROVE Goal
  BY <1>1, <1>2 DEF CoolDown
<1>3. ASSUME NEW c \in Challenges, Expire(c) PROVE Goal
  <2>1. challenge[c] \in Row /\ [challenge[c] EXCEPT !.expired = TRUE] \in Row
    <3>1. challenge[c] \in Row
      BY <1>3 DEF Expire, Exists, CodeTypes
    <3> QED BY <3>1, RowColumns
  <2>2. Set(c, [challenge[c] EXCEPT !.expired = TRUE]) /\ UNCHANGED <<wrong, spent>>
    BY <1>3 DEF Expire
  <2>3. /\ challenge'[c] = [challenge[c] EXCEPT !.expired = TRUE] /\ Exists(c)'
        /\ \A x \in Challenges : x # c => challenge'[x] = challenge[x]
    BY <2>1, <2>2, OtherRows
  <2>4. /\ challenge'[c].phone = challenge[c].phone /\ challenge'[c].used = challenge[c].used
        /\ challenge'[c].attempts = challenge[c].attempts
        /\ challenge'[c].code = challenge[c].code
        /\ challenge'[c].delivered = challenge[c].delivered
    BY <2>1, <2>3 DEF Row
  <2> QED BY <2>1, <2>2, <2>3, <2>4, CodesAssumption DEF Lifecycle, Exists
<1>4. ASSUME NEW c \in Challenges, WrongCode(c) PROVE Goal
  <2>1. challenge[c] \in Row /\ [challenge[c] EXCEPT !.attempts = @ + 1] \in Row
    <3>1. challenge[c] \in Row /\ challenge[c].attempts < MaxAttempts
      BY <1>4 DEF WrongCode, Acceptable, Exists, CodeTypes
    <3> QED BY <3>1, RowAttempt
  <2>2. /\ Set(c, [challenge[c] EXCEPT !.attempts = @ + 1])
        /\ wrong' = [wrong EXCEPT ![c] = @ + 1] /\ spent' = spent
    BY <1>4 DEF WrongCode
  <2>3. /\ challenge'[c] = [challenge[c] EXCEPT !.attempts = @ + 1] /\ Exists(c)'
        /\ \A x \in Challenges : x # c => challenge'[x] = challenge[x]
    BY <2>1, <2>2, OtherRows
  <2>4. /\ challenge'[c].phone = challenge[c].phone /\ challenge'[c].used = challenge[c].used
        /\ challenge'[c].attempts = challenge[c].attempts + 1
        /\ challenge'[c].code = challenge[c].code
        /\ challenge'[c].delivered = challenge[c].delivered
    BY <2>1, <2>3 DEF Row
  <2>5. wrong'[c] = wrong[c] + 1 /\ spent'[c] = spent[c] /\ Exists(c)
        /\ \A x \in Challenges : x # c => wrong'[x] = wrong[x] /\ spent'[x] = spent[x]
    BY <2>1, <2>2, CodesAssumption DEF CodeTypes, Exists
  <2>6. Lifecycle(c)
    BY <2>3, <2>4, <2>5 DEF Lifecycle
  <2>7. \A x \in Challenges : x # c => Lifecycle(x)
    BY <2>3, <2>5, SameRow
  <2> QED BY <2>6, <2>7
<1>5. ASSUME NEW c \in Challenges, NEW u \in Purposes, Exists(c) /\ Spend(c, u) PROVE Goal
  <2>1. /\ challenge[c] \in Row /\ ~challenge[c].used
        /\ [challenge[c] EXCEPT !.attempts = @ + 1, !.used = TRUE] \in Row
    <3>1. challenge[c] \in Row /\ challenge[c].attempts < MaxAttempts /\ ~challenge[c].used
      BY <1>5 DEF Spend, Acceptable, Usable, Exists, CodeTypes
    <3> QED BY <3>1, RowAttempt
  <2>2. /\ Set(c, [challenge[c] EXCEPT !.attempts = @ + 1, !.used = TRUE])
        /\ spent' = [spent EXCEPT ![c] = @ + 1] /\ wrong' = wrong
    BY <1>5 DEF Spend
  <2>3. /\ challenge'[c] = [challenge[c] EXCEPT !.attempts = @ + 1, !.used = TRUE] /\ Exists(c)'
        /\ \A x \in Challenges : x # c => challenge'[x] = challenge[x]
    BY <2>1, <2>2, OtherRows
  <2>4. /\ challenge'[c].phone = challenge[c].phone /\ challenge'[c].used
        /\ challenge'[c].attempts = challenge[c].attempts + 1
        /\ challenge'[c].code = challenge[c].code
        /\ challenge'[c].delivered = challenge[c].delivered
    BY <2>1, <2>3 DEF Row
  <2>5. wrong'[c] = wrong[c] /\ spent'[c] = spent[c] + 1 /\ Exists(c)
        /\ \A x \in Challenges : x # c => wrong'[x] = wrong[x] /\ spent'[x] = spent[x]
    BY <2>1, <2>2, CodesAssumption DEF CodeTypes, Exists
  <2>6. Lifecycle(c)
    BY <2>1, <2>3, <2>4, <2>5 DEF Lifecycle
  <2>7. \A x \in Challenges : x # c => Lifecycle(x)
    BY <2>3, <2>5, SameRow
  <2> QED BY <2>6, <2>7
<1>6. ASSUME NEW u \in Updates, Message(u) PROVE Goal
  BY <1>1, <1>6 DEF Message
<1>7. ASSUME NEW d \in Deliverers, Prepare(d) PROVE Goal
  <2>1. CASE MayDeliver(mine[d].of, mine[d].chat)
    <3>1. PICK c \in Challenges : c = mine[d].of
      BY <1>7 DEF Prepare, Delivering, Working
    <3> DEFINE r == [challenge[c] EXCEPT !.code = drawn[c] + 1]
    <3>2. Set(c, r) /\ UNCHANGED <<wrong, spent>>
      BY <1>7, <2>1, <3>1 DEF Prepare
    <3>3. challenge[c] \in Row /\ drawn[c] + 1 \in 0 .. MaxCodes
      BY <1>7, <2>1, <3>1, CodesAssumption
      DEF Prepare, MayDeliver, Usable, Exists, CodeTypes
    <3>4. /\ r \in Row /\ r.phone = challenge[c].phone /\ r.used = challenge[c].used
          /\ r.attempts = challenge[c].attempts /\ r.delivered = challenge[c].delivered
          /\ ~challenge[c].delivered
      BY <2>1, <3>1, <3>3 DEF Row, MayDeliver
    <3> HIDE DEF r
    <3>5. /\ challenge'[c] = r /\ Exists(c)'
          /\ \A x \in Challenges : x # c => challenge'[x] = challenge[x]
      BY <3>2, <3>4, OtherRows
    <3> QED BY <3>2, <3>3, <3>4, <3>5, CodesAssumption DEF Lifecycle, Exists
  <2>2. CASE ~MayDeliver(mine[d].of, mine[d].chat)
    BY <1>1, <1>7, <2>2 DEF Prepare
  <2> QED BY <2>1, <2>2
<1>8. ASSUME NEW d \in Deliverers, SendCode(d) \/ SendCodeFails(d) PROVE Goal
  BY <1>1, <1>8 DEF SendCode, SendCodeFails
<1>9. ASSUME NEW d \in Deliverers, Confirm(d) PROVE Goal
  <2>1. PICK c \in Challenges : c = mine[d].of
    BY <1>9 DEF Confirm, Delivering, Working
  <2> DEFINE now == challenge[c].delivered \/ challenge[c].code = mine[d].code
             r == [challenge[c] EXCEPT !.delivered = now]
  <2>2. Set(c, r) /\ UNCHANGED <<wrong, spent>>
    BY <1>9, <2>1 DEF Confirm
  <2>3. challenge[c] \in Row /\ now \in BOOLEAN
    BY <1>9, <2>1 DEF Confirm, Row, Delivering, Working, Exists, CodeTypes
  <2> HIDE DEF now
  <2>4. /\ r \in Row /\ r.phone = challenge[c].phone /\ r.used = challenge[c].used
        /\ r.attempts = challenge[c].attempts /\ r.code = challenge[c].code
        /\ r.delivered = now
    BY <2>3 DEF Row
  <2> HIDE DEF r
  <2>5. /\ challenge'[c] = r /\ Exists(c)'
        /\ \A x \in Challenges : x # c => challenge'[x] = challenge[x]
    BY <2>2, <2>4, OtherRows
  <2>6. now => \/ challenge[c].delivered
               \/ \E x \in Deliverers : /\ at[x] = "confirm" /\ mine[x].of = c
                                        /\ mine[x].code = challenge[c].code
    BY <1>9, <2>1 DEF Confirm, now
  <2> QED BY <2>2, <2>3, <2>4, <2>5, <2>6, CodesAssumption DEF Lifecycle, Exists
<1>10. CASE BotStart \/ BotContact \/ BotTells \/ BotTellsFails \/ BotSave \/ BotCrash
  BY <1>1, <1>10 DEF BotStart, BotContact, BotTells, BotTellsFails, BotSave, BotCrash
<1>11. CASE UNCHANGED codeVars
  BY <1>1, <1>11 DEF codeVars
<1> QED
  BY <1>2, <1>3, <1>4, <1>5, <1>6, <1>7, <1>8, <1>9, <1>10, <1>11 DEF CodeStep, DeliveryStep

-----------------------------------------------------------------------------

\* What a challenge created for phone p does to another row.
Aside(d, p) ==
    /\ Exists(d)' <=> Exists(d)
    /\ Exists(d) => /\ challenge'[d].phone = challenge[d].phone
                    /\ challenge'[d].attempts = challenge[d].attempts
                    /\ challenge'[d].code = challenge[d].code
                    /\ challenge'[d].delivered = challenge[d].delivered
                    /\ challenge[d].used => challenge'[d].used
                    /\ challenge[d].phone = p => challenge'[d].used

\* A new challenge is a new row, and ends the ones of its phone.
LEMMA CreatedRow ==
    ASSUME CodeInv, NEW c \in Challenges, NEW p \in Phones, NEW u \in Purposes,
           CreateChallenge(c, p, u)
    PROVE  /\ ~Exists(c) /\ Exists(c)' /\ challenge'[c] = NewRow(p, u)
           /\ \A d \in Challenges \ {c} : Aside(d, p)
           /\ UNCHANGED <<wrong, spent>>
<1>1. /\ ~Exists(c) /\ challenge' = [Superseded(p) EXCEPT ![c] = NewRow(p, u)]
      /\ UNCHANGED <<wrong, spent>>
  BY DEF CreateChallenge, guesses
<1>2. NewRow(p, u) \in Row
  BY CodesAssumption DEF NewRow, Row
<1>3. challenge'[c] = NewRow(p, u) /\ Exists(c)'
  BY <1>1, <1>2, CodesAssumption DEF Superseded, Exists
<1>4. ASSUME NEW d \in Challenges \ {c}
      PROVE  Aside(d, p)
  <2>1. challenge'[d] = Superseded(p)[d]
    BY <1>1 DEF Superseded
  <2>2. CASE Exists(d) /\ challenge[d].phone = p
    <3>1. challenge[d] \in Row
      BY <2>2 DEF CodeInv, CodeTypes, Exists
    <3>2. challenge'[d] = [challenge[d] EXCEPT !.used = TRUE]
      BY <2>1, <2>2 DEF Superseded
    <3>3. challenge'[d] \in Row
      BY <3>1, <3>2, RowColumns
    <3> QED BY <2>2, <3>1, <3>2, <3>3, CodesAssumption DEF Aside, Exists, Row
  <2>3. CASE ~(Exists(d) /\ challenge[d].phone = p)
    BY <2>1, <2>3 DEF Aside, Superseded, Exists
  <2> QED BY <2>2, <2>3
<1> QED BY <1>1, <1>3, <1>4

\* A row counts the wrong codes it has answered, and is over once it was spent.
Guesses ==
    \A c \in Challenges :
        IF Exists(c)
        THEN /\ wrong[c] <= challenge[c].attempts
             /\ spent[c] = 0 \/ (spent[c] = 1 /\ challenge[c].used)
        ELSE wrong[c] = 0 /\ spent[c] = 0

\* Both survive every step.
LEMMA RowSteps ==
    ASSUME CodeInv, CodeStep, OneOpenChallenge, Guesses
    PROVE  OneOpenChallenge' /\ Guesses'
<1> CodeTypes
  BY DEF CodeInv
<1>1. ASSUME NEW c \in Challenges, NEW p \in Phones, NEW u \in Purposes,
             CreateChallenge(c, p, u)
      PROVE  OneOpenChallenge' /\ Guesses'
  <2>0. \A d \in Challenges \ {c} : Aside(d, p)
    BY <1>1, CreatedRow
  <2>1. /\ challenge'[c].phone = p /\ challenge'[c].attempts = 0 /\ ~challenge'[c].used
    <3>1. challenge'[c] = NewRow(p, u)
      BY <1>1, CreatedRow
    <3> QED BY <3>1 DEF NewRow
  <2>2. OneOpenChallenge'
    <3>1. \A d \in Challenges \ {c} :
            Exists(d)' /\ ~challenge'[d].used =>
               /\ Exists(d) /\ ~challenge[d].used /\ challenge[d].phone # p
               /\ challenge'[d].phone = challenge[d].phone
      BY <2>0 DEF Aside
    <3> SUFFICES ASSUME NEW d \in Challenges, NEW e \in Challenges, d # e,
                        Exists(d)', ~challenge'[d].used, Exists(e)', ~challenge'[e].used
                 PROVE  challenge'[d].phone # challenge'[e].phone
      BY DEF OneOpenChallenge
    <3>2. CASE d = c \/ e = c
      BY <2>1, <3>1, <3>2
    <3>3. CASE d # c /\ e # c
      BY <3>1, <3>3 DEF OneOpenChallenge
    <3> QED BY <3>2, <3>3
  <2>3. Guesses'
    <3>1. UNCHANGED <<wrong, spent>> /\ ~Exists(c) /\ Exists(c)'
      BY <1>1, CreatedRow
    <3>2. \A d \in Challenges \ {c} :
            /\ Exists(d)' <=> Exists(d)
            /\ Exists(d) => /\ challenge'[d].attempts = challenge[d].attempts
                            /\ challenge[d].used => challenge'[d].used
      BY <2>0 DEF Aside
    <3> QED BY <2>1, <3>1, <3>2 DEF Guesses
  <2> QED BY <2>2, <2>3
<1>2. ASSUME \A c \in Challenges : Lifecycle(c) PROVE OneOpenChallenge'
  BY <1>2 DEF OneOpenChallenge, Lifecycle
<1>3. ASSUME \A c \in Challenges : Lifecycle(c) PROVE Guesses'
  <2> SUFFICES ASSUME NEW c \in Challenges
               PROVE  IF Exists(c)'
                      THEN /\ wrong'[c] <= challenge'[c].attempts
                           /\ spent'[c] = 0 \/ (spent'[c] = 1 /\ challenge'[c].used)
                      ELSE wrong'[c] = 0 /\ spent'[c] = 0
    BY DEF Guesses
  <2>1. CASE Exists(c)
    <3>1. challenge[c] \in Row /\ wrong[c] \in Nat
      BY <2>1 DEF CodeTypes, Exists
    <3>2. challenge[c].attempts \in Int
      BY <3>1, CodesAssumption DEF Row
    <3> QED BY <1>3, <2>1, <3>1, <3>2 DEF Lifecycle, Guesses
  <2>2. CASE ~Exists(c)
    BY <1>3, <2>2 DEF Lifecycle, Guesses
  <2> QED BY <2>1, <2>2
<1> QED BY <1>1, <1>2, <1>3, RowMoves

-----------------------------------------------------------------------------

\* Logins are of the epoch the account is in.
LoginInv ==
    /\ standing \in [Phones -> Standings]
    /\ epoch \in [Phones -> 0 .. MaxEpoch]
    /\ logins \in [Phones -> SUBSET (0 .. MaxEpoch)]
    /\ LoginsAreCurrent

\* Whatever a step does to the logins of a phone keeps that.
LEMMA LoginMoves ==
    ASSUME LoginInv, NEW p \in Phones, NEW left,
           \/ Issue(p) /\ UNCHANGED epoch
           \/ EndLogins(p, left) /\ left \in {{}, {epoch[p] + 1}}
           \/ \E e \in logins[p] : logins' = [logins EXCEPT ![p] = @ \ {e}] /\ UNCHANGED epoch
    PROVE  /\ epoch' \in [Phones -> 0 .. MaxEpoch]
           /\ logins' \in [Phones -> SUBSET (0 .. MaxEpoch)]
           /\ LoginsAreCurrent'
<1> USE DEF LoginInv, LoginsAreCurrent
<1>1. CASE Issue(p) /\ UNCHANGED epoch
  BY <1>1 DEF Issue
<1>2. CASE EndLogins(p, left) /\ left \in {{}, {epoch[p] + 1}}
  <2>1. epoch[p] + 1 \in 0 .. MaxEpoch
    BY <1>2, EpochAssumption DEF EndLogins
  <2> QED BY <1>2, <2>1 DEF EndLogins
<1>3. CASE \E e \in logins[p] : logins' = [logins EXCEPT ![p] = @ \ {e}] /\ UNCHANGED epoch
  BY <1>3
<1> QED BY <1>1, <1>2, <1>3

\* Every step keeps the logins current.
LEMMA LoginSteps ==
    ASSUME CodeInv, LoginInv, [AccountsNext]_allVars
    PROVE  LoginInv'
<1> USE DEF LoginInv
<1>1. ASSUME NEW c \in Challenges, Exists(c) PROVE challenge[c].phone \in Phones
  BY <1>1 DEF CodeInv, CodeTypes, Exists, Row
<1>2. ASSUME NEW c \in Challenges, Signup(c) \/ BaleLogin(c) \/ ResetPassword(c)
      PROVE  LoginInv'
  <2> PICK p \in Phones : p = challenge[c].phone
    BY <1>1, <1>2 DEF Signup, BaleLogin, ResetPassword
  <2>1. \/ Issue(p) /\ UNCHANGED epoch
        \/ EndLogins(p, {})
    BY <1>2 DEF Signup, BaleLogin, ResetPassword
  <2>2. standing' \in [Phones -> Standings]
    BY <1>2 DEF Signup, BaleLogin, ResetPassword, Standings
  <2> QED BY <2>1, <2>2, LoginMoves
<1>3. ASSUME NEW p \in Phones, PasswordLogin(p) PROVE LoginInv'
  BY <1>3, LoginMoves DEF PasswordLogin
<1>4. ASSUME NEW p \in Phones, ChangePassword(p) PROVE LoginInv'
  BY <1>4, LoginMoves DEF ChangePassword
<1>5. ASSUME NEW p \in Phones, Logout(p) PROVE LoginInv'
  BY <1>5, LoginMoves DEF Logout
<1>6. ASSUME NEW p \in Phones, NEW st \in {"pending", "approved", "suspended"},
             SetStatus(p, st)
      PROVE  LoginInv'
  <2>1. standing' \in [Phones -> Standings]
    BY <1>6 DEF SetStatus, Standings
  <2>2. CASE UNCHANGED <<epoch, logins>>
    BY <2>1, <2>2 DEF LoginsAreCurrent
  <2>3. CASE EndLogins(p, {})
    BY <2>1, <2>3, LoginMoves
  <2> QED BY <1>6, <2>2, <2>3 DEF SetStatus
<1>7. CASE UNCHANGED accountVars
  BY <1>7 DEF accountVars, LoginsAreCurrent
<1> QED
  BY <1>2, <1>3, <1>4, <1>5, <1>6, <1>7 DEF AccountsNext, CodesNext, allVars

-----------------------------------------------------------------------------

\* A phone's chat is its owner's, and two phones have two; a card of the
\* sender's own has the sender's number.
IdentityInv ==
    /\ \A p \in Phones : identity[p] # None => <<identity[p], p>> \in Owns
    /\ \A p, q \in Phones : identity[p] = identity[q] /\ p # q => identity[p] = None
    /\ \A i \in 1 .. Len(inbox) :
          inbox[i].kind = "contact" /\ inbox[i].own => <<inbox[i].chat, inbox[i].of>> \in Owns

\* What IdentityStable says of a step.
IdentityKept ==
    /\ \A p \in Phones : identity[p] # None => identity'[p] = identity[p]
    /\ \A p, q \in Phones : identity'[p] = identity'[q] /\ p # q => identity'[p] = None

\* Only a contact the bot accepts touches the identities, and only for a phone
\* and a chat that had none.
LEMMA IdentitySteps ==
    ASSUME CodeInv, CodeStep, IdentityInv
    PROVE  IdentityInv' /\ IdentityKept
<1> CodeTypes
  BY DEF CodeInv
<1> USE DEF codeRows, delivery, bot, guesses
<1>1. ASSUME UNCHANGED <<identity, inbox>> PROVE IdentityInv' /\ IdentityKept
  BY <1>1 DEF IdentityInv, IdentityKept
<1>2. ASSUME NEW u \in Updates, Message(u) PROVE IdentityInv' /\ IdentityKept
  <2>1. /\ u.kind = "contact" /\ u.own => <<u.chat, u.of>> \in Owns
        /\ inbox' = Append(inbox, u) /\ UNCHANGED identity
    BY <1>2 DEF Message
  <2>2. inbox \in Seq(Updates)
    BY DEF CodeTypes
  <2>3. /\ Len(inbox') = Len(inbox) + 1 /\ Len(inbox) \in Nat /\ inbox'[Len(inbox) + 1] = u
        /\ \A i \in 1 .. Len(inbox) : inbox'[i] = inbox[i]
    BY <2>1, <2>2
  <2>4. \A i \in 1 .. Len(inbox') : i \in 1 .. Len(inbox) \/ i = Len(inbox) + 1
    BY <2>3
  <2> QED BY <2>1, <2>3, <2>4 DEF IdentityInv, IdentityKept
<1>3. CASE BotContact
  <2>1. PICK chat \in Chats, p \in Phones : chat = Next1.chat /\ p = Next1.of
    BY <1>3 DEF BotContact, Waiting, Next1, CodeTypes, Updates
  <2>2. Next1.own => <<chat, p>> \in Owns
    <3>1. offset + 1 \in 1 .. Len(inbox) /\ Next1.kind = "contact"
      BY <1>3 DEF BotContact, Waiting, CodeTypes
    <3> QED BY <2>1, <3>1 DEF IdentityInv, Next1
  <2>3. inbox' = inbox
    BY <1>3 DEF BotContact
  <2>4. CASE Next1.own /\ Matches(chat, p) /\ Unclaimed(chat, p)
    <3>1. identity' = [identity EXCEPT ![p] = chat]
      BY <1>3, <2>1, <2>4 DEF BotContact
    <3>2. /\ identity'[p] = chat /\ identity[p] \in {None, chat}
          /\ \A q \in Phones : q # p => identity'[q] = identity[q] /\ identity[q] # chat
      BY <2>4, <3>1 DEF Unclaimed, CodeTypes
    <3> QED BY <2>2, <2>3, <2>4, <3>2 DEF IdentityInv, IdentityKept
  <2>5. CASE ~(Next1.own /\ Matches(chat, p) /\ Unclaimed(chat, p))
    BY <1>1, <1>3, <2>1, <2>3, <2>5 DEF BotContact
  <2> QED BY <2>4, <2>5
<1> QED
  BY <1>1, <1>2, <1>3
  DEF CodeStep, DeliveryStep, CreateChallenge, CoolDown, Expire, WrongCode, Spend, Prepare,
      SendCode, SendCodeFails, Confirm, BotStart, BotTells, BotTellsFails, BotSave,
      BotCrash, codeVars

-----------------------------------------------------------------------------

\* A deliverer addresses the chat of the challenge's phone, and confirms what
\* it has sent.
Addressed(d) ==
    /\ at[d] \in {"prepare", "send", "confirm"} =>
          identity[challenge[mine[d].of].phone] = mine[d].chat
    /\ at[d] = "confirm" => <<mine[d].of, mine[d].code, mine[d].chat>> \in outbox

\* A challenge that is called delivered has reached the chat of its phone.
Reached(c) ==
    Exists(c) /\ challenge[c].delivered =>
        <<c, challenge[c].code, identity[challenge[c].phone]>> \in outbox

Promise == (\A d \in Deliverers : Addressed(d)) /\ (\A c \in Challenges : Reached(c))

\* A row keeps its phone.
LEMMA PhoneKept ==
    ASSUME CodeInv, CodeStep, NEW c \in Challenges, Exists(c)
    PROVE  Exists(c)' /\ challenge'[c].phone = challenge[c].phone
<1>1. ASSUME NEW d \in Challenges, NEW p \in Phones, NEW u \in Purposes,
             CreateChallenge(d, p, u)
      PROVE  Exists(c)' /\ challenge'[c].phone = challenge[c].phone
  <2>1. c # d /\ Aside(c, p)
    BY <1>1, CreatedRow
  <2> QED BY <2>1 DEF Aside
<1>2. ASSUME \A d \in Challenges : Lifecycle(d)
      PROVE  Exists(c)' /\ challenge'[c].phone = challenge[c].phone
  BY <1>2 DEF Lifecycle
<1> QED BY <1>1, <1>2, RowMoves

\* What was sent stays sent.
LEMMA OutboxGrows == CodeStep => outbox \subseteq outbox'
  BY DEF CodeStep, DeliveryStep, CreateChallenge, CoolDown, Expire, WrongCode, Spend, Message,
         Prepare, SendCode, SendCodeFails, Confirm, BotStart, BotContact, BotTells,
         BotTellsFails, BotSave, BotCrash, Posted, codeVars, delivery

\* A deliverer that is not at the step goes on addressing the same chat.
LEMMA AddressKept ==
    ASSUME CodeInv, CodeStep, IdentityKept, NEW d \in Deliverers, Addressed(d),
           at'[d] = at[d], mine'[d] = mine[d]
    PROVE  Addressed(d)'
<1> DEFINE c == mine[d].of
<1>1. outbox \subseteq outbox'
  BY OutboxGrows
<1>2. ASSUME at[d] \in {"prepare", "send", "confirm"}
      PROVE  identity'[challenge'[c].phone] = mine[d].chat
  <2>1. /\ c \in Challenges /\ Exists(c) /\ mine[d].chat \in Chats
        /\ identity[challenge[c].phone] = mine[d].chat
    BY <1>2 DEF CodeInv, Delivering, Working, Addressed
  <2>2. challenge'[c].phone = challenge[c].phone
    BY <2>1, PhoneKept
  <2>3. challenge[c].phone \in Phones
    BY <2>1 DEF CodeInv, CodeTypes, Exists, Row
  <2> HIDE DEF c
  <2> QED BY <2>1, <2>2, <2>3, CodesAssumption DEF IdentityKept
<1> QED BY <1>1, <1>2 DEF Addressed

\* Every step keeps what the deliverers do.
LEMMA AddressSteps ==
    ASSUME CodeInv, CodeStep, IdentityKept, \A d \in Deliverers : Addressed(d)
    PROVE  \A d \in Deliverers : Addressed(d)'
<1> DEFINE Goal == \A d \in Deliverers : Addressed(d)'
           Others(e) == \A d \in Deliverers : d # e => at'[d] = at[d] /\ mine'[d] = mine[d]
<1> CodeTypes
  BY DEF CodeInv
<1> USE DEF codeRows, delivery, bot, guesses
<1>1. ASSUME NEW e \in Deliverers, Others(e), Addressed(e)' PROVE Goal
  BY <1>1, AddressKept
<1>2. ASSUME UNCHANGED <<at, mine>> PROVE Goal
  BY <1>2, AddressKept
<1>3. ASSUME NEW e \in Deliverers, Others(e),
             at'[e] \notin {"prepare", "send", "confirm"}
      PROVE  Goal
  BY <1>1, <1>3 DEF Addressed
<1>4. ASSUME NEW e \in Deliverers, Raise(e) \/ Return(e) PROVE Goal
  <2>1. Others(e) /\ at'[e] \notin {"prepare", "send", "confirm"}
    BY <1>4 DEF Raise, Return, Move, CodeTypes
  <2> QED BY <1>3, <2>1
<1>5. ASSUME NEW c \in Challenges, NEW p \in Phones, NEW u \in Purposes,
             CreateChallenge(c, p, u)
      PROVE  Goal
  <2>1. CASE identity[p] # None
    <3>1. /\ at' = [at EXCEPT ![c] = "prepare"] /\ UNCHANGED identity
          /\ TakesOn(c, c, identity[p]) /\ identity[p] \in Chats
      BY <1>5, <2>1 DEF CreateChallenge, Move, TakesOn, CodeTypes
    <3>2. /\ mine'[c].of = c /\ mine'[c].chat = identity[p]
          /\ \A x \in Deliverers : x # c => mine'[x] = mine[x]
      BY <3>1, NewJob DEF Deliverers
    <3>3. challenge'[c].phone = p
      <4>1. challenge'[c] = NewRow(p, u)
        BY <1>5, CreatedRow
      <4> QED BY <4>1 DEF NewRow
    <3>4. Others(c) /\ Addressed(c)'
      BY <3>1, <3>2, <3>3 DEF Addressed, CodeTypes, Deliverers
    <3> QED BY <1>1, <3>4 DEF Deliverers
  <2>2. CASE identity[p] = None
    BY <1>2, <1>5, <2>2 DEF CreateChallenge
  <2> QED BY <2>1, <2>2
<1>6. ASSUME NEW d \in Deliverers, Prepare(d) PROVE Goal
  <2>1. CASE MayDeliver(mine[d].of, mine[d].chat)
    <3>1. PICK c \in Challenges : c = mine[d].of /\ Exists(c)
      BY <1>6 DEF Prepare, CodeInv, Delivering, Working
    <3>2. /\ at' = [at EXCEPT ![d] = "send"] /\ UNCHANGED <<identity, outbox>>
          /\ Draws(d, drawn[c] + 1) /\ drawn[c] + 1 \in 0 .. MaxCodes
      BY <1>6, <2>1, <3>1, CodesAssumption DEF Prepare, Move, Draws, CodeTypes
    <3>3. /\ mine'[d].of = c /\ mine'[d].chat = mine[d].chat
          /\ \A x \in Deliverers : x # d => mine'[x] = mine[x]
      BY <3>1, <3>2, NewCode
    <3>4. challenge'[c].phone = challenge[c].phone
      BY <3>1, PhoneKept
    <3>5. identity[challenge[c].phone] = mine[d].chat
      BY <1>6, <3>1 DEF Prepare, Addressed
    <3>6. Others(d) /\ Addressed(d)'
      BY <3>2, <3>3, <3>4, <3>5 DEF Addressed, CodeTypes
    <3> QED BY <1>1, <3>6
  <2>2. CASE ~MayDeliver(mine[d].of, mine[d].chat)
    BY <1>4, <1>6, <2>2 DEF Prepare
  <2> QED BY <2>1, <2>2
<1>7. ASSUME NEW d \in Deliverers, SendCode(d) PROVE Goal
  <2>1. /\ at' = [at EXCEPT ![d] = "confirm"] /\ UNCHANGED <<challenge, identity, mine>>
        /\ <<mine[d].of, mine[d].code, mine[d].chat>> \in outbox'
    BY <1>7 DEF SendCode, Move, Posted
  <2>2. identity[challenge[mine[d].of].phone] = mine[d].chat
    BY <1>7 DEF SendCode, Addressed
  <2>3. Others(d) /\ Addressed(d)'
    BY <2>1, <2>2 DEF Addressed, CodeTypes
  <2> QED BY <1>1, <2>3
<1>8. ASSUME NEW d \in Deliverers, SendCodeFails(d) \/ Confirm(d) PROVE Goal
  BY <1>4, <1>8 DEF SendCodeFails, Confirm
<1>9. CASE BotContact
  <2>1. PICK chat \in Chats, p \in Phones : chat = Next1.chat /\ p = Next1.of
    BY <1>9 DEF BotContact, Waiting, Next1, CodeTypes, Updates
  <2>2. CASE Next1.own /\ Matches(chat, p) /\ Unclaimed(chat, p)
    <3>1. PICK c \in Challenges : c = flow[chat] /\ challenge[c].phone = p
      BY <2>2 DEF Matches, CodeTypes
    <3>2. /\ at' = [at EXCEPT !["bot"] = "prepare"] /\ TakesOn("bot", c, chat)
          /\ identity' = [identity EXCEPT ![p] = chat] /\ UNCHANGED challenge
      BY <1>9, <2>1, <2>2, <3>1 DEF BotContact, Move, TakesOn
    <3>3. /\ mine'["bot"].of = c /\ mine'["bot"].chat = chat
          /\ \A x \in Deliverers : x # "bot" => mine'[x] = mine[x]
      BY <3>2, NewJob DEF Deliverers
    <3>4. Others("bot") /\ Addressed("bot")'
      BY <3>1, <3>2, <3>3 DEF Addressed, CodeTypes, Deliverers
    <3> QED BY <1>1, <3>4 DEF Deliverers
  <2>3. CASE ~(Next1.own /\ Matches(chat, p) /\ Unclaimed(chat, p))
    <3>1. at' = [at EXCEPT !["bot"] = "tell"] /\ UNCHANGED mine
      BY <1>9, <2>1, <2>3 DEF BotContact, Move
    <3>2. Others("bot") /\ at'["bot"] = "tell"
      BY <3>1 DEF CodeTypes, Deliverers
    <3> QED BY <1>3, <3>2 DEF Deliverers
  <2> QED BY <2>2, <2>3
<1>10. CASE BotStart \/ BotTells \/ BotSave
  <2>1. Others("bot") /\ at'["bot"] \in {"tell", "save", "idle"}
    BY <1>10 DEF BotStart, BotTells, BotSave, Move, CodeTypes, Deliverers
  <2> QED BY <1>3, <2>1 DEF Deliverers
<1>11. CASE BotTellsFails \/ BotCrash
  BY <1>4, <1>11 DEF BotTellsFails, BotCrash, Deliverers
<1>12. ASSUME \/ \E p \in Phones : CoolDown(p)
              \/ \E c \in Challenges : Expire(c) \/ WrongCode(c)
              \/ \E c \in Challenges, u \in Purposes : Spend(c, u)
              \/ \E u \in Updates : Message(u)
              \/ UNCHANGED codeVars
       PROVE  Goal
  BY <1>2, <1>12 DEF CoolDown, Expire, WrongCode, Spend, Message, codeVars
<1> QED
  BY <1>5, <1>6, <1>7, <1>8, <1>9, <1>10, <1>11, <1>12 DEF CodeStep, DeliveryStep

\* Every step keeps what was said of the delivered challenges.
LEMMA ReachedSteps ==
    ASSUME CodeInv, CodeStep, IdentityKept, Promise
    PROVE  \A c \in Challenges : Reached(c)'
<1> SUFFICES ASSUME NEW c \in Challenges, Exists(c)', challenge'[c].delivered
             PROVE  <<c, challenge'[c].code, identity'[challenge'[c].phone]>> \in outbox'
  BY DEF Reached
<1>1. outbox \subseteq outbox'
  BY OutboxGrows
<1>2. ASSUME Exists(c), <<c, challenge[c].code, identity[challenge[c].phone]>> \in outbox,
             challenge'[c].code = challenge[c].code
      PROVE  <<c, challenge'[c].code, identity'[challenge'[c].phone]>> \in outbox'
  <2>1. identity[challenge[c].phone] \in Chats /\ challenge[c].phone \in Phones
    BY <1>2 DEF CodeInv, CodeTypes, Exists, Row
  <2>2. challenge'[c].phone = challenge[c].phone
    BY <1>2, PhoneKept
  <2> QED BY <1>1, <1>2, <2>1, <2>2, CodesAssumption DEF IdentityKept
<1>3. ASSUME NEW e \in Challenges, NEW p \in Phones, NEW u \in Purposes,
             CreateChallenge(e, p, u)
      PROVE  <<c, challenge'[c].code, identity'[challenge'[c].phone]>> \in outbox'
  <2>1. challenge'[e] = NewRow(p, u) /\ (c # e => Aside(c, p))
    BY <1>3, CreatedRow
  <2>2. c # e
    BY <2>1 DEF NewRow
  <2> QED BY <1>2, <2>1, <2>2 DEF Aside, Promise, Reached
<1>4. ASSUME Lifecycle(c)
      PROVE  <<c, challenge'[c].code, identity'[challenge'[c].phone]>> \in outbox'
  <2>1. /\ Exists(c) /\ challenge'[c].code = challenge[c].code
        /\ \/ challenge[c].delivered
           \/ \E d \in Deliverers : /\ at[d] = "confirm" /\ mine[d].of = c
                                    /\ mine[d].code = challenge[c].code
    BY <1>4 DEF Lifecycle
  <2>2. <<c, challenge[c].code, identity[challenge[c].phone]>> \in outbox
    BY <2>1 DEF Promise, Reached, Addressed
  <2> QED BY <1>2, <2>1, <2>2
<1> QED BY <1>3, <1>4, RowMoves

-----------------------------------------------------------------------------

\* The inductive invariant.
AccountsInv ==
    CodeInv /\ LoginInv /\ IdentityInv /\ Promise /\ OneOpenChallenge /\ Guesses

\* It holds at first and after every step.
LEMMA AccountsInduction == AccountsSpec => []AccountsInv
<1>1. AccountsInit => AccountsInv
  <2> SUFFICES ASSUME AccountsInit PROVE AccountsInv
    OBVIOUS
  <2>1. CodesInit
    BY DEF AccountsInit
  <2>2. CodeInv
    BY <2>1, CodeInit
  <2>3. LoginInv
    BY EpochAssumption DEF AccountsInit, LoginInv, LoginsAreCurrent, Standings
  <2>4. IdentityInv
    <3>1. Len(inbox) = 0
      BY <2>1 DEF CodesInit
    <3> QED BY <2>1, <3>1 DEF CodesInit, IdentityInv
  <2>5. \A c \in Challenges : ~Exists(c) /\ wrong[c] = 0 /\ spent[c] = 0
    BY <2>1 DEF CodesInit, Exists
  <2>6. Promise
    BY <2>1, <2>5 DEF CodesInit, Promise, Addressed, Reached
  <2> QED BY <2>2, <2>3, <2>4, <2>5, <2>6 DEF AccountsInv, OneOpenChallenge, Guesses
<1>2. AccountsInv /\ [AccountsNext]_allVars => AccountsInv'
  <2> SUFFICES ASSUME AccountsInv, [AccountsNext]_allVars PROVE AccountsInv'
    OBVIOUS
  <2>1. CodeStep
    BY CodeSteps
  <2>2. CodeInv'
    BY <2>1, CodeInvStep DEF AccountsInv
  <2>3. LoginInv'
    BY LoginSteps DEF AccountsInv
  <2>4. IdentityInv' /\ IdentityKept
    BY <2>1, IdentitySteps DEF AccountsInv
  <2>5. Promise'
    BY <2>1, <2>4, AddressSteps, ReachedSteps DEF AccountsInv, Promise
  <2>6. OneOpenChallenge' /\ Guesses'
    BY <2>1, RowSteps DEF AccountsInv
  <2> QED BY <2>2, <2>3, <2>4, <2>5, <2>6 DEF AccountsInv
<1> QED BY <1>1, <1>2, PTL DEF AccountsSpec

\* Every variable keeps its type: a code is one of those drawn, the bot never
\* runs past its inbox, and a deliverer works for a challenge and a chat.
THEOREM AccountsTyping == AccountsSpec => []AccountsTypeOK
<1>1. AccountsInv => AccountsTypeOK
  BY DEF AccountsInv, CodeInv, CodeTypes, Work, LoginInv, AccountsTypeOK
<1> QED BY <1>1, AccountsInduction, PTL

\* A phone has at most one code that can still be used (create_challenge).
THEOREM OneCodePerPhone == AccountsSpec => []OneOpenChallenge
<1>1. AccountsInv => OneOpenChallenge
  BY DEF AccountsInv
<1> QED BY <1>1, AccountsInduction, PTL

\* A challenge answers at most MaxAttempts wrong codes (consume_challenge).
THEOREM GuessesAreBounded == AccountsSpec => []GuessBound
<1>1. AccountsInv => GuessBound
  <2> SUFFICES ASSUME AccountsInv, NEW c \in Challenges PROVE wrong[c] <= MaxAttempts
    BY DEF GuessBound
  <2>1. wrong[c] \in Nat /\ MaxAttempts \in Nat
    BY CodesAssumption DEF AccountsInv, CodeInv, CodeTypes
  <2>2. CASE Exists(c)
    <3>1. challenge[c] \in Row /\ wrong[c] <= challenge[c].attempts
      BY <2>2 DEF AccountsInv, CodeInv, CodeTypes, Exists, Guesses
    <3>2. challenge[c].attempts \in 0 .. MaxAttempts
      BY <3>1 DEF Row
    <3> QED BY <2>1, <3>1, <3>2
  <2>3. CASE ~Exists(c)
    BY <2>1, <2>3 DEF AccountsInv, Guesses
  <2> QED BY <2>2, <2>3
<1> QED BY <1>1, AccountsInduction, PTL

\* A challenge is accepted at most once (signup, login, reset).
THEOREM CodesAreSpentOnce == AccountsSpec => []SpentOnce
<1>1. AccountsInv => SpentOnce
  BY DEF AccountsInv, Guesses, SpentOnce
<1> QED BY <1>1, AccountsInduction, PTL

\* A code that can be accepted has reached the chat of the phone's owner
\* (deliver_code, in the request and in the bot).
THEOREM CodesReachTheirOwner == AccountsSpec => []DeliveredCodeWasSent
<1>1. AccountsInv => DeliveredCodeWasSent
  <2> SUFFICES ASSUME AccountsInv, NEW c \in Challenges, Exists(c), challenge[c].delivered
               PROVE  /\ <<c, challenge[c].code, identity[challenge[c].phone]>> \in outbox
                      /\ <<identity[challenge[c].phone], challenge[c].phone>> \in Owns
    BY DEF DeliveredCodeWasSent
  <2>1. <<c, challenge[c].code, identity[challenge[c].phone]>> \in outbox
    BY DEF AccountsInv, Promise, Reached
  <2>2. identity[challenge[c].phone] \in Chats /\ challenge[c].phone \in Phones
    BY <2>1 DEF AccountsInv, CodeInv, CodeTypes, Exists, Row
  <2> QED BY <2>1, <2>2, CodesAssumption DEF AccountsInv, IdentityInv
<1> QED BY <1>1, AccountsInduction, PTL

\* No login outlives a new password or the loss of the approval (reset_password,
\* change_password, set_status).
THEOREM LoginsStayCurrent == AccountsSpec => []LoginsAreCurrent
<1>1. AccountsInv => LoginsAreCurrent
  BY DEF AccountsInv, LoginInv
<1> QED BY <1>1, AccountsInduction, PTL

\* The chat of a phone never changes, and no two phones share one (the bot's
\* handling of a contact).
THEOREM IdentitiesAreStable == AccountsSpec => IdentityStable
<1>1. AccountsInv /\ [AccountsNext]_allVars => [IdentityKept]_allVars
  <2> SUFFICES ASSUME AccountsInv, [AccountsNext]_allVars PROVE IdentityKept
    OBVIOUS
  <2>1. CodeStep
    BY CodeSteps
  <2> QED BY <2>1, IdentitySteps DEF AccountsInv
<1>2. IdentityStable <=> [][IdentityKept]_allVars
  BY PTL DEF IdentityStable, IdentityKept
<1> QED BY <1>1, <1>2, AccountsInduction, PTL DEF AccountsSpec
=============================================================================
