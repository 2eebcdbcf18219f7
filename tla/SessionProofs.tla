--------------------------- MODULE SessionProofs ----------------------------
(***************************************************************************)
(* What holds of an open session for any number of clips, workers, sockets *)
(* and utterances, whatever the browsers, the requests and the owner do:   *)
(* first of its microphone sockets, then of its clips and its transcript.  *)
(***************************************************************************)
EXTENDS SessionEditing, FiniteSetTheorems, TLAPS

-----------------------------------------------------------------------------
(* The microphone. *)

\* The part of SessionTypeOK that is about sockets.
LiveTypes ==
    /\ sock \in [Sockets -> SockPcs] /\ client \in [Sockets -> ClientPcs]
    /\ inflight \in [Sockets -> 0 .. MaxQueued]
    /\ sent \in [Sockets -> 0 .. Utterances]
    /\ answered \in [Sockets -> 0 .. Utterances] /\ heard \in [Sockets -> 0 .. Utterances]
    /\ access \in BOOLEAN /\ excused \subseteq Sockets

\* The counters of a socket: an answer is for an utterance that was sent, what
\* is in hand is not answered, and "finished" comes after all of it, when
\* nothing more is sent.
Counted(s) ==
    /\ heard[s] <= answered[s] /\ answered[s] <= sent[s]
    /\ sock[s] \in {"queued", "decode", "recheck", "store"} => answered[s] < sent[s]
    /\ sock[s] = "finished" => answered[s] = sent[s] /\ client[s] # "talking"
    /\ client[s] = "saved" => sock[s] = "finished"

\* The coroutine counts one utterance from its arrival to the end of the decode;
\* only a connection that ended in between keeps its count.
Placed(s) ==
    sock[s] # "closed" => inflight[s] = IF sock[s] \in {"queued", "decode"} THEN 1 ELSE 0

LiveInv ==
    /\ LiveTypes /\ RevokedStoresNothing
    /\ \A s \in Sockets : Counted(s) /\ Placed(s)

\* Before anyone connects nothing was sent.
LEMMA LiveInit == SessionInit => LiveInv
  BY SessionAssumption
  DEF SessionInit, LiveInv, LiveTypes, Counted, Placed, RevokedStoresNothing, SockPcs, ClientPcs

\* Requests and workers never touch a socket; they may end the owner's login.
LEMMA ClipSteps ==
    SessionNext => \/ UNCHANGED liveVars
                   \/ Revoke
                   \/ \E s \in Sockets :
                        BrowserStep(s) \/ LinkStep(s) \/ ServerStep(s) \/ Acquire(s)
  BY DEF SessionNext, PageStep, HandlerStep, UploadStep, WorkerStep, AppendStart,
         AppendCommit, AppendRefused, ClipQueued, ClipNotQueued, RetryClip, RemoveClip,
         RemoveFile, Reorder, EditBlock, DeleteBlock, CloseLive, CloseClips,
         PipelineDropsFile, PipelineSaves, Reopen, DeleteSession, TakeClip, FetchClip,
         DecodeClip, ResolveRead, ResolveWrite

\* A browser keeps the counters in order.
LEMMA BrowserSteps ==
    ASSUME LiveInv, NEW s \in Sockets, BrowserStep(s) \/ LinkStep(s)
    PROVE  LiveInv'
<1> USE SessionAssumption
        DEF LiveInv, LiveTypes, Counted, Placed, SockPcs, ClientPcs, Up, SocketAt, RevokedStoresNothing
<1>1. CASE Connect(s)
  BY <1>1 DEF Connect
<1>2. CASE Ship(s)
  BY <1>2 DEF Ship
<1>3. CASE FinishTalking(s)
  BY <1>3 DEF FinishTalking
<1>4. CASE LeaveSocket(s)
  BY <1>4 DEF LeaveSocket
<1>5. CASE HearAnswer(s)
  BY <1>5 DEF HearAnswer
<1>6. CASE HearEnd(s)
  BY <1>6 DEF HearEnd
<1> QED BY <1>1, <1>2, <1>3, <1>4, <1>5, <1>6 DEF BrowserStep, LinkStep

\* So does the server.
LEMMA ServerSteps ==
    ASSUME LiveInv, NEW s \in Sockets, ServerStep(s) \/ Acquire(s)
    PROVE  LiveInv'
<1> USE SessionAssumption
        DEF LiveInv, LiveTypes, Counted, Placed, SockPcs, ClientPcs, Up, SocketAt, RevokedStoresNothing
<1>1. CASE Receive(s)
  <2>1. PICK wellFormed \in BOOLEAN :
            IF wellFormed /\ inflight[s] < MaxQueued
            THEN /\ inflight' = [inflight EXCEPT ![s] = @ + 1]
                 /\ \E reached \in Reached(s) :
                        SocketAt(s, IF reached THEN "queued" ELSE "closed")
                 /\ UNCHANGED answered
            ELSE Answer(s) /\ UNCHANGED inflight
    BY <1>1 DEF Receive
  <2>2. CASE wellFormed /\ inflight[s] < MaxQueued
    BY <1>1, <2>1, <2>2 DEF Receive
  <2>3. CASE ~(wellFormed /\ inflight[s] < MaxQueued)
    BY <1>1, <2>1, <2>3 DEF Receive, Answer
  <2> QED BY <2>2, <2>3
<1>2. CASE Acquire(s)
  BY <1>2 DEF Acquire
<1>3. CASE DecodedText(s)
  BY <1>3 DEF DecodedText, Release
<1>4. CASE DecodedNothing(s)
  BY <1>4 DEF DecodedNothing, Answer, Release
<1>5. CASE Recheck(s)
  BY <1>5 DEF Recheck
<1>6. CASE Store(s)
  BY <1>6 DEF Store, Answer
<1>7. CASE ServerFinish(s)
  BY <1>7 DEF ServerFinish
<1>8. CASE ServerSeesEnd(s)
  BY <1>8 DEF ServerSeesEnd
<1>9. CASE TurnAway(s)
  BY <1>9 DEF TurnAway
<1> QED BY <1>1, <1>2, <1>3, <1>4, <1>5, <1>6, <1>7, <1>8, <1>9 DEF ServerStep

\* The invariant of the sockets.
LEMMA LiveInduction == SessionSpec => []LiveInv
<1>1. LiveInv /\ [SessionNext]_vars => LiveInv'
  <2> SUFFICES ASSUME LiveInv, [SessionNext]_vars PROVE LiveInv'
    OBVIOUS
  <2>1. CASE UNCHANGED liveVars
    BY <2>1 DEF liveVars, LiveInv, LiveTypes, Counted, Placed, RevokedStoresNothing
  <2>2. CASE Revoke
    BY <2>2 DEF Revoke, LiveInv, LiveTypes, Counted, Placed, RevokedStoresNothing
  <2> QED BY <2>1, <2>2, ClipSteps, BrowserSteps, ServerSteps DEF vars
<1> QED BY <1>1, LiveInit, PTL DEF SessionSpec

-----------------------------------------------------------------------------

\* A browser that hears "finished" behind its last answer had every utterance
\* it sent handled (live_socket, static/live.js finish).
THEOREM FinishedMeansSaved == SessionSpec => []FinishSaved
<1>1. LiveInv => FinishSaved
  BY DEF LiveInv, Counted, FinishSaved
<1> QED BY <1>1, LiveInduction, PTL

\* However an utterance ended, its place is free again before the next one is
\* received, so LIVE_MAX_QUEUED never sheds one, whatever the browser sends
\* (live_socket's counter inflight and its finally clause).
THEOREM NothingIsShed == SessionSpec => []NeverBusy
<1>1. LiveInv => NeverBusy
  BY SessionAssumption DEF LiveInv, LiveTypes, Placed, NeverBusy
<1> QED BY <1>1, LiveInduction, PTL

\* After a logout, a new password or a suspension only the utterance that was
\* past the second look at the login is stored (live_socket).
THEOREM NothingStoredAfterRevocation == SessionSpec => []RevokedStoresNothing
<1>1. LiveInv => RevokedStoresNothing
  BY DEF LiveInv
<1> QED BY <1>1, LiveInduction, PTL

-----------------------------------------------------------------------------
(* The clips and the transcript. *)

\* The part of SessionTypeOK that is about clips; the numbers given out so far
\* have a largest one.
ClipTypes ==
    /\ session \in {"open", "busy", "done", "deleted"}
    /\ position \in [Clips -> Nat]
    /\ files \subseteq Clips /\ dropped \subseteq Clips
    /\ blocks \in [BlockIds -> Blocks \cup {None}]
    /\ entries \in [Clips -> 0 .. 1]
    /\ pc \in [Actors -> ActorPcs]
    /\ clipOf \in [Workers -> Clips \cup {None}] /\ decoded \in [Workers -> BOOLEAN]
    /\ saw \in [Actors -> Blocks \cup {None}]

Numbered ==
    /\ IsFiniteSet(Rows)
    /\ \E n \in Nat : \A c \in Rows : position[c] <= n
    /\ \E n \in Nat : \A i \in Present : blocks[i].seq <= n

\* Where the requests and the workers can be; a worker has a clip in hand as
\* long as it works.
Stages ==
    /\ \A c \in Clips :
        /\ pc[<<"append", c>>] \in {"idle", "upload", "enqueue", "read", "write", "gone"}
        /\ pc[<<"retry", c>>] \in {"idle", "enqueue", "read", "write"}
        /\ pc[<<"remove", c>>] \in {"idle", "unlink"}
    /\ \A w \in Workers :
        /\ pc[w] \in {"idle", "fetch", "decode", "read", "write"}
        /\ pc[w] # "idle" => clipOf[w] \in Clips

\* Actor p is about to decide on the block of clip c.
InHand(p, c) == ClipOf(p) = c /\ pc[p] \in {"enqueue", "fetch", "decode", "read", "write"}

\* A clip is transcribed by one attempt at a time: it has its entry in the
\* queue, or one actor has it in hand.
OneAttempt ==
    /\ \A p \in Actors, c \in Clips : InHand(p, c) => entries[c] = 0
    /\ \A p, q \in Actors, c \in Clips : InHand(p, c) /\ InHand(q, c) => p = q
    /\ \A c \in Clips : pc[<<"append", c>>] \in {"idle", "upload"} =>
        /\ ~HasClip(c) /\ ~HasBlock(c) /\ entries[c] = 0
        /\ \A p \in Actors : ~InHand(p, c)

\* As long as there is an attempt the block waits for it, or is gone; an edited
\* block waits for nothing.
BlocksWait ==
    /\ \A p \in Actors, c \in Clips : InHand(p, c) /\ HasBlock(c) => blocks[c].state = "pending"
    /\ \A c \in Clips : entries[c] > 0 /\ HasBlock(c) => blocks[c].state = "pending"
    /\ \A p \in Actors : pc[p] = "write" => saw[p] # None /\ saw[p].state = "pending"
    /\ \A c \in Clips : HasBlock(c) => HasClip(c)
    /\ \A i \in BlockIds : HasBlock(i) /\ blocks[i].edited =>
        blocks[i].state = "done" /\ blocks[i].text = "user"

ClipInv ==
    /\ ClipTypes /\ Numbered /\ Stages /\ OneAttempt /\ BlocksWait
    /\ PendingIsAttended

-----------------------------------------------------------------------------

\* The maximum db.next_block_seq and append_clip ask for is there.
LEMMA LargestOf ==
    ASSUME NEW S \in SUBSET Nat, NEW n \in Nat, \A m \in S : m <= n
    PROVE  Largest(S) \in Nat /\ \A m \in S : m <= Largest(S)
<1> DEFINE R == {r \in Nat \X Nat : r[1] < r[2]}
           T == {n - m : m \in S}
<1>1. IsWellFoundedOn(R, Nat)
  BY NatLessThanWellFounded DEF OpToRel
<1>2. T \subseteq Nat
  OBVIOUS
<1>3. CASE S # {}
  <2>1. PICK x \in T : \A y \in T : ~(<<y, x>> \in R)
    <3>1. T # {}
      BY <1>3
    <3> HIDE DEF T, R
    <3> QED BY <1>1, <1>2, <3>1, WFMin
  <2>2. PICK k \in S : x = n - k
    BY <2>1
  <2>3. \A m \in S : m <= k
    <3> SUFFICES ASSUME NEW m \in S PROVE m <= k
      OBVIOUS
    <3>1. n - m \in T /\ ~(<<n - m, x>> \in R)
      BY <2>1
    <3> QED BY <1>2, <2>2, <3>1
  <2> HIDE DEF T, R
  <2>4. \E q \in S \cup {0} : \A m \in S : m <= q
    BY <2>3
  <2> DEFINE top == Largest(S)
  <2>5. top \in S \cup {0} /\ \A m \in S : m <= top
    BY <2>4 DEF Largest
  <2> HIDE DEF top
  <2>6. top \in Nat
    BY <2>5
  <2> QED BY <2>5, <2>6 DEF top
<1>4. CASE S = {}
  BY <1>4 DEF Largest
<1> QED BY <1>3, <1>4

\* So a new block is the last one.
LEMMA NextSeqIsLast ==
    ASSUME ClipTypes, Numbered
    PROVE  NextSeq \in Nat /\ \A i \in Present : blocks[i].seq < NextSeq
<1> DEFINE S == {blocks[i].seq : i \in Present}
<1>1. S \in SUBSET Nat
  BY DEF ClipTypes, Present, HasBlock, Blocks
<1>2. PICK n \in Nat : \A m \in S : m <= n
  BY DEF Numbered
<1> DEFINE top == Largest(S)
<1>3. top \in Nat /\ \A m \in S : m <= top
  <2> HIDE DEF S
  <2> QED BY <1>1, <1>2, LargestOf
<1>4. NextSeq = top + 1
  BY DEF NextSeq
<1>5. \A i \in Present : blocks[i].seq \in S
  OBVIOUS
<1> HIDE DEF S, top
<1>6. \A m \in S : m \in Nat /\ m <= top
  BY <1>1, <1>3
<1>7. \A m \in S : m < NextSeq
  BY <1>3, <1>4, <1>6
<1>8. NextSeq \in Nat
  BY <1>3, <1>4
<1> QED BY <1>5, <1>7, <1>8

\* A new clip is the last one.
LEMMA NextPositionIsLast ==
    ASSUME ClipTypes, Numbered
    PROVE  NextPosition \in Nat \ {0} /\ \A c \in Rows : position[c] < NextPosition
<1> DEFINE S == {position[d] : d \in Rows}
<1>1. S \in SUBSET Nat
  BY DEF ClipTypes, Rows
<1>2. PICK n \in Nat : \A m \in S : m <= n
  BY DEF Numbered
<1> DEFINE top == Largest(S)
<1>3. top \in Nat /\ \A m \in S : m <= top
  <2> HIDE DEF S
  <2> QED BY <1>1, <1>2, LargestOf
<1>4. NextPosition = top + 1
  BY DEF NextPosition
<1>5. \A c \in Rows : position[c] \in S
  OBVIOUS
<1> HIDE DEF S, top
<1>6. \A m \in S : m \in Nat /\ m <= top
  BY <1>1, <1>3
<1>7. \A m \in S : m < NextPosition
  BY <1>3, <1>4, <1>6
<1>8. NextPosition \in Nat \ {0}
  BY <1>3, <1>4
<1> QED BY <1>5, <1>7, <1>8

\* A block stays a block when some of its columns change.
LEMMA BlockColumns ==
    ASSUME NEW b \in Blocks
    PROVE  /\ [b EXCEPT !.text = "user", !.edited = TRUE] \in Blocks
           /\ [b EXCEPT !.state = "pending", !.text = ""] \in Blocks
           /\ \A n \in Nat : [b EXCEPT !.seq = n] \in Blocks
  BY DEF Blocks, BlockStates, Texts

\* What one request or worker writes is a block, and the others are left alone.
LEMMA PutBlock ==
    ASSUME ClipTypes, NEW i \in BlockIds, NEW b \in Blocks \cup {None}, Put(i, b)
    PROVE  /\ blocks' \in [BlockIds -> Blocks \cup {None}] /\ blocks'[i] = b
           /\ \A j \in BlockIds : j # i => blocks'[j] = blocks[j]
  BY DEF ClipTypes, Put

-----------------------------------------------------------------------------

\* Who writes a block.
BlockWrite ==
    \/ \E c \in Clips : AppendCommit(c) \/ RetryClip(c) \/ RemoveClip(c)
    \/ \E i \in BlockIds : EditBlock(i) \/ DeleteBlock(i)
    \/ Reorder \/ DeleteSession
    \/ \E p \in Actors : ResolveWrite(p)
    \/ \E s \in Sockets : Store(s) /\ session = "open"

\* Nobody else does.
LEMMA BlockWriters == [SessionNext]_vars => UNCHANGED blocks \/ BlockWrite
  BY DEF SessionNext, PageStep, HandlerStep, UploadStep, WorkerStep, BrowserStep,
         LinkStep, ServerStep, AppendStart, AppendRefused, ClipQueued, ClipNotQueued,
         RemoveFile, CloseLive, CloseClips, PipelineDropsFile, PipelineSaves, Reopen,
         TakeClip, FetchClip, DecodeClip, ResolveRead, Connect, Ship, FinishTalking,
         LeaveSocket, HearAnswer, HearEnd, TurnAway, Receive, Acquire, DecodedText,
         DecodedNothing, Recheck, Store, ServerFinish, ServerSeesEnd, Revoke, vars,
         clipVars, BlockWrite, Actors

\* The block a new clip or utterance gets.
LEMMA NewBlocks ==
    ASSUME ClipTypes, Numbered
    PROVE  PendingBlock \in Blocks /\ MicBlock \in Blocks
  BY NextSeqIsLast DEF PendingBlock, MicBlock, Blocks, BlockStates, Texts

\* What the resolution of a block leaves of it.
Resolved(p) ==
    LET c == ClipOf(p)
        Changed(new, old, now) == IF new = old THEN now ELSE new
    IN  [blocks[c] EXCEPT !.state = Changed(Outcome(p), saw[p].state, @),
                          !.text  = Changed(Wording(p), saw[p].text, @)]

\* An actor's clip is one.
LEMMA ClipOfType ==
    ASSUME ClipTypes, Stages, NEW p \in Actors, pc[p] # "idle"
    PROVE  ClipOf(p) \in Clips
  BY DEF ClipTypes, Stages, ClipOf, Actors, Handlers

\* A resolution that finds its block awaited ends the wait.
LEMMA ResolvedBlock ==
    ASSUME ClipInv, NEW p \in Actors, pc[p] = "write", NEW c \in Clips, ClipOf(p) = c, HasBlock(c)
    PROVE  /\ Resolved(p) \in Blocks
           /\ Resolved(p).seq = blocks[c].seq /\ Resolved(p).edited = blocks[c].edited
           /\ Resolved(p).state \in {"done", "failed"} /\ ~blocks[c].edited
<1>1. InHand(p, c) /\ blocks[c] \in Blocks
  BY DEF InHand, ClipInv, ClipTypes, HasBlock, BlockIds
<1>2. blocks[c].state = "pending" /\ saw[p].state = "pending" /\ saw[p] \in Blocks
  BY <1>1 DEF ClipInv, BlocksWait, ClipTypes
<1>3. Outcome(p) \in {"done", "failed"} /\ Wording(p) \in {"asr", "notice"}
  BY DEF Outcome, Wording
<1> DEFINE st == Outcome(p)
           t  == IF Wording(p) = saw[p].text THEN blocks[c].text ELSE Wording(p)
<1>4. st \in BlockStates /\ t \in Texts
  BY <1>1, <1>3 DEF Blocks, BlockStates, Texts
<1>5. Resolved(p) = [blocks[c] EXCEPT !.state = st, !.text = t]
  BY <1>1, <1>2, <1>3 DEF Resolved
<1>6. blocks[c].edited => blocks[c].state = "done"
  BY DEF ClipInv, BlocksWait, HasBlock, BlockIds
<1> HIDE DEF st, t
<1>7. /\ Resolved(p) \in Blocks
      /\ Resolved(p).seq = blocks[c].seq /\ Resolved(p).edited = blocks[c].edited
      /\ Resolved(p).state = st
  <2> DEFINE b == blocks[c]
             r == [b EXCEPT !.state = st, !.text = t]
  <2>1. b \in Blocks
    BY <1>1
  <2> HIDE DEF b
  <2>2. r \in Blocks /\ r.seq = b.seq /\ r.edited = b.edited /\ r.state = st
    BY <1>4, <2>1 DEF Blocks
  <2> QED BY <1>5, <2>2 DEF b
<1> QED BY <1>2, <1>3, <1>6, <1>7 DEF st

\* Every write leaves blocks.
LEMMA BlockTypes ==
    ASSUME ClipInv, [SessionNext]_vars
    PROVE  blocks' \in [BlockIds -> Blocks \cup {None}]
<1> ClipTypes /\ Numbered /\ Stages
  BY DEF ClipInv
<1>1. \A i \in BlockIds : HasBlock(i) => blocks[i] \in Blocks
  BY DEF ClipTypes, HasBlock
<1>2. ASSUME NEW c \in Clips, AppendCommit(c) \/ RetryClip(c) \/ RemoveClip(c)
      PROVE  blocks' \in [BlockIds -> Blocks \cup {None}]
  <2>1. c \in BlockIds
    BY DEF BlockIds
  <2> QED BY <1>1, <1>2, <2>1, PutBlock, NewBlocks, BlockColumns
          DEF AppendCommit, RetryClip, RemoveClip
<1>3. ASSUME NEW i \in BlockIds, EditBlock(i) \/ DeleteBlock(i)
      PROVE  blocks' \in [BlockIds -> Blocks \cup {None}]
  BY <1>1, <1>3, PutBlock, BlockColumns DEF EditBlock, DeleteBlock
<1>4. CASE Reorder
  <2> PICK order \in Orders : \E slot \in Seatings(order) : blocks' = Reseated(slot)
    BY <1>4 DEF Reorder
  <2> PICK slot \in Seatings(order) : blocks' = Reseated(slot)
    OBVIOUS
  <2>1. \A i \in FileBlocks : slot[i] \in FileBlocks
    BY DEF Seatings, Injection
  <2>2. \A i \in FileBlocks : blocks[slot[i]].seq \in Nat /\ blocks[i] \in Blocks
    BY <1>1, <2>1 DEF FileBlocks, Present, Blocks
  <2>3. \A i \in FileBlocks : [blocks[i] EXCEPT !.seq = blocks[slot[i]].seq] \in Blocks
    BY <2>2, BlockColumns
  <2> QED BY <2>3 DEF Reseated, ClipTypes
<1>5. CASE DeleteSession
  BY <1>5 DEF DeleteSession
<1>6. ASSUME NEW p \in Actors, ResolveWrite(p)
      PROVE  blocks' \in [BlockIds -> Blocks \cup {None}]
  <2> PICK c \in Clips : c = ClipOf(p)
    BY <1>6, ClipOfType DEF ResolveWrite
  <2>1. UNCHANGED blocks \/ (HasBlock(c) /\ Put(c, Resolved(p)))
    BY <1>6 DEF ResolveWrite, Resolved
  <2>2. HasBlock(c) => Resolved(p) \in Blocks
    BY <1>6, ResolvedBlock DEF ResolveWrite
  <2> QED BY <2>1, <2>2, PutBlock DEF BlockIds, ClipTypes
<1>7. ASSUME NEW s \in Sockets, Store(s)
      PROVE  blocks' \in [BlockIds -> Blocks \cup {None}]
  BY <1>7, NewBlocks DEF Store, Put, ClipTypes
<1>8. CASE UNCHANGED blocks
  BY <1>8 DEF ClipTypes
<1> QED BY <1>2, <1>3, <1>4, <1>5, <1>6, <1>7, <1>8, BlockWriters DEF BlockWrite

-----------------------------------------------------------------------------

\* Only a new block gets a new place, and only reorder changes one.
SeqKept(new) ==
    \A i \in BlockIds \ new :
        HasBlock(i)' => HasBlock(i) /\ blocks'[i].seq = blocks[i].seq

SeqMove ==
    \/ SeqKept({})
    \/ \E c \in Clips : AppendCommit(c) /\ SeqKept({c}) /\ blocks'[c].seq = NextSeq
    \/ \E s \in Sockets :
        LET i == <<s, answered[s] + 1>> IN
        Store(s) /\ i \in Mic /\ SeqKept({i}) /\ blocks'[i].seq = NextSeq
    \/ Reorder

\* Every step is one of these.
LEMMA SeqMoves ==
    ASSUME ClipInv, LiveInv, [SessionNext]_vars
    PROVE  SeqMove
<1> ClipTypes /\ Numbered /\ Stages
  BY DEF ClipInv
<1>1. \A i \in BlockIds : HasBlock(i) => blocks[i] \in Blocks
  BY DEF ClipTypes, HasBlock
<1>2. ASSUME NEW c \in Clips, AppendCommit(c) PROVE SeqMove
  <2>1. c \in BlockIds /\ PendingBlock \in Blocks /\ PendingBlock.seq = NextSeq
    BY NewBlocks DEF BlockIds, PendingBlock
  <2>2. Put(c, PendingBlock)
    BY <1>2 DEF AppendCommit
  <2>3. blocks'[c] = PendingBlock /\ \A j \in BlockIds : j # c => blocks'[j] = blocks[j]
    BY <2>1, <2>2, PutBlock
  <2>4. SeqKept({c}) /\ blocks'[c].seq = NextSeq
    BY <2>1, <2>3 DEF SeqKept, HasBlock
  <2> QED BY <1>2, <2>4 DEF SeqMove
<1>3. ASSUME NEW i \in BlockIds, NEW b \in Blocks \cup {None}, Put(i, b),
             b # None => HasBlock(i) /\ b.seq = blocks[i].seq
      PROVE  SeqMove
  <2>1. blocks'[i] = b /\ \A j \in BlockIds : j # i => blocks'[j] = blocks[j]
    BY <1>3, PutBlock
  <2>2. SeqKept({})
    BY <1>3, <2>1 DEF SeqKept, HasBlock
  <2> QED BY <2>2 DEF SeqMove
<1>4. ASSUME NEW c \in Clips, RetryClip(c) \/ RemoveClip(c) PROVE SeqMove
  <2>1. c \in BlockIds
    BY DEF BlockIds
  <2>2. CASE RetryClip(c)
    <3> DEFINE b == [blocks[c] EXCEPT !.state = "pending", !.text = ""]
    <3>1. HasBlock(c) /\ Put(c, b)
      BY <2>2 DEF RetryClip
    <3>2. b \in Blocks /\ b.seq = blocks[c].seq
      <4>1. blocks[c] \in Blocks
        BY <1>1, <2>1, <3>1
      <4> QED BY <4>1, BlockColumns DEF Blocks
    <3> HIDE DEF b
    <3> QED BY <1>3, <2>1, <3>1, <3>2
  <2>3. CASE RemoveClip(c)
    BY <1>3, <2>1, <2>3 DEF RemoveClip
  <2> QED BY <1>4, <2>2, <2>3
<1>5. ASSUME NEW i \in BlockIds, EditBlock(i) \/ DeleteBlock(i) PROVE SeqMove
  <2>1. CASE EditBlock(i)
    <3> DEFINE b == [blocks[i] EXCEPT !.text = "user", !.edited = TRUE]
    <3>1. HasBlock(i) /\ Put(i, b)
      BY <2>1 DEF EditBlock
    <3>2. b \in Blocks /\ b.seq = blocks[i].seq
      <4>1. blocks[i] \in Blocks
        BY <1>1, <3>1
      <4> QED BY <4>1, BlockColumns DEF Blocks
    <3> HIDE DEF b
    <3> QED BY <1>3, <3>1, <3>2
  <2>2. CASE DeleteBlock(i)
    BY <1>3, <2>2 DEF DeleteBlock
  <2> QED BY <1>5, <2>1, <2>2
<1>6. CASE DeleteSession
  BY <1>6 DEF DeleteSession, SeqMove, SeqKept, HasBlock
<1>7. ASSUME NEW p \in Actors, ResolveWrite(p) PROVE SeqMove
  <2> PICK c \in Clips : c = ClipOf(p)
    BY <1>7, ClipOfType DEF ResolveWrite
  <2>1. UNCHANGED blocks \/ (HasBlock(c) /\ Put(c, Resolved(p)))
    BY <1>7 DEF ResolveWrite, Resolved
  <2>2. HasBlock(c) => Resolved(p) \in Blocks /\ Resolved(p).seq = blocks[c].seq
    BY <1>7, ResolvedBlock DEF ResolveWrite
  <2>3. CASE UNCHANGED blocks
    BY <2>3 DEF SeqMove, SeqKept, HasBlock
  <2> QED BY <1>3, <2>1, <2>2, <2>3 DEF BlockIds
<1>8. ASSUME NEW s \in Sockets, Store(s), session = "open" PROVE SeqMove
  <2> PICK i \in Mic : i = <<s, answered[s] + 1>>
    <3>1. answered[s] < sent[s] /\ answered[s] \in 0 .. Utterances /\ sent[s] \in 0 .. Utterances
      BY <1>8 DEF Store, LiveInv, LiveTypes, Counted
    <3>2. answered[s] + 1 \in 1 .. Utterances
      BY <3>1, SessionAssumption
    <3> QED BY <3>2 DEF Mic
  <2>1. i \in BlockIds /\ MicBlock \in Blocks /\ MicBlock.seq = NextSeq
    BY NewBlocks DEF BlockIds, MicBlock
  <2>2. Put(i, MicBlock)
    BY <1>8 DEF Store
  <2>3. blocks'[i] = MicBlock /\ \A j \in BlockIds : j # i => blocks'[j] = blocks[j]
    BY <2>1, <2>2, PutBlock
  <2>4. SeqKept({i}) /\ blocks'[i].seq = NextSeq
    BY <2>1, <2>3 DEF SeqKept, HasBlock
  <2> QED BY <1>8, <2>4 DEF SeqMove
<1>9. CASE UNCHANGED blocks
  BY <1>9 DEF SeqMove, SeqKept, HasBlock
<1>10. CASE Reorder
  BY <1>10 DEF SeqMove
<1> QED BY <1>2, <1>4, <1>5, <1>6, <1>7, <1>8, <1>9, <1>10, BlockWriters DEF BlockWrite

\* Likewise for the clips.
PositionMove ==
    \/ /\ position' \in [Clips -> Nat]
       /\ \A c \in Clips : position'[c] \in {position[c], 0}
       /\ \A c \in Clips : HasBlock(c)' => position'[c] = position[c]
       /\ \A c \in Clips : position'[c] # position[c] => RemoveClip(c) \/ DeleteSession
    \/ \E c \in Clips : AppendCommit(c) /\ position' = [position EXCEPT ![c] = NextPosition]
    \/ \E order \in Orders :
        Reorder /\ position' = [c \in Clips |-> IF c \in Rows THEN order[c] ELSE 0]

\* Every step is one of these, for the positions.
LEMMA PositionMoves ==
    ASSUME ClipTypes, [SessionNext]_vars
    PROVE  PositionMove
<1>1. ASSUME UNCHANGED position PROVE PositionMove
  BY <1>1 DEF PositionMove, ClipTypes
<1>2. ASSUME NEW c \in Clips, AppendCommit(c) PROVE PositionMove
  BY <1>2 DEF AppendCommit, PositionMove
<1>3. ASSUME NEW c \in Clips, RemoveClip(c) PROVE PositionMove
  BY <1>3 DEF RemoveClip, Put, PositionMove, ClipTypes, HasBlock, BlockIds
<1>4. CASE DeleteSession
  BY <1>4 DEF DeleteSession, PositionMove, ClipTypes, HasBlock, BlockIds
<1>5. CASE Reorder
  BY <1>5 DEF Reorder, PositionMove
<1> QED
  BY <1>1, <1>2, <1>3, <1>4, <1>5
  DEF SessionNext, PageStep, HandlerStep, UploadStep, WorkerStep, BrowserStep, LinkStep,
      ServerStep, AppendStart, AppendRefused, ClipQueued, ClipNotQueued, RetryClip,
      RemoveFile, EditBlock, DeleteBlock, CloseLive, CloseClips, PipelineDropsFile,
      PipelineSaves, Reopen, TakeClip, FetchClip, DecodeClip, ResolveRead, ResolveWrite,
      Connect, Ship, FinishTalking, LeaveSocket, HearAnswer, HearEnd, TurnAway, Receive,
      Acquire, DecodedText, DecodedNothing, Recheck, Store, ServerFinish, ServerSeesEnd,
      Revoke, vars, clipVars

\* What reorder knows of the positions it is given.
LEMMA OrderFacts ==
    ASSUME ClipTypes, Numbered, NEW order \in Orders
    PROVE  /\ Cardinality(Rows) \in Nat
           /\ \A c \in Rows : order[c] \in 1 .. Cardinality(Rows)
           /\ \A c, d \in Rows : order[c] = order[d] => c = d
  BY FS_CardinalityType DEF Numbered, Orders, Injection, IsInjective

\* The numbers given out stay finite, and positions numbers.
LEMMA NumberSteps ==
    ASSUME ClipInv, LiveInv, [SessionNext]_vars
    PROVE  Numbered' /\ position' \in [Clips -> Nat]
<1> ClipTypes /\ Numbered
  BY DEF ClipInv
<1>1. blocks' \in [BlockIds -> Blocks \cup {None}]
  BY BlockTypes
<1>2. /\ position' \in [Clips -> Nat] /\ IsFiniteSet(Rows')
      /\ \E n \in Nat : \A c \in Rows' : position'[c] <= n
  <2>1. PICK n \in Nat : \A c \in Rows : position[c] <= n
    BY DEF Numbered
  <2>2. CASE /\ position' \in [Clips -> Nat]
             /\ \A c \in Clips : position'[c] \in {position[c], 0}
    <3>1. Rows' \subseteq Rows
      <4>1. \A c \in Clips : position'[c] # 0 => position[c] # 0
        BY <2>2
      <4> QED BY <4>1 DEF Rows, HasClip
    <3>2. IsFiniteSet(Rows')
      BY <3>1, FS_Subset DEF Numbered
    <3>3. \A c \in Rows' : position'[c] <= n
      <4> SUFFICES ASSUME NEW c \in Rows' PROVE position'[c] <= n
        OBVIOUS
      <4>1. c \in Clips /\ c \in Rows
        BY <3>1 DEF Rows
      <4> QED BY <2>1, <2>2, <4>1
    <3> QED BY <2>2, <3>2, <3>3
  <2>3. ASSUME NEW c \in Clips, position' = [position EXCEPT ![c] = NextPosition]
        PROVE  /\ position' \in [Clips -> Nat] /\ IsFiniteSet(Rows')
               /\ \E m \in Nat : \A d \in Rows' : position'[d] <= m
    <3>1. NextPosition \in Nat /\ \A d \in Rows : position[d] < NextPosition
      BY NextPositionIsLast
    <3>2. position' \in [Clips -> Nat] /\ Rows' \subseteq Rows \cup {c}
      BY <2>3, <3>1 DEF Rows, HasClip, ClipTypes
    <3>3. IsFiniteSet(Rows')
      <4>1. IsFiniteSet(Rows \cup {c})
        BY FS_AddElement DEF Numbered
      <4> QED BY <3>2, <4>1, FS_Subset
    <3>4. \A d \in Rows' : position'[d] <= NextPosition
      <4> SUFFICES ASSUME NEW d \in Rows' PROVE position'[d] <= NextPosition
        OBVIOUS
      <4>1. CASE d = c
        BY <2>3, <3>1, <4>1 DEF ClipTypes
      <4>2. CASE d # c
        <5>1. d \in Rows /\ position'[d] = position[d] /\ position[d] \in Nat
          BY <2>3, <3>2, <4>2 DEF ClipTypes, Rows
        <5> QED BY <3>1, <5>1
      <4> QED BY <4>1, <4>2
    <3> QED BY <3>1, <3>2, <3>3, <3>4
  <2>4. ASSUME NEW order \in Orders,
               position' = [c \in Clips |-> IF c \in Rows THEN order[c] ELSE 0]
        PROVE  /\ position' \in [Clips -> Nat] /\ IsFiniteSet(Rows')
               /\ \E m \in Nat : \A d \in Rows' : position'[d] <= m
    <3>1. /\ Cardinality(Rows) \in Nat
          /\ \A c \in Rows : order[c] \in 1 .. Cardinality(Rows)
      BY OrderFacts
    <3>2. position' \in [Clips -> Nat] /\ Rows' \subseteq Rows
      BY <2>4, <3>1 DEF Rows, HasClip
    <3>3. IsFiniteSet(Rows')
      BY <3>2, FS_Subset DEF Numbered
    <3>4. \A c \in Rows' : position'[c] <= Cardinality(Rows)
      BY <2>4, <3>1, <3>2 DEF Rows
    <3> QED BY <3>1, <3>2, <3>3, <3>4
  <2> QED BY <2>2, <2>3, <2>4, PositionMoves DEF PositionMove
<1>3. \E n \in Nat : \A i \in Present' : blocks'[i].seq <= n
  <2>1. NextSeq \in Nat /\ \A i \in Present : blocks[i].seq < NextSeq
    BY NextSeqIsLast
  <2>2. \A i \in Present : blocks[i].seq \in Nat
    BY DEF Present, HasBlock, ClipTypes, Blocks
  <2>3. ASSUME NEW new \in SUBSET BlockIds, SeqKept(new),
               \A i \in new : blocks'[i].seq = NextSeq
        PROVE  \A i \in Present' : blocks'[i].seq <= NextSeq
    BY <2>1, <2>2, <2>3 DEF SeqKept, Present, HasBlock
  <2>4. CASE Reorder
    <3> PICK order \in Orders : \E slot \in Seatings(order) : blocks' = Reseated(slot)
      BY <2>4 DEF Reorder
    <3> PICK slot \in Seatings(order) : blocks' = Reseated(slot)
      OBVIOUS
    <3>1. \A i \in FileBlocks : slot[i] \in FileBlocks
      BY DEF Seatings, Injection
    <3>2. \A i \in Present' : i \in Present /\ \E j \in Present : blocks'[i].seq = blocks[j].seq
      <4> SUFFICES ASSUME NEW i \in Present'
                   PROVE  i \in Present /\ \E j \in Present : blocks'[i].seq = blocks[j].seq
        OBVIOUS
      <4>1. CASE i \in FileBlocks
        <5>1. i \in Present /\ blocks[i] \in Blocks /\ slot[i] \in Present
          BY <3>1, <4>1 DEF FileBlocks, Present, HasBlock, ClipTypes
        <5>2. blocks'[i].seq = blocks[slot[i]].seq
          <6> DEFINE n == blocks[slot[i]].seq
          <6>1. blocks'[i] = [blocks[i] EXCEPT !.seq = n]
            BY <4>1, <5>1 DEF Reseated, Present
          <6> HIDE DEF n
          <6>2. [blocks[i] EXCEPT !.seq = n].seq = n
            BY <5>1 DEF Blocks
          <6> QED BY <6>1, <6>2 DEF n
        <5> QED BY <5>1, <5>2
      <4>2. CASE i \notin FileBlocks
        BY <4>2 DEF Reseated, Present, HasBlock
      <4> QED BY <4>1, <4>2
    <3>3. \A i \in Present' : blocks'[i].seq <= NextSeq
      <4> SUFFICES ASSUME NEW i \in Present' PROVE blocks'[i].seq <= NextSeq
        OBVIOUS
      <4>1. PICK j \in Present : blocks'[i].seq = blocks[j].seq
        BY <3>2
      <4>2. blocks[j].seq \in Nat /\ blocks[j].seq < NextSeq
        BY <2>1, <2>2
      <4> QED BY <2>1, <4>1, <4>2
    <3> QED BY <2>1, <3>3
  <2>5. CASE SeqKept({})
    BY <2>1, <2>3, <2>5
  <2>6. ASSUME NEW i \in BlockIds, SeqKept({i}), blocks'[i].seq = NextSeq
        PROVE  \E n \in Nat : \A j \in Present' : blocks'[j].seq <= n
    BY <2>1, <2>3, <2>6
  <2> QED BY <2>4, <2>5, <2>6, SeqMoves DEF SeqMove, BlockIds
<1> QED BY <1>2, <1>3 DEF Numbered

-----------------------------------------------------------------------------

\* What can happen to the state, the text and the mark of a block that is there
\* afterwards.
StateMove(i) ==
    \/ /\ HasBlock(i) /\ blocks'[i].state = blocks[i].state
       /\ blocks'[i].text = blocks[i].text /\ blocks'[i].edited = blocks[i].edited
    \/ /\ i \in Clips /\ AppendCommit(i)
       /\ blocks'[i].state = "pending" /\ ~blocks'[i].edited
    \/ /\ i \in Clips /\ RetryClip(i) /\ HasBlock(i) /\ blocks[i].state = "failed"
       /\ blocks'[i].state = "pending" /\ blocks'[i].edited = blocks[i].edited
    \/ /\ EditBlock(i) /\ HasBlock(i) /\ blocks[i].state = "done"
       /\ blocks'[i].state = "done" /\ blocks'[i].text = "user" /\ blocks'[i].edited
    \/ /\ i \in Clips /\ \E p \in Actors : ResolveWrite(p) /\ ClipOf(p) = i
       /\ HasBlock(i) /\ blocks'[i].state \in {"done", "failed"}
       /\ ~blocks[i].edited /\ ~blocks'[i].edited
    \/ /\ i \in Mic /\ (\E s \in Sockets : Store(s) /\ i = <<s, answered[s] + 1>>)
       /\ ~blocks'[i].edited

\* Every step is one of these, for each block.
LEMMA StateMoves ==
    ASSUME ClipInv, LiveInv, [SessionNext]_vars, NEW i \in BlockIds, HasBlock(i)'
    PROVE  StateMove(i)
<1> ClipTypes /\ Numbered /\ Stages
  BY DEF ClipInv
<1>0. HasBlock(i) => blocks[i] \in Blocks
  BY DEF ClipTypes, HasBlock
<1>1. ASSUME blocks'[i] = blocks[i] PROVE StateMove(i)
  BY <1>1 DEF StateMove, HasBlock
<1>2. ASSUME NEW j \in BlockIds, NEW b \in Blocks \cup {None}, Put(j, b)
      PROVE  blocks'[i] = IF i = j THEN b ELSE blocks[i]
  BY <1>2, PutBlock
<1>3. ASSUME NEW c \in Clips, AppendCommit(c) PROVE StateMove(i)
  <2>1. c \in BlockIds /\ PendingBlock \in Blocks /\ Put(c, PendingBlock)
    BY <1>3, NewBlocks DEF BlockIds, AppendCommit
  <2>2. blocks'[i] = IF i = c THEN PendingBlock ELSE blocks[i]
    BY <2>1, <1>2
  <2>3. PendingBlock.state = "pending" /\ ~PendingBlock.edited
    BY DEF PendingBlock
  <2> QED BY <1>1, <1>3, <2>2, <2>3 DEF StateMove
<1>4. ASSUME NEW c \in Clips, RetryClip(c) PROVE StateMove(i)
  <2> DEFINE b == [blocks[c] EXCEPT !.state = "pending", !.text = ""]
  <2>1. c \in BlockIds /\ HasBlock(c) /\ blocks[c].state = "failed" /\ Put(c, b)
    BY <1>4 DEF RetryClip, BlockIds
  <2>2. blocks[c] \in Blocks
    BY <2>1 DEF ClipTypes, HasBlock
  <2>3. b \in Blocks /\ b.state = "pending" /\ b.edited = blocks[c].edited
    BY <2>2, BlockColumns DEF Blocks
  <2> HIDE DEF b
  <2>4. blocks'[i] = IF i = c THEN b ELSE blocks[i]
    BY <2>1, <2>3, <1>2
  <2> QED BY <1>1, <1>4, <2>1, <2>3, <2>4 DEF StateMove
<1>5. ASSUME NEW c \in Clips, RemoveClip(c) PROVE StateMove(i)
  <2>1. c \in BlockIds /\ Put(c, None)
    BY <1>5 DEF RemoveClip, BlockIds
  <2> QED BY <1>1, <1>2, <2>1 DEF HasBlock
<1>6. ASSUME NEW j \in BlockIds, EditBlock(j) PROVE StateMove(i)
  <2> DEFINE b == [blocks[j] EXCEPT !.text = "user", !.edited = TRUE]
  <2>1. HasBlock(j) /\ blocks[j].state = "done" /\ Put(j, b)
    BY <1>6 DEF EditBlock
  <2>2. blocks[j] \in Blocks
    BY <2>1 DEF ClipTypes, HasBlock
  <2>3. b \in Blocks /\ b.state = blocks[j].state /\ b.text = "user" /\ b.edited
    BY <2>2, BlockColumns DEF Blocks
  <2> HIDE DEF b
  <2>4. blocks'[i] = IF i = j THEN b ELSE blocks[i]
    BY <2>1, <2>3, <1>2
  <2> QED BY <1>1, <1>6, <2>1, <2>3, <2>4 DEF StateMove
<1>7. ASSUME NEW j \in BlockIds, DeleteBlock(j) PROVE StateMove(i)
  BY <1>1, <1>2, <1>7 DEF DeleteBlock, HasBlock
<1>8. CASE Reorder
  <2> PICK order \in Orders : \E slot \in Seatings(order) : blocks' = Reseated(slot)
    BY <1>8 DEF Reorder
  <2> PICK slot \in Seatings(order) : blocks' = Reseated(slot)
    OBVIOUS
  <2>1. CASE i \in FileBlocks
    <3> DEFINE n == blocks[slot[i]].seq
    <3>1. blocks'[i] = [blocks[i] EXCEPT !.seq = n] /\ HasBlock(i)
      BY <2>1 DEF Reseated, FileBlocks, Present
    <3> HIDE DEF n
    <3>2. LET b == [blocks[i] EXCEPT !.seq = n] IN
          b.state = blocks[i].state /\ b.text = blocks[i].text /\ b.edited = blocks[i].edited
      BY <1>0, <3>1 DEF Blocks
    <3> QED BY <3>1, <3>2 DEF StateMove
  <2>2. CASE i \notin FileBlocks
    BY <1>1, <2>2 DEF Reseated
  <2> QED BY <2>1, <2>2
<1>9. CASE DeleteSession
  BY <1>9 DEF DeleteSession, HasBlock
<1>10. ASSUME NEW p \in Actors, ResolveWrite(p) PROVE StateMove(i)
  <2> PICK c \in Clips : c = ClipOf(p)
    BY <1>10, ClipOfType DEF ResolveWrite
  <2>1. UNCHANGED blocks \/ (HasBlock(c) /\ Put(c, Resolved(p)))
    BY <1>10 DEF ResolveWrite, Resolved
  <2>2. HasBlock(c) => /\ Resolved(p) \in Blocks
                       /\ Resolved(p).state \in {"done", "failed"}
                       /\ Resolved(p).edited = blocks[c].edited /\ ~blocks[c].edited
    BY <1>10, ResolvedBlock DEF ResolveWrite
  <2>3. CASE HasBlock(c) /\ Put(c, Resolved(p))
    <3>1. blocks'[i] = IF i = c THEN Resolved(p) ELSE blocks[i]
      BY <1>2, <2>2, <2>3 DEF BlockIds
    <3> QED BY <1>1, <1>10, <2>2, <2>3, <3>1 DEF StateMove
  <2> QED BY <1>1, <2>1, <2>3
<1>11. ASSUME NEW s \in Sockets, Store(s), session = "open" PROVE StateMove(i)
  <2> DEFINE j == <<s, answered[s] + 1>>
  <2>1. blocks' = [blocks EXCEPT ![j] = MicBlock]
    BY <1>11 DEF Store, Put
  <2>2. CASE i = j
    <3>1. i \in Mic
      <4>1. answered[s] < sent[s] /\ answered[s] \in 0 .. Utterances /\ sent[s] \in 0 .. Utterances
        BY <1>11 DEF Store, LiveInv, LiveTypes, Counted
      <4>2. answered[s] + 1 \in 1 .. Utterances
        BY <4>1, SessionAssumption
      <4> QED BY <2>2, <4>2 DEF Mic
    <3>2. ~blocks'[i].edited
      BY <2>1, <2>2 DEF MicBlock, ClipTypes
    <3> QED BY <1>11, <2>2, <3>1, <3>2 DEF StateMove
  <2>3. CASE i # j
    <3>1. blocks'[i] = blocks[i]
      BY <2>1, <2>3 DEF ClipTypes
    <3> QED BY <1>1, <3>1
  <2> QED BY <2>2, <2>3
<1>12. CASE UNCHANGED blocks
  BY <1>1, <1>12
<1> QED
  BY <1>3, <1>4, <1>5, <1>6, <1>7, <1>8, <1>9, <1>10, <1>11, <1>12, BlockWriters
  DEF BlockWrite

-----------------------------------------------------------------------------

\* What one request or worker does next.
ActorStep(p) ==
    \/ \E c \in Clips :
        \/ p = <<"append", c>> /\ (AppendStart(c) \/ AppendCommit(c) \/ AppendRefused(c))
        \/ p = <<"retry", c>> /\ RetryClip(c)
        \/ p = <<"remove", c>> /\ (RemoveClip(c) \/ RemoveFile(c))
    \/ p \in Handlers /\ (ClipQueued(p) \/ ClipNotQueued(p))
    \/ p \in Workers /\ (FetchClip(p) \/ DecodeClip(p) \/ \E c \in Clips : TakeClip(p, c))
    \/ ResolveRead(p) \/ ResolveWrite(p)

handVars == <<entries, pc, clipOf, decoded, saw>>

\* Whoever else moves leaves the attempts alone.
LEMMA ActorSteps == [SessionNext]_vars => UNCHANGED handVars \/ \E p \in Actors : ActorStep(p)
<1> SUFFICES ASSUME [SessionNext]_vars PROVE UNCHANGED handVars \/ \E p \in Actors : ActorStep(p)
  OBVIOUS
<1>1. ASSUME NEW c \in Clips, AppendStart(c) \/ RetryClip(c) \/ RemoveClip(c) \/ UploadStep(c)
      PROVE  \E p \in Actors : ActorStep(p)
  <2>1. {<<"append", c>>, <<"retry", c>>, <<"remove", c>>} \subseteq Actors
    BY DEF Actors, Handlers
  <2> QED BY <1>1, <2>1 DEF UploadStep, ActorStep
<1>2. ASSUME NEW h \in Handlers, HandlerStep(h) PROVE \E p \in Actors : ActorStep(p)
  BY <1>2 DEF HandlerStep, ActorStep, Actors
<1>3. ASSUME NEW w \in Workers, WorkerStep(w) \/ \E c \in Clips : TakeClip(w, c)
      PROVE  \E p \in Actors : ActorStep(p)
  BY <1>3 DEF WorkerStep, ActorStep, Actors
<1>4. CASE UNCHANGED vars
  BY <1>4 DEF vars, clipVars, handVars
<1>5. CASE \/ \E i \in BlockIds : EditBlock(i) \/ DeleteBlock(i)
           \/ Reorder \/ CloseLive \/ CloseClips \/ PipelineSaves \/ Reopen
           \/ DeleteSession \/ Revoke \/ \E c \in Clips : PipelineDropsFile(c)
  BY <1>5 DEF EditBlock, DeleteBlock, Reorder, CloseLive, CloseClips, PipelineDropsFile,
              PipelineSaves, Reopen, DeleteSession, Revoke, clipVars, handVars
<1>6. ASSUME NEW s \in Sockets,
             BrowserStep(s) \/ LinkStep(s) \/ ServerStep(s) \/ Acquire(s)
      PROVE  UNCHANGED handVars
  BY <1>6
  DEF BrowserStep, LinkStep, ServerStep, Connect, Ship, FinishTalking, LeaveSocket,
      HearAnswer, HearEnd, TurnAway, Receive, Acquire, DecodedText, DecodedNothing,
      Recheck, Store, ServerFinish, ServerSeesEnd, clipVars, handVars
<1> QED BY <1>1, <1>2, <1>3, <1>4, <1>5, <1>6 DEF SessionNext, PageStep

\* A step of one actor leaves the others where they are.
Alone(p) ==
    /\ \A q \in Actors : q # p => pc'[q] = pc[q] /\ saw'[q] = saw[q]
    /\ \A w \in Workers : w # p => clipOf'[w] = clipOf[w]

HandTypes ==
    /\ pc \in [Actors -> ActorPcs]
    /\ clipOf \in [Workers -> Clips \cup {None}] /\ decoded \in [Workers -> BOOLEAN]
    /\ saw \in [Actors -> Blocks \cup {None}]

\* The step keeps the types.
LEMMA ActorMoves ==
    ASSUME ClipInv, NEW p \in Actors, ActorStep(p)
    PROVE  Alone(p) /\ HandTypes'
<1> ClipTypes /\ Stages
  BY DEF ClipInv
<1> USE DEF ClipTypes, Alone, HandTypes, ActorPcs, Goto
<1>1. ASSUME NEW c \in Clips, p = <<"append", c>>,
             AppendStart(c) \/ AppendCommit(c) \/ AppendRefused(c)
      PROVE  Alone(p) /\ HandTypes'
  BY <1>1 DEF AppendStart, AppendCommit, AppendRefused
<1>2. ASSUME NEW c \in Clips, p = <<"retry", c>>, RetryClip(c)
      PROVE  Alone(p) /\ HandTypes'
  BY <1>2 DEF RetryClip
<1>3. ASSUME NEW c \in Clips, p = <<"remove", c>>, RemoveClip(c) \/ RemoveFile(c)
      PROVE  Alone(p) /\ HandTypes'
  BY <1>3 DEF RemoveClip, RemoveFile
<1>4. CASE p \in Handlers /\ (ClipQueued(p) \/ ClipNotQueued(p))
  BY <1>4 DEF ClipQueued, ClipNotQueued, Rest
<1>5. ASSUME NEW c \in Clips, p \in Workers, TakeClip(p, c)
      PROVE  Alone(p) /\ HandTypes'
  BY <1>5 DEF TakeClip
<1>6. CASE p \in Workers /\ DecodeClip(p)
  BY <1>6 DEF DecodeClip
<1>7. ASSUME Finish(p) PROVE Alone(p) /\ HandTypes'
  BY <1>7 DEF Finish, LetGo, Rest
<1>8. CASE p \in Workers /\ FetchClip(p)
  BY <1>7, <1>8 DEF FetchClip
<1>9. CASE ResolveRead(p)
  <2>1. CASE Finish(p)
    BY <1>7, <2>1
  <2>2. CASE ~Finish(p)
    <3> PICK c \in Clips : c = ClipOf(p)
      BY <1>9, ClipOfType DEF ResolveRead
    <3>1. blocks[c] \in Blocks \cup {None}
      BY DEF BlockIds
    <3> QED BY <1>9, <2>2, <3>1 DEF ResolveRead
  <2> QED BY <2>1, <2>2
<1>10. CASE ResolveWrite(p)
  BY <1>7, <1>10 DEF ResolveWrite
<1> QED BY <1>1, <1>2, <1>3, <1>4, <1>5, <1>6, <1>8, <1>9, <1>10 DEF ActorStep

\* The stages follow each other in their order.
LEMMA StageSteps ==
    ASSUME ClipInv, NEW p \in Actors, ActorStep(p)
    PROVE  Stages'
<1> ClipTypes /\ Stages
  BY DEF ClipInv
<1>0. Alone(p) /\ HandTypes'
  BY ActorMoves
<1> USE DEF ClipTypes, Stages, Goto
<1>1. ASSUME NEW c \in Clips, p = <<"append", c>>,
             AppendStart(c) \/ AppendCommit(c) \/ AppendRefused(c)
      PROVE  Stages'
  <2>1. PICK where \in {"upload", "enqueue", "gone"} : pc' = [pc EXCEPT ![p] = where]
    BY <1>1 DEF AppendStart, AppendCommit, AppendRefused
  <2>2. UNCHANGED clipOf
    BY <1>1 DEF AppendStart, AppendCommit, AppendRefused
  <2> QED BY <1>1, <2>1, <2>2, SessionAssumption DEF Actors, Handlers
<1>2. ASSUME NEW c \in Clips, p = <<"retry", c>>, RetryClip(c)
      PROVE  Stages'
  BY <1>2, SessionAssumption DEF RetryClip, Actors, Handlers
<1>3. ASSUME NEW c \in Clips, p = <<"remove", c>>, RemoveClip(c) \/ RemoveFile(c)
      PROVE  Stages'
  <2>1. PICK where \in {"unlink", "idle"} : pc' = [pc EXCEPT ![p] = where]
    BY <1>3 DEF RemoveClip, RemoveFile
  <2>2. UNCHANGED clipOf
    BY <1>3 DEF RemoveClip, RemoveFile
  <2> QED BY <1>3, <2>1, <2>2, SessionAssumption DEF Actors, Handlers
<1>4. CASE p \in Handlers /\ (ClipQueued(p) \/ ClipNotQueued(p))
  BY <1>4, SessionAssumption DEF ClipQueued, ClipNotQueued, Rest, Actors, Handlers
<1>5. ASSUME NEW c \in Clips, p \in Workers, TakeClip(p, c)
      PROVE  Stages'
  BY <1>5, SessionAssumption DEF TakeClip, Actors, Handlers
<1>6. CASE p \in Workers /\ DecodeClip(p)
  BY <1>6, SessionAssumption DEF DecodeClip, Actors, Handlers
<1>7. ASSUME Finish(p), pc[p] \in {"fetch", "read", "write"} PROVE Stages'
  BY <1>7, SessionAssumption DEF Finish, LetGo, Rest, Actors, Handlers
<1>8. CASE p \in Workers /\ FetchClip(p)
  <2>1. CASE Finish(p)
    BY <1>7, <1>8, <2>1 DEF FetchClip
  <2>2. CASE ~Finish(p)
    <3>1. pc' = [pc EXCEPT ![p] = "decode"] /\ UNCHANGED clipOf
      BY <1>8, <2>2 DEF FetchClip
    <3> QED BY <1>8, <3>1, SessionAssumption DEF FetchClip, Actors, Handlers
  <2> QED BY <2>1, <2>2
<1>9. CASE ResolveRead(p)
  <2>1. CASE Finish(p)
    BY <1>7, <1>9, <2>1 DEF ResolveRead
  <2>2. CASE ~Finish(p)
    BY <1>9, <2>2, SessionAssumption DEF ResolveRead, Actors, Handlers
  <2> QED BY <2>1, <2>2
<1>10. CASE ResolveWrite(p)
  BY <1>7, <1>10 DEF ResolveWrite
<1> QED BY <1>1, <1>2, <1>3, <1>4, <1>5, <1>6, <1>8, <1>9, <1>10 DEF ActorStep

\* The block of clip c is awaited.
Waits(c) == HasBlock(c) /\ blocks[c].state = "pending"

\* A step of actor p, as the attempts see it: p goes on, takes up a clip, hands
\* one to the queue, gets one from it, or lets go of one nobody waits for.
HandStep(p) ==
    \/ UNCHANGED entries /\ \A d \in Clips : InHand(p, d)' <=> InHand(p, d)
    \/ \E c \in Clips :
        /\ \/ UNCHANGED entries /\ AppendCommit(c) /\ p = <<"append", c>>
           \/ UNCHANGED entries /\ RetryClip(c)
           \/ entries[c] > 0 /\ entries' = [entries EXCEPT ![c] = @ - 1]
        /\ \A d \in Clips : ~InHand(p, d) /\ (InHand(p, d)' <=> d = c)
    \/ \E c \in Clips :
        /\ \/ entries' = [entries EXCEPT ![c] = @ + 1]
           \/ UNCHANGED entries /\ ~Waits(c)'
        /\ InHand(p, c) /\ \A d \in Clips : ~InHand(p, d)'

\* Every step of an actor is one of these.
LEMMA HandSteps ==
    ASSUME ClipInv, NEW p \in Actors, ActorStep(p)
    PROVE  HandStep(p)
<1> ClipTypes /\ Stages
  BY DEF ClipInv
<1>0. Alone(p) /\ HandTypes' /\ Stages'
  BY ActorMoves, StageSteps
<1> USE DEF ClipTypes, Stages, HandStep, InHand, Goto
<1>1. ASSUME NEW c \in Clips, p = <<"append", c>>,
             AppendStart(c) \/ AppendCommit(c) \/ AppendRefused(c)
      PROVE  HandStep(p)
  BY <1>1 DEF AppendStart, AppendCommit, AppendRefused, ClipOf, Handlers
<1>2. ASSUME NEW c \in Clips, p = <<"retry", c>>, RetryClip(c)
      PROVE  HandStep(p)
  BY <1>2 DEF RetryClip, ClipOf, Handlers
<1>3. ASSUME NEW c \in Clips, p = <<"remove", c>>, RemoveClip(c) \/ RemoveFile(c)
      PROVE  HandStep(p)
  BY <1>0, <1>3 DEF RemoveClip, RemoveFile
<1>4. CASE p \in Handlers /\ ClipQueued(p)
  <2> PICK c \in Clips : c = p[2] /\ ClipOf(p) = c /\ ClipOf(p)' = c
    BY <1>4 DEF ClipOf, Handlers
  <2> QED BY <1>4 DEF ClipQueued, Rest
<1>5. CASE p \in Handlers /\ ClipNotQueued(p)
  BY <1>5 DEF ClipNotQueued, ClipOf
<1>6. ASSUME NEW c \in Clips, p \in Workers, TakeClip(p, c)
      PROVE  HandStep(p)
  BY <1>6, SessionAssumption DEF TakeClip, ClipOf
<1>7. CASE p \in Workers /\ DecodeClip(p)
  BY <1>7 DEF DecodeClip, ClipOf
<1>8. ASSUME Finish(p), UNCHANGED entries, NEW c \in Clips, InHand(p, c), ~Waits(c)'
      PROVE  HandStep(p)
  BY <1>8 DEF Finish, Rest
<1>9. CASE p \in Workers /\ FetchClip(p)
  <2>1. CASE HasClip(clipOf[p])
    BY <1>9, <2>1 DEF FetchClip, ClipOf
  <2>2. CASE ~HasClip(clipOf[p])
    <3> PICK c \in Clips : c = clipOf[p] /\ ClipOf(p) = c
      BY <1>9, SessionAssumption DEF FetchClip, ClipOf
    <3>1. ~Waits(c)'
      BY <1>9, <2>2 DEF FetchClip, ClipInv, BlocksWait, Waits, HasBlock
    <3> QED BY <1>8, <1>9, <2>2, <3>1 DEF FetchClip
  <2> QED BY <2>1, <2>2
<1>10. CASE ResolveRead(p)
  <2> PICK c \in Clips : c = ClipOf(p)
    BY <1>10, ClipOfType DEF ResolveRead
  <2>1. CASE blocks[c] = None \/ blocks[c].edited
    <3>1. ~Waits(c)'
      BY <1>10, <2>1 DEF ResolveRead, ClipInv, BlocksWait, Waits, HasBlock, BlockIds
    <3> QED BY <1>8, <1>10, <2>1, <3>1 DEF ResolveRead
  <2>2. CASE ~(blocks[c] = None \/ blocks[c].edited)
    BY <1>10, <2>2 DEF ResolveRead, ClipOf
  <2> QED BY <2>1, <2>2
<1>11. CASE ResolveWrite(p)
  <2> PICK c \in Clips : c = ClipOf(p)
    BY <1>11, ClipOfType DEF ResolveWrite
  <2>1. UNCHANGED blocks \/ (HasBlock(c) /\ Put(c, Resolved(p)))
    BY <1>11 DEF ResolveWrite, Resolved
  <2>2. HasBlock(c) => Resolved(p) \in Blocks /\ Resolved(p).state \in {"done", "failed"}
    BY <1>11, ResolvedBlock DEF ResolveWrite
  <2>3. HasBlock(c) => Put(c, Resolved(p))
    BY <1>11 DEF ResolveWrite, Resolved
  <2>4. ~Waits(c)'
    BY <2>1, <2>2, <2>3, PutBlock DEF Waits, HasBlock, BlockIds
  <2> QED BY <1>8, <1>11, <2>4 DEF ResolveWrite
<1> QED BY <1>1, <1>2, <1>3, <1>4, <1>5, <1>6, <1>7, <1>9, <1>10, <1>11 DEF ActorStep

\* One actor's step leaves what the others have in hand.
LEMMA OtherHands ==
    ASSUME NEW p \in Actors, Alone(p), NEW q \in Actors, q # p, NEW c \in Clips
    PROVE  InHand(q, c)' <=> InHand(q, c)
  BY DEF Alone, InHand, ClipOf, Actors

\* A clip that is there was committed by its upload.
LEMMA ClipArrives ==
    ASSUME ClipInv, [SessionNext]_vars, NEW c \in Clips, HasClip(c)', ~HasClip(c)
    PROVE  AppendCommit(c)
<1> ClipTypes /\ Numbered
  BY DEF ClipInv
<1>1. ASSUME NEW d \in Clips, AppendCommit(d), position' = [position EXCEPT ![d] = NextPosition]
      PROVE  AppendCommit(c)
  BY <1>1 DEF HasClip, ClipTypes
<1> QED BY <1>1, PositionMoves DEF PositionMove, HasClip, Rows

\* Before its commit an upload has neither a clip nor a block nor an attempt.
NotYet(c) ==
    /\ ~HasClip(c) /\ ~HasBlock(c) /\ entries[c] = 0
    /\ \A p \in Actors : ~InHand(p, c)

\* The block of a clip that is there was there, or is new with its clip.
LEMMA BlockArrives ==
    ASSUME ClipInv, LiveInv, [SessionNext]_vars, NEW c \in Clips, HasBlock(c)', ~HasBlock(c)
    PROVE  AppendCommit(c)
<1>1. c \in BlockIds /\ c \notin Mic
  BY SessionAssumption DEF BlockIds
<1>2. ~EditBlock(c)
  BY DEF EditBlock
<1> QED BY <1>1, <1>2, StateMoves DEF StateMove

\* An upload is committed once.
LEMMA AppendOnce ==
    ASSUME ClipInv, NEW p \in Actors, ActorStep(p), NEW c \in Clips,
           pc'[<<"append", c>>] \in {"idle", "upload"}
    PROVE  pc[<<"append", c>>] \in {"idle", "upload"} /\ ~AppendCommit(c)
<1> DEFINE h == <<"append", c>>
<1> ClipTypes /\ Stages
  BY DEF ClipInv
<1>0. h \in Actors /\ Alone(p)
  BY ActorMoves DEF Actors, Handlers
<1>1. ~AppendCommit(c)
  BY <1>0 DEF AppendCommit, Goto, ClipTypes
<1>2. CASE p # h
  BY <1>0, <1>1, <1>2 DEF Alone
<1>3. CASE p = h
  <2>1. ~Finish(h)
    BY <1>0 DEF Finish, Rest, ClipTypes
  <2>2. p \notin Workers
    BY <1>3, SessionAssumption DEF Handlers
  <2> QED BY <1>0, <1>1, <1>3, <2>1, <2>2
          DEF ActorStep, AppendStart, AppendRefused, ClipQueued, ClipNotQueued, ResolveRead,
              ResolveWrite, Goto, Rest, ClipTypes
<1> QED BY <1>2, <1>3

\* One attempt at a time, step by step.
LEMMA AttemptSteps ==
    ASSUME ClipInv, LiveInv, [SessionNext]_vars
    PROVE  OneAttempt' /\ entries' \in [Clips -> 0 .. 1]
<1> ClipTypes /\ Stages /\ OneAttempt /\ BlocksWait
  BY DEF ClipInv
<1>1. CASE UNCHANGED handVars
  <2>1. \A p \in Actors, c \in Clips : InHand(p, c)' <=> InHand(p, c)
    BY <1>1 DEF InHand, ClipOf, handVars
  <2>2. \A c \in Clips : pc[<<"append", c>>] \in {"idle", "upload"} => ~AppendCommit(c)
    BY <1>1 DEF AppendCommit, Goto, handVars, ClipTypes, Actors, Handlers
  <2> QED BY <1>1, <2>1, <2>2, ClipArrives, BlockArrives DEF OneAttempt, handVars, ClipTypes
<1>2. ASSUME NEW p \in Actors, ActorStep(p)
      PROVE  OneAttempt' /\ entries' \in [Clips -> 0 .. 1]
  <2>1. Alone(p) /\ HandStep(p)
    BY <1>2, ActorMoves, HandSteps
  <2>2. \A q \in Actors, c \in Clips : q # p => (InHand(q, c)' <=> InHand(q, c))
    BY <2>1, OtherHands
  <2>3. ASSUME NEW c \in Clips, AppendCommit(c) \/ RetryClip(c) \/ entries[c] > 0
        PROVE  \A q \in Actors : ~InHand(q, c)
    BY <2>3 DEF OneAttempt, AppendCommit, RetryClip, BlocksWait
  <2>4. ASSUME NEW c \in Clips, AppendCommit(c) \/ RetryClip(c)
        PROVE  entries[c] = 0
    <3>1. entries[c] \in 0 .. 1
      BY DEF ClipTypes
    <3> QED BY <2>4, <3>1 DEF OneAttempt, AppendCommit, RetryClip, BlocksWait
  <2>5. /\ entries' \in [Clips -> 0 .. 1]
        /\ \A q \in Actors, c \in Clips : InHand(q, c)' => entries'[c] = 0
        /\ \A q, r \in Actors, c \in Clips : InHand(q, c)' /\ InHand(r, c)' => q = r
    <3>1. CASE UNCHANGED entries /\ \A d \in Clips : InHand(p, d)' <=> InHand(p, d)
      BY <2>2, <3>1 DEF OneAttempt, ClipTypes
    <3>2. ASSUME NEW c \in Clips,
                 \/ UNCHANGED entries /\ (AppendCommit(c) \/ RetryClip(c))
                 \/ entries[c] > 0 /\ entries' = [entries EXCEPT ![c] = @ - 1],
                 \A d \in Clips : ~InHand(p, d) /\ (InHand(p, d)' <=> d = c)
          PROVE  <2>5!1 /\ <2>5!2 /\ <2>5!3
      <4>1. /\ entries' \in [Clips -> 0 .. 1] /\ entries'[c] = 0
            /\ \A d \in Clips : d # c => entries'[d] = entries[d]
        BY <2>4, <3>2 DEF ClipTypes
      <4>2. \A q \in Actors : ~InHand(q, c)
        BY <2>3, <3>2
      <4> QED BY <2>2, <3>2, <4>1, <4>2 DEF OneAttempt
    <3>3. ASSUME NEW c \in Clips,
                 \/ entries' = [entries EXCEPT ![c] = @ + 1]
                 \/ UNCHANGED entries,
                 InHand(p, c), \A d \in Clips : ~InHand(p, d)'
          PROVE  <2>5!1 /\ <2>5!2 /\ <2>5!3
      <4>1. entries[c] = 0
        BY <3>3 DEF OneAttempt
      <4>2. /\ entries' \in [Clips -> 0 .. 1]
            /\ \A d \in Clips : d # c => entries'[d] = entries[d]
        BY <3>3, <4>1 DEF ClipTypes
      <4>3. \A q \in Actors : InHand(q, c) => q = p
        BY <3>3 DEF OneAttempt
      <4> QED BY <2>2, <3>3, <4>2, <4>3 DEF OneAttempt
    <3> QED BY <2>1, <3>1, <3>2, <3>3 DEF HandStep
  <2>6. ASSUME NEW c \in Clips, pc'[<<"append", c>>] \in {"idle", "upload"}
        PROVE  NotYet(c)'
    <3>1. NotYet(c) /\ ~AppendCommit(c)
      BY <1>2, <2>6, AppendOnce DEF OneAttempt, NotYet
    <3>2. ~RetryClip(c)
      BY <3>1 DEF RetryClip, NotYet
    <3>3. entries'[c] = 0 /\ ~InHand(p, c)'
      BY <2>1, <3>1, <3>2 DEF HandStep, NotYet, ClipTypes
    <3> QED BY <2>2, <3>1, <3>3, ClipArrives, BlockArrives DEF NotYet
  <2> QED BY <2>5, <2>6 DEF OneAttempt, NotYet
<1> QED BY <1>1, <1>2, ActorSteps

\* Who has a clip in hand afterwards had it before, took it from the queue, or
\* is the request that has just made its block wait.
LEMMA HandsCome ==
    ASSUME ClipInv, [SessionNext]_vars, NEW q \in Actors, NEW c \in Clips, InHand(q, c)'
    PROVE  InHand(q, c) \/ entries[c] > 0 \/ AppendCommit(c) \/ RetryClip(c)
<1>1. CASE UNCHANGED handVars
  BY <1>1 DEF InHand, ClipOf, handVars
<1>2. ASSUME NEW p \in Actors, ActorStep(p)
      PROVE  InHand(q, c) \/ entries[c] > 0 \/ AppendCommit(c) \/ RetryClip(c)
  <2>1. Alone(p) /\ HandStep(p)
    BY <1>2, ActorMoves, HandSteps
  <2>2. CASE q = p
    BY <2>1, <2>2 DEF HandStep
  <2>3. CASE q # p
    BY <2>1, <2>3, OtherHands
  <2> QED BY <2>2, <2>3
<1> QED BY <1>1, <1>2, ActorSteps

\* An actor that is about to write has seen a block that waited.
LEMMA SawPending ==
    ASSUME ClipInv, [SessionNext]_vars, NEW q \in Actors, pc'[q] = "write"
    PROVE  saw'[q] # None /\ saw'[q].state = "pending"
<1> ClipTypes /\ Stages /\ BlocksWait
  BY DEF ClipInv
<1>1. ASSUME pc[q] = "write", saw'[q] = saw[q]
      PROVE  saw'[q] # None /\ saw'[q].state = "pending"
  BY <1>1 DEF BlocksWait
<1>2. CASE UNCHANGED handVars
  BY <1>1, <1>2 DEF handVars
<1>3. ASSUME NEW p \in Actors, ActorStep(p), p # q
      PROVE  saw'[q] # None /\ saw'[q].state = "pending"
  BY <1>1, <1>3, ActorMoves DEF Alone
<1>4. CASE ActorStep(q)
  <2>1. ResolveRead(q) /\ ~Finish(q)
    <3>1. ~Finish(q)
      BY DEF Finish, Rest, ClipTypes
    <3> QED BY <1>4, <3>1
            DEF ActorStep, AppendStart, AppendCommit, AppendRefused, RetryClip, RemoveClip,
                RemoveFile, ClipQueued, ClipNotQueued, FetchClip, DecodeClip, TakeClip,
                ResolveWrite, Goto, Rest, ClipTypes
  <2> PICK c \in Clips : c = ClipOf(q)
    BY <2>1, ClipOfType DEF ResolveRead
  <2>2. HasBlock(c) /\ saw'[q] = blocks[c]
    BY <2>1 DEF ResolveRead, HasBlock, ClipTypes
  <2>3. InHand(q, c)
    BY <2>1 DEF ResolveRead, InHand
  <2> QED BY <2>2, <2>3 DEF BlocksWait, HasBlock
<1> QED BY <1>2, <1>3, <1>4, ActorSteps

\* An entry that is in the queue afterwards was there, or its request had the
\* clip in hand.
LEMMA EntriesCome ==
    ASSUME ClipInv, [SessionNext]_vars, NEW c \in Clips, entries'[c] > 0
    PROVE  entries[c] > 0 \/ \E p \in Actors : InHand(p, c)
<1> ClipTypes
  BY DEF ClipInv
<1>1. CASE UNCHANGED handVars
  BY <1>1 DEF handVars
<1>2. ASSUME NEW p \in Actors, ActorStep(p)
      PROVE  entries[c] > 0 \/ InHand(p, c)
  <2>1. HandStep(p)
    BY <1>2, HandSteps
  <2> QED BY <2>1 DEF HandStep, ClipTypes
<1> QED BY <1>1, <1>2, ActorSteps

\* A clip is there until it is removed, and its block with it.
LEMMA ClipStays ==
    ASSUME ClipInv, [SessionNext]_vars, NEW c \in Clips, HasClip(c),
           HasBlock(c)' \/ ~(RemoveClip(c) \/ DeleteSession)
    PROVE  HasClip(c)'
<1> ClipTypes /\ Numbered
  BY DEF ClipInv
<1>1. ASSUME NEW d \in Clips, AppendCommit(d), position' = [position EXCEPT ![d] = NextPosition]
      PROVE  HasClip(c)'
  BY <1>1, NextPositionIsLast DEF HasClip, ClipTypes
<1>2. ASSUME NEW order \in Orders,
             position' = [d \in Clips |-> IF d \in Rows THEN order[d] ELSE 0]
      PROVE  HasClip(c)'
  <2>1. c \in Rows /\ order[c] \in 1 .. Cardinality(Rows) /\ Cardinality(Rows) \in Nat
    BY OrderFacts DEF Rows
  <2>2. order[c] # 0
    BY <2>1
  <2> QED BY <1>2, <2>1, <2>2 DEF HasClip
<1> QED BY <1>1, <1>2, PositionMoves DEF PositionMove, HasClip

\* What makes a block wait for something.
LEMMA BlockSteps ==
    ASSUME ClipInv, LiveInv, [SessionNext]_vars
    PROVE  BlocksWait'
<1> ClipTypes /\ Numbered /\ Stages /\ OneAttempt /\ BlocksWait
  BY DEF ClipInv
<1>0. OneAttempt'
  BY AttemptSteps
<1>1. ASSUME NEW c \in Clips, HasBlock(c)',
             \/ (\E p \in Actors : InHand(p, c)) \/ entries[c] > 0
             \/ AppendCommit(c) \/ RetryClip(c),
             \A p \in Actors : ResolveWrite(p) => ClipOf(p) # c
      PROVE  blocks'[c].state = "pending"
  <2>1. c \in BlockIds /\ c \notin Mic
    BY SessionAssumption DEF BlockIds
  <2>2. CASE AppendCommit(c)
    <3>1. PendingBlock \in Blocks /\ Put(c, PendingBlock)
      BY <2>2, NewBlocks DEF AppendCommit
    <3>2. blocks'[c] = PendingBlock
      BY <2>1, <3>1, PutBlock
    <3>3. PendingBlock.state = "pending"
      BY DEF PendingBlock
    <3> QED BY <3>2, <3>3
  <2>3. CASE RetryClip(c)
    <3> DEFINE b == [blocks[c] EXCEPT !.state = "pending", !.text = ""]
    <3>1. blocks[c] \in Blocks /\ Put(c, b)
      BY <2>1, <2>3 DEF RetryClip, HasBlock, ClipTypes
    <3>2. b \in Blocks /\ b.state = "pending"
      BY <3>1, BlockColumns DEF Blocks
    <3> HIDE DEF b
    <3> QED BY <2>1, <3>1, <3>2, PutBlock
  <2>4. CASE (\E p \in Actors : InHand(p, c)) \/ entries[c] > 0
    <3>1. HasBlock(c) => blocks[c].state = "pending"
      BY <2>4 DEF BlocksWait
    <3> QED BY <1>1, <2>1, <2>2, <3>1, StateMoves DEF StateMove
  <2> QED BY <1>1, <2>2, <2>3, <2>4
<1>2. ASSUME NEW q \in Actors, NEW c \in Clips, InHand(q, c)', HasBlock(c)'
      PROVE  blocks'[c].state = "pending"
  <2>1. ASSUME NEW p \in Actors, ResolveWrite(p), ClipOf(p) = c PROVE FALSE
    <3>1. ActorStep(p) /\ InHand(p, c)
      BY <2>1 DEF ActorStep, InHand, ResolveWrite
    <3>2. q # p
      BY <1>2, <2>1 DEF ResolveWrite, Finish, Rest, InHand, ClipTypes
    <3>3. InHand(q, c)
      BY <1>2, <3>1, <3>2, ActorMoves, OtherHands
    <3> QED BY <3>1, <3>2, <3>3 DEF OneAttempt
  <2> QED BY <1>1, <1>2, <2>1, HandsCome
<1>3. ASSUME NEW c \in Clips, entries'[c] > 0, HasBlock(c)'
      PROVE  blocks'[c].state = "pending"
  <2>1. ASSUME NEW p \in Actors, ResolveWrite(p), ClipOf(p) = c PROVE FALSE
    <3>1. InHand(p, c) /\ UNCHANGED entries
      BY <2>1 DEF InHand, ResolveWrite
    <3> QED BY <1>3, <3>1 DEF OneAttempt
  <2> QED BY <1>1, <1>3, <2>1, EntriesCome
<1>4. ASSUME NEW c \in Clips, HasBlock(c)' PROVE HasClip(c)'
  <2>1. CASE HasBlock(c)
    BY <1>4, <2>1, ClipStays DEF BlocksWait
  <2>2. CASE ~HasBlock(c)
    <3>1. AppendCommit(c)
      BY <1>4, <2>2, BlockArrives
    <3> QED BY <3>1, NextPositionIsLast DEF AppendCommit, HasClip, ClipTypes
  <2> QED BY <2>1, <2>2
<1>5. ASSUME NEW i \in BlockIds, HasBlock(i)', blocks'[i].edited
      PROVE  blocks'[i].state = "done" /\ blocks'[i].text = "user"
  BY <1>5, StateMoves DEF StateMove, BlocksWait
<1> QED BY <1>2, <1>3, <1>4, <1>5, SawPending DEF BlocksWait

-----------------------------------------------------------------------------

\* Attention is an entry or a hand.
Held(c) == entries[c] > 0 \/ \E p \in Actors : InHand(p, c)

PendingIsHeld == \A c \in FileBlocks : blocks[c].state = "pending" => Held(c)

\* Both say the same.
LEMMA AttendedBy == Stages => (PendingIsAttended <=> PendingIsHeld)
<1> SUFFICES ASSUME Stages, NEW c \in Clips PROVE Attended(c) <=> Held(c)
  BY DEF PendingIsAttended, PendingIsHeld, FileBlocks
<1>1. ASSUME NEW w \in Workers, InHand(w, c) PROVE Attended(c)
  <2>1. pc[w] \in {"fetch", "decode", "read", "write"} /\ clipOf[w] = c
    BY <1>1, SessionAssumption DEF InHand, Stages, ClipOf
  <2> QED BY <2>1 DEF Attended
<1>2. ASSUME NEW kind \in {"append", "retry", "remove"}, NEW d \in Clips, InHand(<<kind, d>>, c)
      PROVE  Attended(c)
  <2>1. d = c
    BY <1>2 DEF InHand, ClipOf, Handlers
  <2>2. kind \in {"append", "retry"} /\ pc[<<kind, c>>] \in {"enqueue", "read", "write"}
    BY <1>2, <2>1 DEF InHand, Stages
  <2> QED BY <2>2 DEF Attended
<1>3. ASSUME NEW w \in Workers, clipOf[w] = c, pc[w] \in {"fetch", "decode", "read", "write"}
      PROVE  InHand(w, c)
  BY <1>3, SessionAssumption DEF InHand, ClipOf
<1>4. ASSUME NEW kind \in {"append", "retry"}, pc[<<kind, c>>] \in {"enqueue", "read", "write"}
      PROVE  InHand(<<kind, c>>, c) /\ <<kind, c>> \in Actors
  BY <1>4 DEF InHand, ClipOf, Actors, Handlers
<1>5. Attended(c) => Held(c)
  BY <1>3, <1>4 DEF Attended, Held, Actors
<1>6. \A p \in Actors : InHand(p, c) => Attended(c)
  BY <1>1, <1>2 DEF Actors, Handlers
<1> QED BY <1>5, <1>6 DEF Attended, Held

\* No step leaves a block waiting for nothing.
LEMMA AttentionSteps ==
    ASSUME ClipInv, LiveInv, [SessionNext]_vars
    PROVE  PendingIsAttended'
<1> ClipTypes /\ Stages /\ OneAttempt /\ BlocksWait
  BY DEF ClipInv
<1>0. Stages'
  <2>1. CASE UNCHANGED handVars
    BY <2>1 DEF handVars, Stages
  <2> QED BY <2>1, ActorSteps, StageSteps
<1> SUFFICES ASSUME NEW c \in Clips, HasBlock(c)', blocks'[c].state = "pending"
             PROVE  Held(c)'
  <2>1. (PendingIsAttended <=> PendingIsHeld)'
    BY <1>0, AttendedBy, PTL
  <2> QED BY <2>1 DEF PendingIsHeld, FileBlocks, Present
<1>1. c \in BlockIds /\ c \notin Mic
  BY SessionAssumption DEF BlockIds
<1>2. CASE AppendCommit(c)
  <2>1. <<"append", c>> \in Actors /\ InHand(<<"append", c>>, c)'
    BY <1>2 DEF AppendCommit, InHand, ClipOf, Goto, Actors, Handlers, ClipTypes
  <2> QED BY <2>1 DEF Held
<1>3. CASE RetryClip(c)
  <2>1. <<"retry", c>> \in Actors /\ InHand(<<"retry", c>>, c)'
    BY <1>3 DEF RetryClip, InHand, ClipOf, Goto, Actors, Handlers, ClipTypes
  <2> QED BY <2>1 DEF Held
<1>4. CASE ~AppendCommit(c) /\ ~RetryClip(c)
  <2>1. HasBlock(c) /\ blocks[c].state = "pending"
    BY <1>1, <1>4, StateMoves DEF StateMove
  <2>2. Held(c)
    BY <1>1, <2>1, AttendedBy DEF ClipInv, PendingIsHeld, FileBlocks, Present
  <2>3. CASE UNCHANGED handVars
    BY <2>2, <2>3 DEF handVars, InHand, ClipOf, Held
  <2>4. ASSUME NEW p \in Actors, ActorStep(p)
        PROVE  Held(c)'
    <3>1. Alone(p) /\ HandStep(p)
      BY <2>4, ActorMoves, HandSteps
    <3>2. ASSUME NEW q \in Actors, q # p, InHand(q, c) PROVE InHand(q, c)'
      BY <3>1, <3>2, OtherHands
    <3>3. Waits(c)'
      BY DEF Waits
    <3>4. entries[c] \in 0 .. 1
      BY DEF ClipTypes
    <3>5. CASE UNCHANGED entries /\ \A d \in Clips : InHand(p, d)' <=> InHand(p, d)
      BY <2>2, <3>2, <3>5 DEF Held
    <3>6. ASSUME NEW e \in Clips,
                 UNCHANGED entries \/ entries' = [entries EXCEPT ![e] = @ - 1],
                 \A d \in Clips : ~InHand(p, d) /\ (InHand(p, d)' <=> d = e)
          PROVE  Held(c)'
      <4>1. CASE e = c
        BY <3>6, <4>1 DEF Held
      <4>2. CASE e # c
        BY <2>2, <3>2, <3>6, <4>2 DEF Held, ClipTypes
      <4> QED BY <4>1, <4>2
    <3>7. ASSUME NEW e \in Clips, InHand(p, e), \A d \in Clips : ~InHand(p, d)',
                 \/ entries' = [entries EXCEPT ![e] = @ + 1]
                 \/ UNCHANGED entries /\ ~Waits(e)'
          PROVE  Held(c)'
      <4>1. CASE e = c
        BY <3>3, <3>4, <3>7, <4>1 DEF Held, ClipTypes
      <4>2. CASE e # c
        <5>1. ~InHand(p, c) /\ entries'[c] = entries[c]
          BY <3>7, <4>2 DEF InHand, ClipTypes
        <5> QED BY <2>2, <3>2, <5>1 DEF Held
      <4> QED BY <4>1, <4>2
    <3> QED BY <3>1, <3>5, <3>6, <3>7 DEF HandStep
  <2> QED BY <2>3, <2>4, ActorSteps
<1> QED BY <1>2, <1>3, <1>4

-----------------------------------------------------------------------------

\* Only these touch the clip files.
LEMMA FileSteps ==
    ASSUME ClipInv, [SessionNext]_vars
    PROVE  /\ session' \in {"open", "busy", "done", "deleted"}
           /\ files' \subseteq Clips /\ dropped' \subseteq Clips
           /\ \/ UNCHANGED files
              \/ DeleteSession
              \/ \E c \in Clips : \/ AppendStart(c) \/ AppendRefused(c) \/ RemoveFile(c)
                                 \/ PipelineDropsFile(c)
           /\ UNCHANGED dropped \/ \E c \in Clips : PipelineDropsFile(c)
<1> DEFINE Goal == /\ session' \in {"open", "busy", "done", "deleted"}
                   /\ files' \subseteq Clips /\ dropped' \subseteq Clips
                   /\ \/ UNCHANGED files
                      \/ DeleteSession
                      \/ \E c \in Clips :
                            \/ AppendStart(c) \/ AppendRefused(c) \/ RemoveFile(c)
                            \/ PipelineDropsFile(c)
                   /\ UNCHANGED dropped \/ \E c \in Clips : PipelineDropsFile(c)
<1>0. /\ session \in {"open", "busy", "done", "deleted"}
      /\ files \subseteq Clips /\ dropped \subseteq Clips
  BY DEF ClipInv, ClipTypes
<1>1. ASSUME PageStep PROVE Goal
  <2>1. CASE DeleteSession
    BY <1>0, <2>1 DEF DeleteSession
  <2>2. ASSUME NEW c \in Clips, AppendStart(c) PROVE Goal
    BY <1>0, <2>2 DEF AppendStart
  <2>3. CASE \/ \E c \in Clips : RetryClip(c) \/ RemoveClip(c)
             \/ \E i \in BlockIds : EditBlock(i) \/ DeleteBlock(i)
    BY <1>0, <2>3 DEF RetryClip, RemoveClip, EditBlock, DeleteBlock
  <2>4. CASE Reorder \/ CloseLive \/ CloseClips \/ PipelineSaves \/ Reopen \/ Revoke
    BY <1>0, <2>4 DEF Reorder, CloseLive, CloseClips, PipelineSaves, Reopen, Revoke, clipVars
  <2>5. ASSUME NEW c \in Clips, PipelineDropsFile(c) PROVE Goal
    BY <1>0, <2>5 DEF PipelineDropsFile
  <2> QED BY <1>1, <2>1, <2>2, <2>3, <2>4, <2>5 DEF PageStep
<1>2. ASSUME NEW c \in Clips, UploadStep(c) PROVE Goal
  BY <1>0, <1>2 DEF UploadStep, AppendCommit, AppendRefused, RemoveFile
<1>3. CASE \/ \E h \in Handlers : HandlerStep(h)
           \/ \E w \in Workers : WorkerStep(w) \/ (\E c \in Clips : TakeClip(w, c))
  BY <1>0, <1>3 DEF HandlerStep, WorkerStep, ClipQueued, ClipNotQueued, ResolveRead,
                    ResolveWrite, TakeClip, FetchClip, DecodeClip
<1>4. ASSUME NEW s \in Sockets, BrowserStep(s) \/ LinkStep(s) \/ ServerStep(s) \/ Acquire(s)
      PROVE  UNCHANGED <<session, files, dropped>>
  <2>1. CASE BrowserStep(s) \/ LinkStep(s)
    BY <2>1 DEF BrowserStep, LinkStep, Connect, Ship, FinishTalking, LeaveSocket,
                HearAnswer, HearEnd, clipVars
  <2>2. CASE ServerStep(s) \/ Acquire(s)
    BY <2>2 DEF ServerStep, TurnAway, Receive, Acquire, DecodedText, DecodedNothing,
                Recheck, Store, ServerFinish, ServerSeesEnd, clipVars
  <2> QED BY <1>4, <2>1, <2>2
<1>5. CASE UNCHANGED vars
  BY <1>0, <1>5 DEF vars, clipVars
<1>6. Goal
  BY <1>0, <1>1, <1>2, <1>3, <1>4, <1>5 DEF SessionNext
<1> QED BY <1>6

\* The invariant of the clips and their blocks.
LEMMA ClipInduction == SessionSpec => [](ClipInv /\ LiveInv)
<1>1. SessionInit => ClipInv
  <2> SUFFICES ASSUME SessionInit PROVE ClipInv
    OBVIOUS
  <2>1. ClipTypes
    BY DEF SessionInit, ClipTypes, ActorPcs
  <2>2. Rows = {} /\ Present = {} /\ FileBlocks = {}
    BY DEF SessionInit, Rows, Present, FileBlocks, HasClip, HasBlock
  <2>3. Numbered
    BY <2>2, FS_EmptySet DEF Numbered
  <2>4. Stages
    BY DEF SessionInit, Stages, Actors, Handlers
  <2>5. \A p \in Actors, c \in Clips : ~InHand(p, c)
    BY DEF SessionInit, InHand
  <2>6. OneAttempt /\ BlocksWait
    BY <2>5 DEF SessionInit, OneAttempt, BlocksWait, HasClip, HasBlock, BlockIds
  <2> QED BY <2>1, <2>2, <2>3, <2>4, <2>6 DEF ClipInv, PendingIsAttended
<1>2. ClipInv /\ LiveInv /\ [SessionNext]_vars => ClipInv'
  <2> SUFFICES ASSUME ClipInv, LiveInv, [SessionNext]_vars PROVE ClipInv'
    OBVIOUS
  <2>1. HandTypes' /\ Stages'
    <3>1. CASE UNCHANGED handVars
      BY <3>1 DEF handVars, HandTypes, Stages, ClipInv, ClipTypes
    <3> QED BY <3>1, ActorSteps, ActorMoves, StageSteps
  <2>2. ClipTypes'
    BY <2>1, FileSteps, NumberSteps, BlockTypes, AttemptSteps DEF ClipTypes, HandTypes
  <2> QED BY <2>1, <2>2, NumberSteps, AttemptSteps, BlockSteps, AttentionSteps DEF ClipInv
<1> QED BY <1>1, <1>2, LiveInduction, PTL DEF SessionSpec

\* What the clips, the transcript and the sockets hold is always what the code
\* reads it as (db.py, sessions.py, live.py).
THEOREM SessionTyping == SessionSpec => []SessionTypeOK
<1>1. ClipInv /\ LiveInv => SessionTypeOK
  BY DEF ClipInv, ClipTypes, LiveInv, LiveTypes, SessionTypeOK
<1> QED BY <1>1, ClipInduction, PTL

\* A block that waits for its text has an entry in the queue, or a worker or a
\* request that will still write it (sessions.py append_clip, retry_clip,
\* tasks.py transcribe_clip, live.py resolve_file_block).
THEOREM WaitingIsAttended == SessionSpec => []PendingIsAttended
<1>1. ClipInv => PendingIsAttended
  BY DEF ClipInv
<1> QED BY <1>1, ClipInduction, PTL

-----------------------------------------------------------------------------

\* What a socket has stored was said before what it has in hand.
HeardBefore ==
    /\ TranscriptOrder
    /\ \A m \in Mic : HasBlock(m) => m[2] <= answered[m[1]]

\* Answers are never taken back.
LEMMA AnswersGrow ==
    ASSUME LiveInv, [SessionNext]_vars, NEW s \in Sockets
    PROVE  /\ answered[s] \in Nat /\ answered'[s] \in {answered[s], answered[s] + 1}
           /\ Store(s) => answered'[s] = answered[s] + 1
<1> answered \in [Sockets -> Nat]
  BY SessionAssumption DEF LiveInv, LiveTypes
<1>1. CASE UNCHANGED liveVars \/ Revoke
  BY <1>1 DEF liveVars, Revoke, Store, Answer
<1>2. ASSUME NEW q \in Sockets, BrowserStep(q) \/ LinkStep(q) \/ ServerStep(q) \/ Acquire(q)
      PROVE  answered'[s] \in {answered[s], answered[s] + 1}
  BY <1>2
  DEF BrowserStep, LinkStep, ServerStep, Connect, Ship, FinishTalking, LeaveSocket,
      HearAnswer, HearEnd, TurnAway, Receive, Acquire, DecodedText, DecodedNothing,
      Recheck, Store, ServerFinish, ServerSeesEnd, Answer
<1> QED BY <1>1, <1>2, ClipSteps DEF Store, Answer, vars

\* What reorder does to a block.
LEMMA Reseats ==
    ASSUME ClipInv, NEW order \in Orders, NEW slot \in Seatings(order),
           blocks' = Reseated(slot), NEW i \in BlockIds
    PROVE  /\ HasBlock(i)' <=> HasBlock(i)
           /\ i \in FileBlocks =>
                slot[i] \in FileBlocks /\ blocks'[i].seq = blocks[slot[i]].seq
           /\ i \notin FileBlocks => blocks'[i] = blocks[i]
<1>1. CASE i \notin FileBlocks
  BY <1>1 DEF Reseated, HasBlock
<1>2. CASE i \in FileBlocks
  <2> DEFINE n == blocks[slot[i]].seq
  <2>1. slot[i] \in FileBlocks
    BY <1>2 DEF Seatings, Injection
  <2>2. blocks[i] \in Blocks /\ blocks[slot[i]] \in Blocks /\ HasBlock(i)
    BY <1>2, <2>1 DEF FileBlocks, Present, HasBlock, ClipInv, ClipTypes
  <2>3. n \in Nat /\ blocks'[i] = [blocks[i] EXCEPT !.seq = n]
    BY <1>2, <2>2 DEF Reseated, Blocks
  <2>4. blocks'[i] \in Blocks
    <3> HIDE DEF n
    <3> QED BY <2>2, <2>3, BlockColumns
  <2>5. blocks'[i].seq = n
    <3> HIDE DEF n
    <3>1. [blocks[i] EXCEPT !.seq = n].seq = n
      BY <2>2 DEF Blocks
    <3> QED BY <2>3, <3>1
  <2> QED BY <1>2, <2>1, <2>2, <2>4, <2>5, SessionAssumption DEF HasBlock
<1> QED BY <1>1, <1>2

\* The order survives every step that leaves the numbers of the blocks, ...
LEMMA OrderKept ==
    ASSUME ClipInv, LiveInv, HeardBefore, [SessionNext]_vars, ~Reorder, SeqKept({})
    PROVE  HeardBefore'
<1>1. \A i \in Present' : i \in Present /\ blocks'[i].seq = blocks[i].seq
  BY DEF SeqKept, Present
<1>2. \A c \in FileBlocks' : c \in FileBlocks /\ position'[c] = position[c]
  <2> SUFFICES ASSUME NEW c \in FileBlocks'
               PROVE  c \in FileBlocks /\ position'[c] = position[c]
    OBVIOUS
  <2>1. c \in Clips /\ c \in Present /\ HasBlock(c) /\ HasBlock(c)'
    BY <1>1 DEF FileBlocks, Present
  <2>2. ~AppendCommit(c)
    BY <2>1 DEF AppendCommit, ClipInv, OneAttempt
  <2> QED BY <2>1, <2>2, PositionMoves DEF PositionMove, ClipInv, ClipTypes, FileBlocks
<1>3. TranscriptOrder'
  <2>1. \A i, j \in Present' : blocks'[i].seq = blocks'[j].seq => i = j
    BY <1>1 DEF HeardBefore, TranscriptOrder
  <2>2. \A i, j \in Present' \cap Mic :
            i[1] = j[1] /\ i[2] < j[2] => blocks'[i].seq < blocks'[j].seq
    BY <1>1 DEF HeardBefore, TranscriptOrder
  <2>3. \A c, d \in FileBlocks' :
            position'[c] < position'[d] => blocks'[c].seq < blocks'[d].seq
    BY <1>1, <1>2 DEF HeardBefore, TranscriptOrder, FileBlocks
  <2> QED BY <2>1, <2>2, <2>3 DEF TranscriptOrder
<1>4. ASSUME NEW m \in Mic, HasBlock(m)' PROVE m[2] <= answered'[m[1]]
  <2>1. HasBlock(m) /\ m[1] \in Sockets /\ m[2] \in Nat
    BY <1>1, <1>4 DEF Present, BlockIds, Mic
  <2>2. m[2] <= answered[m[1]]
    BY <2>1 DEF HeardBefore
  <2> QED BY <2>1, <2>2, AnswersGrow
<1> QED BY <1>3, <1>4 DEF HeardBefore

\* ... the new block of a clip, which comes last like its clip, ...
LEMMA OrderWithClip ==
    ASSUME ClipInv, LiveInv, HeardBefore, [SessionNext]_vars, NEW c \in Clips,
           AppendCommit(c), SeqKept({c}), blocks'[c].seq = NextSeq
    PROVE  HeardBefore'
<1> ClipTypes /\ Numbered
  BY DEF ClipInv
<1>1. NextSeq \in Nat /\ \A i \in Present : blocks[i].seq < NextSeq /\ blocks[i].seq \in Nat
  BY NextSeqIsLast DEF Present, HasBlock, ClipTypes, Blocks
<1>2. \A i \in Present' : i # c => i \in Present /\ blocks'[i].seq = blocks[i].seq
  BY DEF SeqKept, Present
<1>3. NextPosition \in Nat /\ \A d \in Rows : position[d] < NextPosition /\ position[d] \in Nat
  BY NextPositionIsLast DEF Rows, ClipTypes
<1>4. position'[c] = NextPosition /\ \A d \in Clips : d # c => position'[d] = position[d]
  BY DEF AppendCommit, ClipTypes
<1>5. c \notin Mic
  BY SessionAssumption
<1>6. \A d \in FileBlocks' : d # c => d \in FileBlocks /\ d \in Rows
  BY <1>2 DEF FileBlocks, Present, ClipInv, BlocksWait, Rows
<1>7. \A i, j \in Present' : blocks'[i].seq = blocks'[j].seq => i = j
  BY <1>1, <1>2 DEF HeardBefore, TranscriptOrder
<1>8. \A i, j \in Present' \cap Mic :
        i[1] = j[1] /\ i[2] < j[2] => blocks'[i].seq < blocks'[j].seq
  BY <1>2, <1>5 DEF HeardBefore, TranscriptOrder
<1>9. \A d, e \in FileBlocks' : position'[d] < position'[e] => blocks'[d].seq < blocks'[e].seq
  <2> SUFFICES ASSUME NEW d \in FileBlocks', NEW e \in FileBlocks', position'[d] < position'[e]
               PROVE  blocks'[d].seq < blocks'[e].seq
    OBVIOUS
  <2>0. {d, e} \subseteq Clips \cap Present'
    BY DEF FileBlocks
  <2>1. CASE e = c /\ d # c
    BY <1>1, <1>2, <2>0, <2>1
  <2>2. CASE e = c /\ d = c
    BY <1>3, <1>4, <2>2
  <2>3. CASE e # c /\ d = c
    <3>1. position'[e] < NextPosition /\ position'[e] \in Nat /\ position'[d] = NextPosition
      BY <1>3, <1>4, <1>6, <2>0, <2>3
    <3> QED BY <1>3, <3>1
  <2>4. CASE e # c /\ d # c
    BY <1>2, <1>4, <1>6, <2>0, <2>4 DEF HeardBefore, TranscriptOrder
  <2> QED BY <2>1, <2>2, <2>3, <2>4
<1>10. \A m \in Mic : HasBlock(m)' => m[2] <= answered'[m[1]]
  <2>1. UNCHANGED answered
    BY DEF AppendCommit, liveVars
  <2>2. \A m \in Mic : HasBlock(m)' => HasBlock(m)
    BY <1>2, <1>5 DEF Present, BlockIds
  <2> QED BY <2>1, <2>2 DEF HeardBefore
<1> QED BY <1>7, <1>8, <1>9, <1>10 DEF HeardBefore, TranscriptOrder

\* ... the new block of an utterance, which was said after the others, ...
LEMMA OrderWithUtterance ==
    ASSUME ClipInv, LiveInv, HeardBefore, [SessionNext]_vars, NEW s \in Sockets, NEW i \in Mic,
           i = <<s, answered[s] + 1>>, Store(s), SeqKept({i}), blocks'[i].seq = NextSeq
    PROVE  HeardBefore'
<1> ClipTypes /\ Numbered
  BY DEF ClipInv
<1>1. NextSeq \in Nat /\ \A j \in Present : blocks[j].seq < NextSeq /\ blocks[j].seq \in Nat
  BY NextSeqIsLast DEF Present, HasBlock, ClipTypes, Blocks
<1>2. \A j \in Present' : j # i => j \in Present /\ blocks'[j].seq = blocks[j].seq
  BY DEF SeqKept, Present
<1>3. UNCHANGED position /\ i \notin Clips
  BY SessionAssumption DEF Store
<1>4. \A m \in Mic : HasBlock(m) => m[2] <= answered[m[1]]
  BY DEF HeardBefore
<1>5. answered[s] \in Nat /\ answered'[s] = answered[s] + 1 /\ i[1] = s /\ i[2] = answered[s] + 1
  BY AnswersGrow
<1>6. \A j, k \in Present' : blocks'[j].seq = blocks'[k].seq => j = k
  BY <1>1, <1>2 DEF HeardBefore, TranscriptOrder
<1>7. \A j, k \in Present' \cap Mic :
        j[1] = k[1] /\ j[2] < k[2] => blocks'[j].seq < blocks'[k].seq
  <2> SUFFICES ASSUME NEW j \in Present' \cap Mic, NEW k \in Present' \cap Mic,
                      j[1] = k[1], j[2] < k[2]
               PROVE  blocks'[j].seq < blocks'[k].seq
    OBVIOUS
  <2>1. CASE j = i
    <3>1. k # i /\ k \in Present /\ k[1] = s
      BY <1>2, <1>5, <2>1
    <3>2. k[2] <= answered[s] /\ k[2] \in Nat
      BY <1>4, <3>1 DEF Present, Mic
    <3> QED BY <1>5, <2>1, <3>2
  <2>2. CASE j # i /\ k = i
    BY <1>1, <1>2, <2>2
  <2>3. CASE j # i /\ k # i
    BY <1>2, <2>3 DEF HeardBefore, TranscriptOrder
  <2> QED BY <2>1, <2>2, <2>3
<1>8. \A d, e \in FileBlocks' : position'[d] < position'[e] => blocks'[d].seq < blocks'[e].seq
  BY <1>2, <1>3 DEF HeardBefore, TranscriptOrder, FileBlocks
<1>9. \A m \in Mic : HasBlock(m)' => m[2] <= answered'[m[1]]
  <2> SUFFICES ASSUME NEW m \in Mic, HasBlock(m)' PROVE m[2] <= answered'[m[1]]
    OBVIOUS
  <2>1. CASE m = i
    BY <1>5, <2>1
  <2>2. CASE m # i
    <3>1. HasBlock(m) /\ m[1] \in Sockets /\ m[2] \in Nat
      BY <1>2, <2>2 DEF Present, BlockIds, Mic
    <3>2. m[2] <= answered[m[1]]
      BY <1>4, <3>1
    <3> QED BY <3>1, <3>2, AnswersGrow
  <2> QED BY <2>1, <2>2
<1> QED BY <1>6, <1>7, <1>8, <1>9 DEF HeardBefore, TranscriptOrder

\* ... and reorder, which deals the places of the file blocks out anew.
LEMMA OrderAnew ==
    ASSUME ClipInv, HeardBefore, Reorder
    PROVE  HeardBefore'
<1> ClipTypes /\ Numbered
  BY DEF ClipInv
<1> PICK order \in Orders : \E slot \in Seatings(order) :
        /\ position' = [c \in Clips |-> IF c \in Rows THEN order[c] ELSE 0]
        /\ blocks' = Reseated(slot)
  BY DEF Reorder
<1> PICK slot \in Seatings(order) :
        /\ position' = [c \in Clips |-> IF c \in Rows THEN order[c] ELSE 0]
        /\ blocks' = Reseated(slot)
  OBVIOUS
<1>1. Present' = Present /\ FileBlocks' = FileBlocks
  BY Reseats DEF Present, FileBlocks
<1>2. \A c \in FileBlocks : slot[c] \in FileBlocks /\ blocks'[c].seq = blocks[slot[c]].seq
  BY Reseats DEF FileBlocks, Present
<1>3. \A i \in Present : i \notin FileBlocks => blocks'[i].seq = blocks[i].seq
  BY Reseats DEF Present
<1>4. \A c, d \in FileBlocks : slot[c] = slot[d] => c = d
  BY DEF Seatings, Injection, IsInjective
<1>5. \A i, j \in Present : blocks[i].seq = blocks[j].seq => i = j
  BY DEF HeardBefore, TranscriptOrder
<1>6. FileBlocks \subseteq Present /\ FileBlocks \subseteq Clips /\ FileBlocks \cap Mic = {}
  BY SessionAssumption DEF FileBlocks
<1>7. \A i, j \in Present : blocks'[i].seq = blocks'[j].seq => i = j
  BY <1>2, <1>3, <1>4, <1>5, <1>6
<1>8. \A i, j \in Present \cap Mic :
        i[1] = j[1] /\ i[2] < j[2] => blocks'[i].seq < blocks'[j].seq
  BY <1>3, <1>6 DEF HeardBefore, TranscriptOrder
<1>9. \A c, d \in FileBlocks : position'[c] < position'[d] => blocks'[c].seq < blocks'[d].seq
  <2> SUFFICES ASSUME NEW c \in FileBlocks, NEW d \in FileBlocks, position'[c] < position'[d]
               PROVE  blocks'[c].seq < blocks'[d].seq
    OBVIOUS
  <2>1. c \in Rows /\ d \in Rows
    BY <1>6 DEF FileBlocks, Present, ClipInv, BlocksWait, Rows
  <2>2. order[c] < order[d]
    BY <1>6, <2>1
  <2>3. blocks[slot[c]].seq <= blocks[slot[d]].seq
    BY <2>2 DEF Seatings
  <2>4. order[c] \in Nat /\ order[d] \in Nat
    BY <2>1, OrderFacts
  <2>5. blocks[slot[c]].seq # blocks[slot[d]].seq
    BY <1>2, <1>4, <1>5, <1>6, <2>2, <2>4
  <2>6. blocks[slot[c]].seq \in Nat /\ blocks[slot[d]].seq \in Nat
    BY <1>2, <1>6 DEF Present, HasBlock, ClipTypes, Blocks
  <2> QED BY <1>2, <2>3, <2>5, <2>6
<1>10. UNCHANGED answered
  BY DEF Reorder, liveVars
<1> QED BY <1>1, <1>7, <1>8, <1>9, <1>10 DEF HeardBefore, TranscriptOrder, Present, BlockIds

\* The order is kept forever.
LEMMA OrderInduction == SessionSpec => []HeardBefore
<1>1. SessionInit => HeardBefore
  BY DEF SessionInit, HeardBefore, TranscriptOrder, Present, FileBlocks, HasBlock, BlockIds
<1>2. ClipInv /\ LiveInv /\ HeardBefore /\ [SessionNext]_vars => HeardBefore'
  <2> SUFFICES ASSUME ClipInv, LiveInv, HeardBefore, [SessionNext]_vars PROVE HeardBefore'
    OBVIOUS
  <2> QED BY SeqMoves, OrderKept, OrderWithClip, OrderWithUtterance, OrderAnew DEF SeqMove
<1> QED BY <1>1, <1>2, ClipInduction, PTL DEF SessionSpec

\* The transcript has one order, in which every socket's utterances follow each
\* other and the blocks of the files follow their clips (db.next_block_seq,
\* sessions.py append_clip and reorder, live.py _append_block).
THEOREM TranscriptIsOrdered == SessionSpec => []TranscriptOrder
<1>1. HeardBefore => TranscriptOrder
  BY DEF HeardBefore
<1> QED BY <1>1, OrderInduction, PTL

\* What the user typed is never overwritten by a transcription: the block that
\* resolve_file_block writes was not edited, since an edit needs a finished
\* block and no other attempt is under way (live.py, sessions.py edit_block).
THEOREM EditsAreKept == SessionSpec => EditKept
<1>1. ASSUME ClipInv, LiveInv, HeardBefore, [SessionNext]_vars, NEW i \in BlockIds,
             blocks[i] # None, blocks[i].edited, blocks'[i] # None
      PROVE  blocks'[i].text = "user"
  <2>1. HasBlock(i) /\ HasBlock(i)'
    BY <1>1 DEF HasBlock
  <2>2. blocks[i].state = "done" /\ blocks[i].text = "user"
    BY <1>1, <2>1 DEF ClipInv, BlocksWait
  <2>3. StateMove(i)
    BY <1>1, <2>1, StateMoves
  <2>4. ~(i \in Clips /\ AppendCommit(i))
    BY <1>1, <2>1 DEF AppendCommit, ClipInv, OneAttempt
  <2>5. ~(i \in Mic /\ \E s \in Sockets : Store(s) /\ i = <<s, answered[s] + 1>>)
    <3> SUFFICES ASSUME i \in Mic, NEW s \in Sockets, i = <<s, answered[s] + 1>> PROVE FALSE
      OBVIOUS
    <3>1. answered[s] + 1 <= answered[s]
      BY <1>1, <2>1 DEF HeardBefore
    <3>2. answered[s] \in Nat
      BY <1>1, AnswersGrow
    <3> QED BY <3>1, <3>2
  <2> QED BY <1>1, <2>2, <2>3, <2>4, <2>5 DEF StateMove
<1>2. ClipInv /\ LiveInv /\ HeardBefore /\ [SessionNext]_vars
        => [\A i \in BlockIds :
                blocks[i] # None /\ blocks[i].edited /\ blocks'[i] # None
                    => blocks'[i].text = "user"]_vars
  BY <1>1
<1> QED BY <1>2, ClipInduction, LiveInduction, OrderInduction, PTL DEF SessionSpec, EditKept

-----------------------------------------------------------------------------

\* A file arrives before the clip is committed, and goes after it is removed.
FileInv ==
    /\ FilesAccounted
    /\ \A c \in Clips :
        /\ pc[<<"append", c>>] = "upload" => c \in files
        /\ pc[<<"remove", c>>] = "unlink" =>
            ~HasClip(c) /\ pc[<<"append", c>>] \notin {"idle", "upload"}

\* The other requests and the workers neither upload nor remove.
LEMMA FileStagesKept ==
    ASSUME ClipInv, [SessionNext]_vars, NEW c \in Clips,
           ~AppendStart(c), ~AppendCommit(c), ~AppendRefused(c), ~RemoveClip(c), ~RemoveFile(c)
    PROVE  /\ pc'[<<"append", c>>] = "upload" <=> pc[<<"append", c>>] = "upload"
           /\ pc'[<<"append", c>>] = "idle" => pc[<<"append", c>>] = "idle"
           /\ pc'[<<"remove", c>>] = pc[<<"remove", c>>]
<1> ClipTypes /\ Stages
  BY DEF ClipInv
<1> {<<"append", c>>, <<"remove", c>>} \subseteq Actors \ Workers
  BY SessionAssumption DEF Actors, Handlers
<1>1. CASE UNCHANGED handVars
  BY <1>1 DEF handVars
<1>2. ASSUME NEW p \in Actors, ActorStep(p), p \notin {<<"append", c>>, <<"remove", c>>}
      PROVE  /\ pc'[<<"append", c>>] = pc[<<"append", c>>]
             /\ pc'[<<"remove", c>>] = pc[<<"remove", c>>]
  BY <1>2, ActorMoves DEF Alone
<1>3. CASE ActorStep(<<"remove", c>>)
  BY <1>3 DEF ActorStep, Stages, ClipQueued, ClipNotQueued, ResolveRead, ResolveWrite
<1>4. CASE ActorStep(<<"append", c>>)
  <2>1. /\ pc[<<"append", c>>] \in {"enqueue", "read", "write"}
        /\ pc'[<<"append", c>>] \in {"read", "write", "gone"}
    BY <1>4 DEF ActorStep, ClipQueued, ClipNotQueued, ResolveRead, ResolveWrite, Goto,
                Finish, Rest, ClipTypes
  <2>2. Alone(<<"append", c>>)
    BY <1>4, ActorMoves
  <2> QED BY <2>1, <2>2 DEF Alone
<1> QED BY <1>1, <1>2, <1>3, <1>4, ActorSteps

\* One clip's file, step by step.
LEMMA FileInduction == SessionSpec => []FileInv
<1>1. SessionInit => FileInv
  BY DEF SessionInit, FileInv, FilesAccounted, HasClip, Actors, Handlers
<1>2. ASSUME ClipInv, LiveInv, FileInv, [SessionNext]_vars PROVE FileInv'
  <2> ClipTypes /\ Numbered /\ Stages /\ OneAttempt
    BY <1>2 DEF ClipInv
  <2> DEFINE FileOf(c) ==
        /\ c \in files => \/ HasClip(c) \/ pc[<<"append", c>>] = "upload"
                          \/ pc[<<"remove", c>>] = "unlink"
        /\ HasClip(c) => c \in files \/ c \in dropped
        /\ pc[<<"append", c>>] = "upload" => c \in files
        /\ pc[<<"remove", c>>] = "unlink" =>
            ~HasClip(c) /\ pc[<<"append", c>>] \notin {"idle", "upload"}
  <2> SUFFICES ASSUME NEW c \in Clips PROVE FileOf(c)'
    BY DEF FileInv, FilesAccounted
  <2>0. FileOf(c) /\ <<"append", c>> \in Actors /\ <<"remove", c>> \in Actors
    BY <1>2 DEF FileInv, FilesAccounted, Actors, Handlers
  <2>1. CASE AppendStart(c)
    BY <2>0, <2>1 DEF AppendStart, Goto, HasClip, ClipTypes
  <2>2. CASE AppendCommit(c)
    BY <2>0, <2>2, NextPositionIsLast DEF AppendCommit, Goto, HasClip, ClipTypes
  <2>3. CASE AppendRefused(c)
    BY <2>0, <2>3 DEF AppendRefused, Goto, HasClip, ClipTypes, OneAttempt
  <2>4. CASE RemoveClip(c)
    BY <2>0, <2>4 DEF RemoveClip, Goto, HasClip, ClipTypes, OneAttempt
  <2>5. CASE RemoveFile(c)
    BY <2>0, <2>5 DEF RemoveFile, Goto, HasClip, ClipTypes
  <2>6. CASE /\ ~AppendStart(c) /\ ~AppendCommit(c) /\ ~AppendRefused(c)
             /\ ~RemoveClip(c) /\ ~RemoveFile(c)
    <3>1. /\ pc'[<<"append", c>>] = "upload" <=> pc[<<"append", c>>] = "upload"
          /\ pc'[<<"append", c>>] = "idle" => pc[<<"append", c>>] = "idle"
          /\ pc'[<<"remove", c>>] = pc[<<"remove", c>>]
      BY <1>2, <2>6, FileStagesKept
    <3>2. HasClip(c)' => HasClip(c)
      BY <1>2, <2>6, ClipArrives
    <3>3. CASE DeleteSession
      <4>1. HasClip(c)' = FALSE /\ (c \in files' <=> c \in files /\ ~HasClip(c))
        BY <3>3 DEF DeleteSession, HasClip, Rows
      <4>2. pc[<<"append", c>>] = "upload" => ~HasClip(c)
        BY DEF OneAttempt
      <4> QED BY <2>0, <3>1, <4>1, <4>2
    <3>4. CASE ~DeleteSession
      <4>1. /\ c \in files' => c \in files
            /\ c \in files => c \in files' \/ (c \in dropped' /\ HasClip(c))
            /\ c \in dropped => c \in dropped'
        BY <1>2, <2>6, <3>4, FileSteps
        DEF AppendStart, AppendRefused, RemoveFile, PipelineDropsFile
      <4>2. HasClip(c) => HasClip(c)'
        BY <1>2, <2>6, <3>4, ClipStays
      <4>3. pc[<<"append", c>>] = "upload" => ~HasClip(c)
        BY DEF OneAttempt
      <4> QED BY <2>0, <3>1, <3>2, <4>1, <4>2, <4>3
    <3> QED BY <3>3, <3>4
  <2> QED BY <2>1, <2>2, <2>3, <2>4, <2>5, <2>6
<1> QED BY <1>1, <1>2, ClipInduction, LiveInduction, PTL DEF SessionSpec

\* No file of a clip is left behind, but for an upload or a removal under way, and
\* none is missed but those that a transcription has unlinked to spare the disk
\* (sessions.py append_clip, remove_clip, delete_job, tasks.py run_transcription).
THEOREM FilesAreAccounted == SessionSpec => []FilesAccounted
<1>1. FileInv => FilesAccounted
  BY DEF FileInv
<1> QED BY <1>1, FileInduction, PTL

-----------------------------------------------------------------------------

\* The text that the sockets left is written by nobody else in a session that is
\* not open any more.
LEMMA ResultKept ==
    ASSUME ClipInv, [SessionNext]_vars, session = "done", session' = "done"
    PROVE  result' = result /\ MicText' = MicText
<1> ClipTypes /\ Stages
  BY DEF ClipInv
<1>1. UNCHANGED result
  BY DEF SessionNext, PageStep, HandlerStep, UploadStep, WorkerStep, BrowserStep,
         LinkStep, ServerStep, AppendStart, AppendCommit, AppendRefused, ClipQueued,
         ClipNotQueued, RetryClip, RemoveClip, RemoveFile, Reorder, EditBlock,
         DeleteBlock, CloseLive, CloseClips, PipelineDropsFile, PipelineSaves, Reopen,
         DeleteSession, TakeClip, FetchClip, DecodeClip, ResolveRead, ResolveWrite,
         Connect, Ship, FinishTalking, LeaveSocket, HearAnswer, HearEnd, TurnAway,
         Receive, Acquire, DecodedText, DecodedNothing, Recheck, Store, ServerFinish,
         ServerSeesEnd, Revoke, Open, vars, clipVars
<1>2. \A i \in Mic : blocks'[i] = blocks[i]
  <2>1. CASE UNCHANGED blocks
    BY <2>1
  <2>2. ASSUME NEW p \in Actors, ResolveWrite(p) PROVE \A i \in Mic : blocks'[i] = blocks[i]
    <3> PICK c \in Clips : c = ClipOf(p)
      BY <2>2, ClipOfType DEF ResolveWrite
    <3>1. UNCHANGED blocks \/ (HasBlock(c) /\ Put(c, Resolved(p)))
      BY <2>2 DEF ResolveWrite, Resolved
    <3>2. HasBlock(c) => Resolved(p) \in Blocks
      BY <2>2, ResolvedBlock DEF ResolveWrite
    <3> QED BY <3>1, <3>2, PutBlock, SessionAssumption DEF BlockIds
  <2> QED BY <2>1, <2>2, BlockWriters
          DEF BlockWrite, AppendCommit, RetryClip, RemoveClip, EditBlock, DeleteBlock,
              Reorder, DeleteSession, Open
<1>3. MicDone' = MicDone
  BY <1>2 DEF MicDone, Present, HasBlock
<1> QED BY <1>1, <1>2, <1>3 DEF MicText, MicDone

\* The result of a finished session has the microphone's text as the transcript
\* shows it (sessions.py close_session, tasks.py run_transcription).
THEOREM ResultIsTranscript == SessionSpec => []ResultMatchesTranscript
<1>1. SessionInit => ResultMatchesTranscript
  BY DEF SessionInit, ResultMatchesTranscript
<1>2. ASSUME ClipInv, ResultMatchesTranscript, [SessionNext]_vars
      PROVE  ResultMatchesTranscript'
  <2>1. CASE session = "done" /\ session' = "done"
    BY <1>2, <2>1, ResultKept DEF ResultMatchesTranscript
  <2>2. CASE session # "done" /\ session' = "done"
    <3>1. result' = MicText /\ UNCHANGED blocks
      BY <1>2, <2>2
      DEF SessionNext, PageStep, HandlerStep, UploadStep, WorkerStep, BrowserStep,
          LinkStep, ServerStep, AppendStart, AppendCommit, AppendRefused, ClipQueued,
          ClipNotQueued, RetryClip, RemoveClip, RemoveFile, Reorder, EditBlock,
          DeleteBlock, CloseLive, CloseClips, PipelineDropsFile, PipelineSaves, Reopen,
          DeleteSession, TakeClip, FetchClip, DecodeClip, ResolveRead, ResolveWrite,
          Connect, Ship, FinishTalking, LeaveSocket, HearAnswer, HearEnd, TurnAway,
          Receive, Acquire, DecodedText, DecodedNothing, Recheck, Store, ServerFinish,
          ServerSeesEnd, Revoke, vars, clipVars
    <3> QED BY <3>1 DEF ResultMatchesTranscript, MicText, MicDone, Present, HasBlock
  <2>3. CASE session' # "done"
    BY <2>3 DEF ResultMatchesTranscript
  <2> QED BY <2>1, <2>2, <2>3
<1> QED BY <1>1, <1>2, ClipInduction, PTL DEF SessionSpec
=============================================================================
