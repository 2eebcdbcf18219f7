--------------------------- MODULE SessionEditing ---------------------------
(***************************************************************************)
(* An open session with everyone who writes to it: the page's requests,    *)
(* the workers that transcribe single clips, and the microphone sockets.   *)
(***************************************************************************)
EXTENDS ClipApi, LiveSocket

\* transcribe_clip: the entry is taken ...
TakeClip(w, c) ==
    /\ pc[w] = "idle" /\ entries[c] > 0
    /\ entries' = [entries EXCEPT ![c] = @ - 1]
    /\ clipOf' = [clipOf EXCEPT ![w] = c]
    /\ Goto(w, "fetch")
    /\ UNCHANGED <<session, position, files, dropped, blocks, decoded, saw, result, liveVars>>

\* ... the clip is looked up, if it is still there ...
FetchClip(w) ==
    /\ pc[w] = "fetch"
    /\ IF HasClip(clipOf[w])
       THEN Goto(w, "decode") /\ UNCHANGED <<clipOf, decoded, saw>>
       ELSE Finish(w)
    /\ UNCHANGED <<session, position, files, dropped, blocks, entries, result, liveVars>>

\* ... its file is decoded, or not; the block is resolved either way.
DecodeClip(w) ==
    /\ pc[w] = "decode"
    /\ \E ok \in IF "raise" \in SessionFaults THEN {TRUE, FALSE} ELSE {TRUE} :
        decoded' = [decoded EXCEPT ![w] = ok /\ clipOf[w] \in files]
    /\ Goto(w, "read")
    /\ UNCHANGED <<session, position, files, dropped, blocks, entries, clipOf, saw, result,
                   liveVars>>

SessionInit ==
    /\ session = "open"
    /\ position = [c \in Clips |-> 0]
    /\ files = {} /\ dropped = {}
    /\ blocks = [i \in BlockIds |-> None]
    /\ entries = [c \in Clips |-> 0]
    /\ pc = [p \in Actors |-> "idle"]
    /\ clipOf = [w \in Workers |-> None]
    /\ decoded = [w \in Workers |-> FALSE]
    /\ saw = [p \in Actors |-> None]
    /\ result = NoResult
    /\ sock = [s \in Sockets |-> "off"]
    /\ client = [s \in Sockets |-> "off"]
    /\ inflight = [s \in Sockets |-> 0]
    /\ sent = [s \in Sockets |-> 0]
    /\ answered = [s \in Sockets |-> 0]
    /\ heard = [s \in Sockets |-> 0]
    /\ access = TRUE
    /\ excused = {}

PageStep ==
    \/ \E c \in Clips :
        AppendStart(c) \/ RetryClip(c) \/ RemoveClip(c) \/ PipelineDropsFile(c)
    \/ \E i \in BlockIds : EditBlock(i) \/ DeleteBlock(i)
    \/ Reorder \/ CloseLive \/ CloseClips \/ PipelineSaves \/ Reopen
    \/ DeleteSession \/ Revoke

HandlerStep(h) ==
    \/ ClipQueued(h) \/ ClipNotQueued(h) \/ ResolveRead(h) \/ ResolveWrite(h)

UploadStep(c) == AppendCommit(c) \/ AppendRefused(c) \/ RemoveFile(c)

WorkerStep(w) == FetchClip(w) \/ DecodeClip(w) \/ ResolveRead(w) \/ ResolveWrite(w)

BrowserStep(s) == Connect(s) \/ Ship(s) \/ FinishTalking(s) \/ LeaveSocket(s)

LinkStep(s) == HearAnswer(s) \/ HearEnd(s)

ServerStep(s) ==
    \/ TurnAway(s) \/ Receive(s) \/ DecodedText(s) \/ DecodedNothing(s)
    \/ Recheck(s) \/ Store(s) \/ ServerFinish(s) \/ ServerSeesEnd(s)

SessionNext ==
    \/ PageStep
    \/ \E h \in Handlers : HandlerStep(h)
    \/ \E c \in Clips : UploadStep(c)
    \/ \E w \in Workers : WorkerStep(w) \/ (\E c \in Clips : TakeClip(w, c))
    \/ \E s \in Sockets :
        BrowserStep(s) \/ LinkStep(s) \/ ServerStep(s) \/ Acquire(s)

SessionSpec == SessionInit /\ [][SessionNext]_vars

\* The event loop and the thread pool get to every request and socket, workers
\* finish what they take (WORKER_JOB_TIMEOUT), and neither the queue nor the
\* semaphore, both first in first out, passes over the same waiter forever.
SessionFairness ==
    /\ \A h \in Handlers : WF_vars(HandlerStep(h))
    /\ \A c \in Clips : WF_vars(UploadStep(c))
    /\ \A w \in Workers : WF_vars(WorkerStep(w))
    /\ \A c \in Clips : SF_vars(\E w \in Workers : TakeClip(w, c))
    /\ \A s \in Sockets :
        WF_vars(ServerStep(s)) /\ SF_vars(Acquire(s)) /\ WF_vars(LinkStep(s))

FairSessionSpec == SessionSpec /\ SessionFairness

-----------------------------------------------------------------------------
(* Safety. *)

SessionTypeOK ==
    /\ session \in {"open", "busy", "done", "deleted"}
    /\ position \in [Clips -> Nat]
    /\ files \subseteq Clips /\ dropped \subseteq Clips
    /\ blocks \in [BlockIds -> Blocks \cup {None}]
    /\ entries \in [Clips -> 0 .. 1]
    /\ pc \in [Actors -> ActorPcs]
    /\ clipOf \in [Workers -> Clips \cup {None}] /\ decoded \in [Workers -> BOOLEAN]
    /\ saw \in [Actors -> Blocks \cup {None}]
    /\ sock \in [Sockets -> SockPcs] /\ client \in [Sockets -> ClientPcs]
    /\ inflight \in [Sockets -> 0 .. MaxQueued]
    /\ sent \in [Sockets -> 0 .. Utterances]
    /\ answered \in [Sockets -> 0 .. Utterances] /\ heard \in [Sockets -> 0 .. Utterances]
    /\ access \in BOOLEAN /\ excused \subseteq Sockets

\* The transcript has one order: no two blocks share a slot, what one socket
\* heard stays in the order it was said, and the files' blocks follow the order
\* of the clips, whatever is appended, deleted and reordered in between.
TranscriptOrder ==
    /\ \A i, j \in Present : blocks[i].seq = blocks[j].seq => i = j
    /\ \A i, j \in Present \cap Mic :
        i[1] = j[1] /\ i[2] < j[2] => blocks[i].seq < blocks[j].seq
    /\ \A c, d \in FileBlocks :
        position[c] < position[d] => blocks[c].seq < blocks[d].seq

\* Whoever waits for a pending block does not wait in vain: an entry is in the
\* queue, or a worker or the request itself will still write the block.
Attended(c) ==
    \/ entries[c] > 0
    \/ \E w \in Workers : clipOf[w] = c /\ pc[w] \in {"fetch", "decode", "read", "write"}
    \/ \E kind \in {"append", "retry"} : pc[<<kind, c>>] \in {"enqueue", "read", "write"}

PendingIsAttended ==
    \A c \in FileBlocks : blocks[c].state = "pending" => Attended(c)

\* A file is on disk only while its clip exists, or the upload or the removal
\* of it is still under way; a clip without its file is one that a pipeline has
\* transcribed under DELETE_AUDIO_AFTER_TRANSCRIBE.  Nothing else loses either.
FilesAccounted ==
    \A c \in Clips :
        /\ c \in files => \/ HasClip(c) \/ pc[<<"append", c>>] = "upload"
                          \/ pc[<<"remove", c>>] = "unlink"
        /\ HasClip(c) => c \in files \/ c \in dropped

\* The finished session's result holds the microphone text as the transcript
\* has it, although sockets, edits and workers race the close.
ResultMatchesTranscript == session = "done" => result = MicText

\* A browser told that all is saved had every utterance it sent handled.
FinishSaved == \A s \in Sockets : client[s] = "saved" => answered[s] = sent[s]

\* LIVE_MAX_QUEUED sheds nothing: whichever way an utterance ended, its place
\* is free when the next one is received, so speech that is too fast is delayed
\* (and held back by the browser's own cap), never answered with "dropped".
NeverBusy == \A s \in Sockets : sock[s] = "wait" => inflight[s] < MaxQueued

\* Once the login has ended, a socket stores nothing but the one utterance that
\* was past its last check.
RevokedStoresNothing ==
    ~access => \A s \in Sockets : sock[s] = "store" => s \in excused

\* No transcription, of whichever attempt, overwrites what the user typed.
EditKept ==
    [][\A i \in BlockIds :
        blocks[i] # None /\ blocks[i].edited /\ blocks'[i] # None
            => blocks'[i].text = "user"]_vars

-----------------------------------------------------------------------------
(* Liveness, under FairSessionSpec. *)

\* A pending block is resolved or deleted some day.
PendingResolved ==
    \A c \in Clips :
        (blocks[c] # None /\ blocks[c].state = "pending")
            ~> (blocks[c] = None \/ blocks[c].state # "pending")

\* Every utterance sent is answered, or its connection ends.
UtteranceSettled ==
    \A m \in Mic : sent[m[1]] >= m[2]
                       ~> answered[m[1]] >= m[2] \/ sock[m[1]] = "closed"
=============================================================================
