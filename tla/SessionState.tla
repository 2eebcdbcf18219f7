---------------------------- MODULE SessionState ----------------------------
(***************************************************************************)
(* One recording session while it is edited: its clips and the blocks of   *)
(* its transcript (SQLite), the clip files, the clip entries of the queue, *)
(* the sockets of the live microphone, and everyone who writes a block.    *)
(***************************************************************************)
EXTENDS Integers, FiniteSets

CONSTANTS
    Clips,          \* uploads that may be added; an id is never reused
    Sockets,        \* live microphone connections of the owner
    Utterances,     \* bound on the utterances of one socket
    Workers,        \* queue workers that take clip entries
    MaxFiles,       \* config.MAX_SESSION_FILES
    ClientCap,      \* unanswered utterances a browser allows itself
    MaxConcurrent,  \* config.LIVE_MAX_CONCURRENT
    MaxQueued,      \* config.LIVE_MAX_QUEUED
    DeleteAudio,    \* config.DELETE_AUDIO_AFTER_TRANSCRIBE
    None,           \* no such block, or no clip in hand
    SessionFaults   \* what goes wrong in this environment

BlockStates == {"pending", "done", "failed"}

\* Nothing yet, what was decoded, a notice of failure, what the user typed.
Texts == {"", "asr", "notice", "user"}

Blocks == [seq : Nat, state : BlockStates, text : Texts, edited : BOOLEAN]

Mic      == Sockets \X (1 .. Utterances)
BlockIds == Clips \cup Mic
Handlers == {"append", "retry", "remove"} \X Clips
Actors   == Handlers \cup Workers

\* "enqueue": Redis refuses an entry; "raise": a decode fails; "leave": a
\* browser goes away; "revoke": the owner's login ends while sockets are open.
ASSUME SessionAssumption ==
    /\ Utterances \in Nat /\ MaxFiles \in Nat
    /\ ClientCap \in Nat \ {0} /\ MaxConcurrent \in Nat \ {0}
    /\ MaxQueued \in Nat \ {0} /\ DeleteAudio \in BOOLEAN
    /\ SessionFaults \subseteq {"enqueue", "raise", "leave", "revoke"}
    /\ None \notin Clips \cup Blocks
    /\ Clips \cap Mic = {} /\ Workers \cap Handlers = {}

VARIABLES
    session,   \* jobs.status; "busy" stands for the whole RecordingPipeline
    position,  \* audio_clips.position, 0 for no row
    files,     \* clips whose file is on disk
    dropped,   \* history: clips whose file the pipeline unlinked
    blocks,    \* live_blocks; a file block has the id of its clip
    entries,   \* queue entries clip-{id}
    pc,        \* where a clip handler or a worker is
    clipOf,    \* the clip a worker works on
    decoded,   \* did its decode succeed?
    saw,       \* the block as resolve_file_block read it
    result,    \* microphone text in results/{job}.json, by block
    sock,      \* where the server coroutine of a socket is
    client,    \* where its browser is
    inflight,  \* the coroutine's count of utterances it works on
    sent, answered, heard, \* utterances sent, answered, answers received
    access,    \* the cookie is a login of an approved account
    excused    \* sockets past their last check when access ended

clipVars == <<session, position, files, dropped, blocks, entries, pc, clipOf,
              decoded, saw, result>>
liveVars == <<sock, client, inflight, sent, answered, heard, access, excused>>
vars     == <<clipVars, liveVars>>

ActorPcs  == {"idle", "upload", "enqueue", "unlink", "gone", "fetch", "decode",
              "read", "write"}
SockPcs   == {"off", "wait", "queued", "decode", "recheck", "store", "finished",
              "closed"}
ClientPcs == {"off", "talking", "finishing", "saved", "broken"}

-----------------------------------------------------------------------------
\* Queries.

HasClip(c)   == position[c] # 0
HasBlock(i)  == blocks[i] # None
Present      == {i \in BlockIds : HasBlock(i)}
FileBlocks   == Present \cap Clips
MicDone      == {i \in Present \cap Mic : blocks[i].state = "done"}
Largest(S)   == CHOOSE n \in S \cup {0} : \A m \in S : m <= n

\* db.next_block_seq
NextSeqByCount == Cardinality(Present) + 1      \* mutant: COUNT instead of MAX
NextSeq == Largest({blocks[i].seq : i \in Present}) + 1

PendingBlock == [seq |-> NextSeq, state |-> "pending", text |-> "", edited |-> FALSE]
MicBlock == [seq |-> NextSeq, state |-> "done", text |-> "asr", edited |-> FALSE]

NoResult == [i \in {} |-> ""]

Put(i, b) == blocks' = [blocks EXCEPT ![i] = b]

\* The text of the finished microphone blocks, as close and the pipeline save it.
MicText == [i \in MicDone |-> blocks[i].text]

-----------------------------------------------------------------------------
\* live.resolve_file_block: a SELECT, and later an UPDATE of the columns whose
\* values differ from those selected; no write lock, no look at the session.

ClipOf(p)  == IF p \in Handlers THEN p[2] ELSE clipOf[p]
Outcome(p) == IF p \in Workers /\ decoded[p] THEN "done" ELSE "failed"
Wording(p) == IF Outcome(p) = "done" THEN "asr" ELSE "notice"

\* A worker between two entries works on no clip.
LetGo(p) ==
    /\ clipOf' = [w \in Workers |-> IF w = p THEN None ELSE clipOf[w]]
    /\ decoded' = [w \in Workers |-> decoded[w] /\ w # p]

\* Uploads have ids of their own; a worker or a retry may start again.
Rest(p) == IF p \in {"append"} \X Clips THEN "gone" ELSE "idle"

Finish(p) ==
    /\ pc' = [pc EXCEPT ![p] = Rest(p)]
    /\ saw' = [saw EXCEPT ![p] = None]
    /\ LetGo(p)

ResolveRead(p) ==
    LET b == blocks[ClipOf(p)] IN
    /\ pc[p] = "read"
    /\ IF b = None \/ b.edited
       THEN Finish(p)
       ELSE /\ pc' = [pc EXCEPT ![p] = "write"]
            /\ saw' = [saw EXCEPT ![p] = b] /\ UNCHANGED <<clipOf, decoded>>
    /\ UNCHANGED <<session, position, files, dropped, blocks, entries, result, liveVars>>

\* A row that went away in between makes the UPDATE fail (StaleDataError).
ResolveWrite(p) ==
    LET c == ClipOf(p)
        Changed(new, old, now) == IF new = old THEN now ELSE new
    IN
    /\ pc[p] = "write"
    /\ IF HasBlock(c)
       THEN Put(c, [blocks[c] EXCEPT
                        !.state = Changed(Outcome(p), saw[p].state, @),
                        !.text  = Changed(Wording(p), saw[p].text, @)])
       ELSE UNCHANGED blocks
    /\ Finish(p)
    /\ UNCHANGED <<session, position, files, dropped, entries, result, liveVars>>
=============================================================================
