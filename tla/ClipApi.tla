------------------------------- MODULE ClipApi -------------------------------
(***************************************************************************)
(* The requests of the session page (sessions.py, live.py).  append_clip   *)
(* runs on the event loop; the others run in the thread pool.  A request   *)
(* that takes the write lock is one step from its checks to its commit.    *)
(***************************************************************************)
EXTENDS SessionState, Functions

Open == session = "open"

Rows == {c \in Clips : HasClip(c)}

NextPosition == Largest({position[d] : d \in Rows}) + 1

\* After its commit append_clip has no await: nothing else on the event loop
\* moves until it has answered.
LoopFree == \A c \in Clips : pc[<<"append", c>>] \notin {"enqueue", "read", "write"}

Goto(p, where) == pc' = [pc EXCEPT ![p] = where]

\* append_clip: the unlocked check, then the file arrives ...
AppendStart(c) ==
    /\ Open /\ LoopFree /\ pc[<<"append", c>>] = "idle"
    /\ files' = files \cup {c}
    /\ Goto(<<"append", c>>, "upload")
    /\ UNCHANGED <<session, position, dropped, blocks, entries, clipOf, decoded, saw,
                   result, liveVars>>

\* ... then the locked half: the clip and its reserved block ...
AppendCommit(c) ==
    /\ pc[<<"append", c>>] = "upload" /\ LoopFree
    /\ Open /\ Cardinality(Rows) < MaxFiles
    /\ position' = [position EXCEPT ![c] = NextPosition]
    /\ Put(c, PendingBlock)
    /\ Goto(<<"append", c>>, "enqueue")
    /\ UNCHANGED <<session, files, dropped, entries, clipOf, decoded, saw, result, liveVars>>

\* ... or nothing: it is unreadable, too large, one too many or too late.
AppendRefusedKeeps(c) ==                   \* mutant: the file stays behind
    /\ pc[<<"append", c>>] = "upload" /\ LoopFree
    /\ Goto(<<"append", c>>, "gone")
    /\ UNCHANGED <<session, position, files, dropped, blocks, entries, clipOf, decoded,
                   saw, result, liveVars>>
AppendRefused(c) ==
    /\ pc[<<"append", c>>] = "upload" /\ LoopFree
    /\ files' = files \ {c}
    /\ Goto(<<"append", c>>, "gone")
    /\ UNCHANGED <<session, position, dropped, blocks, entries, clipOf, decoded, saw,
                   result, liveVars>>

\* enqueue_clip, of an upload or of a retry.
ClipQueued(h) ==
    /\ pc[h] = "enqueue"
    /\ entries' = [entries EXCEPT ![h[2]] = @ + 1]
    /\ Goto(h, Rest(h))
    /\ UNCHANGED <<session, position, files, dropped, blocks, clipOf, decoded, saw, result,
                   liveVars>>

ClipNotQueuedForgets(h) ==                 \* mutant: the block is left pending
    /\ "enqueue" \in SessionFaults /\ pc[h] = "enqueue"
    /\ Goto(h, Rest(h))
    /\ UNCHANGED <<session, position, files, dropped, blocks, entries, clipOf, decoded,
                   saw, result, liveVars>>
ClipNotQueued(h) ==
    /\ "enqueue" \in SessionFaults /\ pc[h] = "enqueue"
    /\ Goto(h, "read")
    /\ UNCHANGED <<session, position, files, dropped, blocks, entries, clipOf, decoded,
                   saw, result, liveVars>>

\* retry_clip.  Bound: one retry of a clip at a time.
RetryClipAnyState(c) ==                    \* mutant: the state is not looked at
    /\ Open /\ pc[<<"retry", c>>] = "idle"
    /\ HasClip(c) /\ HasBlock(c)
    /\ Put(c, [blocks[c] EXCEPT !.state = "pending", !.text = ""])
    /\ Goto(<<"retry", c>>, "enqueue")
    /\ UNCHANGED <<session, position, files, dropped, entries, clipOf, decoded, saw, result,
                   liveVars>>
RetryClip(c) ==
    /\ Open /\ pc[<<"retry", c>>] = "idle"
    /\ HasClip(c) /\ HasBlock(c) /\ blocks[c].state = "failed"
    /\ Put(c, [blocks[c] EXCEPT !.state = "pending", !.text = ""])
    /\ Goto(<<"retry", c>>, "enqueue")
    /\ UNCHANGED <<session, position, files, dropped, entries, clipOf, decoded, saw, result,
                   liveVars>>

\* remove_clip unlinks the file after its transaction.
RemoveClip(c) ==
    /\ Open /\ HasClip(c)
    /\ position' = [position EXCEPT ![c] = 0]
    /\ Put(c, None)
    /\ Goto(<<"remove", c>>, "unlink")
    /\ UNCHANGED <<session, files, dropped, entries, clipOf, decoded, saw, result, liveVars>>

RemoveFile(c) ==
    /\ pc[<<"remove", c>>] = "unlink"
    /\ files' = files \ {c}
    /\ Goto(<<"remove", c>>, "idle")
    /\ UNCHANGED <<session, position, dropped, blocks, entries, clipOf, decoded, saw, result,
                   liveVars>>

\* reorder: the clips in a new order, and the file blocks on their old slots
\* in the order of their clips.
Orders == Injection(Rows, 1 .. Cardinality(Rows))

Seatings(order) ==
    {slot \in Injection(FileBlocks, FileBlocks) :
        \A c, d \in FileBlocks :
            order[c] < order[d] => blocks[slot[c]].seq <= blocks[slot[d]].seq}

Reseated(slot) ==
    [i \in BlockIds |->
        IF i \in FileBlocks THEN [blocks[i] EXCEPT !.seq = blocks[slot[i]].seq]
                            ELSE blocks[i]]

ReorderClipsOnly ==                        \* mutant: the blocks stay where they are
    /\ Open
    /\ \E order \in Orders :
        position' = [c \in Clips |-> IF c \in Rows THEN order[c] ELSE 0]
    /\ UNCHANGED <<session, files, dropped, blocks, entries, pc, clipOf, decoded, saw, result,
                   liveVars>>
Reorder ==
    /\ Open
    /\ \E order \in Orders : \E slot \in Seatings(order) :
        /\ position' = [c \in Clips |-> IF c \in Rows THEN order[c] ELSE 0]
        /\ blocks' = Reseated(slot)
    /\ UNCHANGED <<session, files, dropped, entries, pc, clipOf, decoded, saw, result, liveVars>>

-----------------------------------------------------------------------------
\* The transcript.

EditBlock(i) ==
    /\ Open /\ HasBlock(i) /\ blocks[i].state = "done"
    /\ Put(i, [blocks[i] EXCEPT !.text = "user", !.edited = TRUE])
    /\ UNCHANGED <<session, position, files, dropped, entries, pc, clipOf, decoded, saw, result,
                   liveVars>>

\* delete_block does not look at the state of the block.
DeleteBlock(i) ==
    /\ Open /\ HasBlock(i)
    /\ Put(i, None)
    /\ UNCHANGED <<session, position, files, dropped, entries, pc, clipOf, decoded, saw, result,
                   liveVars>>

\* close_session without clips: the microphone text is the result.
CloseLive ==
    /\ Open /\ Rows = {} /\ MicDone # {}
    /\ session' = "done" /\ result' = MicText
    /\ UNCHANGED <<position, files, dropped, blocks, entries, pc, clipOf, decoded, saw, liveVars>>

\* close_session with clips: the rest is the recording pipeline's.
CloseClips ==
    /\ Open /\ Rows # {} /\ Rows \subseteq files
    /\ session' = "busy"
    /\ UNCHANGED <<position, files, dropped, blocks, entries, pc, clipOf, decoded, saw, result,
                   liveVars>>

\* run_transcription with DELETE_AUDIO_AFTER_TRANSCRIBE: the clips stay as rows.
PipelineDropsFile(c) ==
    /\ session = "busy" /\ DeleteAudio
    /\ HasClip(c) /\ c \in files
    /\ files' = files \ {c} /\ dropped' = dropped \cup {c}
    /\ UNCHANGED <<session, position, blocks, entries, pc, clipOf, decoded, saw, result,
                   liveVars>>

\* run_transcription appends the microphone text to what it decodes; "done" is
\* a result that its supervisor has left in place.
PipelineSaves ==
    /\ session = "busy"
    /\ DeleteAudio => Rows \cap files = {}
    /\ session' = "done" /\ result' = MicText
    /\ UNCHANGED <<position, files, dropped, blocks, entries, pc, clipOf, decoded, saw,
                   liveVars>>

\* The pipeline ends without a result, before or after it has unlinked files,
\* and the session is reopened.
Reopen ==
    /\ session = "busy"
    /\ session' = "open"
    /\ UNCHANGED <<position, files, dropped, blocks, entries, pc, clipOf, decoded, saw,
                   result, liveVars>>

\* delete_job.
DeleteSession ==
    /\ session # "deleted" /\ LoopFree
    /\ session' = "deleted"
    /\ position' = [c \in Clips |-> 0]
    /\ files' = files \ Rows
    /\ blocks' = [i \in BlockIds |-> None]
    /\ result' = NoResult
    /\ UNCHANGED <<dropped, entries, pc, clipOf, decoded, saw, liveVars>>
=============================================================================
