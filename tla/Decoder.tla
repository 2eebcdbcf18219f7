------------------------------- MODULE Decoder -------------------------------
(***************************************************************************)
(* tasks.run_transcription in the child process of supervisor w            *)
(* (job_process.py): the pipeline of one recording, from the check of its  *)
(* row to the saved result.                                                *)
(***************************************************************************)
EXTENDS PipelineState

ChildGoto(w, pc) == childPc' = [childPc EXCEPT ![w] = pc]

\* A recording that is gone or canceled before it starts: exit 0.
ChildStart(w) ==
    /\ childPc[w] = "start"
    /\ LET j == supJob[w] IN
       \/ /\ ~HasRow(j)
          /\ PurgeAudio(j) /\ ClearCancel(j) /\ ChildGoto(w, "exit0")
       \/ /\ HasRow(j)
          /\ status[j] = "canceled" \/ TRUE \in CancelAnswers(j)
          /\ ClearCancel(j) /\ ChildGoto(w, "exit0")
          /\ UNCHANGED <<source, mixdown>>
       \/ /\ HasRow(j)
          /\ status[j] # "canceled" /\ FALSE \in CancelAnswers(j)
          /\ ChildGoto(w, "begin")
          /\ UNCHANGED <<flag, source, mixdown>>
    /\ UNCHANGED <<row, rq, result, sup, web>>

ChildBegin(w) ==
    /\ childPc[w] = "begin"
    /\ Update(supJob[w], "running") /\ ChildGoto(w, "assemble")
    /\ UNCHANGED <<rqId, redis, files, sup, web>>

\* An upload's file, or the rows and the files of a session's clips.
ChildAssemble(w) ==
    /\ childPc[w] = "assemble"
    /\ ChildGoto(w, IF source[supJob[w]] # "kept" THEN "fail"
                    ELSE IF supJob[w] \in Sessions THEN "mix" ELSE "decode")
    /\ UNCHANGED <<row, redis, files, sup, web>>

\* The end of concatenate_audio, minutes later: the mixdown replaces the one
\* before.  A clip that was unlinked meanwhile is missed only by a mix that
\* has not opened it yet.
ChildMix(w) ==
    /\ childPc[w] = "mix"
    /\ \/ /\ mixdown' = [mixdown EXCEPT ![supJob[w]] = TRUE]
          /\ ChildGoto(w, "decode")
       \/ /\ source[supJob[w]] # "kept"
          /\ ChildGoto(w, "fail") /\ UNCHANGED mixdown
    /\ UNCHANGED <<row, redis, source, result, sup, web>>

\* The file that the recognizer opens.
HasAudio(j) == IF j \in Sessions THEN mixdown[j] ELSE source[j] = "kept"

\* Decoding, diarization and the should_cancel checks between them.  Every
\* check reads the flag, but only some read the row (one every five seconds).
\* Audio that disappears is missed only by a decoder that has not opened it.
ChildDecode(w) ==
    /\ childPc[w] = "decode"
    /\ \/ /\ TRUE \in CancelAnswers(supJob[w]) \/ Canceled(supJob[w])
          /\ ChildGoto(w, "undo")
       \/ FALSE \in CancelAnswers(supJob[w]) /\ ChildGoto(w, "save")
       \/ ~HasAudio(supJob[w]) /\ ChildGoto(w, "fail")
    /\ UNCHANGED <<row, redis, files, sup, web>>

ChildSave(w) ==
    /\ childPc[w] = "save"
    /\ result' = [result EXCEPT ![supJob[w]] = TRUE]
    /\ ChildGoto(w, IF DeleteAudio THEN "drop" ELSE "commit")
    /\ UNCHANGED <<row, redis, source, mixdown, sup, web>>

\* DELETE_AUDIO_AFTER_TRANSCRIBE: before the row says DONE.
ChildDropAudio(w) ==
    /\ childPc[w] = "drop"
    /\ source' = [source EXCEPT ![supJob[w]] = IF @ = "kept" THEN "lost" ELSE @]
    /\ mixdown' = [mixdown EXCEPT ![supJob[w]] = FALSE]
    /\ ChildGoto(w, "commit")
    /\ UNCHANGED <<row, redis, result, sup, web>>

ChildCommit(w) ==
    /\ childPc[w] = "commit"
    /\ Update(supJob[w], "done") /\ ChildGoto(w, "clear")
    /\ UNCHANGED <<rqId, redis, files, sup, web>>

ChildClear(w) ==
    /\ childPc[w] = "clear"
    /\ ClearCancel(supJob[w]) /\ ChildGoto(w, "exit0")
    /\ UNCHANGED <<row, rq, files, sup, web>>

\* except TranscriptionCanceled: _cleanup_canceled, not fully stopped.
ChildUndo(w) ==
    /\ childPc[w] = "undo"
    /\ DeleteResult(supJob[w]) /\ ChildGoto(w, "park")
    /\ UNCHANGED <<row, redis, source, mixdown, sup, web>>

ChildPark(w) ==
    /\ childPc[w] = "park"
    /\ CleanupRow(supJob[w], FALSE) /\ ChildGoto(w, "exit0")
    /\ UNCHANGED <<rqId, redis, result, sup, web>>

\* except Exception: FAILED, then the exception ends the process.
ChildFail(w) ==
    /\ childPc[w] = "fail"
    /\ Update(supJob[w], "failed") /\ ChildGoto(w, "exit1")
    /\ UNCHANGED <<rqId, redis, files, sup, web>>

ChildStep(w) ==
    \/ ChildStart(w) \/ ChildBegin(w) \/ ChildAssemble(w) \/ ChildMix(w)
    \/ ChildDecode(w) \/ ChildSave(w) \/ ChildDropAudio(w) \/ ChildCommit(w)
    \/ ChildClear(w) \/ ChildUndo(w) \/ ChildPark(w) \/ ChildFail(w)

\* Anything in the try block may raise: a corrupt clip, no model, a full disk,
\* a locked database.
ChildRaises(w) ==
    /\ "raise" \in Faults
    /\ childPc[w] \in {"assemble", "mix", "decode", "save", "drop", "commit"}
    /\ ChildGoto(w, "fail")
    /\ UNCHANGED <<row, redis, files, sup, web>>

\* A crash in native code, or the kernel's OOM killer.
ChildDies(w) ==
    /\ "native" \in Faults
    /\ childPc[w] \in LivePcs
    /\ ChildGoto(w, "exit1")
    /\ UNCHANGED <<row, redis, files, sup, web>>
=============================================================================
