-------------------------- MODULE RecordingPipeline --------------------------
(***************************************************************************)
(* The life of a recording: the API handlers, the supervisors and the      *)
(* decoders composed over the state they share.  Every commit, every Redis *)
(* call and every file operation is a step of its own, so that the steps   *)
(* of all of them interleave.                                              *)
(***************************************************************************)
EXTENDS JobApi, Supervisor, Decoder

Init ==
    /\ status = [j \in Jobs |-> "absent"]
    /\ canceling = [j \in Jobs |-> FALSE]
    /\ rqId = [j \in Jobs |-> FALSE]
    /\ flag = [j \in Jobs |-> FALSE]
    /\ rq = [j \in Jobs |-> 0]
    /\ source = [j \in Jobs |-> "none"]
    /\ mixdown = [j \in Jobs |-> FALSE]
    /\ result = [j \in Jobs |-> FALSE]
    /\ supPc = [w \in Workers |-> "idle"]
    /\ supJob = [w \in Workers |-> NoJob]
    /\ childPc = [w \in Workers |-> "none"]
    /\ api = [j \in Jobs |-> "idle"]
    /\ rqSeen = FALSE
    /\ pool = [j \in Jobs |-> "idle"]
    /\ admin = [j \in Jobs |-> "idle"]
    /\ found = [j \in Jobs |-> "absent"]

Next ==
    \/ \E j \in Jobs : UserStep(j) \/ LoopStep(j) \/ PoolStep(j)
    \/ \E w \in Workers, j \in Jobs : SupDequeue(w, j)
    \/ \E w \in Workers :
           \/ SupStep(w) \/ SupSpawnFails(w) \/ SupTimeout(w)
           \/ SupTimeoutLate(w) \/ SupCrash(w) \/ SupRestart(w)
           \/ ChildStep(w) \/ ChildRaises(w) \/ ChildDies(w)

Spec == Init /\ [][Next]_vars

\* A handler that runs gets to its end, a process is scheduled, audio of
\* finite length is decoded in finite time, and RQ takes entries in order: an
\* entry that waits while workers keep coming back is taken.  Nobody has to
\* click, and no fault has to happen.
Fairness ==
    /\ \A j \in Jobs : WF_vars(LoopStep(j))
    /\ \A j \in Jobs : WF_vars(CloseStep(j)) /\ WF_vars(SuspendStep(j))
    /\ \A j \in Jobs : SF_vars(\E w \in Workers : SupDequeue(w, j))
    /\ \A w \in Workers : WF_vars(SupStep(w)) /\ WF_vars(ChildStep(w))
    /\ \A w \in Workers : WF_vars(SupRestart(w))

FairSpec == Spec /\ Fairness

-----------------------------------------------------------------------------
(* Invariants. *)

\* Types of every variable; in particular the queue never loses an entry it
\* does not have, and only an idle supervisor has no job.
TypeOK ==
    /\ status    \in [Jobs -> Statuses]
    /\ canceling \in [Jobs -> BOOLEAN]
    /\ rqId      \in [Jobs -> BOOLEAN]
    /\ flag      \in [Jobs -> BOOLEAN]
    /\ rq        \in [Jobs -> 0..MaxEntries]
    /\ source    \in [Jobs -> Sources]
    /\ mixdown   \in [Jobs -> BOOLEAN]
    /\ result    \in [Jobs -> BOOLEAN]
    /\ supPc     \in [Workers -> SupPcs]
    /\ supJob    \in [Workers -> Jobs \cup {NoJob}]
    /\ \A w \in Workers : supPc[w] # "idle" => supJob[w] \in Jobs
    /\ childPc   \in [Workers -> ChildPcs]
    /\ api       \in [Jobs -> ApiPcs]
    /\ rqSeen    \in BOOLEAN
    /\ pool      \in [Jobs -> PoolPcs]
    /\ admin     \in [Jobs -> AdminPcs]
    /\ found     \in [Jobs -> {"absent", "queued", "running"}]

Decoding(w, j) == supJob[w] = j /\ childPc[w] \in LivePcs

Supervising(w, j) == supJob[w] = j /\ supPc[w] \notin {"idle", "claim", "down"}

\* A recording never has two live decoders, whatever queue entries, retries
\* and stops have done (the claim in run_isolated).
SingleDecoder ==
    \A j \in Jobs : \A v, w \in Workers :
        Decoding(v, j) /\ Decoding(w, j) => v = w

\* A stop that is shown as confirmed (stage "canceled") is confirmed: no
\* decoder is left (cancel_job's CASE, _cleanup_canceled's fully_stopped).
StopConfirmed ==
    \A j \in Jobs : status[j] = "canceled" /\ ~canceling[j]
        => \A w \in Workers : ~Decoding(w, j)

\* No decoder reads a session while it is edited: reopen waits for its end.
EditableAlone ==
    \A j \in Jobs : status[j] = "open" => \A w \in Workers : ~Decoding(w, j)

\* What a suspension has read of a recording is true until it commits: the
\* Redis calls that it makes meanwhile let no claim, callback or deletion slip
\* between (set_status writes a stage and a status that it has not read again).
SuspensionHolds ==
    \A j \in Jobs : admin[j] # "idle" =>
        status[j] = found[j] /\ found[j] \in {"queued", "running"}

\* A recording in the queue has its audio, also when the audio is dropped
\* after a transcription that was stopped between the two.
QueuedHasSource == \A j \in Jobs : status[j] = "queued" => source[j] = "kept"

\* Without DELETE_AUDIO_AFTER_TRANSCRIBE an upload keeps its audio, for a
\* retry, through every failure and stop, until it is deleted.
SourceKept == \A j \in Jobs \ Sessions : HasRow(j) => source[j] = "kept"

\* A user's stop costs nobody the audio that a retry needs.
CanceledKeepsSource ==
    \A j \in Jobs : status[j] = "canceled" => source[j] = "kept"

\* A recording shown as DONE has its result; if the supervisor has just taken
\* it back, the row follows (run_isolated's cleanup after a late flag, or its
\* except clause when that cleanup is cut short).
DoneHasResult ==
    \A j \in Jobs : status[j] = "done" =>
        \/ result[j]
        \/ \E w \in Workers :
               supJob[w] = j /\ supPc[w] \in {"unflag", "settle", "abort", "fail"}

Quiet(j) == /\ api[j] = "idle" /\ pool[j] = "idle" /\ admin[j] = "idle"
            /\ \A w \in Workers : supJob[w] # j

\* When the delete request and the worker are both through with a deleted
\* recording, no audio, no mixdown and no result of it is left on disk.
DeletedLeavesNothing ==
    \A j \in Jobs : status[j] = "deleted" /\ Quiet(j)
        => source[j] # "kept" /\ ~mixdown[j] /\ ~result[j]

\* A QUEUED row has an entry in the queue, or a handler that will add one, or
\* a supervisor about to claim it, or a suspension that will stop it: it is not
\* forgotten.
QueuedHasDelivery ==
    \A j \in Jobs : status[j] = "queued" =>
        \/ rq[j] > 0 \/ pool[j] = "enqueue" \/ admin[j] = "commit"
        \/ api[j] \in {"createEnqueue", "retryUnflag", "retryEnqueue"}
        \/ \E w \in Workers : supJob[w] = j /\ supPc[w] = "claim"

-----------------------------------------------------------------------------
(* Why the decoder is alone: the strengthening that every step preserves as *)
(* long as no failure is reported behind a supervisor's back.               *)

\* The faults after which FAILED may be written while a supervisor or a
\* decoder still attends to the recording: the child reports its exception
\* before it exits, and an enqueue that fails does not know that an older
\* entry has been claimed meanwhile.
NoLateFailure == Faults \cap {"raise", "enqueue"} = {}

\* The supervisor holds the recording, or its child has not been reaped.
Attending(w, j) ==
    Supervising(w, j) \/ (supJob[w] = j /\ childPc[w] # "none")

\* A child exists only between its spawn and its end.
ChildHasParent ==
    \A w \in Workers :
        supPc[w] \in {"idle", "claim", "spawn", "wipe", "unflag", "settle",
                     "final", "died", "fail"} => childPc[w] = "none"

AttendedAlone ==
    \A j \in Jobs : \A v, w \in Workers :
        Attending(v, j) /\ Attending(w, j) => v = w

\* What is attended to cannot be edited, submitted or claimed.
AttendedIsTaken ==
    \A j \in Jobs : \A w \in Workers : Attending(w, j) =>
        \/ status[j] \in {"running", "done", "deleted"}
        \/ status[j] = "canceled" /\ canceling[j]

\* A decoder that has yet to open its clips, or its audio, will find them, or it
\* works for a deleted recording; so it does not fail on its own.
SourceAwaitsDecoder ==
    \A j \in Jobs : \A w \in Workers :
        supJob[w] = j /\ (supPc[w] = "spawn"
                          \/ childPc[w] \in {"start", "begin", "assemble", "mix"})
            => source[j] = "kept" \/ status[j] = "deleted"

AudioAwaitsDecoder ==
    \A w \in Workers : childPc[w] = "decode" =>
        HasAudio(supJob[w]) \/ status[supJob[w]] = "deleted"

FailureIsAfterDelete ==
    \A w \in Workers :
        childPc[w] = "fail" => status[supJob[w]] = "deleted"

DeleteIsUnderWay ==
    \A j \in Jobs :
        api[j] \in {"deleteReflag", "deleteDrop", "deleteFiles"}
            => status[j] = "deleted"

\* A recording that is attended to is attended to by one worker, cannot be
\* edited, submitted or claimed, and a queued one has its audio: the invariant
\* from which SingleDecoder, StopConfirmed, EditableAlone and QueuedHasSource
\* follow.
ExclusiveInv ==
    /\ ChildHasParent
    /\ AttendedAlone
    /\ AttendedIsTaken
    /\ QueuedHasSource
    /\ SourceAwaitsDecoder
    /\ AudioAwaitsDecoder
    /\ FailureIsAfterDelete
    /\ DeleteIsUnderWay

-----------------------------------------------------------------------------
(* Action properties. *)

\* A canceled recording is revived by nobody but its user: no late callback of
\* a worker moves it, and retry and reopen wait for the confirmed stop.
OnlyUserRevives ==
    \A j \in Jobs : status[j] = "canceled" =>
        \/ status'[j] \in {"canceled", "deleted"}
        \/ ~canceling[j] /\ status'[j] \in {"queued", "open"}

NoRevival == [][OnlyUserRevives]_vars

\* FAILED is final for the workers: a decoder that was given up on does not
\* report progress, a result or a stop afterwards.
FailedIsStable ==
    [][\A j \in Jobs : status[j] = "failed" =>
           status'[j] \in {"failed", "queued", "open", "deleted"}]_vars

\* A finished recording stays finished until it is deleted.
DoneIsFinal ==
    [][\A j \in Jobs : status[j] = "done" => status'[j] \in {"done", "deleted"}]_vars

-----------------------------------------------------------------------------
(* Liveness, under FairSpec. *)

\* What is queued is claimed, canceled, failed or deleted some day.
QueuedMovesOn == \A j \in Jobs : status[j] = "queued" ~> status[j] # "queued"

\* A stop of a recording that has its supervisor is confirmed some day (or the
\* recording is deleted), also when every Redis call fails, unless this
\* supervisor is killed or leaves run_isolated through its except clause: the
\* FAILED that it writes there changes nothing of a canceled row, and nobody
\* else confirms the stop.
SupervisedStopSettles ==
    \A j \in Jobs :
        canceling[j] /\ (\E w \in Workers : Supervising(w, j))
            ~> \/ ~canceling[j]
               \/ \E w \in Workers :
                      supJob[w] = j /\ supPc[w] \in {"died", "abort", "fail", "down"}

\* Every stop is confirmed some day.
EveryStopSettles == \A j \in Jobs : canceling[j] ~> ~canceling[j]

-----------------------------------------------------------------------------
(* The abstract specification. *)

Phase(j) == IF status[j] # "canceled" THEN status[j]
            ELSE IF canceling[j] THEN "stopping" ELSE "stopped"

Lifecycle == INSTANCE RecordingLifecycle WITH
    phase <- [j \in Jobs |-> Phase(j)],
    attended <- [j \in Jobs |-> \E w \in Workers : Attending(w, j)]

\* The pipeline implements the recording lifecycle.
ImplementsLifecycle == Lifecycle!LifecycleSpec
=============================================================================
