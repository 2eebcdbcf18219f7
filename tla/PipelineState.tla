---------------------------- MODULE PipelineState ----------------------------
(***************************************************************************)
(* What the API process, the queue supervisors and the decoder processes   *)
(* share: the job row (SQLite), the cancel flag and the queue entries      *)
(* (Redis), the audio and result files; and where each process is.  The    *)
(* three stores are independent: no step of the code spans two of them.    *)
(***************************************************************************)
EXTENDS Naturals, FiniteSets

CONSTANTS
    Jobs,        \* recordings; an id is never reused (uuid4)
    Sessions,    \* the recordings that are multi-clip sessions
    Workers,     \* supervisor processes, each with at most one child
    NoJob,       \* what an idle supervisor works on
    MaxEntries,  \* bound on the queue entries of one recording
    DeleteAudio, \* config.DELETE_AUDIO_AFTER_TRANSCRIBE
    Ops,         \* the requests made in this environment
    Faults       \* what goes wrong in this environment

AllOps == {"create", "session", "close", "reopen", "retry", "cancel", "delete",
           "sweep", "suspend"}

\* "raise": the child's pipeline raises; "native": the child dies without a
\* word; "spawn": Popen fails; "timeout": WORKER_JOB_TIMEOUT expires, in
\* run_isolated's own check or as RQ's alarm; "crash": a supervisor is killed;
\* "enqueue": Redis refuses a new entry; "redis": a flag or cancel call fails,
\* which queue.py swallows.
AllFaults == {"raise", "native", "spawn", "timeout", "crash", "enqueue", "redis"}

ASSUME JobsAssumption == NoJob \notin Jobs /\ Sessions \subseteq Jobs
ASSUME BoundAssumption == MaxEntries \in Nat \ {0}
ASSUME EnvironmentAssumption ==
    DeleteAudio \in BOOLEAN /\ Ops \subseteq AllOps /\ Faults \subseteq AllFaults

VARIABLES
    status,    \* jobs.status, with "absent" and "deleted" for no row
    canceling, \* jobs.stage = "canceling"
    rqId,      \* jobs.rq_job_id is set
    flag,      \* Redis key majles:cancel:{job}
    rq,        \* number of entries transcribe-{job} waiting in the queue
    source,    \* the upload, or the clips of a session, and their files
    mixdown,   \* the assembled {job}.mp3 of a session is on disk
    result,    \* results/{job}.json is on disk
    supPc,     \* where supervisor w is in run_isolated
    supJob,    \* the job it works on (its orphan's job, once it is down)
    childPc,   \* where the child of w is in run_transcription
    api,       \* where the event-loop handler working on job j is
    rqSeen,    \* that handler's local rq_job_id
    pool,      \* where the close_session call working on job j is
    admin,     \* where set_status is with job j, holding the write lock
    found      \* the status it has read, "absent" outside of it

row   == <<status, canceling, rqId>>
redis == <<flag, rq>>
files == <<source, mixdown, result>>
sup   == <<supPc, supJob>>
web   == <<api, rqSeen, pool, admin, found>>
vars  == <<status, canceling, rqId, flag, rq, source, mixdown, result,
           supPc, supJob, childPc, api, rqSeen, pool, admin, found>>

suspension == <<admin, found>>

Statuses == {"absent", "open", "queued", "running", "done", "failed",
             "canceled", "deleted"}
SupPcs == {"idle", "claim", "spawn", "row", "flag", "poll", "kill", "wipe",
           "unflag", "settle", "final", "died", "abort", "fail", "down"}
LivePcs == {"start", "begin", "assemble", "mix", "decode", "save", "drop",
            "commit", "clear", "undo", "park", "fail"}
ChildPcs == LivePcs \cup {"none", "exit0", "exit1"}
ApiPcs == {"idle", "createEnqueue", "retryUnflag", "retryEnqueue", "setRqId",
           "cancelFlag", "cancelRow", "cancelDrop", "cancelReflag",
           "deleteRow", "deleteReflag", "deleteDrop", "deleteFiles"}
PoolPcs == {"idle", "enqueue", "setRqId"}
AdminPcs == {"idle", "drop", "commit"}

\* "none": no upload, or no clips; "kept": every file is on disk; "lost": a
\* session's clips, or an upload's row, outlived their files.
Sources == {"none", "kept", "lost"}

-----------------------------------------------------------------------------
\* The row.

HasRow(j) == status[j] \notin {"absent", "deleted"}

\* What a worker takes for a cancellation: the row is gone or CANCELED.
CanceledFlagOnly(j) == ~HasRow(j)          \* mutant: the status is not read
Canceled(j) == ~HasRow(j) \/ status[j] = "canceled"

\* FAILED or CANCELED and fully stopped: what retry and reopen ask for.
AtRestAnyStage(j) == status[j] \in {"failed", "canceled"} \* mutant: stage not read
AtRest(j) == status[j] \in {"failed", "canceled"} /\ ~canceling[j]

\* A suspension holds SQLite's write lock over its Redis calls: until it
\* commits, nobody else writes the row.  (Every other holder of the lock is one
\* step here.)
UnlockedAlways(j) == TRUE                  \* mutant: set_status takes no lock
Unlocked(j) == admin[j] = "idle"

\* An assignment of status and stage, whatever they were.
SetRow(j, st, stopping) ==
    /\ status' = [status EXCEPT ![j] = st]
    /\ canceling' = [canceling EXCEPT ![j] = stopping]

\* tasks._update(status=st): UPDATE ... WHERE status != CANCELED.
UpdateUnguarded(j, st) ==                  \* mutant: no WHERE on the status
    /\ Unlocked(j)
    /\ IF HasRow(j) THEN SetRow(j, st, FALSE) ELSE UNCHANGED <<status, canceling>>
Update(j, st) ==
    /\ Unlocked(j)
    /\ IF Canceled(j) THEN UNCHANGED <<status, canceling>> ELSE SetRow(j, st, FALSE)

-----------------------------------------------------------------------------
\* Redis: a call whose failure is swallowed has no effect.

LostCall == IF "redis" \in Faults THEN {TRUE, FALSE} ELSE {FALSE}

RequestCancel(j) ==
    \E lost \in LostCall : flag' = [flag EXCEPT ![j] = @ \/ ~lost]

ClearCancel(j) ==
    \E lost \in LostCall : flag' = [flag EXCEPT ![j] = @ /\ lost]

\* The answers is_cancel_requested may give: a failed call reads as "no".
CancelAnswers(j) == {flag[j] /\ ~lost : lost \in LostCall}

Enqueue(j) ==
    /\ rq[j] < MaxEntries
    /\ rq' = [rq EXCEPT ![j] = @ + 1]

\* queue.cancel(rq_job_id): the id is the same for every submission of a job.
DropEntryBlindly(j, known) ==              \* mutant: also when none waits
    rq' = [rq EXCEPT ![j] = IF known THEN @ - 1 ELSE @]
DropEntry(j, known) ==
    \E lost \in LostCall :
        rq' = [rq EXCEPT ![j] = IF known /\ @ > 0 /\ ~lost THEN @ - 1 ELSE @]

-----------------------------------------------------------------------------
\* Files.

\* tasks._purge_audio: everything named {job}.*, which is the upload or the
\* mixdown; clips have names of their own.
PurgeAudio(j) ==
    /\ source' = [source EXCEPT ![j] = IF j \in Sessions THEN @ ELSE "none"]
    /\ mixdown' = [mixdown EXCEPT ![j] = FALSE]

DeleteResult(j) == result' = [result EXCEPT ![j] = FALSE]

\* The last part of tasks._cleanup_canceled.
CleanupRowStopped(j, fullyStopped) ==      \* mutant: the child confirms the stop
    /\ Unlocked(j)
    /\ IF HasRow(j)
       THEN SetRow(j, "canceled", FALSE) /\ UNCHANGED <<source, mixdown>>
       ELSE PurgeAudio(j) /\ UNCHANGED <<status, canceling>>
CleanupRowKeepsDone(j, fullyStopped) ==    \* mutant: a finished row is left alone
    /\ Unlocked(j)
    /\ IF HasRow(j)
       THEN /\ SetRow(j, IF status[j] = "done" THEN "done" ELSE "canceled", FALSE)
            /\ UNCHANGED <<source, mixdown>>
       ELSE PurgeAudio(j) /\ UNCHANGED <<status, canceling>>
CleanupRowPurges(j, fullyStopped) ==       \* mutant: the audio goes with the result
    /\ Unlocked(j)
    /\ PurgeAudio(j)
    /\ IF HasRow(j) THEN SetRow(j, "canceled", ~fullyStopped)
       ELSE UNCHANGED <<status, canceling>>
CleanupRow(j, fullyStopped) ==
    /\ Unlocked(j)
    /\ IF HasRow(j)
       THEN SetRow(j, "canceled", ~fullyStopped) /\ UNCHANGED <<source, mixdown>>
       ELSE PurgeAudio(j) /\ UNCHANGED <<status, canceling>>
=============================================================================
