------------------------------- MODULE JobApi -------------------------------
(***************************************************************************)
(* The HTTP handlers that change a recording's life.                       *)
(*                                                                         *)
(*   - main.py: create, cancel, delete and retry are `async def' without   *)
(*     an await after the upload, so the event loop runs one of them at a  *)
(*     time from its first step to its last; supervisors, children and the *)
(*     thread pool interleave with every step.                             *)
(*   - sessions.py, accounts.py: close, reopen and the suspension of an    *)
(*     account are plain `def', run by the thread pool beside the event    *)
(*     loop, and serialized by SQLite's write lock.                        *)
(***************************************************************************)
EXTENDS PipelineState

LoopIdle == \A j \in Jobs : api[j] = "idle"

Goto(j, pc) == api' = [api EXCEPT ![j] = pc]

Return(j) == Goto(j, "idle") /\ rqSeen' = FALSE

\* create_job, once the upload is on disk: the row, QUEUED.
CreateJob(j) ==
    /\ "create" \in Ops /\ LoopIdle
    /\ j \notin Sessions /\ status[j] = "absent"
    /\ SetRow(j, "queued", FALSE)
    /\ source' = [source EXCEPT ![j] = "kept"]
    /\ Goto(j, "createEnqueue")
    /\ UNCHANGED <<rqId, redis, mixdown, result, sup, childPc, rqSeen, pool, suspension>>

LoopEnqueue(j) ==
    /\ api[j] \in {"createEnqueue", "retryEnqueue"}
    /\ Enqueue(j) /\ Goto(j, "setRqId")
    /\ UNCHANGED <<row, flag, files, sup, childPc, rqSeen, pool, suspension>>

\* create_job fails its row by an assignment, without _update's guard.
CreateEnqueueFails(j) ==
    /\ "enqueue" \in Faults /\ api[j] = "createEnqueue" /\ Unlocked(j)
    /\ status' = [status EXCEPT ![j] = IF HasRow(j) THEN "failed" ELSE @]
    /\ Return(j)
    /\ UNCHANGED <<canceling, rqId, redis, files, sup, childPc, pool, suspension>>

RetryEnqueueFails(j) ==
    /\ "enqueue" \in Faults /\ api[j] = "retryEnqueue"
    /\ Update(j, "failed") /\ Return(j)
    /\ UNCHANGED <<rqId, redis, files, sup, childPc, pool, suspension>>

LoopSetRqId(j) ==
    /\ api[j] = "setRqId" /\ Unlocked(j)
    /\ rqId' = [rqId EXCEPT ![j] = @ \/ HasRow(j)]
    /\ Return(j)
    /\ UNCHANGED <<status, canceling, redis, files, sup, childPc, pool, suspension>>

\* The upload, or every clip of the session, is still on disk.
SourceExistsUnchecked(j) == TRUE           \* mutant
SourceExists(j) == source[j] = "kept"

\* retry: the checks and QUEUED in one write-locked transaction.
Retry(j) ==
    /\ "retry" \in Ops /\ LoopIdle
    /\ AtRest(j) /\ SourceExists(j)
    /\ SetRow(j, "queued", FALSE)
    /\ Goto(j, "retryUnflag")
    /\ UNCHANGED <<rqId, redis, files, sup, childPc, rqSeen, pool, suspension>>

RetryReusesEntry(j) ==                     \* mutant: no new entry is queued
    /\ api[j] = "retryUnflag"
    /\ ClearCancel(j) /\ Goto(j, "setRqId")
    /\ UNCHANGED <<row, rq, files, sup, childPc, rqSeen, pool, suspension>>
RetryUnflag(j) ==
    /\ api[j] = "retryUnflag"
    /\ ClearCancel(j) /\ Goto(j, "retryEnqueue")
    /\ UNCHANGED <<row, rq, files, sup, childPc, rqSeen, pool, suspension>>

\* cancel_job reads the row, and rejects it when it is finished.
CancelRead(j) ==
    /\ "cancel" \in Ops /\ LoopIdle
    /\ status[j] \in {"open", "queued", "running"}
    /\ rqSeen' = rqId[j] /\ Goto(j, "cancelFlag")
    /\ UNCHANGED <<row, redis, files, sup, childPc, pool, suspension>>

CancelFlag(j) ==
    /\ api[j] = "cancelFlag"
    /\ RequestCancel(j) /\ Goto(j, "cancelRow")
    /\ UNCHANGED <<row, rq, files, sup, childPc, rqSeen, pool, suspension>>

\* The CASE of the UPDATE: a running recording is only stopping.
StillRunningIgnored(j) == FALSE            \* mutant: canceled at once
StillRunning(j) == status[j] = "running"

\* The conditional UPDATE; a request that changes nothing answers 409 here.
CancelRow(j) ==
    /\ api[j] = "cancelRow" /\ Unlocked(j)
    /\ IF status[j] \in {"queued", "running"}
       THEN /\ SetRow(j, "canceled", StillRunning(j))
            /\ Goto(j, "cancelDrop") /\ UNCHANGED rqSeen
       ELSE Return(j) /\ UNCHANGED <<status, canceling>>
    /\ UNCHANGED <<rqId, redis, files, sup, childPc, pool, suspension>>

CancelDrop(j) ==
    /\ api[j] = "cancelDrop"
    /\ DropEntry(j, rqSeen) /\ Goto(j, "cancelReflag")
    /\ UNCHANGED <<row, flag, files, sup, childPc, rqSeen, pool, suspension>>

CancelReflag(j) ==
    /\ api[j] = "cancelReflag"
    /\ RequestCancel(j) /\ Return(j)
    /\ UNCHANGED <<row, rq, files, sup, childPc, pool, suspension>>

\* delete_job reads the row and sets the flag ...
DeleteRead(j) ==
    /\ "delete" \in Ops /\ LoopIdle
    /\ HasRow(j)
    /\ rqSeen' = rqId[j] /\ RequestCancel(j) /\ Goto(j, "deleteRow")
    /\ UNCHANGED <<row, rq, files, sup, childPc, pool, suspension>>

\* ... unlinks the clips and commits the rows' end ...
DeleteRow(j) ==
    /\ api[j] = "deleteRow" /\ Unlocked(j)
    /\ SetRow(j, "deleted", FALSE)
    /\ source' = [source EXCEPT ![j] = IF j \in Sessions THEN "none" ELSE @]
    /\ Goto(j, "deleteReflag")
    /\ UNCHANGED <<rqId, redis, mixdown, result, sup, childPc, rqSeen, pool, suspension>>

DeleteReflag(j) ==
    /\ api[j] = "deleteReflag"
    /\ RequestCancel(j) /\ Goto(j, "deleteDrop")
    /\ UNCHANGED <<row, rq, files, sup, childPc, rqSeen, pool, suspension>>

DeleteDrop(j) ==
    /\ api[j] = "deleteDrop"
    /\ DropEntry(j, rqSeen) /\ Goto(j, "deleteFiles")
    /\ UNCHANGED <<row, flag, files, sup, childPc, rqSeen, pool, suspension>>

\* ... and then the stored audio and the result.
DeleteFiles(j) ==
    /\ api[j] = "deleteFiles"
    /\ PurgeAudio(j) /\ DeleteResult(j) /\ Return(j)
    /\ UNCHANGED <<row, redis, sup, childPc, pool, suspension>>

\* The steps of a handler that is under way.
LoopStep(j) ==
    \/ LoopEnqueue(j) \/ LoopSetRqId(j) \/ RetryUnflag(j)
    \/ CreateEnqueueFails(j) \/ RetryEnqueueFails(j)
    \/ CancelFlag(j) \/ CancelRow(j) \/ CancelDrop(j) \/ CancelReflag(j)
    \/ DeleteRow(j) \/ DeleteReflag(j) \/ DeleteDrop(j) \/ DeleteFiles(j)

-----------------------------------------------------------------------------
\* Thread pool.

CreateSession(j) ==
    /\ "session" \in Ops
    /\ j \in Sessions /\ status[j] = "absent"
    /\ SetRow(j, "open", FALSE)
    /\ UNCHANGED <<rqId, redis, files, sup, childPc, web>>

\* The write-locked half of append_clip.
AppendClip(j) ==
    /\ "session" \in Ops
    /\ j \in Sessions /\ status[j] = "open"
    /\ source' = [source EXCEPT ![j] = IF @ = "lost" THEN "lost" ELSE "kept"]
    /\ UNCHANGED <<row, redis, mixdown, result, sup, childPc, web>>

\* remove_clip: of the only clip, or of the one whose file is lost.
RemoveClip(j) ==
    /\ "session" \in Ops
    /\ j \in Sessions /\ status[j] = "open" /\ source[j] # "none"
    /\ \E rest \in {"none", "kept"} : source' = [source EXCEPT ![j] = rest]
    /\ UNCHANGED <<row, redis, mixdown, result, sup, childPc, web>>

\* close_session with clips: QUEUED, then the queue outside the transaction.
\* Bound: one close of a session at a time.
CloseSession(j) ==
    /\ "close" \in Ops /\ pool[j] = "idle"
    /\ j \in Sessions /\ status[j] = "open" /\ SourceExists(j)
    /\ SetRow(j, "queued", FALSE)
    /\ pool' = [pool EXCEPT ![j] = "enqueue"]
    /\ UNCHANGED <<rqId, redis, files, sup, childPc, api, rqSeen, suspension>>

\* close_session without clips: the microphone text is the result.
CloseLiveOnly(j) ==
    /\ "close" \in Ops
    /\ j \in Sessions /\ status[j] = "open" /\ source[j] = "none"
    /\ result' = [result EXCEPT ![j] = TRUE]
    /\ SetRow(j, "done", FALSE)
    /\ UNCHANGED <<rqId, redis, source, mixdown, sup, childPc, web>>

CloseEnqueue(j) ==
    /\ pool[j] = "enqueue"
    /\ Enqueue(j)
    /\ pool' = [pool EXCEPT ![j] = "setRqId"]
    /\ UNCHANGED <<row, flag, files, sup, childPc, api, rqSeen, suspension>>

CloseEnqueueFails(j) ==
    /\ "enqueue" \in Faults /\ pool[j] = "enqueue"
    /\ Update(j, "failed")
    /\ pool' = [pool EXCEPT ![j] = "idle"]
    /\ UNCHANGED <<rqId, redis, files, sup, childPc, api, rqSeen, suspension>>

CloseSetRqId(j) ==
    /\ pool[j] = "setRqId" /\ Unlocked(j)
    /\ rqId' = [rqId EXCEPT ![j] = @ \/ HasRow(j)]
    /\ pool' = [pool EXCEPT ![j] = "idle"]
    /\ UNCHANGED <<status, canceling, redis, files, sup, childPc, api, rqSeen, suspension>>

CloseStep(j) == CloseEnqueue(j) \/ CloseEnqueueFails(j) \/ CloseSetRqId(j)

\* set_status stops what an account that loses its approval has queued or
\* running.  It takes the write lock, reads the row, sets the flag ...
SuspendBegin(j) ==
    /\ "suspend" \in Ops /\ Unlocked(j)
    /\ status[j] \in {"queued", "running"}
    /\ RequestCancel(j)
    /\ admin' = [admin EXCEPT ![j] = "drop"]
    /\ found' = [found EXCEPT ![j] = status[j]]
    /\ UNCHANGED <<row, rq, files, sup, childPc, api, rqSeen, pool>>

\* ... drops the entry ...
SuspendDrop(j) ==
    /\ admin[j] = "drop"
    /\ DropEntry(j, rqId[j])
    /\ admin' = [admin EXCEPT ![j] = "commit"]
    /\ UNCHANGED <<row, flag, files, sup, childPc, api, rqSeen, pool, found>>

\* ... and commits the stop, with a stage for the status that it has read.
SuspendCommit(j) ==
    /\ admin[j] = "commit"
    /\ SetRow(j, "canceled", found[j] = "running")
    /\ admin' = [admin EXCEPT ![j] = "idle"]
    /\ found' = [found EXCEPT ![j] = "absent"]
    /\ UNCHANGED <<rqId, redis, files, sup, childPc, api, rqSeen, pool>>

SuspendStep(j) == SuspendDrop(j) \/ SuspendCommit(j)

PoolStep(j) == CloseStep(j) \/ SuspendStep(j)

\* reopen holds the write lock from its check to its commit: one step.
Reopen(j) ==
    /\ "reopen" \in Ops
    /\ j \in Sessions /\ AtRest(j)
    /\ SetRow(j, "open", FALSE)
    /\ ClearCancel(j) /\ DeleteResult(j)
    /\ mixdown' = [mixdown EXCEPT ![j] = FALSE]
    /\ UNCHANGED <<rqId, rq, source, sup, childPc, web>>

\* sweep_retention of an expired recording, whatever its status.
Sweep(j) ==
    /\ "sweep" \in Ops /\ HasRow(j) /\ Unlocked(j)
    /\ SetRow(j, "deleted", FALSE)
    /\ source' = [source EXCEPT ![j] = "none"]
    /\ mixdown' = [mixdown EXCEPT ![j] = FALSE]
    /\ DeleteResult(j)
    /\ UNCHANGED <<rqId, redis, sup, childPc, web>>

\* What people, an administrator and the retention job start when they like.
UserStep(j) ==
    \/ CreateJob(j) \/ Retry(j) \/ CancelRead(j) \/ DeleteRead(j)
    \/ CreateSession(j) \/ AppendClip(j) \/ RemoveClip(j) \/ CloseSession(j)
    \/ CloseLiveOnly(j) \/ Reopen(j) \/ Sweep(j) \/ SuspendBegin(j)
=============================================================================
