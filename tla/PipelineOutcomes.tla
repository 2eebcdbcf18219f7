-------------------------- MODULE PipelineOutcomes --------------------------
(***************************************************************************)
(* What becomes of a recording: a queued one is delivered to a worker, a   *)
(* finished one has its result, and a deleted one leaves nothing behind.   *)
(* Each holds in every environment without the faults and the requests     *)
(* that its theorem names, and TLC finds a counterexample as soon as one   *)
(* of those is let in.                                                     *)
(***************************************************************************)
EXTENDS PipelineRefinement

\* A step of the worker in slot w, or of its decoder.
WorkerStep(w) ==
    \/ SupStep(w) \/ SupSpawnFails(w) \/ SupTimeout(w) \/ SupTimeoutLate(w)
    \/ SupCrash(w) \/ SupRestart(w)
    \/ ChildStep(w) \/ ChildRaises(w) \/ ChildDies(w)

\* The last steps of delete_job, after the commit of the row's end.
Unlinking == {"deleteReflag", "deleteDrop", "deleteFiles"}

\* Requests leave the workers alone.
LEMMA RequestsLeaveWorkers ==
    ASSUME NEW j \in Jobs, UserStep(j) \/ LoopStep(j) \/ PoolStep(j)
    PROVE  UNCHANGED <<supPc, supJob, childPc>>
<1> USE DEF sup, web, files, redis, row, suspension
<1>1. CASE UserStep(j)
  BY <1>1 DEF UserStep, CreateJob, Retry, CancelRead, DeleteRead, CreateSession, AppendClip,
              RemoveClip, CloseSession, CloseLiveOnly, Reopen, Sweep, SuspendBegin
<1>2. CASE LoopStep(j)
  BY <1>2 DEF LoopStep, LoopEnqueue, LoopSetRqId, RetryUnflag, CreateEnqueueFails,
              RetryEnqueueFails, CancelFlag, CancelRow, CancelDrop, CancelReflag, DeleteRow,
              DeleteReflag, DeleteDrop, DeleteFiles
<1>3. CASE PoolStep(j)
  BY <1>3 DEF PoolStep, CloseStep, CloseEnqueue, CloseEnqueueFails, CloseSetRqId, SuspendStep,
              SuspendDrop, SuspendCommit
<1> QED BY <1>1, <1>2, <1>3

\* A request for one recording leaves the others alone: their rows, their queue
\* entries, their files, and the requests for them.
LEMMA RequestsLeaveOthers ==
    ASSUME TypeOK, NEW j \in Jobs, UserStep(j) \/ LoopStep(j) \/ PoolStep(j),
           NEW k \in Jobs, k # j
    PROVE  /\ status'[k] = status[k] /\ canceling'[k] = canceling[k] /\ rq'[k] = rq[k]
           /\ source'[k] = source[k] /\ mixdown'[k] = mixdown[k] /\ result'[k] = result[k]
           /\ api'[k] = api[k] /\ pool'[k] = pool[k] /\ admin'[k] = admin[k]
<1> DEFINE Same == /\ status'[k] = status[k] /\ canceling'[k] = canceling[k] /\ rq'[k] = rq[k]
                   /\ source'[k] = source[k] /\ mixdown'[k] = mixdown[k] /\ result'[k] = result[k]
                   /\ api'[k] = api[k] /\ pool'[k] = pool[k] /\ admin'[k] = admin[k]
<1> USE DEF TypeOK, SetRow, Update, Goto, Return, Enqueue, DropEntry, PurgeAudio, DeleteResult,
            web, files, redis, row, suspension
<1>1. CASE CreateJob(j) \/ Retry(j) \/ CancelRead(j) \/ DeleteRead(j)
  BY <1>1 DEF CreateJob, Retry, CancelRead, DeleteRead
<1>2. CASE CreateSession(j) \/ AppendClip(j) \/ RemoveClip(j) \/ SuspendBegin(j)
  BY <1>2 DEF CreateSession, AppendClip, RemoveClip, SuspendBegin
<1>3. CASE CloseSession(j) \/ CloseLiveOnly(j) \/ Reopen(j) \/ Sweep(j)
  BY <1>3 DEF CloseSession, CloseLiveOnly, Reopen, Sweep
<1>4. CASE LoopEnqueue(j) \/ LoopSetRqId(j) \/ RetryUnflag(j) \/ CreateEnqueueFails(j)
  BY <1>4 DEF LoopEnqueue, LoopSetRqId, RetryUnflag, CreateEnqueueFails
<1>5. CASE RetryEnqueueFails(j) \/ CancelFlag(j) \/ CancelRow(j)
  BY <1>5 DEF RetryEnqueueFails, CancelFlag, CancelRow
<1>6. CASE CancelDrop(j) \/ CancelReflag(j) \/ DeleteReflag(j) \/ DeleteDrop(j)
  BY <1>6 DEF CancelDrop, CancelReflag, DeleteReflag, DeleteDrop
<1>7. CASE DeleteRow(j) \/ DeleteFiles(j)
  BY <1>7 DEF DeleteRow, DeleteFiles
<1>8. CASE CloseStep(j)
  BY <1>8 DEF CloseStep, CloseEnqueue, CloseEnqueueFails, CloseSetRqId
<1>9. CASE SuspendStep(j)
  BY <1>9 DEF SuspendStep, SuspendDrop, SuspendCommit
<1> QED
  BY <1>1, <1>2, <1>3, <1>4, <1>5, <1>6, <1>7, <1>8, <1>9 DEF UserStep, LoopStep, PoolStep

\* The only writes of a worker to a row: the claim, _update and the end of
\* _cleanup_canceled.  It leaves the requests and the queue alone.
LEMMA WorkerWrites ==
    ASSUME NEW w \in Workers, WorkerStep(w)
    PROVE  /\ UNCHANGED <<api, pool, admin, rq>>
           /\ \/ UNCHANGED <<status, canceling>>
              \/ /\ SupClaim(w) /\ status[supJob[w]] = "queued"
                 /\ SetRow(supJob[w], "running", FALSE)
              \/ \E st \in {"running", "done", "failed"} : Update(supJob[w], st)
              \/ \E stopped \in BOOLEAN : CleanupRow(supJob[w], stopped)
<1> USE DEF sup, web, files, redis, row, suspension
<1>1. CASE SupClaim(w)
  BY <1>1 DEF SupClaim, Claimable
<1>2. CASE SupFail(w) \/ ChildBegin(w) \/ ChildCommit(w) \/ ChildFail(w)
  BY <1>2 DEF SupFail, ChildBegin, ChildCommit, ChildFail
<1>3. CASE SupSettle(w) \/ ChildPark(w)
  BY <1>3 DEF SupSettle, ChildPark
<1>4. CASE \/ SupSpawn(w) \/ SupReadRow(w) \/ SupReadFlag(w) \/ SupPoll(w) \/ SupKill(w)
           \/ SupWipe(w) \/ SupUnflag(w) \/ SupFinal(w) \/ SupAbort(w)
           \/ SupSpawnFails(w) \/ SupTimeout(w) \/ SupTimeoutLate(w) \/ SupCrash(w) \/ SupRestart(w)
  BY <1>4 DEF SupSpawn, SupReadRow, SupReadFlag, SupPoll, SupKill, SupWipe, SupUnflag, SupFinal,
              SupAbort, SupSpawnFails, SupTimeout, SupTimeoutLate, SupCrash, SupRestart
<1>5. CASE \/ ChildStart(w) \/ ChildAssemble(w) \/ ChildMix(w) \/ ChildDecode(w) \/ ChildSave(w)
           \/ ChildDropAudio(w) \/ ChildClear(w) \/ ChildUndo(w) \/ ChildRaises(w) \/ ChildDies(w)
  BY <1>5 DEF ChildStart, ChildAssemble, ChildMix, ChildDecode, ChildSave, ChildDropAudio, ChildClear,
              ChildUndo, ChildRaises, ChildDies
<1> QED BY <1>1, <1>2, <1>3, <1>4, <1>5 DEF WorkerStep, SupStep, ChildStep

\* So a worker writes only the row of its recording, only when it is there,
\* queues nothing, and takes nothing out of CANCELED.
LEMMA WorkerMovesRow ==
    ASSUME TypeOK, NEW w \in Workers, WorkerStep(w), NEW k \in Jobs
    PROVE  \/ status'[k] = status[k]
           \/ /\ k = supJob[w] /\ HasRow(k)
              /\ status'[k] \in {"running", "done", "failed", "canceled"}
              /\ status[k] = "canceled" => status'[k] = "canceled"
<1> DEFINE j == supJob[w]
           Moved == /\ k = j /\ HasRow(k)
                    /\ status'[k] \in {"running", "done", "failed", "canceled"}
                    /\ status[k] = "canceled" => status'[k] = "canceled"
<1>0. RowTypes /\ AudioTypes
  BY DEF TypeOK, RowTypes, AudioTypes
<1>1. CASE status[j] = "queued" /\ SetRow(j, "running", FALSE)
  <2>1. /\ k = j => status'[k] = "running"
        /\ k # j => status'[k] = status[k]
    BY <1>0, <1>1, SetRowEffect
  <2> QED BY <1>1, <2>1 DEF HasRow
<1>2. ASSUME NEW st \in {"running", "done", "failed"}, Update(j, st)
      PROVE  status'[k] = status[k] \/ Moved
  <2>1. CASE k = j /\ ~Canceled(k)
    <3>1. status'[k] = st
      BY <1>0, <1>2, <2>1, UpdateEffect
    <3> QED BY <2>1, <3>1 DEF Canceled
  <2>2. CASE k # j \/ Canceled(k)
    BY <1>0, <1>2, <2>2, UpdateEffect
  <2> QED BY <2>1, <2>2
<1>3. ASSUME NEW stopped \in BOOLEAN, CleanupRow(j, stopped)
      PROVE  status'[k] = status[k] \/ Moved
  <2>1. /\ ~HasRow(j) => status' = status
        /\ k = j /\ HasRow(j) => status'[k] = "canceled"
        /\ k # j => status'[k] = status[k]
    BY <1>0, <1>3, CleanupEffect
  <2> QED BY <2>1
<1>4. status'[k] = status[k] \/ Moved
  BY <1>1, <1>2, <1>3, WorkerWrites DEF HasRow
<1> QED BY <1>4

\* A step of one worker leaves the others alone.
LEMMA WorkersLeaveWorkers ==
    ASSUME TypeOK, NEW w \in Workers, NEW v \in Workers, v # w,
           WorkerStep(w) \/ \E j \in Jobs : SupDequeue(w, j)
    PROVE  supPc'[v] = supPc[v] /\ supJob'[v] = supJob[v] /\ childPc'[v] = childPc[v]
<1> USE DEF TypeOK, SupGoto, SupReturn, Reap, StopProcess, ChildGoto, sup, row, files, web
<1>1. CASE SupStep(w)
  BY <1>1 DEF SupStep, SupClaim, SupSpawn, SupReadRow, SupReadFlag, SupPoll, SupKill, SupWipe,
              SupUnflag, SupSettle, SupFinal, SupAbort, SupFail
<1>2. CASE \/ SupSpawnFails(w) \/ SupTimeout(w) \/ SupTimeoutLate(w) \/ SupCrash(w) \/ SupRestart(w)
           \/ \E j \in Jobs : SupDequeue(w, j)
  BY <1>2 DEF SupSpawnFails, SupTimeout, SupTimeoutLate, SupCrash, SupRestart, SupDequeue
<1>3. CASE ChildStep(w) \/ ChildRaises(w) \/ ChildDies(w)
  BY <1>3 DEF ChildStep, ChildStart, ChildBegin, ChildAssemble, ChildMix, ChildDecode, ChildSave,
              ChildDropAudio, ChildCommit, ChildClear, ChildUndo, ChildPark, ChildFail,
              ChildRaises, ChildDies
<1> QED BY <1>1, <1>2, <1>3 DEF WorkerStep

\* Next, by who takes the step.
LEMMA StepKinds ==
    ASSUME [Next]_vars
    PROVE  \/ UNCHANGED vars
           \/ \E j \in Jobs : UserStep(j) \/ LoopStep(j) \/ PoolStep(j)
           \/ \E w \in Workers, j \in Jobs : SupDequeue(w, j)
           \/ \E w \in Workers : WorkerStep(w)
  BY DEF Next, WorkerStep

-----------------------------------------------------------------------------
(* A queued recording is delivered. *)

\* Who can lose the entry of a queued recording: a worker that is killed between
\* taking it and the claim; and a cancel whose row was reopened and closed again
\* before it drops the entry, which by then is the new one.
NoLostEntry == "crash" \notin Faults /\ ("cancel" \notin Ops \/ "reopen" \notin Ops)

DropsOldEntry(j) ==
    /\ api[j] \in {"cancelFlag", "cancelRow", "cancelDrop"} => "cancel" \in Ops
    /\ api[j] = "cancelDrop" => status[j] \in {"canceled", "deleted"}
    /\ api[j] \in Unlinking => status[j] = "deleted"

\* QueuedHasDelivery, and why the entries that cancel and delete drop are not the
\* ones it counts on: what they drop for stays canceled, or deleted.
DeliveryInv ==
    /\ QueuedHasDelivery
    /\ \A j \in Jobs : DropsOldEntry(j)

\* In the beginning nothing is queued.
LEMMA DeliveryInit == Init => DeliveryInv
  BY DEF Init, DeliveryInv, QueuedHasDelivery, DropsOldEntry, Unlinking

\* What a step leaves alone when it neither queues a recording nor takes away
\* what delivers one.
Carriers(k) ==
    /\ status'[k] = "queued" => status[k] = "queued"
    /\ rq[k] > 0 => rq'[k] > 0
    /\ pool[k] = "enqueue" => pool'[k] = "enqueue"
    /\ admin[k] = "commit" => admin'[k] = "commit"
    /\ api[k] \in {"createEnqueue", "retryUnflag", "retryEnqueue"}
         => api'[k] \in {"createEnqueue", "retryUnflag", "retryEnqueue"}
    /\ \A w \in Workers : supJob[w] = k /\ supPc[w] = "claim"
                            => supJob'[w] = k /\ supPc'[w] = "claim"

\* Delivery of one recording, on both sides of a step.
Delivered(k) ==
    status[k] = "queued" =>
        \/ rq[k] > 0 \/ pool[k] = "enqueue" \/ admin[k] = "commit"
        \/ api[k] \in {"createEnqueue", "retryUnflag", "retryEnqueue"}
        \/ \E w \in Workers : supJob[w] = k /\ supPc[w] = "claim"

LEMMA CarriedIsDelivered ==
    ASSUME NEW k \in Jobs, Delivered(k), Carriers(k)
    PROVE  Delivered(k)'
  BY DEF Delivered, Carriers

\* A claim that has begun is made, unless the worker is killed.
LEMMA ClaimIsMade ==
    ASSUME "crash" \notin Faults, TypeOK, NEW w \in Workers, supPc[w] = "claim", WorkerStep(w)
    PROVE  SupClaim(w) \/ UNCHANGED <<supPc, supJob>>
<1>1. CASE SupStep(w)
  BY <1>1 DEF SupStep, SupSpawn, SupReadRow, SupReadFlag, SupPoll, SupKill, SupWipe, SupUnflag,
              SupSettle, SupFinal, SupAbort, SupFail
<1>2. CASE SupSpawnFails(w) \/ SupTimeout(w) \/ SupTimeoutLate(w) \/ SupCrash(w) \/ SupRestart(w)
  BY <1>2 DEF SupSpawnFails, SupTimeout, SupTimeoutLate, SupCrash, SupRestart
<1>3. CASE ChildStep(w) \/ ChildRaises(w) \/ ChildDies(w)
  BY <1>3 DEF ChildStep, ChildStart, ChildBegin, ChildAssemble, ChildMix, ChildDecode, ChildSave,
              ChildDropAudio, ChildCommit, ChildClear, ChildUndo, ChildPark, ChildFail,
              ChildRaises, ChildDies, sup
<1> QED BY <1>1, <1>2, <1>3 DEF WorkerStep

\* Workers: the claim takes the recording out of the queue, and nothing else
\* than a crash ends a claim.
LEMMA DeliveryByWorker ==
    ASSUME NoLostEntry, TypeOK, DeliveryInv, NEW w \in Workers,
           WorkerStep(w) \/ \E j \in Jobs : SupDequeue(w, j)
    PROVE  DeliveryInv'
<1>0. \A k \in Jobs : Delivered(k)
  BY DEF DeliveryInv, QueuedHasDelivery, Delivered
<1>1. CASE WorkerStep(w)
  <2>1. api' = api /\ pool' = pool /\ admin' = admin /\ rq' = rq
    BY <1>1, WorkerWrites
  <2>6. \A k \in Jobs : /\ status'[k] = "queued" => status[k] = "queued"
                        /\ status[k] \in {"canceled", "deleted"} => status'[k] = status[k]
    BY <1>1, WorkerMovesRow DEF HasRow
  <2>2. \A v \in Workers : v # w => supPc'[v] = supPc[v] /\ supJob'[v] = supJob[v]
    BY <1>1, WorkersLeaveWorkers
  <2>3. ASSUME NEW k \in Jobs, ~(SupClaim(w) /\ k = supJob[w]) PROVE Carriers(k)
    <3>1. supPc[w] = "claim" /\ supJob[w] = k => supPc'[w] = "claim" /\ supJob'[w] = k
      BY <1>1, <2>3, ClaimIsMade DEF NoLostEntry
    <3>2. \A v \in Workers : supJob[v] = k /\ supPc[v] = "claim"
                               => supJob'[v] = k /\ supPc'[v] = "claim"
      BY <2>2, <3>1
    <3> QED BY <2>1, <2>6, <3>2 DEF Carriers
  <2>4. ASSUME SupClaim(w), supJob[w] \in Jobs PROVE status'[supJob[w]] # "queued"
    <3>1. CASE Claimable(supJob[w])
      BY <2>4, <3>1 DEF SupClaim, SetRow, TypeOK
    <3>2. CASE ~Claimable(supJob[w])
      BY <2>4, <3>2 DEF SupClaim, Claimable
    <3> QED BY <3>1, <3>2
  <2>5. \A k \in Jobs : Delivered(k)'
    BY <1>0, <2>3, <2>4, CarriedIsDelivered DEF Delivered
  <2> QED BY <2>1, <2>5, <2>6 DEF DeliveryInv, QueuedHasDelivery, DropsOldEntry, Delivered
<1>2. ASSUME NEW j \in Jobs, SupDequeue(w, j) PROVE DeliveryInv'
  <2>1. /\ supPc'[w] = "claim" /\ supJob'[w] = j /\ UNCHANGED <<status, api, pool, admin>>
        /\ supPc[w] = "idle" /\ \A k \in Jobs : k # j => rq'[k] = rq[k]
    BY <1>2 DEF SupDequeue, TypeOK, row, web, suspension
  <2>2. \A v \in Workers : v # w => supPc'[v] = supPc[v] /\ supJob'[v] = supJob[v]
    BY <1>2, WorkersLeaveWorkers
  <2>3. \A k \in Jobs : k # j => Carriers(k)
    BY <2>1, <2>2 DEF Carriers
  <2>4. \A k \in Jobs : Delivered(k)'
    BY <1>0, <2>1, <2>3, CarriedIsDelivered DEF Delivered
  <2> QED BY <2>1, <2>4 DEF DeliveryInv, QueuedHasDelivery, DropsOldEntry, Delivered
<1> QED BY <1>1, <1>2

\* Requests: what is queued comes with a handler that adds an entry, and an entry
\* is dropped only for a recording that is not queued, or will be stopped.
LEMMA DeliveryByRequest ==
    ASSUME NoLostEntry, TypeOK, SuspensionHolds, DeliveryInv,
           NEW j \in Jobs, UserStep(j) \/ LoopStep(j) \/ PoolStep(j)
    PROVE  DeliveryInv'
<1> SUFFICES Delivered(j)' /\ DropsOldEntry(j)'
  <2>1. \A k \in Jobs : Delivered(k) /\ DropsOldEntry(k)
    BY DEF DeliveryInv, QueuedHasDelivery, Delivered
  <2>2. UNCHANGED <<supPc, supJob>>
    BY RequestsLeaveWorkers
  <2>3. \A k \in Jobs : k # j => Delivered(k)' /\ DropsOldEntry(k)'
    BY <2>1, <2>2, RequestsLeaveOthers DEF Delivered, DropsOldEntry
  <2> QED BY <2>3 DEF DeliveryInv, QueuedHasDelivery, Delivered
<1>0. Delivered(j) /\ DropsOldEntry(j) /\ UNCHANGED <<supPc, supJob>>
  BY RequestsLeaveWorkers DEF DeliveryInv, QueuedHasDelivery, Delivered
<1> USE <1>0 DEF TypeOK, Delivered, DropsOldEntry, Unlinking, Goto, web, files, redis, row,
                 suspension
<1>1. CASE CreateJob(j) \/ Retry(j) \/ CloseSession(j)
  BY <1>1 DEF CreateJob, Retry, CloseSession, SetRow, LoopIdle, AtRest, NoLostEntry
<1>2. CASE CancelRead(j) \/ DeleteRead(j)
  BY <1>2 DEF CancelRead, DeleteRead, LoopIdle
<1>3. CASE CreateSession(j) \/ AppendClip(j) \/ RemoveClip(j) \/ CloseLiveOnly(j)
  BY <1>3 DEF CreateSession, AppendClip, RemoveClip, CloseLiveOnly, SetRow
<1>4. CASE Reopen(j)
  BY <1>4 DEF Reopen, SetRow, AtRest, NoLostEntry
<1>5. CASE Sweep(j) \/ SuspendBegin(j)
  BY <1>5 DEF Sweep, SuspendBegin, SetRow, Unlocked
<1>6. CASE LoopEnqueue(j) \/ CloseEnqueue(j)
  BY <1>6 DEF LoopEnqueue, CloseEnqueue, Enqueue
<1>7. CASE LoopSetRqId(j) \/ RetryUnflag(j) \/ CancelFlag(j) \/ CancelReflag(j) \/ CloseSetRqId(j)
  BY <1>7 DEF LoopSetRqId, RetryUnflag, CancelFlag, CancelReflag, CloseSetRqId, Return
<1>8. CASE CreateEnqueueFails(j) \/ RetryEnqueueFails(j) \/ CloseEnqueueFails(j)
  BY <1>8 DEF CreateEnqueueFails, RetryEnqueueFails, CloseEnqueueFails, Update, SetRow, Canceled,
              HasRow, Return
<1>9. CASE CancelRow(j) \/ DeleteRow(j)
  BY <1>9 DEF CancelRow, DeleteRow, SetRow, Return
<1>10. CASE CancelDrop(j) \/ DeleteReflag(j) \/ DeleteDrop(j) \/ DeleteFiles(j)
  BY <1>10 DEF CancelDrop, DeleteReflag, DeleteDrop, DeleteFiles, Return
<1>11. CASE SuspendDrop(j) \/ SuspendCommit(j)
  BY <1>11 DEF SuspendDrop, SuspendCommit, SetRow, SuspensionHolds
<1> QED
  BY <1>1, <1>2, <1>3, <1>4, <1>5, <1>6, <1>7, <1>8, <1>9, <1>10, <1>11
  DEF UserStep, LoopStep, PoolStep, CloseStep, SuspendStep

\* Every step preserves the invariant.
LEMMA DeliveryStep ==
    ASSUME NoLostEntry
    PROVE  TypeOK /\ SuspensionHolds /\ DeliveryInv /\ [Next]_vars => DeliveryInv'
<1> SUFFICES ASSUME TypeOK, SuspensionHolds, DeliveryInv, [Next]_vars PROVE DeliveryInv'
  OBVIOUS
<1>1. CASE UNCHANGED vars
  BY <1>1 DEF vars, row, redis, files, sup, web, suspension, DeliveryInv, QueuedHasDelivery,
              DropsOldEntry
<1> QED
  BY <1>1, StepKinds, DeliveryByWorker, DeliveryByRequest

\* A QUEUED recording is not forgotten: an entry is in the queue for it, a handler
\* will add one, a worker is about to claim it, or a suspension will stop it.
THEOREM QueuedIsDelivered ==
    ASSUME NoLostEntry
    PROVE  Spec => []QueuedHasDelivery
<1>1. TypeOK /\ SuspensionHolds /\ DeliveryInv /\ [Next]_vars => DeliveryInv'
  BY DeliveryStep
<1>2. DeliveryInv => QueuedHasDelivery
  BY DEF DeliveryInv
<1> QED
  BY <1>1, <1>2, DeliveryInit, Typing, SuspensionIsAtomic, PTL DEF Spec

-----------------------------------------------------------------------------
(* A deleted recording leaves nothing behind. *)

\* A supervisor that abandons a decoder cleans nothing up after it: the child
\* raised or died, the time was up, or the supervisor itself was killed.
NoAbandonedDecoder == Faults \cap {"raise", "native", "timeout", "crash"} = {}

\* The supervisor of slot w will see that its recording j is deleted, and remove
\* the result: it is about to, or its decoder is past every step that could fail.
WillWipe(w, j) ==
    /\ supJob[w] = j
    /\ \/ supPc[w] \in {"kill", "final", "wipe"}
       \/ /\ supPc[w] \in {"row", "flag", "poll"}
          /\ childPc[w] \in {"drop", "commit", "clear", "exit0"}

\* So it will remove a mixdown: from the moment that its decoder has finished
\* one until the end of the cleanup.  (A decoder fails after its mixdown only if
\* somebody has taken the mixdown before.)
WillPurge(w, j) ==
    /\ supJob[w] = j
    /\ \/ supPc[w] \in {"kill", "final", "wipe", "unflag", "settle"}
       \/ /\ supPc[w] \in {"row", "flag", "poll"}
          /\ childPc[w] \in {"decode", "save", "drop", "commit", "clear", "undo",
                            "park", "exit0"}

\* Once delete_job is through with a deleted recording, its audio is gone for
\* good, and a result or a mixdown of it, which a decoder has finished since,
\* will not survive the worker.
LeavesNothing(j) ==
    /\ api[j] \in Unlinking => status[j] = "deleted"
    /\ mixdown[j] => j \in Sessions
    /\ status[j] = "deleted" =>
         /\ j \in Sessions => source[j] # "kept"
         /\ api[j] \notin Unlinking =>
              /\ source[j] # "kept"
              /\ mixdown[j] => \E w \in Workers : WillPurge(w, j)
              /\ result[j] => \E w \in Workers : WillWipe(w, j)

\* No supervisor is down, and one that gives up has no child any more; only a
\* session is mixed.
WorkersHold ==
    \A w \in Workers : /\ supPc[w] # "down"
                       /\ supPc[w] = "abort" => childPc[w] = "none"
                       /\ childPc[w] = "mix" => supJob[w] \in Sessions

DeletedInv == ChildHasParent /\ WorkersHold /\ \A j \in Jobs : LeavesNothing(j)

\* In the beginning nothing is deleted, and nobody works.
LEMMA DeletedInit == Init => DeletedInv
  BY DEF Init, DeletedInv, ChildHasParent, WorkersHold, LeavesNothing, Unlinking

\* Requests: both deletions remove the result and the audio, delete_job in its
\* last step, and what is deleted gets neither again.
LEMMA DeletedByRequest ==
    ASSUME TypeOK, SuspensionHolds, DeletedInv,
           NEW j \in Jobs, UserStep(j) \/ LoopStep(j) \/ PoolStep(j)
    PROVE  DeletedInv'
<1>0. LeavesNothing(j) /\ supPc' = supPc /\ supJob' = supJob /\ childPc' = childPc
  BY RequestsLeaveWorkers DEF DeletedInv
<1> SUFFICES LeavesNothing(j)'
  <2>1. \A k \in Jobs : k # j => LeavesNothing(k)'
    BY <1>0, RequestsLeaveOthers DEF DeletedInv, LeavesNothing, WillWipe, WillPurge
  <2>2. ChildHasParent' /\ WorkersHold'
    BY <1>0 DEF DeletedInv, ChildHasParent, WorkersHold
  <2> QED BY <2>1, <2>2 DEF DeletedInv
<1>a. \A w \in Workers : /\ WillWipe(w, j)' <=> WillWipe(w, j)
                         /\ WillPurge(w, j)' <=> WillPurge(w, j)
  BY <1>0 DEF WillWipe, WillPurge
<1> USE <1>0, <1>a DEF TypeOK, LeavesNothing, Unlinking, Goto, web, files, redis, row, suspension
<1>1. CASE CreateJob(j) \/ Retry(j) \/ CloseSession(j) \/ CreateSession(j) \/ CloseLiveOnly(j)
  BY <1>1 DEF CreateJob, Retry, CloseSession, CreateSession, CloseLiveOnly, SetRow
<1>2. CASE CancelRead(j) \/ DeleteRead(j) \/ SuspendBegin(j)
  BY <1>2 DEF CancelRead, DeleteRead, SuspendBegin, HasRow
<1>3. CASE AppendClip(j) \/ RemoveClip(j) \/ Reopen(j)
  BY <1>3 DEF AppendClip, RemoveClip, Reopen, SetRow, AtRest
<1>4. CASE Sweep(j) \/ DeleteRow(j)
  BY <1>4 DEF Sweep, DeleteRow, SetRow, DeleteResult
<1>5. CASE DeleteFiles(j)
  BY <1>5 DEF DeleteFiles, PurgeAudio, DeleteResult, Return
<1>6. CASE LoopEnqueue(j) \/ CloseEnqueue(j) \/ LoopSetRqId(j) \/ CloseSetRqId(j)
  BY <1>6 DEF LoopEnqueue, CloseEnqueue, LoopSetRqId, CloseSetRqId, Return
<1>7. CASE RetryUnflag(j) \/ CancelFlag(j) \/ CancelReflag(j) \/ CancelDrop(j)
  BY <1>7 DEF RetryUnflag, CancelFlag, CancelReflag, CancelDrop, Return
<1>8. CASE CreateEnqueueFails(j) \/ RetryEnqueueFails(j) \/ CloseEnqueueFails(j)
  BY <1>8 DEF CreateEnqueueFails, RetryEnqueueFails, CloseEnqueueFails, Update, SetRow, Canceled,
              HasRow, Return
<1>9. CASE CancelRow(j)
  BY <1>9 DEF CancelRow, SetRow, Return
<1>10. CASE DeleteReflag(j) \/ DeleteDrop(j)
  BY <1>10 DEF DeleteReflag, DeleteDrop
<1>11. CASE SuspendDrop(j) \/ SuspendCommit(j)
  BY <1>11 DEF SuspendDrop, SuspendCommit, SetRow, SuspensionHolds
<1> QED
  BY <1>1, <1>2, <1>3, <1>4, <1>5, <1>6, <1>7, <1>8, <1>9, <1>10, <1>11
  DEF UserStep, LoopStep, PoolStep, CloseStep, SuspendStep

\* Workers only take audio away; they finish a mixdown, and save a result, in one
\* place each.
LEMMA WorkersAndFiles ==
    ASSUME TypeOK, NEW w \in Workers, WorkerStep(w), NEW k \in Jobs
    PROVE  /\ source'[k] = "kept" => source[k] = "kept"
           /\ mixdown'[k] => mixdown[k] \/ (ChildMix(w) /\ childPc'[w] = "decode" /\ k = supJob[w])
           /\ result'[k] => result[k] \/ (ChildSave(w) /\ k = supJob[w])
<1> RowTypes /\ AudioTypes
  BY DEF TypeOK, RowTypes, AudioTypes
<1> USE DEF TypeOK, DeleteResult, sup, web, files, redis, row, suspension
<1>1. CASE SupSettle(w) \/ ChildPark(w)
  <2>1. PICK stopped \in BOOLEAN : CleanupRow(supJob[w], stopped)
    BY <1>1 DEF SupSettle, ChildPark
  <2>2. result' = result
    BY <1>1 DEF SupSettle, ChildPark
  <2>3. CASE k # supJob[w]
    BY <2>1, <2>2, <2>3, CleanupEffect
  <2>4. CASE k = supJob[w] /\ HasRow(k)
    BY <2>1, <2>2, <2>4, CleanupEffect
  <2>5. CASE k = supJob[w] /\ ~HasRow(k)
    <3>1. /\ mixdown'[k] = FALSE
          /\ source'[k] = (IF k \in Sessions THEN source[k] ELSE "none")
      BY <2>1, <2>5, CleanupEffect
    <3> QED BY <2>2, <3>1
  <2> QED BY <2>3, <2>4, <2>5
<1>2. CASE ChildStart(w)
  <2>1. PurgeAudio(supJob[w]) \/ UNCHANGED <<source, mixdown>>
    BY <1>2 DEF ChildStart
  <2>2. result' = result
    BY <1>2 DEF ChildStart
  <2>3. CASE PurgeAudio(supJob[w])
    <3>1. k = supJob[w] =>
             /\ mixdown'[k] = FALSE
             /\ source'[k] = (IF k \in Sessions THEN source[k] ELSE "none")
      BY <2>3, PurgeEffect
    <3>2. k # supJob[w] => source'[k] = source[k] /\ mixdown'[k] = mixdown[k]
      BY <2>3, PurgeEffect
    <3> QED BY <2>2, <3>1, <3>2
  <2> QED BY <2>1, <2>2, <2>3
<1>6. CASE ChildAssemble(w) \/ ChildMix(w)
  BY <1>6 DEF ChildAssemble, ChildMix, ChildGoto
<1>3. CASE SupWipe(w) \/ ChildUndo(w) \/ ChildSave(w) \/ ChildDropAudio(w)
  BY <1>3 DEF SupWipe, ChildUndo, ChildSave, ChildDropAudio
<1>4. CASE \/ SupClaim(w) \/ SupSpawn(w) \/ SupReadRow(w) \/ SupReadFlag(w) \/ SupPoll(w)
           \/ SupKill(w) \/ SupUnflag(w) \/ SupFinal(w) \/ SupAbort(w) \/ SupFail(w)
           \/ SupSpawnFails(w) \/ SupTimeout(w) \/ SupTimeoutLate(w) \/ SupCrash(w) \/ SupRestart(w)
  BY <1>4 DEF SupClaim, SupSpawn, SupReadRow, SupReadFlag, SupPoll, SupKill, SupUnflag,
              SupFinal, SupAbort, SupFail, SupSpawnFails, SupTimeout, SupTimeoutLate, SupCrash, SupRestart
<1>5. CASE \/ ChildBegin(w) \/ ChildDecode(w) \/ ChildCommit(w) \/ ChildClear(w)
           \/ ChildFail(w) \/ ChildRaises(w) \/ ChildDies(w)
  BY <1>5 DEF ChildBegin, ChildDecode, ChildCommit, ChildClear, ChildFail, ChildRaises, ChildDies
<1> QED BY <1>1, <1>2, <1>3, <1>4, <1>5, <1>6 DEF WorkerStep, SupStep, ChildStep

\* A child lives between its spawn and its end, whatever happens.
LEMMA ParentStep ==
    ASSUME TypeOK, ChildHasParent, NEW w \in Workers,
           WorkerStep(w) \/ \E j \in Jobs : SupDequeue(w, j)
    PROVE  ChildHasParent'
<1> DEFINE Childless == {"idle", "claim", "spawn", "wipe", "unflag", "settle", "final",
                        "died", "fail"}
<1> SUFFICES supPc'[w] \in Childless => childPc'[w] = "none"
  BY WorkersLeaveWorkers DEF ChildHasParent
<1>0. supPc[w] \in Childless => childPc[w] = "none"
  BY DEF ChildHasParent
<1> USE <1>0 DEF TypeOK, SupGoto, SupReturn, Reap, StopProcess, LivePcs, sup, row, files, web
<1>1. CASE \/ SupClaim(w) \/ SupSpawn(w) \/ SupReadRow(w) \/ SupReadFlag(w) \/ SupWipe(w)
           \/ SupUnflag(w)
  BY <1>1 DEF SupClaim, SupSpawn, SupReadRow, SupReadFlag, SupWipe, SupUnflag
<1>2. CASE SupPoll(w) \/ SupKill(w) \/ SupAbort(w) \/ SupRestart(w)
  BY <1>2 DEF SupPoll, SupKill, SupAbort, SupRestart
<1>3. CASE \/ SupSettle(w) \/ SupFinal(w) \/ SupFail(w) \/ SupSpawnFails(w) \/ SupTimeout(w)
           \/ SupTimeoutLate(w) \/ SupCrash(w) \/ \E j \in Jobs : SupDequeue(w, j)
  BY <1>3 DEF SupSettle, SupFinal, SupFail, SupSpawnFails, SupTimeout, SupTimeoutLate, SupCrash, SupDequeue
<1>4. CASE ChildStep(w) \/ ChildRaises(w) \/ ChildDies(w)
  <2>1. childPc[w] \in LivePcs /\ supPc' = supPc
    BY <1>4 DEF ChildStep, ChildStart, ChildBegin, ChildAssemble, ChildMix, ChildDecode, ChildSave,
                ChildDropAudio, ChildCommit, ChildClear, ChildUndo, ChildPark, ChildFail,
                ChildRaises, ChildDies
  <2> QED BY <2>1
<1> QED BY <1>1, <1>2, <1>3, <1>4 DEF WorkerStep, SupStep

\* The supervisor of a deleted recording keeps its word.
LEMMA WipeIsKept ==
    ASSUME NoAbandonedDecoder, TypeOK, NEW w \in Workers, NEW k \in Jobs, status[k] = "deleted",
           WillWipe(w, k), WorkerStep(w)
    PROVE  WillWipe(w, k)' \/ ~result'[k]
<1>0. supJob[w] = k /\ Canceled(k)
  BY DEF WillWipe, Canceled, HasRow
<1> USE <1>0 DEF TypeOK, WillWipe, NoAbandonedDecoder, SupGoto, SupReturn, Reap, StopProcess,
                 ChildGoto, LivePcs, sup
<1>1. CASE SupReadRow(w) \/ SupReadFlag(w) \/ SupPoll(w) \/ SupKill(w)
  BY <1>1 DEF SupReadRow, SupReadFlag, SupPoll, SupKill
<1>2. CASE SupFinal(w) \/ SupWipe(w)
  BY <1>2 DEF SupFinal, SupWipe, DeleteResult
<1>3. CASE \/ SupClaim(w) \/ SupSpawn(w) \/ SupUnflag(w) \/ SupSettle(w) \/ SupAbort(w)
           \/ SupFail(w) \/ SupSpawnFails(w) \/ SupTimeout(w) \/ SupTimeoutLate(w) \/ SupCrash(w) \/ SupRestart(w)
  BY <1>3 DEF SupClaim, SupSpawn, SupUnflag, SupSettle, SupAbort, SupFail, SupSpawnFails,
              SupTimeout, SupTimeoutLate, SupCrash, SupRestart
<1>4. CASE ChildStep(w)
  BY <1>4 DEF ChildStep, ChildStart, ChildBegin, ChildAssemble, ChildMix, ChildDecode, ChildSave,
              ChildDropAudio, ChildCommit, ChildClear, ChildUndo, ChildPark, ChildFail
<1>5. CASE ChildRaises(w) \/ ChildDies(w)
  BY <1>5 DEF ChildRaises, ChildDies
<1> QED BY <1>1, <1>2, <1>3, <1>4, <1>5 DEF WorkerStep, SupStep

\* And removes the mixdown, too.
LEMMA PurgeIsKept ==
    ASSUME NoAbandonedDecoder, TypeOK, NEW w \in Workers, NEW k \in Jobs, status[k] = "deleted",
           k \in Sessions, WillPurge(w, k), WorkerStep(w)
    PROVE  WillPurge(w, k)' \/ ~mixdown'[k]
<1>0. supJob[w] = k /\ Canceled(k) /\ ~HasRow(k)
  BY DEF WillPurge, Canceled, HasRow
<1> USE <1>0 DEF TypeOK, WillPurge, NoAbandonedDecoder, SupGoto, SupReturn, Reap, StopProcess,
                 ChildGoto, LivePcs, sup
<1>1. CASE SupReadRow(w) \/ SupReadFlag(w) \/ SupPoll(w) \/ SupKill(w)
  BY <1>1 DEF SupReadRow, SupReadFlag, SupPoll, SupKill
<1>2. CASE SupFinal(w) \/ SupWipe(w) \/ SupUnflag(w)
  BY <1>2 DEF SupFinal, SupWipe, SupUnflag
<1>3. CASE SupSettle(w) \/ ChildPark(w)
  BY <1>3 DEF SupSettle, ChildPark, CleanupRow, PurgeAudio
<1>4. CASE \/ SupClaim(w) \/ SupSpawn(w) \/ SupAbort(w) \/ SupFail(w) \/ SupSpawnFails(w)
           \/ SupTimeout(w) \/ SupTimeoutLate(w) \/ SupCrash(w) \/ SupRestart(w)
  BY <1>4 DEF SupClaim, SupSpawn, SupAbort, SupFail, SupSpawnFails, SupTimeout,
              SupTimeoutLate, SupCrash, SupRestart
<1>5. CASE ChildDecode(w)
  BY <1>5 DEF ChildDecode, HasAudio, files
<1>6. CASE \/ ChildStart(w) \/ ChildBegin(w) \/ ChildAssemble(w) \/ ChildMix(w)
           \/ ChildSave(w) \/ ChildDropAudio(w) \/ ChildCommit(w) \/ ChildClear(w)
           \/ ChildUndo(w) \/ ChildFail(w)
  BY <1>6 DEF ChildStart, ChildBegin, ChildAssemble, ChildMix, ChildSave, ChildDropAudio,
              ChildCommit, ChildClear, ChildUndo, ChildFail
<1>7. CASE ChildRaises(w) \/ ChildDies(w)
  BY <1>7 DEF ChildRaises, ChildDies
<1> QED BY <1>1, <1>2, <1>3, <1>4, <1>5, <1>6, <1>7 DEF WorkerStep, SupStep, ChildStep

\* Nobody is killed or out of time, so no supervisor gives a living decoder up.
LEMMA NobodyAbandons ==
    ASSUME NoAbandonedDecoder, TypeOK, ChildHasParent, WorkersHold, NEW w \in Workers,
           WorkerStep(w)
    PROVE  /\ supPc'[w] # "down"
           /\ supPc'[w] = "abort" => childPc'[w] = "none"
           /\ childPc'[w] = "mix" => supJob'[w] \in Sessions
<1>0. /\ supPc[w] # "down"
      /\ supPc[w] = "abort" => childPc[w] = "none"
      /\ childPc[w] = "mix" => supJob[w] \in Sessions
      /\ supPc[w] \in {"idle", "claim", "settle", "final", "died", "fail"} => childPc[w] = "none"
  BY DEF WorkersHold, ChildHasParent
<1> USE <1>0 DEF TypeOK, NoAbandonedDecoder, SupGoto, SupReturn, Reap, StopProcess, sup
<1>1. CASE SupClaim(w) \/ SupSpawn(w) \/ SupReadRow(w) \/ SupReadFlag(w) \/ SupPoll(w)
  BY <1>1 DEF SupClaim, SupSpawn, SupReadRow, SupReadFlag, SupPoll
<1>2. CASE SupKill(w) \/ SupWipe(w) \/ SupUnflag(w) \/ SupSettle(w) \/ SupFinal(w)
  BY <1>2 DEF SupKill, SupWipe, SupUnflag, SupSettle, SupFinal
<1>3. CASE \/ SupAbort(w) \/ SupFail(w) \/ SupSpawnFails(w) \/ SupTimeout(w) \/ SupTimeoutLate(w)
           \/ SupCrash(w) \/ SupRestart(w)
  BY <1>3 DEF SupAbort, SupFail, SupSpawnFails, SupTimeout, SupTimeoutLate, SupCrash, SupRestart
<1>4. CASE ChildStep(w) \/ ChildRaises(w) \/ ChildDies(w)
  <2>1. /\ childPc[w] \in LivePcs /\ supPc' = supPc /\ supJob' = supJob
        /\ childPc'[w] = "mix" => supJob[w] \in Sessions
    BY <1>4 DEF ChildStep, ChildStart, ChildBegin, ChildAssemble, ChildMix, ChildDecode, ChildSave,
                ChildDropAudio, ChildCommit, ChildClear, ChildUndo, ChildPark, ChildFail,
                ChildRaises, ChildDies, ChildGoto, LivePcs
  <2> QED BY <2>1 DEF LivePcs
<1> QED BY <1>1, <1>2, <1>3, <1>4 DEF WorkerStep, SupStep

\* Workers: what a decoder saves for a deleted recording its supervisor removes.
LEMMA DeletedByWorker ==
    ASSUME NoAbandonedDecoder, TypeOK, DeletedInv, NEW w \in Workers, WorkerStep(w)
    PROVE  DeletedInv'
<1>1. \A v \in Workers : v # w =>
         supPc'[v] = supPc[v] /\ supJob'[v] = supJob[v] /\ childPc'[v] = childPc[v]
  BY WorkersLeaveWorkers
<1>2. WorkersHold'
  <2>1. /\ supPc'[w] # "down"
        /\ supPc'[w] = "abort" => childPc'[w] = "none"
        /\ childPc'[w] = "mix" => supJob'[w] \in Sessions
    BY NobodyAbandons DEF DeletedInv
  <2> QED BY <1>1, <2>1 DEF DeletedInv, WorkersHold
<1>3. ASSUME NEW k \in Jobs PROVE LeavesNothing(k)'
  <2>1. LeavesNothing(k) /\ api' = api
    BY WorkerWrites DEF DeletedInv
  <2>2. status[k] = "deleted" <=> status'[k] = "deleted"
    BY WorkerMovesRow DEF HasRow
  <2>3. source'[k] = "kept" => source[k] = "kept"
    BY WorkersAndFiles
  <2>5. mixdown'[k] => k \in Sessions
    <3>1. ChildMix(w) /\ k = supJob[w] => k \in Sessions
      BY DEF ChildMix, DeletedInv, WorkersHold
    <3> QED BY <2>1, <3>1, WorkersAndFiles DEF LeavesNothing
  <2>6. ASSUME status[k] = "deleted", api[k] \notin Unlinking, mixdown'[k]
        PROVE  \E v \in Workers : WillPurge(v, k)'
    <3>1. CASE ChildMix(w) /\ childPc'[w] = "decode" /\ k = supJob[w]
      <4>1. childPc[w] = "mix" /\ supPc' = supPc /\ supJob' = supJob
        BY <3>1 DEF ChildMix, sup
      <4>2. supPc[w] \in {"row", "flag", "poll", "kill"}
        BY <4>1 DEF DeletedInv, WorkersHold, ChildHasParent, TypeOK, SupPcs
      <4> QED BY <3>1, <4>1, <4>2 DEF WillPurge
    <3>2. CASE mixdown[k]
      <4>1. PICK v \in Workers : WillPurge(v, k)
        BY <2>1, <2>6, <3>2 DEF LeavesNothing
      <4>2. CASE v = w
        BY <2>5, <2>6, <4>1, <4>2, PurgeIsKept
      <4>3. CASE v # w
        BY <1>1, <4>1, <4>3 DEF WillPurge
      <4> QED BY <4>2, <4>3
    <3> QED BY <2>6, <3>1, <3>2, WorkersAndFiles
  <2>4. ASSUME status[k] = "deleted", api[k] \notin Unlinking, result'[k]
        PROVE  \E v \in Workers : WillWipe(v, k)'
    <3>1. CASE ChildSave(w) /\ k = supJob[w]
      <4>1. childPc[w] = "save" /\ childPc'[w] \in {"drop", "commit"} /\ supPc' = supPc
            /\ supJob' = supJob
        BY <3>1 DEF ChildSave, ChildGoto, TypeOK, sup
      <4>2. supPc[w] \in {"row", "flag", "poll", "kill"}
        BY <4>1 DEF DeletedInv, WorkersHold, ChildHasParent, TypeOK, SupPcs
      <4> QED BY <3>1, <4>1, <4>2 DEF WillWipe
    <3>2. CASE result[k]
      <4>1. PICK v \in Workers : WillWipe(v, k)
        BY <2>1, <2>4, <3>2 DEF LeavesNothing
      <4>2. CASE v = w
        BY <2>4, <4>1, <4>2, WipeIsKept
      <4>3. CASE v # w
        BY <1>1, <4>1, <4>3 DEF WillWipe
      <4> QED BY <4>2, <4>3
    <3> QED BY <2>4, <3>1, <3>2, WorkersAndFiles
  <2> QED BY <2>1, <2>2, <2>3, <2>4, <2>5, <2>6 DEF LeavesNothing
<1> QED BY <1>2, <1>3, ParentStep DEF DeletedInv

\* Every step preserves the invariant.
LEMMA DeletedStep ==
    ASSUME NoAbandonedDecoder
    PROVE  TypeOK /\ SuspensionHolds /\ DeletedInv /\ [Next]_vars => DeletedInv'
<1> SUFFICES ASSUME TypeOK, SuspensionHolds, DeletedInv, [Next]_vars PROVE DeletedInv'
  OBVIOUS
<1>1. CASE UNCHANGED vars
  BY <1>1 DEF vars, row, redis, files, sup, web, suspension, DeletedInv, ChildHasParent,
              WorkersHold, LeavesNothing, WillWipe, WillPurge
<1>2. ASSUME NEW w \in Workers, NEW j \in Jobs, SupDequeue(w, j) PROVE DeletedInv'
  <2>1. /\ status' = status /\ api' = api /\ source' = source /\ mixdown' = mixdown
        /\ result' = result /\ supPc[w] = "idle" /\ supPc'[w] = "claim"
    BY <1>2 DEF SupDequeue, TypeOK, row, web, files
  <2>2. \A v \in Workers : v # w =>
           supPc'[v] = supPc[v] /\ supJob'[v] = supJob[v] /\ childPc'[v] = childPc[v]
    BY <1>2, WorkersLeaveWorkers
  <2>3. \A k \in Jobs, v \in Workers :
            /\ WillWipe(v, k) => WillWipe(v, k)'
            /\ WillPurge(v, k) => WillPurge(v, k)'
    BY <2>1, <2>2 DEF WillWipe, WillPurge
  <2>4. WorkersHold'
    BY <1>2, <2>1, <2>2 DEF SupDequeue, DeletedInv, WorkersHold, ChildHasParent
  <2>5. ASSUME NEW k \in Jobs PROVE LeavesNothing(k)'
    <3>1. LeavesNothing(k)
      BY DEF DeletedInv
    <3> QED BY <2>1, <2>3, <3>1 DEF LeavesNothing
  <2> QED BY <1>2, <2>4, <2>5, ParentStep DEF DeletedInv
<1> QED
  BY <1>1, <1>2, StepKinds, DeletedByWorker, DeletedByRequest

\* When delete_job and the workers are through with a deleted recording, no audio,
\* no mixdown and no result of it is left on disk.
THEOREM DeletionIsComplete ==
    ASSUME NoAbandonedDecoder
    PROVE  Spec => []DeletedLeavesNothing
<1>1. TypeOK /\ SuspensionHolds /\ DeletedInv /\ [Next]_vars => DeletedInv'
  BY DeletedStep
<1>2. DeletedInv => DeletedLeavesNothing
  BY DEF DeletedInv, DeletedLeavesNothing, LeavesNothing, Quiet, WillWipe, WillPurge, Unlinking
<1> QED
  BY <1>1, <1>2, DeletedInit, Typing, SuspensionIsAtomic, PTL DEF Spec
-----------------------------------------------------------------------------
(* A finished recording has its result. *)

\* A supervisor that was killed while it took a late stop back leaves a recording
\* that is DONE without a result; a failure reported behind a supervisor's back
\* lets two decoders at it, and one removes the result of the other.
NoTornCleanup == NoLateFailure /\ "crash" \notin Faults

\* Where a supervisor has removed a result and has not yet said so, or has been
\* cut short and has not yet said FAILED.
TakingBack == {"unflag", "settle", "abort", "fail"}

\* DONE has its result, or the supervisor that took it back will say so.
DoneBacked(j) ==
    status[j] = "done" =>
        \/ result[j]
        \/ \E w \in Workers : supJob[w] = j /\ supPc[w] \in TakingBack

\* What a decoder is about to report as DONE is on disk.
Saved(w) ==
    childPc[w] \in {"drop", "commit"} => result[supJob[w]] \/ status[supJob[w]] = "deleted"

DoneInv == (\A j \in Jobs : DoneBacked(j)) /\ (\A w \in Workers : Saved(w))

\* In the beginning nothing is done, and nobody decodes.
LEMMA DoneInit == Init => DoneInv
  BY DEF Init, DoneInv, DoneBacked, Saved

\* A decoder that has saved is attended to, with the recording it works for.
LEMMA SavedIsAttended ==
    ASSUME TypeOK, ExclusiveInv, NEW w \in Workers, childPc[w] \in {"drop", "commit"}
    PROVE  supJob[w] \in Jobs /\ Attending(w, supJob[w])
<1>1. supPc[w] # "idle"
  BY DEF ExclusiveInv, ChildHasParent
<1> QED BY <1>1 DEF TypeOK, Attending

\* Requests: a result goes with a deletion, or with a reopening, for which no
\* worker may attend to the recording; a session without clips is DONE with the
\* result of its live transcription.
LEMMA DoneByRequest ==
    ASSUME TypeOK, SuspensionHolds, ExclusiveInv, DoneInv,
           NEW j \in Jobs, UserStep(j) \/ LoopStep(j) \/ PoolStep(j)
    PROVE  DoneInv'
<1> DEFINE Removed == result[j] /\ ~result'[j] => status'[j] = "deleted" \/ AtRest(j)
           Finished == status'[j] = "done" => result'[j] \/ (status[j] = "done" /\ result' = result)
           Final == status[j] = "deleted" => status'[j] = "deleted"
<1>0. api[j] \in Unlinking => status[j] = "deleted"
  BY DEF ExclusiveInv, DeleteIsUnderWay, Unlinking
<1>a. Removed /\ Finished /\ Final
  <2> USE <1>0 DEF TypeOK, Unlinking, row, files
  <2>1. CASE CreateJob(j) \/ Retry(j) \/ CloseSession(j) \/ CreateSession(j) \/ CloseLiveOnly(j)
    BY <2>1 DEF CreateJob, Retry, CloseSession, CreateSession, CloseLiveOnly, SetRow, AtRest
  <2>2. CASE CancelRead(j) \/ DeleteRead(j) \/ AppendClip(j) \/ RemoveClip(j) \/ SuspendBegin(j)
    BY <2>2 DEF CancelRead, DeleteRead, AppendClip, RemoveClip, SuspendBegin
  <2>3. CASE Reopen(j) \/ Sweep(j)
    BY <2>3 DEF Reopen, Sweep, SetRow, DeleteResult, AtRest
  <2>4. CASE DeleteRow(j) \/ DeleteFiles(j) \/ CancelRow(j)
    BY <2>4 DEF DeleteRow, DeleteFiles, CancelRow, SetRow, DeleteResult
  <2>5. CASE LoopEnqueue(j) \/ CloseEnqueue(j) \/ LoopSetRqId(j) \/ CloseSetRqId(j)
    BY <2>5 DEF LoopEnqueue, CloseEnqueue, LoopSetRqId, CloseSetRqId
  <2>6. CASE \/ RetryUnflag(j) \/ CancelFlag(j) \/ CancelReflag(j) \/ CancelDrop(j)
             \/ DeleteReflag(j) \/ DeleteDrop(j) \/ SuspendDrop(j)
    BY <2>6 DEF RetryUnflag, CancelFlag, CancelReflag, CancelDrop, DeleteReflag, DeleteDrop,
                SuspendDrop
  <2>7. CASE CreateEnqueueFails(j) \/ RetryEnqueueFails(j) \/ CloseEnqueueFails(j)
    BY <2>7 DEF CreateEnqueueFails, RetryEnqueueFails, CloseEnqueueFails, Update, SetRow,
                Canceled, HasRow
  <2>8. CASE SuspendCommit(j)
    BY <2>8 DEF SuspendCommit, SetRow, SuspensionHolds
  <2> QED
    BY <2>1, <2>2, <2>3, <2>4, <2>5, <2>6, <2>7, <2>8
    DEF UserStep, LoopStep, PoolStep, CloseStep, SuspendStep
<1>1. supPc' = supPc /\ supJob' = supJob /\ childPc' = childPc
  BY RequestsLeaveWorkers
<1>2. \A k \in Jobs : k # j => status'[k] = status[k] /\ result'[k] = result[k]
  BY RequestsLeaveOthers
<1>3. ASSUME NEW k \in Jobs PROVE DoneBacked(k)'
  <2>1. DoneBacked(k)
    BY DEF DoneInv
  <2>2. CASE k = j
    BY <1>a, <1>1, <2>1, <2>2 DEF DoneBacked
  <2>3. CASE k # j
    BY <1>1, <1>2, <2>1, <2>3 DEF DoneBacked
  <2> QED BY <2>2, <2>3
<1>4. ASSUME NEW w \in Workers, childPc[w] \in {"drop", "commit"} PROVE Saved(w)'
  <2>1. Saved(w) /\ supJob[w] \in Jobs /\ Attending(w, supJob[w])
    BY <1>4, SavedIsAttended DEF DoneInv
  <2>2. CASE supJob[w] = j
    <3>1. ~AtRest(j)
      BY <2>1, <2>2 DEF ExclusiveInv, AttendedIsTaken, AtRest
    <3> QED BY <1>a, <1>1, <1>4, <2>1, <2>2, <3>1 DEF Saved, TypeOK
  <2>3. CASE supJob[w] # j
    BY <1>1, <1>2, <2>1, <2>3 DEF Saved
  <2> QED BY <2>2, <2>3
<1>5. ASSUME NEW w \in Workers PROVE Saved(w)'
  BY <1>1, <1>4 DEF Saved
<1> QED BY <1>3, <1>5 DEF DoneInv

\* Only three steps of a worker write or remove a result, and only its own.
LEMMA ResultStays ==
    ASSUME TypeOK, NEW w \in Workers, WorkerStep(w), NEW k \in Jobs
    PROVE  \/ result'[k] = result[k]
           \/ k = supJob[w] /\ (SupWipe(w) \/ ChildUndo(w) \/ ChildSave(w))
<1> USE DEF TypeOK, files
<1>1. CASE SupWipe(w) \/ ChildUndo(w) \/ ChildSave(w)
  BY <1>1 DEF SupWipe, ChildUndo, ChildSave, DeleteResult
<1>2. CASE \/ SupClaim(w) \/ SupSpawn(w) \/ SupReadRow(w) \/ SupReadFlag(w) \/ SupPoll(w)
           \/ SupKill(w) \/ SupUnflag(w) \/ SupSettle(w) \/ SupFinal(w) \/ SupAbort(w)
           \/ SupFail(w) \/ SupSpawnFails(w) \/ SupTimeout(w) \/ SupTimeoutLate(w) \/ SupCrash(w) \/ SupRestart(w)
  BY <1>2 DEF SupClaim, SupSpawn, SupReadRow, SupReadFlag, SupPoll, SupKill, SupUnflag,
              SupSettle, SupFinal, SupAbort, SupFail, SupSpawnFails, SupTimeout, SupTimeoutLate, SupCrash,
              SupRestart
<1>3. CASE \/ ChildStart(w) \/ ChildBegin(w) \/ ChildAssemble(w) \/ ChildMix(w) \/ ChildDecode(w)
           \/ ChildDropAudio(w) \/ ChildCommit(w) \/ ChildClear(w) \/ ChildPark(w)
           \/ ChildFail(w) \/ ChildRaises(w) \/ ChildDies(w)
  BY <1>3 DEF ChildStart, ChildBegin, ChildAssemble, ChildMix, ChildDecode, ChildDropAudio, ChildCommit,
              ChildClear, ChildPark, ChildFail, ChildRaises, ChildDies
<1> QED BY <1>1, <1>2, <1>3 DEF WorkerStep, SupStep, ChildStep

\* Who removes a result attends to the recording: a supervisor that will settle
\* the row, or a decoder that has not reported it as done.
LEMMA RemovalIsNoted ==
    ASSUME TypeOK, ExclusiveInv, UndoneInv, NEW w \in Workers, WorkerStep(w),
           NEW k \in Jobs, result[k], ~result'[k]
    PROVE  /\ k = supJob[w] /\ Attending(w, k) /\ childPc'[w] \notin {"drop", "commit"}
           /\ \/ supJob'[w] = k /\ supPc'[w] = "unflag"
              \/ status'[k] # "done"
<1>1. k = supJob[w] /\ (SupWipe(w) \/ ChildUndo(w))
  <2>1. ~ChildSave(w) \/ k # supJob[w]
    BY DEF ChildSave, TypeOK
  <2> QED BY <2>1, ResultStays
<1>2. CASE SupWipe(w)
  BY <1>1, <1>2 DEF SupWipe, SupGoto, TypeOK, Attending, Supervising, web, ExclusiveInv,
                    ChildHasParent
<1>3. CASE ChildUndo(w)
  <2>1. childPc[w] = "undo" /\ childPc'[w] = "park" /\ status' = status
    BY <1>3 DEF ChildUndo, ChildGoto, TypeOK, row
  <2>2. status[k] # "done"
    BY <1>1, <2>1 DEF UndoneInv, Uncommitted, LivePcs
  <2> QED BY <1>1, <2>1, <2>2 DEF Attending
<1> QED BY <1>1, <1>2, <1>3

\* A supervisor that takes a recording back goes on until the row says so, or
\* that it failed.
LEMMA SettlementIsKept ==
    ASSUME "crash" \notin Faults, TypeOK, NEW w \in Workers, WorkerStep(w),
           supPc[w] \in TakingBack
    PROVE  \/ supJob'[w] = supJob[w] /\ supPc'[w] \in TakingBack
           \/ status'[supJob[w]] # "done"
<1> USE DEF TakingBack
<1>0. RowTypes /\ AudioTypes /\ supJob[w] \in Jobs
  BY DEF TypeOK, RowTypes, AudioTypes
<1>1. CASE SupUnflag(w) \/ SupAbort(w) \/ SupTimeout(w)
  <2>1. \E next \in TakingBack : SupGoto(w, next)
    BY <1>1 DEF SupUnflag, SupAbort, SupTimeout
  <2>2. supPc \in [Workers -> SupPcs]
    BY DEF TypeOK
  <2> QED BY <2>1, <2>2 DEF SupGoto
<1>2. CASE SupSettle(w)
  <2>1. CleanupRow(supJob[w], TRUE)
    BY <1>2 DEF SupSettle
  <2>2. HasRow(supJob[w]) => status'[supJob[w]] = "canceled"
    BY <1>0, <2>1, CleanupEffect
  <2>3. ~HasRow(supJob[w]) => status' = status
    BY <1>0, <2>1, CleanupEffect
  <2> QED BY <2>2, <2>3 DEF HasRow
<1>5. CASE SupFail(w)
  <2>1. Update(supJob[w], "failed")
    BY <1>5 DEF SupFail
  <2>2. ~Canceled(supJob[w]) => status'[supJob[w]] = "failed"
    BY <1>0, <2>1, UpdateEffect
  <2>3. Canceled(supJob[w]) => status' = status
    BY <1>0, <2>1, UpdateEffect
  <2> QED BY <2>2, <2>3 DEF Canceled, HasRow
<1>3. CASE \/ SupClaim(w) \/ SupSpawn(w) \/ SupReadRow(w) \/ SupReadFlag(w) \/ SupPoll(w)
           \/ SupKill(w) \/ SupWipe(w) \/ SupFinal(w) \/ SupSpawnFails(w)
           \/ SupTimeoutLate(w) \/ SupCrash(w) \/ SupRestart(w)
  BY <1>3 DEF SupClaim, SupSpawn, SupReadRow, SupReadFlag, SupPoll, SupKill, SupWipe,
              SupFinal, SupSpawnFails, SupTimeoutLate, SupCrash, SupRestart
<1>4. CASE ChildStep(w) \/ ChildRaises(w) \/ ChildDies(w)
  BY <1>4 DEF ChildStep, ChildStart, ChildBegin, ChildAssemble, ChildMix, ChildDecode, ChildSave,
              ChildDropAudio, ChildCommit, ChildClear, ChildUndo, ChildPark, ChildFail,
              ChildRaises, ChildDies, sup
<1> QED BY <1>1, <1>2, <1>3, <1>4, <1>5 DEF WorkerStep, SupStep

\* Only a decoder reports DONE, and what it reports is on disk.
LEMMA DoneIsReported ==
    ASSUME TypeOK, DoneInv, NEW w \in Workers, WorkerStep(w), NEW k \in Jobs,
           status'[k] = "done", status[k] # "done"
    PROVE  result'[k]
<1>0. RowTypes
  BY DEF TypeOK, RowTypes
<1>1. k = supJob[w] /\ HasRow(k)
  BY WorkerMovesRow
<1>2. ChildCommit(w)
  <2>0. ASSUME NEW st \in {"running", "failed"} PROVE ~Update(k, st)
    BY <1>0, <1>1, UpdateEffect
  <2>1. CASE SupClaim(w)
    <3>1. SetRow(k, "running", FALSE) \/ status' = status
      BY <1>1, <2>1 DEF SupClaim
    <3>2. ASSUME SetRow(k, "running", FALSE) PROVE FALSE
      <4>1. status'[k] = "running"
        BY <1>0, <3>2, SetRowEffect
      <4> QED BY <4>1
    <3> QED BY <3>1, <3>2
  <2>2. CASE SupFail(w) \/ ChildFail(w)
    <3>1. Update(k, "failed")
      BY <1>1, <2>2 DEF SupFail, ChildFail
    <3> QED BY <2>0, <3>1
  <2>3. CASE ChildBegin(w)
    <3>1. Update(k, "running")
      BY <1>1, <2>3 DEF ChildBegin
    <3> QED BY <2>0, <3>1
  <2>4. CASE SupSettle(w) \/ ChildPark(w)
    <3>1. \E stopping \in BOOLEAN : SetRow(k, "canceled", stopping)
      BY <1>1, <2>4 DEF SupSettle, ChildPark, CleanupRow
    <3> QED BY <1>0, <3>1, SetRowEffect
  <2>5. CASE \/ SupSpawn(w) \/ SupReadRow(w) \/ SupReadFlag(w) \/ SupPoll(w) \/ SupKill(w)
             \/ SupWipe(w) \/ SupUnflag(w) \/ SupFinal(w) \/ SupAbort(w)
             \/ SupSpawnFails(w) \/ SupTimeout(w) \/ SupTimeoutLate(w) \/ SupCrash(w) \/ SupRestart(w)
    BY <2>5 DEF SupSpawn, SupReadRow, SupReadFlag, SupPoll, SupKill, SupWipe, SupUnflag,
                SupFinal, SupAbort, SupSpawnFails, SupTimeout, SupTimeoutLate, SupCrash, SupRestart, row
  <2>6. CASE \/ ChildStart(w) \/ ChildAssemble(w) \/ ChildMix(w) \/ ChildDecode(w) \/ ChildSave(w)
             \/ ChildDropAudio(w) \/ ChildClear(w) \/ ChildUndo(w) \/ ChildRaises(w)
             \/ ChildDies(w)
    BY <2>6 DEF ChildStart, ChildAssemble, ChildMix, ChildDecode, ChildSave, ChildDropAudio, ChildClear,
                ChildUndo, ChildRaises, ChildDies, row
  <2> QED BY <2>1, <2>2, <2>3, <2>4, <2>5, <2>6 DEF WorkerStep, SupStep, ChildStep
<1>3. childPc[w] = "commit" /\ result' = result
  BY <1>2 DEF ChildCommit, files
<1> QED BY <1>1, <1>3 DEF DoneInv, Saved, HasRow

\* A decoder gets to its report past the saving of the result.
LEMMA ReportIsSaved ==
    ASSUME TypeOK, ExclusiveInv, NEW w \in Workers, WorkerStep(w),
           childPc'[w] \in {"drop", "commit"}
    PROVE  /\ supJob'[w] = supJob[w] /\ supJob[w] \in Jobs
           /\ childPc[w] \in {"drop", "commit"} \/ result'[supJob[w]]
<1> USE DEF TypeOK, SupGoto, ChildGoto, Reap, StopProcess, sup, web
<1>1. CASE ChildSave(w) \/ ChildDropAudio(w)
  BY <1>1 DEF ChildSave, ChildDropAudio, ExclusiveInv, ChildHasParent
<1>2. CASE \/ ChildStart(w) \/ ChildBegin(w) \/ ChildAssemble(w) \/ ChildMix(w) \/ ChildDecode(w)
           \/ ChildCommit(w) \/ ChildClear(w) \/ ChildUndo(w) \/ ChildPark(w)
           \/ ChildFail(w) \/ ChildRaises(w) \/ ChildDies(w)
  BY <1>2 DEF ChildStart, ChildBegin, ChildAssemble, ChildMix, ChildDecode, ChildCommit, ChildClear,
              ChildUndo, ChildPark, ChildFail, ChildRaises, ChildDies
<1>3. CASE \/ SupClaim(w) \/ SupSettle(w) \/ SupFinal(w) \/ SupFail(w) \/ SupRestart(w)
           \/ SupTimeoutLate(w)
  BY <1>3 DEF SupTimeoutLate, SupClaim, SupSettle, SupFinal, SupFail, SupRestart, ExclusiveInv, ChildHasParent,
              LivePcs
<1>4. CASE SupSpawn(w) \/ SupPoll(w) \/ SupKill(w) \/ SupAbort(w)
  BY <1>4 DEF SupSpawn, SupPoll, SupKill, SupAbort
<1>5. CASE \/ SupReadRow(w) \/ SupReadFlag(w) \/ SupWipe(w) \/ SupUnflag(w) \/ SupSpawnFails(w)
           \/ SupTimeout(w) \/ SupCrash(w)
  BY <1>5 DEF SupReadRow, SupReadFlag, SupWipe, SupUnflag, SupSpawnFails, SupTimeout, SupCrash
<1> QED BY <1>1, <1>2, <1>3, <1>4, <1>5 DEF WorkerStep, SupStep, ChildStep

\* Workers: a result is saved before it is reported, and who removes one attends
\* to the recording alone.
LEMMA DoneByWorker ==
    ASSUME NoTornCleanup, TypeOK, ExclusiveInv, UndoneInv, DoneInv, NEW w \in Workers,
           WorkerStep(w)
    PROVE  DoneInv'
<1>1. \A v \in Workers : v # w =>
         supPc'[v] = supPc[v] /\ supJob'[v] = supJob[v] /\ childPc'[v] = childPc[v]
  BY WorkersLeaveWorkers
<1>2. ASSUME NEW k \in Jobs, status'[k] = "done", ~result'[k]
      PROVE  \E v \in Workers : supJob'[v] = k /\ supPc'[v] \in TakingBack
  <2>1. status[k] = "done"
    BY <1>2, DoneIsReported
  <2>2. CASE result[k]
    BY <1>2, <2>2, RemovalIsNoted DEF TakingBack
  <2>3. CASE ~result[k]
    <3>1. PICK v \in Workers : supJob[v] = k /\ supPc[v] \in TakingBack
      BY <2>1, <2>3 DEF DoneInv, DoneBacked
    <3>2. CASE v = w
      BY <1>2, <3>1, <3>2, SettlementIsKept DEF NoTornCleanup
    <3>3. CASE v # w
      BY <1>1, <3>1, <3>3
    <3> QED BY <3>2, <3>3
  <2> QED BY <2>2, <2>3
<1>3. ASSUME NEW v \in Workers, childPc'[v] \in {"drop", "commit"}, ~result'[supJob'[v]]
      PROVE  status'[supJob'[v]] = "deleted"
  <2>1. /\ supJob'[v] = supJob[v] /\ supJob[v] \in Jobs
        /\ childPc[v] \in {"drop", "commit"} \/ (v = w /\ result'[supJob[v]])
    <3>1. CASE v = w
      BY <1>3, <3>1, ReportIsSaved
    <3>2. CASE v # w
      BY <1>1, <1>3, <3>2, SavedIsAttended
    <3> QED BY <3>1, <3>2
  <2>2. childPc[v] \in {"drop", "commit"} /\ Attending(v, supJob[v]) /\ Saved(v)
    BY <1>3, <2>1, SavedIsAttended DEF DoneInv
  <2>3. ~result[supJob[v]]
    <3>1. SUFFICES ASSUME result[supJob[v]] PROVE FALSE
      OBVIOUS
    <3>2. supJob[v] = supJob[w] /\ Attending(w, supJob[v]) /\ childPc'[w] \notin {"drop", "commit"}
      BY <1>3, <2>1, <3>1, RemovalIsNoted
    <3>3. v = w
      BY <2>1, <2>2, <3>2 DEF ExclusiveInv, AttendedAlone
    <3> QED BY <1>3, <3>2, <3>3
  <2>4. status[supJob[v]] = "deleted"
    BY <2>2, <2>3 DEF Saved
  <2> QED BY <2>1, <2>4, WorkerMovesRow DEF HasRow
<1> QED BY <1>2, <1>3 DEF DoneInv, DoneBacked, Saved

\* Every step preserves the invariant.
LEMMA DoneStep ==
    ASSUME NoTornCleanup
    PROVE  TypeOK /\ SuspensionHolds /\ ExclusiveInv /\ UndoneInv /\ DoneInv /\ [Next]_vars
             => DoneInv'
<1> SUFFICES ASSUME TypeOK, SuspensionHolds, ExclusiveInv, UndoneInv, DoneInv, [Next]_vars
             PROVE  DoneInv'
  OBVIOUS
<1>1. CASE UNCHANGED vars
  BY <1>1 DEF vars, DoneInv, DoneBacked, Saved
<1>2. ASSUME NEW w \in Workers, NEW j \in Jobs, SupDequeue(w, j) PROVE DoneInv'
  <2>1. /\ status' = status /\ result' = result /\ childPc' = childPc
        /\ supPc[w] = "idle"
    BY <1>2 DEF SupDequeue, row, files
  <2>2. \A v \in Workers : v # w => supPc'[v] = supPc[v] /\ supJob'[v] = supJob[v]
    BY <1>2, WorkersLeaveWorkers
  <2>3. childPc[w] = "none"
    BY <2>1 DEF ExclusiveInv, ChildHasParent
  <2>4. ASSUME NEW k \in Jobs PROVE DoneBacked(k)'
    <3>1. \A v \in Workers :
              supPc[v] \in TakingBack => supJob'[v] = supJob[v] /\ supPc'[v] = supPc[v]
      BY <2>1, <2>2 DEF TakingBack
    <3> QED BY <2>1, <3>1 DEF DoneInv, DoneBacked
  <2>5. ASSUME NEW v \in Workers PROVE Saved(v)'
    BY <2>1, <2>2, <2>3 DEF DoneInv, Saved
  <2> QED BY <2>4, <2>5 DEF DoneInv
<1> QED
  BY <1>1, <1>2, StepKinds, DoneByWorker, DoneByRequest

\* A recording shown as DONE has its result, or the supervisor that has taken it
\* back will say so.
THEOREM DoneIsBacked ==
    ASSUME NoTornCleanup
    PROVE  Spec => []DoneHasResult
<1>1. TypeOK /\ SuspensionHolds /\ ExclusiveInv /\ UndoneInv /\ DoneInv /\ [Next]_vars => DoneInv'
  BY DoneStep
<1>2. DoneInv => DoneHasResult
  BY DEF DoneInv, DoneBacked, DoneHasResult, TakingBack
<1>3. NoLateFailure
  BY DEF NoTornCleanup
<1> QED
  BY <1>1, <1>2, <1>3, DoneInit, Undone, Typing, SuspensionIsAtomic, Exclusive, PTL DEF Spec
=============================================================================
