----------------------------- MODULE Supervisor -----------------------------
(***************************************************************************)
(* tasks.run_isolated, run by an RQ SimpleWorker (worker.py): it claims a  *)
(* queued recording, owns the child that decodes it, watches the row, the  *)
(* cancel flag and the child, and kills and cleans up after it.            *)
(***************************************************************************)
EXTENDS PipelineState

SupGoto(w, pc) == supPc' = [supPc EXCEPT ![w] = pc] /\ UNCHANGED supJob

SupReturn(w) ==
    /\ supPc' = [supPc EXCEPT ![w] = "idle"]
    /\ supJob' = [supJob EXCEPT ![w] = NoJob]

Reap(w) == childPc' = [childPc EXCEPT ![w] = "none"]

\* _stop_process: SIGKILL to the process group, then wait.
StopProcess(w) == Reap(w)

SupDequeue(w, j) ==
    /\ supPc[w] = "idle" /\ rq[j] > 0
    /\ rq' = [rq EXCEPT ![j] = @ - 1]
    /\ supPc' = [supPc EXCEPT ![w] = "claim"]
    /\ supJob' = [supJob EXCEPT ![w] = j]
    /\ UNCHANGED <<row, flag, files, childPc, web>>

ClaimableRunning(j) == status[j] \in {"queued", "running"} \* mutant
ClaimableUnflagged(j) == status[j] = "queued" /\ ~flag[j]  \* mutant
Claimable(j) == status[j] = "queued"

\* The atomic claim, UPDATE ... WHERE status = QUEUED.
SupClaim(w) ==
    /\ supPc[w] = "claim" /\ Unlocked(supJob[w])
    /\ IF Claimable(supJob[w])
       THEN SetRow(supJob[w], "running", FALSE) /\ SupGoto(w, "spawn")
       ELSE SupReturn(w) /\ UNCHANGED <<status, canceling>>
    /\ UNCHANGED <<rqId, redis, files, childPc, web>>

SupSpawn(w) ==
    /\ supPc[w] = "spawn"
    /\ childPc' = [childPc EXCEPT ![w] = "start"]
    /\ SupGoto(w, "row")
    /\ UNCHANGED <<row, redis, files, web>>

\* Popen raises: the except clause has no process to stop.
SupSpawnFails(w) ==
    /\ "spawn" \in Faults /\ supPc[w] = "spawn"
    /\ SupGoto(w, "fail")
    /\ UNCHANGED <<row, redis, files, childPc, web>>

SupReadRow(w) ==
    /\ supPc[w] = "row"
    /\ SupGoto(w, IF Canceled(supJob[w]) THEN "kill" ELSE "flag")
    /\ UNCHANGED <<row, redis, files, childPc, web>>

SupReadFlag(w) ==
    /\ supPc[w] = "flag"
    /\ \E canceled \in CancelAnswers(supJob[w]) :
           SupGoto(w, IF canceled THEN "kill" ELSE "poll")
    /\ UNCHANGED <<row, redis, files, childPc, web>>

\* process.poll(): a child that has exited is reaped by the call.
SupPoll(w) ==
    /\ supPc[w] = "poll"
    /\ \/ childPc[w] \in LivePcs /\ SupGoto(w, "row") /\ UNCHANGED childPc
       \/ childPc[w] = "exit0" /\ SupGoto(w, "final") /\ Reap(w)
       \/ childPc[w] = "exit1" /\ SupGoto(w, "died") /\ Reap(w)
    /\ UNCHANGED <<row, redis, files, web>>

\* run_isolated's own check in the loop, or RQ's alarm for the same time: it
\* rises in whatever statement runs (in a Redis call it is swallowed, and the
\* call is lost).  Bound: a start does not last WORKER_JOB_TIMEOUT, so not
\* before the child runs.
SupTimeout(w) ==
    /\ "timeout" \in Faults
    /\ supPc[w] \in {"row", "flag", "poll", "kill", "wipe", "unflag", "settle", "final"}
    /\ SupGoto(w, "abort")
    /\ UNCHANGED <<row, redis, files, childPc, web>>

\* The alarm rises in the except clause of a child that has failed: it leaves
\* run_isolated before FAILED is written.  (It rises once.)
SupTimeoutLate(w) ==
    /\ "timeout" \in Faults /\ supPc[w] = "died"
    /\ SupReturn(w)
    /\ UNCHANGED <<row, redis, files, childPc, web>>

SupKill(w) ==
    /\ supPc[w] = "kill"
    /\ StopProcess(w) /\ SupGoto(w, "wipe")
    /\ UNCHANGED <<row, redis, files, web>>

\* _cleanup_canceled, fully stopped: the result, the flag, the row.
SupWipe(w) ==
    /\ supPc[w] = "wipe"
    /\ DeleteResult(supJob[w]) /\ SupGoto(w, "unflag")
    /\ UNCHANGED <<row, redis, source, mixdown, childPc, web>>

SupUnflag(w) ==
    /\ supPc[w] = "unflag"
    /\ ClearCancel(supJob[w]) /\ SupGoto(w, "settle")
    /\ UNCHANGED <<row, rq, files, childPc, web>>

SupSettle(w) ==
    /\ supPc[w] = "settle"
    /\ CleanupRow(supJob[w], TRUE) /\ SupReturn(w)
    /\ UNCHANGED <<rqId, redis, result, childPc, web>>

\* The last look at the row, after exit code 0.
SupFinalTrusting(w) ==                     \* mutant: exit code 0 is success
    /\ supPc[w] = "final"
    /\ SupReturn(w)
    /\ UNCHANGED <<row, redis, files, childPc, web>>
SupFinal(w) ==
    /\ supPc[w] = "final"
    /\ IF Canceled(supJob[w]) THEN SupGoto(w, "wipe") ELSE SupReturn(w)
    /\ UNCHANGED <<row, redis, files, childPc, web>>

\* except BaseException: stop whatever is left, then FAILED, which changes
\* nothing of a row that is canceled.
SupAbortHasty(w) ==                        \* mutant: FAILED before the kill
    /\ supPc[w] = "abort"
    /\ Update(supJob[w], "failed") /\ SupGoto(w, "kill")
    /\ UNCHANGED <<rqId, redis, files, childPc, web>>
SupAbort(w) ==
    /\ supPc[w] = "abort"
    /\ StopProcess(w) /\ SupGoto(w, "fail")
    /\ UNCHANGED <<row, redis, files, web>>

SupFail(w) ==
    /\ supPc[w] \in {"died", "fail"}
    /\ Update(supJob[w], "failed") /\ SupReturn(w)
    /\ UNCHANGED <<rqId, redis, files, childPc, web>>

SupStep(w) ==
    \/ SupClaim(w) \/ SupSpawn(w) \/ SupReadRow(w) \/ SupReadFlag(w)
    \/ SupPoll(w) \/ SupKill(w) \/ SupWipe(w) \/ SupUnflag(w) \/ SupSettle(w)
    \/ SupFinal(w) \/ SupAbort(w) \/ SupFail(w)

\* The supervisor process is killed; its child has a session of its own
\* (start_new_session) and lives on.
SupCrash(w) ==
    /\ "crash" \in Faults
    /\ supPc[w] \notin {"idle", "down"}
    /\ SupGoto(w, "down")
    /\ UNCHANGED <<row, redis, files, childPc, web>>

\* Bound: the slot comes back once its orphan is gone; until then another
\* slot stands for the restarted service.
SupRestart(w) ==
    /\ supPc[w] = "down" /\ childPc[w] \notin LivePcs
    /\ Reap(w) /\ SupReturn(w)
    /\ UNCHANGED <<row, redis, files, web>>
=============================================================================
