------------------------- MODULE PipelineRefinement -------------------------
(***************************************************************************)
(* The pipeline implements the recording lifecycle in every environment in *)
(* which no failure is reported behind a supervisor's back: a step moves   *)
(* at most one recording, and that as one action of RecordingLifecycle.    *)
(***************************************************************************)
EXTENDS PipelineExclusive

Attended(j) == \E w \in Workers : Attending(w, j)

\* A decoder that has not committed its result, or is about to be started,
\* does not work for a recording that is DONE; what is being deleted exists.
Uncommitted == LivePcs \ {"clear"}

UndoneInv ==
    /\ \A w \in Workers :
           supPc[w] = "spawn" \/ childPc[w] \in Uncommitted => status[supJob[w]] # "done"
    /\ \A j \in Jobs : api[j] = "deleteRow" => status[j] # "absent"

-----------------------------------------------------------------------------
(* What a step may do to one recording, and what it leaves alone. *)

Rests(j) == Phase(j)' = Phase(j) /\ (Attended(j)' <=> Attended(j))

RestElsewhere(j) == \A k \in Jobs : k # j => Rests(k)

\* Only somebody else than a worker moves it, and no worker attends to it.
MovesAlone(j) ==
    /\ ~Attended(j) /\ ~Attended(j)'
    /\ \/ Phase(j) \in {"absent", "failed", "stopped"} /\ Phase(j)' = "open"
       \/ Phase(j) \in {"absent", "open", "failed", "stopped"} /\ Phase(j)' = "queued"
       \/ Phase(j) = "open" /\ Phase(j)' = "done"

IsClaimed(j) ==
    ~Attended(j) /\ Attended(j)' /\ Phase(j) = "queued" /\ Phase(j)' = "running"

IsFinished(j) ==
    Attended(j) /\ Attended(j)' /\ Phase(j) = "running" /\ Phase(j)' = "done"

IsStopped(j) ==
    /\ Attended(j)' <=> Attended(j)
    /\ \/ Phase(j) = "queued" /\ Phase(j)' = "stopped"
       \/ Phase(j) = "running" /\ Phase(j)' = "stopping"
       \/ Phase(j) \notin {"absent", "deleted"} /\ Phase(j)' = "deleted"

IsLeft(j) ==
    /\ Attended(j) /\ ~Attended(j)'
    /\ \/ Phase(j)' = Phase(j)
       \/ Phase(j) \in {"running", "stopping", "done"} /\ Phase(j)' = "stopped"
       \/ Phase(j) \in {"running", "done"} /\ Phase(j)' = "failed"

OneMove(j) ==
    /\ RestElsewhere(j)
    /\ \/ Rests(j) \/ MovesAlone(j) \/ IsClaimed(j) \/ IsFinished(j)
       \/ IsStopped(j) \/ IsLeft(j)

AllRest == \A j \in Jobs : Rests(j)

LifecycleStep == [Lifecycle!LifecycleNext]_(Lifecycle!lifecycleVars)

-----------------------------------------------------------------------------
\* A phase is one of the lifecycle's.
LEMMA PhaseTyping == ASSUME TypeOK, NEW j \in Jobs PROVE Phase(j) \in Lifecycle!Phases
BY DEF TypeOK, Phase, Lifecycle!Phases, Statuses

\* A step in which every recording rests is a stutter of the lifecycle.
LEMMA RestIsStutter == AllRest => LifecycleStep
<1> SUFFICES ASSUME AllRest PROVE LifecycleStep
  OBVIOUS
<1>1. [j \in Jobs |-> Phase(j)]' = [j \in Jobs |-> Phase(j)]
  BY DEF AllRest, Rests
<1>2. [j \in Jobs |-> \E w \in Workers : Attending(w, j)]'
        = [j \in Jobs |-> \E w \in Workers : Attending(w, j)]
  BY DEF AllRest, Rests, Attended
<1> QED
  BY <1>1, <1>2 DEF LifecycleStep, Lifecycle!lifecycleVars

\* A step that moves one recording is an action of the lifecycle, or a stutter.
LEMMA MoveIsStep ==
    ASSUME TypeOK, NEW j \in Jobs, OneMove(j) PROVE LifecycleStep
<1> DEFINE ph == [k \in Jobs |-> Phase(k)]
           at == [k \in Jobs |-> \E w \in Workers : Attending(w, k)]
<1>1. CASE Rests(j)
  BY <1>1, RestIsStutter DEF OneMove, RestElsewhere, AllRest
<1>2. /\ ph' = [ph EXCEPT ![j] = Phase(j)']
      /\ ph[j] = Phase(j)
  BY DEF OneMove, RestElsewhere, Rests
<1>3. (Attended(j)' <=> Attended(j)) => at' = at
  BY DEF OneMove, RestElsewhere, Rests, Attended
<1>4. Attended(j) /\ ~Attended(j)' => at[j] /\ at' = [at EXCEPT ![j] = FALSE]
  BY DEF OneMove, RestElsewhere, Rests, Attended
<1>5. ~Attended(j) /\ Attended(j)' => ~at[j] /\ at' = [at EXCEPT ![j] = TRUE]
  BY DEF OneMove, RestElsewhere, Rests, Attended
<1>6. at[j] <=> Attended(j)
  BY DEF Attended
<1>7. Phase(j) \in Lifecycle!Phases
  BY PhaseTyping
<1>8. LifecycleStep <=>
          \/ ph' = ph /\ at' = at
          \/ \E k \in Jobs :
                \/ Lifecycle!Edit(k) \/ Lifecycle!Submit(k)
                \/ Lifecycle!CloseAsText(k) \/ Lifecycle!Claim(k)
                \/ Lifecycle!Finish(k) \/ Lifecycle!StopQueued(k)
                \/ Lifecycle!StopRunning(k) \/ Lifecycle!Stopped(k)
                \/ Lifecycle!Failed(k) \/ Lifecycle!LeaveAsIs(k)
                \/ Lifecycle!Delete(k)
  BY DEF LifecycleStep, Lifecycle!lifecycleVars, Lifecycle!LifecycleNext
<1> HIDE DEF ph, at
<1>9. CASE MovesAlone(j)
  <2>1. ~at[j] /\ at' = at
    BY <1>3, <1>6, <1>9 DEF MovesAlone
  <2> QED
    BY <1>2, <1>8, <1>9, <2>1
    DEF MovesAlone, Lifecycle!Edit, Lifecycle!Submit, Lifecycle!CloseAsText,
        Lifecycle!Move, ph, at
<1>10. CASE IsClaimed(j)
  BY <1>2, <1>5, <1>8, <1>10 DEF IsClaimed, Lifecycle!Claim, Lifecycle!Move, ph, at
<1>11. CASE IsFinished(j)
  BY <1>2, <1>3, <1>6, <1>8, <1>11 DEF IsFinished, Lifecycle!Finish, Lifecycle!Move, ph, at
<1>12. CASE IsStopped(j)
  BY <1>2, <1>3, <1>7, <1>8, <1>12
  DEF IsStopped, Lifecycle!StopQueued, Lifecycle!StopRunning, Lifecycle!Delete,
      Lifecycle!Move, ph, at
<1>13. CASE IsLeft(j)
  <2>1. at[j] /\ at' = [at EXCEPT ![j] = FALSE]
    BY <1>4, <1>13 DEF IsLeft
  <2>2. CASE Phase(j)' = Phase(j)
    <3>1. ph' = ph
      BY <1>2, <2>2 DEF ph
    <3> QED
      BY <1>8, <2>1, <3>1 DEF Lifecycle!LeaveAsIs, Lifecycle!Leave, ph, at
  <2>3. CASE Phase(j)' # Phase(j)
    BY <1>2, <1>8, <1>13, <2>1, <2>3
    DEF IsLeft, Lifecycle!Stopped, Lifecycle!Failed, Lifecycle!Leave, Lifecycle!Move, ph, at
  <2> QED
    BY <2>2, <2>3
<1> QED
  BY <1>1, <1>9, <1>10, <1>11, <1>12, <1>13 DEF OneMove

-----------------------------------------------------------------------------
(* What each step does to the recording it is about. *)

\* A step that moves no row, and after which every worker attends to what it
\* attended to, lets every recording rest.
LEMMA UnmovedRests ==
    ASSUME UNCHANGED <<status, canceling>>,
           \A w \in Workers, j \in Jobs : Attending(w, j)' <=> Attending(w, j)
    PROVE  AllRest
BY DEF AllRest, Rests, Attended, Phase

\* A request moves one row and no worker.
LEMMA RequestMovesOne ==
    ASSUME NEW j \in Jobs, UNCHANGED <<supPc, supJob, childPc>>,
           \A k \in Jobs : k # j => status'[k] = status[k] /\ canceling'[k] = canceling[k]
    PROVE  RestElsewhere(j) /\ (Attended(j)' <=> Attended(j))
BY DEF RestElsewhere, Rests, Attended, Attending, Supervising, Phase

\* A recording that is open, queued, failed or stopped has no worker.
LEMMA TakenIfAttended ==
    ASSUME ExclusiveInv, NEW j \in Jobs,
           Phase(j) \in {"absent", "open", "queued", "failed", "stopped"}
    PROVE  ~Attended(j)
BY DEF ExclusiveInv, AttendedIsTaken, Attended, Phase

\* The requests, and the handlers' own steps.
LEMMA RequestStep ==
    ASSUME NoLateFailure, TypeOK, SuspensionHolds, ExclusiveInv, UndoneInv,
           NEW j \in Jobs,
           UserStep(j) \/ LoopStep(j) \/ PoolStep(j)
    PROVE  OneMove(j)
<1> USE DEF row, redis, files, sup, web, suspension
<1>1. CASE \/ LoopEnqueue(j) \/ LoopSetRqId(j) \/ RetryUnflag(j)
           \/ CancelRead(j) \/ CancelFlag(j) \/ CancelDrop(j) \/ CancelReflag(j)
           \/ DeleteRead(j) \/ DeleteReflag(j) \/ DeleteDrop(j) \/ DeleteFiles(j)
           \/ AppendClip(j) \/ RemoveClip(j) \/ CloseEnqueue(j) \/ CloseSetRqId(j)
           \/ SuspendBegin(j) \/ SuspendDrop(j)
  <2>1. UNCHANGED <<status, canceling, supPc, supJob, childPc>>
    BY <1>1 DEF LoopEnqueue, LoopSetRqId, RetryUnflag, CancelRead, CancelFlag,
                CancelDrop, CancelReflag, DeleteRead, DeleteReflag, DeleteDrop,
                DeleteFiles, AppendClip, RemoveClip, CloseEnqueue, CloseSetRqId,
                SuspendBegin, SuspendDrop
  <2>2. \A w \in Workers, k \in Jobs : Attending(w, k)' <=> Attending(w, k)
    BY <2>1 DEF Attending, Supervising
  <2>3. AllRest
    BY <2>1, <2>2, UnmovedRests
  <2> QED
    BY <2>3 DEF AllRest, OneMove, RestElsewhere
<1>2. CASE CreateEnqueueFails(j) \/ RetryEnqueueFails(j) \/ CloseEnqueueFails(j)
  BY <1>2 DEF NoLateFailure, CreateEnqueueFails, RetryEnqueueFails, CloseEnqueueFails
<1>3. CASE \/ CreateJob(j) \/ Retry(j) \/ CreateSession(j) \/ CloseSession(j)
           \/ CloseLiveOnly(j) \/ Reopen(j)
  <2>1. /\ UNCHANGED <<supPc, supJob, childPc>>
        /\ \A k \in Jobs : k # j => status'[k] = status[k] /\ canceling'[k] = canceling[k]
    BY <1>3 DEF CreateJob, Retry, CreateSession, CloseSession, CloseLiveOnly, Reopen,
                SetRow, TypeOK
  <2>2. \/ Phase(j) \in {"absent", "failed", "stopped"} /\ Phase(j)' = "open"
        \/ Phase(j) \in {"absent", "open", "failed", "stopped"} /\ Phase(j)' = "queued"
        \/ Phase(j) = "open" /\ Phase(j)' = "done"
    <3>1. CASE CreateJob(j) \/ CreateSession(j)
      BY <3>1 DEF CreateJob, CreateSession, SetRow, Phase, TypeOK
    <3>2. CASE Retry(j) \/ Reopen(j)
      BY <3>2 DEF Retry, Reopen, SetRow, AtRest, Phase, TypeOK
    <3>3. CASE CloseSession(j) \/ CloseLiveOnly(j)
      BY <3>3 DEF CloseSession, CloseLiveOnly, SetRow, Phase, TypeOK
    <3> QED
      BY <1>3, <3>1, <3>2, <3>3
  <2>3. ~Attended(j)
    BY <2>2, TakenIfAttended
  <2> QED
    BY <2>1, <2>2, <2>3, RequestMovesOne DEF OneMove, MovesAlone
<1>4. CASE CancelRow(j) \/ DeleteRow(j) \/ Sweep(j) \/ SuspendCommit(j)
  <2>1. /\ UNCHANGED <<supPc, supJob, childPc>>
        /\ \A k \in Jobs : k # j => status'[k] = status[k] /\ canceling'[k] = canceling[k]
    BY <1>4 DEF CancelRow, DeleteRow, Sweep, SuspendCommit, SetRow, TypeOK
  <2>2. \/ Phase(j) = "queued" /\ Phase(j)' = "stopped"
        \/ Phase(j) = "running" /\ Phase(j)' = "stopping"
        \/ Phase(j) \notin {"absent", "deleted"} /\ Phase(j)' = "deleted"
        \/ Phase(j)' = Phase(j)
    <3>1. CASE CancelRow(j)
      BY <3>1 DEF CancelRow, SetRow, StillRunning, Phase, TypeOK
    <3>2. CASE DeleteRow(j)
      BY <3>2 DEF DeleteRow, SetRow, Phase, TypeOK, UndoneInv
    <3>3. CASE Sweep(j)
      BY <3>3 DEF Sweep, SetRow, HasRow, Phase, TypeOK
    <3>4. CASE SuspendCommit(j)
      BY <3>4 DEF SuspendCommit, SuspensionHolds, SetRow, Phase, TypeOK
    <3> QED
      BY <1>4, <3>1, <3>2, <3>3, <3>4
  <2> QED
    BY <2>1, <2>2, RequestMovesOne DEF OneMove, IsStopped, Rests
<1> QED
  BY <1>1, <1>2, <1>3, <1>4 DEF UserStep, LoopStep, PoolStep, CloseStep, SuspendStep

\* A step of worker w that leaves the rows alone, and after which it attends to
\* what it attended to.
LEMMA WorkerRests ==
    ASSUME NEW w \in Workers, UNCHANGED <<status, canceling>>,
           \A v \in Workers : v # w => /\ supPc'[v] = supPc[v]
                                       /\ supJob'[v] = supJob[v]
                                       /\ childPc'[v] = childPc[v],
           \A j \in Jobs : Attending(w, j)' <=> Attending(w, j)
    PROVE  AllRest
<1>1. \A v \in Workers, j \in Jobs : Attending(v, j)' <=> Attending(v, j)
  BY DEF Attending, Supervising
<1> QED
  BY <1>1, UnmovedRests

\* A step of worker w that may move the row of its recording, and after which
\* it attends to what it attended to.
LEMMA WorkerMovesOne ==
    ASSUME NEW w \in Workers, NEW i \in Jobs, supJob[w] = i,
           \A k \in Jobs : k # i => status'[k] = status[k] /\ canceling'[k] = canceling[k],
           \A v \in Workers : v # w => /\ supPc'[v] = supPc[v]
                                       /\ supJob'[v] = supJob[v]
                                       /\ childPc'[v] = childPc[v],
           \A j \in Jobs : Attending(w, j)' <=> Attending(w, j)
    PROVE  RestElsewhere(i) /\ (Attended(i)' <=> Attended(i))
<1>1. \A v \in Workers, j \in Jobs : Attending(v, j)' <=> Attending(v, j)
  BY DEF Attending, Supervising
<1>2. \A j \in Jobs : Attended(j)' <=> Attended(j)
  BY <1>1 DEF Attended
<1> QED
  BY <1>2 DEF RestElsewhere, Rests, Phase

\* A worker that attends to a recording is the only one: when it lets go of it,
\* nobody attends to it.
LEMMA WorkerLeaves ==
    ASSUME ExclusiveInv, NEW w \in Workers, NEW i \in Jobs, supJob[w] = i,
           Attending(w, i),
           \A k \in Jobs : k # i => status'[k] = status[k] /\ canceling'[k] = canceling[k],
           \A v \in Workers : v # w => /\ supPc'[v] = supPc[v]
                                       /\ supJob'[v] = supJob[v]
                                       /\ childPc'[v] = childPc[v],
           \A j \in Jobs : ~Attending(w, j)'
    PROVE  /\ RestElsewhere(i)
           /\ Attended(i) /\ ~Attended(i)'
<1>1. \A v \in Workers, j \in Jobs :
          Attending(v, j)' <=> Attending(v, j) /\ v # w
  BY DEF Attending, Supervising
<1>2. \A v \in Workers : Attending(v, i) => v = w
  BY DEF ExclusiveInv, AttendedAlone
<1>3. \A j \in Jobs : j # i => (Attended(j)' <=> Attended(j))
  <2>1. \A j \in Jobs : j # i => ~Attending(w, j)
    BY DEF Attending, Supervising
  <2> QED
    BY <1>1, <2>1 DEF Attended
<1>4. Attended(i) /\ ~Attended(i)'
  BY <1>1, <1>2 DEF Attended
<1> QED
  BY <1>3, <1>4 DEF RestElsewhere, Rests, Phase

\* The steps of a supervisor.
LEMMA SupervisorStep ==
    ASSUME TypeOK, ExclusiveInv, NEW w \in Workers,
           \/ SupStep(w) \/ SupSpawnFails(w) \/ SupTimeout(w) \/ SupTimeoutLate(w)
           \/ SupCrash(w) \/ SupRestart(w) \/ \E j \in Jobs : SupDequeue(w, j)
    PROVE  AllRest \/ \E j \in Jobs : OneMove(j)
<1> DEFINE Others == \A v \in Workers : v # w => /\ supPc'[v] = supPc[v]
                                                 /\ supJob'[v] = supJob[v]
                                                 /\ childPc'[v] = childPc[v]
           RowsElsewhere == \A k \in Jobs : k # supJob[w] =>
                                status'[k] = status[k] /\ canceling'[k] = canceling[k]
           Keeps == \A j \in Jobs : Attending(w, j)' <=> Attending(w, j)
           Lets == \A j \in Jobs : ~Attending(w, j)'
<1> USE DEF row, redis, files, sup, web, suspension
<1>1. Others
  BY DEF SupStep, SupSpawnFails, SupTimeout, SupTimeoutLate, SupCrash, SupRestart, SupDequeue,
         SupClaim, SupSpawn, SupReadRow, SupReadFlag, SupPoll, SupKill, SupWipe,
         SupUnflag, SupSettle, SupFinal, SupAbort, SupFail, SupGoto, SupReturn,
         StopProcess, Reap, TypeOK
<1>2. CASE UNCHANGED <<status, canceling>> /\ Keeps
  BY <1>1, <1>2, WorkerRests
<1>3. ASSUME NEW i \in Jobs, supJob[w] = i, Attending(w, i), RowsElsewhere, Lets,
             \/ Phase(i)' = Phase(i)
             \/ Phase(i) \in {"running", "stopping", "done"} /\ Phase(i)' = "stopped"
             \/ Phase(i) \in {"running", "done"} /\ Phase(i)' = "failed"
      PROVE  OneMove(i)
  BY <1>1, <1>3, WorkerLeaves DEF OneMove, IsLeft
<1> HIDE DEF Others
<1>4. CASE \/ SupSpawnFails(w) \/ SupTimeout(w) \/ SupSpawn(w) \/ SupReadRow(w)
           \/ SupReadFlag(w) \/ SupWipe(w) \/ SupUnflag(w)
  <2>1. UNCHANGED <<status, canceling>>
    BY <1>4 DEF SupSpawnFails, SupTimeout, SupSpawn, SupReadRow, SupReadFlag, SupWipe,
                SupUnflag
  <2>2. Keeps
    BY <1>4 DEF SupSpawnFails, SupTimeout, SupSpawn, SupReadRow, SupReadFlag, SupWipe,
                SupUnflag, SupGoto, Attending, Supervising, TypeOK
  <2> QED
    BY <1>2, <2>1, <2>2
<1>5. CASE SupPoll(w) \/ SupKill(w) \/ SupAbort(w)
  <2>1. UNCHANGED <<status, canceling>>
    BY <1>5 DEF SupPoll, SupKill, SupAbort
  <2>2. Keeps
    BY <1>5 DEF SupPoll, SupKill, SupAbort, SupGoto, StopProcess, Reap, Attending,
                Supervising, TypeOK
  <2> QED
    BY <1>2, <2>1, <2>2
<1>6. CASE \E j \in Jobs : SupDequeue(w, j)
  <2>1. UNCHANGED <<status, canceling>>
    BY <1>6 DEF SupDequeue
  <2>2. Keeps
    BY <1>6 DEF SupDequeue, Attending, Supervising, TypeOK, ExclusiveInv, ChildHasParent
  <2> QED
    BY <1>2, <2>1, <2>2
<1>7. CASE SupClaim(w)
  <2>1. supJob[w] \in Jobs
    BY <1>7 DEF SupClaim, TypeOK
  <2>2. CASE ~Claimable(supJob[w])
    <3>1. UNCHANGED <<status, canceling>> /\ Keeps
      BY JobsAssumption, <1>7, <2>2 DEF SupClaim, SupReturn, Attending, Supervising, TypeOK,
                        ExclusiveInv, ChildHasParent
    <3> QED
      BY <1>2, <3>1
  <2>3. CASE Claimable(supJob[w])
    <3> PICK i \in Jobs : supJob[w] = i
      BY <2>1
    <3>1. Phase(i) = "queued" /\ Phase(i)' = "running" /\ RowsElsewhere
      BY <1>7, <2>3 DEF SupClaim, Claimable, SetRow, Phase, TypeOK
    <3>2. ~Attended(i)
      BY <3>1, TakenIfAttended
    <3>3. \A v \in Workers, j \in Jobs : Attending(v, j)' <=>
              Attending(v, j) \/ (v = w /\ j = i)
      BY <1>1, <1>7, <2>3 DEF Others, SupClaim, SupGoto, Attending, Supervising, TypeOK,
                              ExclusiveInv, ChildHasParent
    <3>4. Attended(i)'
      BY <3>3 DEF Attended
    <3>5. \A j \in Jobs : j # i => (Attended(j)' <=> Attended(j))
      BY <3>3 DEF Attended
    <3>6. RestElsewhere(i)
      BY <3>1, <3>5 DEF RestElsewhere, Rests, Phase
    <3> QED
      BY <3>1, <3>2, <3>4, <3>6 DEF OneMove, IsClaimed
  <2> QED
    BY <2>2, <2>3
<1>8. CASE SupFinal(w)
  <2>1. UNCHANGED <<status, canceling>> /\ supJob[w] \in Jobs
    BY <1>8 DEF SupFinal, TypeOK
  <2>2. CASE Canceled(supJob[w])
    <3>1. Keeps
      BY <1>8, <2>2 DEF SupFinal, SupGoto, Attending, Supervising, TypeOK
    <3> QED
      BY <1>2, <2>1, <3>1
  <2>3. CASE ~Canceled(supJob[w])
    <3> PICK i \in Jobs : supJob[w] = i
      BY <2>1
    <3>1. Attending(w, i) /\ Lets
      BY JobsAssumption, <1>8, <2>3 DEF SupFinal, SupReturn, Attending, Supervising, TypeOK
    <3>2. RowsElsewhere /\ Phase(i)' = Phase(i)
      BY <2>1 DEF Phase
    <3> QED
      BY <1>3, <3>1, <3>2
  <2> QED
    BY <2>2, <2>3
<1>9. CASE SupSettle(w)
  <2> PICK i \in Jobs : supJob[w] = i
    BY <1>9 DEF SupSettle, TypeOK
  <2>1. Attending(w, i) /\ Lets
    BY JobsAssumption, <1>9 DEF SupSettle, SupReturn, Attending, Supervising, TypeOK
  <2>2. RowsElsewhere
    BY <1>9 DEF SupSettle, CleanupRow, SetRow, TypeOK
  <2>3. \/ Phase(i)' = Phase(i)
        \/ Phase(i) \in {"running", "stopping", "done"} /\ Phase(i)' = "stopped"
    <3>1. CASE HasRow(i)
      <4>1. Phase(i) \in {"running", "stopping", "done"}
        BY <2>1, <3>1 DEF ExclusiveInv, AttendedIsTaken, Phase, HasRow
      <4>2. Phase(i)' = "stopped"
        <5>1. status' = [status EXCEPT ![i] = "canceled"]
          BY <1>9, <3>1 DEF SupSettle, CleanupRow, SetRow
        <5>2. canceling' = [canceling EXCEPT ![i] = FALSE]
          BY <1>9, <3>1 DEF SupSettle, CleanupRow, SetRow
        <5> QED
          BY <5>1, <5>2 DEF Phase, TypeOK
      <4> QED
        BY <4>1, <4>2
    <3>2. CASE ~HasRow(i)
      BY <1>9, <3>2 DEF SupSettle, CleanupRow, Phase
    <3> QED
      BY <3>1, <3>2
  <2> QED
    BY <1>3, <2>1, <2>2, <2>3
<1>10. CASE SupFail(w)
  <2> PICK i \in Jobs : supJob[w] = i
    BY <1>10 DEF SupFail, TypeOK
  <2>1. Attending(w, i) /\ Lets
    BY JobsAssumption, <1>10 DEF SupFail, SupReturn, Attending, Supervising, TypeOK
  <2>2. RowsElsewhere
    BY <1>10 DEF SupFail, Update, SetRow, TypeOK
  <2>3. \/ Phase(i)' = Phase(i)
        \/ Phase(i) \in {"running", "done"} /\ Phase(i)' = "failed"
    <3>1. CASE Canceled(i)
      BY <1>10, <3>1 DEF SupFail, Update, Phase
    <3>2. CASE ~Canceled(i)
      <4>1. Phase(i) \in {"running", "done"}
        BY <2>1, <3>2 DEF ExclusiveInv, AttendedIsTaken, Phase, Canceled, HasRow
      <4>2. Phase(i)' = "failed"
        BY <1>10, <3>2 DEF SupFail, Update, SetRow, Phase, TypeOK
      <4> QED
        BY <4>1, <4>2
    <3> QED
      BY <3>1, <3>2
  <2> QED
    BY <1>3, <2>1, <2>2, <2>3
<1>11. CASE SupCrash(w) \/ SupRestart(w) \/ SupTimeoutLate(w)
  <2> PICK i \in Jobs : supJob[w] = i
    BY <1>11 DEF SupCrash, SupRestart, SupTimeoutLate, TypeOK
  <2>1. UNCHANGED <<status, canceling>>
    BY <1>11 DEF SupCrash, SupRestart, SupTimeoutLate
  <2>2. RowsElsewhere /\ Phase(i)' = Phase(i)
    BY <2>1 DEF Phase
  <2>3. Keeps \/ (Attending(w, i) /\ Lets)
    <3>1. CASE SupCrash(w)
      BY <3>1 DEF SupCrash, SupGoto, Attending, Supervising, TypeOK
    <3>2. CASE SupRestart(w)
      BY JobsAssumption, <3>2 DEF SupRestart, SupReturn, Reap, Attending, Supervising, TypeOK
    <3>3. CASE SupTimeoutLate(w)
      BY JobsAssumption, <3>3 DEF SupTimeoutLate, SupReturn, Attending, Supervising, TypeOK,
                                  ExclusiveInv, ChildHasParent
    <3> QED
      BY <1>11, <3>1, <3>2, <3>3
  <2> QED
    BY <1>2, <1>3, <2>1, <2>2, <2>3
<1> QED
  BY <1>4, <1>5, <1>6, <1>7, <1>8, <1>9, <1>10, <1>11 DEF SupStep

\* The steps of a decoder.
LEMMA DecoderStep ==
    ASSUME NoLateFailure, TypeOK, ExclusiveInv, UndoneInv, NEW w \in Workers,
           ChildStep(w) \/ ChildRaises(w) \/ ChildDies(w)
    PROVE  AllRest \/ \E j \in Jobs : OneMove(j)
<1> USE DEF row, redis, files, sup, web, suspension
<1>1. /\ \A v \in Workers : v # w => /\ supPc'[v] = supPc[v]
                                     /\ supJob'[v] = supJob[v]
                                     /\ childPc'[v] = childPc[v]
      /\ UNCHANGED <<supPc, supJob>>
  BY DEF ChildStep, ChildRaises, ChildDies, ChildStart, ChildBegin, ChildAssemble,
         ChildMix, ChildDecode, ChildSave, ChildDropAudio, ChildCommit, ChildClear, ChildUndo,
         ChildPark, ChildFail, ChildGoto, TypeOK
<1>2. childPc[w] # "none" /\ childPc'[w] # "none"
  BY DEF ChildStep, ChildRaises, ChildDies, ChildStart, ChildBegin, ChildAssemble,
         ChildMix, ChildDecode, ChildSave, ChildDropAudio, ChildCommit, ChildClear, ChildUndo,
         ChildPark, ChildFail, ChildGoto, TypeOK, LivePcs
<1> PICK i \in Jobs : supJob[w] = i
  BY <1>2 DEF TypeOK, ExclusiveInv, ChildHasParent
<1>3. Attending(w, i) /\ \A j \in Jobs : Attending(w, j)' <=> Attending(w, j)
  BY <1>1, <1>2 DEF Attending, Supervising
<1>4. CASE UNCHANGED <<status, canceling>>
  BY <1>1, <1>3, <1>4, WorkerRests
<1>5. ASSUME \A k \in Jobs : k # i => status'[k] = status[k] /\ canceling'[k] = canceling[k],
             \/ Phase(i)' = Phase(i)
             \/ Phase(i) = "running" /\ Phase(i)' \in {"done", "stopping"}
      PROVE  OneMove(i)
  <2>1. RestElsewhere(i) /\ (Attended(i)' <=> Attended(i))
    BY <1>1, <1>3, <1>5, WorkerMovesOne
  <2>2. Attended(i)
    BY <1>3 DEF Attended
  <2> QED
    BY <1>5, <2>1, <2>2 DEF OneMove, Rests, IsFinished, IsStopped
<1>6. CASE \/ ChildStart(w) \/ ChildAssemble(w) \/ ChildMix(w) \/ ChildDecode(w) \/ ChildSave(w)
           \/ ChildDropAudio(w) \/ ChildClear(w) \/ ChildUndo(w) \/ ChildDies(w)
  BY <1>4, <1>6 DEF ChildStart, ChildAssemble, ChildMix, ChildDecode, ChildSave, ChildDropAudio,
                    ChildClear, ChildUndo, ChildDies
<1>7. CASE ChildRaises(w)
  BY <1>7 DEF ChildRaises, NoLateFailure
<1>8. CASE ChildBegin(w)
  <2>1. CASE Canceled(i)
    BY <1>4, <1>8, <2>1 DEF ChildBegin, Update
  <2>2. CASE ~Canceled(i)
    <3>1. status[i] = "running"
      BY <1>3, <1>8, <2>2 DEF ChildBegin, Canceled, HasRow, ExclusiveInv, AttendedIsTaken,
                              UndoneInv, Uncommitted, LivePcs
    <3>2. SetRow(i, "running", FALSE)
      BY <1>8, <2>2 DEF ChildBegin, Update
    <3> QED
      BY <1>5, <3>1, <3>2 DEF SetRow, Phase, TypeOK
  <2> QED
    BY <2>1, <2>2
<1>9. CASE ChildCommit(w)
  <2>1. CASE Canceled(i)
    BY <1>4, <1>9, <2>1 DEF ChildCommit, Update
  <2>2. CASE ~Canceled(i)
    <3>1. status[i] = "running"
      BY <1>3, <1>9, <2>2 DEF ChildCommit, Canceled, HasRow, ExclusiveInv, AttendedIsTaken,
                              UndoneInv, Uncommitted, LivePcs
    <3>2. SetRow(i, "done", FALSE)
      BY <1>9, <2>2 DEF ChildCommit, Update
    <3> QED
      BY <1>5, <3>1, <3>2 DEF SetRow, Phase, TypeOK
  <2> QED
    BY <2>1, <2>2
<1>10. CASE ChildPark(w)
  <2>1. CASE ~HasRow(i)
    BY <1>4, <1>10, <2>1 DEF ChildPark, CleanupRow
  <2>2. CASE HasRow(i)
    <3>1. Phase(i) \in {"running", "stopping"}
      BY <1>3, <1>10, <2>2 DEF ChildPark, HasRow, ExclusiveInv, AttendedIsTaken,
                               UndoneInv, Uncommitted, LivePcs, Phase
    <3>2. status' = [status EXCEPT ![i] = "canceled"]
      BY <1>10, <2>2 DEF ChildPark, CleanupRow, SetRow
    <3>3. canceling' = [canceling EXCEPT ![i] = TRUE]
      BY <1>10, <2>2 DEF ChildPark, CleanupRow, SetRow
    <3>4. Phase(i)' = "stopping"
      BY <3>2, <3>3 DEF Phase, TypeOK
    <3> QED
      BY <1>5, <3>1, <3>2, <3>3, <3>4 DEF TypeOK
  <2> QED
    BY <2>1, <2>2
<1>11. CASE ChildFail(w)
  <2>1. Canceled(i)
    BY <1>11 DEF ChildFail, ExclusiveInv, FailureIsAfterDelete, Canceled, HasRow
  <2> QED
    BY <1>4, <1>11, <2>1 DEF ChildFail, Update
<1> QED
  BY <1>6, <1>7, <1>8, <1>9, <1>10, <1>11 DEF ChildStep

-----------------------------------------------------------------------------
\* In the beginning nothing has been decoded, and nothing is deleted.
LEMMA UndoneInit == Init => UndoneInv
BY DEF Init, UndoneInv, Uncommitted, LivePcs

\* Every step preserves the invariant: DONE is written by the decoder itself, and
\* by a close of an open session, which nobody attends to.
LEMMA UndoneStep ==
    ASSUME NoLateFailure
    PROVE  TypeOK /\ SuspensionHolds /\ ExclusiveInv /\ UndoneInv /\ [Next]_vars => UndoneInv'
<1> SUFFICES ASSUME TypeOK, SuspensionHolds, ExclusiveInv, UndoneInv, [Next]_vars PROVE UndoneInv'
  OBVIOUS
<1> USE DEF row, redis, files, sup, web, suspension
<1>0. \A w \in Workers : supPc[w] = "spawn" \/ childPc[w] \in Uncommitted
          => supJob[w] \in Jobs /\ Attending(w, supJob[w])
  BY DEF TypeOK, ExclusiveInv, ChildHasParent, Attending, Supervising, Uncommitted, LivePcs
<1>1. CASE UNCHANGED vars
  BY <1>1 DEF vars, UndoneInv
<1>2. ASSUME NEW j \in Jobs, UserStep(j) \/ LoopStep(j) \/ PoolStep(j)
      PROVE  UndoneInv'
  <2>1. UNCHANGED <<supPc, supJob, childPc>>
    BY <1>2 DEF UserStep, LoopStep, PoolStep, CreateJob, Retry, CancelRead, DeleteRead,
                CreateSession, AppendClip, RemoveClip, CloseSession, CloseLiveOnly, Reopen,
                Sweep, SuspendBegin, CloseStep, SuspendStep, LoopEnqueue, LoopSetRqId, RetryUnflag, CreateEnqueueFails,
                RetryEnqueueFails, CancelFlag, CancelRow, CancelDrop, CancelReflag,
                DeleteRow, DeleteReflag, DeleteDrop, DeleteFiles, CloseEnqueue,
                CloseEnqueueFails, CloseSetRqId, SuspendDrop, SuspendCommit
  <2>2. \A k \in Jobs : /\ status'[k] = "done" => status[k] \in {"open", "done"}
                        /\ status'[k] = "absent" => status[k] = "absent"
    <3>1. CASE UserStep(j)
      BY <3>1 DEF UserStep, CreateJob, Retry, CancelRead, DeleteRead, CreateSession,
                  AppendClip, RemoveClip, CloseSession, CloseLiveOnly, Reopen, Sweep, SuspendBegin,
                  SetRow, TypeOK
    <3>2. CASE LoopStep(j)
      BY <3>2 DEF LoopStep, LoopEnqueue, LoopSetRqId, RetryUnflag, CreateEnqueueFails,
                  RetryEnqueueFails, CancelFlag, CancelRow, CancelDrop, CancelReflag,
                  DeleteRow, DeleteReflag, DeleteDrop, DeleteFiles, NoLateFailure, SetRow,
                  TypeOK
    <3>3. CASE PoolStep(j)
      BY <3>3 DEF PoolStep, CloseStep, CloseEnqueue, CloseEnqueueFails, CloseSetRqId,
                  SuspendStep, SuspendDrop, SuspendCommit, SetRow, NoLateFailure, TypeOK
    <3> QED
      BY <1>2, <3>1, <3>2, <3>3
  <2>3. \A k \in Jobs : api'[k] = "deleteRow" => api[k] = "deleteRow" \/ HasRow(k)
    <3>1. CASE UserStep(j)
      BY <3>1 DEF UserStep, CreateJob, Retry, CancelRead, DeleteRead, CreateSession,
                  AppendClip, RemoveClip, CloseSession, CloseLiveOnly, Reopen, Sweep, SuspendBegin,
                  Goto, TypeOK
    <3>2. CASE LoopStep(j)
      BY <3>2 DEF LoopStep, LoopEnqueue, LoopSetRqId, RetryUnflag, CreateEnqueueFails,
                  RetryEnqueueFails, CancelFlag, CancelRow, CancelDrop, CancelReflag,
                  DeleteRow, DeleteReflag, DeleteDrop, DeleteFiles, Return, Goto, TypeOK
    <3>3. CASE PoolStep(j)
      BY <3>3 DEF PoolStep, CloseStep, CloseEnqueue, CloseEnqueueFails, CloseSetRqId,
                  SuspendStep, SuspendDrop, SuspendCommit
    <3> QED
      BY <1>2, <3>1, <3>2, <3>3
  <2>4. \A w \in Workers, k \in Jobs : Attending(w, k) => status[k] # "open"
    BY DEF ExclusiveInv, AttendedIsTaken
  <2> QED
    BY <1>0, <2>1, <2>2, <2>3, <2>4 DEF UndoneInv, HasRow
<1>3. ASSUME NEW w \in Workers,
             \/ SupStep(w) \/ SupSpawnFails(w) \/ SupTimeout(w) \/ SupTimeoutLate(w)
             \/ SupCrash(w) \/ SupRestart(w) \/ \E j \in Jobs : SupDequeue(w, j)
      PROVE  UndoneInv'
  <2>1. /\ UNCHANGED api
        /\ \A v \in Workers : v # w => /\ supPc'[v] = supPc[v]
                                       /\ supJob'[v] = supJob[v]
                                       /\ childPc'[v] = childPc[v]
    BY <1>3
    DEF SupStep, SupSpawnFails, SupTimeout, SupTimeoutLate, SupReturn, SupCrash,
        SupRestart, SupDequeue, SupClaim, SupSpawn, SupReadRow, SupReadFlag, SupPoll,
        SupKill, SupWipe, SupUnflag,
        SupSettle, SupFinal, SupAbort, SupFail, SupGoto, SupReturn, StopProcess, Reap,
        TypeOK
  <2>2. \A k \in Jobs : /\ status'[k] = "done" => status[k] = "done"
                        /\ status'[k] = "absent" => status[k] = "absent"
    BY <1>3
    DEF SupStep, SupSpawnFails, SupTimeout, SupTimeoutLate, SupReturn, SupCrash,
        SupRestart, SupDequeue, SupClaim, SupSpawn, SupReadRow, SupReadFlag, SupPoll,
        SupKill, SupWipe, SupUnflag,
        SupSettle, SupFinal, SupAbort, SupFail, Update, CleanupRow, SetRow, TypeOK
  <2>3. supPc'[w] = "spawn" \/ childPc'[w] \in Uncommitted
          => supJob'[w] \in Jobs /\ status'[supJob'[w]] # "done"
    <3>1. CASE SupClaim(w)
      BY <3>1 DEF SupClaim, Claimable, SetRow, SupGoto, SupReturn, TypeOK, ExclusiveInv,
                  ChildHasParent, Uncommitted, LivePcs
    <3>2. CASE SupSpawn(w)
      BY <1>0, <2>2, <3>2 DEF SupSpawn, SupGoto, TypeOK, UndoneInv
    <3>3. CASE \E j \in Jobs : SupDequeue(w, j)
      BY <3>3 DEF SupDequeue, TypeOK, ExclusiveInv, ChildHasParent, Uncommitted, LivePcs
    <3>4. CASE SupRestart(w)
      BY <3>4 DEF SupRestart, Reap, SupReturn, TypeOK, Uncommitted, LivePcs
    <3>5. CASE SupSettle(w) \/ SupFail(w) \/ SupFinal(w) \/ SupTimeoutLate(w)
      BY <3>5 DEF SupTimeoutLate, SupSettle, SupFail, SupFinal, SupGoto, SupReturn, TypeOK, ExclusiveInv,
                  ChildHasParent, Uncommitted, LivePcs
    <3>6. CASE \/ SupSpawnFails(w) \/ SupTimeout(w) \/ SupCrash(w) \/ SupReadRow(w)
               \/ SupReadFlag(w) \/ SupPoll(w) \/ SupKill(w) \/ SupWipe(w)
               \/ SupUnflag(w) \/ SupAbort(w)
      <4>1. /\ UNCHANGED <<status, supJob>> /\ supPc'[w] # "spawn"
            /\ childPc'[w] \in {childPc[w], "none"}
        BY <3>6 DEF SupSpawnFails, SupTimeout, SupCrash, SupReadRow, SupReadFlag, SupPoll,
                    SupKill, SupWipe, SupUnflag, SupAbort, StopProcess, Reap, SupGoto,
                    TypeOK
      <4> QED
        BY <1>0, <4>1 DEF UndoneInv, Uncommitted, LivePcs
    <3> QED
      BY <1>3, <3>1, <3>2, <3>3, <3>4, <3>5, <3>6 DEF SupStep
  <2> QED
    BY <1>0, <2>1, <2>2, <2>3 DEF UndoneInv
<1>4. ASSUME NEW w \in Workers, ChildStep(w) \/ ChildRaises(w) \/ ChildDies(w)
      PROVE  UndoneInv'
  <2>1. /\ UNCHANGED <<api, supPc, supJob>>
        /\ \A v \in Workers : v # w => childPc'[v] = childPc[v]
        /\ childPc'[w] \in Uncommitted => childPc[w] \in Uncommitted
        /\ childPc[w] # "none"
    BY <1>4
    DEF ChildStep, ChildRaises, ChildDies, ChildStart, ChildBegin, ChildAssemble,
        ChildMix, ChildDecode, ChildSave, ChildDropAudio, ChildCommit, ChildClear, ChildUndo,
        ChildPark, ChildFail, ChildGoto, TypeOK, Uncommitted, LivePcs
  <2>2. supJob[w] \in Jobs /\ Attending(w, supJob[w]) /\ supPc[w] # "spawn"
    BY <2>1 DEF TypeOK, ExclusiveInv, ChildHasParent, Attending
  <2>3. CASE ChildCommit(w)
    <3>1. \A v \in Workers : v # w /\ (supPc[v] = "spawn" \/ childPc[v] \in Uncommitted)
              => supJob[v] # supJob[w]
      BY <1>0, <2>2 DEF ExclusiveInv, AttendedAlone
    <3>2. /\ childPc'[w] = "clear"
          /\ \A k \in Jobs : k # supJob[w] => status'[k] = status[k]
          /\ \A k \in Jobs : status'[k] = "absent" => status[k] = "absent"
      BY <2>3 DEF ChildCommit, ChildGoto, Update, SetRow, TypeOK
    <3> QED
      BY <1>0, <2>1, <2>2, <3>1, <3>2 DEF UndoneInv, Uncommitted
  <2>4. CASE ~ChildCommit(w)
    <3>1. \A k \in Jobs : /\ status'[k] = "done" => status[k] = "done"
                          /\ status'[k] = "absent" => status[k] = "absent"
      <4>1. CASE ChildBegin(w) \/ ChildFail(w)
        <5>1. \E st \in {"running", "failed"} : Update(supJob[w], st)
          BY <4>1 DEF ChildBegin, ChildFail
        <5> QED BY <2>2, <5>1, UpdateEffect DEF RowTypes, TypeOK
      <4>2. CASE ChildPark(w)
        BY <2>2, <4>2, CleanupEffect DEF ChildPark, RowTypes, AudioTypes, TypeOK
      <4>3. CASE \/ ChildStart(w) \/ ChildAssemble(w) \/ ChildMix(w) \/ ChildDecode(w) \/ ChildSave(w)
                 \/ ChildDropAudio(w) \/ ChildClear(w) \/ ChildUndo(w)
                 \/ ChildRaises(w) \/ ChildDies(w)
        <5>1. status' = status
          BY <4>3 DEF ChildStart, ChildAssemble, ChildMix, ChildDecode, ChildSave, ChildDropAudio,
                      ChildClear, ChildUndo, ChildRaises, ChildDies, row
        <5> QED BY <5>1
      <4> QED BY <1>4, <2>4, <4>1, <4>2, <4>3 DEF ChildStep
    <3> QED
      BY <1>0, <2>1, <3>1 DEF UndoneInv
  <2> QED
    BY <2>3, <2>4
<1> QED
  BY <1>1, <1>2, <1>3, <1>4 DEF Next

\* A step moves at most one recording.
LEMMA StepMovesOne ==
    ASSUME NoLateFailure
    PROVE  TypeOK /\ SuspensionHolds /\ ExclusiveInv /\ UndoneInv /\ [Next]_vars
             => AllRest \/ \E j \in Jobs : OneMove(j)
<1> SUFFICES ASSUME TypeOK, SuspensionHolds, ExclusiveInv, UndoneInv, [Next]_vars
             PROVE  AllRest \/ \E j \in Jobs : OneMove(j)
  OBVIOUS
<1>1. CASE UNCHANGED vars
  <2>1. UNCHANGED <<status, canceling>>
    BY <1>1 DEF vars
  <2>2. \A w \in Workers, j \in Jobs : Attending(w, j)' <=> Attending(w, j)
    BY <1>1 DEF vars, Attending, Supervising
  <2> QED
    BY <2>1, <2>2, UnmovedRests
<1>2. ASSUME NEW j \in Jobs, UserStep(j) \/ LoopStep(j) \/ PoolStep(j)
      PROVE  OneMove(j)
  BY <1>2, RequestStep
<1>3. ASSUME NEW w \in Workers,
             \/ SupStep(w) \/ SupSpawnFails(w) \/ SupTimeout(w) \/ SupTimeoutLate(w)
             \/ SupCrash(w) \/ SupRestart(w) \/ \E j \in Jobs : SupDequeue(w, j)
      PROVE  AllRest \/ \E j \in Jobs : OneMove(j)
  BY <1>3, SupervisorStep
<1>4. ASSUME NEW w \in Workers, ChildStep(w) \/ ChildRaises(w) \/ ChildDies(w)
      PROVE  AllRest \/ \E j \in Jobs : OneMove(j)
  BY <1>4, DecoderStep
<1> QED
  BY <1>1, <1>2, <1>3, <1>4 DEF Next

\* Every step is an action of the lifecycle, or a stutter.
LEMMA StepRefines ==
    ASSUME NoLateFailure
    PROVE  TypeOK /\ SuspensionHolds /\ ExclusiveInv /\ UndoneInv /\ [Next]_vars => LifecycleStep
BY StepMovesOne, RestIsStutter, MoveIsStep

\* No step takes a failed recording anywhere but back to its user.
LEMMA StepKeepsFailed ==
    ASSUME NoLateFailure
    PROVE  TypeOK /\ SuspensionHolds /\ ExclusiveInv /\ UndoneInv /\ [Next]_vars
             => \A j \in Jobs : status[j] = "failed" =>
                    status'[j] \in {"failed", "queued", "open", "deleted"}
<1> SUFFICES ASSUME TypeOK, SuspensionHolds, ExclusiveInv, UndoneInv, [Next]_vars,
                    NEW j \in Jobs, status[j] = "failed"
             PROVE  status'[j] \in {"failed", "queued", "open", "deleted"}
  OBVIOUS
<1>1. Phase(j) = "failed"
  BY DEF Phase
<1>2. CASE Rests(j)
  BY <1>1, <1>2 DEF Rests, Phase
<1>3. CASE OneMove(j)
  <2>1. Phase(j)' \in {"failed", "queued", "open", "deleted"}
    BY <1>1, <1>3 DEF OneMove, Rests, MovesAlone, IsClaimed, IsFinished, IsStopped, IsLeft
  <2> QED
    BY <2>1 DEF Phase
<1>4. Rests(j) \/ OneMove(j)
  BY StepMovesOne DEF AllRest, OneMove, RestElsewhere
<1> QED
  BY <1>2, <1>3, <1>4

\* The first states are the lifecycle's.
LEMMA InitRefines == Init => Lifecycle!LifecycleInit
BY DEF Init, Lifecycle!LifecycleInit, Phase, Attending, Supervising

\* The invariant holds throughout.
LEMMA Undone ==
    ASSUME NoLateFailure
    PROVE  Spec => []UndoneInv
<1>1. TypeOK /\ SuspensionHolds /\ ExclusiveInv /\ UndoneInv /\ [Next]_vars => UndoneInv'
  BY UndoneStep
<1> QED
  BY <1>1, UndoneInit, Typing, SuspensionIsAtomic, Exclusive, PTL DEF Spec

\* The pipeline implements the recording lifecycle: whatever users and faults do,
\* a recording is edited, submitted and claimed only when no worker attends to
\* it, and only its user revives it.
THEOREM Refinement ==
    ASSUME NoLateFailure
    PROVE  Spec => ImplementsLifecycle
<1>1. TypeOK /\ SuspensionHolds /\ ExclusiveInv /\ UndoneInv /\ [Next]_vars
        => [Lifecycle!LifecycleNext]_(Lifecycle!lifecycleVars)
  BY StepRefines DEF LifecycleStep
<1> QED
  BY <1>1, Undone, InitRefines, Typing, SuspensionIsAtomic, Exclusive, PTL
  DEF Spec, ImplementsLifecycle, Lifecycle!LifecycleSpec

\* FAILED is final for the workers: a decoder that was given up on reports no
\* progress, result or stop afterwards.
THEOREM FailureIsFinal ==
    ASSUME NoLateFailure
    PROVE  Spec => FailedIsStable
<1> DEFINE KeepsFailed == \A j \in Jobs : status[j] = "failed" =>
                              status'[j] \in {"failed", "queued", "open", "deleted"}
<1>1. TypeOK /\ SuspensionHolds /\ ExclusiveInv /\ UndoneInv /\ [Next]_vars => [KeepsFailed]_vars
  BY StepKeepsFailed
<1> QED
  BY <1>1, Undone, Typing, SuspensionIsAtomic, Exclusive, PTL DEF Spec, FailedIsStable
=============================================================================
