------------------------- MODULE PipelineExclusive --------------------------
(***************************************************************************)
(* A recording is never decoded twice at once, nor edited or shown as      *)
(* stopped while it is decoded, in every environment in which no failure   *)
(* is reported behind a supervisor's back (NoLateFailure): whatever the    *)
(* users do, with timeouts, dying children, crashed supervisors and lost   *)
(* Redis calls.  RecordingPipeline says why the exception is needed, and   *)
(* the run late_failure shows it.                                          *)
(***************************************************************************)
EXTENDS PipelineTypes

\* No recording is attended to before the first request.
LEMMA ExclusiveInit == Init => ExclusiveInv
<1> SUFFICES ASSUME Init PROVE ExclusiveInv
  OBVIOUS
<1> USE JobsAssumption DEF Init
<1>1. ChildHasParent /\ FailureIsAfterDelete /\ DeleteIsUnderWay /\ QueuedHasSource
  BY DEF ChildHasParent, FailureIsAfterDelete, DeleteIsUnderWay, QueuedHasSource
<1>2. AttendedAlone /\ AttendedIsTaken /\ SourceAwaitsDecoder /\ AudioAwaitsDecoder
  BY DEF AttendedAlone, AttendedIsTaken, SourceAwaitsDecoder, AudioAwaitsDecoder, Attending, Supervising
<1> QED
  BY <1>1, <1>2 DEF ExclusiveInv

\* The audio that a decoder has yet to open is there: the upload was found, or
\* the mixdown is new, and only this decoder, later, and a deletion take it.
LEMMA AudioAwaited ==
    ASSUME TypeOK, SuspensionHolds, ExclusiveInv, [Next]_vars
    PROVE  AudioAwaitsDecoder'
<1> SUFFICES ASSUME NEW w \in Workers, childPc'[w] = "decode"
             PROVE  HasAudio(supJob[w])' \/ status'[supJob'[w]] = "deleted"
  BY Zenon DEF AudioAwaitsDecoder
<1> USE DEF row, redis, files, sup, web, suspension
<1>1. CASE childPc[w] = "decode"
  <2> DEFINE j == supJob[w]
  <2>1. /\ j \in Jobs
        /\ supPc[w] \notin {"idle", "claim", "spawn", "wipe", "unflag", "settle",
                            "final", "died", "fail"}
    BY <1>1 DEF TypeOK, ExclusiveInv, ChildHasParent
  <2>2. Attending(w, j) /\ (HasAudio(j) \/ status[j] = "deleted")
    BY <1>1 DEF Attending, ExclusiveInv, AudioAwaitsDecoder
  <2>3. /\ \/ status[j] \in {"running", "done", "deleted"}
           \/ status[j] = "canceled" /\ canceling[j]
        /\ \A v \in Workers : Attending(v, j) => v = w
        /\ api[j] \in {"deleteReflag", "deleteDrop", "deleteFiles"} => status[j] = "deleted"
    BY <2>1, <2>2 DEF ExclusiveInv, AttendedIsTaken, AttendedAlone, DeleteIsUnderWay
  <2> DEFINE Kept == /\ supJob'[w] = j
                     /\ HasAudio(j)' \/ status'[j] = "deleted"
  <2>4. ASSUME NEW k \in Jobs, UserStep(k) PROVE Kept
    BY <2>1, <2>2, <2>3, <2>4
    DEF UserStep, CreateJob, Retry, CancelRead, DeleteRead, CreateSession, AppendClip,
        RemoveClip, CloseSession, CloseLiveOnly, Reopen, Sweep, SuspendBegin, SetRow,
        AtRest, HasRow, HasAudio, TypeOK
  <2>5. ASSUME NEW k \in Jobs, LoopStep(k) \/ PoolStep(k) PROVE Kept
    BY <2>1, <2>2, <2>3, <2>5
    DEF LoopStep, LoopEnqueue, LoopSetRqId, RetryUnflag, CreateEnqueueFails,
        RetryEnqueueFails, CancelFlag, CancelRow, CancelDrop, CancelReflag, DeleteRow,
        DeleteReflag, DeleteDrop, DeleteFiles, Update, SetRow, Canceled, HasRow,
        PoolStep, CloseStep, CloseEnqueue, CloseEnqueueFails, CloseSetRqId, SuspendStep,
        SuspendDrop, SuspendCommit, PurgeAudio, HasAudio, TypeOK, SuspensionHolds
  <2>6. ASSUME NEW v \in Workers,
               \/ SupStep(v) \/ SupSpawnFails(v) \/ SupTimeout(v) \/ SupTimeoutLate(v)
               \/ SupCrash(v) \/ SupRestart(v) \/ \E k \in Jobs : SupDequeue(v, k)
        PROVE  Kept
    BY <1>1, <2>1, <2>2, <2>3, <2>6
    DEF SupStep, SupSpawnFails, SupTimeout, SupTimeoutLate, SupCrash, SupRestart, SupDequeue,
        SupClaim, SupSpawn, SupReadRow, SupReadFlag, SupPoll, SupKill, SupWipe, SupUnflag,
        SupSettle, SupFinal, SupAbort, SupFail, SupReturn, SupGoto, Update, CleanupRow, SetRow,
        PurgeAudio, Canceled, HasRow, Claimable, HasAudio, TypeOK, LivePcs
  <2>7. ASSUME NEW v \in Workers, ChildStep(v) \/ ChildRaises(v) \/ ChildDies(v)
        PROVE  Kept
    <3>1. CASE \/ ChildAssemble(v) \/ ChildDecode(v) \/ ChildSave(v) \/ ChildClear(v)
               \/ ChildUndo(v) \/ ChildRaises(v) \/ ChildDies(v)
      BY <2>2, <3>1
      DEF ChildAssemble, ChildDecode, ChildSave, ChildClear, ChildUndo, ChildRaises,
          ChildDies, HasAudio
    <3>2. CASE ChildMix(v)
      BY <2>1, <2>2, <3>2 DEF ChildMix, HasAudio, TypeOK
    <3>3. CASE ChildDropAudio(v)
      <4>1. supJob[v] # j
        BY <1>1, <2>1, <2>3, <3>3 DEF ChildDropAudio, Attending
      <4> QED
        BY <2>1, <2>2, <3>3, <4>1 DEF ChildDropAudio, HasAudio, TypeOK
    <3>4. CASE ChildStart(v) \/ ChildPark(v)
      <4>1. UNCHANGED supJob
        BY <3>4 DEF ChildStart, ChildPark
      <4>2. \/ UNCHANGED <<status, source, mixdown>>
            \/ ~HasRow(supJob[v]) /\ PurgeAudio(supJob[v]) /\ UNCHANGED status
            \/ SetRow(supJob[v], "canceled", TRUE) /\ UNCHANGED <<source, mixdown>>
        BY <3>4 DEF ChildStart, ChildPark, CleanupRow
      <4>3. CASE ~HasRow(supJob[v]) /\ PurgeAudio(supJob[v]) /\ UNCHANGED status
        <5>1. CASE supJob[v] = j
          BY <2>3, <4>1, <4>3, <5>1 DEF HasRow
        <5>2. CASE supJob[v] # j
          BY <2>1, <2>2, <4>1, <4>3, <5>2 DEF PurgeAudio, HasAudio, TypeOK
        <5> QED BY <5>1, <5>2
      <4>4. CASE SetRow(supJob[v], "canceled", TRUE) /\ UNCHANGED <<source, mixdown>>
        <5>1. status[j] = "deleted" => supJob[v] # j \/ UNCHANGED status
          BY <3>4, <4>4 DEF ChildStart, ChildPark, CleanupRow, HasRow
        <5> QED
          BY <2>1, <2>2, <4>1, <4>4, <5>1 DEF SetRow, HasAudio, TypeOK
      <4>5. CASE UNCHANGED <<status, source, mixdown>>
        BY <2>2, <4>1, <4>5 DEF HasAudio
      <4> QED BY <4>2, <4>3, <4>4, <4>5
    <3>5. CASE ChildBegin(v) \/ ChildCommit(v) \/ ChildFail(v)
      BY <2>1, <2>2, <3>5
      DEF ChildBegin, ChildCommit, ChildFail, Update, SetRow, Canceled, HasRow, HasAudio, TypeOK
    <3> QED
      BY <2>7, <3>1, <3>2, <3>3, <3>4, <3>5 DEF ChildStep
  <2>8. CASE UNCHANGED vars
    BY <2>1, <2>2, <2>8 DEF vars, HasAudio
  <2> QED
    BY <2>4, <2>5, <2>6, <2>7, <2>8 DEF Next, HasAudio
<1>2. CASE childPc[w] # "decode"
  <2>1. ChildAssemble(w) \/ ChildMix(w)
    <3>1. ASSUME NEW v \in Workers, ChildStep(v) \/ ChildRaises(v) \/ ChildDies(v)
          PROVE  ChildAssemble(w) \/ ChildMix(w)
      BY <1>2, <3>1
      DEF ChildStep, ChildRaises, ChildDies, ChildStart, ChildBegin, ChildAssemble,
          ChildMix, ChildDecode, ChildSave, ChildDropAudio, ChildCommit, ChildClear,
          ChildUndo, ChildPark, ChildFail, ChildGoto, TypeOK
    <3>2. ASSUME NEW v \in Workers,
                 \/ SupStep(v) \/ SupSpawnFails(v) \/ SupTimeout(v) \/ SupTimeoutLate(v)
                 \/ SupCrash(v) \/ SupRestart(v) \/ \E k \in Jobs : SupDequeue(v, k)
          PROVE  FALSE
      BY <1>2, <3>2
      DEF SupStep, SupSpawnFails, SupTimeout, SupTimeoutLate, SupCrash, SupRestart, SupDequeue,
          SupClaim, SupSpawn, SupReadRow, SupReadFlag, SupPoll, SupKill, SupWipe, SupUnflag,
          SupSettle, SupFinal, SupAbort, SupFail, StopProcess, Reap, TypeOK
    <3>3. ASSUME NEW k \in Jobs, UserStep(k) \/ LoopStep(k) \/ PoolStep(k)
          PROVE  FALSE
      BY <1>2, <3>3
      DEF UserStep, CreateJob, Retry, CancelRead, DeleteRead, CreateSession, AppendClip,
          RemoveClip, CloseSession, CloseLiveOnly, Reopen, Sweep, SuspendBegin,
          LoopStep, LoopEnqueue, LoopSetRqId, RetryUnflag, CreateEnqueueFails,
          RetryEnqueueFails, CancelFlag, CancelRow, CancelDrop, CancelReflag, DeleteRow,
          DeleteReflag, DeleteDrop, DeleteFiles, PoolStep, CloseStep, CloseEnqueue,
          CloseEnqueueFails, CloseSetRqId, SuspendStep, SuspendDrop, SuspendCommit
    <3>4. ~UNCHANGED vars
      BY <1>2 DEF vars
    <3> QED
      BY <3>1, <3>2, <3>3, <3>4 DEF Next
  <2>2. CASE ChildAssemble(w)
    BY <2>2 DEF ChildAssemble, ChildGoto, HasAudio, TypeOK
  <2>3. CASE ChildMix(w)
    <3>1. /\ childPc[w] = "mix" /\ UNCHANGED <<status, source, supJob>>
          /\ mixdown' = [mixdown EXCEPT ![supJob[w]] = TRUE]
      BY <1>2, <2>3 DEF ChildMix, ChildGoto, TypeOK
    <3>2. supJob[w] \in Jobs
      BY <3>1 DEF TypeOK, ExclusiveInv, ChildHasParent
    <3>3. source[supJob[w]] = "kept" \/ status[supJob[w]] = "deleted"
      BY <3>1, <3>2 DEF ExclusiveInv, SourceAwaitsDecoder
    <3> QED
      BY <3>1, <3>2, <3>3 DEF HasAudio, TypeOK
  <2> QED BY <2>1, <2>2, <2>3
<1> QED BY <1>1, <1>2

\* Every step preserves the invariant.  The recording a worker attends to is
\* RUNNING, DONE, deleted or still canceling, and in none of these can another
\* worker claim it or its user submit it; the audio is there when a decoder
\* opens it because only the decoder itself, later, and a deletion take it.
LEMMA ExclusiveStep ==
    ASSUME NoLateFailure
    PROVE  TypeOK /\ SuspensionHolds /\ ExclusiveInv /\ [Next]_vars => ExclusiveInv'
<1> SUFFICES ASSUME TypeOK, SuspensionHolds, ExclusiveInv, [Next]_vars PROVE ExclusiveInv'
  OBVIOUS
<1>0. AudioAwaitsDecoder'
  BY AudioAwaited
<1> DEFINE RestInv == /\ ChildHasParent /\ AttendedAlone /\ AttendedIsTaken
                      /\ QueuedHasSource /\ SourceAwaitsDecoder
                      /\ FailureIsAfterDelete /\ DeleteIsUnderWay
<1>00. RestInv /\ AudioAwaitsDecoder
  BY DEF ExclusiveInv
<1> SUFFICES RestInv'
  BY <1>0, Zenon DEF ExclusiveInv
<1> HIDE DEF ExclusiveInv
<1> USE <1>00, JobsAssumption
        DEF TypeOK, NoLateFailure, ChildHasParent, AttendedAlone,
            AttendedIsTaken, QueuedHasSource, SourceAwaitsDecoder,
            FailureIsAfterDelete, DeleteIsUnderWay, Attending, Supervising,
            LivePcs, row, redis, files, sup, web, suspension
<1>1. ASSUME NEW j \in Jobs, CreateJob(j) PROVE RestInv'
  BY <1>1 DEF CreateJob, SetRow, Goto, LoopIdle
<1>2. ASSUME NEW j \in Jobs, LoopEnqueue(j) PROVE RestInv'
  BY <1>2 DEF LoopEnqueue, Goto
<1>3. ASSUME NEW j \in Jobs, CreateEnqueueFails(j) PROVE RestInv'
  BY <1>3 DEF CreateEnqueueFails, HasRow, Return, Goto
<1>4. ASSUME NEW j \in Jobs, RetryEnqueueFails(j) PROVE RestInv'
  BY <1>4 DEF RetryEnqueueFails, Update, SetRow, Canceled, HasRow, Return, Goto
<1>5. ASSUME NEW j \in Jobs, LoopSetRqId(j) PROVE RestInv'
  BY <1>5 DEF LoopSetRqId, HasRow, Return, Goto
<1>6. ASSUME NEW j \in Jobs, Retry(j) PROVE RestInv'
  BY <1>6 DEF Retry, SetRow, AtRest, SourceExists, Goto, LoopIdle
<1>7. ASSUME NEW j \in Jobs, RetryUnflag(j) PROVE RestInv'
  BY <1>7 DEF RetryUnflag, Goto
<1>8. ASSUME NEW j \in Jobs, CancelRead(j) PROVE RestInv'
  BY <1>8 DEF CancelRead, Goto, LoopIdle
<1>9. ASSUME NEW j \in Jobs, CancelFlag(j) PROVE RestInv'
  BY <1>9 DEF CancelFlag, Goto
<1>10. ASSUME NEW j \in Jobs, CancelRow(j) PROVE RestInv'
  <2>1. CASE status[j] = "running"
    <3>1. /\ status' = [status EXCEPT ![j] = "canceled"]
          /\ canceling' = [canceling EXCEPT ![j] = TRUE]
          /\ api' = [api EXCEPT ![j] = "cancelDrop"]
          /\ UNCHANGED <<source, supPc, supJob, childPc>>
      BY <1>10, <2>1 DEF CancelRow, SetRow, Goto, StillRunning
    <3>2. QED
      BY <2>1, <3>1
  <2>2. CASE status[j] = "queued"
    <3>1. /\ status' = [status EXCEPT ![j] = "canceled"]
          /\ canceling' = [canceling EXCEPT ![j] = FALSE]
          /\ api' = [api EXCEPT ![j] = "cancelDrop"]
          /\ UNCHANGED <<source, supPc, supJob, childPc>>
      BY <1>10, <2>2 DEF CancelRow, SetRow, Goto, StillRunning
    <3>2. QED
      BY <2>2, <3>1
  <2>3. CASE status[j] \notin {"queued", "running"}
    BY <1>10, <2>3 DEF CancelRow, SetRow, Goto, Return, StillRunning
  <2> QED BY <2>1, <2>2, <2>3
<1>11. ASSUME NEW j \in Jobs, CancelDrop(j) PROVE RestInv'
  BY <1>11 DEF CancelDrop, Goto
<1>12. ASSUME NEW j \in Jobs, CancelReflag(j) PROVE RestInv'
  BY <1>12 DEF CancelReflag, Return, Goto
<1>13. ASSUME NEW j \in Jobs, DeleteRead(j) PROVE RestInv'
  BY <1>13 DEF DeleteRead, HasRow, Goto, LoopIdle
<1>14. ASSUME NEW j \in Jobs, DeleteRow(j) PROVE RestInv'
  BY <1>14 DEF DeleteRow, SetRow, Goto
<1>15. ASSUME NEW j \in Jobs, DeleteReflag(j) PROVE RestInv'
  BY <1>15 DEF DeleteReflag, Goto
<1>16. ASSUME NEW j \in Jobs, DeleteDrop(j) PROVE RestInv'
  BY <1>16 DEF DeleteDrop, Goto
<1>17. ASSUME NEW j \in Jobs, DeleteFiles(j) PROVE RestInv'
  BY <1>17 DEF DeleteFiles, PurgeAudio, Return, Goto
<1>18. ASSUME NEW j \in Jobs, CreateSession(j) PROVE RestInv'
  BY <1>18 DEF CreateSession, SetRow
<1>19. ASSUME NEW j \in Jobs, AppendClip(j) PROVE RestInv'
  BY <1>19 DEF AppendClip
<1>20. ASSUME NEW j \in Jobs, RemoveClip(j) PROVE RestInv'
  <2>1. status[j] = "open" /\ UNCHANGED <<status, canceling, supPc, supJob, childPc, api>>
    BY <1>20 DEF RemoveClip
  <2>2. \A k \in Jobs : k # j => source'[k] = source[k]
    BY <1>20 DEF RemoveClip
  <2>3. \A w \in Workers : ~Attending(w, j)
    BY <2>1
  <2>4. SourceAwaitsDecoder'
    BY <2>1, <2>2, <2>3
  <2>5. QueuedHasSource'
    BY <2>1, <2>2
  <2> QED
    BY <2>1, <2>4, <2>5
<1>21. ASSUME NEW j \in Jobs, CloseSession(j) PROVE RestInv'
  BY <1>21 DEF CloseSession, SetRow, SourceExists
<1>22. ASSUME NEW j \in Jobs, CloseLiveOnly(j) PROVE RestInv'
  BY <1>22 DEF CloseLiveOnly, SetRow
<1>23. ASSUME NEW j \in Jobs, CloseEnqueue(j) PROVE RestInv'
  BY <1>23 DEF CloseEnqueue
<1>24. ASSUME NEW j \in Jobs, CloseEnqueueFails(j) PROVE RestInv'
  BY <1>24 DEF CloseEnqueueFails, Update, SetRow, Canceled, HasRow
<1>25. ASSUME NEW j \in Jobs, CloseSetRqId(j) PROVE RestInv'
  BY <1>25 DEF CloseSetRqId, HasRow
<1>26. ASSUME NEW j \in Jobs, Reopen(j) PROVE RestInv'
  BY <1>26 DEF Reopen, SetRow, AtRest
<1>27. ASSUME NEW j \in Jobs, Sweep(j) PROVE RestInv'
  BY <1>27 DEF Sweep, SetRow, HasRow
<1>28. ASSUME NEW w \in Workers, NEW j \in Jobs, SupDequeue(w, j) PROVE RestInv'
  BY <1>28 DEF SupDequeue
<1>29. ASSUME NEW w \in Workers, SupClaim(w) PROVE RestInv'
  <2>1. CASE Claimable(supJob[w])
    <3>0. /\ supPc' = [supPc EXCEPT ![w] = "spawn"] /\ UNCHANGED <<supJob, childPc>>
          /\ UNCHANGED <<source, api>> /\ supPc[w] = "claim" /\ supJob[w] \in Jobs
          /\ status[supJob[w]] = "queued" /\ status' = [status EXCEPT ![supJob[w]] = "running"]
          /\ canceling' = [canceling EXCEPT ![supJob[w]] = FALSE]
      BY <1>29, <2>1 DEF SupClaim, SetRow, SupGoto, Claimable
    <3>1. AttendedAlone'
      <4>0. supJob[w] \in Jobs /\ status[supJob[w]] = "queued"
        BY <3>0
      <4>1. \A v \in Workers : ~Attending(v, supJob[w])
        BY <4>0
      <4>2. ASSUME NEW v \in Workers, NEW j \in Jobs, Attending(v, j)'
            PROVE  Attending(v, j) \/ (v = w /\ j = supJob[w])
        <5>1. CASE v = w
          BY <3>0, <4>2, <5>1
        <5>2. CASE v # w
          BY <3>0, <4>2, <5>2
        <5> QED BY <5>1, <5>2
      <4> QED BY <4>1, <4>2
    <3>2. FailureIsAfterDelete'
      BY <3>0
    <3>3. AttendedIsTaken'
      BY <3>0
    <3>5. SourceAwaitsDecoder'
      BY <3>0
    <3>4. QueuedHasSource' /\ DeleteIsUnderWay' /\ ChildHasParent'
      BY <3>0
    <3> QED BY <3>1, <3>2, <3>3, <3>4, <3>5
  <2>2. CASE ~Claimable(supJob[w])
    <3>0. /\ supPc' = [supPc EXCEPT ![w] = "idle"] /\ supJob' = [supJob EXCEPT ![w] = NoJob]
          /\ UNCHANGED <<status, canceling, childPc, source, api>> /\ supPc[w] = "claim"
      BY <1>29, <2>2 DEF SupClaim, SupReturn
    <3>1. \A v \in Workers, j \in Jobs : Attending(v, j)' => Attending(v, j)
      BY <3>0
    <3>2. AttendedAlone' /\ AttendedIsTaken'
      BY <3>0, <3>1
    <3>3. QueuedHasSource' /\ DeleteIsUnderWay' /\ ChildHasParent' /\ SourceAwaitsDecoder'
      BY <3>0
    <3>4. FailureIsAfterDelete'
      BY <3>0
    <3> QED BY <3>2, <3>3, <3>4
  <2> QED BY <2>1, <2>2
<1>30. ASSUME NEW w \in Workers, SupSpawn(w) PROVE RestInv'
  BY <1>30 DEF SupSpawn, SupGoto
<1>31. ASSUME NEW w \in Workers, SupSpawnFails(w) PROVE RestInv'
  BY <1>31 DEF SupSpawnFails, SupGoto
<1>32. ASSUME NEW w \in Workers, SupReadRow(w) PROVE RestInv'
  BY <1>32 DEF SupReadRow, Canceled, HasRow, SupGoto
<1>33. ASSUME NEW w \in Workers, SupReadFlag(w) PROVE RestInv'
  BY <1>33 DEF SupReadFlag, SupGoto
<1>34. ASSUME NEW w \in Workers, SupPoll(w) PROVE RestInv'
  <2>1. ChildHasParent'
    BY <1>34 DEF SupPoll, SupGoto, Reap
  <2>0. \A v \in Workers, j \in Jobs : Attending(v, j)' => Attending(v, j)
    BY <1>34 DEF SupPoll, SupGoto, Reap
  <2>2. AttendedAlone'
    BY <2>0
  <2>3. AttendedIsTaken'
    BY <1>34, <2>0 DEF SupPoll
  <2>4. QueuedHasSource'
    BY <1>34 DEF SupPoll, SupGoto, Reap
  <2>5. SourceAwaitsDecoder'
    BY <1>34 DEF SupPoll, SupGoto, Reap
  <2>6. FailureIsAfterDelete'
    BY <1>34 DEF SupPoll, SupGoto, Reap
  <2>7. DeleteIsUnderWay'
    BY <1>34 DEF SupPoll, SupGoto, Reap
  <2>8. QED
    BY <2>1, <2>2, <2>3, <2>4, <2>5, <2>6, <2>7
<1>35. ASSUME NEW w \in Workers, SupKill(w) PROVE RestInv'
  BY <1>35 DEF SupKill, SupGoto, StopProcess, Reap
<1>36. ASSUME NEW w \in Workers, SupWipe(w) PROVE RestInv'
  BY <1>36 DEF SupWipe, SupGoto
<1>37. ASSUME NEW w \in Workers, SupUnflag(w) PROVE RestInv'
  BY <1>37 DEF SupUnflag, SupGoto
<1>38. ASSUME NEW w \in Workers, SupSettle(w) PROVE RestInv'
  <2>0. childPc[w] = "none" /\ supJob[w] \in Jobs /\ Attending(w, supJob[w])
    BY <1>38 DEF SupSettle
  <2>1. CASE HasRow(supJob[w])
    <3>0. \A v \in Workers, j \in Jobs : Attending(v, j)'
              => (Attending(v, j) /\ v # w /\ j # supJob[w])
      <4>1. /\ supPc' = [supPc EXCEPT ![w] = "idle"]
            /\ supJob' = [supJob EXCEPT ![w] = NoJob]
            /\ UNCHANGED childPc
        BY <1>38 DEF SupSettle, SupReturn
      <4>2. \A v \in Workers, j \in Jobs : Attending(v, j)' => v # w /\ Attending(v, j)
        BY <4>1
      <4> QED
        BY <2>0, <4>2
    <3>1. AttendedIsTaken'
      <4>1. \A j \in Jobs : j # supJob[w] => status'[j] = status[j] /\ canceling'[j] = canceling[j]
        BY <1>38, <2>1 DEF SupSettle, CleanupRow, SetRow
      <4> QED BY <3>0, <4>1
    <3>2. AttendedAlone'
      BY <3>0
    <3>3. QueuedHasSource' /\ DeleteIsUnderWay' /\ ChildHasParent' /\ SourceAwaitsDecoder'
      BY <1>38, <2>1 DEF SupSettle, CleanupRow, SetRow, HasRow, SupReturn
    <3>4. FailureIsAfterDelete'
      BY <1>38, <2>1 DEF SupSettle, CleanupRow, SetRow, HasRow, SupReturn
    <3> QED BY <3>1, <3>2, <3>3, <3>4
  <2>2. CASE ~HasRow(supJob[w])
    <3>1. /\ source' = [source EXCEPT ![supJob[w]] =
                          IF supJob[w] \in Sessions THEN source[supJob[w]] ELSE "none"]
          /\ supPc' = [supPc EXCEPT ![w] = "idle"]
          /\ supJob' = [supJob EXCEPT ![w] = NoJob]
          /\ UNCHANGED <<status, canceling, childPc, api>>
      BY <1>38, <2>2 DEF SupSettle, CleanupRow, PurgeAudio, SupReturn
    <3>2. status[supJob[w]] = "deleted"
      BY <2>0, <2>2 DEF HasRow
    <3>3. QED
      BY <2>0, <3>1, <3>2
  <2> QED BY <2>1, <2>2
<1>39. ASSUME NEW w \in Workers, SupFinal(w) PROVE RestInv'
  <2>1. UNCHANGED <<status, canceling, source, childPc, api>>
    BY <1>39 DEF SupFinal
  <2>2. \A v \in Workers, j \in Jobs : Attending(v, j)' => Attending(v, j)
    BY <1>39 DEF SupFinal, SupGoto, SupReturn
  <2>3. AttendedAlone' /\ AttendedIsTaken'
    BY <2>1, <2>2
  <2>4. childPc[w] = "none" /\ supPc'[w] # "spawn"
    BY <1>39 DEF SupFinal, SupGoto, SupReturn
  <2>5. \A v \in Workers : v # w => supPc'[v] = supPc[v] /\ supJob'[v] = supJob[v]
    BY <1>39 DEF SupFinal, SupGoto, SupReturn
  <2>7. ChildHasParent' /\ FailureIsAfterDelete'
    BY <2>1, <2>4, <2>5
  <2>8. SourceAwaitsDecoder'
    BY <2>1, <2>4, <2>5
  <2>6. QueuedHasSource' /\ DeleteIsUnderWay'
    BY <2>1
  <2> QED BY <2>3, <2>6, <2>7, <2>8
<1>40. ASSUME NEW w \in Workers, SupAbort(w) PROVE RestInv'
  BY <1>40 DEF SupAbort, SupGoto, StopProcess, Reap
<1>41. ASSUME NEW w \in Workers, SupFail(w) PROVE RestInv'
  <2>1. ChildHasParent'
    BY <1>41 DEF SupFail, Update, SetRow, Canceled, HasRow, SupReturn
  <2>2. AttendedAlone'
    BY <1>41 DEF SupFail, Update, SetRow, Canceled, HasRow, SupReturn
  <2>3. AttendedIsTaken'
    <3>1. /\ supPc' = [supPc EXCEPT ![w] = "idle"]
          /\ supJob' = [supJob EXCEPT ![w] = NoJob]
          /\ UNCHANGED childPc
      BY <1>41 DEF SupFail, SupReturn
    <3>2. \A v \in Workers, j \in Jobs : Attending(v, j)' => v # w /\ Attending(v, j)
      BY <3>1
    <3>3. supPc[w] \in {"died", "fail"} /\ Attending(w, supJob[w]) /\ supJob[w] \in Jobs
      BY <1>41 DEF SupFail
    <3>4. \A v \in Workers, j \in Jobs : Attending(v, j)' => j # supJob[w]
      BY <3>2, <3>3
    <3>5. \A j \in Jobs : j # supJob[w]
            => status'[j] = status[j] /\ canceling'[j] = canceling[j]
      BY <1>41 DEF SupFail, Update, SetRow
    <3> QED
      BY <3>2, <3>4, <3>5
  <2>4. QueuedHasSource'
    BY <1>41 DEF SupFail, Update, SetRow, Canceled, HasRow, SupReturn
  <2>5. SourceAwaitsDecoder'
    BY <1>41 DEF SupFail, Update, SetRow, Canceled, HasRow, SupReturn
  <2>6. FailureIsAfterDelete'
    BY <1>41 DEF SupFail, Update, SetRow, Canceled, HasRow, SupReturn
  <2>7. DeleteIsUnderWay'
    BY <1>41 DEF SupFail, Update, SetRow, Canceled, HasRow, SupReturn
  <2>8. QED
    BY <2>1, <2>2, <2>3, <2>4, <2>5, <2>6, <2>7
<1>42. ASSUME NEW w \in Workers, SupTimeout(w) PROVE RestInv'
  BY <1>42 DEF SupTimeout, SupGoto
<1>43. ASSUME NEW w \in Workers, SupCrash(w) PROVE RestInv'
  BY <1>43 DEF SupCrash, SupGoto
<1>44. ASSUME NEW w \in Workers, SupRestart(w) PROVE RestInv'
  BY <1>44 DEF SupRestart, SupReturn, Reap
<1>45. ASSUME NEW w \in Workers, ChildStart(w) PROVE RestInv'
  <2>1. UNCHANGED <<status, canceling, supPc, supJob, api>> /\ childPc[w] = "start"
    BY <1>45 DEF ChildStart
  <2>2. childPc' = [childPc EXCEPT ![w] = "begin"] \/ childPc' = [childPc EXCEPT ![w] = "exit0"]
    BY <1>45 DEF ChildStart, ChildGoto
  <2>3. supJob[w] \in Jobs
    BY <2>1
  <2>4. \/ UNCHANGED source
        \/ /\ status[supJob[w]] = "deleted"
           /\ source' = [source EXCEPT ![supJob[w]] =
                          IF supJob[w] \in Sessions THEN source[supJob[w]] ELSE "none"]
    BY <1>45, <2>3 DEF ChildStart, PurgeAudio, HasRow
  <2> QED BY <2>1, <2>2, <2>4
<1>46. ASSUME NEW w \in Workers, ChildBegin(w) PROVE RestInv'
  BY <1>46 DEF ChildBegin, Update, SetRow, Canceled, HasRow, ChildGoto
<1>47. ASSUME NEW w \in Workers, ChildAssemble(w) PROVE RestInv'
  BY <1>47 DEF ChildAssemble, ChildGoto
<1>48. ASSUME NEW w \in Workers, ChildDecode(w) PROVE RestInv'
  <2>1. /\ UNCHANGED <<status, canceling, supPc, supJob, api, source>>
        /\ childPc[w] = "decode" /\ supJob[w] \in Jobs
    BY <1>48 DEF ChildDecode
  <2>2. \/ childPc' = [childPc EXCEPT ![w] = "undo"]
        \/ childPc' = [childPc EXCEPT ![w] = "save"]
        \/ /\ childPc' = [childPc EXCEPT ![w] = "fail"]
           /\ status[supJob[w]] = "deleted"
    BY <1>48 DEF ChildDecode, ChildGoto, AudioAwaitsDecoder
  <2> QED BY <2>1, <2>2
<1>49. ASSUME NEW w \in Workers, ChildSave(w) PROVE RestInv'
  BY <1>49 DEF ChildSave, ChildGoto
<1>50. ASSUME NEW w \in Workers, ChildDropAudio(w) PROVE RestInv'
  <2>1. /\ childPc[w] = "drop" /\ childPc' = [childPc EXCEPT ![w] = "commit"]
        /\ UNCHANGED <<status, canceling, supPc, supJob, api>>
    BY <1>50 DEF ChildDropAudio, ChildGoto
  <2>2. \A k \in Jobs : k # supJob[w] => source'[k] = source[k]
    BY <1>50 DEF ChildDropAudio
  <2>3. supJob[w] \in Jobs /\ Attending(w, supJob[w]) /\ status[supJob[w]] # "queued"
    BY <2>1
  <2>4. QueuedHasSource'
    BY <2>1, <2>2, <2>3
  <2>5. SourceAwaitsDecoder'
    <3>1. SUFFICES ASSUME NEW k \in Jobs, NEW v \in Workers, supJob'[v] = k,
                          \/ supPc'[v] = "spawn"
                          \/ childPc'[v] \in {"start", "begin", "assemble", "mix"}
                   PROVE  source'[k] = "kept" \/ status'[k] = "deleted"
      BY Zenon DEF SourceAwaitsDecoder
    <3>2. v # w
      BY <2>1, <3>1
    <3>3. supJob[v] = k /\ (supPc[v] = "spawn" \/ childPc[v] \in {"start", "begin", "assemble", "mix"})
      BY <2>1, <3>1, <3>2
    <3>4. k # supJob[w]
      BY <2>1, <2>3, <3>2, <3>3
    <3> QED
      BY <2>1, <2>2, <3>3, <3>4
  <2>6. AttendedAlone' /\ AttendedIsTaken'
    BY <2>1
  <2> QED
    BY <2>1, <2>4, <2>5, <2>6
<1>51. ASSUME NEW w \in Workers, ChildCommit(w) PROVE RestInv'
  BY <1>51 DEF ChildCommit, Update, SetRow, Canceled, HasRow, ChildGoto
<1>52. ASSUME NEW w \in Workers, ChildClear(w) PROVE RestInv'
  BY <1>52 DEF ChildClear, ChildGoto
<1>53. ASSUME NEW w \in Workers, ChildUndo(w) PROVE RestInv'
  BY <1>53 DEF ChildUndo, ChildGoto
<1>54. ASSUME NEW w \in Workers, ChildPark(w) PROVE RestInv'
  <2>0. supJob[w] \in Jobs
    BY <1>54 DEF ChildPark
  <2>1. CASE HasRow(supJob[w])
    <3>1. /\ status' = [status EXCEPT ![supJob[w]] = "canceled"]
          /\ canceling' = [canceling EXCEPT ![supJob[w]] = TRUE]
          /\ childPc' = [childPc EXCEPT ![w] = "exit0"]
          /\ UNCHANGED <<source, supPc, supJob, api>>
      BY <1>54, <2>1 DEF ChildPark, CleanupRow, SetRow, ChildGoto
    <3>2. QED
      BY <1>54, <2>0, <2>1, <3>1 DEF HasRow, ChildPark
  <2>2. CASE ~HasRow(supJob[w])
    <3>1. /\ source' = [source EXCEPT ![supJob[w]] =
                          IF supJob[w] \in Sessions THEN source[supJob[w]] ELSE "none"]
          /\ childPc' = [childPc EXCEPT ![w] = "exit0"]
          /\ UNCHANGED <<status, canceling, supPc, supJob, api>>
      BY <1>54, <2>2 DEF ChildPark, CleanupRow, PurgeAudio, ChildGoto
    <3>2. status[supJob[w]] = "deleted"
      BY <1>54, <2>0, <2>2 DEF HasRow, ChildPark
    <3>3. QED
      BY <1>54, <2>0, <3>1, <3>2 DEF ChildPark
  <2> QED BY <2>1, <2>2
<1>55. ASSUME NEW w \in Workers, ChildFail(w) PROVE RestInv'
  BY <1>55 DEF ChildFail, Update, SetRow, Canceled, HasRow, ChildGoto
<1>56. ASSUME NEW w \in Workers, ChildRaises(w) PROVE RestInv'
  BY <1>56 DEF ChildRaises, ChildGoto
<1>57. ASSUME NEW w \in Workers, ChildDies(w) PROVE RestInv'
  BY <1>57 DEF ChildDies, ChildGoto
<1>58. ASSUME NEW j \in Jobs, SuspendBegin(j) PROVE RestInv'
  BY <1>58 DEF SuspendBegin
<1>59. ASSUME NEW j \in Jobs, SuspendDrop(j) PROVE RestInv'
  BY <1>59 DEF SuspendDrop
<1>60. ASSUME NEW j \in Jobs, SuspendCommit(j) PROVE RestInv'
  <2>1. /\ status' = [status EXCEPT ![j] = "canceled"]
        /\ canceling' = [canceling EXCEPT ![j] = found[j] = "running"]
        /\ UNCHANGED <<source, supPc, supJob, childPc, api>>
    BY <1>60 DEF SuspendCommit, SetRow
  <2>2. status[j] = found[j] /\ status[j] \in {"queued", "running"}
    BY <1>60 DEF SuspendCommit, SuspensionHolds
  <2>3. \A w \in Workers : Attending(w, j) => found[j] = "running"
    BY <2>2
  <2>4. AttendedIsTaken'
    <3>1. \A k \in Jobs, w \in Workers : Attending(w, k)' => Attending(w, k)
      BY <2>1
    <3>2. \A k \in Jobs : k # j => status'[k] = status[k] /\ canceling'[k] = canceling[k]
      BY <2>1
    <3>3. status'[j] = "canceled"
      BY <2>1
    <3>4. ASSUME NEW w \in Workers, Attending(w, j)' PROVE canceling'[j]
      <4>1. found[j] = "running"
        BY <3>1, <3>4, <2>3
      <4>2. canceling' = [canceling EXCEPT ![j] = TRUE]
        BY <2>1, <4>1
      <4> QED
        BY <4>2
    <3> HIDE DEF Attending
    <3>5. ASSUME NEW k \in Jobs, NEW w \in Workers, Attending(w, k)'
          PROVE  \/ status'[k] \in {"running", "done", "deleted"}
                 \/ status'[k] = "canceled" /\ canceling'[k]
      <4>1. Attending(w, k)
        BY <3>1, <3>5
      <4>2. CASE k = j
        BY <3>3, <3>4, <3>5, <4>2
      <4>3. CASE k # j
        BY <3>2, <4>1, <4>3
      <4> QED
        BY <4>2, <4>3
    <3> QED
      BY <3>5 DEF AttendedIsTaken
  <2> QED
    BY <2>1, <2>2, <2>4
<1>61. ASSUME NEW w \in Workers, ChildMix(w) PROVE RestInv'
  BY <1>61 DEF ChildMix, ChildGoto
<1>62. ASSUME NEW w \in Workers, SupTimeoutLate(w) PROVE RestInv'
  <2>1. /\ UNCHANGED <<status, canceling, source, childPc, api>>
        /\ supPc' = [supPc EXCEPT ![w] = "idle"]
        /\ supJob' = [supJob EXCEPT ![w] = NoJob] /\ supPc[w] = "died"
    BY <1>62 DEF SupTimeoutLate, SupReturn
  <2>2. \A v \in Workers, j \in Jobs : Attending(v, j)' => Attending(v, j)
    BY <2>1
  <2>3. AttendedAlone' /\ AttendedIsTaken'
    BY <2>1, <2>2
  <2> QED
    BY <2>1, <2>3
<1>63. CASE UNCHANGED vars
  BY <1>63 DEF vars
<1>64. QED
  BY <1>1, <1>2, <1>3, <1>4, <1>5, <1>6, <1>7, <1>8, <1>9, <1>10, <1>11,
     <1>12, <1>13, <1>14, <1>15, <1>16, <1>17, <1>18, <1>19, <1>20, <1>21,
     <1>22, <1>23, <1>24, <1>25, <1>26, <1>27, <1>28, <1>29, <1>30, <1>31,
     <1>32, <1>33, <1>34, <1>35, <1>36, <1>37, <1>38, <1>39, <1>40, <1>41,
     <1>42, <1>43, <1>44, <1>45, <1>46, <1>47, <1>48, <1>49, <1>50, <1>51,
     <1>52, <1>53, <1>54, <1>55, <1>56, <1>57, <1>58, <1>59, <1>60, <1>61,
     <1>62, <1>63
  DEF Next, UserStep, LoopStep, PoolStep, CloseStep, SuspendStep, SupStep, ChildStep

\* The four properties are consequences: a live decoder is attended to.
LEMMA ExclusiveImplies ==
    ASSUME TypeOK, ExclusiveInv
    PROVE  SingleDecoder /\ StopConfirmed /\ EditableAlone /\ QueuedHasSource
<1>1. ASSUME NEW j \in Jobs, NEW w \in Workers, Decoding(w, j)
      PROVE  Attending(w, j)
  BY <1>1 DEF Decoding, Attending, LivePcs
<1>2. SingleDecoder
  BY <1>1 DEF ExclusiveInv, AttendedAlone, SingleDecoder
<1>3. StopConfirmed /\ EditableAlone
  BY <1>1 DEF ExclusiveInv, AttendedIsTaken, StopConfirmed, EditableAlone
<1> QED
  BY <1>2, <1>3 DEF ExclusiveInv

\* The invariant holds throughout, for any number of recordings and workers.
THEOREM Exclusive ==
    ASSUME NoLateFailure
    PROVE  Spec => []ExclusiveInv
<1>1. TypeOK /\ SuspensionHolds /\ ExclusiveInv /\ [Next]_vars => ExclusiveInv'
  BY ExclusiveStep
<1>2. QED
  BY <1>1, ExclusiveInit, Typing, SuspensionIsAtomic, PTL DEF Spec

\* So run_isolated's claim keeps two supervisors from decoding one recording.
THEOREM DecodedOnce ==
    ASSUME NoLateFailure
    PROVE  Spec => []SingleDecoder
<1>1. TypeOK /\ ExclusiveInv => SingleDecoder
  BY ExclusiveImplies
<1>2. QED
  BY <1>1, Exclusive, Typing, PTL

\* A stop is shown as confirmed, and retry and reopen allowed, only when the
\* decoder is gone.
THEOREM StopIsConfirmed ==
    ASSUME NoLateFailure
    PROVE  Spec => []StopConfirmed
<1>1. TypeOK /\ ExclusiveInv => StopConfirmed
  BY ExclusiveImplies
<1>2. QED
  BY <1>1, Exclusive, Typing, PTL

\* An OPEN session is edited with no decoder reading its clips.
THEOREM EditedAlone ==
    ASSUME NoLateFailure
    PROVE  Spec => []EditableAlone
<1>1. TypeOK /\ ExclusiveInv => EditableAlone
  BY ExclusiveImplies
<1>2. QED
  BY <1>1, Exclusive, Typing, PTL

\* A queued recording has its audio, although the decoder may have dropped the
\* audio of an earlier attempt.
THEOREM QueueHasSource ==
    ASSUME NoLateFailure
    PROVE  Spec => []QueuedHasSource
<1>1. TypeOK /\ ExclusiveInv => QueuedHasSource
  BY ExclusiveImplies
<1>2. QED
  BY <1>1, Exclusive, Typing, PTL
=============================================================================
