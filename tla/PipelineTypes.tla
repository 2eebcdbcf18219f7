--------------------------- MODULE PipelineTypes ----------------------------
(***************************************************************************)
(* TypeOK holds in every state of the recording pipeline, for any number   *)
(* of recordings and workers and in every environment (Ops, Faults); and   *)
(* so does what a suspension has read, for as long as it holds the lock.   *)
(***************************************************************************)
EXTENDS RecordingPipeline, TLAPS

\* Parts of TypeOK.
RowTypes == status \in [Jobs -> Statuses] /\ canceling \in [Jobs -> BOOLEAN]
AudioTypes == source \in [Jobs -> Sources] /\ mixdown \in [Jobs -> BOOLEAN]

\* An assignment of a status and a stage keeps the types of the row.
LEMMA SetRowTypes ==
    ASSUME RowTypes, NEW j, NEW st \in Statuses,
           NEW stopping \in BOOLEAN, SetRow(j, st, stopping)
    PROVE  RowTypes'
  BY DEF RowTypes, SetRow

\* So does tasks._update, whether or not its WHERE matches.
LEMMA UpdateTypes ==
    ASSUME RowTypes, NEW j, NEW st \in Statuses, Update(j, st)
    PROVE  RowTypes'
<1>1. CASE Canceled(j)
  BY <1>1 DEF Update, RowTypes
<1>2. CASE ~Canceled(j)
  BY <1>2, SetRowTypes DEF Update
<1> QED BY <1>1, <1>2

\* _purge_audio keeps the types of the audio files.
LEMMA PurgeAudioTypes ==
    ASSUME AudioTypes, NEW j, PurgeAudio(j)
    PROVE  AudioTypes'
  BY DEF AudioTypes, PurgeAudio, Sources

\* The last part of _cleanup_canceled keeps the types of the row and the files.
LEMMA CleanupRowTypes ==
    ASSUME RowTypes, AudioTypes, NEW j, NEW stopped \in BOOLEAN,
           CleanupRow(j, stopped)
    PROVE  RowTypes' /\ AudioTypes'
<1>1. CASE HasRow(j)
  <2>1. "canceled" \in Statuses
    BY DEF Statuses
  <2> QED
    BY <1>1, <2>1, SetRowTypes DEF CleanupRow, AudioTypes
<1>2. CASE ~HasRow(j)
  BY <1>2, PurgeAudioTypes DEF CleanupRow, RowTypes
<1> QED BY <1>1, <1>2

\* What the writes of a row do to it, and that they leave every other row alone.
LEMMA SetRowEffect ==
    ASSUME RowTypes, NEW j, NEW st, NEW stopping, SetRow(j, st, stopping)
    PROVE  /\ j \in Jobs => status'[j] = st /\ canceling'[j] = stopping
           /\ \A k \in Jobs : k # j => status'[k] = status[k] /\ canceling'[k] = canceling[k]
  BY DEF RowTypes, SetRow

LEMMA UpdateEffect ==
    ASSUME RowTypes, NEW j, NEW st, Update(j, st)
    PROVE  /\ Unlocked(j)
           /\ Canceled(j) => UNCHANGED <<status, canceling>>
           /\ ~Canceled(j) /\ j \in Jobs => status'[j] = st /\ canceling'[j] = FALSE
           /\ \A k \in Jobs : k # j => status'[k] = status[k] /\ canceling'[k] = canceling[k]
<1>1. CASE Canceled(j)
  BY <1>1 DEF Update
<1>2. CASE ~Canceled(j)
  BY <1>2, SetRowEffect DEF Update
<1> QED BY <1>1, <1>2

\* _purge_audio takes the upload or the mixdown of one recording.
LEMMA PurgeEffect ==
    ASSUME AudioTypes, NEW j, PurgeAudio(j)
    PROVE  /\ j \in Jobs => /\ source'[j] = (IF j \in Sessions THEN source[j] ELSE "none")
                            /\ mixdown'[j] = FALSE
           /\ \A k \in Jobs : k # j => source'[k] = source[k] /\ mixdown'[k] = mixdown[k]
  BY DEF AudioTypes, PurgeAudio

\* _cleanup_canceled settles a row that is there, and else takes its audio.
LEMMA CleanupEffect ==
    ASSUME RowTypes, AudioTypes, NEW j, NEW stopped, CleanupRow(j, stopped)
    PROVE  /\ Unlocked(j)
           /\ HasRow(j) => UNCHANGED <<source, mixdown>>
           /\ HasRow(j) /\ j \in Jobs => status'[j] = "canceled" /\ canceling'[j] = ~stopped
           /\ ~HasRow(j) => UNCHANGED <<status, canceling>>
           /\ ~HasRow(j) /\ j \in Jobs =>
                 /\ source'[j] = (IF j \in Sessions THEN source[j] ELSE "none")
                 /\ mixdown'[j] = FALSE
           /\ \A k \in Jobs : k # j =>
                 /\ status'[k] = status[k] /\ canceling'[k] = canceling[k]
                 /\ source'[k] = source[k] /\ mixdown'[k] = mixdown[k]
<1>1. CASE HasRow(j)
  BY <1>1, SetRowEffect DEF CleanupRow
<1>2. CASE ~HasRow(j)
  BY <1>2, PurgeEffect DEF CleanupRow
<1> QED BY <1>1, <1>2 DEF CleanupRow

\* Clearing the cancel flag, also in vain, leaves a flag.
LEMMA ClearCancelTypes ==
    ASSUME flag \in [Jobs -> BOOLEAN], NEW j, ClearCancel(j)
    PROVE  flag' \in [Jobs -> BOOLEAN]
  BY DEF ClearCancel, LostCall

\* Setting the cancel flag, also in vain, leaves a flag.
LEMMA RequestCancelTypes ==
    ASSUME flag \in [Jobs -> BOOLEAN], NEW j, RequestCancel(j)
    PROVE  flag' \in [Jobs -> BOOLEAN]
  BY DEF RequestCancel, LostCall

\* A submission keeps the number of entries within its bound.
LEMMA EnqueueTypes ==
    ASSUME rq \in [Jobs -> 0..MaxEntries], NEW j \in Jobs, Enqueue(j)
    PROVE  rq' \in [Jobs -> 0..MaxEntries]
  BY BoundAssumption DEF Enqueue

\* queue.cancel never takes an entry that is not there.
LEMMA DropEntryTypes ==
    ASSUME rq \in [Jobs -> 0..MaxEntries], NEW j \in Jobs, NEW known,
           DropEntry(j, known)
    PROVE  rq' \in [Jobs -> 0..MaxEntries]
<1>1. PICK lost \in LostCall :
        rq' = [rq EXCEPT ![j] = IF known /\ rq[j] > 0 /\ ~lost THEN rq[j] - 1 ELSE rq[j]]
  BY DEF DropEntry
<1>2. CASE known /\ rq[j] > 0 /\ ~lost
  BY <1>1, <1>2, BoundAssumption
<1>3. CASE ~(known /\ rq[j] > 0 /\ ~lost)
  BY <1>1, <1>3
<1> QED BY <1>2, <1>3

\* A handler moves between the places of a handler.
LEMMA GotoTypes ==
    ASSUME api \in [Jobs -> ApiPcs], NEW j, NEW pc \in ApiPcs, Goto(j, pc)
    PROVE  api' \in [Jobs -> ApiPcs]
  BY DEF Goto

\* What TypeOK says of the supervisors.
SupTypes ==
    /\ supPc  \in [Workers -> SupPcs]
    /\ supJob \in [Workers -> Jobs \cup {NoJob}]
    /\ \A w \in Workers : supPc[w] # "idle" => supJob[w] \in Jobs

\* A busy supervisor that moves on keeps its job.
LEMMA SupGotoTypes ==
    ASSUME SupTypes, NEW w \in Workers, supPc[w] # "idle", NEW pc \in SupPcs,
           SupGoto(w, pc)
    PROVE  SupTypes'
  BY DEF SupTypes, SupGoto

\* A supervisor that returns has no job, and is idle.
LEMMA SupReturnTypes ==
    ASSUME SupTypes, NEW w \in Workers, SupReturn(w)
    PROVE  SupTypes'
  BY DEF SupTypes, SupReturn, SupPcs

\* A decoder moves between the places of a decoder.
LEMMA ChildGotoTypes ==
    ASSUME childPc \in [Workers -> ChildPcs], NEW w, NEW pc \in ChildPcs,
           ChildGoto(w, pc)
    PROVE  childPc' \in [Workers -> ChildPcs]
  BY DEF ChildGoto

-----------------------------------------------------------------------------
\* No file, row or process exists before the first request.
LEMMA TypeInit == Init => TypeOK
<1> SUFFICES ASSUME Init PROVE TypeOK
  OBVIOUS
<1> USE DEF Init
<1>1. status \in [Jobs -> Statuses] /\ canceling \in [Jobs -> BOOLEAN]
  BY DEF Statuses
<1>2. rqId \in [Jobs -> BOOLEAN] /\ flag \in [Jobs -> BOOLEAN]
  OBVIOUS
<1>3. rq \in [Jobs -> 0..MaxEntries]
  BY BoundAssumption
<1>4. source \in [Jobs -> Sources] /\ mixdown \in [Jobs -> BOOLEAN]
  BY DEF Sources
<1>5. result \in [Jobs -> BOOLEAN] /\ rqSeen \in BOOLEAN
  OBVIOUS
<1>6. supPc \in [Workers -> SupPcs] /\ childPc \in [Workers -> ChildPcs]
  BY DEF SupPcs, ChildPcs
<1>7. /\ supJob \in [Workers -> Jobs \cup {NoJob}]
      /\ \A w \in Workers : supPc[w] # "idle" => supJob[w] \in Jobs
  OBVIOUS
<1>8. api \in [Jobs -> ApiPcs] /\ pool \in [Jobs -> PoolPcs]
  BY DEF ApiPcs, PoolPcs
<1>9. admin \in [Jobs -> AdminPcs] /\ found \in [Jobs -> {"absent", "queued", "running"}]
  BY DEF AdminPcs
<1> QED
  BY <1>1, <1>2, <1>3, <1>4, <1>5, <1>6, <1>7, <1>8, <1>9 DEF TypeOK

\* Every step of a handler, supervisor or decoder keeps every variable in its
\* type: the queue counts entries that exist, and a busy supervisor has a job.
LEMMA TypeStep == TypeOK /\ [Next]_vars => TypeOK'
<1> SUFFICES ASSUME TypeOK, [Next]_vars PROVE TypeOK'
  OBVIOUS
<1> USE DEF TypeOK, RowTypes, AudioTypes, SupTypes, Statuses, SupPcs, LivePcs,
            ChildPcs, ApiPcs, PoolPcs, AdminPcs, Sources, row, redis, files, sup, web,
            suspension
<1>1. ASSUME NEW j \in Jobs, CreateJob(j) PROVE TypeOK'
  BY <1>1, SetRowTypes, GotoTypes DEF CreateJob
<1>2. ASSUME NEW j \in Jobs, LoopEnqueue(j) PROVE TypeOK'
  BY <1>2, EnqueueTypes, GotoTypes DEF LoopEnqueue
<1>3. ASSUME NEW j \in Jobs, CreateEnqueueFails(j) PROVE TypeOK'
  BY <1>3, GotoTypes DEF CreateEnqueueFails, Return
<1>4. ASSUME NEW j \in Jobs, RetryEnqueueFails(j) PROVE TypeOK'
  BY <1>4, UpdateTypes, GotoTypes DEF RetryEnqueueFails, Return
<1>5. ASSUME NEW j \in Jobs, LoopSetRqId(j) PROVE TypeOK'
  BY <1>5, GotoTypes DEF LoopSetRqId, Return
<1>6. ASSUME NEW j \in Jobs, Retry(j) PROVE TypeOK'
  BY <1>6, SetRowTypes, GotoTypes DEF Retry
<1>7. ASSUME NEW j \in Jobs, RetryUnflag(j) PROVE TypeOK'
  BY <1>7, ClearCancelTypes, GotoTypes DEF RetryUnflag
<1>8. ASSUME NEW j \in Jobs, CancelRead(j) PROVE TypeOK'
  BY <1>8, GotoTypes DEF CancelRead
<1>9. ASSUME NEW j \in Jobs, CancelFlag(j) PROVE TypeOK'
  BY <1>9, RequestCancelTypes, GotoTypes DEF CancelFlag
<1>10. ASSUME NEW j \in Jobs, CancelRow(j) PROVE TypeOK'
  BY <1>10, SetRowTypes, GotoTypes DEF CancelRow, Return, StillRunning
<1>11. ASSUME NEW j \in Jobs, CancelDrop(j) PROVE TypeOK'
  BY <1>11, DropEntryTypes, GotoTypes DEF CancelDrop
<1>12. ASSUME NEW j \in Jobs, CancelReflag(j) PROVE TypeOK'
  BY <1>12, RequestCancelTypes, GotoTypes DEF CancelReflag, Return
<1>13. ASSUME NEW j \in Jobs, DeleteRead(j) PROVE TypeOK'
  BY <1>13, RequestCancelTypes, GotoTypes DEF DeleteRead
<1>14. ASSUME NEW j \in Jobs, DeleteRow(j) PROVE TypeOK'
  BY <1>14, SetRowTypes, GotoTypes DEF DeleteRow
<1>15. ASSUME NEW j \in Jobs, DeleteReflag(j) PROVE TypeOK'
  BY <1>15, RequestCancelTypes, GotoTypes DEF DeleteReflag
<1>16. ASSUME NEW j \in Jobs, DeleteDrop(j) PROVE TypeOK'
  BY <1>16, DropEntryTypes, GotoTypes DEF DeleteDrop
<1>17. ASSUME NEW j \in Jobs, DeleteFiles(j) PROVE TypeOK'
  BY <1>17, PurgeAudioTypes, GotoTypes DEF DeleteFiles, Return, DeleteResult
<1>18. ASSUME NEW j \in Jobs, CreateSession(j) PROVE TypeOK'
  BY <1>18, SetRowTypes DEF CreateSession
<1>19. ASSUME NEW j \in Jobs, AppendClip(j) PROVE TypeOK'
  BY <1>19 DEF AppendClip
<1>20. ASSUME NEW j \in Jobs, RemoveClip(j) PROVE TypeOK'
  BY <1>20 DEF RemoveClip
<1>21. ASSUME NEW j \in Jobs, CloseSession(j) PROVE TypeOK'
  BY <1>21, SetRowTypes DEF CloseSession
<1>22. ASSUME NEW j \in Jobs, CloseLiveOnly(j) PROVE TypeOK'
  BY <1>22, SetRowTypes DEF CloseLiveOnly
<1>23. ASSUME NEW j \in Jobs, CloseEnqueue(j) PROVE TypeOK'
  BY <1>23, EnqueueTypes DEF CloseEnqueue
<1>24. ASSUME NEW j \in Jobs, CloseEnqueueFails(j) PROVE TypeOK'
  BY <1>24, UpdateTypes DEF CloseEnqueueFails
<1>25. ASSUME NEW j \in Jobs, CloseSetRqId(j) PROVE TypeOK'
  BY <1>25 DEF CloseSetRqId
<1>26. ASSUME NEW j \in Jobs, Reopen(j) PROVE TypeOK'
  BY <1>26, SetRowTypes, ClearCancelTypes DEF Reopen, DeleteResult
<1>27. ASSUME NEW j \in Jobs, Sweep(j) PROVE TypeOK'
  BY <1>27, SetRowTypes DEF Sweep, DeleteResult
<1>28. ASSUME NEW w \in Workers, NEW j \in Jobs, SupDequeue(w, j) PROVE TypeOK'
  <2>1. rq' \in [Jobs -> 0..MaxEntries]
    BY <1>28, BoundAssumption DEF SupDequeue
  <2> QED
    BY <1>28, <2>1 DEF SupDequeue
<1>29. ASSUME NEW w \in Workers, SupClaim(w) PROVE TypeOK'
  BY <1>29, SetRowTypes, SupGotoTypes, SupReturnTypes DEF SupClaim
<1>30. ASSUME NEW w \in Workers, SupSpawn(w) PROVE TypeOK'
  BY <1>30, SupGotoTypes DEF SupSpawn
<1>31. ASSUME NEW w \in Workers, SupSpawnFails(w) PROVE TypeOK'
  BY <1>31, SupGotoTypes DEF SupSpawnFails
<1>32. ASSUME NEW w \in Workers, SupReadRow(w) PROVE TypeOK'
  BY <1>32, SupGotoTypes DEF SupReadRow
<1>33. ASSUME NEW w \in Workers, SupReadFlag(w) PROVE TypeOK'
  BY <1>33, SupGotoTypes DEF SupReadFlag
<1>34. ASSUME NEW w \in Workers, SupPoll(w) PROVE TypeOK'
  BY <1>34, SupGotoTypes DEF SupPoll, Reap
<1>35. ASSUME NEW w \in Workers, SupKill(w) PROVE TypeOK'
  BY <1>35, SupGotoTypes DEF SupKill, StopProcess, Reap
<1>36. ASSUME NEW w \in Workers, SupWipe(w) PROVE TypeOK'
  BY <1>36, SupGotoTypes DEF SupWipe, DeleteResult
<1>37. ASSUME NEW w \in Workers, SupUnflag(w) PROVE TypeOK'
  BY <1>37, ClearCancelTypes, SupGotoTypes DEF SupUnflag
<1>38. ASSUME NEW w \in Workers, SupSettle(w) PROVE TypeOK'
  BY <1>38, CleanupRowTypes, SupReturnTypes DEF SupSettle
<1>39. ASSUME NEW w \in Workers, SupFinal(w) PROVE TypeOK'
  BY <1>39, SupGotoTypes, SupReturnTypes DEF SupFinal
<1>40. ASSUME NEW w \in Workers, SupAbort(w) PROVE TypeOK'
  BY <1>40, SupGotoTypes DEF SupAbort, StopProcess, Reap
<1>41. ASSUME NEW w \in Workers, SupFail(w) PROVE TypeOK'
  BY <1>41, UpdateTypes, SupReturnTypes DEF SupFail
<1>42. ASSUME NEW w \in Workers, SupTimeout(w) PROVE TypeOK'
  BY <1>42, SupGotoTypes DEF SupTimeout
<1>43. ASSUME NEW w \in Workers, SupCrash(w) PROVE TypeOK'
  BY <1>43, SupGotoTypes DEF SupCrash
<1>44. ASSUME NEW w \in Workers, SupRestart(w) PROVE TypeOK'
  BY <1>44, SupReturnTypes DEF SupRestart, Reap
<1>45. ASSUME NEW w \in Workers, ChildStart(w) PROVE TypeOK'
  <2>1. CASE ~HasRow(supJob[w])
    BY <1>45, <2>1, PurgeAudioTypes, ClearCancelTypes, ChildGotoTypes
    DEF ChildStart
  <2>2. CASE HasRow(supJob[w])
    <3>1. flag' \in [Jobs -> BOOLEAN]
      BY <1>45, <2>2, ClearCancelTypes DEF ChildStart
    <3>2. childPc' \in [Workers -> ChildPcs]
      BY <1>45, <2>2, ChildGotoTypes DEF ChildStart
    <3>3. UNCHANGED <<row, rq, result, sup, web, source, mixdown>>
      BY <1>45, <2>2 DEF ChildStart
    <3> QED
      BY <3>1, <3>2, <3>3
  <2> QED
    BY <2>1, <2>2
<1>46. ASSUME NEW w \in Workers, ChildBegin(w) PROVE TypeOK'
  BY <1>46, UpdateTypes, ChildGotoTypes DEF ChildBegin
<1>47. ASSUME NEW w \in Workers, ChildAssemble(w) PROVE TypeOK'
  BY <1>47, ChildGotoTypes DEF ChildAssemble
<1>48. ASSUME NEW w \in Workers, ChildDecode(w) PROVE TypeOK'
  BY <1>48, ChildGotoTypes DEF ChildDecode
<1>49. ASSUME NEW w \in Workers, ChildSave(w) PROVE TypeOK'
  BY <1>49, ChildGotoTypes DEF ChildSave
<1>50. ASSUME NEW w \in Workers, ChildDropAudio(w) PROVE TypeOK'
  BY <1>50, ChildGotoTypes DEF ChildDropAudio
<1>51. ASSUME NEW w \in Workers, ChildCommit(w) PROVE TypeOK'
  BY <1>51, UpdateTypes, ChildGotoTypes DEF ChildCommit
<1>52. ASSUME NEW w \in Workers, ChildClear(w) PROVE TypeOK'
  BY <1>52, ClearCancelTypes, ChildGotoTypes DEF ChildClear
<1>53. ASSUME NEW w \in Workers, ChildUndo(w) PROVE TypeOK'
  BY <1>53, ChildGotoTypes DEF ChildUndo, DeleteResult
<1>54. ASSUME NEW w \in Workers, ChildPark(w) PROVE TypeOK'
  <2>1. RowTypes' /\ AudioTypes'
    BY <1>54, CleanupRowTypes DEF ChildPark
  <2>2. childPc' \in [Workers -> ChildPcs]
    BY <1>54, ChildGotoTypes DEF ChildPark
  <2> QED
    BY <1>54, <2>1, <2>2 DEF ChildPark
<1>55. ASSUME NEW w \in Workers, ChildFail(w) PROVE TypeOK'
  BY <1>55, UpdateTypes, ChildGotoTypes DEF ChildFail
<1>56. ASSUME NEW w \in Workers, ChildRaises(w) PROVE TypeOK'
  BY <1>56, ChildGotoTypes DEF ChildRaises
<1>57. ASSUME NEW w \in Workers, ChildDies(w) PROVE TypeOK'
  BY <1>57, ChildGotoTypes DEF ChildDies
<1>58. ASSUME NEW j \in Jobs, SuspendBegin(j) PROVE TypeOK'
  BY <1>58, RequestCancelTypes DEF SuspendBegin
<1>59. ASSUME NEW j \in Jobs, SuspendDrop(j) PROVE TypeOK'
  BY <1>59, DropEntryTypes DEF SuspendDrop
<1>60. ASSUME NEW j \in Jobs, SuspendCommit(j) PROVE TypeOK'
  BY <1>60, SetRowTypes DEF SuspendCommit
<1>61. ASSUME NEW w \in Workers, ChildMix(w) PROVE TypeOK'
  BY <1>61, ChildGotoTypes DEF ChildMix
<1>62. ASSUME NEW w \in Workers, SupTimeoutLate(w) PROVE TypeOK'
  BY <1>62, SupReturnTypes DEF SupTimeoutLate
<1>63. CASE UNCHANGED vars
  BY <1>63 DEF vars
<1>64. QED
  BY <1>1, <1>2, <1>3, <1>4, <1>5, <1>6, <1>7, <1>8, <1>9, <1>10, <1>11,
     <1>12, <1>13, <1>14, <1>15, <1>16, <1>17, <1>18, <1>19, <1>20, <1>21,
     <1>22, <1>23, <1>24, <1>25, <1>26, <1>27, <1>28, <1>29, <1>30, <1>31,
     <1>32, <1>33, <1>34, <1>35, <1>36, <1>37, <1>38, <1>39, <1>40, <1>41,
     <1>42, <1>43, <1>44, <1>45, <1>46, <1>47, <1>48, <1>49, <1>50, <1>51,
     <1>52, <1>53, <1>54, <1>55, <1>56, <1>57, <1>58, <1>59, <1>60, <1>61,
     <1>62, <1>63
  DEF Next, UserStep, LoopStep, PoolStep, CloseStep, SuspendStep, SupStep, ChildStep

\* Type correctness of the pipeline, from no assumption but those of its
\* constants.
THEOREM Typing == Spec => []TypeOK
  BY TypeInit, TypeStep, PTL DEF Spec

-----------------------------------------------------------------------------
\* No write of a recording's status gets between the reading of a suspension
\* and its commit: it is refused the lock, or it is for another status.
LEMMA SuspensionStep ==
    TypeOK /\ SuspensionHolds /\ [Next]_vars => SuspensionHolds'
<1> SUFFICES ASSUME TypeOK, SuspensionHolds, [Next]_vars PROVE SuspensionHolds'
  OBVIOUS
<1> USE DEF TypeOK, SuspensionHolds, row, redis, files, sup, web, suspension
<1>1. CASE UNCHANGED vars
  BY <1>1 DEF vars
<1>2. ASSUME NEW j \in Jobs, UserStep(j) PROVE SuspensionHolds'
  BY <1>2
  DEF UserStep, CreateJob, Retry, CancelRead, DeleteRead, CreateSession, AppendClip,
      RemoveClip, CloseSession, CloseLiveOnly, Reopen, Sweep, SuspendBegin, SetRow,
      AtRest, Unlocked
<1>3. ASSUME NEW j \in Jobs, LoopStep(j) PROVE SuspensionHolds'
  BY <1>3
  DEF LoopStep, LoopEnqueue, LoopSetRqId, RetryUnflag, CreateEnqueueFails,
      RetryEnqueueFails, CancelFlag, CancelRow, CancelDrop, CancelReflag, DeleteRow,
      DeleteReflag, DeleteDrop, DeleteFiles, Update, SetRow, Unlocked
<1>4. ASSUME NEW j \in Jobs, PoolStep(j) PROVE SuspensionHolds'
  BY <1>4
  DEF PoolStep, CloseStep, CloseEnqueue, CloseEnqueueFails, CloseSetRqId, SuspendStep,
      SuspendDrop, SuspendCommit, Update, SetRow, Unlocked
<1>5. ASSUME NEW w \in Workers,
             \/ SupStep(w) \/ SupSpawnFails(w) \/ SupTimeout(w) \/ SupTimeoutLate(w)
             \/ SupCrash(w) \/ SupRestart(w) \/ \E j \in Jobs : SupDequeue(w, j)
      PROVE  SuspensionHolds'
  BY <1>5
  DEF SupStep, SupSpawnFails, SupTimeout, SupTimeoutLate, SupReturn, SupCrash, SupRestart,
      SupDequeue, SupClaim, SupSpawn, SupReadRow, SupReadFlag, SupPoll, SupKill, SupWipe, SupUnflag, SupSettle,
      SupFinal, SupAbort, SupFail, Update, CleanupRow, SetRow, Unlocked
<1>6. ASSUME NEW w \in Workers, ChildStep(w) \/ ChildRaises(w) \/ ChildDies(w)
      PROVE  SuspensionHolds'
  BY <1>6
  DEF ChildStep, ChildRaises, ChildDies, ChildStart, ChildBegin, ChildAssemble,
      ChildMix, ChildDecode, ChildSave, ChildDropAudio, ChildCommit, ChildClear, ChildUndo,
      ChildPark, ChildFail, Update, CleanupRow, SetRow, Unlocked
<1> QED
  BY <1>1, <1>2, <1>3, <1>4, <1>5, <1>6 DEF Next

\* set_status stops the recording that it has read: nobody claims, finishes or
\* deletes it while the entry and the flag are dealt with.
THEOREM SuspensionIsAtomic == Spec => []SuspensionHolds
<1>1. Init => SuspensionHolds
  BY DEF Init, SuspensionHolds
<1> QED
  BY <1>1, SuspensionStep, Typing, PTL DEF Spec
=============================================================================
