-------------------------- MODULE PipelineRevival ---------------------------
(***************************************************************************)
(* No step of a worker revives a canceled recording.  Every write of a     *)
(* worker is guarded by the status it finds; the one write that is not is  *)
(* create_job's when the first enqueue fails, and it is harmless unless    *)
(* the account has been suspended meanwhile: nobody else can have touched  *)
(* the recording by then.                                                  *)
(* And no step takes the audio of an upload that still has its row.        *)
(***************************************************************************)
EXTENDS PipelineTypes

\* Before its row exists a recording has no entry, no handler, no worker.
AbsentIsUntouched ==
    \A j \in Jobs : status[j] = "absent" =>
        /\ rq[j] = 0 /\ api[j] = "idle" /\ pool[j] = "idle"
        /\ \A w \in Workers : supJob[w] # j

\* Until create_job has enqueued it, an upload is QUEUED (or was swept, or was
\* stopped by a suspension), and no worker knows it.
FreshIsUntouched ==
    \A j \in Jobs : api[j] = "createEnqueue" =>
        /\ j \notin Sessions
        /\ \/ status[j] \in {"queued", "deleted"}
           \/ status[j] = "canceled" /\ "suspend" \in Ops
        /\ rq[j] = 0
        /\ \A w \in Workers : supJob[w] # j

OnlySessionsClose == \A j \in Jobs : pool[j] # "idle" => j \in Sessions

SuspendersSuspend == \A j \in Jobs : admin[j] # "idle" => "suspend" \in Ops

FreshInv == /\ AbsentIsUntouched /\ FreshIsUntouched
            /\ OnlySessionsClose /\ SuspendersSuspend

\* create_job's unguarded FAILED, when its enqueue fails, meets no suspension.
NoBlindFailure == ~("suspend" \in Ops /\ "enqueue" \in Faults)

\* Nothing has been touched before the first request.
LEMMA FreshInit == Init => FreshInv
  BY JobsAssumption
  DEF Init, FreshInv, AbsentIsUntouched, FreshIsUntouched, OnlySessionsClose,
      SuspendersSuspend

\* Whatever happens, a recording is not touched before create_job enqueues it.
LEMMA FreshStep == TypeOK /\ FreshInv /\ [Next]_vars => FreshInv'
<1> SUFFICES ASSUME TypeOK, FreshInv, [Next]_vars PROVE FreshInv'
  OBVIOUS
<1> USE JobsAssumption
        DEF TypeOK, FreshInv, AbsentIsUntouched, FreshIsUntouched,
            OnlySessionsClose, SuspendersSuspend, row, redis, files, sup, web,
            suspension
<1>1. ASSUME NEW j \in Jobs, CreateJob(j) PROVE FreshInv'
  BY <1>1 DEF CreateJob, SetRow, Goto, LoopIdle
<1>2. ASSUME NEW j \in Jobs, LoopEnqueue(j) PROVE FreshInv'
  BY <1>2 DEF LoopEnqueue, Goto, Enqueue
<1>3. ASSUME NEW j \in Jobs, CreateEnqueueFails(j) PROVE FreshInv'
  BY <1>3 DEF CreateEnqueueFails, HasRow, Return, Goto
<1>4. ASSUME NEW j \in Jobs, RetryEnqueueFails(j) PROVE FreshInv'
  BY <1>4 DEF RetryEnqueueFails, Update, SetRow, Canceled, HasRow, Return, Goto
<1>5. ASSUME NEW j \in Jobs, LoopSetRqId(j) PROVE FreshInv'
  BY <1>5 DEF LoopSetRqId, HasRow, Return, Goto
<1>6. ASSUME NEW j \in Jobs, Retry(j) PROVE FreshInv'
  BY <1>6 DEF Retry, SetRow, AtRest, SourceExists, Goto, LoopIdle
<1>7. ASSUME NEW j \in Jobs, RetryUnflag(j) PROVE FreshInv'
  BY <1>7 DEF RetryUnflag, Goto
<1>8. ASSUME NEW j \in Jobs, CancelRead(j) PROVE FreshInv'
  BY <1>8 DEF CancelRead, Goto, LoopIdle
<1>9. ASSUME NEW j \in Jobs, CancelFlag(j) PROVE FreshInv'
  BY <1>9 DEF CancelFlag, Goto
<1>10. ASSUME NEW j \in Jobs, CancelRow(j) PROVE FreshInv'
  BY <1>10 DEF CancelRow, SetRow, Goto, Return, StillRunning
<1>11. ASSUME NEW j \in Jobs, CancelDrop(j) PROVE FreshInv'
  BY <1>11 DEF CancelDrop, Goto, DropEntry
<1>12. ASSUME NEW j \in Jobs, CancelReflag(j) PROVE FreshInv'
  BY <1>12 DEF CancelReflag, Return, Goto
<1>13. ASSUME NEW j \in Jobs, DeleteRead(j) PROVE FreshInv'
  BY <1>13 DEF DeleteRead, HasRow, Goto, LoopIdle
<1>14. ASSUME NEW j \in Jobs, DeleteRow(j) PROVE FreshInv'
  BY <1>14 DEF DeleteRow, SetRow, Goto
<1>15. ASSUME NEW j \in Jobs, DeleteReflag(j) PROVE FreshInv'
  BY <1>15 DEF DeleteReflag, Goto
<1>16. ASSUME NEW j \in Jobs, DeleteDrop(j) PROVE FreshInv'
  BY <1>16 DEF DeleteDrop, Goto, DropEntry
<1>17. ASSUME NEW j \in Jobs, DeleteFiles(j) PROVE FreshInv'
  BY <1>17 DEF DeleteFiles, PurgeAudio, Return, Goto
<1>18. ASSUME NEW j \in Jobs, CreateSession(j) PROVE FreshInv'
  BY <1>18 DEF CreateSession, SetRow
<1>19. ASSUME NEW j \in Jobs, AppendClip(j) PROVE FreshInv'
  BY <1>19 DEF AppendClip
<1>20. ASSUME NEW j \in Jobs, RemoveClip(j) PROVE FreshInv'
  BY <1>20 DEF RemoveClip
<1>21. ASSUME NEW j \in Jobs, CloseSession(j) PROVE FreshInv'
  BY <1>21 DEF CloseSession, SetRow, SourceExists
<1>22. ASSUME NEW j \in Jobs, CloseLiveOnly(j) PROVE FreshInv'
  BY <1>22 DEF CloseLiveOnly, SetRow
<1>23. ASSUME NEW j \in Jobs, CloseEnqueue(j) PROVE FreshInv'
  BY <1>23 DEF CloseEnqueue, Enqueue
<1>24. ASSUME NEW j \in Jobs, CloseEnqueueFails(j) PROVE FreshInv'
  BY <1>24 DEF CloseEnqueueFails, Update, SetRow, Canceled, HasRow
<1>25. ASSUME NEW j \in Jobs, CloseSetRqId(j) PROVE FreshInv'
  BY <1>25 DEF CloseSetRqId, HasRow
<1>26. ASSUME NEW j \in Jobs, Reopen(j) PROVE FreshInv'
  BY <1>26 DEF Reopen, SetRow, AtRest
<1>27. ASSUME NEW j \in Jobs, Sweep(j) PROVE FreshInv'
  BY <1>27 DEF Sweep, SetRow, HasRow
<1>28. ASSUME NEW w \in Workers, NEW j \in Jobs, SupDequeue(w, j) PROVE FreshInv'
  BY <1>28 DEF SupDequeue
<1>29. ASSUME NEW w \in Workers, SupClaim(w) PROVE FreshInv'
  BY <1>29 DEF SupClaim, SetRow, SupGoto, SupReturn, Claimable
<1>30. ASSUME NEW w \in Workers, SupSpawn(w) PROVE FreshInv'
  BY <1>30 DEF SupSpawn, SupGoto
<1>31. ASSUME NEW w \in Workers, SupSpawnFails(w) PROVE FreshInv'
  BY <1>31 DEF SupSpawnFails, SupGoto
<1>32. ASSUME NEW w \in Workers, SupReadRow(w) PROVE FreshInv'
  BY <1>32 DEF SupReadRow, Canceled, HasRow, SupGoto
<1>33. ASSUME NEW w \in Workers, SupReadFlag(w) PROVE FreshInv'
  BY <1>33 DEF SupReadFlag, SupGoto
<1>34. ASSUME NEW w \in Workers, SupPoll(w) PROVE FreshInv'
  BY <1>34 DEF SupPoll, SupGoto, Reap
<1>35. ASSUME NEW w \in Workers, SupKill(w) PROVE FreshInv'
  BY <1>35 DEF SupKill, SupGoto, StopProcess, Reap
<1>36. ASSUME NEW w \in Workers, SupWipe(w) PROVE FreshInv'
  BY <1>36 DEF SupWipe, SupGoto
<1>37. ASSUME NEW w \in Workers, SupUnflag(w) PROVE FreshInv'
  BY <1>37 DEF SupUnflag, SupGoto
<1>38. ASSUME NEW w \in Workers, SupSettle(w) PROVE FreshInv'
  BY <1>38 DEF SupSettle, CleanupRow, SetRow, PurgeAudio, HasRow, SupReturn
<1>39. ASSUME NEW w \in Workers, SupFinal(w) PROVE FreshInv'
  BY <1>39 DEF SupFinal, Canceled, HasRow, SupGoto, SupReturn
<1>40. ASSUME NEW w \in Workers, SupAbort(w) PROVE FreshInv'
  BY <1>40 DEF SupAbort, SupGoto, StopProcess, Reap
<1>41. ASSUME NEW w \in Workers, SupFail(w) PROVE FreshInv'
  BY <1>41 DEF SupFail, Update, SetRow, Canceled, HasRow, SupReturn
<1>42. ASSUME NEW w \in Workers, SupTimeout(w) \/ SupTimeoutLate(w) PROVE FreshInv'
  BY <1>42 DEF SupTimeout, SupTimeoutLate, SupGoto, SupReturn
<1>43. ASSUME NEW w \in Workers, SupCrash(w) PROVE FreshInv'
  BY <1>43 DEF SupCrash, SupGoto
<1>44. ASSUME NEW w \in Workers, SupRestart(w) PROVE FreshInv'
  BY <1>44 DEF SupRestart, SupReturn, Reap
<1>45. ASSUME NEW w \in Workers, ChildStart(w) PROVE FreshInv'
  BY <1>45 DEF ChildStart, PurgeAudio, HasRow, ChildGoto
<1>46. ASSUME NEW w \in Workers, ChildBegin(w) PROVE FreshInv'
  BY <1>46 DEF ChildBegin, Update, SetRow, Canceled, HasRow, ChildGoto
<1>47. ASSUME NEW w \in Workers, ChildAssemble(w) \/ ChildMix(w) PROVE FreshInv'
  BY <1>47 DEF ChildAssemble, ChildMix, ChildGoto
<1>48. ASSUME NEW w \in Workers, ChildDecode(w) PROVE FreshInv'
  BY <1>48 DEF ChildDecode, Canceled, HasRow, ChildGoto
<1>49. ASSUME NEW w \in Workers, ChildSave(w) PROVE FreshInv'
  BY <1>49 DEF ChildSave, ChildGoto
<1>50. ASSUME NEW w \in Workers, ChildDropAudio(w) PROVE FreshInv'
  BY <1>50 DEF ChildDropAudio, ChildGoto
<1>51. ASSUME NEW w \in Workers, ChildCommit(w) PROVE FreshInv'
  BY <1>51 DEF ChildCommit, Update, SetRow, Canceled, HasRow, ChildGoto
<1>52. ASSUME NEW w \in Workers, ChildClear(w) PROVE FreshInv'
  BY <1>52 DEF ChildClear, ChildGoto
<1>53. ASSUME NEW w \in Workers, ChildUndo(w) PROVE FreshInv'
  BY <1>53 DEF ChildUndo, ChildGoto
<1>54. ASSUME NEW w \in Workers, ChildPark(w) PROVE FreshInv'
  BY <1>54 DEF ChildPark, CleanupRow, SetRow, PurgeAudio, HasRow, ChildGoto
<1>55. ASSUME NEW w \in Workers, ChildFail(w) PROVE FreshInv'
  BY <1>55 DEF ChildFail, Update, SetRow, Canceled, HasRow, ChildGoto
<1>56. ASSUME NEW w \in Workers, ChildRaises(w) PROVE FreshInv'
  BY <1>56 DEF ChildRaises, ChildGoto
<1>57. ASSUME NEW w \in Workers, ChildDies(w) PROVE FreshInv'
  BY <1>57 DEF ChildDies, ChildGoto
<1>58. ASSUME NEW j \in Jobs, SuspendBegin(j) PROVE FreshInv'
  BY <1>58 DEF SuspendBegin
<1>59. ASSUME NEW j \in Jobs, SuspendDrop(j) PROVE FreshInv'
  BY <1>59 DEF SuspendDrop, DropEntry
<1>60. ASSUME NEW j \in Jobs, SuspendCommit(j) PROVE FreshInv'
  BY <1>60 DEF SuspendCommit, SetRow
<1>61. CASE UNCHANGED vars
  BY <1>61 DEF vars
<1>62. QED
  BY <1>1, <1>2, <1>3, <1>4, <1>5, <1>6, <1>7, <1>8, <1>9, <1>10, <1>11,
     <1>12, <1>13, <1>14, <1>15, <1>16, <1>17, <1>18, <1>19, <1>20, <1>21,
     <1>22, <1>23, <1>24, <1>25, <1>26, <1>27, <1>28, <1>29, <1>30, <1>31,
     <1>32, <1>33, <1>34, <1>35, <1>36, <1>37, <1>38, <1>39, <1>40, <1>41,
     <1>42, <1>43, <1>44, <1>45, <1>46, <1>47, <1>48, <1>49, <1>50, <1>51,
     <1>52, <1>53, <1>54, <1>55, <1>56, <1>57, <1>58, <1>59, <1>60, <1>61
  DEF Next, UserStep, LoopStep, PoolStep, CloseStep, SuspendStep, SupStep, ChildStep

\* From such a state no step takes a canceled recording anywhere but to its
\* end, and only retry and reopen, after the confirmed stop, take it further.
LEMMA RevivalStep ==
    ASSUME NoBlindFailure
    PROVE  TypeOK /\ FreshInv /\ [Next]_vars => OnlyUserRevives
<1> SUFFICES ASSUME TypeOK, FreshInv, [Next]_vars PROVE OnlyUserRevives
  OBVIOUS
<1> USE DEF TypeOK, FreshInv, FreshIsUntouched, OnlyUserRevives, row, redis,
            files, sup, web, suspension
<1>1. ASSUME NEW j \in Jobs, CreateJob(j) PROVE OnlyUserRevives
  BY <1>1 DEF CreateJob, SetRow
<1>2. ASSUME NEW j \in Jobs, LoopEnqueue(j) PROVE OnlyUserRevives
  BY <1>2 DEF LoopEnqueue
<1>3. ASSUME NEW j \in Jobs, CreateEnqueueFails(j) PROVE OnlyUserRevives
  BY <1>3 DEF CreateEnqueueFails, HasRow, NoBlindFailure
<1>4. ASSUME NEW j \in Jobs, RetryEnqueueFails(j) PROVE OnlyUserRevives
  BY <1>4 DEF RetryEnqueueFails, Update, SetRow, Canceled, HasRow
<1>5. ASSUME NEW j \in Jobs, LoopSetRqId(j) PROVE OnlyUserRevives
  BY <1>5 DEF LoopSetRqId, HasRow
<1>6. ASSUME NEW j \in Jobs, Retry(j) PROVE OnlyUserRevives
  BY <1>6 DEF Retry, SetRow, AtRest
<1>7. ASSUME NEW j \in Jobs, RetryUnflag(j) PROVE OnlyUserRevives
  BY <1>7 DEF RetryUnflag
<1>8. ASSUME NEW j \in Jobs, CancelRead(j) PROVE OnlyUserRevives
  BY <1>8 DEF CancelRead
<1>9. ASSUME NEW j \in Jobs, CancelFlag(j) PROVE OnlyUserRevives
  BY <1>9 DEF CancelFlag
<1>10. ASSUME NEW j \in Jobs, CancelRow(j) PROVE OnlyUserRevives
  BY <1>10 DEF CancelRow, SetRow
<1>11. ASSUME NEW j \in Jobs, CancelDrop(j) PROVE OnlyUserRevives
  BY <1>11 DEF CancelDrop
<1>12. ASSUME NEW j \in Jobs, CancelReflag(j) PROVE OnlyUserRevives
  BY <1>12 DEF CancelReflag
<1>13. ASSUME NEW j \in Jobs, DeleteRead(j) PROVE OnlyUserRevives
  BY <1>13 DEF DeleteRead, HasRow
<1>14. ASSUME NEW j \in Jobs, DeleteRow(j) PROVE OnlyUserRevives
  BY <1>14 DEF DeleteRow, SetRow
<1>15. ASSUME NEW j \in Jobs, DeleteReflag(j) PROVE OnlyUserRevives
  BY <1>15 DEF DeleteReflag
<1>16. ASSUME NEW j \in Jobs, DeleteDrop(j) PROVE OnlyUserRevives
  BY <1>16 DEF DeleteDrop
<1>17. ASSUME NEW j \in Jobs, DeleteFiles(j) PROVE OnlyUserRevives
  BY <1>17 DEF DeleteFiles
<1>18. ASSUME NEW j \in Jobs, CreateSession(j) PROVE OnlyUserRevives
  BY <1>18 DEF CreateSession, SetRow
<1>19. ASSUME NEW j \in Jobs, AppendClip(j) PROVE OnlyUserRevives
  BY <1>19 DEF AppendClip
<1>20. ASSUME NEW j \in Jobs, RemoveClip(j) PROVE OnlyUserRevives
  BY <1>20 DEF RemoveClip
<1>21. ASSUME NEW j \in Jobs, CloseSession(j) PROVE OnlyUserRevives
  BY <1>21 DEF CloseSession, SetRow
<1>22. ASSUME NEW j \in Jobs, CloseLiveOnly(j) PROVE OnlyUserRevives
  BY <1>22 DEF CloseLiveOnly, SetRow
<1>23. ASSUME NEW j \in Jobs, CloseEnqueue(j) PROVE OnlyUserRevives
  BY <1>23 DEF CloseEnqueue
<1>24. ASSUME NEW j \in Jobs, CloseEnqueueFails(j) PROVE OnlyUserRevives
  BY <1>24 DEF CloseEnqueueFails, Update, SetRow, Canceled, HasRow
<1>25. ASSUME NEW j \in Jobs, CloseSetRqId(j) PROVE OnlyUserRevives
  BY <1>25 DEF CloseSetRqId, HasRow
<1>26. ASSUME NEW j \in Jobs, Reopen(j) PROVE OnlyUserRevives
  BY <1>26 DEF Reopen, SetRow, AtRest
<1>27. ASSUME NEW j \in Jobs, Sweep(j) PROVE OnlyUserRevives
  BY <1>27 DEF Sweep, SetRow, HasRow
<1>28. ASSUME NEW w \in Workers, NEW j \in Jobs, SupDequeue(w, j) PROVE OnlyUserRevives
  BY <1>28 DEF SupDequeue
<1>29. ASSUME NEW w \in Workers, SupClaim(w) PROVE OnlyUserRevives
  BY <1>29 DEF SupClaim, SetRow, Claimable
<1>30. ASSUME NEW w \in Workers, SupSpawn(w) PROVE OnlyUserRevives
  BY <1>30 DEF SupSpawn
<1>31. ASSUME NEW w \in Workers, SupSpawnFails(w) PROVE OnlyUserRevives
  BY <1>31 DEF SupSpawnFails
<1>32. ASSUME NEW w \in Workers, SupReadRow(w) PROVE OnlyUserRevives
  BY <1>32 DEF SupReadRow, Canceled, HasRow
<1>33. ASSUME NEW w \in Workers, SupReadFlag(w) PROVE OnlyUserRevives
  BY <1>33 DEF SupReadFlag
<1>34. ASSUME NEW w \in Workers, SupPoll(w) PROVE OnlyUserRevives
  BY <1>34 DEF SupPoll
<1>35. ASSUME NEW w \in Workers, SupKill(w) PROVE OnlyUserRevives
  BY <1>35 DEF SupKill
<1>36. ASSUME NEW w \in Workers, SupWipe(w) PROVE OnlyUserRevives
  BY <1>36 DEF SupWipe
<1>37. ASSUME NEW w \in Workers, SupUnflag(w) PROVE OnlyUserRevives
  BY <1>37 DEF SupUnflag
<1>38. ASSUME NEW w \in Workers, SupSettle(w) PROVE OnlyUserRevives
  BY <1>38 DEF SupSettle, CleanupRow, SetRow, HasRow
<1>39. ASSUME NEW w \in Workers, SupFinal(w) PROVE OnlyUserRevives
  BY <1>39 DEF SupFinal, Canceled, HasRow
<1>40. ASSUME NEW w \in Workers, SupAbort(w) PROVE OnlyUserRevives
  BY <1>40 DEF SupAbort
<1>41. ASSUME NEW w \in Workers, SupFail(w) PROVE OnlyUserRevives
  BY <1>41 DEF SupFail, Update, SetRow, Canceled, HasRow
<1>42. ASSUME NEW w \in Workers, SupTimeout(w) \/ SupTimeoutLate(w) PROVE OnlyUserRevives
  BY <1>42 DEF SupTimeout, SupTimeoutLate
<1>43. ASSUME NEW w \in Workers, SupCrash(w) PROVE OnlyUserRevives
  BY <1>43 DEF SupCrash
<1>44. ASSUME NEW w \in Workers, SupRestart(w) PROVE OnlyUserRevives
  BY <1>44 DEF SupRestart
<1>45. ASSUME NEW w \in Workers, ChildStart(w) PROVE OnlyUserRevives
  BY <1>45 DEF ChildStart, HasRow
<1>46. ASSUME NEW w \in Workers, ChildBegin(w) PROVE OnlyUserRevives
  BY <1>46 DEF ChildBegin, Update, SetRow, Canceled, HasRow
<1>47. ASSUME NEW w \in Workers, ChildAssemble(w) \/ ChildMix(w) PROVE OnlyUserRevives
  BY <1>47 DEF ChildAssemble, ChildMix
<1>48. ASSUME NEW w \in Workers, ChildDecode(w) PROVE OnlyUserRevives
  BY <1>48 DEF ChildDecode, Canceled, HasRow
<1>49. ASSUME NEW w \in Workers, ChildSave(w) PROVE OnlyUserRevives
  BY <1>49 DEF ChildSave
<1>50. ASSUME NEW w \in Workers, ChildDropAudio(w) PROVE OnlyUserRevives
  BY <1>50 DEF ChildDropAudio
<1>51. ASSUME NEW w \in Workers, ChildCommit(w) PROVE OnlyUserRevives
  BY <1>51 DEF ChildCommit, Update, SetRow, Canceled, HasRow
<1>52. ASSUME NEW w \in Workers, ChildClear(w) PROVE OnlyUserRevives
  BY <1>52 DEF ChildClear
<1>53. ASSUME NEW w \in Workers, ChildUndo(w) PROVE OnlyUserRevives
  BY <1>53 DEF ChildUndo
<1>54. ASSUME NEW w \in Workers, ChildPark(w) PROVE OnlyUserRevives
  BY <1>54 DEF ChildPark, CleanupRow, SetRow, HasRow
<1>55. ASSUME NEW w \in Workers, ChildFail(w) PROVE OnlyUserRevives
  BY <1>55 DEF ChildFail, Update, SetRow, Canceled, HasRow
<1>56. ASSUME NEW w \in Workers, ChildRaises(w) PROVE OnlyUserRevives
  BY <1>56 DEF ChildRaises
<1>57. ASSUME NEW w \in Workers, ChildDies(w) PROVE OnlyUserRevives
  BY <1>57 DEF ChildDies
<1>58. ASSUME NEW j \in Jobs, SuspendBegin(j) PROVE OnlyUserRevives
  BY <1>58 DEF SuspendBegin
<1>59. ASSUME NEW j \in Jobs, SuspendDrop(j) PROVE OnlyUserRevives
  BY <1>59 DEF SuspendDrop, DropEntry
<1>60. ASSUME NEW j \in Jobs, SuspendCommit(j) PROVE OnlyUserRevives
  BY <1>60 DEF SuspendCommit, SetRow
<1>61. CASE UNCHANGED vars
  BY <1>61 DEF vars
<1>62. QED
  BY <1>1, <1>2, <1>3, <1>4, <1>5, <1>6, <1>7, <1>8, <1>9, <1>10, <1>11,
     <1>12, <1>13, <1>14, <1>15, <1>16, <1>17, <1>18, <1>19, <1>20, <1>21,
     <1>22, <1>23, <1>24, <1>25, <1>26, <1>27, <1>28, <1>29, <1>30, <1>31,
     <1>32, <1>33, <1>34, <1>35, <1>36, <1>37, <1>38, <1>39, <1>40, <1>41,
     <1>42, <1>43, <1>44, <1>45, <1>46, <1>47, <1>48, <1>49, <1>50, <1>51,
     <1>52, <1>53, <1>54, <1>55, <1>56, <1>57, <1>58, <1>59, <1>60, <1>61
  DEF Next, UserStep, LoopStep, PoolStep, CloseStep, SuspendStep, SupStep, ChildStep

\* A canceled recording is revived by nobody but its user, with failing
\* children, timeouts, crashes and a failing Redis, unless a refused first
\* enqueue can meet a suspension of the account.
THEOREM Revival ==
    ASSUME NoBlindFailure
    PROVE  Spec => NoRevival
<1>1. FreshInv /\ TypeOK /\ [Next]_vars => [OnlyUserRevives]_vars
  BY RevivalStep
<1>2. QED
  BY <1>1, FreshInit, FreshStep, Typing, PTL DEF Spec, NoRevival

-----------------------------------------------------------------------------
\* Unless the service drops the audio after a transcription, an upload keeps
\* it; the handler that unlinks it has deleted the row before.
AudioInv ==
    /\ SourceKept
    /\ \A j \in Jobs :
           api[j] \in {"deleteReflag", "deleteDrop", "deleteFiles"} => status[j] = "deleted"
    /\ \A w \in Workers : childPc[w] # "drop"

\* There is no audio to lose before the first request.
LEMMA AudioInit == Init => AudioInv
BY JobsAssumption DEF Init, AudioInv, SourceKept, HasRow

\* Every step preserves the invariant: _purge_audio is called for recordings
\* without a row, and a deleted row never comes back.
LEMMA AudioStep ==
    ASSUME ~DeleteAudio
    PROVE  TypeOK /\ SuspensionHolds /\ AudioInv /\ [Next]_vars => AudioInv'
<1> SUFFICES ASSUME TypeOK, SuspensionHolds, AudioInv, [Next]_vars PROVE AudioInv'
  OBVIOUS
<1> USE DEF row, redis, files, sup, web, suspension
<1>1. CASE UNCHANGED vars
  BY <1>1 DEF vars, AudioInv, SourceKept, HasRow
<1>2. ASSUME NEW j \in Jobs, UserStep(j) PROVE AudioInv'
  <2>1. /\ \A k \in Jobs : status[k] = "deleted" => status'[k] = "deleted"
        /\ UNCHANGED childPc
    BY <1>2 DEF UserStep, CreateJob, Retry, CancelRead, DeleteRead, CreateSession,
                AppendClip, RemoveClip, CloseSession, CloseLiveOnly, Reopen, Sweep, SuspendBegin,
                SetRow, AtRest, TypeOK
  <2>2. \A k \in Jobs : api'[k] \in {"deleteReflag", "deleteDrop", "deleteFiles"}
                          => api'[k] = api[k]
    BY <1>2 DEF UserStep, CreateJob, Retry, CancelRead, DeleteRead, CreateSession,
                AppendClip, RemoveClip, CloseSession, CloseLiveOnly, Reopen, Sweep, SuspendBegin,
                Goto, TypeOK
  <2>3. SourceKept'
    BY <1>2, JobsAssumption
    DEF UserStep, CreateJob, Retry, CancelRead, DeleteRead, CreateSession, AppendClip,
        RemoveClip, CloseSession, CloseLiveOnly, Reopen, Sweep, SuspendBegin, SetRow,
        AtRest, HasRow, TypeOK, AudioInv, SourceKept
  <2> QED
    BY <2>1, <2>2, <2>3 DEF AudioInv
<1>3. ASSUME NEW j \in Jobs, LoopStep(j) \/ PoolStep(j) PROVE AudioInv'
  <2>1. /\ \A k \in Jobs : status[k] \in {"absent", "deleted"}
                             => status'[k] \in {status[k], "deleted"}
        /\ UNCHANGED childPc
    BY <1>3
    DEF LoopStep, LoopEnqueue, LoopSetRqId, RetryUnflag, CreateEnqueueFails,
        RetryEnqueueFails, CancelFlag, CancelRow, CancelDrop, CancelReflag, DeleteRow,
        DeleteReflag, DeleteDrop, DeleteFiles, PoolStep, CloseStep, CloseEnqueue,
        CloseEnqueueFails, CloseSetRqId, SuspendStep, SuspendDrop, SuspendCommit, Update,
        SetRow, Canceled, HasRow, TypeOK, SuspensionHolds
  <2>2. \A k \in Jobs : api'[k] \in {"deleteReflag", "deleteDrop", "deleteFiles"}
          => \/ api[k] \in {"deleteReflag", "deleteDrop", "deleteFiles"}
             \/ status'[k] = "deleted"
    BY <1>3
    DEF LoopStep, LoopEnqueue, LoopSetRqId, RetryUnflag, CreateEnqueueFails,
        RetryEnqueueFails, CancelFlag, CancelRow, CancelDrop, CancelReflag, DeleteRow,
        DeleteReflag, DeleteDrop, DeleteFiles, PoolStep, CloseStep, CloseEnqueue,
        CloseEnqueueFails, CloseSetRqId, SuspendStep, SuspendDrop, SuspendCommit, SetRow, Return, Goto, TypeOK
  <2>3. \A k \in Jobs \ Sessions : HasRow(k) => source'[k] = source[k]
    <3>1. CASE DeleteFiles(j)
      <4>1. ~HasRow(j)
        BY <3>1 DEF DeleteFiles, AudioInv, HasRow
      <4>2. \A k \in Jobs : k # j => source'[k] = source[k]
        BY <3>1 DEF DeleteFiles, PurgeAudio, TypeOK
      <4> QED BY <4>1, <4>2
    <3>2. CASE LoopStep(j) /\ ~DeleteFiles(j)
      <4>1. CASE DeleteRow(j)
        BY <4>1 DEF DeleteRow, TypeOK
      <4>2. CASE ~DeleteRow(j)
        BY <3>2, <4>2
        DEF LoopStep, LoopEnqueue, LoopSetRqId, RetryUnflag, CreateEnqueueFails,
            RetryEnqueueFails, CancelFlag, CancelRow, CancelDrop, CancelReflag,
            DeleteReflag, DeleteDrop
      <4> QED BY <4>1, <4>2
    <3>3. CASE PoolStep(j)
      BY <3>3
      DEF PoolStep, CloseStep, CloseEnqueue, CloseEnqueueFails, CloseSetRqId, SuspendStep,
          SuspendDrop, SuspendCommit
    <3> QED BY <1>3, <3>1, <3>2, <3>3
  <2> QED
    BY <2>1, <2>2, <2>3 DEF AudioInv, SourceKept, HasRow
<1>4. ASSUME NEW w \in Workers,
             \/ SupStep(w) \/ SupSpawnFails(w) \/ SupTimeout(w) \/ SupTimeoutLate(w)
             \/ SupCrash(w) \/ SupRestart(w) \/ \E j \in Jobs : SupDequeue(w, j)
      PROVE  AudioInv'
  <2>1. /\ \A k \in Jobs : status[k] \in {"absent", "deleted"} => status'[k] = status[k]
        /\ UNCHANGED api
    BY <1>4
    DEF SupStep, SupSpawnFails, SupTimeout, SupTimeoutLate, SupReturn, SupCrash,
        SupRestart, SupDequeue, SupClaim, SupSpawn, SupReadRow, SupReadFlag, SupPoll,
        SupKill, SupWipe, SupUnflag,
        SupSettle, SupFinal, SupAbort, SupFail, Claimable, Update, CleanupRow, SetRow,
        Canceled, HasRow, TypeOK
  <2>2. \A v \in Workers : childPc'[v] # "drop"
    BY <1>4
    DEF SupStep, SupSpawnFails, SupTimeout, SupTimeoutLate, SupReturn, SupCrash,
        SupRestart, SupDequeue, SupClaim, SupSpawn, SupReadRow, SupReadFlag, SupPoll,
        SupKill, SupWipe, SupUnflag,
        SupSettle, SupFinal, SupAbort, SupFail, StopProcess, Reap, AudioInv, TypeOK
  <2>3. \A k \in Jobs : HasRow(k) => source'[k] = source[k]
    BY <1>4
    DEF SupStep, SupSpawnFails, SupTimeout, SupTimeoutLate, SupReturn, SupCrash,
        SupRestart, SupDequeue, SupClaim, SupSpawn, SupReadRow, SupReadFlag, SupPoll,
        SupKill, SupWipe, SupUnflag,
        SupSettle, SupFinal, SupAbort, SupFail, CleanupRow, PurgeAudio, HasRow, TypeOK
  <2> QED
    BY <2>1, <2>2, <2>3 DEF AudioInv, SourceKept, HasRow
<1>5. ASSUME NEW w \in Workers, ChildStep(w) \/ ChildRaises(w) \/ ChildDies(w)
      PROVE  AudioInv'
  <2>1. /\ \A k \in Jobs : status[k] \in {"absent", "deleted"} => status'[k] = status[k]
        /\ UNCHANGED api
    <3>1. CASE ChildBegin(w) \/ ChildCommit(w) \/ ChildFail(w)
      <4>1. RowTypes
        BY DEF RowTypes, TypeOK
      <4>2. \E st \in Statuses : Update(supJob[w], st)
        BY <3>1 DEF ChildBegin, ChildCommit, ChildFail, Statuses
      <4>3. UNCHANGED api
        BY <3>1 DEF ChildBegin, ChildCommit, ChildFail
      <4>4. \A k \in Jobs : k = supJob[w] \/ status'[k] = status[k]
        BY <4>1, <4>2, UpdateEffect
      <4>5. Canceled(supJob[w]) => status' = status
        BY <4>1, <4>2, UpdateEffect
      <4> QED BY <4>3, <4>4, <4>5 DEF Canceled, HasRow
    <3>2. CASE ChildPark(w)
      BY <3>2 DEF ChildPark, CleanupRow, SetRow, HasRow, TypeOK
    <3>3. CASE ChildStart(w) \/ ChildAssemble(w) \/ ChildMix(w) \/ ChildDecode(w)
      BY <3>3 DEF ChildStart, ChildAssemble, ChildMix, ChildDecode
    <3>4. CASE \/ ChildSave(w) \/ ChildDropAudio(w) \/ ChildClear(w) \/ ChildUndo(w)
               \/ ChildRaises(w) \/ ChildDies(w)
      BY <3>4 DEF ChildSave, ChildDropAudio, ChildClear, ChildUndo, ChildRaises, ChildDies
    <3> QED BY <1>5, <3>1, <3>2, <3>3, <3>4 DEF ChildStep
  <2>2. \A v \in Workers : childPc'[v] # "drop"
    BY <1>5
    DEF ChildStep, ChildRaises, ChildDies, ChildStart, ChildBegin, ChildAssemble,
        ChildMix, ChildDecode, ChildSave, ChildDropAudio, ChildCommit, ChildClear, ChildUndo,
        ChildPark, ChildFail, ChildGoto, AudioInv, TypeOK
  <2>3. \A k \in Jobs : HasRow(k) => source'[k] = source[k]
    BY <1>5
    DEF ChildStep, ChildRaises, ChildDies, ChildStart, ChildBegin, ChildAssemble,
        ChildMix, ChildDecode, ChildSave, ChildDropAudio, ChildCommit, ChildClear, ChildUndo,
        ChildPark, ChildFail, CleanupRow, PurgeAudio, HasRow, AudioInv, TypeOK
  <2> QED
    BY <2>1, <2>2, <2>3 DEF AudioInv, SourceKept, HasRow
<1> QED
  BY <1>1, <1>2, <1>3, <1>4, <1>5 DEF Next

\* Where audio is not dropped after a transcription, an upload keeps it for a
\* retry through every failure, stop and crash, until the upload is deleted.
THEOREM AudioIsKept ==
    ASSUME ~DeleteAudio
    PROVE  Spec => []SourceKept
<1>1. TypeOK /\ SuspensionHolds /\ AudioInv /\ [Next]_vars => AudioInv'
  BY AudioStep
<1>2. AudioInv => SourceKept
  BY DEF AudioInv
<1> QED
  BY <1>1, <1>2, AudioInit, Typing, SuspensionIsAtomic, PTL DEF Spec
=============================================================================
