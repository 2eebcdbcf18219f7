------------------------- MODULE RecordingLifecycle -------------------------
(***************************************************************************)
(* What the pipeline promises about each recording: its phase, and whether *)
(* a supervisor or a decoder still attends to it.  A recording is edited,  *)
(* submitted or claimed only while nobody attends to it, and whoever       *)
(* attends may take a result back (the stop or the failure came late), but *)
(* never revives a recording that is stopped, failed or deleted.           *)
(***************************************************************************)
CONSTANT Jobs

VARIABLES
    phase,    \* jobs.status, with CANCELED split by stage into two phases
    attended  \* a supervisor or a decoder is busy with the recording

lifecycleVars == <<phase, attended>>

Phases == {"absent", "open", "queued", "running", "stopping", "stopped",
           "failed", "done", "deleted"}

LifecycleTypeOK == /\ phase \in [Jobs -> Phases]
                   /\ attended \in [Jobs -> BOOLEAN]

LifecycleInit == /\ phase = [j \in Jobs |-> "absent"]
                 /\ attended = [j \in Jobs |-> FALSE]

Move(j, from, to) ==
    /\ phase[j] \in from
    /\ phase' = [phase EXCEPT ![j] = to]

Leave(j) == attended[j] /\ attended' = [attended EXCEPT ![j] = FALSE]

\* A new, failed or stopped recording becomes an editable session.
Edit(j) == /\ ~attended[j] /\ Move(j, {"absent", "failed", "stopped"}, "open")
           /\ UNCHANGED attended

\* Upload, close or retry.
Submit(j) ==
    /\ ~attended[j]
    /\ Move(j, {"absent", "open", "failed", "stopped"}, "queued")
    /\ UNCHANGED attended

\* A session of microphone text only has nothing to decode.
CloseAsText(j) == /\ ~attended[j] /\ Move(j, {"open"}, "done")
                  /\ UNCHANGED attended

Claim(j) == /\ ~attended[j] /\ Move(j, {"queued"}, "running")
            /\ attended' = [attended EXCEPT ![j] = TRUE]

Finish(j) == attended[j] /\ Move(j, {"running"}, "done") /\ UNCHANGED attended

StopQueued(j) == Move(j, {"queued"}, "stopped") /\ UNCHANGED attended

StopRunning(j) == Move(j, {"running"}, "stopping") /\ UNCHANGED attended

Stopped(j) == Leave(j) /\ Move(j, {"running", "stopping", "done"}, "stopped")

Failed(j) == Leave(j) /\ Move(j, {"running", "done"}, "failed")

LeaveAsIs(j) == Leave(j) /\ UNCHANGED phase

Delete(j) == Move(j, Phases \ {"absent", "deleted"}, "deleted") /\ UNCHANGED attended

LifecycleNext ==
    \E j \in Jobs :
        \/ Edit(j) \/ Submit(j) \/ CloseAsText(j) \/ Claim(j) \/ Finish(j)
        \/ StopQueued(j) \/ StopRunning(j) \/ Stopped(j) \/ Failed(j)
        \/ LeaveAsIs(j) \/ Delete(j)

LifecycleSpec == LifecycleInit /\ [][LifecycleNext]_lifecycleVars
=============================================================================
