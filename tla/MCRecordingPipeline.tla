------------------------- MODULE MCRecordingPipeline -------------------------
(***************************************************************************)
(* RecordingPipeline on the small instances of the MC*.cfg files.          *)
(***************************************************************************)
EXTENDS RecordingPipeline, TLC

\* The workers are interchangeable, and no property names one.
WorkerSymmetry == Permutations(Workers)

\* Recordings do not compete for anything but workers: an upload and a session
\* are explored apart, each with all that can happen to it.
OneRecording ==
    Cardinality({j \in Jobs : status[j] # "absent"}) <= 1

\* But for its check of the files a retry treats uploads and sessions alike; a
\* session is there for its mixdown, and for what suspension and close do to each
\* other.
SessionOnce ==
    \A j \in Sessions : api[j] # "retryUnflag"
=============================================================================
