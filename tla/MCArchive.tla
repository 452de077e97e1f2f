----------------------------- MODULE MCArchive -----------------------------
(* Instances of Archive for TLC.                                             *)
EXTENDS Archive

\* A behaviour of single-record operations on the keys of pre-match records,
\* with faults, or without them and with availability times; or one of
\* capture_pre_match calls by one execution.
VARIABLE focus

\* Bounds: the artifacts and faults a behaviour of each kind may meet.
OneExec == CHOOSE e \in Execs : TRUE
RecordArtifacts == {a \in Artifacts : a.key \notin PostKeys /\ a.avail = 1}
AvailabilityArtifacts == {a \in Artifacts : a.key \notin PostKeys /\ a.exec = OneExec}
SessionArtifacts == {a \in Artifacts : a.avail = 1 /\ a.exec = OneExec /\ a.file = None}

Within ==
    CASE focus = "records" -> ~job.batch
      [] focus = "availability" -> ~job.batch /\ crashes + failures = 0
      [] focus = "sessions" -> crashes + failures <= 2 /\ crashes <= 1

Capture(a) == CaptureDuplicate(a) \/ CaptureRefused(a) \/ CaptureBegins(a)

Foci == {"records"} \cup IF MaxBatch > 0 THEN {"sessions", "availability"} ELSE {}
MCInit == Init /\ focus \in Foci
MCNext ==
    /\ UNCHANGED focus
    /\ \/ focus = "records" /\ \E a \in RecordArtifacts : Capture(a)
       \/ focus = "availability" /\ \E a \in AvailabilityArtifacts : Capture(a)
       \/ focus = "sessions" /\ \E a \in SessionArtifacts : Capture(a)
       \/ Open \/ OpenFails
       \/ BeginBatch \/ CaptureInvalid
       \/ CreateFile \/ FillFile \/ KeepFile \/ Collide \/ Index
       \/ EndBatch \/ SessionKnown \/ CreateSession \/ FillSession
       \/ SessionCollides
       \/ Crash \/ WriteFails
    /\ Within'
MCSpec == MCInit /\ [][MCNext]_<<vars, focus>>
============================================================================
