--------------------------- MODULE ArchiveProofs ---------------------------
(***************************************************************************)
(* Theorems about Archive, for every value of its constants.               *)
(*                                                                         *)
(* The inductive invariant adds to the properties what the writer knows    *)
(* between two steps: which files of the pending record are in place, and  *)
(* that the dictionaries hold nothing that is not on disk.                 *)
(* SessionsInv and CleanInv go on from it: the sessions of calls, and what *)
(* holds until the first fault.                                            *)
(***************************************************************************)
EXTENDS Archive, WellFoundedInduction, TLAPS

Building == pc \in {"create", "fill", "index"}

\* A file holds the record it is named for.
FilesOK ==
    \A p \in {"artifact", "manifest"}, id \in RecordIds :
        /\ disk[p][id] \in Bodies \cup {Absent, Torn}
        /\ Complete(p, id) => disk[p][id].id = id

\* The pending record extends the lineage on disk.
PendingGrounded ==
    IF pending.id.rev = 1 THEN pending.sup = None
    ELSE /\ pending.sup \in Archived("manifest")
         /\ pending.sup.key = pending.id.key
         /\ pending.sup.rev + 1 = pending.id.rev

\* The files of the pending record that are in place.
PendingFiles ==
    /\ pc = "fill" => disk[part][pending.id] = Torn
    /\ part \in {"manifest", "original"} =>
          disk["artifact"][pending.id] = pending
    /\ (part = "original" \/ pc = "index") =>
          disk["manifest"][pending.id] = pending
    /\ part = "original" => pending.file # None
    /\ pc = "index" =>
          /\ part # "artifact"
          /\ pending.file # None => Complete("original", pending.id)

PendingOK == Building => pending \in Bodies /\ PendingGrounded /\ PendingFiles

\* The dictionaries hold records that are on disk.
MemoryOK ==
    /\ \A id \in Known : /\ Complete("manifest", id)
                         /\ records[id] = disk["artifact"][id]
    /\ \A k \in Keys :
          latest_by_logical_key[k] # None =>
             /\ latest_by_logical_key[k] \in Known
             /\ latest_by_logical_key[k].key = k

\* The batch has room for the artifact it is at.
JobOK ==
    /\ Building /\ job.batch => job.size < MaxBatch
    /\ pc \in {"down", "idle"} => job = NoJob

IInv ==
    /\ TypeOK /\ FilesOK /\ PendingOK /\ MemoryOK /\ JobOK
    /\ ManifestSealsArtifact /\ LineageGrounded /\ AcknowledgedIsDurable

----------------------------------------------------------------------------

USE ArchiveAssumption

\* The empty archive satisfies the invariant.
LEMMA InitIInv == Init => IInv
<1> SUFFICES ASSUME Init PROVE IInv
  OBVIOUS
<1>1. \A id \in RecordIds : records[id] = Absent
  BY DEF Init, NoRecords
<1>2. \A p \in Parts, id \in RecordIds : disk[p][id] = Absent
  BY DEF Init
<1>3. TypeOK
  BY DEF Init, TypeOK, NoJob, Jobs, NoRecords, NoLatest, Parts
<1>4. FilesOK /\ ManifestSealsArtifact /\ LineageGrounded
  BY <1>2 DEF FilesOK, ManifestSealsArtifact, LineageGrounded, Complete,
              Archived, Parts
<1>5. PendingOK /\ JobOK
  BY DEF Init, PendingOK, JobOK, Building
<1>6. MemoryOK
  BY <1>1 DEF MemoryOK, Known, Init, NoLatest
<1>7. AcknowledgedIsDurable
  BY DEF Init, AcknowledgedIsDurable
<1> QED
  BY <1>3, <1>4, <1>5, <1>6, <1>7 DEF IInv

----------------------------------------------------------------------------
(* Steps that leave the files and the dictionaries alone.                  *)

\* A step between two writes: nothing the invariant speaks about changes but
\* pc and job, and no record is being built after it.
LEMMA QuietStep ==
    ASSUME IInv, TypeOK', JobOK', ~Building',
           UNCHANGED <<disk, records, latest_by_logical_key>>,
           acked' = acked \/ (\E id \in Known :
                        acked' = acked \cup {<<"DUPLICATE_NOOP", id>>}),
           pc' # "down" => pc # "down"
    PROVE  IInv'
<1>1. FilesOK' /\ ManifestSealsArtifact' /\ LineageGrounded' /\ MemoryOK'
  BY DEF IInv, FilesOK, ManifestSealsArtifact, LineageGrounded, MemoryOK,
         Complete, Archived, Known
<1>2. PendingOK'
  BY DEF PendingOK
<1>3. AcknowledgedIsDurable'
  <2>1. \A id \in RecordIds :
           <<"APPENDED", id>> \in acked' => <<"APPENDED", id>> \in acked
    OBVIOUS
  <2> QED
    BY <2>1 DEF IInv, AcknowledgedIsDurable, Complete, Known
<1> QED
  BY <1>1, <1>2, <1>3 DEF IInv

\* A call that returns leaves a well-typed job and no record being built.
LEMMA ReturnsTyped ==
    ASSUME TypeOK, JobOK, Building \/ Ready,
           NEW taken \in SUBSET RecordIds, NEW failed \in BOOLEAN,
           Returns(taken, failed)
    PROVE  /\ pc' \in {"idle", "batch"} /\ ~Building'
           /\ job' \in Jobs /\ JobOK'
<1>1. pc' \in {"idle", "batch"} /\ ~Building'
  BY DEF Returns, Building
<1>2. CASE job.batch
  <2>1. job.size < MaxBatch
    BY <1>2 DEF JobOK, Ready, NoJob
  <2>2. job.size + 1 \in 0..MaxBatch
    BY <2>1 DEF TypeOK, Jobs
  <2> QED
    BY <1>1, <1>2, <2>2 DEF Returns, TypeOK, Jobs, JobOK
<1>3. CASE ~job.batch
  BY <1>1, <1>3 DEF Returns, Jobs, JobOK, NoJob
<1> QED
  BY <1>2, <1>3

\* Refusing an artifact, for itself or for its revision, keeps the invariant.
LEMMA RefusedKeepsIInv ==
    ASSUME IInv, CaptureInvalid \/ (\E a \in Artifacts : CaptureRefused(a))
    PROVE  IInv'
<1>1. /\ Ready /\ Returns({}, TRUE)
      /\ UNCHANGED <<files, memory, part, pending, acked, faults>>
  BY DEF CaptureInvalid, CaptureRefused, Accepts
<1>2. pc' \in {"idle", "batch"} /\ ~Building' /\ job' \in Jobs /\ JobOK'
  BY <1>1, ReturnsTyped DEF IInv
<1>3. TypeOK'
  BY <1>1, <1>2 DEF IInv, TypeOK, files, memory, faults
<1> QED
  BY <1>1, <1>2, <1>3, QuietStep DEF files, memory, Ready

\* Answering a duplicate keeps the invariant: the record it names is known.
LEMMA DuplicateKeepsIInv ==
    ASSUME IInv, NEW a \in Artifacts, CaptureDuplicate(a)
    PROVE  IInv'
<1> DEFINE id == latest_by_logical_key[a.key]
<1>1. /\ Ready /\ Returns({id}, FALSE)
      /\ acked' = acked \cup {<<"DUPLICATE_NOOP", id>>}
      /\ UNCHANGED <<files, memory, part, pending, faults>>
  BY DEF CaptureDuplicate, Accepts
<1>2. id \in Known /\ id \in RecordIds
  BY DEF CaptureDuplicate, Duplicate, IInv, MemoryOK, Known, Artifacts
<1>3. pc' \in {"idle", "batch"} /\ ~Building' /\ job' \in Jobs /\ JobOK'
  BY <1>1, <1>2, ReturnsTyped DEF IInv
<1>4. TypeOK'
  BY <1>1, <1>2, <1>3 DEF IInv, TypeOK, files, memory, faults
<1> QED
  BY <1>1, <1>2, <1>3, <1>4, QuietStep DEF files, memory, Ready

\* Meeting a file with other bytes keeps the invariant.
LEMMA CollideKeepsIInv ==
    ASSUME IInv, Collide
    PROVE  IInv'
<1>1. pc' \in {"idle", "batch"} /\ ~Building' /\ job' \in Jobs /\ JobOK'
  BY ReturnsTyped DEF IInv, Collide, Building
<1>2. TypeOK'
  BY <1>1 DEF IInv, Collide, TypeOK, files, memory, faults
<1> QED
  BY <1>1, <1>2, QuietStep DEF Collide, files, memory

\* The steps of capture_pre_match around its artifacts, and failed writes.
LEMMA SessionStepKeepsIInv ==
    ASSUME IInv,
           \/ BeginBatch \/ EndBatch \/ SessionKnown \/ CreateSession
           \/ FillSession \/ SessionCollides \/ WriteFails \/ OpenFails
    PROVE  IInv'
<1> USE DEF files, memory, faults, NoJob, Jobs
<1>1. SessionOf \in SessionIds
  BY DEF IInv, TypeOK, SessionOf, SessionIds
<1>2. CASE BeginBatch
  <2>1. TypeOK' /\ JobOK' /\ ~Building'
    BY <1>2 DEF IInv, TypeOK, BeginBatch, JobOK, Building
  <2> QED
    BY <1>2, <2>1, QuietStep DEF BeginBatch
<1>3. CASE EndBatch
  <2>1. TypeOK' /\ JobOK' /\ ~Building'
    BY <1>3 DEF IInv, TypeOK, EndBatch, JobOK, Building
  <2> QED
    BY <1>3, <2>1, QuietStep DEF EndBatch
<1>4. CASE SessionKnown
  <2>1. TypeOK' /\ JobOK' /\ ~Building'
    BY <1>4 DEF IInv, TypeOK, SessionKnown, JobOK, Building
  <2> QED
    BY <1>4, <2>1, QuietStep DEF SessionKnown
<1>9. CASE SessionCollides
  <2>1. TypeOK' /\ JobOK' /\ ~Building'
    BY <1>9 DEF IInv, TypeOK, SessionCollides, JobOK, Building
  <2> QED
    BY <1>9, <2>1, QuietStep DEF SessionCollides
<1>5. CASE CreateSession
  <2>1. TypeOK' /\ JobOK' /\ ~Building'
    BY <1>1, <1>5 DEF IInv, TypeOK, CreateSession, JobOK, Building
  <2> QED
    BY <1>5, <2>1, QuietStep DEF CreateSession
<1>6. CASE FillSession
  <2>1. TypeOK' /\ JobOK' /\ ~Building'
    BY <1>1, <1>6 DEF IInv, TypeOK, FillSession, JobOK, Building
  <2> QED
    BY <1>6, <2>1, QuietStep DEF FillSession
<1>7. CASE WriteFails
  <2>1. TypeOK' /\ JobOK' /\ ~Building'
    BY <1>7 DEF IInv, TypeOK, WriteFails, JobOK, Building
  <2> QED
    BY <1>7, <2>1, QuietStep DEF WriteFails
<1>8. CASE OpenFails
  <2>1. TypeOK' /\ JobOK' /\ ~Building'
    BY <1>8 DEF IInv, TypeOK, OpenFails, JobOK, Building, vars, control
  <2> QED
    BY <1>8, <2>1, QuietStep DEF OpenFails, vars, control
<1> QED
  BY <1>2, <1>3, <1>4, <1>5, <1>6, <1>7, <1>8, <1>9

----------------------------------------------------------------------------
(* Steps that change the files or the dictionaries.                        *)

\* The end of the process keeps the invariant: it speaks of the files alone.
LEMMA CrashKeepsIInv ==
    ASSUME IInv, Crash
    PROVE  IInv'
<1> USE DEF files, memory, faults
<1>1. TypeOK'
  BY DEF IInv, Crash, TypeOK, NoRecords, NoLatest, NoJob, Jobs
<1>2. FilesOK' /\ ManifestSealsArtifact' /\ LineageGrounded'
  BY DEF IInv, Crash, FilesOK, ManifestSealsArtifact, LineageGrounded,
         Complete, Archived
<1>3. PendingOK' /\ JobOK'
  BY DEF Crash, PendingOK, JobOK, Building, NoJob
<1>4. MemoryOK'
  BY DEF Crash, MemoryOK, Known, NoRecords, NoLatest
<1>5. AcknowledgedIsDurable'
  BY DEF IInv, Crash, AcknowledgedIsDurable, Complete
<1> QED
  BY <1>1, <1>2, <1>3, <1>4, <1>5 DEF IInv

\* A start keeps the invariant: what it loads is on disk, what was acknowledged
\* is loaded.
LEMMA OpenKeepsIInv ==
    ASSUME IInv, Open
    PROVE  IInv'
<1> USE DEF files, memory, faults
<1>1. \A id \in RecordIds :
         IF id \in Loadable
         THEN /\ Complete("manifest", id) /\ Complete("artifact", id)
              /\ records'[id] = disk["artifact"][id]
              /\ disk["artifact"][id] \in Bodies
         ELSE records'[id] = Absent
  BY DEF Open, LoadSucceeds, Loadable, Complete, Archived, IInv, FilesOK
<1>2. Loadable \subseteq RecordIds
  BY DEF Loadable, Archived
<1>3. \A k \in Keys : latest_by_logical_key'[k] # None =>
         /\ latest_by_logical_key'[k] \in Loadable
         /\ latest_by_logical_key'[k].key = k
  BY DEF Open, LoadedLatest
<1>4. latest_by_logical_key' \in [Keys -> RecordIds \cup {None}]
  BY <1>2 DEF Open, LoadedLatest
<1>5. TypeOK'
  BY <1>1, <1>2, <1>4 DEF IInv, Open, TypeOK
<1>6. FilesOK' /\ ManifestSealsArtifact' /\ LineageGrounded'
  BY DEF IInv, Open, FilesOK, ManifestSealsArtifact, LineageGrounded,
         Complete, Archived
<1>7. PendingOK' /\ JobOK'
  BY DEF Open, PendingOK, JobOK, Building, IInv
<1>8. MemoryOK'
  BY <1>1, <1>2, <1>3 DEF MemoryOK, Known, Open, Complete
<1>9. AcknowledgedIsDurable'
  BY <1>1 DEF IInv, Open, AcknowledgedIsDurable, Complete, Known, Loadable,
              Archived
<1> QED
  BY <1>5, <1>6, <1>7, <1>8, <1>9 DEF IInv

\* Building a record keeps the invariant: it extends the lineage on disk.
LEMMA BeginKeepsIInv ==
    ASSUME IInv, NEW a \in Artifacts, CaptureBegins(a)
    PROVE  IInv'
<1> USE DEF files, memory, faults
<1> DEFINE latest == latest_by_logical_key[a.key]
<1>1. /\ Ready /\ pc' = "create" /\ part' = "artifact"
      /\ pending' = RecordOf(a) /\ a.sup = latest
      /\ NextRevision(a) <= MaxRev
  BY DEF CaptureBegins, Accepts, Admitted, RevisionAccepted
<1>2. latest # None =>
         /\ latest \in RecordIds /\ latest \in Known
         /\ latest.key = a.key /\ Complete("manifest", latest)
  BY DEF IInv, MemoryOK, Artifacts, Known
<1>3. NextRevision(a) \in 1..MaxRev
  BY <1>1, <1>2 DEF NextRevision, RecordIds
<1>4. RecordOf(a) \in Bodies
  BY <1>1, <1>2, <1>3 DEF RecordOf, Bodies, RecordIds, Artifacts,
                          OriginalHash, Hashes
<1>5. TypeOK'
  BY <1>1, <1>4 DEF IInv, TypeOK, CaptureBegins, Parts
<1>6. /\ RecordOf(a).sup = latest /\ RecordOf(a).id.key = a.key
      /\ RecordOf(a).id.rev = NextRevision(a)
  BY DEF RecordOf
<1>7. PendingGrounded'
  <2>1. CASE latest = None
    BY <1>1, <1>6, <2>1 DEF PendingGrounded, NextRevision
  <2>2. CASE latest # None
    <3>1. latest.rev \in 1..MaxRev /\ latest.rev + 1 = NextRevision(a)
      BY <1>2, <2>2 DEF RecordIds, NextRevision
    <3>2. latest \in Archived("manifest")'
      BY <1>2, <2>2 DEF Archived, Complete, CaptureBegins
    <3> QED
      BY <1>1, <1>2, <1>6, <2>2, <3>1, <3>2 DEF PendingGrounded
  <2> QED
    BY <2>1, <2>2
<1>8. PendingOK' /\ JobOK'
  BY <1>1, <1>4, <1>7 DEF PendingOK, PendingFiles, JobOK, CaptureBegins, Ready,
                          IInv, NoJob
<1>9. FilesOK' /\ ManifestSealsArtifact' /\ LineageGrounded' /\ MemoryOK'
  BY DEF IInv, CaptureBegins, FilesOK, ManifestSealsArtifact, LineageGrounded,
         MemoryOK, Complete, Archived, Known
<1>10. AcknowledgedIsDurable'
  BY <1>1 DEF IInv, CaptureBegins, AcknowledgedIsDurable, Complete, Known, Ready
<1> QED
  BY <1>5, <1>8, <1>9, <1>10 DEF IInv

\* Creating a file keeps the invariant: no whole file was at its path.
LEMMA CreateKeepsIInv ==
    ASSUME IInv, CreateFile
    PROVE  IInv'
<1> USE DEF files, memory, faults
<1>1. /\ pending \in Bodies /\ pending.id \in RecordIds
      /\ pending.sup \in RecordIds \cup {None}
      /\ part \in Parts /\ PendingGrounded /\ PendingFiles
      /\ disk[part][pending.id] = Absent
  BY DEF IInv, CreateFile, PendingOK, Building, TypeOK, Bodies
<1>2. \A p \in Parts, id \in RecordIds :
         disk'[p][id] = IF p = part /\ id = pending.id THEN Torn
                        ELSE disk[p][id]
  BY <1>1 DEF CreateFile, IInv, TypeOK
<1>3. \A p \in Parts, id \in RecordIds :
         Complete(p, id) => Complete(p, id)' /\ disk'[p][id] = disk[p][id]
  BY <1>1, <1>2 DEF Complete
<1>4. \A p \in Parts, id \in RecordIds : Complete(p, id)' => Complete(p, id)
  BY <1>2 DEF Complete
<1>5. TypeOK'
  BY <1>1 DEF IInv, TypeOK, CreateFile
<1>6. FilesOK'
  BY <1>2, <1>3, <1>4 DEF IInv, FilesOK, Parts
<1>7. ManifestSealsArtifact'
  BY <1>1, <1>2, <1>3, <1>4
  DEF IInv, ManifestSealsArtifact, PendingFiles, Parts, Complete, CreateFile
<1>8. LineageGrounded'
  BY <1>2, <1>3, <1>4 DEF IInv, LineageGrounded, Archived, Parts, Complete
<1>9. PendingGrounded'
  BY <1>1, <1>3 DEF PendingGrounded, Archived, Parts, CreateFile
<1>10. PendingFiles'
  BY <1>1, <1>2, <1>3 DEF PendingFiles, CreateFile, Parts, Building, Complete
<1>11. PendingOK' /\ JobOK'
  BY <1>1, <1>9, <1>10 DEF PendingOK, JobOK, CreateFile, Building, IInv
<1>12. MemoryOK'
  BY <1>3 DEF IInv, MemoryOK, Known, CreateFile, Parts, Complete,
              ManifestSealsArtifact
<1>13. AcknowledgedIsDurable'
  BY <1>3 DEF IInv, AcknowledgedIsDurable, CreateFile, Parts, Known
<1> QED
  BY <1>5, <1>6, <1>7, <1>8, <1>11, <1>12, <1>13 DEF IInv

\* Filling a file keeps the invariant; for a manifest, its artifact and the
\* manifest of its predecessor are in place.
LEMMA FillKeepsIInv ==
    ASSUME IInv, FillFile
    PROVE  IInv'
<1> USE DEF files, memory, faults
<1>1. /\ pending \in Bodies /\ pending.id \in RecordIds
      /\ pending.sup \in RecordIds \cup {None}
      /\ part \in Parts /\ PendingGrounded /\ PendingFiles
      /\ disk[part][pending.id] = Torn
  BY DEF IInv, FillFile, PendingOK, PendingFiles, Building, TypeOK, Bodies
<1>2. /\ Content \in Bodies \cup Files /\ Content \notin {Absent, Torn}
      /\ part # "original" => Content = pending
  BY <1>1 DEF Content, PendingFiles, Bodies
<1>3. \A p \in Parts, id \in RecordIds :
         disk'[p][id] = IF p = part /\ id = pending.id THEN Content
                        ELSE disk[p][id]
  BY <1>1 DEF FillFile, IInv, TypeOK
<1>4. \A p \in Parts, id \in RecordIds :
         /\ Complete(p, id) => Complete(p, id)' /\ disk'[p][id] = disk[p][id]
         /\ Complete(p, id)' => Complete(p, id) \/ (p = part /\ id = pending.id)
  BY <1>1, <1>2, <1>3 DEF Complete
<1>5. pc' \in {"create", "index"} /\ part' \in Parts
  BY <1>1 DEF FillFile, Proceed, Parts
<1>6. TypeOK'
  BY <1>1, <1>2, <1>5 DEF IInv, TypeOK, FillFile
<1>7. FilesOK'
  BY <1>1, <1>2, <1>3, <1>4 DEF IInv, FilesOK, Parts
<1>8. ManifestSealsArtifact'
  BY <1>1, <1>2, <1>3, <1>4
  DEF IInv, ManifestSealsArtifact, PendingFiles, Parts, Complete
<1>9. LineageGrounded'
  <2> SUFFICES ASSUME NEW id \in Archived("manifest")'
               PROVE  LET sup == disk'["manifest"][id].sup
                      IN IF id.rev = 1 THEN sup = None
                         ELSE /\ sup \in Archived("manifest")'
                              /\ sup.key = id.key /\ sup.rev + 1 = id.rev
    BY DEF LineageGrounded
  <2>1. id \in RecordIds /\ "manifest" \in Parts
    BY DEF Archived, Parts
  <2>2. \A other \in Archived("manifest") : other \in Archived("manifest")'
    BY <1>4, <2>1 DEF Archived
  <2>3. CASE Complete("manifest", id)
    <3>1. disk'["manifest"][id] = disk["manifest"][id]
      BY <1>4, <2>1, <2>3
    <3> QED
      BY <2>1, <2>2, <2>3, <3>1 DEF IInv, LineageGrounded, Archived
  <2>4. CASE ~Complete("manifest", id)
    <3>1. id = pending.id /\ part = "manifest"
      BY <1>4, <2>1, <2>4 DEF Archived
    <3>2. disk'["manifest"][id] = pending
      BY <1>2, <1>3, <2>1, <3>1
    <3> QED
      BY <1>1, <2>2, <3>1, <3>2 DEF PendingGrounded
  <2> QED
    BY <2>3, <2>4
<1>10. PendingGrounded'
  BY <1>1, <1>4 DEF PendingGrounded, Archived, Parts, FillFile
<1>11. PendingFiles'
  <2>1. pending' = pending
    BY DEF FillFile
  <2>2. part = "artifact" => disk'["artifact"][pending.id] = pending
    BY <1>1, <1>2, <1>3
  <2>3. part \in {"manifest", "original"} =>
           disk'["artifact"][pending.id] = pending
    BY <1>1, <1>3 DEF PendingFiles, Parts
  <2>4. part = "manifest" => disk'["manifest"][pending.id] = pending
    BY <1>1, <1>2, <1>3
  <2>5. part = "original" =>
           /\ disk'["manifest"][pending.id] = pending
           /\ Complete("original", pending.id)'
    BY <1>1, <1>2, <1>3, <2>1 DEF PendingFiles, Parts, Complete
  <2> QED
    BY <1>1, <2>1, <2>2, <2>3, <2>4, <2>5
    DEF PendingFiles, Proceed, FillFile, Parts
<1>12. PendingOK' /\ JobOK'
  BY <1>1, <1>5, <1>10, <1>11 DEF PendingOK, JobOK, FillFile, Building, IInv
<1>13. MemoryOK'
  BY <1>4 DEF IInv, MemoryOK, Known, FillFile, Parts, Complete,
              ManifestSealsArtifact
<1>14. AcknowledgedIsDurable'
  BY <1>4, <1>5 DEF IInv, AcknowledgedIsDurable, FillFile, Parts, Known
<1> QED
  BY <1>6, <1>7, <1>8, <1>9, <1>12, <1>13, <1>14 DEF IInv

\* Keeping a file with the same bytes keeps the invariant.
LEMMA KeepKeepsIInv ==
    ASSUME IInv, KeepFile
    PROVE  IInv'
<1> USE DEF files, memory, faults
<1>1. /\ pending \in Bodies /\ pending.id \in RecordIds
      /\ part \in Parts /\ PendingGrounded /\ PendingFiles
      /\ disk[part][pending.id] = Content
  BY DEF IInv, KeepFile, PendingOK, Building, TypeOK, Bodies
<1>2. /\ Content \notin {Absent, Torn}
      /\ part # "original" => Content = pending
  BY <1>1 DEF Content, PendingFiles, Bodies
<1>3. pc' \in {"create", "index"} /\ part' \in Parts
  BY <1>1 DEF KeepFile, Proceed, Parts
<1>4. TypeOK'
  BY <1>3 DEF IInv, TypeOK, KeepFile
<1>5. FilesOK' /\ ManifestSealsArtifact' /\ LineageGrounded' /\ MemoryOK'
  BY DEF IInv, KeepFile, FilesOK, ManifestSealsArtifact, LineageGrounded,
         MemoryOK, Complete, Archived, Known
<1>6. PendingGrounded'
  BY <1>1 DEF PendingGrounded, Archived, Complete, KeepFile
<1>7. PendingFiles'
  BY <1>1, <1>2 DEF PendingFiles, Proceed, KeepFile, Parts, Complete
<1>8. PendingOK' /\ JobOK'
  BY <1>1, <1>3, <1>6, <1>7 DEF PendingOK, JobOK, KeepFile, Building, IInv
<1>9. AcknowledgedIsDurable'
  BY <1>3 DEF IInv, AcknowledgedIsDurable, KeepFile, Complete, Known
<1> QED
  BY <1>4, <1>5, <1>8, <1>9 DEF IInv

\* Entering the record into the dictionaries keeps the invariant: its files are
\* in place.
LEMMA IndexKeepsIInv ==
    ASSUME IInv, Index
    PROVE  IInv'
<1> USE DEF files, memory, faults
<1> DEFINE id == pending.id
<1>1. /\ pending \in Bodies /\ id \in RecordIds /\ id.key \in Keys
      /\ PendingFiles /\ pc = "index"
  BY DEF IInv, Index, PendingOK, Building, Bodies, RecordIds
<1>2. /\ disk["artifact"][id] = pending /\ disk["manifest"][id] = pending
      /\ Complete("artifact", id) /\ Complete("manifest", id)
      /\ pending.file # None => Complete("original", id)
  BY <1>1 DEF PendingFiles, IInv, TypeOK, Parts, Complete
<1>3. pc' \in {"idle", "batch"} /\ ~Building' /\ job' \in Jobs /\ JobOK'
  BY <1>1, ReturnsTyped DEF IInv, Index, Building
<1>4. TypeOK'
  BY <1>1, <1>3 DEF IInv, Index, TypeOK
<1>5. FilesOK' /\ ManifestSealsArtifact' /\ LineageGrounded'
  BY DEF IInv, Index, FilesOK, ManifestSealsArtifact, LineageGrounded,
         Complete, Archived
<1>6. PendingOK'
  BY <1>3 DEF PendingOK
<1>7. \A other \in RecordIds :
         records'[other] = IF other = id THEN pending ELSE records[other]
  BY <1>1 DEF Index, IInv, TypeOK
<1>8. Known' = Known \cup {id}
  BY <1>1, <1>7 DEF Known
<1>9. MemoryOK'
  <2>1. \A other \in Known' : /\ Complete("manifest", other)'
                              /\ records'[other] = disk'["artifact"][other]
    BY <1>2, <1>7, <1>8 DEF Index, Complete, IInv, MemoryOK, Known
  <2>2. \A k \in Keys :
           latest_by_logical_key'[k] =
              IF k = id.key THEN id ELSE latest_by_logical_key[k]
    BY <1>1 DEF Index, IInv, TypeOK
  <2> QED
    BY <1>8, <2>1, <2>2 DEF IInv, MemoryOK
<1>10. AcknowledgedIsDurable'
  BY <1>1, <1>2, <1>8 DEF IInv, Index, AcknowledgedIsDurable, Complete
<1> QED
  BY <1>3, <1>4, <1>5, <1>6, <1>9, <1>10 DEF IInv

\* Every step keeps the invariant.
LEMMA NextIInv == IInv /\ [Next]_vars => IInv'
<1> SUFFICES ASSUME IInv, [Next]_vars PROVE IInv'
  OBVIOUS
<1>1. CASE UNCHANGED vars
  BY <1>1 DEF IInv, vars, files, memory, control, faults, TypeOK, FilesOK,
     PendingOK, PendingGrounded, PendingFiles, Building, MemoryOK, JobOK,
     ManifestSealsArtifact, LineageGrounded, AcknowledgedIsDurable, Complete,
     Archived, Known
<1>2. CASE Next
  BY <1>2, RefusedKeepsIInv, DuplicateKeepsIInv, CollideKeepsIInv,
     SessionStepKeepsIInv, CrashKeepsIInv, OpenKeepsIInv, BeginKeepsIInv,
     CreateKeepsIInv, FillKeepsIInv, KeepKeepsIInv, IndexKeepsIInv
  DEF Next
<1> QED
  BY <1>1, <1>2

\* The invariant holds in every reachable state of the archive.
THEOREM Inductive == Spec => []IInv
BY InitIInv, NextIInv, PTL DEF Spec

----------------------------------------------------------------------------

\* The state of ArchiveRuntime and of its directory is well typed.
THEOREM TypeCorrect == Spec => []TypeOK
BY Inductive, PTL DEF IInv

\* No manifest without its artifact, across every crash and failed write of
\* _build_record.
THEOREM SealedManifests == Spec => []ManifestSealsArtifact
BY Inductive, PTL DEF IInv

\* Every correction that _next_revision admitted has its predecessor archived.
THEOREM GroundedLineage == Spec => []LineageGrounded
BY Inductive, PTL DEF IInv

\* What _build_record reported APPENDED is never lost.
THEOREM DurableAcknowledgements == Spec => []AcknowledgedIsDurable
BY Inductive, PTL DEF IInv

----------------------------------------------------------------------------
(* What one step does to the files.                                        *)

\* Only FillFile and CreateFile touch a record's files, and only the file of
\* the pending record that is not whole yet.
LEMMA StepOnFiles ==
    ASSUME IInv, [Next]_vars
    PROVE  \/ disk' = disk
           \/ /\ CreateFile \/ FillFile
              /\ pending \in Bodies /\ pending.id \in RecordIds
              /\ part \in Parts /\ ~Complete(part, pending.id)
              /\ disk' = [disk EXCEPT ![part][pending.id] =
                             IF FillFile THEN Content ELSE Torn]
<1>1. CASE UNCHANGED vars
  BY <1>1 DEF vars, files
<1>2. CASE CreateFile \/ FillFile
  <2>1. /\ pending \in Bodies /\ pending.id \in RecordIds
        /\ part \in Parts /\ PendingFiles
    BY <1>2 DEF IInv, CreateFile, FillFile, PendingOK, Building, TypeOK, Bodies
  <2>2. CASE FillFile
    BY <2>1, <2>2 DEF FillFile, PendingFiles, Complete
  <2>3. CASE CreateFile
    <3>1. ~FillFile
      BY <2>3 DEF CreateFile, FillFile
    <3> QED
      BY <2>1, <2>3, <3>1 DEF CreateFile, Complete
  <2> QED
    BY <1>2, <2>2, <2>3
<1>3. CASE Next /\ ~(CreateFile \/ FillFile)
  BY <1>3 DEF Next, files, memory, Open, OpenFails, vars, BeginBatch,
     CaptureInvalid, CaptureDuplicate, CaptureRefused, CaptureBegins,
     KeepFile, Collide, Index, EndBatch, SessionKnown, CreateSession,
     FillSession, SessionCollides, Crash, WriteFails
<1> QED
  BY <1>1, <1>2, <1>3

\* No operation of ArchiveRuntime rewrites or removes a whole file.
THEOREM FilesAreAppendOnly == Spec => AppendOnly
<1>1. IInv /\ [Next]_vars =>
        [ /\ \A p \in Parts, id \in RecordIds :
                Complete(p, id) => disk'[p][id] = disk[p][id]
          /\ sessionFiles \subseteq sessionFiles' ]_vars
  <2> SUFFICES ASSUME IInv, [Next]_vars
               PROVE  /\ \A p \in Parts, id \in RecordIds :
                            Complete(p, id) => disk'[p][id] = disk[p][id]
                      /\ sessionFiles \subseteq sessionFiles'
    OBVIOUS
  <2>1. ASSUME NEW p \in Parts, NEW id \in RecordIds, Complete(p, id)
        PROVE  disk'[p][id] = disk[p][id]
    BY <2>1, StepOnFiles DEF IInv, TypeOK
  <2>2. sessionFiles \subseteq sessionFiles'
    BY DEF Next, files, memory, Open, OpenFails, vars, BeginBatch,
       CaptureInvalid, CaptureDuplicate, CaptureRefused, CaptureBegins,
       CreateFile, FillFile, KeepFile, Collide, Index, EndBatch, SessionKnown,
       CreateSession, FillSession, SessionCollides, Crash, WriteFails
  <2> QED
    BY <2>1, <2>2
<1> QED
  BY <1>1, Inductive, PTL DEF Spec, AppendOnly

----------------------------------------------------------------------------
(* Refinement.                                                             *)

Log == {disk["manifest"][id] : id \in Archived("manifest")}

\* The empty archive is the empty revision log.
LEMMA LogInitial == Init => Revisions!Init
BY DEF Init, Revisions!Init, Archived, Complete, Parts

\* A step that completes a manifest archives a grounded revision; every other
\* step leaves the log as it is.
LEMMA LogStep ==
    ASSUME IInv, IInv', [Next]_vars
    PROVE  [Revisions!Next]_Log
<1>1. CASE disk' = disk
  BY <1>1 DEF Log, Archived, Complete
<1>2. CASE ~(disk' = disk)
  <2>1. /\ CreateFile \/ FillFile
        /\ pending \in Bodies /\ pending.id \in RecordIds
        /\ part \in Parts /\ ~Complete(part, pending.id)
        /\ disk' = [disk EXCEPT ![part][pending.id] =
                       IF FillFile THEN Content ELSE Torn]
    BY <1>2, StepOnFiles
  <2>2. \A p \in Parts, id \in RecordIds :
           disk'[p][id] = IF p = part /\ id = pending.id
                          THEN IF FillFile THEN Content ELSE Torn
                          ELSE disk[p][id]
    BY <2>1 DEF IInv, TypeOK
  <2>3. CASE ~(FillFile /\ part = "manifest")
    <3>1. \A id \in RecordIds :
             Complete("manifest", id)' <=> Complete("manifest", id)
      BY <2>1, <2>2, <2>3 DEF Complete, Parts
    <3>2. \A id \in Archived("manifest") :
             disk'["manifest"][id] = disk["manifest"][id]
      BY <2>1, <2>2, <2>3 DEF Archived, Complete, Parts
    <3>3. Archived("manifest")' = Archived("manifest")
      BY <3>1 DEF Archived
    <3> QED
      BY <3>2, <3>3 DEF Log
  <2>4. CASE FillFile /\ part = "manifest"
    <3>1. Content = pending /\ pending \notin {Absent, Torn}
      BY <2>1, <2>4 DEF Content
    <3>2. Archived("manifest")' = Archived("manifest") \cup {pending.id}
      BY <2>1, <2>2, <2>4, <3>1 DEF Archived, Complete, Parts
    <3>3. \A id \in Archived("manifest") :
             disk'["manifest"][id] = disk["manifest"][id]
      BY <2>1, <2>2, <2>4 DEF Archived, Parts
    <3>4. disk'["manifest"][pending.id] = pending
      BY <2>1, <2>2, <2>4, <3>1
    <3>5. Log' = Log \cup {pending}
      BY <3>2, <3>3, <3>4 DEF Log
    <3>6. \A id \in Archived("manifest") :
             disk["manifest"][id].id = id /\ id # pending.id
      BY <2>1, <2>4 DEF IInv, FilesOK, Archived
    <3>7. \A p \in Log : p.id # pending.id
      BY <3>6 DEF Log
    <3>8. PendingGrounded
      BY <2>4 DEF IInv, PendingOK, Building, FillFile
    <3>9. Revisions!Grounded(pending)
      <4>1. CASE pending.id.rev = 1
        BY <3>8, <4>1 DEF PendingGrounded, Revisions!Grounded
      <4>2. CASE pending.id.rev # 1
        <5>1. /\ pending.sup \in Archived("manifest")
              /\ pending.sup.key = pending.id.key
              /\ pending.sup.rev + 1 = pending.id.rev
          BY <3>8, <4>2 DEF PendingGrounded
        <5>2. pending.sup # None
          BY <5>1 DEF Archived
        <5>3. disk["manifest"][pending.sup].id = pending.sup
          BY <3>6, <5>1
        <5> QED
          BY <5>1, <5>2, <5>3 DEF Revisions!Grounded
      <4> QED
        BY <4>1, <4>2
    <3>10. pending \in Log'
      BY <3>5
    <3> QED
      BY <2>1, <3>5, <3>7, <3>9, <3>10
      DEF Revisions!Next, Revisions!Archive, Revisions!Grounded, Log
  <2> QED
    BY <2>3, <2>4
<1> QED
  BY <1>1, <1>2

\* The archive implements the log of revisions: no crash, failed write or
\* order of loading takes a revision out of it, changes one, or admits one
\* whose predecessor is missing.
THEOREM Refinement == Spec => ImplementsRevisions
<1>1. IInv /\ IInv' /\ [Next]_vars => [Revisions!Next]_Log
  BY LogStep
<1> QED
  BY <1>1, LogInitial, Inductive, PTL
  DEF Spec, ImplementsRevisions, Revisions!Spec, Log

----------------------------------------------------------------------------
(* The chains of predecessors.                                             *)

\* A set of naturals has a least one.
LEMMA LeastNatural ==
    ASSUME NEW U \in SUBSET Nat, U # {}
    PROVE  \E x \in U : \A y \in U : x <= y
<1> DEFINE R == {z \in Nat \X Nat : z[1] < z[2]}
<1>1. IsWellFoundedOn(R, Nat)
  BY NatLessThanWellFounded DEF OpToRel
<1>2. \A x, y \in Nat : <<x, y>> \in R <=> x < y
  OBVIOUS
<1> HIDE DEF R
<1>3. \E x \in U : \A y \in U : ~ (<<y, x>> \in R)
  BY <1>1, WFMin
<1>4. PICK x \in U : \A y \in U : ~ (<<y, x>> \in R)
  BY <1>3
<1>5. x \in Nat /\ \A y \in U : y \in Nat
  OBVIOUS
<1>6. ASSUME NEW y \in U
      PROVE  x <= y
  <2>1. <<y, x>> \notin R
    BY <1>4
  <2>2. <<y, x>> \in R <=> y < x
    BY <1>2, <1>5
  <2>3. ~ (y < x)
    BY <2>1, <2>2
  <2> QED
    BY <1>5, <2>3
<1> QED
  BY <1>6

\* A step that can be taken from anywhere can be taken any number of times.
LEMMA Iterates ==
    ASSUME NEW S, NEW f \in [S -> S], NEW s \in S, NEW m \in Nat
    PROVE  \E g \in [0..m -> S] : g[0] = s /\ \A n \in 1..m : g[n] = f[g[n - 1]]
<1> DEFINE Walks(k) == {g \in [0..k -> S] : g[0] = s /\ \A n \in 1..k : g[n] = f[g[n - 1]]}
           U == {k \in Nat : Walks(k) = {}}
<1>1. CASE U = {}
  <2>1. Walks(m) # {}
    BY <1>1
  <2> QED
    BY <2>1
<1>2. CASE U # {}
  <2>1. U \in SUBSET Nat
    OBVIOUS
  <2> HIDE DEF U
  <2>2. PICK k \in U : \A y \in U : k <= y
    BY <1>2, <2>1, LeastNatural
  <2>3. k \in Nat /\ Walks(k) = {}
    BY DEF U
  <2>4. k # 0
    <3>1. [n \in 0..0 |-> s] \in Walks(0)
      OBVIOUS
    <3> QED
      BY <2>3, <3>1
  <2>5. k - 1 \in Nat /\ k - 1 \notin U
    BY <2>2, <2>3, <2>4
  <2>6. Walks(k - 1) # {}
    BY <2>5 DEF U
  <2>7. PICK g \in [0..(k - 1) -> S] : g[0] = s /\ \A n \in 1..(k - 1) : g[n] = f[g[n - 1]]
    BY <2>6
  <2> DEFINE h == [n \in 0..k |-> IF n = k THEN f[g[k - 1]] ELSE g[n]]
  <2>8. g[k - 1] \in S
    BY <2>5, <2>7
  <2>9. h \in [0..k -> S]
    <3>1. \A n \in 0..k : n # k => n \in 0..(k - 1)
      BY <2>3
    <3>2. \A n \in 0..k : n # k => g[n] \in S
      BY <2>7, <3>1
    <3>3. \A n \in 0..k : (IF n = k THEN f[g[k - 1]] ELSE g[n]) \in S
      BY <2>8, <3>2
    <3> QED
      BY <3>3
  <2>10. h[0] = s
    BY <2>3, <2>4, <2>7
  <2>11. ASSUME NEW n \in 1..k
         PROVE  h[n] = f[h[n - 1]]
    <3>1. n \in 0..k /\ n - 1 \in 0..k /\ n - 1 # k
      BY <2>3
    <3>2. h[n - 1] = g[n - 1]
      BY <3>1
    <3>3. CASE n = k
      BY <3>1, <3>2, <3>3
    <3>4. CASE n # k
      <4>1. n \in 1..(k - 1)
        BY <2>3, <3>4
      <4>2. h[n] = g[n]
        BY <3>1, <3>4
      <4> QED
        BY <2>7, <3>2, <4>1, <4>2
    <3> QED
      BY <3>3, <3>4
  <2>12. h \in Walks(k)
    BY <2>9, <2>10, <2>11
  <2> QED
    BY <2>3, <2>12
<1> QED
  BY <1>1, <1>2

\* One step back along a chain.
Back(x) ==
    IF x = None THEN None
    ELSE LET sup == disk["artifact"][x].sup
         IN IF sup \in Archived("manifest") THEN sup ELSE None

\* resolve_supersedes_chain goes back one step at a time.
LEMMA ChainSteps ==
    ASSUME NEW id \in RecordIds
    PROVE  /\ ChainOf(id)[0] = id
           /\ \A n \in 1..MaxRev : ChainOf(id)[n] = Back(ChainOf(id)[n - 1])
<1> DEFINE S == RecordIds \cup {None}
           f == [x \in S |-> Back(x)]
           Chain(g) == [n \in 0..MaxRev |->
                           IF n = 0 THEN id
                           ELSE IF g[n - 1] = None THEN None
                           ELSE LET sup == disk["artifact"][g[n - 1]].sup
                                IN IF sup \in Archived("manifest") THEN sup ELSE None]
<1>1. f \in [S -> S]
  BY DEF Back, Archived
<1>2. PICK g \in [0..MaxRev -> S] : g[0] = id /\ \A n \in 1..MaxRev : g[n] = f[g[n - 1]]
  <2>1. MaxRev \in Nat /\ id \in S
    OBVIOUS
  <2> HIDE DEF f, S
  <2> QED
    BY <1>1, <2>1, Iterates
<1>3. \A n \in 1..MaxRev : g[n - 1] \in S
  BY <1>2
<1>4. \A n \in 1..MaxRev : g[n] = Back(g[n - 1])
  BY <1>2, <1>3
<1>5. g = Chain(g)
  <2>1. \A n \in 0..MaxRev : g[n] = Chain(g)[n]
    <3>1. \A n \in 0..MaxRev : n = 0 \/ n \in 1..MaxRev
      OBVIOUS
    <3> QED
      BY <1>2, <1>4, <3>1 DEF Back
  <2> QED
    BY <1>2, <2>1
<1>6. ChainOf(id) = Chain(ChainOf(id))
  BY <1>5, Zenon DEF ChainOf
<1> HIDE DEF Chain
<1>7. \A n \in 0..MaxRev : ChainOf(id)[n] = Chain(ChainOf(id))[n]
  BY <1>6
<1> QED
  BY <1>7 DEF Chain, Back

\* A chain goes down one revision at a time and ends at the first.
LEMMA ChainsDescend ==
    ASSUME IInv, NEW id \in Archived("manifest"), NEW m \in 0..MaxRev
    PROVE  IF m < id.rev
           THEN /\ ChainOf(id)[m] \in Archived("manifest")
                /\ ChainOf(id)[m].rev = id.rev - m
           ELSE ChainOf(id)[m] = None
<1> DEFINE Good(n) == IF n < id.rev
                      THEN /\ ChainOf(id)[n] \in Archived("manifest")
                           /\ ChainOf(id)[n].rev = id.rev - n
                      ELSE ChainOf(id)[n] = None
           U == {n \in 0..MaxRev : ~Good(n)}
<1>1. id \in RecordIds /\ id.rev \in 1..MaxRev
  BY DEF Archived, RecordIds
<1>2. /\ ChainOf(id)[0] = id
      /\ \A n \in 1..MaxRev : ChainOf(id)[n] = Back(ChainOf(id)[n - 1])
  BY <1>1, ChainSteps
<1>3. Good(0)
  BY <1>1, <1>2
<1>4. ASSUME NEW n \in 1..MaxRev, Good(n - 1)
      PROVE  Good(n)
  <2> DEFINE x == ChainOf(id)[n - 1]
  <2>1. ChainOf(id)[n] = Back(x)
    BY <1>2
  <2>2. CASE n - 1 < id.rev
    <3>1. x \in Archived("manifest") /\ x.rev = id.rev - (n - 1)
      BY <1>4, <2>2
    <3>2. x \in RecordIds /\ x # None /\ disk["artifact"][x] = disk["manifest"][x]
      <4>1. x \in RecordIds /\ Complete("manifest", x)
        BY <3>1 DEF Archived
      <4>2. disk["manifest"][x] \notin {Absent, Torn}
        BY <4>1 DEF Complete
      <4> QED
        BY <4>1, <4>2 DEF IInv, ManifestSealsArtifact
    <3> DEFINE sup == disk["manifest"][x].sup
    <3>3. Back(x) = IF sup \in Archived("manifest") THEN sup ELSE None
      BY <3>2 DEF Back
    <3>4. IF x.rev = 1 THEN sup = None
          ELSE sup \in Archived("manifest") /\ sup.key = x.key /\ sup.rev + 1 = x.rev
      BY <3>1 DEF IInv, LineageGrounded
    <3>5. CASE x.rev = 1
      <4>1. None \notin Archived("manifest")
        BY DEF Archived
      <4>2. ~(n < id.rev)
        BY <1>1, <3>1, <3>5
      <4> QED
        BY <2>1, <3>3, <3>4, <3>5, <4>1, <4>2
    <3>6. CASE x.rev # 1
      <4>1. sup \in RecordIds
        BY <3>4, <3>6 DEF Archived
      <4>2. sup.rev \in 1..MaxRev
        BY <4>1 DEF RecordIds
      <4>3. sup.rev + 1 = id.rev - (n - 1)
        BY <3>1, <3>4, <3>6
      <4>4. n < id.rev /\ sup.rev = id.rev - n
        BY <1>1, <4>2, <4>3
      <4> QED
        BY <2>1, <3>3, <3>4, <3>6, <4>4
    <3> QED
      BY <3>5, <3>6
  <2>3. CASE ~(n - 1 < id.rev)
    <3>1. x = None
      BY <1>4, <2>3
    <3>2. ~(n < id.rev)
      BY <1>1, <2>3
    <3> QED
      BY <2>1, <3>1, <3>2 DEF Back
  <2> QED
    BY <2>2, <2>3
<1>5. U = {}
  <2>1. SUFFICES ASSUME U # {} PROVE FALSE
    OBVIOUS
  <2>2. U \in SUBSET Nat
    OBVIOUS
  <2> HIDE DEF U
  <2>3. PICK n \in U : \A y \in U : n <= y
    BY <2>1, <2>2, LeastNatural
  <2>4. n \in 0..MaxRev /\ ~Good(n)
    BY DEF U
  <2> HIDE DEF Good
  <2>5. n \in 1..MaxRev
    BY <1>3, <2>4
  <2>6. n - 1 \in 0..MaxRev /\ n - 1 \notin U
    BY <2>2, <2>3, <2>5
  <2>7. Good(n - 1)
    BY <2>6 DEF U
  <2> QED
    BY <1>4, <2>4, <2>5, <2>7
<1> QED
  BY <1>5

----------------------------------------------------------------------------
(* Sessions.                                                               *)

\* What a call has collected is archived already.
SessionsInv ==
    job.records \subseteq Archived("manifest") /\ SessionsListArchived

\* What is archived stays so.
LEMMA ArchivedGrows ==
    ASSUME IInv, [Next]_vars, NEW p \in Parts
    PROVE  /\ Archived(p) \subseteq Archived(p)'
           /\ \A id \in Archived(p) : disk'[p][id] = disk[p][id]
<1>1. \A id \in RecordIds : Complete(p, id) => disk'[p][id] = disk[p][id]
  BY StepOnFiles DEF IInv, TypeOK
<1> QED
  BY <1>1 DEF Archived, Complete

\* Returns collects what it is given, or nothing.
LEMMA ReturnsCollects ==
    ASSUME TypeOK, NEW taken, NEW failed, Returns(taken, failed)
    PROVE  job'.records \subseteq job.records \cup taken
BY DEF Returns, TypeOK, Jobs, NoJob

LEMMA SessionsStep ==
    ASSUME IInv, SessionsInv, [Next]_vars
    PROVE  SessionsInv'
<1>1. Archived("manifest") \subseteq Archived("manifest")'
  BY ArchivedGrows DEF Parts
<1>2. job'.records \subseteq Archived("manifest")
  <2>1. CASE \E taken : \E failed : taken \subseteq Archived("manifest") /\ Returns(taken, failed)
    BY <2>1, ReturnsCollects DEF IInv, SessionsInv
  <2>2. CASE CaptureInvalid \/ Collide \/ \E a \in Artifacts : CaptureRefused(a)
    <3>1. Returns({}, TRUE)
      BY <2>2 DEF CaptureInvalid, Collide, CaptureRefused
    <3> QED
      BY <2>1, <3>1
  <2>3. ASSUME NEW a \in Artifacts, CaptureDuplicate(a)
        PROVE  job'.records \subseteq Archived("manifest")
    <3>1. Returns({latest_by_logical_key[a.key]}, FALSE)
      BY <2>3 DEF CaptureDuplicate
    <3>2. latest_by_logical_key[a.key] \in Archived("manifest")
      BY <2>3 DEF CaptureDuplicate, Duplicate, IInv, MemoryOK, Known, Archived, Artifacts
    <3> QED
      BY <2>1, <3>1, <3>2
  <2>4. CASE Index
    <3>1. Returns({pending.id}, FALSE)
      BY <2>4 DEF Index
    <3>2. /\ pending \in Bodies /\ pending.id \in RecordIds
          /\ disk["manifest"][pending.id] = pending
      BY <2>4 DEF Index, IInv, PendingOK, PendingFiles, Building, Bodies
    <3>3. pending.id \in Archived("manifest")
      BY <3>2 DEF Archived, Complete
    <3> QED
      BY <2>1, <3>1, <3>3
  <2>5. CASE job' = job
    BY <2>5 DEF SessionsInv
  <2>6. CASE job'.records \in {{}, job.records}
    BY <2>6 DEF SessionsInv
  <2>7. CASE EndBatch
    BY <2>6, <2>7 DEF EndBatch, IInv, TypeOK, Jobs
  <2>8. CASE \/ BeginBatch \/ SessionKnown \/ FillSession \/ SessionCollides
             \/ Crash \/ WriteFails
    BY <2>6, <2>8
    DEF BeginBatch, SessionKnown, FillSession, SessionCollides, Crash, WriteFails, NoJob
  <2>9. CASE \/ Open \/ OpenFails \/ CreateFile \/ FillFile \/ KeepFile \/ CreateSession
             \/ UNCHANGED vars \/ \E a \in Artifacts : CaptureBegins(a)
    BY <2>5, <2>9
    DEF Open, OpenFails, CreateFile, FillFile, KeepFile, CreateSession, vars, control,
        CaptureBegins
  <2> QED
    BY <2>2, <2>3, <2>4, <2>7, <2>8, <2>9 DEF Next
<1>3. sessionFiles' \subseteq sessionFiles \cup {SessionOf}
  BY DEF Next, files, memory, Open, OpenFails, vars, BeginBatch,
     CaptureInvalid, CaptureDuplicate, CaptureRefused, CaptureBegins,
     CreateFile, FillFile, KeepFile, Collide, Index, EndBatch, SessionKnown,
     CreateSession, FillSession, SessionCollides, Crash, WriteFails
<1> QED
  BY <1>1, <1>2, <1>3 DEF SessionsInv, SessionsListArchived, SessionOf

LEMMA SessionsInductive == Spec => []SessionsInv
<1>1. Init => SessionsInv
  BY DEF Init, SessionsInv, SessionsListArchived, NoJob
<1>2. IInv /\ SessionsInv /\ [Next]_vars => SessionsInv'
  BY SessionsStep
<1> QED
  BY <1>1, <1>2, Inductive, PTL DEF Spec

\* Whatever crashes and fails in between: each correction is on the chain of its
\* predecessors, which resolve_supersedes_chain walks down to the first revision,
\* and each session manifest lists archived records.
THEOREM ArchivedIsAlwaysGrounded == Spec => []ArchivedIsGrounded
<1>1. IInv => ChainsReachTheFirst
  BY ChainsDescend DEF ChainsReachTheFirst
<1>2. IInv /\ SessionsInv => ArchivedIsGrounded
  BY <1>1 DEF IInv, SessionsInv, ArchivedIsGrounded
<1> QED
  BY <1>2, Inductive, SessionsInductive, PTL

----------------------------------------------------------------------------
(* Before the first fault.                                                 *)

\* The files of a record are written in their order, to paths that are free.
FreshFiles ==
    /\ \A id \in RecordIds \ Known :
          \/ Building /\ id = pending.id
          \/ \A p \in Parts : disk[p][id] = Absent
    /\ \A id \in Known, p \in Parts : disk[p][id] # Torn
    /\ Building =>
          /\ pending.id \notin Known
          /\ part = "artifact" => disk["manifest"][pending.id] = Absent
          /\ part # "original" => disk["original"][pending.id] = Absent
          /\ pc = "create" => disk[part][pending.id] = Absent

\* The index has the highest revision of a key, which the pending record supersedes.
LatestIsHighest ==
    /\ \A id \in Known : /\ latest_by_logical_key[id.key] # None
                         /\ id.rev <= latest_by_logical_key[id.key].rev
    /\ Building => pending.sup = latest_by_logical_key[pending.id.key]

Unforked ==
    /\ FreshFiles /\ LatestIsHighest /\ ForkFree
    /\ pc = "down" => Known = {}

CleanInv == crashes = 0 /\ failures = 0 => Unforked

LEMMA CleanInit == Init => CleanInv
<1> SUFFICES ASSUME Init PROVE Unforked
  BY DEF CleanInv
<1>1. Known = {}
  BY DEF Init, Known, NoRecords
<1>2. \A p \in Parts, id \in RecordIds : disk[p][id] = Absent
  BY DEF Init
<1>3. FreshFiles /\ LatestIsHighest
  BY <1>1, <1>2 DEF FreshFiles, LatestIsHighest, Init, Building
<1>4. ForkFree
  BY <1>2 DEF ForkFree, Archived, Complete, Parts
<1> QED
  BY <1>1, <1>3, <1>4 DEF Unforked

\* Between two records the files and the dictionaries stay as they are.
LEMMA QuietIsClean ==
    ASSUME Unforked, ~Building, ~Building', pc # "down", pc' # "down",
           UNCHANGED <<disk, records, latest_by_logical_key>>
    PROVE  Unforked'
<1>1. FreshFiles' /\ LatestIsHighest'
  BY DEF Unforked, FreshFiles, LatestIsHighest, Known
<1>2. ForkFree'
  BY DEF Unforked, ForkFree, Archived, Complete
<1> QED
  BY <1>1, <1>2 DEF Unforked

\* A start of an archive with no faults behind it finds nothing.
LEMMA FirstOpenIsClean ==
    ASSUME IInv, Unforked, Open
    PROVE  Unforked'
<1>1. Known = {} /\ ~Building /\ ~Building' /\ pc' = "idle" /\ disk' = disk
  BY DEF Unforked, Open, Building, files
<1>2. \A p \in Parts, id \in RecordIds : disk[p][id] = Absent
  BY <1>1 DEF Unforked, FreshFiles
<1>3. Loadable = {}
  BY <1>2 DEF Loadable, Archived, Complete, Parts
<1>4. Known' = {}
  BY <1>3 DEF Open, Known
<1>5. FreshFiles' /\ LatestIsHighest'
  BY <1>1, <1>2, <1>4 DEF FreshFiles, LatestIsHighest
<1>6. ForkFree'
  BY <1>1 DEF Unforked, ForkFree, Archived, Complete
<1> QED
  BY <1>1, <1>5, <1>6 DEF Unforked

\* The record that is begun has not been there before.
LEMMA BeginIsClean ==
    ASSUME IInv, Unforked, NEW a \in Artifacts, CaptureBegins(a)
    PROVE  Unforked'
<1>1. /\ ~Building /\ Building' /\ pc' = "create" /\ part' = "artifact"
      /\ pending' = RecordOf(a) /\ RecordOf(a).id \notin Known
      /\ UNCHANGED <<disk, records, latest_by_logical_key>>
  BY DEF CaptureBegins, Accepts, Ready, Admitted, Building, files, memory
<1>2. Known' = Known /\ Archived("manifest")' = Archived("manifest")
  BY <1>1 DEF Known, Archived, Complete
<1>3. RecordOf(a).id \in RecordIds
  <2>1. IInv'
    BY BeginKeepsIInv
  <2>2. pending' \in Bodies
    BY <1>1, <2>1 DEF IInv, PendingOK
  <2> QED
    BY <1>1, <2>2 DEF Bodies
<1>4. \A p \in Parts : disk[p][RecordOf(a).id] = Absent
  BY <1>1, <1>3 DEF Unforked, FreshFiles
<1>5. FreshFiles'
  BY <1>1, <1>2, <1>4 DEF Unforked, FreshFiles, Parts
<1>6. RecordOf(a).sup = latest_by_logical_key[a.key] /\ RecordOf(a).id.key = a.key
  BY DEF RecordOf
<1>7. LatestIsHighest'
  BY <1>1, <1>2, <1>6 DEF Unforked, LatestIsHighest
<1>8. ForkFree'
  BY <1>2 DEF Unforked, ForkFree
<1> QED
  BY <1>1, <1>5, <1>7, <1>8 DEF Unforked

\* What the invariants say of the record that is being built.
LEMMA PendingIsKnown ==
    ASSUME IInv, Building
    PROVE  /\ pending \in Bodies /\ pending.id \in RecordIds
           /\ pending.id.key \in Keys /\ pending.id.rev \in 1..MaxRev
           /\ part \in Parts /\ PendingGrounded /\ PendingFiles
BY DEF IInv, PendingOK, TypeOK, Bodies, RecordIds

LEMMA CreateIsClean ==
    ASSUME IInv, Unforked, CreateFile
    PROVE  Unforked'
<1>1. /\ Building /\ Building' /\ pc' = "fill" /\ part' = part /\ pending' = pending
      /\ UNCHANGED <<records, latest_by_logical_key>>
  BY DEF CreateFile, Building, memory
<1>2. pending.id \in RecordIds /\ part \in Parts /\ pending.id \notin Known
  BY <1>1, PendingIsKnown DEF Unforked, FreshFiles
<1>3. \A p \in Parts, id \in RecordIds :
         disk'[p][id] = IF p = part /\ id = pending.id THEN Torn ELSE disk[p][id]
  BY <1>2 DEF CreateFile, IInv, TypeOK
<1>4. Known' = Known
  BY <1>1 DEF Known
<1>5. Archived("manifest")' = Archived("manifest")
  BY <1>3 DEF Archived, Complete, Parts, CreateFile
<1>6. \A id \in RecordIds : id # pending.id => \A p \in Parts : disk'[p][id] = disk[p][id]
  BY <1>3
<1>7. FreshFiles'
  <2>1. \A id \in Known' : id \in RecordIds /\ id # pending.id
    BY <1>2, <1>4 DEF Known
  <2>2. part = "artifact" => disk'["manifest"][pending.id] = disk["manifest"][pending.id]
    BY <1>2, <1>3 DEF Parts
  <2>3. part # "original" => disk'["original"][pending.id] = disk["original"][pending.id]
    BY <1>2, <1>3 DEF Parts
  <2> QED
    BY <1>1, <1>2, <1>4, <1>6, <2>1, <2>2, <2>3 DEF Unforked, FreshFiles
<1>8. LatestIsHighest' /\ ForkFree'
  BY <1>1, <1>4, <1>5 DEF Unforked, LatestIsHighest, ForkFree
<1> QED
  BY <1>1, <1>7, <1>8 DEF Unforked

\* A manifest that is completed is the first of its revision.
LEMMA FillIsClean ==
    ASSUME IInv, Unforked, FillFile
    PROVE  Unforked'
<1>1. /\ Building /\ Building' /\ pc' # "down" /\ pending' = pending
      /\ UNCHANGED <<records, latest_by_logical_key>>
  BY DEF FillFile, Proceed, Building, memory
<1>2. /\ pending \in Bodies /\ pending.id \in RecordIds /\ pending.id.rev \in 1..MaxRev
      /\ part \in Parts /\ pending.id \notin Known /\ PendingGrounded
  BY <1>1, PendingIsKnown DEF Unforked, FreshFiles
<1>3. \A p \in Parts, id \in RecordIds :
         disk'[p][id] = IF p = part /\ id = pending.id THEN Content ELSE disk[p][id]
  BY <1>2 DEF FillFile, IInv, TypeOK
<1>4. Known' = Known
  BY <1>1 DEF Known
<1>5. \A id \in RecordIds : id # pending.id => \A p \in Parts : disk'[p][id] = disk[p][id]
  BY <1>3
<1>6. FreshFiles'
  <2>1. \A id \in Known' : id \in RecordIds /\ id # pending.id
    BY <1>2, <1>4 DEF Known
  <2>2. \A p \in Parts : p # part => disk'[p][pending.id] = disk[p][pending.id]
    BY <1>2, <1>3
  <2>3. CASE part = "artifact"
    <3>1. pc' = "create" /\ part' = "manifest"
      BY <2>3 DEF FillFile, Proceed
    <3>2. disk'["manifest"][pending.id] = Absent /\ disk'["original"][pending.id] = Absent
      BY <1>1, <2>2, <2>3 DEF Unforked, FreshFiles, Parts
    <3> QED
      BY <1>1, <1>2, <1>4, <1>5, <2>1, <3>1, <3>2 DEF Unforked, FreshFiles
  <2>4. CASE part = "manifest"
    <3>1. disk'["original"][pending.id] = Absent
      BY <1>1, <2>2, <2>4 DEF Unforked, FreshFiles, Parts
    <3>2. \/ pc' = "create" /\ part' = "original"
          \/ pc' = "index" /\ part' = "manifest"
      BY <2>4 DEF FillFile, Proceed
    <3> QED
      BY <1>1, <1>2, <1>4, <1>5, <2>1, <3>1, <3>2 DEF Unforked, FreshFiles
  <2>5. CASE part = "original"
    <3>1. pc' = "index" /\ part' = "original"
      BY <2>5 DEF FillFile, Proceed
    <3> QED
      BY <1>1, <1>2, <1>4, <1>5, <2>1, <3>1 DEF Unforked, FreshFiles
  <2> QED
    BY <1>2, <2>3, <2>4, <2>5 DEF Parts
<1>7. LatestIsHighest'
  BY <1>1, <1>4 DEF Unforked, LatestIsHighest
<1>8. \A id \in Archived("manifest") : id \in RecordIds /\ (id = pending.id \/ id \in Known)
  BY <1>1 DEF Unforked, FreshFiles, Archived, Complete, Parts
<1>9. \A id \in Archived("manifest")' : id \in Archived("manifest") \/ id = pending.id
  BY <1>5 DEF Archived, Complete, Parts
<1>10. ASSUME NEW id \in Known, id.key = pending.id.key
       PROVE  id.rev # pending.id.rev
  <2> DEFINE latest == latest_by_logical_key[id.key]
  <2>1. latest # None /\ id.rev <= latest.rev /\ pending.sup = latest
    BY <1>1, <1>10 DEF Unforked, LatestIsHighest
  <2>2. pending.id.rev # 1 /\ latest.rev + 1 = pending.id.rev /\ latest \in RecordIds
    BY <1>2, <2>1 DEF PendingGrounded, Archived
  <2>3. id.rev \in 1..MaxRev /\ latest.rev \in 1..MaxRev
    BY <2>2 DEF Known, RecordIds
  <2> QED
    BY <1>2, <2>1, <2>2, <2>3
<1>11. ForkFree'
  <2>1. ASSUME NEW id1 \in Archived("manifest")', NEW id2 \in Archived("manifest")',
               id1.key = id2.key, id1.rev = id2.rev
        PROVE  id1 = id2
    <3>1. CASE id1 # pending.id /\ id2 # pending.id
      BY <1>9, <2>1, <3>1 DEF Unforked, ForkFree
    <3>2. CASE id1 = pending.id
      BY <1>8, <1>9, <1>10, <2>1, <3>2
    <3>3. CASE id2 = pending.id
      BY <1>8, <1>9, <1>10, <2>1, <3>3
    <3> QED
      BY <3>1, <3>2, <3>3
  <2> QED
    BY <2>1 DEF ForkFree
<1> QED
  BY <1>1, <1>6, <1>7, <1>11 DEF Unforked

LEMMA IndexIsClean ==
    ASSUME IInv, Unforked, Index
    PROVE  Unforked'
<1> DEFINE id == pending.id
<1>1. /\ Building /\ pc = "index" /\ pc' \in {"idle", "batch"} /\ ~Building'
      /\ disk' = disk
  BY DEF Index, Returns, Building, files
<1>2. /\ pending \in Bodies /\ id \in RecordIds /\ id.key \in Keys /\ id.rev \in 1..MaxRev
      /\ part \in Parts /\ PendingGrounded /\ PendingFiles
  BY <1>1, PendingIsKnown
<1>3. Known' = Known \cup {id}
  BY <1>2 DEF Index, Known, IInv, TypeOK
<1>4. \A k \in Keys :
         latest_by_logical_key'[k] = IF k = id.key THEN id ELSE latest_by_logical_key[k]
  BY <1>2 DEF Index, IInv, TypeOK
<1>5. disk["artifact"][id] = pending /\ disk["manifest"][id] = pending
  BY <1>1, <1>2 DEF PendingFiles, Parts
<1>6. disk["original"][id] # Torn
  <2>1. CASE part = "original"
    BY <1>1, <1>2, <2>1 DEF PendingFiles, Complete
  <2>2. CASE part # "original"
    BY <1>1, <2>2 DEF Unforked, FreshFiles
  <2> QED
    BY <2>1, <2>2
<1>7. FreshFiles'
  <2>1. \A p \in Parts : disk[p][id] # Torn
    BY <1>2, <1>5, <1>6 DEF Parts
  <2> QED
    BY <1>1, <1>3, <2>1 DEF Unforked, FreshFiles
<1>8. LatestIsHighest'
  <2>1. ASSUME NEW other \in Known'
        PROVE  /\ latest_by_logical_key'[other.key] # None
               /\ other.rev <= latest_by_logical_key'[other.key].rev
    <3>1. other \in RecordIds /\ other.key \in Keys /\ other.rev \in 1..MaxRev
      BY <1>2, <1>3, <2>1 DEF Known, RecordIds
    <3>2. CASE other.key # id.key
      <4>1. other \in Known
        BY <1>3, <2>1, <3>2
      <4> QED
        BY <1>4, <3>1, <3>2, <4>1 DEF Unforked, LatestIsHighest
    <3>3. CASE other = id
      BY <1>2, <1>4, <3>1, <3>3
    <3>4. CASE other.key = id.key /\ other # id
      <4> DEFINE latest == latest_by_logical_key[id.key]
      <4>1. other \in Known
        BY <1>3, <2>1, <3>4
      <4>2. latest # None /\ other.rev <= latest.rev /\ pending.sup = latest
        BY <1>1, <3>4, <4>1 DEF Unforked, LatestIsHighest
      <4>3. latest.rev + 1 = id.rev /\ latest \in RecordIds
        BY <1>2, <4>2 DEF PendingGrounded, Archived
      <4>4. latest.rev \in 1..MaxRev
        BY <4>3 DEF RecordIds
      <4> QED
        BY <1>2, <1>4, <3>1, <3>4, <4>2, <4>3, <4>4
    <3> QED
      BY <3>2, <3>3, <3>4
  <2> QED
    BY <1>1, <2>1 DEF LatestIsHighest
<1>9. ForkFree'
  BY <1>1 DEF Unforked, ForkFree, Archived, Complete
<1> QED
  BY <1>1, <1>7, <1>8, <1>9 DEF Unforked

\* Before a fault the path of a new record is free: it meets no file.
LEMMA NoFileIsMet == IInv /\ Unforked => ~KeepFile /\ ~Collide
<1> SUFFICES ASSUME IInv, Unforked, KeepFile \/ Collide PROVE FALSE
  OBVIOUS
<1>1. Building /\ pc = "create"
  BY DEF KeepFile, Collide, Building
<1>2. disk[part][pending.id] = Absent
  BY <1>1 DEF Unforked, FreshFiles
<1>3. CASE Collide
  BY <1>2, <1>3 DEF Collide
<1>4. CASE KeepFile
  <2>1. Content # Absent
    BY <1>1, PendingIsKnown DEF PendingFiles, Content, Bodies
  <2> QED
    BY <1>2, <1>4, <2>1 DEF KeepFile
<1> QED
  BY <1>3, <1>4

LEMMA CleanStep ==
    ASSUME IInv, CleanInv, [Next]_vars
    PROVE  CleanInv'
<1> SUFFICES ASSUME crashes' = 0, failures' = 0
             PROVE  Unforked'
  BY DEF CleanInv
<1>1. ~Crash /\ ~WriteFails
  BY DEF Crash, WriteFails, IInv, TypeOK
<1>2. crashes = 0 /\ failures = 0
  BY <1>1
  DEF Next, Open, OpenFails, vars, BeginBatch, CaptureInvalid, CaptureDuplicate,
      CaptureRefused, CaptureBegins, CreateFile, FillFile, KeepFile, Collide, Index,
      EndBatch, SessionKnown, CreateSession, FillSession, SessionCollides, faults
<1>3. Unforked
  BY <1>2 DEF CleanInv
<1>4. CASE UNCHANGED vars \/ OpenFails
  BY <1>3, <1>4
  DEF OpenFails, vars, files, memory, control, Unforked, FreshFiles, LatestIsHighest,
      ForkFree, Known, Archived, Complete, Building
<1>5. CASE CaptureInvalid \/ \E a \in Artifacts : CaptureDuplicate(a) \/ CaptureRefused(a)
  <2>1. /\ ~Building /\ ~Building' /\ pc # "down" /\ pc' # "down"
        /\ UNCHANGED <<disk, records, latest_by_logical_key>>
    BY <1>5
    DEF CaptureInvalid, CaptureDuplicate, CaptureRefused, Accepts, Ready, Returns,
        Building, files, memory
  <2> QED
    BY <1>3, <2>1, QuietIsClean
<1>6. CASE BeginBatch \/ EndBatch \/ SessionKnown \/ CreateSession \/ FillSession \/ SessionCollides
  <2>1. /\ ~Building /\ ~Building' /\ pc # "down" /\ pc' # "down"
        /\ UNCHANGED <<disk, records, latest_by_logical_key>>
    BY <1>6
    DEF BeginBatch, EndBatch, SessionKnown, CreateSession, FillSession, SessionCollides,
        Building, files, memory
  <2> QED
    BY <1>3, <2>1, QuietIsClean
<1>7. CASE Next /\ ~OpenFails
  BY <1>1, <1>3, <1>5, <1>6, <1>7, NoFileIsMet, FirstOpenIsClean, BeginIsClean,
     CreateIsClean, FillIsClean, IndexIsClean
  DEF Next
<1> QED
  BY <1>4, <1>7

\* Until the first crash or failed write _next_revision keeps the revisions of a key
\* on one line, and the only torn file is the one being written.
THEOREM ForkFreeAlwaysUntilFault == Spec => []ForkFreeUntilFault
<1>1. IInv /\ CleanInv => ForkFreeUntilFault
  <2> SUFFICES ASSUME IInv, Unforked, NEW p \in Parts, NEW id \in RecordIds, disk[p][id] = Torn
               PROVE  pc = "fill" /\ p = part /\ id = pending.id
    BY DEF CleanInv, ForkFreeUntilFault, Unforked
  <2>1. id \notin Known /\ Building /\ id = pending.id
    BY DEF Unforked, FreshFiles
  <2>2. PendingFiles /\ pending \in Bodies /\ part \in Parts
    BY <2>1, PendingIsKnown
  <2>3. pending # Torn /\ Absent # Torn
    BY <2>2
  <2>4. CASE part = "artifact"
    <3>1. disk["manifest"][id] = Absent /\ disk["original"][id] = Absent
      BY <2>1, <2>4 DEF Unforked, FreshFiles
    <3>2. p = part
      BY <2>3, <2>4, <3>1 DEF Parts
    <3>3. pc # "index"
      BY <2>2, <2>4 DEF PendingFiles
    <3>4. pc # "create"
      BY <2>1, <2>3, <3>2 DEF Unforked, FreshFiles
    <3> QED
      BY <2>1, <3>2, <3>3, <3>4 DEF Building
  <2>5. CASE part = "manifest"
    <3>1. disk["artifact"][id] = pending /\ disk["original"][id] = Absent
      BY <2>1, <2>2, <2>5 DEF Unforked, FreshFiles, PendingFiles
    <3>2. p = part
      BY <2>3, <2>5, <3>1 DEF Parts
    <3>3. pc # "index"
      BY <2>1, <2>2, <2>3, <2>5, <3>2 DEF PendingFiles
    <3>4. pc # "create"
      BY <2>1, <2>3, <3>2 DEF Unforked, FreshFiles
    <3> QED
      BY <2>1, <3>2, <3>3, <3>4 DEF Building
  <2>6. CASE part = "original"
    <3>1. disk["artifact"][id] = pending /\ disk["manifest"][id] = pending
      BY <2>1, <2>2, <2>6 DEF PendingFiles
    <3>2. p = part
      BY <2>3, <2>6, <3>1 DEF Parts
    <3>3. pc # "index"
      BY <2>1, <2>2, <2>6, <3>2 DEF PendingFiles, Complete
    <3>4. pc # "create"
      BY <2>1, <2>3, <3>2 DEF Unforked, FreshFiles
    <3> QED
      BY <2>1, <3>2, <3>3, <3>4 DEF Building
  <2> QED
    BY <2>2, <2>4, <2>5, <2>6 DEF Parts
<1>2. IInv /\ CleanInv /\ [Next]_vars => CleanInv'
  BY CleanStep
<1> QED
  BY <1>1, <1>2, CleanInit, Inductive, PTL DEF Spec

----------------------------------------------------------------------------
(* The reader's view.                                                      *)

\* The reader's view of a cutoff changes only with a record of that key which
\* was available by then (_select_visible).
THEOREM ViewsAreStable == Spec => AsOfStable
<1> DEFINE Stable ==
        disk' # disk =>
            \A k \in Keys \ PostKeys, cutoff \in Times :
                Visible(k, cutoff)' # Visible(k, cutoff) =>
                \E id \in RecordIds :
                    /\ id \in Archived("manifest")' \ Archived("manifest")
                    /\ id.key = k /\ disk["artifact"]'[id].avail <= cutoff
<1>1. ASSUME IInv, IInv', [Next]_vars
      PROVE  Stable
  <2> SUFFICES ASSUME NEW k \in Keys \ PostKeys, NEW cutoff \in Times,
                      \A id \in Archived("manifest")' \ Archived("manifest") :
                          id.key = k => ~(disk'["artifact"][id].avail <= cutoff)
               PROVE  Visible(k, cutoff)' = Visible(k, cutoff)
    BY DEF Archived
  <2>1. ASSUME NEW id \in Archived("manifest")
        PROVE  /\ id \in Archived("manifest")'
               /\ disk'["artifact"][id] = disk["artifact"][id]
    <3>1. id \in Archived("manifest")'
      BY <1>1, ArchivedGrows DEF Parts
    <3>2. id \in Archived("artifact")
      BY <1>1 DEF IInv, ManifestSealsArtifact, Archived, Complete
    <3> QED
      BY <1>1, <3>1, <3>2, ArchivedGrows DEF Parts
  <2>2. \A id \in Archived("manifest") : disk'["artifact"][id] = disk["artifact"][id]
    BY <2>1
  <2>3. ASSUME NEW id \in Archived("manifest")'
        PROVE  disk'["artifact"][id].id = id
    <3>1. id \in RecordIds /\ Complete("manifest", id)'
      BY DEF Archived
    <3>2. Complete("artifact", id)'
      BY <1>1, <3>1 DEF IInv, ManifestSealsArtifact, Complete
    <3> QED
      BY <1>1, <3>1, <3>2 DEF IInv, FilesOK
  <2>4. Available(k, cutoff)' = Available(k, cutoff)
    <3>1. ASSUME NEW e \in Available(k, cutoff)
          PROVE  e \in Available(k, cutoff)'
      BY <2>1, <2>2 DEF Available, Entries
    <3>2. ASSUME NEW e \in Available(k, cutoff)'
          PROVE  e \in Available(k, cutoff)
      <4>1. PICK id \in Archived("manifest")' : e = disk'["artifact"][id]
        BY DEF Available, Entries
      <4>2. e.id.key = k /\ e.avail <= cutoff
        BY DEF Available
      <4>3. id.key = k
        BY <2>3, <4>1, <4>2
      <4>4. id \in Archived("manifest")
        BY <4>1, <4>2, <4>3
      <4> QED
        BY <2>2, <4>1, <4>2, <4>4 DEF Available, Entries
    <3> QED
      BY <3>1, <3>2
  <2> QED
    BY <2>4 DEF Visible
<1>2. IInv /\ IInv' /\ [Next]_vars => [Stable]_vars
  BY <1>1
<1> QED
  BY <1>2, Inductive, PTL DEF Spec, AsOfStable

============================================================================
