------------------------------ MODULE Archive ------------------------------
(***************************************************************************)
(* The historical source archive: ArchiveRuntime, the single writer of an  *)
(* append-only directory of artifact, manifest and original files, with    *)
(* the in-memory index it rebuilds at every start; and the selection the   *)
(* GovernedArchiveReader makes over the same directory.                    *)
(*                                                                         *)
(* A write is two steps, as write_bytes is: the file is created empty,     *)
(* then filled.  A crash or an OSError may come between any two steps.     *)
(***************************************************************************)
EXTENDS Naturals, FiniteSets

CONSTANTS
    Keys,       \* logical artifact keys (match, cutoff profile, logical key)
    PostKeys,   \* the keys of post-match labels
    Files,      \* raw original files (screenshots)
    Payloads,   \* structured payloads, the source reference included
    Execs,      \* execution ids and capture times: in the bytes, not in the id
    Times,      \* source availability times
    SuppliedRevs,   \* revisions callers pass along with an artifact
    MaxRev,     \* bound: revisions of one key
    MaxBatch,   \* bound: artifacts of one capture_pre_match call (0: no calls)
    MaxCrashes, \* bound: process ends
    MaxFailures,    \* bound: writes that raise OSError
    None,       \* Python's None
    Absent,     \* no such file
    Torn        \* a file created but not filled

Parts == {"artifact", "manifest", "original"}
Hashes == Files \cup Payloads
RecordIds == [key: Keys, rev: 1..MaxRev, hash: Hashes]
Bodies == [id: RecordIds, file: Files \cup {None}, pay: Payloads,
           exec: Execs, avail: Times, sup: RecordIds \cup {None}]
SessionIds == [records: SUBSET RecordIds, failed: BOOLEAN]

\* What a caller hands to _build_record, past the checks on the artifact alone
\* (type, times, payload, identity, hash): CaptureInvalid stands for those.
Artifacts == [key: Keys, file: Files \cup {None}, pay: Payloads,
              exec: Execs, avail: Times, sup: RecordIds \cup {None},
              rev: SuppliedRevs]

ASSUME ArchiveAssumption ==
    /\ MaxRev \in Nat /\ MaxBatch \in Nat
    /\ MaxCrashes \in Nat /\ MaxFailures \in Nat
    /\ PostKeys \subseteq Keys
    /\ SuppliedRevs \subseteq 1..MaxRev \cup {None}
    /\ Times \subseteq Nat
    /\ None \notin Files \cup RecordIds \cup (1..MaxRev)
    /\ Files \cap Payloads = {}
    /\ Absent # Torn
    /\ {Absent, Torn} \cap (Bodies \cup Files) = {}

VARIABLES
    disk,       \* [part -> [record id -> Absent, Torn or the content]]
    sessionFiles, tornSessions,             \* manifests/sessions/*.json
    records, latest_by_logical_key,         \* ArchiveRuntime's dictionaries
    original_files, sessions,
    pc,         \* where the runtime is in the call it executes
    part,       \* the file it writes
    pending,    \* the record it builds
    job,        \* the capture_pre_match call around it
    acked,      \* history: what callers were told is CAPTURED
    crashes, failures   \* history: process ends and failed writes so far

files == <<disk, sessionFiles, tornSessions>>
memory == <<records, latest_by_logical_key, original_files, sessions>>
control == <<pc, part, pending, job>>
faults == <<crashes, failures>>
vars == <<files, memory, control, acked, faults>>

NoJob == [batch |-> FALSE, records |-> {}, failed |-> FALSE, size |-> 0]
Jobs == [batch: BOOLEAN, records: SUBSET RecordIds, failed: BOOLEAN,
         size: 0..MaxBatch]

Complete(p, id) == disk[p][id] \notin {Absent, Torn}
Archived(p) == {id \in RecordIds : Complete(p, id)}
Known == {id \in RecordIds : records[id] # Absent}

TypeOK ==
    /\ disk \in [Parts -> [RecordIds -> Bodies \cup Files \cup {Absent, Torn}]]
    /\ sessionFiles \subseteq SessionIds /\ tornSessions \subseteq SessionIds
    /\ records \in [RecordIds -> Bodies \cup {Absent}]
    /\ latest_by_logical_key \in [Keys -> RecordIds \cup {None}]
    /\ original_files \subseteq RecordIds
    /\ sessions \subseteq SessionIds
    /\ pc \in {"down", "idle", "batch", "create", "fill", "index",
               "session", "session_fill"}
    /\ part \in Parts
    /\ pending \in Bodies \cup {None}
    /\ job \in Jobs
    /\ acked \subseteq {"APPENDED", "DUPLICATE_NOOP"} \X RecordIds
    /\ crashes \in 0..MaxCrashes /\ failures \in 0..MaxFailures

----------------------------------------------------------------------------
(* The runtime starts: _load_persisted.                                    *)

NoRecords == [id \in RecordIds |-> Absent]
NoLatest == [k \in Keys |-> None]

Init ==
    /\ disk = [p \in Parts |-> [id \in RecordIds |-> Absent]]
    /\ sessionFiles = {} /\ tornSessions = {}
    /\ records = NoRecords
    /\ latest_by_logical_key = NoLatest
    /\ original_files = {} /\ sessions = {}
    /\ pc = "down" /\ part = "artifact" /\ pending = None /\ job = NoJob
    /\ acked = {} /\ crashes = 0 /\ failures = 0

\* Records whose manifest is found and whose artifact file exists.
Loadable == {id \in Archived("manifest") : disk["artifact"][id] # Absent}

\* json.loads raises on any file left torn.
LoadSucceeds ==
    /\ \A id \in RecordIds : disk["manifest"][id] # Torn
    /\ \A id \in Loadable : disk["artifact"][id] # Torn
    /\ tornSessions = {}

\* _index_record runs in the order glob yields the manifests, so the entry of
\* a key may end up at any of its records.
LoadedLatest ==
    {l \in [Keys -> Loadable \cup {None}] :
        \A k \in Keys :
            LET ofKey == {id \in Loadable : id.key = k}
            IN IF ofKey = {} THEN l[k] = None ELSE l[k] \in ofKey}

Open ==
    /\ pc = "down"
    /\ LoadSucceeds
    /\ records' = [id \in RecordIds |->
                     IF id \in Loadable THEN disk["artifact"][id] ELSE Absent]
    /\ latest_by_logical_key' \in LoadedLatest
    /\ original_files' = {id \in Loadable : disk["artifact"][id].file # None
                                            /\ disk["original"][id] # Absent}
    /\ sessions' = sessionFiles
    /\ pc' = "idle"
    /\ UNCHANGED <<files, part, pending, job, acked, faults>>

\* The constructor raises: the directory stays as it is.
OpenFails ==
    /\ pc = "down"
    /\ ~LoadSucceeds
    /\ UNCHANGED vars

----------------------------------------------------------------------------
(* One artifact: _build_record.                                            *)

OriginalHash(a) == IF a.file = None THEN a.pay ELSE a.file

Duplicate(a) ==
    /\ latest_by_logical_key[a.key] # None
    /\ LET previous == records[latest_by_logical_key[a.key]]
       IN previous.file = a.file /\ previous.pay = a.pay

NextRevision(a) ==
    IF latest_by_logical_key[a.key] = None THEN 1
    ELSE latest_by_logical_key[a.key].rev + 1

\* _next_revision accepts: the correction names the latest revision it knows.
RevisionAccepted(a) ==
    /\ a.sup = latest_by_logical_key[a.key]
    /\ a.rev \in {None, NextRevision(a)}

\* Mutant: supersedes what the predecessor supersedes.
RecordOf_StalePredecessor(a) ==
    LET latest == latest_by_logical_key[a.key]
    IN [id |-> [key |-> a.key, rev |-> NextRevision(a), hash |-> OriginalHash(a)],
        file |-> a.file, pay |-> a.pay, exec |-> a.exec, avail |-> a.avail,
        sup |-> IF latest = None THEN None ELSE records[latest].sup]

RecordOf(a) ==
    [id |-> [key |-> a.key, rev |-> NextRevision(a), hash |-> OriginalHash(a)],
     file |-> a.file, pay |-> a.pay, exec |-> a.exec, avail |-> a.avail,
     sup |-> latest_by_logical_key[a.key]]

Admitted(a) ==
    /\ RevisionAccepted(a)
    /\ RecordOf(a).id \notin Known

\* capture_pre_match, or one of the three single-record operations.
BeginBatch ==
    /\ pc = "idle" /\ MaxBatch > 0
    /\ pc' = "batch"
    /\ job' = [NoJob EXCEPT !.batch = TRUE]
    /\ UNCHANGED <<files, memory, part, pending, acked, faults>>

\* The runtime is at the top of _build_record.
Ready == (pc = "idle") \/ (pc = "batch" /\ job.size < MaxBatch)

\* A capture_pre_match call takes pre-match artifacts only.
Accepts(a) == Ready /\ (pc = "batch" => a.key \notin PostKeys)

\* The artifact is done with: its call returns, or capture_pre_match takes
\* note and goes on to the next one.
Returns(taken, failed) ==
    /\ pc' = IF job.batch THEN "batch" ELSE "idle"
    /\ job' = IF job.batch
              THEN [job EXCEPT !.records = @ \cup taken,
                               !.failed = @ \/ failed, !.size = @ + 1]
              ELSE NoJob

\* A check on the artifact alone fails.
CaptureInvalid ==
    /\ Ready
    /\ Returns({}, TRUE)
    /\ UNCHANGED <<files, memory, part, pending, acked, faults>>

CaptureDuplicate(a) ==
    /\ Accepts(a)
    /\ Duplicate(a)
    /\ LET id == latest_by_logical_key[a.key]
       IN /\ acked' = acked \cup {<<"DUPLICATE_NOOP", id>>}
          /\ Returns({id}, FALSE)
    /\ UNCHANGED <<files, memory, part, pending, faults>>

CaptureRefused(a) ==
    /\ Accepts(a)
    /\ ~Duplicate(a)
    /\ ~Admitted(a)
    /\ Returns({}, TRUE)
    /\ UNCHANGED <<files, memory, part, pending, acked, faults>>

CaptureBegins(a) ==
    /\ Accepts(a)
    /\ ~Duplicate(a)
    /\ Admitted(a)
    /\ NextRevision(a) <= MaxRev
    /\ pending' = RecordOf(a)
    /\ part' = "artifact"
    /\ pc' = "create"
    /\ UNCHANGED <<files, memory, job, acked, faults>>

----------------------------------------------------------------------------
(* The writes: artifact, then manifest, then the original bytes.           *)

Content == IF part = "original" THEN pending.file ELSE pending

\* Mutant: the original bytes are never written.
Proceed_DropsOriginal ==
    IF part = "artifact" THEN pc' = "create" /\ part' = "manifest"
    ELSE pc' = "index" /\ part' = part

\* pc and part after the current file is in place.
Proceed ==
    CASE part = "artifact" -> pc' = "create" /\ part' = "manifest"
      [] part = "manifest" /\ pending.file # None ->
            pc' = "create" /\ part' = "original"
      [] OTHER -> pc' = "index" /\ part' = part

CreateFile ==
    /\ pc = "create"
    /\ disk[part][pending.id] = Absent
    /\ disk' = [disk EXCEPT ![part][pending.id] = Torn]
    /\ pc' = "fill"
    /\ UNCHANGED <<sessionFiles, tornSessions, memory, part, pending, job,
                   acked, faults>>

FillFile ==
    /\ pc = "fill"
    /\ disk' = [disk EXCEPT ![part][pending.id] = Content]
    /\ Proceed
    /\ UNCHANGED <<sessionFiles, tornSessions, memory, pending, job,
                   acked, faults>>

\* Mutant: an existing file is kept whatever its bytes.
KeepFile_AnyBytes ==
    /\ pc = "create"
    /\ disk[part][pending.id] # Absent
    /\ Proceed
    /\ UNCHANGED <<files, memory, pending, job, acked, faults>>

\* The path exists with the same bytes: nothing is written.
KeepFile ==
    /\ pc = "create"
    /\ disk[part][pending.id] = Content
    /\ Proceed
    /\ UNCHANGED <<files, memory, pending, job, acked, faults>>

\* Mutant: a refused artifact is listed among the accepted ones.
Collide_Accepted ==
    /\ pc = "create"
    /\ disk[part][pending.id] \notin {Absent, Content}
    /\ Returns({pending.id}, TRUE)
    /\ pending' = None
    /\ UNCHANGED <<files, memory, part, acked, faults>>

\* The path exists with other bytes: APPEND_ONLY_PATH_COLLISION.
Collide ==
    /\ pc = "create"
    /\ disk[part][pending.id] \notin {Absent, Content}
    /\ Returns({}, TRUE)
    /\ pending' = None
    /\ UNCHANGED <<files, memory, part, acked, faults>>

\* Mutant: without _index_record.
Index_ForgetsLatest ==
    /\ pc = "index"
    /\ records' = [records EXCEPT ![pending.id] = pending]
    /\ original_files' = original_files \cup {pending.id}
    /\ acked' = acked \cup {<<"APPENDED", pending.id>>}
    /\ Returns({pending.id}, FALSE)
    /\ pending' = None
    /\ UNCHANGED <<files, latest_by_logical_key, sessions, part, faults>>

\* The record enters the dictionaries and is reported as APPENDED.
Index ==
    /\ pc = "index"
    /\ LET id == pending.id
       IN /\ records' = [records EXCEPT ![id] = pending]
          /\ original_files' = original_files \cup {id}
          /\ latest_by_logical_key' =
                [latest_by_logical_key EXCEPT ![id.key] = id]
          /\ acked' = acked \cup {<<"APPENDED", id>>}
          /\ Returns({id}, FALSE)
    /\ pending' = None
    /\ UNCHANGED <<files, sessions, part, faults>>

----------------------------------------------------------------------------
(* The session manifest at the end of capture_pre_match: _session.         *)

SessionOf == [records |-> job.records, failed |-> job.failed]

\* An empty list of artifacts is a BLOCKED session (NO_REAL_ARTIFACTS).
EndBatch ==
    /\ pc = "batch"
    /\ job' = [job EXCEPT !.failed = @ \/ job.size = 0]
    /\ pc' = "session"
    /\ UNCHANGED <<files, memory, part, pending, acked, faults>>

SessionKnown ==
    /\ pc = "session"
    /\ SessionOf \in sessions
    /\ pc' = "idle" /\ job' = NoJob
    /\ UNCHANGED <<files, memory, part, pending, acked, faults>>

CreateSession ==
    /\ pc = "session"
    /\ SessionOf \notin sessions
    /\ SessionOf \notin sessionFiles \cup tornSessions
    /\ tornSessions' = tornSessions \cup {SessionOf}
    /\ pc' = "session_fill"
    /\ UNCHANGED <<disk, sessionFiles, memory, part, pending, job, acked,
                   faults>>

FillSession ==
    /\ pc = "session_fill"
    /\ tornSessions' = tornSessions \ {SessionOf}
    /\ sessionFiles' = sessionFiles \cup {SessionOf}
    /\ sessions' = sessions \cup {SessionOf}
    /\ pc' = "idle" /\ job' = NoJob
    /\ UNCHANGED <<disk, records, latest_by_logical_key, original_files,
                   part, pending, acked, faults>>

\* A torn session file of an earlier try has other bytes: the call raises.
SessionCollides ==
    /\ pc = "session"
    /\ SessionOf \notin sessions
    /\ SessionOf \in tornSessions
    /\ pc' = "idle" /\ job' = NoJob
    /\ UNCHANGED <<files, memory, part, pending, acked, faults>>

----------------------------------------------------------------------------
(* Faults.                                                                 *)

\* The process ends, at any point; the next one starts from the directory.
Crash ==
    /\ pc # "down"
    /\ crashes < MaxCrashes
    /\ crashes' = crashes + 1
    /\ pc' = "down" /\ pending' = None /\ job' = NoJob
    /\ records' = NoRecords
    /\ latest_by_logical_key' = NoLatest
    /\ original_files' = {} /\ sessions' = {}
    /\ UNCHANGED <<files, part, acked, failures>>

\* A write raises OSError (disk full): it leaves every frame of the call, the
\* dictionaries stay as they were and the runtime goes on.
WriteFails ==
    /\ pc \in {"create", "fill", "session", "session_fill"}
    /\ failures < MaxFailures
    /\ failures' = failures + 1
    /\ pc' = "idle" /\ pending' = None /\ job' = NoJob
    /\ UNCHANGED <<files, memory, part, acked, crashes>>

Next ==
    \/ Open \/ OpenFails
    \/ BeginBatch \/ CaptureInvalid
    \/ \E a \in Artifacts :
          CaptureDuplicate(a) \/ CaptureRefused(a) \/ CaptureBegins(a)
    \/ CreateFile \/ FillFile \/ KeepFile \/ Collide \/ Index
    \/ EndBatch \/ SessionKnown \/ CreateSession \/ FillSession
    \/ SessionCollides
    \/ Crash \/ WriteFails

Spec == Init /\ [][Next]_vars

----------------------------------------------------------------------------
(* The reader: GovernedArchiveReader over the same directory.              *)

Entries == {disk["artifact"][id] : id \in Archived("manifest")}

\* _read_entries succeeds: every manifest is whole and its artifact matches.
Readable ==
    \A id \in RecordIds :
        disk["manifest"][id] # Absent =>
            /\ Complete("manifest", id)
            /\ disk["artifact"][id] = disk["manifest"][id]

\* _select_visible: first what was available at the cutoff, then the highest
\* revision of the key.  Post-match labels have no cutoff.
Available(k, cutoff) ==
    {e \in Entries : e.id.key = k /\ (k \in PostKeys \/ e.avail <= cutoff)}

\* Mutant: the highest revision first, its availability afterwards.
Visible_FilterLast(k, cutoff) ==
    {e \in Available(k, cutoff) :
        \A other \in Entries : other.id.key = k => other.id.rev <= e.id.rev}

Visible(k, cutoff) ==
    LET available == Available(k, cutoff)
    IN  {e \in available : \A other \in available : other.id.rev <= e.id.rev}

\* resolve_supersedes_chain: the n-th step back from id, None where the
\* predecessor is not among the entries.
ChainOf(id) ==
    LET back[n \in 0..MaxRev] ==
            IF n = 0 THEN id
            ELSE IF back[n - 1] = None THEN None
            ELSE LET sup == disk["artifact"][back[n - 1]].sup
                 IN IF sup \in Archived("manifest") THEN sup ELSE None
    IN back

----------------------------------------------------------------------------
(* Safety.                                                                 *)

\* A manifest, whole or torn, is never there without its whole artifact, and
\* a whole one describes exactly that artifact.  The order of the three writes
\* in _build_record and the byte comparison of _append_json give this across
\* every crash; the reader refuses the whole archive where it fails.
ManifestSealsArtifact ==
    \A id \in RecordIds :
        disk["manifest"][id] # Absent =>
            /\ Complete("artifact", id)
            /\ disk["manifest"][id] \in {Torn, disk["artifact"][id]}

\* Every archived correction names an archived predecessor of the same key one
\* revision below it, whatever crashed in between (_next_revision).
LineageGrounded ==
    \A id \in Archived("manifest") :
        LET sup == disk["manifest"][id].sup
        IN IF id.rev = 1 THEN sup = None
           ELSE /\ sup \in Archived("manifest")
                /\ sup.key = id.key /\ sup.rev + 1 = id.rev

\* resolve_supersedes_chain walks from any record down to revision 1 and never
\* stops short of it or meets a record twice.
ChainsReachTheFirst ==
    \A id \in Archived("manifest") :
        \A n \in 0..MaxRev :
            IF n < id.rev
            THEN /\ ChainOf(id)[n] \in Archived("manifest")
                 /\ ChainOf(id)[n].rev = id.rev - n
            ELSE ChainOf(id)[n] = None

\* A record reported APPENDED stays: its artifact, its manifest and the original
\* it was captured from are on disk, and a runtime that has started knows it.
AcknowledgedIsDurable ==
    \A id \in RecordIds :
        <<"APPENDED", id>> \in acked =>
            /\ Complete("artifact", id) /\ Complete("manifest", id)
            /\ disk["artifact"][id].file # None => Complete("original", id)
            /\ pc # "down" => id \in Known

\* A session manifest lists only records whose manifests are archived.
SessionsListArchived ==
    \A s \in sessionFiles : s.records \subseteq Archived("manifest")

\* What is archived stands on what is archived: a correction on the chain of its
\* predecessors, a session on its records.
ArchivedIsGrounded == LineageGrounded /\ ChainsReachTheFirst /\ SessionsListArchived

\* One record per revision of a key.
ForkFree ==
    \A id1, id2 \in Archived("manifest") :
        id1.key = id2.key /\ id1.rev = id2.rev => id1 = id2

\* Until the first crash or failed write the revisions of a key do not fork and
\* the directory holds no torn file but the one being written.
ForkFreeUntilFault ==
    crashes = 0 /\ failures = 0 =>
        /\ ForkFree
        /\ \A p \in Parts, id \in RecordIds :
              disk[p][id] = Torn => pc = "fill" /\ p = part /\ id = pending.id

\* "corrections must supersede the latest revision" (_next_revision): two
\* records never supersede the same one.
CorrectionsSupersedeLatest ==
    \A id1, id2 \in Archived("manifest") :
        id1.rev > 1 /\ disk["manifest"][id1].sup = disk["manifest"][id2].sup
            => id1 = id2

\* A capture reported CAPTURED, as a new record or as a duplicate of one, has
\* its original stored below provenance/.
CapturedKeepsOriginal ==
    \A result \in acked :
        LET id == result[2]
        IN disk["artifact"][id].file # None => Complete("original", id)

\* The archive implements the revision log, forks included.
Revisions == INSTANCE RevisionLog
    WITH Records <- Bodies,
         log <- {disk["manifest"][id] : id \in Archived("manifest")}
ImplementsRevisions == Revisions!Spec

\* Whole files never change and never go away.
AppendOnly ==
    [][ /\ \A p \in Parts, id \in RecordIds :
              Complete(p, id) => disk'[p][id] = disk[p][id]
        /\ sessionFiles \subseteq sessionFiles' ]_vars

\* What the reader shows for a cutoff changes only when a record that was
\* available at that cutoff is archived: a later correction with a later
\* availability neither enters nor hides what it corrects.
AsOfStable ==
    [][ disk' # disk =>
            \A k \in Keys \ PostKeys, cutoff \in Times :
                Visible(k, cutoff)' # Visible(k, cutoff) =>
                \E id \in RecordIds :
                    /\ id \in Archived("manifest")' \ Archived("manifest")
                    /\ id.key = k /\ disk["artifact"]'[id].avail <= cutoff ]_vars

============================================================================
