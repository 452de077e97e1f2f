--------------------------- MODULE TrainingDataset ---------------------------
(***************************************************************************)
(* The as-of data set builder (src/prediction_training/dataset_builder.py, *)
(* HistoricalAsOfDatasetBuilder.build): it reads the archive, judges every *)
(* candidate match for every engine role, and writes gate records, samples *)
(* and then the data set artifact, the lineage manifest, the manifest and  *)
(* the evidence, one file after the other, each through a staging file.    *)
(* The archive is read again for each candidate, captures go on meanwhile, *)
(* and the builder may stop between any two file operations or in the      *)
(* middle of one.  A document stands for its own hash.                     *)
(***************************************************************************)
EXTENDS TrainingEligibility, Sequences

CONSTANTS Archived,  \* the archive records there are at first
          Arriving,  \* and those captured later
          Requests,  \* the calls of build: [profile, mode, builder, minimum, rule]
          MaxFiles, MaxCrashes  \* bounds: files there are when a build begins, crashes

(* The archive names each record by the hash of what it holds and takes no *)
(* pre-match record without an availability time.                          *)
Times == Nat \cup {None}
ASSUME ArchiveRecords ==
    /\ None \notin Nat
    /\ \A e, o \in Archived \cup Arriving : e.id = o.id => e = o
    /\ \A e \in Archived \cup Arriving :
          /\ e.cutoff \in Times /\ e.kickoff \in Times /\ e.stamp \in Times
          /\ e.avail \in IF e.domain = "pre_match" THEN Nat ELSE Times

(* They are finitely many and their ids ordered: of some one is the newest. *)
ASSUME ArchiveIsOrdered ==
    \A S \in SUBSET (Archived \cup Arriving) : S # {} =>
        \E e \in S : \A o \in S : o.rev < e.rev \/ (o.rev = e.rev /\ o.id <= e.id)

VARIABLES archive,   \* the records of the approved archive
          approved,  \* path -> document under approved_data/training_datasets
          staging,   \* path -> document under .runtime/training_dataset_staging
          job,       \* the build under way, or None
          ended,     \* how the last build ended: "none", "done" or an error code
          crashes
datasetVars == <<archive, approved, staging, job, ended, crashes>>

(* Records are cited by their ids. *)
Ids(S) == {e.id : e \in S}
Cited(ids) == {e \in Archived \cup Arriving : e.id \in ids}

(* A file cut short: no JSON, and no other bytes may be written to it.     *)
(* (One that lacks only the line end that closes it would still be read.)  *)
Torn == [kind |-> "torn"]

(* The documents of one kind that are on disk. *)
Docs(kind) == {approved[p] : p \in {q \in DOMAIN approved : q[1] = kind /\ approved[q] # Torn}}

DatasetId(q, snapshot) ==
    [snapshot |-> Ids(snapshot), profile |-> q.profile, builder |-> q.builder,
     mode |-> q.mode, rules |-> IF q.mode = "minimum" THEN <<q.minimum, q.rule>> ELSE <<>>]

(* The manifests of one data set id, and the revision of the next one. *)
Manifests(id) == {m \in Docs("manifest") : m.id = id}
LastManifest(id) == {m \in Manifests(id) : \A o \in Manifests(id) : o.rev <= m.rev}
NextRevision(id, candidates) ==
    IF candidates = {} THEN 1
    ELSE IF Manifests(id) = {} THEN 1 ELSE (CHOOSE m \in LastManifest(id) : TRUE).rev + 1

ManifestPaths(id) == {p \in DOMAIN approved : p[1] = "manifest" /\ p[2] = id}
LastIsTorn(id) ==
    \E p \in ManifestPaths(id) : approved[p] = Torn /\ \A o \in ManifestPaths(id) : o[3] <= p[3]

Candidate(e) == [match |-> e.match, profile |-> e.profile, cutoff |-> e.cutoff, kickoff |-> e.kickoff]
Candidates(q, snapshot) ==
    {Candidate(e) : e \in {x \in snapshot : x.domain = "pre_match"
                                            /\ (q.profile = None \/ x.profile = q.profile)}}

(* GovernedArchiveReader: what is visible at a cutoff is, of each logical  *)
(* artifact, the highest revision that was available by then.              *)
VisiblePre(c, records) ==
    LET by == {e \in records : e.domain = "pre_match" /\ e.match = c.match
                               /\ e.profile = c.profile /\ e.avail <= c.cutoff}
    IN {e \in by : \A o \in by : (o.type = e.type /\ o.key = e.key) => o.rev <= e.rev}

(* Labels are those of the match and profile in the snapshot, of any time. *)
PostOf(c, snapshot) ==
    {e \in snapshot : e.domain = "post_match" /\ e.match = c.match /\ e.profile = c.profile}

(* _prior_sample: the newest sample of this match, profile and role in the *)
(* manifests of the same data set id.                                      *)
PriorSample(id, c, r) ==
    LET found == {s \in UNION {m.samples : m \in Manifests(id)} :
                    s.match = c.match /\ s.profile = c.profile /\ s.role = r}
    IN {s \in found : \A o \in found : o.rev <= s.rev}

\* Mutant: a sample built again keeps its revision.
Above_Same(prior) == IF prior = {} THEN 1 ELSE (CHOOSE s \in prior : TRUE).rev

Above(prior) == IF prior = {} THEN 1 ELSE (CHOOSE s \in prior : TRUE).rev + 1
Superseded(prior) == IF prior = {} THEN None ELSE CHOOSE s \in prior : TRUE

-----------------------------------------------------------------------------
DatasetInit ==
    /\ archive = Archived /\ approved = <<>> /\ staging = <<>>
    /\ job = None /\ ended = "none" /\ crashes = 0

(* The archive grows while a build runs: no lock is shared with it. *)
Capture == \E e \in Arriving \ archive :
    /\ e.sup # None => \E o \in archive : o.id = e.sup
    /\ archive' = archive \cup {e}
    /\ UNCHANGED <<approved, staging, job, ended, crashes>>

(* build up to the loop: authorise, load the rules, read the archive and   *)
(* the last manifest, which ends it if that is torn.                       *)
Start(q) ==
    LET id == DatasetId(q, archive)  cands == Candidates(q, archive) IN
    /\ job = None
    /\ q.mode = "minimum" => ProfileOK(Profile(q.minimum)) /\ GateRuleOK(q.rule)
    /\ Cardinality(DOMAIN approved) < MaxFiles
    /\ ended' = IF LastIsTorn(id) THEN "JSON_DECODE_ERROR" ELSE "none"
    /\ job' = IF LastIsTorn(id) THEN None ELSE
              [q |-> q, id |-> id, snapshot |-> archive, rev |-> NextRevision(id, cands),
               prior |-> LastManifest(id), todo |-> cands, cand |-> None, pre |-> {}, roles |-> {},
               gate |-> None, samples |-> {}, files |-> {}, counts |-> {}, step |-> "candidates"]
    /\ UNCHANGED <<archive, approved, staging, crashes>>

(* The next candidate; its visible records are read from the archive now.  *)
(* One without times is BLOCKED for every role.                            *)
Open ==
    /\ job # None /\ job.step = "candidates" /\ job.roles = {} /\ job.todo # {}
    /\ LET c == CHOOSE x \in job.todo : TRUE IN
       job' = [job EXCEPT !.todo = @ \ {c}, !.cand = c, !.pre = VisiblePre(c, archive),
                          !.roles = IF None \in {c.cutoff, c.kickoff} THEN {} ELSE Roles,
                          !.counts = IF None \in {c.cutoff, c.kickoff}
                                     THEN @ \cup {<<c, r, "BLOCKED">> : r \in Roles} ELSE @]
    /\ UNCHANGED <<archive, approved, staging, ended, crashes>>

(* _write_append_only: a path holds the first document written to it, in   *)
(* staging and in the approved root, and other bytes are an error.         *)
Collision(path, doc) ==
    IF path \in DOMAIN staging /\ staging[path] # doc THEN "STAGING_COLLISION"
    ELSE IF path \in DOMAIN approved /\ approved[path] # doc THEN "APPEND_ONLY_PATH_COLLISION"
    ELSE "none"

\* The files after the document is written to the path.
With(files, path, doc) ==
    [p \in DOMAIN files \cup {path} |-> IF p = path THEN doc ELSE files[p]]

\* Mutant: what is staged is taken to be copied.
Put_StagedIsDone(path, doc, next) ==
    /\ Collision(path, doc) = "none"
    /\ staging' = With(staging, path, doc)
    /\ approved' = IF path \in DOMAIN staging THEN approved ELSE With(approved, path, doc)
    /\ job' = next /\ ended' = ended

Put(path, doc, next) ==
    LET code == Collision(path, doc) IN
    /\ staging' = IF code = "STAGING_COLLISION" THEN staging ELSE With(staging, path, doc)
    /\ IF code = "none"
       THEN approved' = With(approved, path, doc) /\ job' = next /\ ended' = ended
       ELSE approved' = approved /\ job' = None /\ ended' = code

Role == CHOOSE r \in job.roles : TRUE
TheLabel(r) == Label(r, PostOf(job.cand, job.snapshot), job.cand, job.snapshot)

Reasons(r) ==
    LET post == PostOf(job.cand, job.snapshot) IN
    IF job.q.mode = "minimum"
    THEN MinimumReasons(Profile(job.q.minimum), r, job.pre, job.cand, TheLabel(r))
         \cup LabelReasons(r, post, job.cand, job.snapshot)
    ELSE FullReasons(r, job.pre, post, job.cand, job.snapshot)

(* The gate record of a role, in minimum mode: the first one, or one that  *)
(* supersedes the last when that is not the very same document.  A last    *)
(* one that is torn ends the build.                                        *)
GateDir(r) == <<"gate", job.id.snapshot, job.cand.match, job.cand.profile, r, job.q.minimum>>
GatesIn(dir) == {n \in 1..Cardinality(DOMAIN approved) : Append(dir, n) \in DOMAIN approved}
LastGate(dir) == CHOOSE n \in GatesIn(dir) : \A k \in GatesIn(dir) : k <= n
GateIsTorn(dir) == GatesIn(dir) # {} /\ approved[Append(dir, LastGate(dir))] = Torn
GateDoc(r, n, sup) ==
    [kind |-> "gate", rule |-> <<job.q.minimum, job.q.rule>>, cand |-> job.cand, role |-> r, reasons |-> Reasons(r),
     sources |-> Ids(job.pre), label |-> Ids(TheLabel(r)), rev |-> n, sup |-> sup]
NextGate(r) ==
    LET taken == GatesIn(GateDir(r))  last == LastGate(GateDir(r))
    IN IF taken = {} \/ approved[Append(GateDir(r), last)] = GateDoc(r, 1, None)
       THEN GateDoc(r, 1, None)
       ELSE GateDoc(r, last + 1, approved[Append(GateDir(r), last)])

WriteGate ==
    /\ job # None /\ job.q.mode = "minimum" /\ job.roles # {} /\ job.gate = None
    /\ LET g == NextGate(Role)  path == Append(GateDir(Role), g.rev) IN
       IF GateIsTorn(GateDir(Role))
       THEN job' = None /\ ended' = "JSON_DECODE_ERROR" /\ UNCHANGED <<staging, approved>>
       ELSE Put(path, g, [job EXCEPT !.gate = g, !.files = @ \cup {<<path, g>>}])
    /\ UNCHANGED <<archive, crashes>>

(* _sample and _sample_training. *)
Sample(r) ==
    LET prior == PriorSample(job.id, job.cand, r) IN
    [kind |-> "sample", match |-> job.cand.match, profile |-> job.cand.profile, role |-> r,
     cand |-> job.cand, sources |-> Ids(job.pre), label |-> Ids(TheLabel(r)), gate |-> job.gate,
     times |-> IF job.q.mode = "minimum" THEN FeatureTimes(Profile(job.q.minimum), r, job.pre)
               ELSE {e.avail : e \in job.pre},
     builder |-> job.q.builder, version |-> <<job.q.mode, job.rev>>,
     rev |-> Above(prior), sup |-> Superseded(prior)]

(* validate_training_sample: the as-of predicate on the earliest source.   *)
SampleOK(s) == s.times # {} /\ \E t \in s.times : AsOf(t, s.cand)
SamplePath(s) == <<"sample", job.id.snapshot, s.match, s.profile, s.role, job.q.mode, s.rev>>

Judged(state) == [job EXCEPT !.roles = @ \ {Role}, !.gate = None,
                             !.counts = @ \cup {<<job.cand, Role, state>>}]

JudgeRole ==
    /\ job # None /\ job.roles # {} /\ (job.q.mode = "minimum" => job.gate # None)
    /\ LET s == Sample(Role) IN
       IF Reasons(Role) # {}
       THEN job' = Judged("INELIGIBLE") /\ UNCHANGED <<staging, approved, ended>>
       ELSE IF ~SampleOK(s)
       THEN job' = Judged("BLOCKED") /\ UNCHANGED <<staging, approved, ended>>
       ELSE Put(SamplePath(s), s, [Judged("ELIGIBLE") EXCEPT
                                     !.samples = @ \cup {s}, !.files = @ \cup {<<SamplePath(s), s>>}])
    /\ UNCHANGED <<archive, crashes>>

-----------------------------------------------------------------------------
(* The four documents of the data set, in the order build writes them. *)
LastSteps == [candidates |-> "dataset", dataset |-> "lineage", lineage |-> "manifest", manifest |-> "evidence"]
Gates == {f[2] : f \in {x \in job.files : x[1][1] = "gate"}}
Predecessor == IF job.rev > 1 /\ job.prior # {} THEN CHOOSE m \in job.prior : TRUE ELSE None

Document(kind) ==
    CASE kind = "dataset"  -> [kind |-> kind, id |-> job.id, rev |-> job.rev, samples |-> job.samples,
                               gates |-> Gates, sup |-> IF Predecessor = None THEN None ELSE Predecessor.dataset]
      [] kind = "lineage"  -> [kind |-> kind, id |-> job.id, samples |-> job.samples, gates |-> Gates,
                               counts |-> job.counts]
      [] kind = "manifest" -> [kind |-> kind, id |-> job.id, rev |-> job.rev, samples |-> job.samples,
                               files |-> job.files, counts |-> job.counts, sup |-> Predecessor,
                               dataset |-> approved[<<"dataset", job.id, job.rev>>]]
      [] kind = "evidence" -> [kind |-> kind, id |-> job.id, rev |-> job.rev, counts |-> job.counts]

WriteDocument ==
    /\ job # None /\ job.todo = {} /\ job.roles = {} /\ job.step \in DOMAIN LastSteps
    /\ LET kind == LastSteps[job.step]
           path == <<kind, job.id, job.rev>>
           doc  == Document(kind)
       IN Put(path, doc, [job EXCEPT !.step = kind, !.files = @ \cup {<<path, doc>>}])
    /\ UNCHANGED <<archive, crashes>>

Finish ==
    /\ job # None /\ job.step = "evidence"
    /\ job' = None /\ ended' = "done"
    /\ UNCHANGED <<archive, approved, staging, crashes>>

(* What the build writes next, if anything. *)
Pending ==
    IF job.roles # {} /\ job.q.mode = "minimum" /\ job.gate = None
    THEN IF GateIsTorn(GateDir(Role)) THEN {}
         ELSE {<<Append(GateDir(Role), NextGate(Role).rev), NextGate(Role)>>}
    ELSE IF job.roles # {} /\ Reasons(Role) = {} THEN {<<SamplePath(Sample(Role)), Sample(Role)>>}
    ELSE IF job.todo = {} /\ job.roles = {} /\ job.step \in DOMAIN LastSteps
    THEN {<<<<LastSteps[job.step], job.id, job.rev>>, Document(LastSteps[job.step])>>}
    ELSE {}

(* The process ends between two file operations, or inside one: in         *)
(* write_bytes, which truncates a staging file that is there already, or   *)
(* in copyfile.                                                            *)
Crash ==
    /\ job # None /\ crashes < MaxCrashes
    /\ crashes' = crashes + 1 /\ job' = None
    /\ \/ UNCHANGED <<staging, approved>>
       \/ \E w \in Pending :
             /\ w[1] \in DOMAIN staging => staging[w[1]] = w[2]
             /\ \/ staging' = With(staging, w[1], Torn) /\ approved' = approved
                \/ staging' = With(staging, w[1], w[2]) /\ approved' = approved
                \/ /\ w[1] \notin DOMAIN approved
                   /\ staging' = With(staging, w[1], w[2])
                   /\ approved' = With(approved, w[1], Torn)
    /\ UNCHANGED <<archive, ended>>

BuildStep == Open \/ WriteGate \/ JudgeRole \/ WriteDocument \/ Finish
DatasetNext == Capture \/ (\E q \in Requests : Start(q)) \/ BuildStep \/ Crash
DatasetSpec == DatasetInit /\ [][DatasetNext]_datasetVars /\ WF_datasetVars(BuildStep)

-----------------------------------------------------------------------------
(* A manifest never speaks of a file that is not there as it says, however *)
(* the build that wrote it, or one before it, was interrupted.             *)
ManifestsAreBacked ==
    \A m \in Docs("manifest") :
        /\ \A f \in m.files : f[1] \in DOMAIN approved /\ approved[f[1]] = f[2]
        /\ \E d \in Docs("dataset") : d = m.dataset /\ d.samples = m.samples

(* Every sample keeps to the as-of rule: each record it cites was          *)
(* available by the cutoff, its label came after the kickoff, whatever was *)
(* captured or corrected while the builds ran.                             *)
SamplesAreAsOf ==
    \A s \in Docs("sample") :
        /\ \A e \in Cited(s.sources) : e.domain = "pre_match" /\ AsOf(e.avail, s.cand)
        /\ \A t \in s.times : AsOf(t, s.cand)
        /\ s.label # {} /\ \A l \in Cited(s.label) : l.domain = "post_match" /\ l.stamp >= s.cand.kickoff

(* The revisions of a data set form one line, also when builds are         *)
(* interrupted and run again: revision n supersedes revision n - 1.  Each  *)
(* sample supersedes the newest one of its match, profile and role in the  *)
(* revisions before its own, if there is one: not always in the last, for  *)
(* the archive may have grown while a candidate was judged.                *)
Kin(s, S) == {x \in S : x.match = s.match /\ x.profile = s.profile /\ x.role = s.role}
Before(m) == UNION {o.samples : o \in {x \in Manifests(m.id) : x.rev < m.rev}}
Continues(s, kin) ==
    IF kin = {} THEN s.sup = None /\ s.rev = 1
    ELSE /\ s.sup \in kin /\ s.rev = s.sup.rev + 1
         /\ \A o \in kin : o.rev <= s.sup.rev
RevisionsAreLinear ==
    \A m \in Docs("manifest") :
        /\ m.rev = 1 => m.sup = None
        /\ m.rev > 1 => m.sup \in Docs("manifest") /\ m.sup.id = m.id /\ m.sup.rev = m.rev - 1
        /\ \A s \in m.samples : Continues(s, Kin(s, Before(m)))

(* A manifest on disk has all it names, and its revisions are one line.    *)
ManifestsAreSound == ManifestsAreBacked /\ RevisionsAreLinear

(* A build that ends in an error does so for one of four causes: a record  *)
(* captured since it began, a torn file where it writes, two candidates of *)
(* one match and profile, whose samples share a path, or the files of      *)
(* another builder version or gate rule, whose paths name neither.  In     *)
(* particular a build that was interrupted between two file operations,    *)
(* however often, can be run to its end.                                   *)
Filed(p) == p[2] = IF p[1] \in {"gate", "sample"} THEN job.id.snapshot ELSE job.id
TornInTheWay ==
    \/ \E p \in DOMAIN staging : Filed(p) /\ staging[p] = Torn
    \/ \E p \in DOMAIN approved : Filed(p) /\ approved[p] = Torn
CandidatesSharePaths ==
    \E c, d \in Candidates(job.q, job.snapshot) : c # d /\ c.match = d.match /\ c.profile = d.profile
OthersInTheWay ==
    \E p \in DOMAIN staging :
        /\ Filed(p) /\ staging[p] # Torn
        /\ \/ p[1] = "sample" /\ p[6] = job.q.mode /\ staging[p].builder # job.q.builder
           \/ p[1] = "gate" /\ job.q.mode = "minimum" /\ staging[p].rule # <<job.q.minimum, job.q.rule>>
BuildsStopForACause ==
    [][job # None /\ ended' # ended /\ ended' # "done" =>
          archive # job.snapshot \/ TornInTheWay \/ CandidatesSharePaths \/ OthersInTheWay]_datasetVars

(* A path holds other bytes, which ends a build, only if a capture came in *)
(* since it began.  Refuted by each of the other three causes.             *)
OnlyACaptureStopsABuild ==
    [][job # None /\ ended' # ended /\ ended' # "done" => archive # job.snapshot]_datasetVars

(* A build under way ends, by itself or by a crash. *)
BuildsEnd == (job # None) ~> (job = None)

(* A sample cites only records of the archive snapshot it is filed under.  *)
(* Refuted: the archive is read again for each candidate (line 736).       *)
SamplesAreOfTheirSnapshot ==
    \A p \in DOMAIN approved : p[1] = "sample" => approved[p].sources \subseteq p[2]

-----------------------------------------------------------------------------
(* Ewp003Runtime.load_dataset, in its default mode: a manifest is taken    *)
(* when it supersedes nothing and has the highest revision of its id.      *)
CurrentActive(m) == m.sup = None /\ \A o \in Manifests(m.id) : o.rev <= m.rev

(* Of the revisions of a data set only a superseded one is refused as      *)
(* current: the newest one may be consumed.                                *)
NewestIsActive == \A m \in Docs("manifest") : m \in LastManifest(m.id) => CurrentActive(m)
=============================================================================
