------------------------- MODULE BackfillStaging -------------------------
(* The intake of historical exports: a handoff lists candidates, a package   *)
(* of files and manifests is checked, and stage_validated_package writes it  *)
(* below the staging root, one file after another, into a directory it makes *)
(* itself.  There is no lock and no clean-up.  A path is the sequence of its *)
(* segments; hashes, texts and the ZIP bytes are the flags that their checks *)
(* come to.                                                                  *)
EXTENDS Integers, Sequences, SequencesExt, FiniteSets

CONSTANTS
    Stagers,       \* processes that stage
    Names,         \* directory names given on the command line
    SafeNames,     \* the names and manifest ids that SAFE_NAME accepts
    Packages,      \* the packages that arrive
    RawFiles,      \* the files found below the raw root: functions of paths to hashes
    Handoffs,      \* the handoff manifests that arrive
    Unknown,       \* the time UNKNOWN
    ProjectRoot,   \* the project's directory, drive first
    MaxStagings    \* how many calls of stage_validated_package there are

ASSUME SafeNamesAssumption == SafeNames \subseteq STRING

VARIABLES
    dirs,      \* [staging directory |-> [path |-> who wrote it and how often]]
    stager,    \* [process |-> the call it is in, or Idle]
    staged,    \* the calls that returned STAGED_APPEND_ONLY
    refused,   \* the code of the last refusal or failure
    calls,     \* how many calls were made
    returned   \* what the last call that only reads returned
stagingVars == <<dirs, stager, staged, refused, calls, returned>>

Idle == [at |-> "idle"]

-----------------------------------------------------------------------------
(* A manifest. *)

\* A time is a number or UNKNOWN.
TimestampStatus(mf) ==
    IF mf.upload = Unknown \/ mf.kickoff = Unknown THEN "REVIEW_REQUIRED"
    ELSE IF mf.upload >= mf.kickoff THEN "NOT_ELIGIBLE_FOR_AS_OF_TRAINING"
    ELSE "PROCEED_TO_EXPORT_INTAKE_VERIFICATION"

\* What disagrees: conflicts listed, the extraction's own status, and every group of
\* candidate values that has two.
Conflicts(mf) ==
    mf.conflicts \cup (IF mf.extraction = "CONFLICT" THEN {"EXTRACTION_CONFLICT"} ELSE {})
        \cup {g \in DOMAIN mf.candidates : Cardinality(mf.candidates[g]) > 1}

CoverageOK(mf) ==
    \A market \in {"SPF", "RQSPF", "EXACT_SCORE", "TOTAL_GOALS", "HTFT"} :
        /\ market \in DOMAIN mf.coverage
        /\ mf.coverage[market].state \in {"AVAILABLE", "UNAVAILABLE", "NOT_VERIFIED", "BLOCKED"}
        /\ mf.coverage[market].state = "UNAVAILABLE" => "unavailable_reason" \in mf.coverage[market].says

\* The roles whose markets a reviewer may look at.
EngineEligibility(mf) ==
    LET states(market, said) ==
            mf.coverage[market].state = "AVAILABLE" /\ said \subseteq mf.coverage[market].says
    IN  {role \in {"OUTCOME", "HANDICAP", "GOALS", "HTFT"} :
            \/ role = "OUTCOME" /\ states("SPF", {})
            \/ role = "HANDICAP" /\ states("RQSPF", {"exact_cutoff_visible", "handicap_line"})
            \/ role = "GOALS" /\ states("TOTAL_GOALS", {})
            \/ role = "HTFT" /\ states("HTFT", {"halftime_label", "fulltime_label"})}

IdentityOK(identity) == \A f \in {"match", "competition", "home", "away"} : identity[f] # ""

ManifestOK(mf) ==
    /\ mf.fields                                    \* required fields, vocabularies and hash forms
    /\ mf.revision >= 1
    /\ (mf.revision = 1) = (mf.supersedes = 0)
    /\ mf.class = "RAW_FACT" /\ ~mf.generated
    /\ IdentityOK(mf.identity)
    /\ CoverageOK(mf)
    /\ mf.hashOK

DuplicateSemantics(existing, candidate) ==
    LET same(f) == existing[f] = candidate[f]
    IN  CASE same("sha") /\ same("source") /\ same("identity") /\ same("payload") /\ same("upload") ->
                "DUPLICATE_NOOP"
          [] same("sha") /\ same("source") /\ ~(same("identity") /\ same("payload") /\ same("upload")) ->
                "SAME_BYTES_DIFFERENT_EXTERNAL_OBSERVATION"
          [] ~(same("sha") /\ same("source")) /\ same("identity") -> "RETAIN_AS_DISTINCT_SNAPSHOT"
          [] OTHER -> "DISTINCT_ARTIFACT"

\* Row i names the first row of the same key before it, or none.
FirstOfKey(keys) ==
    [i \in DOMAIN keys |->
        LET first == CHOOSE j \in 1..i : keys[j] = keys[i] /\ \A k \in 1..(j - 1) : keys[k] # keys[i]
        IN  IF first = i THEN 0 ELSE first]

\* Only the explicit identity counts, the kickoff it names with it.
IdentityIndex(manifests) == FirstOfKey([i \in DOMAIN manifests |-> manifests[i].identity])

-----------------------------------------------------------------------------
(* A package, under its first contract and under the one that is staged. *)

NormalPath(path) == path # <<>> /\ \A i \in DOMAIN path : path[i] \notin {"", ".", ".."}

Binds(p, i) ==
    /\ p.manifests[i].id = p.files[i].manifest /\ p.manifests[i].sha = p.files[i].sha
    /\ p.metadata[i].manifest = p.files[i].manifest
    /\ p.metadata[i].snapshot = p.manifests[i].snapshot

Aligned(p) == p.files # <<>> /\ Len(p.metadata) = Len(p.files) /\ Len(p.manifests) = Len(p.files)

\* An excluded source is known by its name, its reference and its hash together.
Excludes(p) ==
    /\ \A e \in p.exclusions :
        /\ e.reason = CASE e.category = "BETTING_SLIP" -> "BETTING_SLIP_NOT_RAW_FACT"
                        [] e.category = "GENERATED_PREDICTION_DASHBOARD" -> "GENERATED_PREDICTION_NOT_RAW_FACT"
                        [] e.category = "RECOMMENDATION_ARTIFACT" -> "RECOMMENDATION_NOT_RAW_FACT"
                        [] OTHER -> "none"
        /\ e.class = "EXCLUDED"
    /\ p.exclusionsOK
    /\ \A i \in DOMAIN p.files :
        /\ ~\E e \in p.exclusions : e.name = p.files[i].name /\ e.ref = p.files[i].ref /\ e.sha = p.files[i].sha
        /\ ~p.files[i].generated

\* validate_export_package: the first thing wrong with a package of contract 1.0.
Verdict10(p) ==
    LET broken(i) == ~ManifestOK(p.manifests[i]) \/ ~Binds(p, i) \/ ~p.manifests[i].bound
        first == {i \in DOMAIN p.files : broken(i) \/ Conflicts(p.manifests[i]) # {}}
    IN  IF p.contract # "1.0" \/ ~p.fields \/ ~Aligned(p) THEN "REJECTED"
        ELSE IF first # {}
        THEN IF broken(CHOOSE i \in first : \A j \in first : i <= j) THEN "REJECTED" ELSE "CONFLICT"
        ELSE IF p.hashesOK THEN "OK" ELSE "REJECTED"

\* validate_export_package_v1_1: it binds the manifests and does not validate them.
Verdict11(p) ==
    IF /\ p.contract = "1.1" /\ p.fields /\ Aligned(p) /\ Excludes(p)
       /\ \A i \in DOMAIN p.files : Binds(p, i)
       /\ p.hashesOK
    THEN "OK" ELSE "REJECTED"

-----------------------------------------------------------------------------
(* Calls that only read. *)

StagingRoot == ProjectRoot \o <<"approved_data", "historical_backfill_staging">>
ArchiveRoot == ProjectRoot \o <<"approved_data", "historical_source_archive">>

StagingPathOK(path) ==
    /\ Head(ProjectRoot) = "F:" /\ Head(path) = "F:"
    /\ ~IsPrefix(ArchiveRoot, path)
    /\ IsPrefix(StagingRoot, path)

DryRunState(path, p) ==
    LET statuses == {TimestampStatus(p.manifests[i]) : i \in DOMAIN p.manifests}
    IN  IF ~StagingPathOK(path) THEN "REJECTED"
        ELSE IF Verdict10(p) # "OK" THEN Verdict10(p)
        ELSE IF statuses # {"PROCEED_TO_EXPORT_INTAKE_VERIFICATION"} THEN "REVIEW_REQUIRED"
        ELSE "VALID_FOR_INTAKE"

DryRun(p) ==
    /\ returned' = [op |-> "dry run", state |-> DryRunState(StagingRoot, p),
                    eligible |-> IF Verdict10(p) = "OK"
                                 THEN [i \in DOMAIN p.manifests |-> EngineEligibility(p.manifests[i])] ELSE <<>>]
    /\ UNCHANGED <<dirs, stager, staged, refused, calls>>

CandidateOK(c) ==
    /\ c.fields
    /\ c.status \in {"EXPLICIT", "UNVERIFIED", "AMBIGUOUS", "REJECTED"}
    /\ c.status = "EXPLICIT" => IdentityOK(c.identity)
    /\ c.reingest => c.type \in {"RAW_SCREENSHOT", "AUDITABLE_DERIVATIVE"}

CandidatesOK(cs) ==
    /\ \A i \in DOMAIN cs : CandidateOK(cs[i])
    /\ \A i, j \in DOMAIN cs : cs[i].id = cs[j].id => i = j

HandoffOK(h) ==
    /\ h.fields /\ ~h.archiveWrite /\ ~h.trainingWrite
    /\ \A a \in h.artifacts : a.role \in {"RAW_SCREENSHOT", "AUDITABLE_DERIVATIVE", "POSTMATCH_RESULT_EVIDENCE"}
    /\ h.target = 99
    /\ CandidatesOK(h.candidates)

\* Identities that nobody verified are one identity.
DedupeKey(c) ==
    <<c.sha, c.ref, IF c.status = "EXPLICIT" THEN <<c.identity>> ELSE <<>>, c.observed, c.payload>>

DedupeIndex(cs) == FirstOfKey([i \in DOMAIN cs |-> DedupeKey(cs[i])])

ValidateHandoff(h) ==
    /\ returned' = [op |-> "handoff", index |-> IF HandoffOK(h) THEN DedupeIndex(h.candidates) ELSE <<>>]
    /\ UNCHANGED <<dirs, stager, staged, refused, calls>>

\* The comparison of a package's manifests with one another and with those of another.
Compare(p, q) ==
    /\ returned' = [op |-> "compare", index |-> IdentityIndex(p.manifests),
                    semantics |-> [i \in DOMAIN q.manifests |->
                        [j \in DOMAIN p.manifests |-> DuplicateSemantics(q.manifests[i], p.manifests[j])]]]
    /\ UNCHANGED <<dirs, stager, staged, refused, calls>>

-----------------------------------------------------------------------------
(* Staging a package. *)

\* The last item of a name declares its hash.
Declared(p) ==
    LET named(n) == {i \in DOMAIN p.files : p.files[i].name = n}
    IN  [n \in {p.files[i].name : i \in DOMAIN p.files} |->
            p.files[CHOOSE i \in named(n) : \A j \in named(n) : j <= i].sha]

\* The script's checks, then those of stage_validated_package.
Refusal(name, p, raw) ==
    IF Verdict11(p) # "OK" THEN "PACKAGE_INVALID"
    ELSE IF \E n \in DOMAIN Declared(p) : ~NormalPath(n) THEN "ZIP_ENTRY_PATH_INVALID"
    ELSE IF ~(DOMAIN Declared(p) \subseteq DOMAIN raw) THEN "RAW_FILE_MISSING"
    ELSE IF ~StagingPathOK(StagingRoot) THEN "F_DRIVE_REQUIRED"
    ELSE IF name \notin SafeNames THEN "STAGING_REVISION_NAME_INVALID"
    ELSE IF name \in DOMAIN dirs THEN "STAGING_OVERWRITE_FORBIDDEN"
    ELSE IF \E n \in DOMAIN Declared(p) : raw[n] # Declared(p)[n] THEN "RAW_FILE_HASH_MISMATCH"
    ELSE "none"

\* What is written, in order: the package, its raw files, its manifests.  The script
\* passes no metadata files, and those that are not passed are skipped.
Plan(p) ==
    LET first(i) == ~\E j \in 1..(i - 1) : p.files[j].name = p.files[i].name
        raws == SelectSeq([i \in DOMAIN p.files |-> i], first)
    IN  <<[path |-> <<"package.json">>, safe |-> TRUE]>>
            \o [k \in DOMAIN raws |-> [path |-> p.files[raws[k]].name, safe |-> TRUE]]
            \o [i \in DOMAIN p.manifests |->
                    [path |-> <<"manifests", p.manifests[i].id>>, safe |-> p.manifests[i].id \in SafeNames]]

\* A package is finite.
ASSUME PlanAssumption ==
    \A p \in Packages : Len(Plan(p)) \in Nat /\ DOMAIN Plan(p) = 1..Len(Plan(p))

\* A path that is a directory cannot be written, nor one below a file.
Below(path, other) == Len(path) < Len(other) /\ IsPrefix(path, other)
Blocked(files, path) ==
    \/ path \in {<<"raw">>, <<"metadata">>, <<"manifests">>}
    \/ \E f \in DOMAIN files : Below(f, path) \/ Below(path, f)

StagingInit ==
    /\ dirs = <<>> /\ stager = [w \in Stagers |-> Idle] /\ staged = {} /\ refused = "none"
    /\ calls = 0 /\ returned = [op |-> "none"]

\* Everything is checked before anything is written, the name among it.
Check(w, name, p, raw) ==
    /\ stager[w] = Idle /\ calls < MaxStagings
    /\ calls' = calls + 1
    /\ refused' = Refusal(name, p, raw)
    /\ stager' = IF refused' = "none"
                 THEN [stager EXCEPT ![w] = [at |-> "checked", call |-> calls', name |-> name, package |-> p, next |-> 1]]
                 ELSE stager
    /\ returned' = [op |-> "none"]
    /\ UNCHANGED <<dirs, staged>>

\* Mutant: the directory may be there already, as the parents may.
MakeOrReuseDirectory(w) ==
    LET s == stager[w]
    IN  /\ s.at = "checked"
        /\ dirs' = [n \in DOMAIN dirs \cup {s.name} |->
                        IF n = s.name /\ n \notin DOMAIN dirs THEN [package |-> s.package, files |-> <<>>] ELSE dirs[n]]
        /\ stager' = [stager EXCEPT ![w].at = "writing"]
        /\ UNCHANGED <<refused, staged, calls, returned>>

\* target.mkdir(exist_ok=False): of two processes that found the name free one fails.
MakeDirectory(w) ==
    LET s == stager[w]
    IN  /\ s.at = "checked"
        /\ IF s.name \in DOMAIN dirs
           THEN /\ stager' = [stager EXCEPT ![w] = Idle] /\ refused' = "FileExistsError"
                /\ UNCHANGED dirs
           ELSE /\ dirs' = [n \in DOMAIN dirs \cup {s.name} |->
                                IF n = s.name THEN [package |-> s.package, files |-> <<>>] ELSE dirs[n]]
                /\ stager' = [stager EXCEPT ![w].at = "writing"]
                /\ UNCHANGED refused
        /\ UNCHANGED <<staged, calls, returned>>

\* One file.  What fails here leaves the directory as it is, and its name taken.
WriteFile(w) ==
    LET s == stager[w]
        files == dirs[s.name].files
        step == Plan(s.package)[s.next]
        times == IF step.path \in DOMAIN files THEN files[step.path].times ELSE 0
    IN  /\ s.at = "writing" /\ s.next <= Len(Plan(s.package))
        /\ IF ~step.safe \/ Blocked(files, step.path)
           THEN /\ stager' = [stager EXCEPT ![w] = Idle]
                /\ refused' = IF step.safe THEN "OSError" ELSE "STAGING_REVISION_NAME_INVALID"
                /\ UNCHANGED dirs
           ELSE /\ dirs' = [dirs EXCEPT ![s.name].files =
                                [f \in DOMAIN files \cup {step.path} |->
                                    IF f = step.path THEN [by |-> s.call, times |-> times + 1] ELSE files[f]]]
                /\ stager' = [stager EXCEPT ![w].next = s.next + 1]
                /\ UNCHANGED refused
        /\ UNCHANGED <<staged, calls, returned>>

\* STAGED_APPEND_ONLY.
Report(w) ==
    LET s == stager[w]
    IN  /\ s.at = "writing" /\ s.next > Len(Plan(s.package))
        /\ staged' = staged \cup {[call |-> s.call, name |-> s.name, package |-> s.package]}
        /\ stager' = [stager EXCEPT ![w] = Idle]
        /\ UNCHANGED <<dirs, refused, calls, returned>>

Crash(w) ==
    /\ stager[w] # Idle
    /\ stager' = [stager EXCEPT ![w] = Idle]
    /\ UNCHANGED <<dirs, staged, refused, calls, returned>>

StagingNext ==
    \/ \E w \in Stagers :
        \/ \E name \in Names, p \in Packages, raw \in RawFiles : Check(w, name, p, raw)
        \/ MakeDirectory(w) \/ WriteFile(w) \/ Report(w) \/ Crash(w)
    \/ /\ calls = 0   \* they read no directory: once is enough
       /\ \/ \E p \in Packages : DryRun(p)
          \/ \E h \in Handoffs : ValidateHandoff(h)
          \/ \E p, q \in Packages : Compare(p, q)

StagingSpec == StagingInit /\ [][StagingNext]_stagingVars

-----------------------------------------------------------------------------
\* A package that was reported as staged is in its directory with every path it
\* names, and nothing in that directory was written for another package: two
\* processes that were given one name do not share it, and what a crash or a failure
\* left behind is never completed (stage_validated_package).
ReportedIsWhole ==
    \A s \in staged :
        LET files == dirs[s.name].files
        IN  /\ \A k \in DOMAIN Plan(s.package) : Plan(s.package)[k].path \in DOMAIN files
            /\ \A f \in DOMAIN files : files[f].by = s.call

\* "Each file is written exactly once beneath this newly-created directory"
\* (staging.py, the comment above the writes).
WrittenOnce ==
    \A n \in DOMAIN dirs : \A f \in DOMAIN dirs[n].files : dirs[n].files[f].times = 1

\* "A package containing such a conflict returns CONFLICT and writes nothing" (the
\* readiness review, section 7).
ConflictsWriteNothing ==
    \A n \in DOMAIN dirs :
        \A i \in DOMAIN dirs[n].package.manifests : Conflicts(dirs[n].package.manifests[i]) = {}
=============================================================================
