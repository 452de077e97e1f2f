---------------------------- MODULE TemporalSplit ----------------------------
(***************************************************************************)
(* Temporal splits and the readiness report over them                      *)
(* (src/prediction_training/ewp003_runtime.py), and the gate a formal fit  *)
(* has to pass with such a report (ewp004_runtime.py).                     *)
(* A run binds the samples of a revision of the data set, splits them as   *)
(* it is configured to and reports.                                        *)
(*                                                                         *)
(* A sample is [match, cutoff, kickoff, avail, role, class, league, state, *)
(* features, version]; class is None when it states none, features is      *)
(* "yes", "no" or "unknown".                                               *)
(***************************************************************************)
EXTENDS EngineRoles, Integers, FiniteSets, Sequences, FiniteSetsExt

CONSTANTS Revisions,    \* the samples of the data set revisions there may be
          Configs,      \* the split configurations a run may be given
          Scopes,       \* the league scopes a manifest may declare, or None
          Classes,      \* role -> its declared classes
          Minimum,      \* partition -> the least support of each class
          Version,      \* the version the bound manifest states
          FitClaims,    \* what a caller may say in asking for a fit
          MaxReports    \* bound: the reports kept

Partitions == {"train", "validation", "holdout"}

ASSUME SplitConstants ==
    DOMAIN Classes = Roles /\ Minimum \in [Partitions -> Nat] /\ None \notin Scopes \ {None}

VARIABLES samples,  \* the samples of the data set
          reports,  \* the runs so far: what was bound, the split and the report
          grants    \* the formal fits asked for, with the gate's answer
splitVars == <<samples, reports, grants>>

Matches(S) == {s.match : s \in S}
Of(m, S) == {s \in S : s.match = m}
Low(m, S)  == Min({s.cutoff : s \in Of(m, S)})
High(m, S) == Max({s.cutoff : s \in Of(m, S)})

Rejected(code) == [ok |-> FALSE, code |-> code, folds |-> <<>>]
Performed(folds) == [ok |-> TRUE, code |-> "none", folds |-> folds]

(* validate_league_scope: declared, and every sample within it. *)
ScopeCode(scope, S) ==
    IF scope = None \/ scope = {} THEN "LEAGUE_SCOPE_NOT_DECLARED"
    ELSE IF \E s \in S : s.league \notin scope THEN "LEAGUE_SCOPE_OUT_OF_DECLARED_SCOPE" ELSE "none"

(* _validate_sample_for_runtime, of all samples. *)
SampleCode(S) ==
    IF S = {} THEN "TRAINING_DATA_INSUFFICIENT"
    ELSE IF \E s \in S : ~(s.avail <= s.cutoff /\ s.cutoff < s.kickoff) THEN "FUTURE_LEAKAGE_DETECTED"
    ELSE IF \E s \in S : s.version # Version THEN "MIXED_DATASET_REVISION" ELSE "none"

(* _check_partition_order: each partition is strictly before the next one. *)
Cutoffs(S) == {s.cutoff : s \in S}
Ordered(parts) ==
    \A p \in {<<"train", "validation">>, <<"validation", "holdout">>, <<"train", "holdout">>} :
        \A x \in Cutoffs(parts[p[1]]), y \in Cutoffs(parts[p[2]]) : x < y

-----------------------------------------------------------------------------
(* EXPLICIT_TEMPORAL_BOUNDARIES: a match goes whole to the one partition   *)
(* that holds all its cutoffs, and the split is refused if there is none.  *)
ExplicitPlaces(m, S, c) ==
    (IF High(m, S) <= c.trainEnd THEN {"train"} ELSE {})
    \cup (IF c.validation[1] <= Low(m, S) /\ High(m, S) <= c.validation[2] THEN {"validation"} ELSE {})
    \cup (IF c.holdout[1] <= Low(m, S) /\ High(m, S) <= c.holdout[2] THEN {"holdout"} ELSE {})

ExplicitConfigCode(c) ==
    IF c.separation <= 0 THEN "SPLIT_CONFIG_INVALID"
    ELSE IF c.trainEnd + c.separation > c.validation[1]
            \/ c.validation[2] + c.separation > c.holdout[1] THEN "SPLIT_CONFIG_OVERLAP"
    ELSE IF c.validation[1] > c.validation[2] \/ c.holdout[1] > c.holdout[2] THEN "SPLIT_CONFIG_INVALID"
    ELSE "none"

Explicit(S, c) ==
    LET parts == [p \in Partitions |-> {s \in S : ExplicitPlaces(s.match, S, c) = {p}}] IN
    IF ExplicitConfigCode(c) # "none" THEN Rejected(ExplicitConfigCode(c))
    ELSE IF \E m \in Matches(S) : Cardinality(ExplicitPlaces(m, S, c)) # 1
    THEN Rejected("SAME_MATCH_CROSSES_BOUNDARY")
    ELSE IF \E p \in Partitions : parts[p] = {} THEN Rejected("PARTITION_EMPTY")
    ELSE IF ~Ordered(parts) THEN Rejected("TEMPORAL_LEAKAGE_DETECTED")
    ELSE Performed(<<parts>>)

(* WALK_FORWARD_ROLLING_ORIGIN: from each origin back the training window, *)
(* then validation and holdout; a match that fits none is left out.        *)
TrainStart(o, S, c) == IF c.mode = "sliding" THEN o - c.width ELSE Min(Cutoffs(S))
WalkPlaces(m, o, S, c) ==
    LET v == o + c.horizon  h == v + c.holdHorizon IN
    (IF TrainStart(o, S, c) <= Low(m, S) /\ High(m, S) <= o THEN {"train"} ELSE {})
    \cup (IF o < Low(m, S) /\ High(m, S) <= v THEN {"validation"} ELSE {})
    \cup (IF v < Low(m, S) /\ High(m, S) <= h THEN {"holdout"} ELSE {})
\* Mutant: each sample goes by its own cutoff.
FoldAt_BySample(o, S, c) == [p \in Partitions |-> {s \in S : WalkPlaces(s.match, o, {s}, c) = {p}}]
FoldAt(o, S, c) == [p \in Partitions |-> {s \in S : WalkPlaces(s.match, o, S, c) = {p}}]
Complete(fold) == \A p \in Partitions : fold[p] # {}

FirstOrigin(S, c) == IF c.first # None THEN c.first ELSE Min(Cutoffs(S)) + c.period
Origins(S, c) ==
    LET first == FirstOrigin(S, c)  last == Max(Cutoffs(S)) IN
    {o \in first..last : (o - first) % c.step = 0}

(* The complete folds, in the order of their origins. *)
Folds(S, c) ==
    LET kept == {o \in Origins(S, c) : Complete(FoldAt(o, S, c))} IN
    [k \in 1..Cardinality(kept) |->
        FoldAt(CHOOSE o \in kept : Cardinality({x \in kept : x <= o}) = k, S, c)]

WalkForward(S, c) ==
    IF c.policy = "REJECT" /\ \E o \in Origins(S, c) :
            ~Complete(FoldAt(o, S, c)) /\ o + c.horizon <= Max(Cutoffs(S))
    THEN Rejected("INCOMPLETE_FINAL_FOLD")
    ELSE IF c.minimumFolds <= 0 THEN Rejected("SPLIT_CONFIG_NOT_DECLARED")
    ELSE IF Len(Folds(S, c)) < c.minimumFolds THEN Rejected("MINIMUM_FOLDS_NOT_MET")
    ELSE IF \E k \in DOMAIN Folds(S, c) : ~Ordered(Folds(S, c)[k]) THEN Rejected("TEMPORAL_LEAKAGE_DETECTED")
    ELSE Performed(Folds(S, c))

(* TemporalSplitBuilder.build. *)
Split(S, c) ==
    IF SampleCode(S) # "none" THEN Rejected(SampleCode(S))
    ELSE IF c.strategy = "explicit" THEN Explicit(S, c)
    ELSE IF c.strategy = "walk_forward" THEN WalkForward(S, c)
    ELSE Rejected("SPLIT_STRATEGY_INVALID")

-----------------------------------------------------------------------------
(* TrainingReadinessEvaluator looks at the partitions of the split, which  *)
(* are those of its first fold.                                            *)
Eligible(S) == {s \in S : s.state = "ELIGIBLE"}
Usable(r, split) == {s \in Eligible(UNION {split.folds[1][p] : p \in Partitions}) : s.role = r}

\* Mutant: the samples of any state show a class.
SupportState_AnyState(r, p, fold) ==
    LET of == {s \in fold[p] : s.role = r} IN
    IF \A k \in Classes[r] : Cardinality({s \in of : s.class = k}) >= Minimum[p] THEN "PASS" ELSE "UNSTABLE"

SupportState(r, p, fold) ==
    LET of == {s \in Eligible(fold[p]) : s.role = r} IN
    IF of = {} \/ \E s \in of : s.class = None THEN "UNKNOWN"
    ELSE IF \A k \in Classes[r] : Cardinality({s \in of : s.class = k}) >= Minimum[p] THEN "PASS"
    ELSE "UNSTABLE"

FeatureState(fold) ==
    IF \E p \in Partitions : Eligible(fold[p]) = {} THEN "UNKNOWN"
    ELSE IF \A p \in Partitions : \A s \in Eligible(fold[p]) : s.features = "yes" THEN "PASS" ELSE "UNSTABLE"

LeagueState(fold, scope) ==
    IF \A p \in Partitions : scope \subseteq {s.league : s \in fold[p]} THEN "PASS" ELSE "UNSTABLE"

StabilityState(fold) ==
    LET states == {SupportState(r, p, fold) : r \in Roles, p \in Partitions} \cup {FeatureState(fold)}
    IN IF states = {"PASS"} THEN "PASS" ELSE IF "UNKNOWN" \in states THEN "UNKNOWN" ELSE "UNSTABLE"

SameMatchState(fold) ==
    IF \E p, q \in Partitions : p # q /\ Matches(fold[p]) \cap Matches(fold[q]) # {} THEN "FAIL" ELSE "PASS"
FutureState(S) == IF \E s \in S : s.avail > s.cutoff THEN "FAIL" ELSE "PASS"

(* evaluate: READY when every diagnostic passes and each role has samples. *)
Ready(S, split, scope) ==
    LET fold == split.folds[1] IN
    /\ LeagueState(fold, scope) = "PASS" /\ StabilityState(fold) = "PASS"
    /\ SameMatchState(fold) = "PASS" /\ FutureState(S) = "PASS"
    /\ \A r \in Roles : Usable(r, split) # {}

(* run_detailed: no samples, no split and a blocked report; else a split   *)
(* that is refused ends the run, and one that is performed is reported on. *)
Report(S, c, scope) ==
    LET split == Split(S, c) IN
    IF S = {} THEN [code |-> "none", split |-> Rejected("NOT_SELECTED"), ready |-> FALSE]
    ELSE IF ScopeCode(scope, S) # "none"
    THEN [code |-> ScopeCode(scope, S), split |-> Rejected("NOT_REACHED"), ready |-> FALSE]
    ELSE [code |-> split.code, split |-> split, ready |-> split.ok /\ Ready(S, split, scope)]

-----------------------------------------------------------------------------
(* validate_formal_fit_gate.  Data set, split and report are each named by *)
(* the caller: "" when one of the fields about it is missing, "NONE" for   *)
(* no split, "bad hash", or "hash".  No report is read.                    *)
GateReasons(b) ==
    (IF "" \in {b.dataset, b.split, b.report} THEN {"READINESS_BINDING_INCOMPLETE"} ELSE {})
    \cup (IF b.split \in {"", "NONE"} THEN {"FORMAL_SPLIT_NOT_AVAILABLE"} ELSE {})
    \cup (IF "bad hash" \in {b.dataset, b.split, b.report} THEN {"READINESS_BINDING_HASH_INVALID"} ELSE {})
    \cup (IF b.ready THEN {} ELSE {"READINESS_NOT_APPROVED_FOR_FITTING"})
    \cup (IF b.usable > 0 THEN {} ELSE {"TRAINING_DATA_INSUFFICIENT"})
    \cup (IF b.authorized THEN {} ELSE {"EWP005_NOT_AUTHORIZED"})

(* current_real_prefit_validation: the manifest that is there and whatever *)
(* report is, with no revision or hash of a split and no authorisation.    *)
RealBinding(r) ==
    [dataset |-> "hash", split |-> "", report |-> "hash", ready |-> r.ready, authorized |-> FALSE,
     usable |-> IF r.split.ok THEN Cardinality(UNION {Usable(x, r.split) : x \in Roles}) ELSE 0]

SplitInit == samples = {} /\ reports = {} /\ grants = {}

(* A new revision of the data set. *)
Rebuild == \E S \in Revisions : samples' = S /\ UNCHANGED <<reports, grants>>

RunSplit == \E c \in Configs, scope \in Scopes :
    LET r == Report(samples, c, scope) IN
    /\ r.code = "none" /\ Cardinality(reports) < MaxReports
    /\ reports' = reports \cup {[samples |-> samples, config |-> c, scope |-> scope,
                                code |-> r.code, split |-> r.split, ready |-> r.ready]}
    /\ UNCHANGED <<samples, grants>>

(* request_formal_fit: for a report that the caller has or for none, with  *)
(* whatever the caller says of it.  The request itself fits nothing.       *)
RequestFit == \E r \in reports \cup {None}, b \in FitClaims :
    grants' = grants \cup {[report |-> r, reasons |-> GateReasons(b)]} /\ UNCHANGED <<samples, reports>>

ValidateReal == \E r \in reports :
    /\ grants' = grants \cup {[report |-> r, reasons |-> GateReasons(RealBinding(r))]}
    /\ UNCHANGED <<samples, reports>>

SplitNext == Rebuild \/ RunSplit \/ RequestFit \/ ValidateReal
SplitSpec == SplitInit /\ [][SplitNext]_splitVars

-----------------------------------------------------------------------------
(* In every fold of every split performed, a match is in one partition,    *)
(* however many cutoffs it has, and what is trained on is decided before   *)
(* anything that is validated or held out.                                 *)
FoldsAreSeparated ==
    \A r \in reports : \A k \in DOMAIN r.split.folds :
        LET f == r.split.folds[k] IN
        /\ \A p \in Partitions : \A s \in f[p] : Of(s.match, r.samples) \subseteq f[p]
        /\ \A x \in f["train"], y \in f["validation"], z \in f["holdout"] :
               x.cutoff < y.cutoff /\ y.cutoff < z.cutoff

(* A report says READY only if the samples of the first fold show every    *)
(* class of every role, in every partition, as often as the minimum, with  *)
(* all their features, over every declared league.                         *)
Shows(r, f) ==
    \A p \in Partitions :
        /\ \A e \in Roles : \A k \in Classes[e] :
               Cardinality({s \in f[p] : s.role = e /\ s.class = k /\ s.state = "ELIGIBLE"}) >= Minimum[p]
        /\ \A s \in f[p] : s.state = "ELIGIBLE" => s.features = "yes"
        /\ r.scope \subseteq {s.league : s \in f[p]}
ReadyReportsShow == \A r \in reports : r.ready => r.split.ok /\ Shows(r, r.split.folds[1])

(* A fit is let through for a READY report of the samples there are now.   *)
(* Refuted: v4_batch15_ewp004_training_infrastructure_contract.json has    *)
(* "dataset_id/revision/hash and split id/revision/hash must match the     *)
(* active readiness report", but the gate believes what its caller says.   *)
FitsRestOnEvidence ==
    [][\A g \in grants' \ grants : g.reasons = {} =>
          g.report # None /\ g.report.ready /\ g.report.samples = samples]_splitVars

(* Each required fold must pass the declared readiness rule.  Refuted: the *)
(* report looks at the first fold only.                                    *)
EveryFoldIsReady ==
    \A r \in reports : r.ready => \A k \in DOMAIN r.split.folds : Shows(r, r.split.folds[k])

(* The result of a training match is known when validation begins.         *)
(* Refuted: only cutoffs are compared, never kickoffs.                     *)
TrainingResultsAreKnown ==
    \A r \in reports : \A k \in DOMAIN r.split.folds :
        \A x \in r.split.folds[k]["train"], y \in r.split.folds[k]["validation"] : x.kickoff <= y.cutoff
=============================================================================
