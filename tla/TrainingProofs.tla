---------------------------- MODULE TrainingProofs ----------------------------
(***************************************************************************)
(* Theorems about the data set builder, the temporal splits and the        *)
(* fitting boundary, for every value of their constants.                   *)
(***************************************************************************)
EXTENDS TrainingDataset, FittingBoundary, SequenceTheorems, TLAPS

-----------------------------------------------------------------------------
(* Temporal splits.                                                        *)

(* The order _check_partition_order asks for, and folds made of whole      *)
(* matches: a match that is placed has all its samples in one partition.   *)
Separated(f, S) ==
    /\ \A p \in Partitions : \A s \in f[p] : Of(s.match, S) \subseteq f[p]
    /\ \A x \in f["train"], y \in f["validation"], z \in f["holdout"] :
           x.cutoff < y.cutoff /\ y.cutoff < z.cutoff

\* What is decided for matches and is ordered is separated.
LEMMA PlacedIsSeparated ==
    ASSUME NEW S, NEW places,
           NEW f, f = [p \in Partitions |-> {s \in S : places[s.match] = {p}}],
           Ordered(f)
    PROVE  Separated(f, S)
<1>1. \A p \in Partitions : f[p] = {s \in S : places[s.match] = {p}}
  OBVIOUS
<1>2. ASSUME NEW p \in Partitions, NEW s \in f[p]
      PROVE  Of(s.match, S) \subseteq f[p]
  <2>1. places[s.match] = {p}
    BY <1>1, <1>2
  <2>2. ASSUME NEW t \in S, t.match = s.match
        PROVE  t \in f[p]
    BY <1>1, <2>1, <2>2
  <2> QED
    BY <2>2 DEF Of
<1>3. ASSUME NEW x \in f["train"], NEW y \in f["validation"], NEW z \in f["holdout"]
      PROVE  x.cutoff < y.cutoff /\ y.cutoff < z.cutoff
  <2>1. /\ x.cutoff \in Cutoffs(f["train"]) /\ y.cutoff \in Cutoffs(f["validation"])
        /\ z.cutoff \in Cutoffs(f["holdout"])
    BY DEF Cutoffs
  <2>2. /\ \A a \in Cutoffs(f["train"]), b \in Cutoffs(f["validation"]) : a < b
        /\ \A a \in Cutoffs(f["validation"]), b \in Cutoffs(f["holdout"]) : a < b
    BY DEF Ordered
  <2> QED
    BY <2>1, <2>2
<1> QED
  BY <1>2, <1>3 DEF Separated

\* EXPLICIT_TEMPORAL_BOUNDARIES separates its one fold.
LEMMA ExplicitIsSeparated ==
    ASSUME NEW S, NEW c, Explicit(S, c).ok
    PROVE  \A k \in DOMAIN Explicit(S, c).folds : Separated(Explicit(S, c).folds[k], S)
<1> DEFINE parts == [p \in Partitions |-> {s \in S : ExplicitPlaces(s.match, S, c) = {p}}]
           places == [m \in Matches(S) |-> ExplicitPlaces(m, S, c)]
<1>1. Explicit(S, c) = Performed(<<parts>>) /\ Ordered(parts)
  BY DEF Explicit, Rejected
<1>2. parts = [p \in Partitions |-> {s \in S : places[s.match] = {p}}]
  BY DEF Matches
<1> HIDE DEF parts, places
<1>3. Separated(parts, S)
  BY <1>1, <1>2, PlacedIsSeparated
<1> QED
  BY <1>1, <1>3 DEF Performed

\* WALK_FORWARD_ROLLING_ORIGIN separates each of its folds.
LEMMA WalkIsSeparated ==
    ASSUME NEW S, NEW c, WalkForward(S, c).ok
    PROVE  \A k \in DOMAIN WalkForward(S, c).folds :
               Separated(WalkForward(S, c).folds[k], S)
<1>1. /\ WalkForward(S, c) = Performed(Folds(S, c))
      /\ \A k \in DOMAIN Folds(S, c) : Ordered(Folds(S, c)[k])
  BY DEF WalkForward, Rejected
<1>2. WalkForward(S, c).folds = Folds(S, c)
  BY <1>1 DEF Performed
<1>3. ASSUME NEW k \in DOMAIN Folds(S, c)
      PROVE  Separated(Folds(S, c)[k], S)
  <2> DEFINE kept == {o \in Origins(S, c) : Complete(FoldAt(o, S, c))}
             origin == CHOOSE o \in kept : Cardinality({x \in kept : x <= o}) = k
             places == [m \in Matches(S) |-> WalkPlaces(m, origin, S, c)]
  <2>1. Folds(S, c)[k] = FoldAt(origin, S, c)
    BY DEF Folds
  <2>2. FoldAt(origin, S, c) = [p \in Partitions |-> {s \in S : places[s.match] = {p}}]
    BY DEF FoldAt, Matches
  <2>3. Ordered(FoldAt(origin, S, c))
    BY <1>1, <1>3, <2>1
  <2> HIDE DEF origin, places
  <2>4. Separated(FoldAt(origin, S, c), S)
    BY <2>2, <2>3, PlacedIsSeparated
  <2> QED
    BY <2>1, <2>4
<1> QED
  BY <1>2, <1>3

\* A split that is not performed has no folds; one that is separates them all.
LEMMA SplitIsSeparated ==
    ASSUME NEW S, NEW c
    PROVE  \A k \in DOMAIN Split(S, c).folds : Separated(Split(S, c).folds[k], S)
<1>1. \A code : DOMAIN Rejected(code).folds = {}
  BY DEF Rejected
<1>2. CASE \E code : Split(S, c) = Rejected(code)
  BY <1>1, <1>2
<1>3. CASE Split(S, c) = Explicit(S, c) /\ \A code : Split(S, c) # Rejected(code)
  <2>1. Explicit(S, c).ok
    BY <1>3 DEF Explicit, Performed
  <2> QED
    BY <1>3, <2>1, ExplicitIsSeparated
<1>4. CASE Split(S, c) = WalkForward(S, c) /\ \A code : Split(S, c) # Rejected(code)
  <2>1. WalkForward(S, c).ok
    BY <1>4 DEF WalkForward, Performed
  <2> QED
    BY <1>4, <2>1, WalkIsSeparated
<1> QED
  BY <1>2, <1>3, <1>4 DEF Split

(* A READY report has looked at the first fold and found every class of    *)
(* every role shown.                                                       *)
LEMMA ReadyShows ==
    ASSUME NEW S, NEW split, NEW scope, Ready(S, split, scope), NEW r, r.scope = scope
    PROVE  Shows(r, split.folds[1])
<1> DEFINE f == split.folds[1]
           support == {SupportState(e, p, f) : e \in Roles, p \in Partitions}
<1>1. LeagueState(f, scope) = "PASS" /\ StabilityState(f) = "PASS"
  BY DEF Ready
<1> HIDE DEF f
<1>2. support \cup {FeatureState(f)} = {"PASS"}
  BY <1>1 DEF StabilityState
<1>3. ASSUME NEW p \in Partitions, NEW e \in Roles, NEW k \in Classes[e]
      PROVE  Cardinality({s \in f[p] : s.role = e /\ s.class = k /\ s.state = "ELIGIBLE"}) >= Minimum[p]
  <2> DEFINE of == {s \in Eligible(f[p]) : s.role = e}
  <2>1. SupportState(e, p, f) = "PASS"
    BY <1>2
  <2>2. Cardinality({s \in of : s.class = k}) >= Minimum[p]
    BY <2>1 DEF SupportState
  <2>3. {s \in of : s.class = k} = {s \in f[p] : s.role = e /\ s.class = k /\ s.state = "ELIGIBLE"}
    BY DEF Eligible
  <2> QED
    BY <2>2, <2>3
<1>4. ASSUME NEW p \in Partitions, NEW s \in f[p], s.state = "ELIGIBLE"
      PROVE  s.features = "yes"
  <2>1. FeatureState(f) = "PASS"
    BY <1>2
  <2> QED
    BY <2>1, <1>4 DEF FeatureState, Eligible
<1>5. \A p \in Partitions : scope \subseteq {s.league : s \in f[p]}
  BY <1>1 DEF LeagueState
<1> QED
  BY <1>3, <1>4, <1>5 DEF Shows, f

(* What the kept reports rest on. *)
SplitInv ==
    \A r \in reports :
        /\ \A k \in DOMAIN r.split.folds : Separated(r.split.folds[k], r.samples)
        /\ r.ready => r.split.ok /\ Shows(r, r.split.folds[1])

\* A run of the split adds a report whose folds are separated and which is
\* ready only on what its first fold shows.
LEMMA RunSplitKeepsSplitInv == SplitInv /\ RunSplit => SplitInv'
<1> SUFFICES ASSUME SplitInv, RunSplit PROVE SplitInv'
  OBVIOUS
<1>1. PICK c \in Configs, scope \in Scopes :
         LET r == Report(samples, c, scope) IN
         /\ r.code = "none"
         /\ reports' = reports \cup {[samples |-> samples, config |-> c, scope |-> scope,
                                      code |-> r.code, split |-> r.split, ready |-> r.ready]}
         /\ UNCHANGED <<samples, grants>>
  BY DEF RunSplit
<1> DEFINE r == Report(samples, c, scope)
           report == [samples |-> samples, config |-> c, scope |-> scope,
                      code |-> r.code, split |-> r.split, ready |-> r.ready]
<1>2. \/ r.split = Rejected("NOT_SELECTED") /\ ~r.ready
      \/ r.split = Rejected("NOT_REACHED") /\ ~r.ready
      \/ r.split = Split(samples, c)
         /\ r.ready = (Split(samples, c).ok /\ Ready(samples, Split(samples, c), scope))
  BY DEF Report
<1>3. /\ report.split = r.split /\ report.ready = r.ready
      /\ report.samples = samples /\ report.scope = scope
  OBVIOUS
<1>4. reports' = reports \cup {report} /\ grants' = grants
  BY <1>1
<1> HIDE DEF r, report
<1>5. \A k \in DOMAIN report.split.folds : Separated(report.split.folds[k], report.samples)
  BY <1>2, <1>3, SplitIsSeparated DEF Rejected
<1>6. report.ready => report.split.ok /\ Shows(report, report.split.folds[1])
  BY <1>2, <1>3, ReadyShows
<1> QED
  BY <1>4, <1>5, <1>6 DEF SplitInv

\* The kept reports keep to what they were made of.
LEMMA SplitInductive == SplitSpec => []SplitInv
<1>1. SplitInit => SplitInv
  BY DEF SplitInit, SplitInv
<1>2. SplitInv /\ (Rebuild \/ RequestFit \/ ValidateReal \/ UNCHANGED splitVars) => SplitInv'
  BY DEF Rebuild, RequestFit, ValidateReal, splitVars, SplitInv
<1>3. SplitInv /\ [SplitNext]_splitVars => SplitInv'
  BY <1>2, RunSplitKeepsSplitInv DEF SplitNext
<1> QED
  BY <1>1, <1>3, PTL DEF SplitSpec

(* TemporalSplitBuilder never splits a match over two partitions and never *)
(* trains on what is decided after what it validates or holds out.         *)
THEOREM FoldsAreAlwaysSeparated == SplitSpec => []FoldsAreSeparated
<1>1. SplitInv => FoldsAreSeparated
  BY DEF SplitInv, Separated, FoldsAreSeparated
<1> QED
  BY <1>1, SplitInductive, PTL

\* A report says READY only of a performed split whose first fold shows every
\* class of every role.
LEMMA ReadyReportsAlwaysShow == SplitSpec => []ReadyReportsShow
<1>1. SplitInv => ReadyReportsShow
  BY DEF SplitInv, ReadyReportsShow
<1> QED
  BY <1>1, SplitInductive, PTL

-----------------------------------------------------------------------------
(* Lists of parameter artifacts.                                           *)

(* In a list some artifact of each id has its highest revision. *)
Topped(list) ==
    \A j \in DOMAIN list : \E k \in DOMAIN list :
        /\ list[k].id = list[j].id
        /\ \A i \in DOMAIN list : list[i].id = list[j].id => list[i].rev <= list[k].rev

Rising(list) ==
    \A i, j \in DOMAIN list :
        (i < j /\ list[i].id = list[j].id) => list[i].rev < list[j].rev /\ list[j].sup = list[j].id

FittingInv ==
    /\ \A a \in built : a.rev \in Int
    /\ \A list \in lists : list \in Seq(built) /\ Topped(list) /\ Rising(list)

\* The artifact that append_parameter_artifact takes has a higher revision than
\* any of its id in the list, and supersedes the id.
LEMMA AppendedIsAbove ==
    ASSUME NEW list \in Seq(built), NEW a, AppendOK(list, a), Topped(list),
           \A b \in built : b.rev \in Int, a.rev \in Int,
           NEW j \in DOMAIN list, list[j].id = a.id
    PROVE  list[j].rev < a.rev /\ a.sup = a.id
<1> DEFINE revs == RevisionsOf(list, a.id)
<1>1. PICK k \in DOMAIN list :
         /\ list[k].id = a.id
         /\ \A i \in DOMAIN list : list[i].id = a.id => list[i].rev <= list[k].rev
  BY DEF Topped
<1>2. \A i \in DOMAIN list : list[i].rev \in Int
  OBVIOUS
<1>3. /\ list[k].rev \in revs /\ list[j].rev \in revs
      /\ revs \subseteq Int /\ \A x \in revs : x <= list[k].rev
  BY <1>1, <1>2 DEF RevisionsOf
<1>4. a.rev > Max(revs) /\ a.sup = a.id
  BY <1>3 DEF AppendOK
<1> HIDE DEF revs
<1>5. list[k].rev \in revs /\ \A x \in revs : list[k].rev >= x
  BY <1>3
<1>6. Max(revs) \in revs /\ \A x \in revs : Max(revs) >= x
  BY <1>5 DEF Max
<1>7. Max(revs) \in Int /\ list[j].rev \in Int /\ Max(revs) >= list[j].rev
  BY <1>3, <1>6
<1> QED
  BY <1>4, <1>7

\* So the list stays one of rising revisions.
LEMMA AppendKeepsLists ==
    ASSUME NEW list \in Seq(built), NEW a \in built, AppendOK(list, a),
           Topped(list), Rising(list), \A b \in built : b.rev \in Int
    PROVE  /\ Append(list, a) \in Seq(built)
           /\ Topped(Append(list, a)) /\ Rising(Append(list, a))
<1> DEFINE new == Append(list, a)
           n == Len(list)
<1>1. /\ new \in Seq(built) /\ n \in Nat /\ DOMAIN list = 1..n /\ DOMAIN new = 1..(n + 1)
      /\ new[n + 1] = a /\ \A i \in 1..n : new[i] = list[i]
  OBVIOUS
<1>2. \A j \in 1..n : list[j].id = a.id => list[j].rev < a.rev /\ a.sup = a.id
  BY <1>1, AppendedIsAbove
<1>3. \A i \in 1..n : list[i].rev \in Int
  BY <1>1
<1> HIDE DEF new, n
<1>4. Rising(new)
  <2> SUFFICES ASSUME NEW i \in 1..(n + 1), NEW j \in 1..(n + 1), i < j, new[i].id = new[j].id
               PROVE  new[i].rev < new[j].rev /\ new[j].sup = new[j].id
    BY <1>1 DEF Rising
  <2>1. i \in 1..n /\ new[i] = list[i]
    BY <1>1
  <2>2. CASE j \in 1..n
    <3>1. new[j] = list[j]
      BY <1>1, <2>2
    <3> QED
      BY <1>1, <2>1, <2>2, <3>1 DEF Rising
  <2>3. CASE j = n + 1
    BY <1>1, <1>2, <2>1, <2>3
  <2> QED
    BY <1>1, <2>2, <2>3
<1>5. Topped(new)
  <2> SUFFICES ASSUME NEW j \in 1..(n + 1)
               PROVE  \E k \in 1..(n + 1) :
                         /\ new[k].id = new[j].id
                         /\ \A i \in 1..(n + 1) :
                               new[i].id = new[j].id => new[i].rev <= new[k].rev
    BY <1>1 DEF Topped
  <2>1. CASE new[j].id = a.id
    <3>1. n + 1 \in 1..(n + 1) /\ a.rev \in Int
      BY <1>1
    <3>2. ASSUME NEW i \in 1..(n + 1), new[i].id = a.id
          PROVE  new[i].rev <= a.rev
      <4>1. CASE i = n + 1
        BY <1>1, <3>1, <4>1
      <4>2. CASE i \in 1..n
        <5>1. new[i] = list[i]
          BY <1>1, <4>2
        <5>2. list[i].rev < a.rev /\ list[i].rev \in Int
          BY <1>2, <1>3, <3>2, <4>2, <5>1
        <5> QED
          BY <3>1, <5>1, <5>2
      <4> QED
        BY <1>1, <4>1, <4>2
    <3> QED
      BY <1>1, <2>1, <3>1, <3>2
  <2>2. CASE new[j].id # a.id
    <3>1. j \in 1..n /\ new[j] = list[j]
      BY <1>1, <2>2
    <3>2. PICK k \in 1..n :
             /\ list[k].id = list[j].id
             /\ \A i \in 1..n : list[i].id = list[j].id => list[i].rev <= list[k].rev
      BY <1>1, <3>1 DEF Topped
    <3>3. k \in 1..(n + 1) /\ new[k] = list[k]
      BY <1>1
    <3>4. \A i \in 1..(n + 1) : new[i].id = new[j].id => i \in 1..n /\ new[i] = list[i]
      BY <1>1, <2>2
    <3> QED
      BY <3>1, <3>2, <3>3, <3>4
  <2> QED
    BY <2>1, <2>2
<1> QED
  BY <1>1, <1>4, <1>5 DEF new

\* Every call of the fitting boundary keeps the lists in order.
LEMMA FittingInductive == FittingSpec => []FittingInv
<1>1. FittingInit => FittingInv
  BY DEF FittingInit, FittingInv, Topped, Rising
<1>2. FittingInv /\ [FittingNext]_fittingVars => FittingInv'
  <2> SUFFICES ASSUME FittingInv, [FittingNext]_fittingVars PROVE FittingInv'
    OBVIOUS
  <2>1. CASE BuildArtifact
    <3>1. \/ UNCHANGED <<built, lists>>
          \/ \E a : a.rev \in Int /\ built' = built \cup {a} /\ lists' = lists
      <4>1. PICK r \in Roles, f \in Families, b \in Bindings, n \in 1..MaxArtifacts,
                 sup \in BOOLEAN :
               LET a == [id |-> <<r, f>>, lineage |-> b,
                         config |-> runtime.configs[<<r, f>>].id,
                         rev |-> n, sup |-> IF sup THEN <<r, f>> ELSE None]
               IN \/ UNCHANGED <<built, lists>>
                  \/ built' = built \cup {a} /\ lists' = lists
        BY <2>1 DEF BuildArtifact, Refuse
      <4> DEFINE a == [id |-> <<r, f>>, lineage |-> b,
                       config |-> runtime.configs[<<r, f>>].id,
                       rev |-> n, sup |-> IF sup THEN <<r, f>> ELSE None]
      <4>2. a.rev \in Int
        OBVIOUS
      <4> QED
        BY <4>1, <4>2
    <3>2. built \subseteq built' /\ lists' = lists /\ \A a \in built' : a.rev \in Int
      BY <3>1 DEF FittingInv
    <3>3. Seq(built) \subseteq Seq(built')
      BY <3>2
    <3> QED
      BY <3>2, <3>3 DEF FittingInv
  <2>2. CASE AppendArtifact
    <3>1. PICK list \in lists, a \in built :
             \/ UNCHANGED <<built, lists>>
             \/ AppendOK(list, a) /\ built' = built /\ lists' = lists \cup {Append(list, a)}
      BY <2>2 DEF AppendArtifact, Refuse
    <3>2. CASE UNCHANGED <<built, lists>>
      BY <3>2 DEF FittingInv
    <3>3. CASE AppendOK(list, a) /\ built' = built /\ lists' = lists \cup {Append(list, a)}
      <4>1. /\ Append(list, a) \in Seq(built)
            /\ Topped(Append(list, a)) /\ Rising(Append(list, a))
        BY <3>3, AppendKeepsLists DEF FittingInv
      <4> QED
        BY <3>3, <4>1 DEF FittingInv
    <3> QED
      BY <3>1, <3>2, <3>3
  <2>3. CASE UNCHANGED <<built, lists>>
    BY <2>3 DEF FittingInv
  <2>4. FittingNext => BuildArtifact \/ AppendArtifact \/ UNCHANGED <<built, lists>>
    BY DEF FittingNext, OpenRuntime, FitSynthetic, BuildPackage, SelectCandidate, Promote, Refuse
  <2> QED
    BY <2>1, <2>2, <2>3, <2>4 DEF fittingVars
<1> QED
  BY <1>1, <1>2, PTL DEF FittingSpec

(* Whatever samples were split and whatever lists callers keep: a report   *)
(* says READY only of what its first fold shows, and the artifacts of one  *)
(* id in a list rise, each superseding the one before.                     *)
THEOREM FittingIsAlwaysSound == SplitSpec /\ FittingSpec => []FittingIsSound
<1>1. FittingInv => ListsAreLinear
  BY DEF FittingInv, ListsAreLinear, Rising
<1>2. ReadyReportsShow /\ ListsAreLinear => FittingIsSound
  BY DEF FittingIsSound
<1> QED
  BY <1>1, <1>2, ReadyReportsAlwaysShow, FittingInductive, PTL

-----------------------------------------------------------------------------
(* The data set builder.                                                   *)

Everything == Archived \cup Arriving
JobFields == {"q", "id", "snapshot", "rev", "prior", "todo", "cand", "pre", "roles", "gate",
              "samples", "files", "counts", "step"}

(* The samples of a match, profile and role in the manifests of an id. *)
Line(id, s) == Kin(s, UNION {m.samples : m \in Manifests(id)})

(* Revisions count up from one; a data set and a line of samples that has  *)
(* any has a newest.                                                       *)
RevisionsCount ==
    \A m \in Docs("manifest") :
        m.rev \in Nat \ {0} /\ \A s \in m.samples : s.rev \in Nat \ {0}
NewestExist ==
    \A m \in Docs("manifest") :
        /\ LastManifest(m.id) # {}
        /\ \A s \in m.samples : \E t \in Line(m.id, s) : \A o \in Line(m.id, s) : o.rev <= t.rev

DiskInv == ManifestsAreBacked /\ RevisionsAreLinear /\ SamplesAreAsOf /\ RevisionsCount /\ NewestExist

(* The build under way: what it judges, what it has written and the        *)
(* revision it writes.                                                     *)
Judges ==
    /\ job.snapshot \subseteq Everything
    /\ job.todo \subseteq {Candidate(e) : e \in Everything}
    /\ job.roles # {} =>
          /\ job.cand \in {Candidate(e) : e \in Everything}
          /\ job.cand.cutoff # None /\ job.cand.kickoff # None
          /\ job.pre \subseteq {e \in Everything : e.domain = "pre_match" /\ e.avail <= job.cand.cutoff}
HasWritten ==
    /\ \A f \in job.files : f[1] \in DOMAIN approved /\ approved[f[1]] = f[2]
    /\ job.step # "candidates" =>
          /\ job.todo = {} /\ job.roles = {}
          /\ <<"dataset", job.id, job.rev>> \in DOMAIN approved
          /\ approved[<<"dataset", job.id, job.rev>>] # Torn
          /\ approved[<<"dataset", job.id, job.rev>>].samples = job.samples
Positive(n) == n \in Nat \ {0}
WillRevise ==
    job.step \notin {"manifest", "evidence"} =>
        /\ Positive(job.rev)
        /\ \/ \A o \in Manifests(job.id) : o.rev < job.rev
           \/ job.rev = 1 /\ job.samples = {} /\ job.todo = {} /\ job.roles = {}
        /\ job.rev > 1 =>
              job.prior # {} /\ \A m \in job.prior : m \in Manifests(job.id) /\ m.rev = job.rev - 1
        /\ \A s \in job.samples : Positive(s.rev) /\ Continues(s, Line(job.id, s))
JobInv ==
    job # None => DOMAIN job = JobFields /\ Judges /\ HasWritten /\ WillRevise

DatasetInv == archive \subseteq Everything /\ DiskInv /\ JobInv

USE ArchiveRecords DEF Positive

\* A sample that passes keeps to the as-of rule.
LEMMA SampleIsAsOf ==
    ASSUME DatasetInv, job # None, job.roles # {}, Reasons(Role) = {}, SampleOK(Sample(Role)),
           NEW s, s = Sample(Role)
    PROVE  /\ \A e \in Cited(s.sources) : e.domain = "pre_match" /\ AsOf(e.avail, s.cand)
           /\ \A t \in s.times : AsOf(t, s.cand)
           /\ s.label # {}
           /\ \A l \in Cited(s.label) : l.domain = "post_match" /\ l.stamp >= s.cand.kickoff
<1> DEFINE r == Role
           c == job.cand
           post == PostOf(c, job.snapshot)
<1>1. /\ s.sources = Ids(job.pre) /\ s.cand = c /\ s.label = Ids(TheLabel(r))
      /\ s.times = IF job.q.mode = "minimum" THEN FeatureTimes(Profile(job.q.minimum), r, job.pre)
                   ELSE {e.avail : e \in job.pre}
  BY DEF Sample
<1>2. /\ c.cutoff \in Nat /\ c.kickoff \in Nat
      /\ \A e \in job.pre : e \in Everything /\ e.domain = "pre_match" /\ e.avail <= c.cutoff
      /\ job.snapshot \subseteq Everything
  BY DEF DatasetInv, JobInv, Judges, Candidate, Everything, Times
<1>3. c.cutoff < c.kickoff
  BY <1>1 DEF SampleOK, AsOf
<1>4. \A e \in job.pre : AsOf(e.avail, c)
  BY <1>2, <1>3 DEF AsOf, Everything
<1>5. ASSUME NEW e \in Cited(s.sources)
      PROVE  e.domain = "pre_match" /\ AsOf(e.avail, s.cand)
  <2>1. PICK x \in job.pre : x.id = e.id
    BY <1>1 DEF Cited, Ids
  <2>2. e = x
    BY <1>2, <2>1 DEF Cited, Everything
  <2> QED
    BY <1>1, <1>2, <1>4, <2>2
<1>6. ASSUME NEW t \in s.times PROVE AsOf(t, s.cand)
  <2>1. CASE job.q.mode # "minimum"
    BY <1>1, <1>4, <2>1
  <2>2. CASE job.q.mode = "minimum"
    <3> DEFINE p == Profile(job.q.minimum)
    <3>0. PICK f \in p.required[r] :
             \E e \in Carrier(f, r, job.pre) :
                 t = IF f[1] = "MARKET" THEN e.avail ELSE e.values[f[2]].avail
      BY <1>1, <2>2 DEF FeatureTimes
    <3>1. PICK e \in Carrier(f, r, job.pre) :
             t = IF f[1] = "MARKET" THEN e.avail ELSE e.values[f[2]].avail
      BY <3>0
    <3>2. FeatureReasons(f, r, job.pre, c) = {}
      BY <2>2 DEF Reasons, MinimumReasons
    <3> HIDE DEF p, r
    <3>3. CASE f[1] = "MARKET"
      BY <1>1, <1>4, <3>1, <3>3 DEF Carrier, OfficialEntry
    <3>4. CASE f[1] # "MARKET"
      BY <1>1, <3>1, <3>2, <3>4 DEF FeatureReasons
    <3> QED
      BY <3>3, <3>4
  <2> QED
    BY <2>1, <2>2
<1>7. LabelReasons(r, post, c, job.snapshot) = {}
  BY DEF Reasons, FullReasons
<1> DEFINE of == {e \in post : e.type \in LabelTypes(r)}
           label == Newest(of)
<1>8. of # {} /\ DomainEntry(post, LabelTypes(r)) = {label}
  BY <1>7 DEF LabelReasons, DomainEntry
<1>9. label \in of /\ of \subseteq Everything
  <2>1. of \subseteq Everything
    BY <1>2 DEF PostOf
  <2> HIDE DEF of
  <2> QED
    BY <1>8, <2>1, ArchiveIsOrdered DEF Newest, Everything
<1>10. TheLabel(r) = {label}
  BY <1>7, <1>8 DEF TheLabel, Label
<1>11. label.domain = "post_match" /\ label.stamp >= c.kickoff
  <2>1. label.domain = "post_match"
    BY <1>9 DEF PostOf
  <2>2. ~(label.stamp = None \/ label.stamp < c.kickoff)
    <3> HIDE DEF label, post, c
    <3> QED
      BY <1>7, <1>8 DEF LabelReasons
  <2>3. label.stamp \in Nat
    BY <1>9, <2>2 DEF Everything, Times
  <2> QED
    BY <1>2, <2>1, <2>2, <2>3
<1>12. ASSUME NEW l \in Cited(s.label)
       PROVE  l.domain = "post_match" /\ l.stamp >= s.cand.kickoff
  <2> HIDE DEF label, of
  <2>1. l.id = label.id /\ l \in Everything /\ label \in Everything
    BY <1>1, <1>9, <1>10 DEF Cited, Ids, Everything
  <2>2. l = label
    BY <2>1 DEF Everything
  <2> QED
    BY <1>1, <1>11, <2>2
<1>13. s.label # {}
  <2> HIDE DEF label
  <2>1. label.id \in s.label
    BY <1>1, <1>10 DEF Ids
  <2> QED
    BY <2>1
<1> QED
  BY <1>5, <1>6, <1>12, <1>13

-----------------------------------------------------------------------------
(* What a step does to the files.                                          *)

\* A document is whole at its path; the other paths keep theirs.
Written(path, doc) ==
    /\ doc # Torn
    /\ DOMAIN approved' = DOMAIN approved \cup {path}
    /\ approved'[path] = doc
    /\ \A p \in DOMAIN approved : approved'[p] = approved[p]

\* _write_append_only writes the document, or ends the build.
LEMMA PutWrites ==
    ASSUME NEW path, NEW doc, doc # Torn, NEW next, Put(path, doc, next)
    PROVE  \/ Written(path, doc) /\ job' = next
           \/ approved' = approved /\ job' = None
<1>1. CASE Collision(path, doc) = "none"
  <2>1. path \in DOMAIN approved => approved[path] = doc
    BY <1>1 DEF Collision
  <2>2. approved' = With(approved, path, doc) /\ job' = next
    BY <1>1 DEF Put
  <2> QED
    BY <2>1, <2>2 DEF Written, With
<1>2. CASE Collision(path, doc) # "none"
  BY <1>2 DEF Put
<1> QED
  BY <1>1, <1>2

\* What is on disk after a document was written.
LEMMA DocsAfter ==
    ASSUME NEW path, NEW doc, Written(path, doc), NEW kind
    PROVE  Docs(kind)' = IF path[1] = kind THEN Docs(kind) \cup {doc} ELSE Docs(kind)
<1> DEFINE old == {q \in DOMAIN approved : q[1] = kind /\ approved[q] # Torn}
           new == {q \in DOMAIN approved' : q[1] = kind /\ approved'[q] # Torn}
<1>1. Docs(kind)' = {approved'[p] : p \in new} /\ Docs(kind) = {approved[p] : p \in old}
  BY DEF Docs
<1>2. new = IF path[1] = kind THEN old \cup {path} ELSE old
  BY DEF Written
<1>3. \A p \in old : approved'[p] = approved[p]
  BY DEF Written
<1>4. approved'[path] = doc
  BY DEF Written
<1> HIDE DEF old, new
<1> QED
  BY <1>1, <1>2, <1>3, <1>4

\* Files that are backed stay so.
LEMMA FilesStayBacked ==
    ASSUME NEW path, NEW doc, Written(path, doc), NEW files,
           \A f \in files : f[1] \in DOMAIN approved /\ approved[f[1]] = f[2]
    PROVE  \A f \in files \cup {<<path, doc>>} :
               f[1] \in DOMAIN approved' /\ approved'[f[1]] = f[2]
BY DEF Written

\* A document that is no manifest leaves the manifests sound.
LEMMA OtherDocuments ==
    ASSUME DiskInv, NEW path, NEW doc, Written(path, doc), path[1] # "manifest",
           path[1] = "sample" =>
              /\ \A e \in Cited(doc.sources) : e.domain = "pre_match" /\ AsOf(e.avail, doc.cand)
              /\ \A t \in doc.times : AsOf(t, doc.cand)
              /\ doc.label # {}
              /\ \A l \in Cited(doc.label) : l.domain = "post_match" /\ l.stamp >= doc.cand.kickoff
    PROVE  DiskInv' /\ \A id : Manifests(id)' = Manifests(id)
<1>1. /\ Docs("manifest")' = Docs("manifest") /\ Docs("dataset") \subseteq Docs("dataset")'
      /\ Docs("sample")' \subseteq Docs("sample") \cup (IF path[1] = "sample" THEN {doc} ELSE {})
  BY DocsAfter
<1>2. \A id : Manifests(id)' = Manifests(id)
  BY <1>1 DEF Manifests
<1>3. ManifestsAreBacked'
  <2> SUFFICES ASSUME NEW m \in Docs("manifest")
               PROVE  /\ \A f \in m.files : f[1] \in DOMAIN approved' /\ approved'[f[1]] = f[2]
                      /\ \E d \in Docs("dataset")' : d = m.dataset /\ d.samples = m.samples
    BY <1>1 DEF ManifestsAreBacked
  <2>1. \A f \in m.files : f[1] \in DOMAIN approved /\ approved[f[1]] = f[2]
    BY DEF DiskInv, ManifestsAreBacked
  <2>2. \A f \in m.files : f[1] \in DOMAIN approved' /\ approved'[f[1]] = f[2]
    BY <2>1 DEF Written
  <2> QED
    BY <1>1, <2>2 DEF DiskInv, ManifestsAreBacked
<1>4. RevisionsAreLinear'
  BY <1>1, <1>2 DEF DiskInv, RevisionsAreLinear, Before, Kin, Continues
<1>5. RevisionsCount' /\ NewestExist'
  BY <1>1, <1>2 DEF DiskInv, RevisionsCount, NewestExist, LastManifest, Line, Kin
<1>6. SamplesAreAsOf'
  <2> SUFFICES ASSUME NEW s \in Docs("sample")'
               PROVE  /\ \A e \in Cited(s.sources) : e.domain = "pre_match" /\ AsOf(e.avail, s.cand)
                      /\ \A t \in s.times : AsOf(t, s.cand)
                      /\ s.label # {}
                      /\ \A l \in Cited(s.label) : l.domain = "post_match" /\ l.stamp >= s.cand.kickoff
    BY DEF SamplesAreAsOf, Cited
  <2>1. CASE s \in Docs("sample")
    BY <2>1 DEF DiskInv, SamplesAreAsOf
  <2>2. CASE path[1] = "sample" /\ s = doc
    BY <2>2
  <2> QED
    BY <1>1, <2>1, <2>2
<1> QED
  BY <1>2, <1>3, <1>4, <1>5, <1>6 DEF DiskInv

-----------------------------------------------------------------------------
(* Steps that write nothing.                                               *)

(* Every file stays as it is; what is new is torn. *)
NothingWhole ==
    /\ DOMAIN approved \subseteq DOMAIN approved'
    /\ \A p \in DOMAIN approved : approved'[p] = approved[p]
    /\ \A p \in DOMAIN approved' \ DOMAIN approved : approved'[p] = Torn

\* What is read off the files stays as the files do.
LEMMA SameDocuments ==
    ASSUME NothingWhole
    PROVE  /\ \A kind : Docs(kind)' = Docs(kind)
           /\ \A id : Manifests(id)' = Manifests(id) /\ LastManifest(id)' = LastManifest(id)
           /\ \A id, s : Line(id, s)' = Line(id, s)
           /\ \A m : Before(m)' = Before(m)
           /\ DiskInv => DiskInv'
<1>1. ASSUME NEW kind PROVE Docs(kind)' = Docs(kind)
  <2> DEFINE whole == {q \in DOMAIN approved : q[1] = kind /\ approved[q] # Torn}
  <2>1. whole = {q \in DOMAIN approved' : q[1] = kind /\ approved'[q] # Torn}
    BY DEF NothingWhole
  <2>2. \A q \in whole : approved'[q] = approved[q]
    BY DEF NothingWhole
  <2>3. Docs(kind) = {approved[q] : q \in whole} /\ Docs(kind)' = {approved'[q] : q \in whole}
    BY <2>1 DEF Docs
  <2> HIDE DEF whole
  <2> QED
    BY <2>2, <2>3
<1>2. \A id : Manifests(id)' = Manifests(id)
  BY <1>1 DEF Manifests
<1>3. \A id : LastManifest(id)' = LastManifest(id)
  BY <1>2 DEF LastManifest
<1>4. \A id, s : Line(id, s)' = Line(id, s)
  BY <1>2 DEF Line, Kin
<1>5. \A m : Before(m)' = Before(m)
  BY <1>2 DEF Before
<1>6. ManifestsAreBacked => ManifestsAreBacked'
  BY <1>1 DEF ManifestsAreBacked, NothingWhole
<1>7. RevisionsAreLinear => RevisionsAreLinear'
  BY <1>1, <1>5 DEF RevisionsAreLinear, Continues, Kin
<1>8. SamplesAreAsOf => SamplesAreAsOf'
  BY <1>1 DEF SamplesAreAsOf
<1>9. RevisionsCount /\ NewestExist => RevisionsCount' /\ NewestExist'
  BY <1>1, <1>3, <1>4 DEF RevisionsCount, NewestExist
<1> QED
  BY <1>1, <1>2, <1>3, <1>4, <1>5, <1>6, <1>7, <1>8, <1>9 DEF DiskInv

\* The files stay but for a torn one, the build goes on or is over: captures,
\* collisions, the end of a build, crashes.
LEMMA QuietStep ==
    ASSUME DatasetInv, NothingWhole, archive' \subseteq Everything,
           job' = job \/ job' = None
    PROVE  DatasetInv'
<1>1. JobInv'
  <2>1. CASE job' = job /\ job # None
    <3>1. Judges /\ HasWritten /\ WillRevise /\ DOMAIN job = JobFields
      BY <2>1 DEF DatasetInv, JobInv
    <3>2. Judges' /\ HasWritten'
      BY <2>1, <3>1 DEF Judges, HasWritten, NothingWhole
    <3>3. WillRevise'
      BY <2>1, <3>1, SameDocuments DEF WillRevise, Continues
    <3> QED
      BY <2>1, <3>1, <3>2, <3>3 DEF JobInv
  <2> QED
    BY <2>1 DEF JobInv
<1> QED
  BY <1>1, SameDocuments DEF DatasetInv

\* The files stay and the build goes on from where it is.
LEMMA SameFiles ==
    ASSUME DatasetInv, approved' = approved, archive' = archive, JobInv'
    PROVE  DatasetInv'
BY SameDocuments DEF DatasetInv, NothingWhole

\* A crash may leave a torn file where there was none.
LEMMA CrashKeepsInv ==
    ASSUME DatasetInv, Crash
    PROVE  DatasetInv'
<1>1. job' = None /\ archive' = archive
  BY DEF Crash
<1>2. CASE approved' = approved
  BY <1>1, <1>2, QuietStep DEF NothingWhole, DatasetInv
<1>3. CASE \E w \in Pending : w[1] \notin DOMAIN approved /\ approved' = With(approved, w[1], Torn)
  <2>1. PICK path : path \notin DOMAIN approved /\ approved' = With(approved, path, Torn)
    BY <1>3
  <2>2. NothingWhole
    BY <2>1 DEF NothingWhole, With
  <2> QED
    BY <1>1, <2>2, QuietStep DEF DatasetInv
<1> QED
  BY <1>2, <1>3 DEF Crash

\* A build begins with the revision after the last, or anew without candidates.
LEMMA StartKeepsInv ==
    ASSUME DatasetInv, NEW q, Start(q)
    PROVE  DatasetInv'
<1> DEFINE id == DatasetId(q, archive)
           cands == Candidates(q, archive)
           rev == NextRevision(id, cands)
           prior == LastManifest(id)
<1>0. CASE LastIsTorn(id)
  <2>1. job' = job /\ approved' = approved /\ archive' = archive
    BY <1>0 DEF Start
  <2> QED
    BY <2>1, QuietStep DEF NothingWhole, DatasetInv
<1> SUFFICES ASSUME ~LastIsTorn(id) PROVE DatasetInv'
  BY <1>0
<1>1. /\ job' = [q |-> q, id |-> id, snapshot |-> archive, rev |-> rev,
                 prior |-> prior, todo |-> cands, cand |-> None, pre |-> {}, roles |-> {},
                 gate |-> None, samples |-> {}, files |-> {}, counts |-> {}, step |-> "candidates"]
      /\ approved' = approved /\ archive' = archive
  BY DEF Start
<1>2. \A x : Manifests(x)' = Manifests(x)
  BY <1>1, SameDocuments DEF NothingWhole
<1> HIDE DEF id, cands, rev, prior
<1>3. /\ DOMAIN job' = JobFields
      /\ job'.snapshot = archive /\ job'.todo = cands /\ job'.roles = {} /\ job'.samples = {}
      /\ job'.files = {} /\ job'.step = "candidates"
      /\ job'.id = id /\ job'.rev = rev /\ job'.prior = prior
  BY <1>1 DEF JobFields
<1>4. cands \subseteq {Candidate(e) : e \in Everything}
  BY DEF cands, Candidates, DatasetInv
<1>5. Judges'
  BY <1>3, <1>4 DEF Judges, DatasetInv
<1>6. HasWritten'
  BY <1>3 DEF HasWritten
<1>7. WillRevise'
  <2>1. CASE cands = {} \/ Manifests(id) = {}
    <3>1. rev = 1
      BY <2>1 DEF rev, NextRevision
    <3> QED
      BY <1>2, <1>3, <2>1, <3>1 DEF WillRevise
  <2>2. CASE cands # {} /\ Manifests(id) # {}
    <3>1. prior # {}
      BY <2>2 DEF prior, Manifests, DatasetInv, DiskInv, NewestExist
    <3> DEFINE last == CHOOSE m \in prior : TRUE
    <3>2. last \in prior /\ rev = last.rev + 1
      BY <2>2, <3>1 DEF rev, prior, NextRevision
    <3> HIDE DEF last
    <3>3. \A m \in Manifests(id) : m.rev \in Nat \ {0}
      BY DEF Manifests, DatasetInv, DiskInv, RevisionsCount
    <3>4. \A m \in prior : m \in Manifests(id) /\ \A o \in Manifests(id) : o.rev <= m.rev
      BY DEF prior, LastManifest
    <3>5. rev \in Nat \ {0} /\ \A o \in Manifests(id) : o.rev < rev
      BY <3>2, <3>3, <3>4
    <3>6. \A m \in prior : m \in Manifests(id) /\ m.rev = rev - 1
      BY <3>2, <3>3, <3>4
    <3> QED
      BY <1>2, <1>3, <3>1, <3>5, <3>6 DEF WillRevise
  <2> QED
    BY <2>1, <2>2
<1>8. JobInv'
  BY <1>3, <1>5, <1>6, <1>7 DEF JobInv
<1> QED
  BY <1>1, <1>8, SameFiles

\* The records of a candidate that are visible at its cutoff are read.
LEMMA OpenKeepsInv ==
    ASSUME DatasetInv, Open
    PROVE  DatasetInv'
<1> DEFINE c == CHOOSE x \in job.todo : TRUE
           roles == IF None \in {c.cutoff, c.kickoff} THEN {} ELSE Roles
<1>1. /\ job # None /\ job.step = "candidates" /\ job.todo # {}
      /\ job' = [job EXCEPT !.todo = @ \ {c}, !.cand = c, !.pre = VisiblePre(c, archive),
                            !.roles = roles,
                            !.counts = IF None \in {c.cutoff, c.kickoff}
                                       THEN @ \cup {<<c, r, "BLOCKED">> : r \in Roles} ELSE @]
      /\ approved' = approved /\ archive' = archive
  BY DEF Open
<1>2. DOMAIN job = JobFields /\ Judges /\ HasWritten /\ WillRevise
  BY <1>1 DEF DatasetInv, JobInv
<1>3. c \in job.todo
  BY <1>1
<1> HIDE DEF c, roles
<1>4. /\ DOMAIN job' = JobFields
      /\ job'.todo \subseteq job.todo /\ job'.cand = c /\ job'.pre = VisiblePre(c, archive)
      /\ job'.roles = roles /\ job'.snapshot = job.snapshot /\ job'.files = job.files
      /\ job'.step = "candidates" /\ job'.samples = job.samples /\ job'.id = job.id
      /\ job'.rev = job.rev /\ job'.prior = job.prior
  BY <1>1, <1>2 DEF JobFields
<1>5. Judges'
  <2>1. roles # {} => c.cutoff # None /\ c.kickoff # None
    BY DEF roles
  <2>2. VisiblePre(c, archive) \subseteq
           {e \in Everything : e.domain = "pre_match" /\ e.avail <= c.cutoff}
    BY DEF VisiblePre, DatasetInv
  <2> QED
    BY <1>2, <1>3, <1>4, <2>1, <2>2 DEF Judges
<1>6. HasWritten'
  BY <1>1, <1>2, <1>4 DEF HasWritten
<1>7. /\ \A x : Manifests(x)' = Manifests(x)
      /\ \A x, s : Line(x, s)' = Line(x, s)
  BY <1>1, SameDocuments DEF NothingWhole
<1>8. WillRevise'
  <2>1. \A o \in Manifests(job.id) : o.rev < job.rev
    BY <1>1, <1>2 DEF WillRevise
  <2> QED
    BY <1>1, <1>2, <1>4, <1>7, <2>1 DEF WillRevise, Continues
<1>9. JobInv'
  BY <1>4, <1>5, <1>6, <1>8 DEF JobInv
<1> QED
  BY <1>1, <1>9, SameFiles

-----------------------------------------------------------------------------
(* Steps that write a gate record or a sample, and the roles they judge.   *)

\* A gate record is filed among the gate records.
LEMMA GatePath ==
    ASSUME NEW r, NEW n
    PROVE  Append(GateDir(r), n)[1] = "gate"
BY DEF GateDir

\* A document that is no manifest is written and the build goes on.
LEMMA OtherDocumentStep ==
    ASSUME DatasetInv, archive' = archive, NEW path, NEW doc, Written(path, doc),
           path[1] # "manifest", JobInv',
           path[1] = "sample" =>
              /\ \A e \in Cited(doc.sources) : e.domain = "pre_match" /\ AsOf(e.avail, doc.cand)
              /\ \A t \in doc.times : AsOf(t, doc.cand)
              /\ doc.label # {}
              /\ \A l \in Cited(doc.label) : l.domain = "post_match" /\ l.stamp >= doc.cand.kickoff
    PROVE  DatasetInv'
BY OtherDocuments DEF DatasetInv

\* What a build knows of the manifests it still knows after another document.
LEMMA ManifestsAfterOther ==
    ASSUME NEW path, NEW doc, Written(path, doc), path[1] # "manifest"
    PROVE  /\ \A id : Manifests(id)' = Manifests(id)
           /\ \A id, s : Line(id, s)' = Line(id, s)
<1>1. Docs("manifest")' = Docs("manifest")
  BY DocsAfter
<1>2. \A id : Manifests(id)' = Manifests(id)
  BY <1>1 DEF Manifests
<1> QED
  BY <1>2 DEF Line, Kin

\* A gate record is written before its role is judged.
LEMMA GateKeepsInv ==
    ASSUME DatasetInv, WriteGate
    PROVE  DatasetInv'
<1> DEFINE g == NextGate(Role)
           path == Append(GateDir(Role), g.rev)
           next == [job EXCEPT !.gate = g, !.files = @ \cup {<<path, g>>}]
<1>0. CASE GateIsTorn(GateDir(Role))
  <2>1. job' = None /\ approved' = approved /\ archive' = archive
    BY <1>0 DEF WriteGate
  <2> QED
    BY <2>1, QuietStep DEF NothingWhole, DatasetInv
<1> SUFFICES ASSUME ~GateIsTorn(GateDir(Role)) PROVE DatasetInv'
  BY <1>0
<1>1. /\ job # None /\ job.roles # {} /\ Put(path, g, next) /\ archive' = archive
      /\ g # Torn
  <2>1. g.kind = "gate"
    BY DEF NextGate, GateDoc
  <2> QED
    BY <2>1 DEF WriteGate, Torn
<1>2. DOMAIN job = JobFields /\ Judges /\ HasWritten /\ WillRevise
  BY <1>1 DEF DatasetInv, JobInv
<1>3. path[1] = "gate"
  BY GatePath
<1>4. /\ DOMAIN next = JobFields /\ next.files = job.files \cup {<<path, g>>}
      /\ next.snapshot = job.snapshot /\ next.todo = job.todo /\ next.roles = job.roles
      /\ next.cand = job.cand /\ next.pre = job.pre /\ next.step = job.step
      /\ next.id = job.id /\ next.rev = job.rev /\ next.prior = job.prior
      /\ next.samples = job.samples
  BY <1>2 DEF JobFields
<1> HIDE DEF g, path, next
<1>5. CASE approved' = approved /\ job' = None
  BY <1>1, <1>5, QuietStep DEF DatasetInv, NothingWhole
<1>6. CASE Written(path, g) /\ job' = next
  <2>1. /\ \A id : Manifests(id)' = Manifests(id)
        /\ \A id, s : Line(id, s)' = Line(id, s)
    BY <1>3, <1>6, ManifestsAfterOther
  <2>2. Judges'
    BY <1>2, <1>4, <1>6 DEF Judges
  <2>3. HasWritten'
    <3>1. \A f \in job'.files : f[1] \in DOMAIN approved' /\ approved'[f[1]] = f[2]
      BY <1>2, <1>4, <1>6, FilesStayBacked DEF HasWritten
    <3>2. job.step = "candidates"
      BY <1>1, <1>2 DEF HasWritten
    <3> QED
      BY <1>4, <1>6, <3>1, <3>2 DEF HasWritten
  <2>4. WillRevise'
    BY <1>2, <1>4, <1>6, <2>1 DEF WillRevise, Continues
  <2>5. JobInv'
    BY <1>4, <1>6, <2>2, <2>3, <2>4 DEF JobInv
  <2> QED
    BY <1>1, <1>3, <1>6, <2>5, OtherDocumentStep
<1> QED
  BY <1>1, <1>5, <1>6, PutWrites

\* A new sample supersedes the newest of its line.
LEMMA SampleContinues ==
    ASSUME DatasetInv, NEW r, NEW s, s = Sample(r)
    PROVE  Positive(s.rev) /\ Continues(s, Line(job.id, s))
<1> DEFINE line == Line(job.id, s)
           prior == PriorSample(job.id, job.cand, r)
<1>1. /\ s.match = job.cand.match /\ s.profile = job.cand.profile /\ s.role = r
      /\ s.rev = Above(prior) /\ s.sup = Superseded(prior)
  BY DEF Sample
<1>2. prior = {x \in line : \A o \in line : o.rev <= x.rev}
  BY <1>1 DEF PriorSample, Line, Kin
<1>3. \A x \in line : Positive(x.rev)
  BY DEF Line, Kin, Manifests, DatasetInv, DiskInv, RevisionsCount
<1>4. CASE line = {}
  BY <1>1, <1>2, <1>4 DEF Above, Superseded, Continues
<1>5. CASE line # {}
  <2>1. PICK x \in line : TRUE
    BY <1>5
  <2>2. PICK m \in Manifests(job.id) : x \in m.samples
    BY <2>1 DEF Line, Kin
  <2>3. Line(m.id, x) = line
    BY <2>1, <2>2 DEF Line, Kin, Manifests
  <2>4. \E t \in line : \A o \in line : o.rev <= t.rev
    BY <2>2, <2>3 DEF DatasetInv, DiskInv, NewestExist, Manifests
  <2> HIDE DEF line
  <2>5. prior # {}
    BY <1>2, <2>4
  <2> DEFINE last == CHOOSE y \in prior : TRUE
  <2>6. last \in prior /\ s.rev = last.rev + 1 /\ s.sup = last
    BY <1>1, <2>5 DEF Above, Superseded
  <2> HIDE DEF last, prior
  <2>7. last \in line /\ \A o \in line : o.rev <= last.rev
    BY <1>2, <2>6
  <2>8. Positive(last.rev) /\ Positive(s.rev)
    BY <1>3, <2>6, <2>7
  <2> QED
    BY <1>5, <2>6, <2>7, <2>8 DEF Continues, line
<1> QED
  BY <1>4, <1>5

\* A role is judged, and its sample written when it passes.
LEMMA JudgeKeepsInv ==
    ASSUME DatasetInv, JudgeRole
    PROVE  DatasetInv'
<1> DEFINE s == Sample(Role)
           path == SamplePath(s)
           next == [Judged("ELIGIBLE") EXCEPT !.samples = @ \cup {s}, !.files = @ \cup {<<path, s>>}]
<1>1. job # None /\ job.roles # {} /\ archive' = archive
  BY DEF JudgeRole
<1>2. DOMAIN job = JobFields /\ Judges /\ HasWritten /\ WillRevise
  BY <1>1 DEF DatasetInv, JobInv
<1>3. /\ job.step = "candidates"
      /\ \A o \in Manifests(job.id) : o.rev < job.rev
  BY <1>1, <1>2 DEF HasWritten, WillRevise
<1>4. ASSUME NEW state
      PROVE  LET j == Judged(state) IN
             /\ DOMAIN j = JobFields /\ j.roles \subseteq job.roles
             /\ j.snapshot = job.snapshot /\ j.todo = job.todo /\ j.files = job.files
             /\ j.cand = job.cand /\ j.pre = job.pre /\ j.step = job.step
             /\ j.id = job.id /\ j.rev = job.rev /\ j.prior = job.prior
             /\ j.samples = job.samples
  BY <1>2 DEF Judged, JobFields
<1>5. ASSUME NEW state, job' = Judged(state), approved' = approved
      PROVE  DatasetInv'
  <2>1. Judges'
    BY <1>2, <1>4, <1>5 DEF Judges
  <2>2. HasWritten'
    BY <1>2, <1>3, <1>4, <1>5 DEF HasWritten
  <2>3. WillRevise'
    BY <1>2, <1>3, <1>4, <1>5, SameDocuments DEF WillRevise, Continues, NothingWhole
  <2>4. JobInv'
    BY <1>4, <1>5, <2>1, <2>2, <2>3 DEF JobInv
  <2> QED
    BY <1>1, <1>5, <2>4, SameFiles
<1>6. CASE Reasons(Role) = {} /\ SampleOK(s)
  <2>1. Put(path, s, next) /\ s # Torn
    BY <1>6 DEF JudgeRole, Sample, Torn
  <2>2. path[1] = "sample"
    BY DEF SamplePath
  <2>3. Positive(s.rev) /\ Continues(s, Line(job.id, s))
    BY SampleContinues
  <2>4. /\ \A e \in Cited(s.sources) : e.domain = "pre_match" /\ AsOf(e.avail, s.cand)
        /\ \A t \in s.times : AsOf(t, s.cand)
        /\ s.label # {}
        /\ \A l \in Cited(s.label) : l.domain = "post_match" /\ l.stamp >= s.cand.kickoff
    BY <1>1, <1>6, SampleIsAsOf
  <2> HIDE DEF s, path
  <2>5. /\ DOMAIN next = JobFields /\ next.roles \subseteq job.roles
        /\ next.snapshot = job.snapshot /\ next.todo = job.todo
        /\ next.files = job.files \cup {<<path, s>>}
        /\ next.cand = job.cand /\ next.pre = job.pre /\ next.step = job.step
        /\ next.id = job.id /\ next.rev = job.rev /\ next.prior = job.prior
        /\ next.samples = job.samples \cup {s}
    BY <1>4 DEF JobFields
  <2> HIDE DEF next
  <2>6. CASE approved' = approved /\ job' = None
    BY <1>1, <2>6, QuietStep DEF DatasetInv, NothingWhole
  <2>7. CASE Written(path, s) /\ job' = next
    <3>1. /\ \A id : Manifests(id)' = Manifests(id)
          /\ \A id, x : Line(id, x)' = Line(id, x)
      BY <2>2, <2>7, ManifestsAfterOther
    <3>2. Judges'
      BY <1>2, <2>5, <2>7 DEF Judges
    <3>3. HasWritten'
      <4>1. \A f \in job'.files : f[1] \in DOMAIN approved' /\ approved'[f[1]] = f[2]
        BY <1>2, <2>5, <2>7, FilesStayBacked DEF HasWritten
      <4> QED
        BY <1>3, <2>5, <2>7, <4>1 DEF HasWritten
    <3>4. WillRevise'
      BY <1>2, <1>3, <2>3, <2>5, <2>7, <3>1 DEF WillRevise, Continues
    <3>5. JobInv'
      BY <2>5, <2>7, <3>2, <3>3, <3>4 DEF JobInv
    <3> QED
      BY <1>1, <2>2, <2>4, <2>7, <3>5, OtherDocumentStep
  <2> QED
    BY <2>1, <2>6, <2>7, PutWrites
<1>7. CASE ~(Reasons(Role) = {} /\ SampleOK(s))
  <2>1. \E state : job' = Judged(state) /\ approved' = approved
    BY <1>7 DEF JudgeRole
  <2> QED
    BY <1>5, <2>1
<1> QED
  BY <1>6, <1>7

-----------------------------------------------------------------------------
(* Steps that write the documents of the data set.                         *)

\* A document of the data set that is no manifest, and the step it makes.
LEMMA DocumentStep ==
    ASSUME DatasetInv, job # None, archive' = archive, job.todo = {}, job.roles = {},
           NEW kind, kind \in {"dataset", "lineage", "evidence"},
           NEW path, path = <<kind, job.id, job.rev>>, NEW doc, Written(path, doc),
           kind = "dataset" => doc.samples = job.samples,
           kind # "dataset" => job.step # "candidates",
           kind # "evidence" => job.step \notin {"manifest", "evidence"},
           job' = [job EXCEPT !.step = kind, !.files = @ \cup {<<path, doc>>}]
    PROVE  DatasetInv'
<1>1. DOMAIN job = JobFields /\ Judges /\ HasWritten /\ WillRevise
  BY DEF DatasetInv, JobInv
<1>2. /\ DOMAIN job' = JobFields /\ job'.files = job.files \cup {<<path, doc>>}
      /\ job'.snapshot = job.snapshot /\ job'.todo = {} /\ job'.roles = {}
      /\ job'.step = kind /\ job'.id = job.id /\ job'.rev = job.rev
      /\ job'.prior = job.prior /\ job'.samples = job.samples
  BY <1>1 DEF JobFields
<1>3. /\ \A id : Manifests(id)' = Manifests(id)
      /\ \A id, s : Line(id, s)' = Line(id, s)
  BY ManifestsAfterOther
<1>4. Judges'
  BY <1>1, <1>2 DEF Judges
<1>5. HasWritten'
  <2> DEFINE dataset == <<"dataset", job.id, job.rev>>
  <2>1. \A f \in job'.files : f[1] \in DOMAIN approved' /\ approved'[f[1]] = f[2]
    BY <1>1, <1>2, FilesStayBacked DEF HasWritten
  <2>2. dataset \in DOMAIN approved' /\ approved'[dataset] # Torn
        /\ approved'[dataset].samples = job.samples
    <3>1. CASE kind = "dataset"
      BY <3>1 DEF Written
    <3>2. CASE kind # "dataset"
      BY <1>1, <3>2 DEF Written, HasWritten
    <3> QED
      BY <3>1, <3>2
  <2> QED
    BY <1>2, <2>1, <2>2 DEF HasWritten
<1>6. WillRevise'
  BY <1>1, <1>2, <1>3 DEF WillRevise, Continues
<1>7. JobInv'
  BY <1>2, <1>4, <1>5, <1>6 DEF JobInv
<1>8. path[1] = kind
  OBVIOUS
<1> QED
  BY <1>7, <1>8, OtherDocumentStep

\* The manifest on disk continues the line of its data set.
LEMMA ManifestContinues ==
    ASSUME DatasetInv, job # None, job.step = "lineage",
           NEW path, path[1] = "manifest", NEW m, Written(path, m),
           m.id = job.id, m.rev = job.rev, m.samples = job.samples, m.sup = Predecessor
    PROVE  RevisionsAreLinear' /\ RevisionsCount' /\ NewestExist'
<1>1. Judges /\ HasWritten /\ WillRevise
  BY DEF DatasetInv, JobInv
<1>2. /\ Positive(job.rev) /\ \A s \in job.samples : Positive(s.rev) /\ Continues(s, Line(job.id, s))
      /\ \/ \A o \in Manifests(job.id) : o.rev < job.rev
         \/ job.rev = 1 /\ job.samples = {}
      /\ job.rev > 1 => job.prior # {} /\ \A o \in job.prior : o \in Manifests(job.id) /\ o.rev = job.rev - 1
  BY <1>1 DEF WillRevise
<1>3. Docs("manifest")' = Docs("manifest") \cup {m}
  BY DocsAfter
<1>5. \A id : Manifests(id)' = IF id = m.id THEN Manifests(id) \cup {m} ELSE Manifests(id)
  BY <1>3 DEF Manifests
<1>6. \A o \in Docs("manifest") : Positive(o.rev) /\ \A s \in o.samples : Positive(s.rev)
  BY DEF DatasetInv, DiskInv, RevisionsCount
<1>7. RevisionsCount'
  BY <1>2, <1>3, <1>6 DEF RevisionsCount
<1>8. \A id : Manifests(id) \subseteq Docs("manifest") /\ \A o \in Manifests(id) : o.id = id
  BY DEF Manifests
<1>9. ASSUME NEW o \in Docs("manifest")
      PROVE  Before(o)' = Before(o)
  <2>1. CASE o.id # m.id
    BY <1>5, <2>1 DEF Before
  <2>2. CASE o.id = m.id /\ ~(m.rev < o.rev)
    BY <1>5, <2>2 DEF Before
  <2>3. CASE o.id = m.id /\ m.rev < o.rev
    <3>1. o \in Manifests(job.id)
      BY <2>3 DEF Manifests
    <3>2. m.samples = {}
      BY <1>2, <1>6, <2>3, <3>1
    <3>3. {x \in Manifests(o.id)' : x.rev < o.rev} = {x \in Manifests(o.id) : x.rev < o.rev} \cup {m}
      BY <1>5, <2>3
    <3> QED
      BY <3>2, <3>3 DEF Before
  <2> QED
    BY <2>1, <2>2, <2>3
<1>10. m.samples # {} => Before(m)' = UNION {o.samples : o \in Manifests(m.id)}
  <2> SUFFICES ASSUME m.samples # {} PROVE Before(m)' = UNION {o.samples : o \in Manifests(m.id)}
    OBVIOUS
  <2>1. \A o \in Manifests(m.id) : o.rev < m.rev
    BY <1>2
  <2>2. {x \in Manifests(m.id)' : x.rev < m.rev} = Manifests(m.id)
    BY <1>2, <1>5, <2>1
  <2> QED
    BY <2>2 DEF Before
<1>11. RevisionsAreLinear'
  <2> SUFFICES ASSUME NEW o \in Docs("manifest")'
               PROVE  /\ o.rev = 1 => o.sup = None
                      /\ o.rev > 1 => o.sup \in Docs("manifest")' /\ o.sup.id = o.id /\ o.sup.rev = o.rev - 1
                      /\ \A s \in o.samples : Continues(s, Kin(s, Before(o)'))
    BY DEF RevisionsAreLinear, Continues, Kin
  <2>1. CASE o \in Docs("manifest")
    BY <1>3, <1>9, <2>1 DEF DatasetInv, DiskInv, RevisionsAreLinear
  <2>2. CASE o = m
    <3>1. m.rev = 1 => m.sup = None
      BY DEF Predecessor
    <3>2. m.rev > 1 => m.sup \in job.prior
      BY <1>2 DEF Predecessor
    <3>3. m.rev > 1 => m.sup \in Docs("manifest")' /\ m.sup.id = m.id /\ m.sup.rev = m.rev - 1
      BY <1>2, <1>3, <1>8, <3>2
    <3>4. \A s \in m.samples : Continues(s, Kin(s, Before(m)'))
      BY <1>2, <1>10 DEF Line
    <3> QED
      BY <2>2, <3>1, <3>3, <3>4
  <2> QED
    BY <1>3, <2>1, <2>2
<1>12. ASSUME NEW o \in Docs("manifest")'
       PROVE  LastManifest(o.id)' # {}
  <2>1. CASE o.id # m.id
    <3>1. o \in Docs("manifest") /\ Manifests(o.id)' = Manifests(o.id)
      BY <1>3, <1>5, <2>1
    <3>2. LastManifest(o.id) # {}
      BY <3>1 DEF DatasetInv, DiskInv, NewestExist
    <3> QED
      BY <3>1, <3>2 DEF LastManifest
  <2>2. CASE o.id = m.id
    <3>1. CASE \A x \in Manifests(job.id) : x.rev < job.rev
      <4>1. m \in Manifests(o.id)' /\ \A x \in Manifests(o.id)' : x.rev <= m.rev
        BY <1>2, <1>5, <1>6, <1>8, <2>2, <3>1
      <4> QED
        BY <4>1 DEF LastManifest
    <3>2. CASE job.rev = 1 /\ Manifests(job.id) # {}
      <4>1. PICK x \in Manifests(job.id) : TRUE
        BY <3>2
      <4>2. LastManifest(x.id) # {}
        BY <1>8, <4>1 DEF DatasetInv, DiskInv, NewestExist
      <4>3. PICK last \in Manifests(job.id) : \A y \in Manifests(job.id) : y.rev <= last.rev
        BY <1>8, <4>1, <4>2 DEF LastManifest
      <4>4. Positive(last.rev)
        BY <1>6, <1>8, <4>3
      <4>5. last \in Manifests(o.id)' /\ \A y \in Manifests(o.id)' : y.rev <= last.rev
        BY <1>5, <2>2, <3>2, <4>3, <4>4
      <4> QED
        BY <4>5 DEF LastManifest
    <3> QED
      BY <1>2, <3>1, <3>2
  <2> QED
    BY <2>1, <2>2
<1>13. ASSUME NEW o \in Docs("manifest")', NEW s \in o.samples
       PROVE  \E t \in Line(o.id, s)' : \A x \in Line(o.id, s)' : x.rev <= t.rev
  <2> DEFINE old == Line(o.id, s)
             new == Line(o.id, s)'
             added == IF o.id = m.id THEN Kin(s, m.samples) ELSE {}
  <2>1. new = old \cup added
    <3>1. CASE o.id # m.id
      BY <1>5, <3>1 DEF Line, Kin
    <3>2. CASE o.id = m.id
      <4> DEFINE before == Manifests(o.id)
      <4>1. Manifests(o.id)' = before \cup {m}
        BY <1>5, <3>2
      <4>2. /\ new = Kin(s, UNION {x.samples : x \in before \cup {m}})
            /\ old = Kin(s, UNION {x.samples : x \in before})
            /\ added = Kin(s, m.samples)
        BY <3>2, <4>1 DEF Line, Kin
      <4> HIDE DEF before, new, old, added
      <4>3. UNION {x.samples : x \in before \cup {m}}
               = (UNION {x.samples : x \in before}) \cup m.samples
        <5> DEFINE F == {x.samples : x \in before}
                   G == {x.samples : x \in before \cup {m}}
        <5>1. G = F \cup {m.samples}
          OBVIOUS
        <5> HIDE DEF F, G
        <5>2. UNION G = (UNION F) \cup m.samples
          BY <5>1
        <5> QED
          BY <5>2 DEF F, G
      <4> QED
        BY <4>2, <4>3 DEF Kin
    <3> QED
      BY <3>1, <3>2
  <2>2. CASE added = {}
    <3>1. o \in Docs("manifest")
      BY <1>3, <2>2 DEF Kin
    <3>2. \E t \in old : \A x \in old : x.rev <= t.rev
      BY <3>1 DEF DatasetInv, DiskInv, NewestExist
    <3> QED
      BY <2>1, <2>2, <3>2
  <2>3. CASE added # {}
    <3>1. PICK t \in added : TRUE
      BY <2>3
    <3>2. o.id = m.id /\ added \subseteq m.samples
      BY <2>3 DEF Kin
    <3>3. \A x \in added : Line(job.id, x) = old
      BY <3>2 DEF Line, Kin
    <3>4. \A x \in added : Positive(x.rev) /\ Continues(x, old)
      BY <1>2, <3>2, <3>3
    <3>5. \A x \in old : Positive(x.rev)
      BY <1>6, <1>8 DEF Line, Kin
    <3> HIDE DEF old, new, added
    <3>6. \A x \in old : x.rev <= t.rev
      BY <3>1, <3>4, <3>5 DEF Continues
    <3>7. \A x \in added : x.rev <= t.rev
      BY <3>1, <3>4, <3>5 DEF Continues
    <3>8. t \in new /\ \A x \in new : x.rev <= t.rev
      BY <2>1, <3>1, <3>6, <3>7
    <3> QED
      BY <3>8 DEF new
  <2> QED
    BY <2>2, <2>3
<1> QED
  BY <1>7, <1>11, <1>12, <1>13 DEF NewestExist

\* The manifest is written last of what it names.
LEMMA ManifestKeepsInv ==
    ASSUME DatasetInv, job # None, archive' = archive, job.step = "lineage",
           NEW path, path = <<"manifest", job.id, job.rev>>,
           NEW m, m = Document("manifest"), Written(path, m),
           job' = [job EXCEPT !.step = "manifest", !.files = @ \cup {<<path, m>>}]
    PROVE  DatasetInv'
<1>1. DOMAIN job = JobFields /\ Judges /\ HasWritten /\ WillRevise
  BY DEF DatasetInv, JobInv
<1>2. /\ m.id = job.id /\ m.rev = job.rev /\ m.samples = job.samples /\ m.files = job.files
      /\ m.sup = Predecessor /\ m.dataset = approved[<<"dataset", job.id, job.rev>>]
  BY DEF Document
<1>3. path[1] = "manifest"
  OBVIOUS
<1> HIDE DEF Document
<1>4. RevisionsAreLinear' /\ RevisionsCount' /\ NewestExist'
  BY <1>2, <1>3, ManifestContinues
<1>5. /\ Docs("manifest")' = Docs("manifest") \cup {m}
      /\ Docs("dataset")' = Docs("dataset") /\ Docs("sample")' = Docs("sample")
  BY <1>3, DocsAfter
<1>6. ManifestsAreBacked'
  <2> SUFFICES ASSUME NEW o \in Docs("manifest")'
               PROVE  /\ \A f \in o.files : f[1] \in DOMAIN approved' /\ approved'[f[1]] = f[2]
                      /\ \E d \in Docs("dataset")' : d = o.dataset /\ d.samples = o.samples
    BY DEF ManifestsAreBacked
  <2>1. CASE o \in Docs("manifest")
    <3>1. /\ \A f \in o.files : f[1] \in DOMAIN approved /\ approved[f[1]] = f[2]
          /\ \E d \in Docs("dataset") : d = o.dataset /\ d.samples = o.samples
      BY <2>1 DEF DatasetInv, DiskInv, ManifestsAreBacked
    <3> QED
      BY <1>5, <3>1 DEF Written
  <2>2. CASE o = m
    <3> DEFINE dataset == <<"dataset", job.id, job.rev>>
    <3>1. /\ \A f \in job.files : f[1] \in DOMAIN approved /\ approved[f[1]] = f[2]
          /\ dataset \in DOMAIN approved /\ approved[dataset] # Torn
          /\ approved[dataset].samples = job.samples
      BY <1>1 DEF HasWritten
    <3>2. approved[dataset] \in Docs("dataset")
      BY <3>1 DEF Docs
    <3> HIDE DEF dataset
    <3>3. \A f \in job.files : f[1] \in DOMAIN approved' /\ approved'[f[1]] = f[2]
      BY <3>1 DEF Written
    <3> QED
      BY <1>2, <1>5, <2>2, <3>1, <3>2, <3>3 DEF dataset
  <2> QED
    BY <1>5, <2>1, <2>2
<1>7. SamplesAreAsOf'
  BY <1>5 DEF DatasetInv, DiskInv, SamplesAreAsOf
<1>8. /\ DOMAIN job' = JobFields /\ job'.files = job.files \cup {<<path, m>>}
      /\ job'.snapshot = job.snapshot /\ job'.todo = job.todo /\ job'.roles = job.roles
      /\ job'.cand = job.cand /\ job'.pre = job.pre
      /\ job'.step = "manifest" /\ job'.id = job.id /\ job'.rev = job.rev
      /\ job'.samples = job.samples
  BY <1>1 DEF JobFields
<1>9. Judges' /\ WillRevise'
  BY <1>1, <1>8 DEF Judges, WillRevise
<1>10. HasWritten'
  <2>1. \A f \in job'.files : f[1] \in DOMAIN approved' /\ approved'[f[1]] = f[2]
    BY <1>1, <1>8, FilesStayBacked DEF HasWritten
  <2> QED
    BY <1>1, <1>8, <2>1 DEF HasWritten, Written
<1>11. JobInv'
  BY <1>8, <1>9, <1>10 DEF JobInv
<1> QED
  BY <1>4, <1>6, <1>7, <1>11 DEF DatasetInv, DiskInv

\* Each of the four documents keeps the invariant.
LEMMA DocumentKeepsInv ==
    ASSUME DatasetInv, WriteDocument
    PROVE  DatasetInv'
<1> DEFINE kind == LastSteps[job.step]
           path == <<kind, job.id, job.rev>>
           doc == Document(kind)
           next == [job EXCEPT !.step = kind, !.files = @ \cup {<<path, doc>>}]
<1>1. /\ job # None /\ job.todo = {} /\ job.roles = {} /\ job.step \in DOMAIN LastSteps
      /\ Put(path, doc, next) /\ archive' = archive
  BY DEF WriteDocument
<1>0. doc # Torn
  <2>1. kind \in {"dataset", "lineage", "manifest", "evidence"}
    BY <1>1 DEF LastSteps
  <2> HIDE DEF kind
  <2>2. doc.kind = kind
    BY <2>1 DEF Document
  <2> QED
    BY <2>1, <2>2 DEF Torn
<1>2. CASE approved' = approved /\ job' = None
  BY <1>1, <1>2, QuietStep DEF DatasetInv, NothingWhole
<1>3. CASE Written(path, doc) /\ job' = next
  <2>1. CASE job.step = "candidates"
    <3>1. kind = "dataset"
      BY <2>1 DEF LastSteps
    <3>2. doc.samples = job.samples
      BY <3>1 DEF Document
    <3> HIDE DEF kind, doc
    <3> QED
      BY <1>1, <1>3, <2>1, <3>1, <3>2, DocumentStep
  <2>2. CASE job.step = "dataset"
    <3>1. kind = "lineage"
      BY <2>2 DEF LastSteps
    <3> HIDE DEF kind, doc
    <3> QED
      BY <1>1, <1>3, <2>2, <3>1, DocumentStep
  <2>3. CASE job.step = "lineage"
    <3>1. kind = "manifest"
      BY <2>3 DEF LastSteps
    <3>2. doc = Document("manifest")
      BY <3>1
    <3> HIDE DEF kind, doc
    <3> QED
      BY <1>1, <1>3, <2>3, <3>1, <3>2, ManifestKeepsInv
  <2>4. CASE job.step = "manifest"
    <3>1. kind = "evidence"
      BY <2>4 DEF LastSteps
    <3> HIDE DEF kind, doc
    <3> QED
      BY <1>1, <1>3, <2>4, <3>1, DocumentStep
  <2> QED
    BY <1>1, <2>1, <2>2, <2>3, <2>4 DEF LastSteps
<1> HIDE DEF path, doc, next
<1> QED
  BY <1>0, <1>1, <1>2, <1>3, PutWrites

-----------------------------------------------------------------------------

\* The invariant holds in every reachable state of the builder.
LEMMA DatasetInductive == DatasetSpec => []DatasetInv
<1>1. DatasetInit => DatasetInv
  <2> SUFFICES ASSUME DatasetInit PROVE DatasetInv
    OBVIOUS
  <2>1. \A kind : Docs(kind) = {}
    BY DEF DatasetInit, Docs
  <2>2. DiskInv
    BY <2>1 DEF DiskInv, ManifestsAreBacked, RevisionsAreLinear, SamplesAreAsOf,
                RevisionsCount, NewestExist
  <2> QED
    BY <2>2 DEF DatasetInit, DatasetInv, JobInv, Everything
<1>2. DatasetInv /\ [DatasetNext]_datasetVars => DatasetInv'
  <2> SUFFICES ASSUME DatasetInv, [DatasetNext]_datasetVars PROVE DatasetInv'
    OBVIOUS
  <2>1. CASE Capture \/ Finish \/ UNCHANGED datasetVars
    <3>1. approved' = approved /\ (job' = job \/ job' = None) /\ archive' \subseteq Everything
      BY <2>1 DEF Capture, Finish, datasetVars, DatasetInv, Everything
    <3> QED
      BY <3>1, QuietStep DEF NothingWhole
  <2>7. CASE Crash
    BY <2>7, CrashKeepsInv
  <2>2. CASE \E q \in Requests : Start(q)
    BY <2>2, StartKeepsInv
  <2>3. CASE Open
    BY <2>3, OpenKeepsInv
  <2>4. CASE WriteGate
    BY <2>4, GateKeepsInv
  <2>5. CASE JudgeRole
    BY <2>5, JudgeKeepsInv
  <2>6. CASE WriteDocument
    BY <2>6, DocumentKeepsInv
  <2> QED
    BY <2>1, <2>2, <2>3, <2>4, <2>5, <2>6, <2>7 DEF DatasetNext, BuildStep
<1> QED
  BY <1>1, <1>2, PTL DEF DatasetSpec

(* HistoricalAsOfDatasetBuilder: a manifest on disk has every file it      *)
(* names and its own data set, and the revisions of a data set and of each *)
(* of its samples are one line, however builds are interrupted and the     *)
(* archive grows under them.                                               *)
THEOREM ManifestsAreAlwaysSound == DatasetSpec => []ManifestsAreSound
<1>1. DatasetInv => ManifestsAreSound
  BY DEF DatasetInv, DiskInv, ManifestsAreSound
<1> QED
  BY <1>1, DatasetInductive, PTL

(* No sample cites a record of after its cutoff, rests on a number of      *)
(* after it or carries a label stamped before the kickoff.                 *)
THEOREM SamplesAreAlwaysAsOf == DatasetSpec => []SamplesAreAsOf
<1>1. DatasetInv => SamplesAreAsOf
  BY DEF DatasetInv, DiskInv
<1> QED
  BY <1>1, DatasetInductive, PTL

=============================================================================
