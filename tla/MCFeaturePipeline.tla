------------------------- MODULE MCFeaturePipeline -------------------------
(* The feature engines and their stores, for TLC.  An engine is given what   *)
(* the stage before it made, and the stages share only the identity store,   *)
(* so each behaviour exercises one of them: stage.                           *)
EXTENDS FeatureBundles, Strength, MarketFeatures, QualityGate

----------------------------------------------------------------------------
(* Inputs of the bundle store and of the assembly ledger.                 *)

MCSchemas == {[key |-> "s1", by |-> "a"], [key |-> "s1", by |-> "b"]}
MCAdapters == {[key |-> <<"odds", "v1", "s1">>, version |-> n] : n \in {1, 2}}

F(name, state, value, reason) ==
    [name |-> name, state |-> state, value |-> value, reason |-> reason,
     refs |-> {"fact"}]

Formed == {F("form", "AVAILABLE", 1, None)}
Partly == Formed \cup {F("rest", "UNKNOWN", None, "NO_SOURCE")}

Number(n) == [text |-> FALSE, tenths |-> 10 * n]
SummaryOf(n) == [s \in {"AVAILABLE"} |-> Number(n)]

Base == [id |-> None, schema |-> "s1", config |-> "c", match |-> "m1",
         facts |-> {"fact"}, roles_agree |-> TRUE, hashes_agree |-> TRUE,
         cutoff |-> 1, kickoff |-> 2, features |-> Formed,
         summary |-> SummaryOf(1), quality |-> "COMPLETE", seal |-> None,
         revision |-> 1, supersedes |-> None]

CorrectedBundle == [Base EXCEPT !.features = Partly, !.revision = 2,
                          !.supersedes = BundleId(Base),
                          !.summary = [s \in {"AVAILABLE", "UNKNOWN"} |-> Number(1)]]

Named == [Base EXCEPT !.id = "mine"]

\* What may be stored: bundles sealed or not, and what must be refused.
MCBundleInputs ==
    UNION {{b, Seal(b)} : b \in {Base, CorrectedBundle, Named}}
      \cup {[Base EXCEPT !.features = Partly, !.summary = SummaryOf(1)],
            [CorrectedBundle EXCEPT !.match = "m2"], [Base EXCEPT !.hashes_agree = FALSE],
            [Base EXCEPT !.features = {F("form", "AVAILABLE", None, None)}]}

Source == [kind |-> "odds", version |-> "v1", match |-> "m1", available |-> 1]

Request(b) == [sources |-> {Source}, declared |-> {<<"odds", "v1", "s1">>},
               match |-> "m1", schema |-> "s1", config |-> "c", cutoff |-> 1,
               bundle |-> b]

MCAssemblyRequests ==
    {Request(b) : b \in MCBundleInputs
                         \cup {Seal([Base EXCEPT !.features = Partly]),
                               [Base EXCEPT !.seal = "wrong"],
                               Seal([Base EXCEPT !.summary = SummaryOf(2)])}
                         \cup {Seal([Base EXCEPT !.summary.AVAILABLE = c]) :
                                  c \in [text : BOOLEAN, tenths : {10, 19}]}}
      \cup {[Request(Seal(Base)) EXCEPT !.cutoff = 0],
            [Request(Seal(Base)) EXCEPT !.declared = {}]}

----------------------------------------------------------------------------
(* Observations and targets of the strength engines.                      *)

Points == [id |-> 1, source |-> "m2", target |-> "m1", team |-> "home",
           opponent |-> "away", kind |-> "POINTS", side |-> "HOME",
           venue |-> "HOME", competition |-> "league", identity_agrees |-> TRUE,
           status |-> "AVAILABLE", event |-> 1, available |-> 1,
           correction_published |-> None, revision |-> 1,
           visible_revision |-> 1, verified |-> TRUE]

\* A correction of Points: both come to the manifest.
CorrectedPoints == [Points EXCEPT !.id = 2, !.correction_published = 2]
LatePoints == [Points EXCEPT !.id = 3, !.correction_published = 3]

\* One match more than is kept.
Older == [Points EXCEPT !.id = 7, !.source = "m3", !.event = 0]

Goals == {[Points EXCEPT !.id = 4, !.kind = "GOALS_FOR"],
          [Points EXCEPT !.id = 5, !.kind = "GOALS_AGAINST"]}
AwayPoints == {[Points EXCEPT !.id = 6, !.team = "away", !.opponent = "home",
                              !.side = "AWAY", !.venue = "UNKNOWN"]}

MCOffers ==
    LET base == Goals \cup AwayPoints
    IN  {base \cup {Points, CorrectedPoints, [Points EXCEPT !.id = 8, !.verified = FALSE]},
         base \cup {Points, LatePoints, Older}}

\* The match is judged twice before its kickoff.
MCTargets == [match : {"m1"}, identity_agrees : {TRUE}, competition : {"league"},
              cutoff : {2, 3}, kickoff : {4}]

MCMinimum == [type \in {"DYNAMIC_TEAM_RATING", "ATTACK_STRENGTH",
                        "DEFENCE_STRENGTH", "HOME_ADVANTAGE", "FORM_DECAY",
                        "OPPONENT_ADJUSTED_STRENGTH", "LEAGUE_STRENGTH"} |->
                 IF type = "DYNAMIC_TEAM_RATING" THEN 2 ELSE 1]

\* The features that another needs are there with one manifest, or with two and
\* of the one with the later cutoff; otherwise, with two, a pair.
StrengthBounds ==
    /\ \/ Cardinality(features) * Cardinality(manifests) <= 4
       \/ /\ Cardinality(features) = 3 /\ Cardinality(manifests) = 2
          /\ \A f \in features :
                /\ f.manifest[2] = 3 /\ f.state = "AVAILABLE"
                /\ f.type \in {"DYNAMIC_TEAM_RATING", "ATTACK_STRENGTH", "DEFENCE_STRENGTH"}
    /\ \A f \in features : f.team = "away" => f.type = "DYNAMIC_TEAM_RATING"

----------------------------------------------------------------------------
(* Quotes and boundaries of the market features.                          *)

FirstQuote == [match |-> "m1", market |-> "EUROPEAN_1X2", provider |-> "p",
          official |-> FALSE, line |-> 0, status |-> "AVAILABLE",
          time |-> 1, captured |-> 1, observed |-> 1, ingested |-> 1,
          prices |-> [home |-> 2, away |-> 3]]

Later == [FirstQuote EXCEPT !.time = 2, !.captured = 3, !.observed = 3, !.ingested = 3,
                       !.prices = [home |-> 3, away |-> 2]]

Asian == [FirstQuote EXCEPT !.market = "ASIAN_HANDICAP"]

\* Quotes of one source at three times and two of one time, of another provider,
\* of the official feed, and what never becomes a movement.
MCQuotes ==
    {FirstQuote, [FirstQuote EXCEPT !.prices = [home |-> 2, away |-> 4]],
     Later, [Later EXCEPT !.time = 3, !.prices = [home |-> 1, away |-> 4]],
     [FirstQuote EXCEPT !.provider = "other", !.prices = [home |-> 1, away |-> 3]],
     [FirstQuote EXCEPT !.market = "SPF", !.provider = "CHINA_SPORTS_LOTTERY",
                   !.official = TRUE],
     Asian, [Asian EXCEPT !.time = 2, !.captured = 2, !.observed = 2, !.ingested = 2,
                          !.line = 1],
     [FirstQuote EXCEPT !.time = None], [Later EXCEPT !.captured = 1, !.ingested = 0]}

MCBoundaries == {[cutoff |-> 3, kickoff |-> 4], [cutoff |-> 1, kickoff |-> 4]}

\* What cannot move anything: no movement is looked for beside it.
Inert(a) == a.cutoff # 3 \/ a.supersedes # None \/ a.state # "AVAILABLE"

\* Two artifacts, or three of one source whose acceleration is asked for; one
\* movement of each kind but two of a pair, and one profile.
MarketFeatureBounds ==
    /\ Cardinality(market_artifacts) <= 2
       \/ /\ Cardinality(market_artifacts) = 3
          /\ \A a, b \in market_artifacts : SameSource(a, b) /\ ~Inert(a)
          /\ \A v \in movements : v.type = "ACCELERATION"
    /\ movements # {} => \A a \in market_artifacts : ~Inert(a)
    /\ Cardinality(movements) <= 2
    /\ \A v, w \in movements : v.type = w.type
    /\ profiles # {} => Cardinality(profiles) = 1 /\ Cardinality(market_artifacts) = 2

----------------------------------------------------------------------------
(* Bundles, observations and assessed inputs of the gate.                 *)

Sealed(id) == [id |-> id, match |-> "m1", cutoff |-> 2, kickoff |-> 4, refs |-> {1, 2}]

MCSealedBundles == {Sealed(10), Sealed(20)}

Batch(n) == [match |-> "m1", cutoff |-> 2, generator |-> n]
MCStatistics == {{Batch("041"), Batch("042"), Batch("043")}, {Batch("041")}}

Seen == [key |-> "lineup", team |-> "home", ref |-> 1, match |-> "m1",
         numeric |-> FALSE, context |-> "CONFIRMED", state |-> "AVAILABLE",
         value |-> 1, source |-> 1, observed |-> 1, effective |-> None,
         expires |-> None]

\* Known; late by its effect though not by its source; another value of the
\* same; of a reference the bundle does not have.
MCContextSets ==
    {{Seen}, {[Seen EXCEPT !.effective = 3]}, {},
     {[Seen EXCEPT !.value = 2, !.ref = 2]}, {[Seen EXCEPT !.ref = 3]},
     {[Seen EXCEPT !.key = "coach", !.expires = 1]}}

Style == [key |-> "tactical_style", category |-> "TACTICAL", required |-> TRUE,
          ref |-> 1, state |-> "AVAILABLE", value |-> 1, reason |-> None,
          source |-> 1, observed |-> None, effective |-> None, expires |-> None]

Unknown == [Style EXCEPT !.state = "UNKNOWN", !.value = None, !.reason = "NO_SOURCE"]

MCTacticalSets ==
    {{Style}, {Unknown}, {[Style EXCEPT !.effective = 3]}, {[Style EXCEPT !.source = None]},
     {[Style EXCEPT !.expires = 1],
      [Style EXCEPT !.key = "league_context", !.category = "LEAGUE", !.required = FALSE]},
     {[Unknown EXCEPT !.state = "BLOCKED", !.reason = "UPSTREAM_BLOCKED"]}}

Input == [id |-> "i", hash |-> "h", revision |-> 1, match |-> "m1",
          domain |-> "ODDS", available |-> 1]

MCAssessmentSets ==
    {{Input}, {[Input EXCEPT !.available = 3]}, {[Input EXCEPT !.hash = None]},
     {Input, [Input EXCEPT !.hash = "g"]}, {[Input EXCEPT !.match = "m2"]},
     {[Input EXCEPT !.domain = "CONTEXT", !.available = 4]},
     {[Input EXCEPT !.available = None]}}

\* Corrections of the intelligence alone, or one artifact of each stage; what is
\* gated is assessed once, or the assessment or the gate corrected once.
GateBounds ==
    /\ Cardinality(intelligence) <= 3 /\ Cardinality(integrations) <= 2
    /\ Cardinality(tacticals) <= 1 /\ Cardinality(assessments) <= 1
    /\ Cardinality(gate_records) <= 2
    /\ integrations # {} => Cardinality(intelligence) = 1
    /\ tacticals # {} => Cardinality(integrations) = 1
    /\ assessments # {} => tacticals # {} \/ intelligence = {}

----------------------------------------------------------------------------
VARIABLE stage

pipeline_vars == <<bundle_vars, strength_store, feature_store, gate_store, stage>>

PipelineInit ==
    /\ BundleInit /\ StrengthInit /\ MarketFeaturesInit /\ GateInit
    /\ stage \in {"bundles", "strength", "market", "gate"}

PipelineNext ==
    \/ stage = "bundles" /\ BundleNext
       /\ UNCHANGED <<strength_store, feature_store, gate_store, stage>>
    \/ stage = "strength" /\ StrengthNext
       /\ UNCHANGED <<bundle_store, feature_store, gate_store, stage>>
    \/ stage = "market" /\ MarketFeaturesNext
       /\ UNCHANGED <<bundle_store, strength_store, gate_store, stage>>
    \/ stage = "gate" /\ GateNext
       /\ UNCHANGED <<bundle_store, strength_store, feature_store, stage>>

PipelineSpec == PipelineInit /\ [][PipelineNext]_pipeline_vars

\* The markets of one match are enough; what bounds each stage is with it.
PipelineBounds ==
    /\ StrengthBounds /\ MarketFeatureBounds /\ GateBounds
    /\ stage = "market" => matches \subseteq {"m1"}

----------------------------------------------------------------------------
(* Properties of a stage that are about the same records.                  *)

\* A number is of the past and the only one for its question.
NumbersAreSound == NumbersAreOfThePast /\ OneNumberPerQuestion

\* Nothing late becomes a value, and what is eligible rests on sound inputs.
EligibleIsSound == LateValuesAreDropped /\ EligibleRestsOnSoundInputs

\* The artifact and the intelligence stores are logs of revisions.
EnginesAreLogs == ImplementsArtifactLog /\ ImplementsIntelligenceLog
=============================================================================
