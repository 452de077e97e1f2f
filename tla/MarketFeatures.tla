--------------------------- MODULE MarketFeatures ---------------------------
(***************************************************************************)
(* Market features (V4-046 to V4-048): the artifacts made of official and  *)
(* external snapshots, the movements between them, and the profiles that   *)
(* interpret the movements of a market.                                    *)
(*                                                                         *)
(* An id made of content is the content.  A market has two selections,     *)
(* "home" and "away", whose prices are positive numbers.  Of a snapshot of *)
(* the official feed one market is looked at.                              *)
(***************************************************************************)
EXTENDS ResolvedMatches

CONSTANTS
    Quotes,         \* snapshots the two snapshot stores may hold
    Boundaries      \* [cutoff, kickoff] a caller may ask for

ASSUME MarketFeaturesAssumption ==
    /\ None \notin Nat
    /\ \A q \in Boundaries : q.cutoff \in Nat /\ q.kickoff \in Nat

VARIABLES
    market_artifacts,   \* the V4-046 store
    movements,          \* the V4-047 store; an id has at most one
    profiles            \* the V4-048 store

feature_store == <<market_artifacts, movements, profiles>>
feature_vars == <<matches, feature_store>>

MarketFeaturesInit ==
    matches = {} /\ market_artifacts = {} /\ movements = {} /\ profiles = {}

Selections == {"home", "away"}
LineMarkets == {"RQSPF", "ASIAN_HANDICAP", "OVER_UNDER"}
OneXTwo == {"SPF", "EUROPEAN_1X2"}

----------------------------------------------------------------------------
(* V4-046: MarketIntelligenceEngine and MarketIntelligenceStore.           *)

\* A source time that is unknown or in conflict is None.
TimesInOrder(s) ==
    /\ s.time # None => s.time <= s.captured
    /\ s.captured <= s.observed /\ s.observed <= s.ingested

ArtifactState(s, q) ==
    IF s.time = None THEN "BLOCKED"
    ELSE IF s.time > q.cutoff THEN "FUTURE_DATA"
    ELSE s.status

\* normalize_snapshot and _common.  A correction is numbered 2 whatever it
\* supersedes.
NormalizedArtifact(s, q, sup) ==
    [quote |-> s, match |-> s.match, market |-> s.market, provider |-> s.provider,
     line |-> s.line, time |-> s.time, cutoff |-> q.cutoff, kickoff |-> q.kickoff,
     state |-> ArtifactState(s, q),
     prices |-> IF ArtifactState(s, q) = "AVAILABLE" THEN s.prices ELSE None,
     revision |-> IF sup = None THEN 1 ELSE 2, supersedes |-> sup]

ArtifactScope(a) == <<a.match, a.market, a.provider, a.line>>

\* Mutant: a correction may be of another market, provider or line.
AppendArtifact_AnyScope(s, q, sup) ==
    LET a == NormalizedArtifact(s, q, sup)
    IN  /\ q.cutoff < q.kickoff
        /\ s.match \in matches
        /\ TimesInOrder(s)
        /\ sup # None => a.revision = sup.revision + 1
        /\ market_artifacts' = market_artifacts \cup {a}
        /\ UNCHANGED <<matches, movements, profiles>>

\* A snapshot is normalized and its artifact stored; sup is None or a stored
\* artifact.
AppendArtifact(s, q, sup) ==
    LET a == NormalizedArtifact(s, q, sup)
    IN  /\ q.cutoff < q.kickoff
        /\ s.match \in matches
        /\ TimesInOrder(s)
        /\ sup # None => /\ ArtifactScope(sup) = ArtifactScope(a)
                         /\ a.revision = sup.revision + 1
        /\ market_artifacts' = market_artifacts \cup {a}
        /\ UNCHANGED <<matches, movements, profiles>>

----------------------------------------------------------------------------
(* V4-047: MarketMovementEngine and MarketMovementStore.                   *)

SameSource(b, a) ==
    /\ <<b.match, b.market, b.provider, b.quote.official>> =
          <<a.match, a.market, a.provider, a.quote.official>>

\* Mutant: the second snapshot may be of the time of the first.
PairOK_SameTime(b, a, q) ==
    /\ SameSource(b, a)
    /\ b.state = "AVAILABLE" /\ a.state = "AVAILABLE"
    /\ b.time <= q.cutoff /\ a.time <= q.cutoff /\ q.cutoff < q.kickoff
    /\ b.time <= a.time

\* _validate_pair, _validate_pair_identity
PairOK(b, a, q) ==
    /\ SameSource(b, a)
    /\ b.state = "AVAILABLE" /\ a.state = "AVAILABLE"
    /\ b.time <= q.cutoff /\ a.time <= q.cutoff /\ q.cutoff < q.kickoff
    /\ b.time < a.time

\* _build_pair, _build_aggregate, _not_comparable_relation,
\* _insufficient_acceleration.  of: the artifacts it cites, seed the one that
\* names its match and market; before and after: source times, when it has any.
Movement(type, selection, seed, of, before, after, q, state, value) ==
    [type |-> type, selection |-> selection, match |-> seed.match,
     market |-> IF state = "NOT_COMPARABLE" THEN {a.market : a \in of} ELSE {seed.market},
     providers |-> {a.provider : a \in of},
     of |-> of, before |-> before, after |-> after,
     cutoff |-> q.cutoff, kickoff |-> q.kickoff, state |-> state, value |-> value]

\* compute_pair.  Only the sign of a change of implied probability matters: it
\* is the opposite of the price's.
PairMovements(b, a, q, type) ==
    LET built(selection, value) ==
          Movement(type, selection, b, {b, a}, b.time, a.time, q, "AVAILABLE", value)
    IN  CASE type = "LINE_MOVEMENT" -> {built("MARKET_LINE", a.line - b.line)}
          [] type = "IMPLIED_PROBABILITY_MOVEMENT" ->
                {built(s, b.prices[s] - a.prices[s]) : s \in Selections}
          [] type = "PRICE_MOVEMENT" ->
                {built(s, a.prices[s] - b.prices[s]) : s \in Selections}

TypeApplies(b, a, type) ==
    CASE type = "LINE_MOVEMENT" -> b.market \in LineMarkets
      [] type = "IMPLIED_PROBABILITY_MOVEMENT" -> b.market \in OneXTwo
      [] type = "PRICE_MOVEMENT" -> b.line = a.line

\* compute_series: neighbours in the order of source time.
Neighbours(S) ==
    {p \in S \X S : /\ p[1] # p[2] /\ p[1].time <= p[2].time
                    /\ \A c \in S \ {p[1], p[2]} :
                          c.time <= p[1].time \/ p[2].time <= c.time}

SeriesOK(S, q, type) ==
    /\ \A b, a \in S : SameSource(b, a)
    /\ \A a \in S : a.time # None
    /\ \A p \in Neighbours(S) : PairOK(p[1], p[2], q) /\ TypeApplies(p[1], p[2], type)

Series(S, q, type) ==
    UNION {PairMovements(p[1], p[2], q, type) : p \in Neighbours(S)}

\* compute_acceleration of prices.  Fewer than three artifacts are not looked
\* at; the line may change on the way.
Acceleration(S, q, selection) ==
    IF Cardinality(S) < 3
    THEN {Movement("ACCELERATION", selection, a, S, None, None, q, "UNKNOWN", None) :
             a \in S}
    ELSE LET last == CHOOSE p \in Neighbours(S) : \A c \in S : c.time <= p[2].time
             prior == CHOOSE p \in Neighbours(S) : p[2] = last[1]
             rise(p) == p[2].prices[selection] - p[1].prices[selection]
             hours(p) == p[2].time - p[1].time
         IN  {Movement("ACCELERATION", selection, last[1], {last[1], last[2]},
                       last[1].time, last[2].time, q, "AVAILABLE",
                       rise(last) * hours(prior) - rise(prior) * hours(last))}

AccelerationOK(S, q) ==
    Cardinality(S) >= 3 =>
        /\ \A b, a \in S : SameSource(b, a)
        /\ \A a \in S : a.time # None
        /\ \A p \in Neighbours(S) : PairOK(p[1], p[2], q)

\* aggregate_providers: the latest eligible artifact of each provider, of any
\* line.  The value says whether they differ (of fewer than six providers).
EligibleAt(a, q) == a.state = "AVAILABLE" /\ a.time <= q.cutoff

LatestOfProviders(S, q) ==
    {a \in S : /\ EligibleAt(a, q)
               /\ \A b \in S : EligibleAt(b, q) /\ b.provider = a.provider =>
                                  b.time <= a.time}

AggregateOK(S, q) ==
    /\ \A b, a \in S : <<b.match, b.market, b.quote.official>> =
                          <<a.match, a.market, a.quote.official>>
    /\ \A b, a \in LatestOfProviders(S, q) : b.provider = a.provider => b = a
    /\ LatestOfProviders(S, q) # {}

Aggregate(S, q, selection) ==
    LET latest == LatestOfProviders(S, q)
    IN  {Movement("PROVIDER_AGGREGATE", selection, CHOOSE a \in latest : TRUE, latest,
                  None, None, q, "AVAILABLE",
                  Cardinality({a.prices[selection] : a \in latest}) - 1)}

\* compare_official_external: neither time is held against the cutoff.
Comparable(o, e) == o.market = "SPF" /\ e.market = "EUROPEAN_1X2"

CompareOK(o, e) ==
    /\ o.match = e.match
    /\ o.state = "AVAILABLE" /\ e.state = "AVAILABLE"
    /\ o.quote.official /\ ~e.quote.official
    /\ Comparable(o, e) => o.time = e.time

Divergence(o, e, q) ==
    LET built(selection, state, value) ==
          Movement("OFFICIAL_EXTERNAL_DIVERGENCE", selection, o, {o, e}, o.time,
                   e.time, q, state, value)
    IN  IF Comparable(o, e)
        THEN {built(s, "AVAILABLE", o.prices[s] - e.prices[s]) : s \in Selections}
        ELSE {built("MARKET_RELATION", "NOT_COMPARABLE", None)}

\* The id of what has no number leaves out cutoff and kickoff: the relation of
\* a pair is recorded for the first that asks.
MovementId(v) ==
    IF v.state = "AVAILABLE" THEN v ELSE [v EXCEPT !.cutoff = None, !.kickoff = None]

\* Movements are made of stored artifacts and stored one by one.
AppendMovement(v) ==
    /\ \A w \in movements : MovementId(w) # MovementId(v)
    /\ movements' = movements \cup {v}
    /\ UNCHANGED <<matches, market_artifacts, profiles>>

ComputeMovement ==
    \E S \in SUBSET market_artifacts, q \in Boundaries, selection \in Selections :
        /\ S # {}
        /\ \/ \E type \in {"PRICE_MOVEMENT", "LINE_MOVEMENT",
                           "IMPLIED_PROBABILITY_MOVEMENT"} :
                 /\ SeriesOK(S, q, type)
                 /\ \E v \in Series(S, q, type) : AppendMovement(v)
           \/ /\ AccelerationOK(S, q)
              /\ \E v \in Acceleration(S, q, selection) : AppendMovement(v)
           \/ /\ AggregateOK(S, q)
              /\ \E v \in Aggregate(S, q, selection) : AppendMovement(v)
           \/ \E o, e \in S :
                 /\ S = {o, e} /\ CompareOK(o, e)
                 /\ \E v \in Divergence(o, e, q) : AppendMovement(v)

----------------------------------------------------------------------------
(* V4-048: MarketRiskInterpretationEngine and its store.                   *)

Directed == {"PRICE_MOVEMENT", "LINE_MOVEMENT", "IMPLIED_PROBABILITY_MOVEMENT"}

\* Mutant: movements asked for with another cutoff are taken in.
InterpretOK_AnyCutoff(M, q) ==
    /\ M # {}
    /\ \A v \in M : v.after # None => v.after <= q.cutoff
    /\ \A v, w \in M : <<v.match, v.market>> = <<w.match, w.market>>

\* _validate_inputs
InterpretOK(M, q) ==
    /\ q.cutoff < q.kickoff
    /\ M # {}
    /\ \A v \in M : /\ v.cutoff = q.cutoff /\ v.kickoff = q.kickoff
                    /\ v.after # None => v.after <= q.cutoff
    /\ \A v, w \in M : <<v.match, v.market>> = <<w.match, w.market>>

\* Two movements that are next to each other in time point in opposite ways,
\* whatever their selections, types and providers; those of one time are
\* ordered by their ids, that is, in any way.
Reversed(M) ==
    LET D == {v \in M : v.type \in Directed}
    IN  \E v, w \in D :
           /\ v.value > 0 /\ w.value < 0
           /\ \A u \in D \ {v, w} :
                 ~(v.after < u.after /\ u.after < w.after)
                   /\ ~(w.after < u.after /\ u.after < v.after)
           /\ v.after = w.after \/ \A u \in D \ {v, w} : u.after \notin {v.after, w.after}

Cited(M) == {a.quote : a \in UNION {v.of : v \in M}}

\* _anomaly.  No movement is STALE or CONFLICTED, so two of the flags are never
\* raised.
Flags(M) ==
    {f \in {"DIRECTION_REVERSAL", "PROVIDER_DISPERSION",
            "OFFICIAL_EXTERNAL_DIVERGENCE", "SPARSE_MARKET"} :
        CASE f = "DIRECTION_REVERSAL" -> Reversed(M)
          [] f = "PROVIDER_DISPERSION" ->
                \E v \in M : v.type = "PROVIDER_AGGREGATE" /\ v.value > 0
          [] f = "OFFICIAL_EXTERNAL_DIVERGENCE" ->
                \E v \in M : v.type = f /\ v.state = "AVAILABLE"
          [] f = "SPARSE_MARKET" -> Cardinality(Cited(M)) < 2}

InterpretationState(flags) ==
    IF flags = {"SPARSE_MARKET"} THEN "INSUFFICIENT_DATA"
    ELSE IF flags = {} THEN "NONE_OBSERVED"
    ELSE IF Cardinality(flags) = 1 THEN "SIGNAL_PRESENT"
    ELSE "MULTIPLE_SIGNALS"

\* Heat and pressure are functions of the movements.
Interpret(M, q) ==
    /\ InterpretOK(M, q)
    /\ profiles' = profiles \cup {[movements |-> M, cutoff |-> q.cutoff,
                                   kickoff |-> q.kickoff, flags |-> Flags(M),
                                   state |-> InterpretationState(Flags(M))]}
    /\ UNCHANGED <<matches, market_artifacts, movements>>

----------------------------------------------------------------------------
MarketFeaturesNext ==
    \/ \E m \in Matches \ matches : ResolveMatch(m) /\ UNCHANGED feature_store
    \/ \E s \in Quotes, q \in Boundaries, sup \in market_artifacts \cup {None} :
          AppendArtifact(s, q, sup)
    \/ ComputeMovement
    \/ \E M \in SUBSET movements, q \in Boundaries : Interpret(M, q)

MarketFeaturesSpec == MarketFeaturesInit /\ [][MarketFeaturesNext]_feature_vars

----------------------------------------------------------------------------
(* Safety.                                                                 *)

\* The movements a profile rests on are those of one match, market, cutoff and
\* kickoff, and those with a direction go forward in time between prices of one
\* source that were known at the cutoff.
ProfilesRestOnPrecutoffMoves ==
    \A p \in profiles : \A v \in p.movements :
        /\ v.cutoff = p.cutoff
        /\ v.type \in Directed =>
              /\ v.before < v.after /\ v.after <= p.cutoff /\ p.cutoff < p.kickoff
              /\ Cardinality(v.providers) = 1
              /\ \A a \in v.of : a.state = "AVAILABLE" /\ a.time <= p.cutoff

\* The V4-046 store is a log of revisions, which may fork.
Firsts == {NormalizedArtifact(s, q, None) : s \in Quotes, q \in Boundaries}
Corrections == {NormalizedArtifact(s, q, p) :
                  s \in Quotes, q \in Boundaries, p \in Firsts}

ArtifactId(a) == [key |-> ArtifactScope(a), rev |-> a.revision, content |-> a]
ArtifactRecord(a) ==
    [id |-> ArtifactId(a),
     sup |-> IF a.supersedes = None THEN None ELSE ArtifactId(a.supersedes)]

ASSUME ArtifactIdsAssumption == \A a \in Firsts \cup Corrections : ArtifactId(a) # None

ArtifactRecords == {ArtifactRecord(a) : a \in Firsts \cup Corrections}

ArtifactLog == INSTANCE RevisionLog WITH
    Records <- ArtifactRecords,
    log <- {ArtifactRecord(a) : a \in market_artifacts}

ImplementsArtifactLog == ArtifactLog!Spec

\* Refuted.  A reversal is one of the movements of a single source: the home
\* price of a pair goes up and the away price down, and that is flagged.
ReversalsAreOfOneSource ==
    \A p \in profiles :
        "DIRECTION_REVERSAL" \in p.flags =>
            \E v, w \in p.movements :
                /\ v.type = w.type /\ v.selection = w.selection
                /\ v.providers = w.providers
                /\ v.value > 0 /\ w.value < 0
=============================================================================
