------------------------------ MODULE Strength ------------------------------
(***************************************************************************)
(* Statistical strength (V4-041 to V4-043): the manifest of historical     *)
(* observations a match may be judged by, the engines that turn it into    *)
(* features of a team, and the store that keeps them.                      *)
(*                                                                         *)
(* A feature's number is a function of the observations it used, and is    *)
(* the tuple of those here.                                                *)
(***************************************************************************)
EXTENDS ResolvedMatches

CONSTANTS
    Offers,         \* sets of historical observations a caller may offer
    Targets,        \* [match, identity_agrees, competition, cutoff, kickoff]
    Teams,
    Minimum,        \* [feature type -> smallest sample]
    MaxMatches,     \* source matches of a team that are kept
    Mappings        \* approved promotion and relegation mappings

\* The names of the reasons not to take an observation.
Reasons ==
    {"TARGET_SELF_RESULT_FORBIDDEN", "SIDE_VENUE_MISMATCH",
     "AVAILABLE_STATUS_INCOMPLETE", "REVISION_VISIBILITY_MISMATCH",
     "SOURCE_IDENTITY_NOT_RESOLVED", "SOURCE_IDENTITY_HASH_MISMATCH",
     "COMPETITION_SCOPE_MISMATCH", "TARGET_IDENTITY_MISMATCH",
     "FUTURE_DATA", "POST_CUTOFF_CORRECTION"}

ASSUME StrengthAssumption ==
    /\ MaxMatches \in Nat /\ None \notin Nat /\ None \notin Reasons
    /\ \A t \in DOMAIN Minimum : Minimum[t] \in Nat \ {0}
    /\ \A q \in Targets : q.cutoff \in Nat /\ q.kickoff \in Nat

\* What is offered is a list.
ASSUME OffersAssumption ==
    \A S \in Offers :
        /\ IsFiniteSet(S)
        /\ \A o \in S :
              /\ o.id \in Nat /\ o.event \in Nat /\ o.available \in Nat
              /\ o.correction_published \in Nat \cup {None}
              /\ o.status # None

VARIABLES
    manifests,      \* the manifests that were built
    features        \* the store: an id has at most one

strength_store == <<manifests, features>>
strength_vars == <<matches, strength_store>>

StrengthInit == matches = {} /\ manifests = {} /\ features = {}

----------------------------------------------------------------------------
(* HistoricalInputManifest.                                                *)

\* HistoricalObservation.from_dict: why an observation is not even read.
Unreadable(o) ==
    IF o.source = o.target THEN "TARGET_SELF_RESULT_FORBIDDEN"
    ELSE IF o.venue \notin {"UNKNOWN", o.side} THEN "SIDE_VENUE_MISMATCH"
    ELSE IF o.status = "AVAILABLE" /\ ~o.verified THEN "AVAILABLE_STATUS_INCOMPLETE"
    ELSE IF o.visible_revision # o.revision THEN "REVISION_VISIBILITY_MISMATCH"
    ELSE None

\* Mutant: the time a correction was published is not looked at.
ExclusionReason_Corrected(o, q) ==
    IF Unreadable(o) # None THEN Unreadable(o)
    ELSE IF o.source \notin matches THEN "SOURCE_IDENTITY_NOT_RESOLVED"
    ELSE IF ~o.identity_agrees THEN "SOURCE_IDENTITY_HASH_MISMATCH"
    ELSE IF o.competition # q.competition THEN "COMPETITION_SCOPE_MISMATCH"
    ELSE IF o.target # q.match THEN "TARGET_IDENTITY_MISMATCH"
    ELSE IF o.status # "AVAILABLE" THEN o.status
    ELSE IF o.event > q.cutoff \/ o.available > q.cutoff THEN "FUTURE_DATA"
    ELSE None

\* build and eligibility_reason: the first reason to leave an observation out.
\* The last two of the code are reasons not to read it.
ExclusionReason(o, q) ==
    IF Unreadable(o) # None THEN Unreadable(o)
    ELSE IF o.source \notin matches THEN "SOURCE_IDENTITY_NOT_RESOLVED"
    ELSE IF ~o.identity_agrees THEN "SOURCE_IDENTITY_HASH_MISMATCH"
    ELSE IF o.competition # q.competition THEN "COMPETITION_SCOPE_MISMATCH"
    ELSE IF o.target # q.match THEN "TARGET_IDENTITY_MISMATCH"
    ELSE IF o.status # "AVAILABLE" THEN o.status
    ELSE IF o.event > q.cutoff \/ o.available > q.cutoff THEN "FUTURE_DATA"
    ELSE IF o.correction_published # None /\ o.correction_published > q.cutoff
    THEN "POST_CUTOFF_CORRECTION"
    ELSE None

SourceMatches(S) == {o.source : o \in S}

\* Of the observations of a team: match m has one later than all of match n.
IsNewer(m, n, S) ==
    \E o \in S : o.source = m /\ \A p \in S : p.source = n => p.event < o.event

\* The newest matches of a team, as many as are to be kept.  Which of two that
\* are equally new comes first depends on their ids alone.
NewestMatches(S) ==
    LET played == SourceMatches(S)
    IN  CHOOSE kept \in SUBSET played :
            /\ Cardinality(kept) <= MaxMatches
            /\ kept = played \/ Cardinality(kept) = MaxMatches
            /\ \A m \in kept, n \in played \ kept : ~IsNewer(n, m, S)

\* How old the matches that are kept are is not bounded.
Retained(accepted) ==
    {o \in accepted : o.source \in NewestMatches({p \in accepted : p.team = o.team})}

\* Why, and how often, something was left out: an observation, or a match that
\* is older than those kept.
Excluded(S, q, accepted) ==
    LET window == {<<o.team, o.source>> : o \in accepted \ Retained(accepted)}
        left(r) == IF r = "WINDOW_EXCLUDED" THEN Cardinality(window)
                   ELSE Cardinality({o \in S : ExclusionReason(o, q) = r})
        reasons == {ExclusionReason(o, q) : o \in S} \ {None}
    IN  [r \in {r \in reasons \cup {"WINDOW_EXCLUDED"} : left(r) > 0} |-> left(r)]

\* What the manifest id is made of: not the observations.
ManifestId(q) == <<q.match, q.cutoff, q.kickoff>>

Manifest(S, q) ==
    LET accepted == {o \in S : ExclusionReason(o, q) = None}
    IN  [id |-> ManifestId(q), target |-> q, excluded |-> Excluded(S, q, accepted),
         observations |-> Retained(accepted)]

BuildManifest(S, q) ==
    /\ q.cutoff < q.kickoff
    /\ q.match \in matches /\ q.identity_agrees
    /\ manifests' = manifests \cup {Manifest(S, q)}
    /\ UNCHANGED <<matches, features>>

----------------------------------------------------------------------------
(* The engines.                                                            *)

ForTeam(mf, team, kind) ==
    {o \in mf.observations : o.team = team /\ o.kind = kind}

\* _make_feature
Feature(mf, type, team, state, usable, value, mapping) ==
    [type |-> type, team |-> team, manifest |-> mf.id, target |-> mf.target.match,
     state |-> state, value |-> IF state = "AVAILABLE" THEN value ELSE None,
     usable |-> usable, count |-> Cardinality(SourceMatches(usable)),
     excluded |-> mf.excluded, inputs |-> mf.observations, ratings |-> {},
     mapping |-> mapping]

\* A feature with a number is derived with the engine's parameters, one without
\* is not; neither the observations nor the ratings are in an id.
FeatureId(f) ==
    <<f.type, f.manifest, f.team, f.state = "AVAILABLE", f.mapping>>

\* What the minimum is compared with: observations, but matches for the league.
Sample(type, usable) ==
    IF type = "LEAGUE_STRENGTH" THEN Cardinality(SourceMatches(usable))
    ELSE Cardinality(usable)

\* _rate, _sparse
Rated(mf, type, team, usable, value) ==
    Feature(mf, type, team,
            IF Sample(type, usable) < Minimum[type] THEN "UNKNOWN" ELSE "AVAILABLE",
            usable, value, None)

\* V4-041
Rating(mf, team) ==
    LET points == ForTeam(mf, team, "POINTS")
    IN  Rated(mf, "DYNAMIC_TEAM_RATING", team, points, <<points>>)

\* V4-042.  Of a home match whose goals for and against are both there, the
\* last in the manifest's order counts.
LastOf(S) ==
    CHOOSE o \in S : \A p \in S : \/ o.event < p.event
                                  \/ o.event = p.event /\ o.id >= p.id

HomeItems(mf, team) ==
    LET at(m, kind) == {o \in ForTeam(mf, team, kind) :
                          o.source = m /\ o.side = "HOME" /\ o.venue # "UNKNOWN"}
    IN  {LastOf(at(m, "GOALS_FOR")) :
            m \in {m \in Matches : at(m, "GOALS_FOR") # {}
                                   /\ at(m, "GOALS_AGAINST") # {}}}

HomeAdvantage(mf, team) ==
    LET home == HomeItems(mf, team)
    IN  IF \E o \in mf.observations : o.team = team /\ o.venue = "UNKNOWN"
        THEN Feature(mf, "HOME_ADVANTAGE", team, "BLOCKED", home, None, None)
        ELSE Rated(mf, "HOME_ADVANTAGE", team, home,
                   <<home, ForTeam(mf, team, "GOALS_AGAINST")>>)

AttackDefence(mf, team) ==
    LET scored == ForTeam(mf, team, "GOALS_FOR")
        conceded == ForTeam(mf, team, "GOALS_AGAINST")
    IN  {Rated(mf, "ATTACK_STRENGTH", team, scored, <<scored>>),
         Rated(mf, "DEFENCE_STRENGTH", team, conceded, <<conceded>>),
         HomeAdvantage(mf, team)}

\* V4-043.  The ratings of the opponents come from features the caller brings,
\* of the same target and configuration but not necessarily of the same manifest.
RatingsIn(upstream) ==
    {f \in upstream : f.type = "DYNAMIC_TEAM_RATING" /\ f.state = "AVAILABLE"}

\* Of several ratings of a team the last one counts, so one of each is brought here.
UpstreamOK(mf, upstream) ==
    /\ \A f \in upstream : f.target = mf.target.match
    /\ {"DYNAMIC_TEAM_RATING", "ATTACK_STRENGTH", "DEFENCE_STRENGTH"}
          \subseteq {f.type : f \in {g \in upstream : g.state = "AVAILABLE"}}
    /\ \A f, g \in RatingsIn(upstream) : f.team = g.team => f = g

\* required: a transition was declared; mapping: the one approved for it.
Transition(mf, team, required, mapping) ==
    LET points == ForTeam(mf, team, "POINTS")
        type == "PROMOTION_RELEGATION_TRANSITION"
    IN  CASE ~required -> Feature(mf, type, team, "NOT_APPLICABLE", {}, None, None)
          [] required /\ mapping = None ->
                Feature(mf, type, team, "BLOCKED", points, None, None)
          [] OTHER -> Feature(mf, type, team, "AVAILABLE", points, <<>>, mapping)

OpponentAdjusted(mf, team, upstream) ==
    LET rated == RatingsIn(upstream)
        faced == {o \in ForTeam(mf, team, "POINTS") : o.opponent \in {f.team : f \in rated}}
        against == {f \in rated : f.team \in {o.opponent : o \in faced}}
    IN  [Rated(mf, "OPPONENT_ADJUSTED_STRENGTH", team, faced, <<faced, against>>)
            EXCEPT !.ratings = against]

OpponentFormLeague(mf, team, upstream, required, mapping) ==
    LET points == ForTeam(mf, team, "POINTS")
        league == {o \in mf.observations : o.kind = "POINTS"}
    IN  {OpponentAdjusted(mf, team, upstream),
         Rated(mf, "FORM_DECAY", team, points, <<points>>),
         Rated(mf, "LEAGUE_STRENGTH", None, league, <<league>>),
         Transition(mf, team, required, mapping)}

----------------------------------------------------------------------------
(* StatisticalFeatureStore.                                                *)

\* The engines keep nothing, so a feature can be made of an old manifest at
\* any time.  It has revision 1 and no predecessor: a derivation that is there
\* with other content is refused, whatever corrected it.
AppendFeature(f) ==
    /\ \A g \in features : FeatureId(g) # FeatureId(f)
    /\ features' = features \cup {f}
    /\ UNCHANGED <<matches, manifests>>

----------------------------------------------------------------------------
StrengthNext ==
    \/ \E m \in Matches \ matches : ResolveMatch(m) /\ UNCHANGED strength_store
    \/ \E S \in Offers, q \in Targets : BuildManifest(S, q)
    \/ \E mf \in manifests, team \in Teams :
          \/ AppendFeature(Rating(mf, team))
          \/ \E f \in AttackDefence(mf, team) : AppendFeature(f)
          \/ \E upstream \in SUBSET features, required \in BOOLEAN,
                mapping \in Mappings \cup {None} :
                /\ UpstreamOK(mf, upstream)
                /\ \E f \in OpponentFormLeague(mf, team, upstream, required, mapping) :
                      AppendFeature(f)

StrengthSpec == StrengthInit /\ [][StrengthNext]_strength_vars

----------------------------------------------------------------------------
(* Safety.                                                                 *)

Numbered == {f \in features : f.state = "AVAILABLE"}

\* Every observation had happened, was available and was corrected by the cutoff.
KnownBy(S, cutoff) ==
    \A o \in S :
        /\ o.event <= cutoff /\ o.available <= cutoff
        /\ o.correction_published # None => o.correction_published <= cutoff

\* The number kept for a team rests on observations of its own and, if it is
\* adjusted for the opponents, on numbers kept for these: on other, known matches,
\* no more of them for each team than are to be kept, and each number's own
\* observations were known by the cutoff of that number.
NumbersAreOfThePast ==
    \A f \in Numbered : \A g \in {f} \cup f.ratings :
        /\ g \in Numbered
        /\ SourceMatches(g.usable) \subseteq matches \ {f.target}
        /\ Cardinality(SourceMatches({o \in g.usable : o.team = g.team})) <= MaxMatches
        /\ KnownBy(g.usable, g.manifest[2])

\* Refuted: docs/V4_STATISTICAL_HISTORICAL_INPUT_CONTRACT.md, "no use of an
\* observation outside the target cutoff".  An opponent's rating may be of a later
\* manifest of the target: only its target and configuration are looked at.
RatingsAreOfThePast ==
    \A f \in Numbered : \A g \in f.ratings : KnownBy(g.usable, f.manifest[2])

\* The store keeps one number for a question: other observations for the same
\* match and cutoff never give it a second.
OneNumberPerQuestion ==
    \A f, g \in Numbered :
        <<f.type, f.team, f.manifest, f.mapping>> =
           <<g.type, g.team, g.manifest, g.mapping>> => f = g

\* Refuted.  Below the minimum of source matches a feature has no number: an
\* observation and its correction are both counted, though their match is one.
MinimumCountsMatches ==
    \A f \in Numbered :
        f.type \in DOMAIN Minimum => f.count >= Minimum[f.type]
=============================================================================
