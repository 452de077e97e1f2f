---------------------------- MODULE ContextStores ----------------------------
(***************************************************************************)
(* The team context of a match (V4-032 to V4-035): the linker that ties a  *)
(* source's team label to a side of a match, and the availability, lineup  *)
(* and operational stores, whose records rest on its links.                *)
(*                                                                         *)
(* An id that is a hash of content is that content here.  Times are whole  *)
(* seconds, as the ids have them.                                          *)
(***************************************************************************)
EXTENDS ResolvedMatches

CONSTANTS
    Fixture,            \* [match -> its HOME team, AWAY team and kickoff]
    References,         \* of sources
    ContextInputs       \* what sources may say

Sides == {"HOME", "AWAY"}
Stores == {"link", "availability", "lineup", "operational"}

\* at: the times of the observation, or of each of its operational items.
ASSUME ContextAssumption ==
    /\ \A m \in Matches : Fixture[m].kickoff \in Nat /\ Fixture[m].HOME # Fixture[m].AWAY
    /\ \A o \in ContextInputs :
          /\ o.store \in Stores /\ o.match \in Matches /\ o.side \in Sides
          /\ o.cutoff \in Nat /\ o.ingested \in Nat
          /\ o.store = "link" => o.reference \in References
          /\ o.at \subseteq [source : Nat, observed : Nat, effective : Nat, expires : Nat \cup {None}]
    /\ None \notin ContextInputs /\ None \notin Sides /\ None \notin Nat

VARIABLES
    retained,           \* the observations a store answers as duplicates
    records,            \* links and context records
    latest,             \* [<<store, match, side>> -> its last record]
    by_source_ref       \* [<<match, reference>> -> the side of its last link]

context_store == <<retained, records, latest, by_source_ref>>
context_vars == <<matches, context_store>>

ContextKeys == Stores \X Matches \X Sides

ContextInit ==
    /\ matches = {}
    /\ retained = {}
    /\ records = {}
    /\ latest = [k \in ContextKeys |-> None]
    /\ by_source_ref = [r \in Matches \X References |-> None]

----------------------------------------------------------------------------
(* What from_dict admits.  A fact has a state, its content (None, or how   *)
(* many items it has), the number of its references and perhaps a reason.  *)

ContextStates == {"AVAILABLE", "UNKNOWN", "NONE_CONFIRMED", "NOT_VERIFIED",
                  "CONFLICTED", "STALE", "FUTURE_DATA", "BLOCKED"}
LineupStates == {"CONFIRMED", "PROJECTED", "UNKNOWN", "NOT_VERIFIED", "BLOCKED"}

\* TypedFactCollection: no absence is claimed without evidence of it.
CollectionOK(c) ==
    /\ c.state \in ContextStates
    /\ c.state = "UNKNOWN" => c.content = None
    /\ c.state = "NONE_CONFIRMED" => c.content = 0 /\ c.basis > 0
    /\ c.state = "AVAILABLE" => c.content \notin {None, 0}
    /\ c.state = "CONFLICTED" => c.basis > 1
    /\ c.state # "AVAILABLE" => c.reason

\* ContextValue
ValueOK(v, states) ==
    /\ v.state \in states
    /\ IF v.state \in {"AVAILABLE", "CONFIRMED", "PROJECTED"}
       THEN v.content # None /\ v.basis > 0
       ELSE v.reason

\* StartingXIContext
StartingXIOK(x) ==
    /\ x.state \in LineupStates
    /\ IF x.state \in {"CONFIRMED", "PROJECTED"}
       THEN x.content \notin {None, 0} /\ x.basis > 0
       ELSE x.content = None /\ x.reason

\* OperationalContextItem; what the observation adds is that none is of the
\* future.
ItemOK(i) ==
    /\ i.state \in (ContextStates \cup {"UNAVAILABLE"}) \ {"FUTURE_DATA"}
    /\ IF i.state = "AVAILABLE" THEN i.content \notin {None, 0} /\ i.basis > 0
       ELSE i.reason
    /\ i.state = "CONFLICTED" => i.basis > 1

\* A lineup is what its status says it is.
LineupOK(f) ==
    /\ ValueOK(f.lineup_status, LineupStates) /\ StartingXIOK(f.starting_xi)
    /\ f.starting_xi.state = f.lineup_status.state
    /\ f.lineup_status.state \in {"CONFIRMED", "PROJECTED"} =>
          f.lineup_status.content = f.lineup_status.state
    /\ \A n \in {"coach", "tactical_style", "motivation"} : ValueOK(f[n], ContextStates)

FactsOK(o) ==
    CASE o.store = "link" -> TRUE
      [] o.store = "availability" -> \A n \in DOMAIN o.facts : CollectionOK(o.facts[n])
      [] o.store = "lineup" -> LineupOK(o.facts)
      [] o.store = "operational" -> \A n \in DOMAIN o.facts : ItemOK(o.facts[n])

StatesOf(o) == IF o.store = "link" THEN {} ELSE {o.facts[n].state : n \in DOMAIN o.facts}

\* The times of every observation, and those of an operational item, are in
\* order and none is after the cutoff.
TimesOK(o) ==
    \A t \in o.at :
        /\ t.source <= t.observed
        /\ t.observed <= o.cutoff /\ t.effective <= o.cutoff
        /\ t.expires # None => t.expires >= t.effective

\* Of the operational items the ingestion is not compared.
Observed(o) == \A t \in o.at : t.observed <= o.ingested
Expires(o) == \A t \in o.at : t.expires # None

LinkAccepts(o) == o.store = "link" /\ TimesOK(o) /\ Observed(o)

AvailabilityAccepts(o) ==
    /\ o.store = "availability" /\ FactsOK(o) /\ TimesOK(o) /\ Observed(o)
    /\ "STALE" \in StatesOf(o) => Expires(o)

LineupAccepts(o) == o.store = "lineup" /\ FactsOK(o) /\ TimesOK(o) /\ Observed(o)

OperationalAccepts(o) ==
    o.store = "operational" /\ FactsOK(o) /\ TimesOK(o) /\ Expires(o)

----------------------------------------------------------------------------
TeamOn(o) == Fixture[o.match][o.side]
Key(o) == <<o.store, o.match, o.side>>
LinkOf(o) == latest[<<"link", o.match, o.side>>]

ContextRecords ==
    [observation : ContextInputs, team : {TeamOn(o) : o \in ContextInputs},
     link : ContextInputs \cup {None}, revision : Nat \ {0},
     supersedes : ContextInputs \cup {None}]

ASSUME ContextRecordsAssumption == None \notin ContextRecords

\* A record supersedes the last of its match, team and side, whatever their
\* times.
AppendRecord(o, link) ==
    LET p == latest[Key(o)]
        r == [observation |-> o, team |-> TeamOn(o), link |-> link,
              revision |-> IF p = None THEN 1 ELSE p.revision + 1,
              supersedes |-> IF p = None THEN None ELSE p.observation]
    IN  /\ records' = records \cup {r}
        /\ latest' = [latest EXCEPT ![Key(o)] = r]

\* A team id decides alone; without one the alias must be the team's own name.
LinkResolves(o) ==
    /\ o.match \in matches
    /\ IF o.team = None THEN o.alias = TeamOn(o) ELSE o.team = TeamOn(o)

\* Mutant: a reference may be tied to the other side of the match.
ReferenceAgrees_AnySide(o) == TRUE

ReferenceAgrees(o) == by_source_ref[<<o.match, o.reference>>] \in {None, o.side}

\* Retained even when it is blocked: sent again, it is a duplicate.
IngestLink(o) ==
    /\ LinkAccepts(o)
    /\ o \notin retained
    /\ retained' = retained \cup {o}
    /\ IF LinkResolves(o) /\ ReferenceAgrees(o)
       THEN /\ AppendRecord(o, None)
            /\ by_source_ref' = [by_source_ref EXCEPT ![<<o.match, o.reference>>] = o.side]
       ELSE UNCHANGED <<records, latest, by_source_ref>>
    /\ UNCHANGED matches

\* Mutant: the cutoff is not compared with the kickoff.
Admissible_AnyCutoff(o) ==
    o.match \in matches /\ o.team = TeamOn(o) /\ LinkOf(o) # None

Admissible(o) ==
    /\ o.match \in matches /\ o.team = TeamOn(o) /\ LinkOf(o) # None
    /\ o.cutoff < Fixture[o.match].kickoff

RetainContext(o, admitted) ==
    /\ o \notin retained
    /\ retained' = retained \cup {o}
    /\ IF admitted THEN AppendRecord(o, LinkOf(o).observation)
       ELSE UNCHANGED <<records, latest>>
    /\ UNCHANGED <<matches, by_source_ref>>

IngestAvailability(o) ==
    /\ AvailabilityAccepts(o)
    /\ RetainContext(o, Admissible(o) /\ "FUTURE_DATA" \notin StatesOf(o))

IngestLineup(o) ==
    /\ LineupAccepts(o)
    /\ RetainContext(o, /\ Admissible(o)
                        /\ \A t \in o.at : {t.source, t.observed, t.effective}
                                             \subseteq 0 .. Fixture[o.match].kickoff - 1)

IngestOperational(o) == OperationalAccepts(o) /\ RetainContext(o, Admissible(o))

ContextNext ==
    \/ \E m \in Matches \ matches : ResolveMatch(m) /\ UNCHANGED context_store
    \/ \E o \in ContextInputs :
          \/ IngestLink(o)
          \/ IngestAvailability(o)
          \/ IngestLineup(o)
          \/ IngestOperational(o)

ContextSpec == ContextInit /\ [][ContextNext]_context_vars

----------------------------------------------------------------------------
(* Safety.                                                                 *)

LinksHeld == {r \in records : r.observation.store = "link"}

\* Context that was admitted was known before its match began, says nothing of
\* the future where its store refuses that, and rests on a link of its match and
\* side that names its team.
AdmittedContextIsPrematch ==
    \A r \in records \ LinksHeld :
        LET o == r.observation
        IN  /\ \A t \in o.at :
                  /\ t.source < Fixture[o.match].kickoff
                  /\ t.observed < Fixture[o.match].kickoff
                  /\ t.effective < Fixture[o.match].kickoff
            /\ o.store # "lineup" => "FUTURE_DATA" \notin StatesOf(o)
            /\ \E k \in LinksHeld :
                  /\ k.observation = r.link /\ k.team = o.team
                  /\ k.observation.match = o.match /\ k.observation.side = o.side

\* All that one source reference says of a match is about one team: what links
\* stand on the same reference are links of one side.
OneTeamPerReference ==
    \A k, l \in LinksHeld :
        /\ k.observation.match = l.observation.match
        /\ k.observation.reference = l.observation.reference
        => k.observation.side = l.observation.side /\ k.team = l.team

\* Every blocked observation could still be admitted: refuted, since a duplicate
\* of it is accepted without a record.
RetainedIsRecorded ==
    \A o \in retained :
        o.store # "link" /\ Admissible(o) /\ "FUTURE_DATA" \notin StatesOf(o) => \E r \in records : r.observation = o

\* A record's link was seen by the time the record is meant for: refuted, since
\* the latest link is taken.
LinkKnownAtCutoff ==
    \A r \in records \ LinksHeld :
        \A t \in r.link.at : t.observed <= r.observation.cutoff

\* Each store implements the linear revision log of its matches and sides: no
\* revision is lost, rewritten or forked.
ContextId(o, n) == [key |-> Key(o), rev |-> n, observation |-> o]

ContextRecord(r) ==
    [id |-> ContextId(r.observation, r.revision),
     sup |-> IF r.supersedes = None THEN None
             ELSE ContextId(r.supersedes, r.revision - 1)]

ContextIds == [key : ContextKeys, rev : Nat \ {0}, observation : ContextInputs]

ASSUME ContextIdsAssumption == None \notin ContextIds

ContextLog == INSTANCE RevisionLog WITH
    Records <- [id : ContextIds, sup : ContextIds \cup {None}],
    log <- {ContextRecord(r) : r \in records}

ImplementsContextLogs == ContextLog!LinearSpec
=============================================================================
