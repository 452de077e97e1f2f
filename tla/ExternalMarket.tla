--------------------------- MODULE ExternalMarket ---------------------------
(***************************************************************************)
(* The external market snapshots of a match (V4-028 to V4-030) and the     *)
(* sets the source-time normalizer makes of them (V4-031).                 *)
(*                                                                         *)
(* An id that is a hash of content is that content here.  Times are whole  *)
(* seconds, as the ids have them.                                          *)
(***************************************************************************)
EXTENDS ResolvedMatches, Sequences, FiniteSets

CONSTANTS
    MarketInputs,       \* what providers may deliver
    Adapter             \* the one market an adapter takes, or None

ASSUME MarketAssumption ==
    /\ None \notin MarketInputs /\ None \notin Nat
    /\ \A o \in MarketInputs :
          /\ DOMAIN o = {"match", "provider", "market", "line", "prices", "status",
                         "reason", "sides", "kind", "supersedes", "snapshot_id",
                         "hashes_agree", "source", "captured", "observed",
                         "ingested", "note"}
          /\ o.match \in Matches
          /\ o.source.state \in {"KNOWN", "UNKNOWN", "CONFLICTED"}
          /\ o.source.state = "KNOWN" => o.source.at \in Nat

VARIABLES
    market_observations,    \* ids of the accepted observations
    book,                   \* snapshots in the order their ids were first used
    market_latest,          \* [market key -> its last snapshot]
    published               \* the snapshots ingest has returned

market_store == <<market_observations, book, market_latest, published>>
market_vars == <<matches, market_store>>

MarketKey(o) == <<o.match, o.provider, o.market, o.line>>
MarketKeys == {MarketKey(o) : o \in MarketInputs}

MarketInit ==
    /\ matches = {}
    /\ market_observations = {}
    /\ book = <<>>
    /\ market_latest = [k \in MarketKeys |-> None]
    /\ published = {}

----------------------------------------------------------------------------

\* _line, _prices
Priced(o) ==
    o.status = "AVAILABLE" => o.prices # None /\ o.line \notin {"UNKNOWN", "CONFLICTED"}

\* ExternalMarketObservation.from_dict
MarketAccepts(o) ==
    /\ Priced(o)
    /\ o.market = "EUROPEAN_1X2" <=> o.line = "NOT_APPLICABLE"
    /\ o.captured <= o.observed /\ o.observed <= o.ingested
    /\ o.status # "AVAILABLE" => o.reason
    /\ IF o.status = "CONFLICT" THEN o.sides >= 2 ELSE o.sides = 0
    /\ o.kind = "CORRECTION" => o.supersedes # None

MarketObservationId(o) == [o EXCEPT !.snapshot_id = None, !.hashes_agree = TRUE]

\* The content leaves out creation, ingestion, liquidity, revision reason and
\* metadata (note).
MarketSnapshotId(o) ==
    IF o.snapshot_id # None THEN <<"supplied", o.snapshot_id>>
    ELSE <<"computed", [MarketObservationId(o) EXCEPT !.ingested = None, !.note = None]>>

MarketSnapshots ==
    [id : {MarketSnapshotId(o) : o \in MarketInputs}, observation : MarketInputs,
     revision : Nat]

ASSUME MarketSnapshotsAssumption == None \notin MarketSnapshots

\* Mutant: the predecessor may be of another line.
Supersedes_AnyLine(o) ==
    o.supersedes # None => \E i \in DOMAIN book : book[i].id = o.supersedes

Supersedes(o) ==
    o.supersedes # None =>
        \E i \in DOMAIN book :
            book[i].id = o.supersedes /\ MarketKey(book[i].observation) = MarketKey(o)

\* A snapshot takes the place of the one that has its id.
Shelve(s) ==
    IF \E i \in DOMAIN book : book[i].id = s.id
    THEN [i \in DOMAIN book |-> IF book[i].id = s.id THEN s ELSE book[i]]
    ELSE Append(book, s)

\* A blocked observation is not retained: it may be sent again.
IngestMarket(o) ==
    /\ MarketAccepts(o) /\ Adapter \in {None, o.market}
    /\ MarketObservationId(o) \notin market_observations
    /\ o.match \in matches
    /\ Supersedes(o)
    /\ o.hashes_agree
    /\ LET p == market_latest[MarketKey(o)]
           s == [id |-> MarketSnapshotId(o), observation |-> o,
                 revision |-> IF p = None THEN 1 ELSE p.revision + 1]
       IN  /\ book' = Shelve(s)
           /\ market_latest' = [market_latest EXCEPT ![MarketKey(o)] = s]
           /\ published' = published \cup {s}
    /\ market_observations' = market_observations \cup {MarketObservationId(o)}
    /\ UNCHANGED matches

MarketNext ==
    \/ \E m \in Matches \ matches : ResolveMatch(m) /\ UNCHANGED market_store
    \/ \E o \in MarketInputs : IngestMarket(o)

MarketSpec == MarketInit /\ [][MarketNext]_market_vars

----------------------------------------------------------------------------
(* ExternalSourceTimeNormalizer.normalize                                  *)

\* By source time, the unknown and the conflicted last.
MayPrecede(s, t) ==
    LET before == s.observation.source
        after == t.observation.source
    IN  after.state = "KNOWN" => before.state = "KNOWN" /\ before.at <= after.at

\* Equal times are in an order of their own, which depends on the ids alone.
InSourceOrder(S) ==
    CHOOSE order \in [1..Cardinality(S) -> S] :
        \A i, j \in DOMAIN order :
            i < j => order[i] # order[j] /\ MayPrecede(order[i], order[j])

\* Only sets whose members have ids of their own and one match are looked at.
Normalizable(S) ==
    /\ S # {}
    /\ \A s, t \in S : s # t => s.id # t.id
    /\ \A s, t \in S : s.observation.match = t.observation.match

NormalizedOK(S) ==
    /\ Normalizable(S)
    /\ \A s \in S : /\ s.observation.source.state = "KNOWN"
                    /\ s.observation.status = "AVAILABLE"

----------------------------------------------------------------------------
(* Safety.                                                                 *)

\* The snapshots of a market line are numbered one after the other, and one that
\* supersedes another comes after it on the same line of the same match.
CorrectionsStayOnTheLine ==
    \A s \in published :
        LET k == MarketKey(s.observation)
        IN  /\ s.revision <= market_latest[k].revision
            /\ \A t \in published :
                  MarketKey(t.observation) = k /\ t.revision = s.revision => t = s
            /\ s.observation.supersedes # None =>
                  \E p \in published : /\ p.id = s.observation.supersedes
                                       /\ MarketKey(p.observation) = k
                                       /\ p.revision < s.revision

\* Whatever snapshots a caller has collected, a normalized set that is accepted
\* holds priced snapshots of one match in the order of their source times.
AcceptedSetsAreUsable ==
    \A S \in SUBSET published :
        NormalizedOK(S) =>
            LET order == InSourceOrder(S)
            IN  /\ \A i, j \in DOMAIN order :
                      i < j => order[i].observation.source.at <= order[j].observation.source.at
                /\ \A s \in S : s.observation.prices # None

\* A snapshot that was returned stays in the store: refuted, a second delivery
\* of a capture computes the same id.
PublishedSnapshotsKept == \A s \in published : \E i \in DOMAIN book : book[i] = s

\* latest answers with the snapshot numbered last: refuted, it goes by the order
\* in which the ids were first used.
LatestIsNewest ==
    \A k \in MarketKeys :
        LET line == {i \in DOMAIN book : MarketKey(book[i].observation) = k}
        IN  line # {} => market_latest[k] = book[CHOOSE i \in line : \A j \in line : j <= i]
=============================================================================
