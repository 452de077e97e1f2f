---------------------------- MODULE OfficialOdds ----------------------------
(***************************************************************************)
(* The official odds of a match (V4-024 to V4-027): the snapshots of the   *)
(* official feed, the evidence read from official screenshots, the gate    *)
(* that compares the two market by market, and the ledger that says which  *)
(* odds were known before the prediction cutoff.                           *)
(*                                                                         *)
(* An id that is a hash of content is that content here.  What is refused  *)
(* without being retained changes nothing but the event lists, which no    *)
(* operation reads, and has no action.                                     *)
(***************************************************************************)
EXTENDS ResolvedMatches, Sequences

CONSTANTS
    Markets,
    Payloads,           \* well-formed odds of a market
    Times,              \* instants, in ticks
    Second,             \* ticks of a second
    OddsInputs,         \* what the feed may deliver
    ScreenshotInputs,   \* what may be read from screenshots
    LedgerRequests,     \* basis, cutoff and kickoff a caller may ask for
    MaxEntries          \* bound on the entries of the ledger

ASSUME OddsAssumption ==
    /\ Times \subseteq Nat /\ None \notin Nat /\ Second \in Nat \ {0}
    /\ None \notin Payloads /\ MaxEntries \in Nat
    /\ \A q \in LedgerRequests :
          /\ DOMAIN q = {"basis", "cutoff", "kickoff"}
          /\ q.cutoff \in Times /\ q.kickoff \in Times
          /\ q.basis \in {"SOURCE_PUBLISHED_AT", "SOURCE_TIMESTAMP", "OBSERVED_AT"}

(* An observation has its fields, and a screenshot says something of each  *)
(* market.                                                                 *)
ASSUME OddsInputsAssumption ==
    /\ \A o \in OddsInputs :
          /\ {"match", "markets", "timestamp", "observed", "ingested", "note",
              "snapshot_id", "hashes_agree", "supersedes"} \subseteq DOMAIN o
          /\ {o.timestamp, o.observed} \subseteq Times \cup {None}
    /\ \A e \in ScreenshotInputs :
          /\ "markets" \in DOMAIN e /\ e.published \in Times \cup {None}
          /\ \A m \in Markets : e.markets[m].status # None

VARIABLES
    odds_observations,  \* ids of the retained feed observations
    snapshots,          \* the store's snapshots; an id has at most one
    issued,             \* the snapshots ingest has returned: callers keep them
    latest_by_match,    \* [match -> its last snapshot]
    evidence,           \* screenshot evidence; an id has at most one
    gates,              \* gate results; an id has at most one
    ledger              \* entries in the order they were appended

odds_store == <<odds_observations, snapshots, issued, latest_by_match, evidence,
                gates, ledger>>
odds_vars == <<matches, odds_store>>

OddsInit ==
    /\ matches = {}
    /\ odds_observations = {}
    /\ snapshots = {}
    /\ issued = {}
    /\ latest_by_match = [m \in Matches |-> None]
    /\ evidence = {}
    /\ gates = {}
    /\ ledger = <<>>

----------------------------------------------------------------------------
(* V4-024: OfficialOddsSnapshotStore.                                      *)

\* A market is on offer exactly when it has odds.
MarketOK(x) == x.status = "AVAILABLE" <=> x.payload # None

\* from_dict and _availability.  An observation with a predecessor may be of
\* any kind; a CORRECTION must have one.
OddsAccepts(o) ==
    /\ o.source_type = "OFFICIAL_FEED"
    /\ o.ingested >= o.observed
    /\ o.kind = "CORRECTION" => o.supersedes # None
    /\ \A m \in Markets :
          /\ o.markets[m].payload \in Payloads \cup {None}
          /\ MarketOK(o.markets[m])

\* What is hashed or kept of a time is its whole second (_iso).
Whole(t) == IF t = None THEN None ELSE t - (t % Second)

\* The observation id leaves out the supplied snapshot id and hashes.
OddsObservationId(o) ==
    [o EXCEPT !.snapshot_id = None, !.hashes_agree = TRUE,
              !.observed = Whole(@), !.ingested = Whole(@), !.timestamp = Whole(@)]

\* The logical content leaves out creation and ingestion, evidence reference,
\* revision reason and metadata as well (note).
SnapshotContent(o) ==
    [OddsObservationId(o) EXCEPT !.ingested = None, !.note = None]

SnapshotId(o) == IF o.snapshot_id # None THEN <<"supplied", o.snapshot_id>>
                 ELSE <<"computed", SnapshotContent(o)>>

SnapshotIds == {SnapshotId(o) : o \in OddsInputs}
Snapshots == [id : SnapshotIds, observation : OddsInputs, revision : Nat]

ASSUME SnapshotsAssumption == None \notin Snapshots

SnapshotsWith(id) == {s \in snapshots : s.id = id}

Supersedable(o) ==
    o.supersedes # None =>
        \E s \in SnapshotsWith(o.supersedes) : s.observation.match = o.match

NextRevision(m) ==
    IF latest_by_match[m] = None THEN 1 ELSE latest_by_match[m].revision + 1

\* A snapshot replaces the one that has its id.
AppendSnapshot(o) ==
    LET s == [id |-> SnapshotId(o), observation |-> o,
              revision |-> NextRevision(o.match)]
    IN  /\ snapshots' = (snapshots \ SnapshotsWith(s.id)) \cup {s}
        /\ issued' = issued \cup {s}
        /\ latest_by_match' = [latest_by_match EXCEPT ![o.match] = s]

\* Mutant: duplicates are looked for among the snapshots' observations only
\* after the snapshot has been numbered.
IngestOdds_Again(o) ==
    /\ OddsAccepts(o)
    /\ o.match \in matches
    /\ odds_observations' = odds_observations \cup {OddsObservationId(o)}
    /\ IF Supersedable(o) /\ o.hashes_agree
       THEN AppendSnapshot(o)
       ELSE UNCHANGED <<snapshots, issued, latest_by_match>>
    /\ UNCHANGED <<matches, evidence, gates, ledger>>

\* The observation is retained before the predecessor and the supplied hashes
\* are looked at.
IngestOdds(o) ==
    /\ OddsAccepts(o)
    /\ OddsObservationId(o) \notin odds_observations
    /\ o.match \in matches
    /\ odds_observations' = odds_observations \cup {OddsObservationId(o)}
    /\ IF Supersedable(o) /\ o.hashes_agree
       THEN AppendSnapshot(o)
       ELSE UNCHANGED <<snapshots, issued, latest_by_match>>
    /\ UNCHANGED <<matches, evidence, gates, ledger>>

----------------------------------------------------------------------------
(* V4-025: OfficialScreenshotEvidenceStore.                                *)

ScreenshotMarketOK(x) == x.status = "VERIFIED" <=> x.payload # None

\* from_dict and _market_observation.  A REJECTED screenshot may say anything
\* of its markets.
ScreenshotAccepts(e) ==
    LET statuses == {e.markets[m].status : m \in Markets}
    IN  /\ e.ingested >= e.observed
        /\ \A m \in Markets :
              /\ e.markets[m].payload \in Payloads \cup {None}
              /\ ScreenshotMarketOK(e.markets[m])
        /\ e.state = "VERIFIED" => statuses \subseteq {"VERIFIED", "UNAVAILABLE"}
        /\ e.state = "CONFLICTED" =>
              "CONFLICTED" \in statuses /\ e.contradiction = "CONFLICTED"
        /\ e.state = "NOT_VERIFIED" => "NOT_VERIFIED" \in statuses

\* The evidence hash leaves out ingestion, creation, reason and metadata.
EvidenceId(e) ==
    [e EXCEPT !.ingested = None, !.note = None, !.hashes_agree = TRUE,
              !.observed = Whole(@), !.timestamp = Whole(@), !.published = Whole(@)]

ScreenshotObservationId(e) ==
    [EvidenceId(e) EXCEPT !.ingested = Whole(e.ingested), !.note = e.note]

EvidenceWith(id) == {v \in evidence : v.id = id}

\* The predecessor must exist; its match is not compared.
IngestScreenshot(e) ==
    /\ ScreenshotAccepts(e)
    /\ \A v \in evidence :
          ScreenshotObservationId(v.observation) # ScreenshotObservationId(e)
    /\ e.match \in matches
    /\ e.supersedes # None => EvidenceWith(e.supersedes) # {}
    /\ e.hashes_agree
    /\ LET revisions == {v.revision : v \in EvidenceWith(e.supersedes)}
           r == [id |-> EvidenceId(e), observation |-> e,
                 revision |-> IF e.supersedes = None THEN 1
                              ELSE (CHOOSE n \in revisions : TRUE) + 1]
       IN  evidence' = (evidence \ EvidenceWith(r.id)) \cup {r}
    /\ UNCHANGED <<matches, odds_observations, snapshots, issued,
                   latest_by_match, gates, ledger>>

----------------------------------------------------------------------------
(* V4-026: OfficialMarketAvailabilityGate.                                 *)

NoScreenshot == [status |-> None, payload |-> None]

\* Mutant: a market that could not be read does not hold its odds back.
MarketDecision_Unread(x, y) ==
    CASE x.status = "UNAVAILABLE" ->
            IF y.status \in {"VERIFIED", "CONFLICTED"} THEN "BLOCKED" ELSE "UNAVAILABLE"
      [] x.status = "AVAILABLE" ->
            CASE y.status = "NOT_VERIFIED" -> "AVAILABLE"
              [] y \in {NoScreenshot, [status |-> "VERIFIED", payload |-> x.payload]} ->
                    "AVAILABLE"
              [] OTHER -> "BLOCKED"
      [] OTHER -> "BLOCKED"

\* _decide_market.  x: the feed's word on a market; y: the screenshot's.
MarketDecision(x, y) ==
    CASE x.status = "UNAVAILABLE" ->
            IF y.status \in {"VERIFIED", "CONFLICTED"} THEN "BLOCKED" ELSE "UNAVAILABLE"
      [] x.status = "AVAILABLE" ->
            CASE y.status \in {"NOT_VERIFIED", "BLOCKED"} -> "NOT_VERIFIED"
              [] y \in {NoScreenshot, [status |-> "VERIFIED", payload |-> x.payload]} ->
                    "AVAILABLE"
              [] OTHER -> "BLOCKED"
      [] OTHER -> "BLOCKED"

Outcome(decisions) ==
    LET statuses == {decisions[m] : m \in Markets}
    IN  IF {"BLOCKED", "NOT_VERIFIED"} \cap statuses # {} THEN "BLOCKED"
        ELSE IF "UNAVAILABLE" \in statuses THEN "EXPLICIT_MISSINGNESS"
        ELSE "PASSED"

IdOf(v) == IF v = None THEN None ELSE v.id

\* A pair of ids that has a result is not looked at again.
EvaluateGate(s, v) ==
    /\ s.observation.match \in matches
    /\ v # None => v.observation.match = s.observation.match
    /\ \A g \in gates : <<g.snapshot, g.evidence>> # <<s.id, IdOf(v)>>
    /\ LET d == [m \in Markets |->
                   MarketDecision(s.observation.markets[m],
                                  IF v = None THEN NoScreenshot
                                  ELSE v.observation.markets[m])]
       IN  gates' = gates \cup {[snapshot |-> s.id, evidence |-> IdOf(v),
                                 match |-> s.observation.match,
                                 outcome |-> Outcome(d)]}
    /\ UNCHANGED <<matches, odds_observations, snapshots, issued,
                   latest_by_match, evidence, ledger>>

----------------------------------------------------------------------------
(* V4-027: OfficialOddsProvenanceLedger.  A ledger id is a hash of the     *)
(* entry's identity; here it is the entry's place.                         *)

\* _validate_inputs
Bound(s, g, v, q) ==
    /\ g.match = s.observation.match /\ g.snapshot = s.id
    /\ v # None =>
          /\ v.observation.match = s.observation.match
          /\ g.evidence \in {v.id, None}
          /\ \/ None \in {s.observation.timestamp, v.observation.timestamp}
             \/ Whole(s.observation.timestamp) = Whole(v.observation.timestamp)
    /\ q.cutoff < q.kickoff

\* The time the chosen basis gives; None for one that is UNKNOWN, CONFLICTED
\* or not published.
Availability(s, v, basis) ==
    Whole(CASE basis = "SOURCE_PUBLISHED_AT" ->
                  IF v = None THEN None ELSE v.observation.published
            [] basis = "SOURCE_TIMESTAMP" -> s.observation.timestamp
            [] basis = "OBSERVED_AT" -> s.observation.observed)

\* Mutant: what is published at the kickoff is taken for prematch.
DecideTime_AtKickoff(outcome, available, q) ==
    IF outcome # "PASSED" \/ available = None THEN "BLOCKED"
    ELSE IF available > q.kickoff THEN "POSTMATCH_ONLY"
    ELSE IF available > q.cutoff /\ available < q.kickoff THEN "FUTURE_INFORMATION_LEAKAGE"
    ELSE "PREMATCH_ALLOWED"

\* _decide_time
DecideTime(outcome, available, q) ==
    IF outcome # "PASSED" \/ available = None THEN "BLOCKED"
    ELSE IF available >= q.kickoff THEN "POSTMATCH_ONLY"
    ELSE IF available > q.cutoff THEN "FUTURE_INFORMATION_LEAKAGE"
    ELSE "PREMATCH_ALLOWED"

\* _logical_identity: times in whole seconds.
LedgerKey(s, g, v, q, sup) ==
    [match |-> s.observation.match, snapshot |-> s.id,
     observation |-> OddsObservationId(s.observation),
     gate |-> <<g.snapshot, g.evidence>>, evidence |-> IdOf(v), basis |-> q.basis,
     cutoff |-> Whole(q.cutoff), kickoff |-> Whole(q.kickoff), supersedes |-> sup]

\* _build_entry
LedgerEntry(s, g, v, q, sup) ==
    LET available == Availability(s, v, q.basis)
    IN  [key |-> LedgerKey(s, g, v, q, sup),
         revision |-> IF sup = None THEN 1 ELSE ledger[sup].revision + 1,
         request |-> q, available |-> available,
         status |-> DecideTime(g.outcome, available, q)]

\* Mutant: the entry that is superseded may belong to another match.
RecordOdds_AnyMatch(s, g, v, q, sup) ==
    /\ Len(ledger) < MaxEntries
    /\ Bound(s, g, v, q)
    /\ \A i \in DOMAIN ledger : ledger[i].key # LedgerKey(s, g, v, q, sup)
    /\ ledger' = Append(ledger, LedgerEntry(s, g, v, q, sup))
    /\ UNCHANGED <<matches, odds_observations, snapshots, issued,
                   latest_by_match, evidence, gates>>

\* An entry is written whatever its status; a repetition is answered from it.
RecordOdds(s, g, v, q, sup) ==
    /\ Len(ledger) < MaxEntries
    /\ Bound(s, g, v, q)
    /\ \A i \in DOMAIN ledger : ledger[i].key # LedgerKey(s, g, v, q, sup)
    /\ sup # None => ledger[sup].key.match = s.observation.match
    /\ ledger' = Append(ledger, LedgerEntry(s, g, v, q, sup))
    /\ UNCHANGED <<matches, odds_observations, snapshots, issued,
                   latest_by_match, evidence, gates>>

----------------------------------------------------------------------------
OddsNext ==
    \/ \E m \in Matches \ matches : ResolveMatch(m) /\ UNCHANGED odds_store
    \/ \E o \in OddsInputs : IngestOdds(o)
    \/ \E e \in ScreenshotInputs : IngestScreenshot(e)
    \/ \E s \in issued, v \in evidence \cup {None} : EvaluateGate(s, v)
    \/ \E s \in issued, g \in gates, v \in evidence \cup {None},
          q \in LedgerRequests, sup \in DOMAIN ledger \cup {None} :
             RecordOdds(s, g, v, q, sup)

OddsSpec == OddsInit /\ [][OddsNext]_odds_vars

----------------------------------------------------------------------------
(* Safety.                                                                 *)

Allowed == {i \in DOMAIN ledger : ledger[i].status = "PREMATCH_ALLOWED"}

\* Odds allowed before the match under an id made of their content are all on
\* offer, agree with the screenshot they were gated with, and were known at the
\* cutoff that was asked for.
AllowedOddsAreGated ==
    \A i \in Allowed :
        LET k == ledger[i].key
        IN  /\ ledger[i].available # None
            /\ ledger[i].available <= ledger[i].request.cutoff
            /\ ledger[i].request.cutoff < ledger[i].request.kickoff
            /\ k.snapshot[1] = "computed" =>
                  \A m \in Markets :
                     /\ k.observation.markets[m].status = "AVAILABLE"
                     /\ k.gate[2] # None =>
                          k.gate[2].markets[m] =
                             [status |-> "VERIFIED",
                              payload |-> k.observation.markets[m].payload]

\* Whatever was allowed had all its markets on offer: it passed the gate.
AllowedOddsPassedTheGate ==
    \A i \in Allowed, m \in Markets :
        ledger[i].key.observation.markets[m].status = "AVAILABLE"

\* A screenshot an allowed entry cites does not contradict its odds.
CitedEvidenceAgrees ==
    \A i \in Allowed, m \in Markets :
        LET k == ledger[i].key
        IN  k.evidence # None /\ k.evidence.markets[m].payload # None =>
                k.evidence.markets[m].payload = k.observation.markets[m].payload

\* The snapshots of a match are numbered one after the other, the last being
\* the latest, and a correction comes after a snapshot of its match that has
\* the id it supersedes: what was corrected is never newer.
SnapshotsAreNumbered ==
    \A s \in issued :
        LET m == s.observation.match
        IN  /\ latest_by_match[m] # None /\ s.revision <= latest_by_match[m].revision
            /\ \A t \in issued : t.observation.match = m /\ t.revision = s.revision => t = s
            /\ s.observation.supersedes # None =>
                  \E p \in issued : /\ p.id = s.observation.supersedes
                                    /\ p.observation.match = m
                                    /\ p.revision < s.revision

\* What is allowed was gated, and the snapshots it is made of are numbered.
AllowedOddsAreSound == AllowedOddsAreGated /\ SnapshotsAreNumbered

\* The ledger implements the revision log with forks: each entry is the first
\* of its line or supersedes an entry of its match.
EntryId(i) == [key |-> ledger[i].key.match, rev |-> ledger[i].revision, no |-> i]

EntryRecord(i) ==
    [id |-> EntryId(i),
     sup |-> IF ledger[i].key.supersedes = None THEN None
             ELSE EntryId(ledger[i].key.supersedes)]

EntryIds == [key : Matches, rev : Nat \ {0}, no : Nat \ {0}]

ASSUME EntriesAssumption == None \notin EntryIds

LedgerLog == INSTANCE RevisionLog WITH
    Records <- [id : EntryIds, sup : EntryIds \cup {None}],
    log <- {EntryRecord(i) : i \in DOMAIN ledger}

ImplementsLedgerLog == LedgerLog!Spec
=============================================================================
