------------------------- MODULE MCCanonicalStores -------------------------
(* The stores that stand on the match identities, for TLC.  They share only  *)
(* the identity store, so each behaviour exercises one of them: focus.       *)
EXTENDS OfficialOdds, Evidence, ContextStores, ExternalMarket

----------------------------------------------------------------------------
(* Odds and screenshots.  Two ticks to the second.                        *)

Offer(p) == [status |-> "AVAILABLE", payload |-> p]
Gone == [status |-> "UNAVAILABLE", payload |-> None]
Read(p) == [status |-> "VERIFIED", payload |-> p]
Unread == [status |-> "NOT_VERIFIED", payload |-> None]

Feed(match, market, supplied, sup, timestamp, note) ==
    [match |-> match, kind |-> IF sup = None THEN "CURRENT" ELSE "CORRECTION",
     source_type |-> "OFFICIAL_FEED", timestamp |-> timestamp, observed |-> 3,
     ingested |-> 4, markets |-> [m \in Markets |-> market], snapshot_id |-> supplied,
     supersedes |-> sup, hashes_agree |-> TRUE, note |-> note]

First == Feed("m1", Offer("p"), None, None, 2, "first")
Again == [First EXCEPT !.note = "second"]
Correction == Feed("m1", Offer("q"), None, SnapshotId(First), None, "first")
Foreign == [Correction EXCEPT !.match = "m2"]
Supplied == Feed("m2", Offer("p"), "s", None, 2, "first")
Withdrawn == [Supplied EXCEPT !.markets = [m \in Markets |-> Gone], !.note = "second"]
BadHash == [First EXCEPT !.markets = [m \in Markets |-> Gone], !.hashes_agree = FALSE]
Refused == [First EXCEPT !.source_type = "MEDIA_FEED"]
MCOddsInputs == {First, Again, Correction, Foreign, Supplied, Withdrawn, BadHash, Refused}

Shot(market, state, sup, note) ==
    [match |-> "m1", state |-> state, contradiction |-> "NONE",
     markets |-> [m \in Markets |-> market], timestamp |-> 3, published |-> 2,
     observed |-> 3, ingested |-> 4, supersedes |-> sup, hashes_agree |-> TRUE,
     note |-> note]

Clear == Shot(Read("p"), "VERIFIED", None, "first")
Blurred == Shot(Unread, "NOT_VERIFIED", None, "first")
Better == Shot(Read("q"), "REJECTED", EvidenceId(Blurred), "first")
MCScreenshotInputs == {Clear, Blurred, Better}

MCLedgerRequests ==
    {[basis |-> "SOURCE_TIMESTAMP", cutoff |-> 3, kickoff |-> 6],
     [basis |-> "OBSERVED_AT", cutoff |-> 1, kickoff |-> 2]}

\* Bounds: what may have been retained when something more is done.
OddsBounds ==
    /\ Cardinality(odds_observations) <= 2
    /\ Cardinality(evidence) <= 2
    /\ Cardinality(gates) <= 2

----------------------------------------------------------------------------
(* Evidence, assessments and resolutions.                                 *)

Item(id, claim, content, sup, revision) ==
    [id |-> id, claim |-> claim, match |-> "m1", key |-> None, content |-> content,
     relation |-> "SUPPORTS", contradiction |-> "NONE", verification |-> "VERIFIED",
     published |-> 1, valid_from |-> 1, retrieved |-> 2, expires |-> 4,
     supersedes |-> sup, revision |-> revision, note |-> "first"]

Fit == Item("e1", "fitness", "fit", None, 1)
Injured == [Item("e2", "fitness", "injured", None, 1) EXCEPT !.relation = "CONTRADICTS"]
FitAgain == Item("e3", "fitness", "fit", "e1", 2)
Lone == [Item("e4", "weather", "rain", None, 1) EXCEPT !.contradiction = "CONFLICTED"]
Dry == Item("e4", "weather", "dry", None, 1)
Closed == [Dry EXCEPT !.contradiction = "RESOLVED"]
OtherClaim == Item("e5", "weather", "rain", "e1", 2)
Untimed == [Item("e5", "weather", "rain", None, 1) EXCEPT !.valid_from = None]
Backwards == [Fit EXCEPT !.published = 3]
OtherKey == [Fit EXCEPT !.key = "m2"]

MCEvidenceInputs == {Fit, Injured, FitAgain, Lone, Dry, Closed, OtherClaim, Untimed, Backwards, OtherKey}

Judged(id, item, band, sup, revision) ==
    [id |-> id, evidence |-> item, band |-> band, supersedes |-> sup,
     revision |-> revision]

MCAssessments ==
    {Judged("a1", "e1", "HIGH", None, 1), Judged("a2", "e1", "UNKNOWN", "a1", 2),
     Judged("a1", "e1", "LOW", "a1", 2), Judged("a3", "e2", "MEDIUM", None, 1),
     Judged("a4", "e4", "LOW", None, 1)}

Settled(id, claim, held, selected) ==
    [id |-> id, claim |-> claim, evidence |-> held, basis |-> held,
     selected |-> selected]

MCResolutions ==
    {Settled("r1", "fitness", {"e1", "e2"}, "e1"), Settled("r1", "fitness", {"e1", "e2"}, "e2"),
     Settled("r2", "fitness", {"e1", "e2", "e3"}, None),
     Settled("r3", "fitness", {"e1", "e3"}, "e3"), Settled("r4", "weather", {"e4"}, "e4"),
     Settled("r5", "weather", {"e4", "e5"}, None)}

MCQuestions ==
    {[as_of |-> n, cutoff |-> c, kickoff |-> 3] : n \in {0, 3, 5}, c \in {None, 1, 2, 3}}

----------------------------------------------------------------------------
(* Team labels and context.                                               *)

MCFixture == [m \in Matches |-> [HOME |-> "lions", AWAY |-> "bears", kickoff |-> 6]]

At(observed, expires) ==
    [source |-> 1, observed |-> observed, effective |-> 1, expires |-> expires]

Label(side, alias, team, observed) ==
    [store |-> "link", match |-> "m1", side |-> side, alias |-> alias, team |-> team,
     reference |-> "ref", at |-> {At(observed, None)}, ingested |-> observed,
     cutoff |-> 5]

Told(store, facts, at, cutoff) ==
    [store |-> store, match |-> "m1", side |-> "HOME", team |-> "lions",
     facts |-> facts, at |-> at, ingested |-> 3, cutoff |-> cutoff]

Fact(state, content, basis) ==
    [state |-> state, content |-> content, basis |-> basis, reason |-> state # "AVAILABLE"]

Absences(state, content) ==
    [n \in {"injuries", "suspensions", "availability"} |-> Fact(state, content, 1)]

Eleven(state, players) ==
    [n \in {"lineup_status", "starting_xi", "coach", "tactical_style", "motivation"} |->
        CASE n = "lineup_status" -> Fact(state, state, 1)
          [] n = "starting_xi" -> Fact(state, players, 1)
          [] OTHER -> Fact("FUTURE_DATA", None, 0)]

Conditions(state, content) ==
    [n \in {"schedule_pressure", "fatigue", "travel", "weather", "pitch"} |->
        Fact(state, content, 1)]

MCLinks ==
    {Label("HOME", "lions", None, 2), Label("HOME", "the pride", "lions", 4),
     Label("HOME", "bears", None, 2), Label("AWAY", "bears", None, 2)}

MCAvailability ==
    {Told("availability", Absences("NONE_CONFIRMED", 0), {At(2, None)}, 3),
     [Told("availability", Absences("AVAILABLE", 1), {At(6, None)}, 6)
        EXCEPT !.ingested = 6],
     Told("availability", Absences("FUTURE_DATA", None), {At(2, None)}, 3),
     Told("availability", Absences("AVAILABLE", 0), {At(2, None)}, 3)}

MCLineups ==
    {Told("lineup", Eleven("CONFIRMED", 11), {At(2, None)}, 3),
     Told("lineup", Eleven("PROJECTED", 11), {At(1, None)}, 3),
     [Told("lineup", Eleven("UNKNOWN", None), {At(2, None)}, 5) EXCEPT !.team = "bears"]}

MCOperational ==
    {Told("operational", Conditions("AVAILABLE", 1), {At(2, 2), At(3, 5)}, 3),
     Told("operational", Conditions("CONFLICTED", 1), {At(2, 2)}, 3)}

MCContextInputs == MCLinks \cup MCAvailability \cup MCLineups \cup MCOperational

----------------------------------------------------------------------------
(* External market quotes.                                                *)

Known(n) == [state |-> "KNOWN", at |-> n]

Quote(line, prices, supersedes, source, note) ==
    [match |-> "m1", provider |-> "book", market |-> "ASIAN_HANDICAP", line |-> line,
     prices |-> prices, status |-> IF prices = None THEN "UNKNOWN" ELSE "AVAILABLE",
     reason |-> prices = None, sides |-> 0,
     kind |-> IF supersedes = None THEN "CURRENT" ELSE "CORRECTION",
     supersedes |-> supersedes, snapshot_id |-> None, hashes_agree |-> TRUE,
     source |-> source, captured |-> 3, observed |-> 3, ingested |-> 4, note |-> note]

OpeningQuote == Quote("-0.5", "p", None, Known(1), "first")
LaterQuote == Quote("-0.5", "q", None, Known(2), "first")
Redelivered == [OpeningQuote EXCEPT !.ingested = 5]
Unpriced == [OpeningQuote EXCEPT !.prices = None]
OtherLine == Quote("-1.0", "q", MarketSnapshotId(OpeningQuote), Known(2), "first")
Corrected == Quote("-0.5", "q", MarketSnapshotId(OpeningQuote), Known(1), "second")
NoTime == Quote("-0.5", "p", None, [state |-> "CONFLICTED", at |-> 0], "first")
OtherMarket == [LaterQuote EXCEPT !.market = "OVER_UNDER"]
Wide == [match |-> "m1", provider |-> "book", market |-> "EUROPEAN_1X2",
         line |-> "NOT_APPLICABLE", prices |-> "p", status |-> "CONFLICT", reason |-> TRUE,
         sides |-> 1, kind |-> "CURRENT", supersedes |-> None, snapshot_id |-> None,
         hashes_agree |-> TRUE, source |-> Known(1), captured |-> 3, observed |-> 3,
         ingested |-> 4, note |-> "first"]
ElsewhereQuote == [LaterQuote EXCEPT !.match = "m2", !.snapshot_id = "s"]
SameIdQuote == [OpeningQuote EXCEPT !.match = "m2", !.snapshot_id = "s"]

MCMarketInputs ==
    {OpeningQuote, LaterQuote, Redelivered, Unpriced, OtherLine, Corrected, NoTime,
     OtherMarket, Wide, ElsewhereQuote, SameIdQuote}

----------------------------------------------------------------------------
VARIABLE focus

stores_vars == <<odds_vars, evidence_vars, context_vars, market_vars, focus>>

StoresInit ==
    /\ OddsInit /\ EvidenceInit /\ ContextInit /\ MarketInit
    /\ focus \in {"odds", "evidence", "context", "market"}

StoresNext ==
    \/ focus = "odds" /\ OddsNext
       /\ UNCHANGED <<evidence_store, context_store, market_store, focus>>
    \/ focus = "evidence" /\ EvidenceNext
       /\ UNCHANGED <<odds_store, context_store, market_store, focus>>
    \/ focus = "context" /\ ContextNext
       /\ UNCHANGED <<odds_store, evidence_store, market_store, focus>>
    \/ focus = "market" /\ MarketNext
       /\ UNCHANGED <<odds_store, evidence_store, context_store, focus>>

StoresSpec == StoresInit /\ [][StoresNext]_stores_vars

----------------------------------------------------------------------------
(* Properties of a store that are about the same records.                  *)

\* Corrections stay on their market line, and accepted sets are usable.
MarketLinesAreSound == CorrectionsStayOnTheLine /\ AcceptedSetsAreUsable

\* The ledger, the graph and the context stores are logs of revisions.
StoresAreLogs == ImplementsLedgerLog /\ ImplementsGraphLog /\ ImplementsContextLogs
=============================================================================
