------------------------------ MODULE MCIntake ------------------------------
(* Instances of Intake for TLC: the schedule rows, facts and time requests   *)
(* whose combinations decide differently.                                    *)
EXTENDS Intake

MCTimes == 0..5

Row(source, key, pairing, kickoff, note) ==
    [source |-> source, key |-> key, pairing |-> pairing, kickoff |-> kickoff,
     zone |-> "Asia/Shanghai", note |-> note]

Official == Row("official", "001", "home-away", 4, "first")
Redelivered == Row("official", "001", "home-away", 4, "second")
Importer == Row("importer", "002", "home-away", 4, "first")
Unnumbered == Row("importer", None, "home-away", 4, "first")
Reversed == Row("importer", "001", "away-home", 4, "first")
Postponed == Row("official", "001", "home-away", 5, "first")
Other == Row("official", "002", "third-fourth", 5, "first")
OtherZone == [Importer EXCEPT !.zone = "Europe/London"]

MCMatchObservations ==
    {Official, Redelivered, Importer, Unnumbered, Reversed, Postponed, Other, OtherZone}

Fact(subject, key, source, status, observed) ==
    [subject |-> subject, key |-> key, type |-> "odds", source |-> source,
     status |-> status, published |-> 1, observed |-> observed, ingested |-> 3]

Opening == Fact("001", "001", "feed", "AVAILABLE", 1)
Corrected == Fact("001", "001", "feed2", "AVAILABLE", 2)
Stale == Fact("001", "001", "feed", "STALE", 3)
Mislabelled == Fact("001", "002", "feed", "AVAILABLE", 1)
OfOther == Fact("002", "002", "feed", "AVAILABLE", 2)
Leaked == [Fact("002", "002", "feed", "FUTURE_DATA", 2) EXCEPT !.published = None]

MCFactObservations == {Opening, Corrected, Stale, Mislabelled, OfOther, Leaked}

Request(cutoff, kickoff, basis) ==
    [cutoff |-> cutoff, kickoff |-> kickoff, basis |-> basis, timestamp |-> None,
     published |-> Default, observed |-> Default, ingested |-> Default,
     match |-> None, source |-> None]

InTime == Request(2, 4, "OBSERVED_AT")
TooLate == Request(1, 4, "OBSERVED_AT")
NoTime == Request(2, 4, "SOURCE_TIMESTAMP")
Contradicts == [InTime EXCEPT !.match = "002"]
AtKickoff == Request(4, 4, "OBSERVED_AT")

MCTimeRequests == {InTime, TooLate, NoTime, Contradicts, AtKickoff}

\* The orders the times of a request can have, equal times included.
GateRequests ==
    [cutoff : {2, 3, 4}, kickoff : {4}, basis : Bases, timestamp : {None, 3},
     published : {None, Default}, observed : {Default, 4},
     ingested : {Default, 4}, match : {None}, source : {None}]

Packet(key, identity, fact, time) ==
    [key |-> key, identity |-> identity, fact |-> fact, time |-> time]

\* The third packet's fact is about a match its identity row does not name.
MCPackets ==
    {Packet("a", Official, Opening, InTime),
     Packet("a", Official, Corrected, InTime),
     Packet("b", Unnumbered, OfOther, AtKickoff),
     Packet("c", Other, OfOther, Contradicts),
     Packet("d", Other, OfOther, InTime),
     Packet("e", Invalid, Opening, InTime),
     Packet("f", Redelivered, Corrected, TooLate),
     Packet("f", Official, Invalid, InTime),
     Packet("g", Other, OfOther, Invalid)}

GateRequested == GateRequests \cup {Invalid}
AllRequests == MCTimeRequests \cup GateRequests

StoresObserved == {Official, Importer, Unnumbered, Reversed, Other, OtherZone}
StoresReported == {Opening, Corrected, Stale, Mislabelled, OfOther}

\* A behaviour is one of three: the stores called by themselves, the time gate
\* over a few facts, and packets with schedule imports between them.
VARIABLE focus

StoresStep ==
    \/ \E o \in StoresObserved : ObserveMatch(o)
    \/ \E f \in StoresReported : ReportFact(f)

GateStep ==
    \/ ObserveMatch(Official)
    \/ \E f \in {Corrected, Stale} : ReportFact(f)
    \/ \E r \in GateRequested, f \in {Corrected, Stale, None} : RequestTime(r, f)

PacketsStep ==
    \/ PacketInvalid
    \/ \E p \in MCPackets : Ingest(p)
    \/ \E o \in {Reversed, Importer} : ObserveMatch(o)

MCInit == Init /\ focus \in {"stores", "gate", "packets"}
MCNext ==
    /\ UNCHANGED focus
    /\ \/ focus = "stores" /\ StoresStep
       \/ focus = "gate" /\ GateStep
       \/ focus = "packets" /\ PacketsStep
MCSpec == MCInit /\ [][MCNext]_<<vars, focus>>

\* Bound: decisions do not depend on one another, so one at a time is enough.
OneDecision == focus = "gate" => Cardinality(decisions) <= 1
=============================================================================
