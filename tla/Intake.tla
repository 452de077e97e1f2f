------------------------------- MODULE Intake -------------------------------
(***************************************************************************)
(* CanonicalIntakeOrchestrator: takes a packet through the identity store, *)
(* the fact store and the time gate, in this order, and keeps one delivery *)
(* per idempotency key.  A stage that blocks ends the delivery; what the   *)
(* stages before it appended stays.  The stores are the caller's too: they *)
(* also take observations that come in no packet.                          *)
(***************************************************************************)
EXTENDS TimeLineage

CONSTANTS
    Packets,            \* packets that callers may send
    IdempotencyKeys,
    Observed,           \* schedule observations that come in no packet
    Reported,           \* fact observations that come in no packet
    Requested           \* time requests that come in no packet

ASSUME IntakeAssumption ==
    /\ \A p \in Packets :
          /\ DOMAIN p = {"key", "identity", "fact", "time"}
          /\ p.key \in IdempotencyKeys
          /\ p.identity \in MatchObservations \cup {Invalid}
          /\ p.fact \in FactObservations \cup {Invalid}
          /\ p.time \in TimeRequests \cup {Invalid}
    /\ None \notin Packets /\ Invalid \notin Packets
    /\ Observed \subseteq MatchObservations \cup {Invalid}
    /\ Reported \subseteq FactObservations \cup {Invalid}
    /\ Requested \subseteq TimeRequests \cup {Invalid}

VARIABLES
    deliveries,         \* [idempotency key -> its delivery record]
    delivery_events     \* the keys the append-only event list names

vars == <<identity_vars, fact_vars, time_vars, deliveries, delivery_events>>

\* The request hash names the packet.  stage: the one that decided.
DeliveryRecords ==
    [packet : Packets, stage : {"identity", "fact", "time"}, accepted : BOOLEAN,
     decision : {Decide(r, f) : r \in TimeRequests, f \in FactObservations} \cup {None}]

TypeOK ==
    /\ IdentityTypeOK /\ FactTypeOK /\ TimeTypeOK
    /\ deliveries \in [IdempotencyKeys -> DeliveryRecords \cup {None}]
    /\ delivery_events \subseteq IdempotencyKeys \cup {Invalid}

Init ==
    /\ IdentityInit /\ FactInit /\ TimeInit
    /\ deliveries = [k \in IdempotencyKeys |-> None]
    /\ delivery_events = {}

----------------------------------------------------------------------------
(* ingest of a packet.                                                     *)

DeliveryEvent(key) == delivery_events' = delivery_events \cup {key}

\* BLOCKED_PACKET
PacketInvalid ==
    /\ DeliveryEvent(Invalid)
    /\ UNCHANGED <<identity_vars, fact_vars, time_vars, deliveries>>

Repeated(p) == deliveries[p.key] # None

\* DUPLICATE_NOOP, and BLOCKED_IDEMPOTENCY_REUSE when the packet is another.
PacketRepeated(p) ==
    /\ Repeated(p)
    /\ DeliveryEvent(p.key)
    /\ UNCHANGED <<identity_vars, fact_vars, time_vars, deliveries>>

\* _record_delivery
Record(p, stage, accepted, decision) ==
    /\ deliveries' = [deliveries EXCEPT ![p.key] =
          [packet |-> p, stage |-> stage, accepted |-> accepted, decision |-> decision]]
    /\ DeliveryEvent(p.key)

IdentityBlocks(p) ==
    /\ ~Repeated(p) /\ ~IdentityAccepts(p.identity)
    /\ IdentityIngest(p.identity)
    /\ Record(p, "identity", FALSE, None)
    /\ UNCHANGED <<fact_vars, time_vars>>

\* The TypeError of the identity store passes through: no delivery is kept.
IdentityStageRaises(p) ==
    /\ ~Repeated(p)
    /\ IdentityRaises(p.identity)
    /\ UNCHANGED <<fact_vars, time_vars, deliveries, delivery_events>>

FactPasses(f, ids) == FactAccepts(f, ids) /\ FactEnvelopeReturned(f, ids)

FactBlocks(p) ==
    /\ ~Repeated(p) /\ IdentityAccepts(p.identity)
    /\ IdentityIngest(p.identity)
    /\ ~FactPasses(p.fact, envelopes')
    /\ FactIngest(p.fact, envelopes')
    /\ Record(p, "fact", FALSE, None)
    /\ UNCHANGED time_vars

\* Mutant: whatever the gate decided is accepted.
TimeAccepts_AnyDecision(decision) == decision # None

TimeAccepts(decision) == decision # None /\ Allows(decision)

TimeJudges(p) ==
    /\ ~Repeated(p) /\ IdentityAccepts(p.identity)
    /\ IdentityIngest(p.identity)
    /\ FactPasses(p.fact, envelopes')
    /\ FactIngest(p.fact, envelopes')
    /\ TimeEvaluate(p.time, p.fact, fact_envelopes')
    /\ LET decision == DecisionFor(p.time, p.fact, fact_envelopes')
       IN  Record(p, "time", TimeAccepts(decision), decision)

Ingest(p) ==
    \/ PacketRepeated(p) \/ IdentityBlocks(p) \/ IdentityStageRaises(p)
    \/ FactBlocks(p) \/ TimeJudges(p)

----------------------------------------------------------------------------
(* The stores called by themselves.                                        *)

ObserveMatch(o) ==
    /\ IdentityIngest(o) \/ IdentityRaises(o)
    /\ UNCHANGED <<fact_vars, time_vars, deliveries, delivery_events>>

ReportFact(f) ==
    /\ FactIngest(f, envelopes)
    /\ UNCHANGED <<identity_vars, time_vars, deliveries, delivery_events>>

RequestTime(r, f) ==
    /\ TimeEvaluate(r, f, fact_envelopes)
    /\ UNCHANGED <<identity_vars, fact_vars, deliveries, delivery_events>>

Next ==
    \/ PacketInvalid
    \/ \E p \in Packets : Ingest(p)
    \/ \E o \in Observed : ObserveMatch(o)
    \/ \E f \in Reported : ReportFact(f)
    \/ \E r \in Requested, f \in FactObservations \cup {None} : RequestTime(r, f)

Spec == Init /\ [][Next]_vars

----------------------------------------------------------------------------
(* Safety.                                                                 *)

\* An accepted delivery is fit for a pre-match path: all three stores hold the
\* evidence it stands on, and the time gate let that very fact through.
AcceptedIsPrematch ==
    \A k \in IdempotencyKeys :
        deliveries[k] # None /\ deliveries[k].accepted =>
            LET p == deliveries[k].packet
                d == deliveries[k].decision
            IN  /\ p.identity \in observations /\ Delivered(p.identity)
                /\ fact_envelopes[p.fact] # None
                /\ envelopes[p.fact.subject] # None
                /\ d \in decisions /\ d.fact = p.fact
                /\ d.availability <= d.times.cutoff /\ d.times.cutoff < d.times.kickoff

\* No downstream stage runs when an upstream stage fails, and what was appended
\* upstream is retained: a delivery cites exactly the evidence of its stages.
DeliveriesCiteEvidence ==
    \A k \in IdempotencyKeys : deliveries[k] # None =>
        LET p == deliveries[k].packet
            d == deliveries[k]
        IN  /\ p.key = k
            /\ p.identity \in identity_events
            /\ d.stage # "identity" => Delivered(p.identity) /\ p.fact \in fact_events
            /\ d.stage = "time" => fact_envelopes[p.fact] # None /\ p.fact \in time_events
            /\ d.decision # None => d.stage = "time" /\ d.decision \in decisions

\* A step never takes back what a store has answered with: matches, aliases,
\* envelopes, decisions and deliveries are final once made.
Final(f, g) == \A x \in DOMAIN f : f[x] # None => g[x] = f[x]

StoresAreAppendOnly ==
    [][ /\ Final(envelopes, envelopes') /\ Final(delivery_keys, delivery_keys')
        /\ Final(match_id_by_structural_key, match_id_by_structural_key')
        /\ Final(fact_envelopes, fact_envelopes') /\ Final(deliveries, deliveries')
        /\ decisions \subseteq decisions' /\ observations \subseteq observations'
        /\ fact_observations \subseteq fact_observations' ]_vars
=============================================================================
