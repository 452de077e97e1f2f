--------------------------- MODULE MatchIdentity ---------------------------
(***************************************************************************)
(* CanonicalMatchIdentityStore: resolves the schedule observations of      *)
(* several sources to one canonical match each.                            *)
(*                                                                         *)
(* A match id is the UUIDv5 of a business key (data date and official      *)
(* match number), so a match is named by its business key here.            *)
(***************************************************************************)
EXTENDS Naturals, FiniteSets

CONSTANTS
    MatchObservations,  \* schedule observations that sources may send
    BusinessKeys,       \* data_date:official_match_no
    Pairings,           \* competition with its ordered home and away team
    Zones,              \* normalized IANA zones
    Sources,            \* source, source type, reference and displayed names
    Times,              \* instants, compared in UTC
    None, Invalid       \* Invalid: an input from_dict refuses

\* note: the observation times, local reference and metadata, which are in the
\* observation id but not in the payload hash.
ASSUME IdentityAssumption ==
    /\ \A o \in MatchObservations :
          /\ DOMAIN o = {"source", "key", "pairing", "kickoff", "zone", "note"}
          /\ o.source \in Sources /\ o.key \in BusinessKeys \cup {None}
          /\ o.pairing \in Pairings /\ o.kickoff \in Times /\ o.zone \in Zones
    /\ None \notin BusinessKeys /\ None \notin MatchObservations
    /\ Invalid \notin MatchObservations
    /\ Times \subseteq Nat

VARIABLES
    envelopes,          \* [match -> the observation its root was built from]
    match_id_by_structural_key,
    observations,       \* retained schedule observations
    delivery_keys,      \* [delivery key -> the match it was resolved to]
    identity_events     \* the observations the append-only event list names

identity_vars == <<envelopes, match_id_by_structural_key, observations,
                   delivery_keys, identity_events>>

StructuralKeys == Pairings \X Times
StructuralKey(o) == <<o.pairing, o.kickoff>>

\* The source, its reference and the payload hash.
DeliveryKey(o) == <<o.source, o.key, o.pairing, o.kickoff, o.zone>>
DeliveryKeys == {DeliveryKey(o) : o \in MatchObservations}

IdentityTypeOK ==
    /\ envelopes \in [BusinessKeys -> MatchObservations \cup {None}]
    /\ match_id_by_structural_key \in [StructuralKeys -> BusinessKeys \cup {None}]
    /\ observations \subseteq MatchObservations
    /\ delivery_keys \in [DeliveryKeys -> BusinessKeys \cup {None}]
    /\ identity_events \subseteq MatchObservations \cup {Invalid}

IdentityInit ==
    /\ envelopes = [k \in BusinessKeys |-> None]
    /\ match_id_by_structural_key = [s \in StructuralKeys |-> None]
    /\ observations = {}
    /\ delivery_keys = [d \in DeliveryKeys |-> None]
    /\ identity_events = {}

IdentityEvent(o) == identity_events' = identity_events \cup {o}

----------------------------------------------------------------------------
(* ingest: what the store makes of an observation.                         *)

Delivered(o) == delivery_keys[DeliveryKey(o)] # None

\* The match an observation is compared with: the one of its business key, or
\* else the one with its structural key.
Candidate(o) ==
    IF o.key # None /\ envelopes[o.key] # None THEN o.key
    ELSE match_id_by_structural_key[StructuralKey(o)]

\* Mutant: the kickoff is compared, the teams are not.
Conflicts_KickoffOnly(existing, o) ==
    existing.kickoff # o.kickoff \/ existing.zone # o.zone

\* _compare
Conflicts(existing, o) ==
    StructuralKey(existing) # StructuralKey(o) \/ existing.zone # o.zone

IdentityAccepts(o) ==
    /\ o # Invalid
    /\ \/ Delivered(o)
       \/ IF Candidate(o) = None THEN o.key # None
          ELSE ~Conflicts(envelopes[Candidate(o)], o)

IdentityInvalid(o) ==
    /\ o = Invalid
    /\ IdentityEvent(o)
    /\ UNCHANGED <<envelopes, match_id_by_structural_key, observations,
                   delivery_keys>>

IdentityDuplicate(o) ==
    /\ o # Invalid /\ Delivered(o)
    /\ observations' = observations \cup {o}
    /\ IdentityEvent(o)
    /\ UNCHANGED <<envelopes, match_id_by_structural_key, delivery_keys>>

IdentityConflict(o) ==
    /\ o # Invalid /\ ~Delivered(o)
    /\ Candidate(o) # None
    /\ Conflicts(envelopes[Candidate(o)], o)
    /\ observations' = observations \cup {o}
    /\ IdentityEvent(o)
    /\ UNCHANGED <<envelopes, match_id_by_structural_key, delivery_keys>>

\* SOURCE_ALIAS and CROSS_SOURCE_ALIAS
IdentityAlias(o) ==
    /\ o # Invalid /\ ~Delivered(o)
    /\ Candidate(o) # None
    /\ ~Conflicts(envelopes[Candidate(o)], o)
    /\ observations' = observations \cup {o}
    /\ delivery_keys' = [delivery_keys EXCEPT ![DeliveryKey(o)] = Candidate(o)]
    /\ IdentityEvent(o)
    /\ UNCHANGED <<envelopes, match_id_by_structural_key>>

\* Mutant: the structural index is not updated.
IdentityRoot_Unindexed(o) ==
    /\ o # Invalid /\ ~Delivered(o)
    /\ Candidate(o) = None /\ o.key # None
    /\ observations' = observations \cup {o}
    /\ envelopes' = [envelopes EXCEPT ![o.key] = o]
    /\ delivery_keys' = [delivery_keys EXCEPT ![DeliveryKey(o)] = o.key]
    /\ IdentityEvent(o)
    /\ UNCHANGED match_id_by_structural_key

IdentityRoot(o) ==
    /\ o # Invalid /\ ~Delivered(o)
    /\ Candidate(o) = None /\ o.key # None
    /\ observations' = observations \cup {o}
    /\ envelopes' = [envelopes EXCEPT ![o.key] = o]
    /\ match_id_by_structural_key' =
          [match_id_by_structural_key EXCEPT ![StructuralKey(o)] = o.key]
    /\ delivery_keys' = [delivery_keys EXCEPT ![DeliveryKey(o)] = o.key]
    /\ IdentityEvent(o)

\* No official number and no match to be an alias of.  The branch calls
\* _conflict without its last argument: a TypeError leaves ingest after the
\* observation has been retained and before the event is appended.
IdentityRaises(o) ==
    /\ o # Invalid /\ ~Delivered(o)
    /\ Candidate(o) = None /\ o.key = None
    /\ observations' = observations \cup {o}
    /\ UNCHANGED <<envelopes, match_id_by_structural_key, delivery_keys,
                   identity_events>>

IdentityIngest(o) ==
    \/ IdentityInvalid(o) \/ IdentityDuplicate(o) \/ IdentityConflict(o)
    \/ IdentityAlias(o) \/ IdentityRoot(o)

----------------------------------------------------------------------------
(* Safety.                                                                 *)

\* A fixture has one canonical match: the structural index is the inverse of
\* the envelopes, so no two business keys root the same fixture.
OneMatchPerFixture ==
    \A s \in StructuralKeys, k \in BusinessKeys :
        match_id_by_structural_key[s] = k <=>
            envelopes[k] # None /\ StructuralKey(envelopes[k]) = s

\* No source is ever merged into a match it contradicts: whatever was resolved
\* to a match has its fixture and its zone.
AliasesAgree ==
    \A o \in observations :
        Delivered(o) =>
            /\ envelopes[delivery_keys[DeliveryKey(o)]] # None
            /\ StructuralKey(envelopes[delivery_keys[DeliveryKey(o)]]) = StructuralKey(o)
            /\ envelopes[delivery_keys[DeliveryKey(o)]].zone = o.zone

\* Every retained observation has its event: the audit trail of the store says
\* what became of each source row it keeps.
ObservationsAreAudited ==
    \A o \in observations : o \in identity_events
============================================================================
