---------------------------- MODULE IntakeProofs ----------------------------
(***************************************************************************)
(* Theorems about Intake, for all observations, facts, requests, packets.  *)
(*                                                                         *)
(* The orchestrator moves the stores only through their own operations     *)
(* (StoresMoveByTheirSteps), so what is proved of a store's steps holds    *)
(* whoever calls it.                                                       *)
(***************************************************************************)
EXTENDS Intake, TLAPS

USE IdentityAssumption, FactAssumption, TimeAssumption, IntakeAssumption, RevisionAssumption

IdentitySteps ==
    \/ \E o \in MatchObservations \cup {Invalid} : IdentityIngest(o) \/ IdentityRaises(o)
    \/ UNCHANGED identity_vars

FactSteps ==
    \/ \E f \in FactObservations \cup {Invalid} :
          FactIngest(f, envelopes) \/ FactIngest(f, envelopes')
    \/ UNCHANGED fact_vars

TimeSteps ==
    \/ \E r \in TimeRequests \cup {Invalid}, f \in FactObservations \cup {None} :
          TimeEvaluate(r, f, fact_envelopes) \/ TimeEvaluate(r, f, fact_envelopes')
    \/ UNCHANGED time_vars

\* A packet that reaches the time gate names a fact of the store.
LEMMA PassingFacts ==
    ASSUME NEW p \in Packets, NEW ids, FactPasses(p.fact, ids)
    PROVE  p.fact \in FactObservations
BY DEF FactPasses, FactAccepts

\* Every step of the system is, for each store, one of its operations or none.
LEMMA StoresMoveByTheirSteps ==
    ASSUME [Next]_vars
    PROVE  IdentitySteps /\ FactSteps /\ TimeSteps
<1>1. CASE UNCHANGED vars
  BY <1>1 DEF vars, IdentitySteps, FactSteps, TimeSteps
<1>2. CASE PacketInvalid
  BY <1>2 DEF PacketInvalid, IdentitySteps, FactSteps, TimeSteps
<1>3. ASSUME NEW p \in Packets, Ingest(p)
      PROVE  IdentitySteps /\ FactSteps /\ TimeSteps
  <2>0. /\ p.identity \in MatchObservations \cup {Invalid}
        /\ p.fact \in FactObservations \cup {Invalid}
        /\ p.time \in TimeRequests \cup {Invalid}
    OBVIOUS
  <2>1. CASE PacketRepeated(p)
    BY <2>1 DEF PacketRepeated, IdentitySteps, FactSteps, TimeSteps
  <2>2. CASE IdentityBlocks(p) \/ IdentityStageRaises(p)
    BY <2>2, <2>0 DEF IdentityBlocks, IdentityStageRaises, IdentitySteps, FactSteps, TimeSteps
  <2>3. CASE FactBlocks(p)
    BY <2>3, <2>0 DEF FactBlocks, IdentitySteps, FactSteps, TimeSteps
  <2>4. CASE TimeJudges(p)
    <3>1. p.fact \in FactObservations
      BY <2>4, PassingFacts DEF TimeJudges
    <3> QED  BY <2>4, <2>0, <3>1 DEF TimeJudges, IdentitySteps, FactSteps, TimeSteps
  <2> QED  BY <1>3, <2>1, <2>2, <2>3, <2>4 DEF Ingest
<1>4. ASSUME NEW o \in Observed, ObserveMatch(o)
      PROVE  IdentitySteps /\ FactSteps /\ TimeSteps
  BY <1>4 DEF ObserveMatch, IdentitySteps, FactSteps, TimeSteps
<1>5. ASSUME NEW f \in Reported, ReportFact(f)
      PROVE  IdentitySteps /\ FactSteps /\ TimeSteps
  BY <1>5 DEF ReportFact, IdentitySteps, FactSteps, TimeSteps
<1>6. ASSUME NEW r \in Requested, NEW f \in FactObservations \cup {None}, RequestTime(r, f)
      PROVE  IdentitySteps /\ FactSteps /\ TimeSteps
  BY <1>6 DEF RequestTime, IdentitySteps, FactSteps, TimeSteps
<1> QED
  BY <1>1, <1>2, <1>3, <1>4, <1>5, <1>6 DEF Next

----------------------------------------------------------------------------
(* The identity store.                                                     *)

\* What was delivered agrees with its match, retained or not.
DeliveredAgree ==
    \A o \in MatchObservations :
        Delivered(o) =>
            /\ envelopes[delivery_keys[DeliveryKey(o)]] # None
            /\ StructuralKey(envelopes[delivery_keys[DeliveryKey(o)]]) = StructuralKey(o)
            /\ envelopes[delivery_keys[DeliveryKey(o)]].zone = o.zone

IdentityInv == IdentityTypeOK /\ OneMatchPerFixture /\ DeliveredAgree

\* The match an observation is compared with exists.
LEMMA Candidates ==
    ASSUME IdentityInv, NEW o \in MatchObservations
    PROVE  /\ DeliveryKey(o) \in DeliveryKeys /\ StructuralKey(o) \in StructuralKeys
           /\ Candidate(o) # None =>
                Candidate(o) \in BusinessKeys /\ envelopes[Candidate(o)] \in MatchObservations
<1>1. DeliveryKey(o) \in DeliveryKeys /\ StructuralKey(o) \in StructuralKeys
  BY DEF DeliveryKeys, StructuralKey, StructuralKeys
<1>2. match_id_by_structural_key[StructuralKey(o)] \in BusinessKeys \cup {None}
  BY <1>1 DEF IdentityInv, IdentityTypeOK
<1>3. ASSUME NEW k \in BusinessKeys, match_id_by_structural_key[StructuralKey(o)] = k
      PROVE  envelopes[k] \in MatchObservations
  BY <1>1, <1>3 DEF IdentityInv, IdentityTypeOK, OneMatchPerFixture
<1>4. \A k \in BusinessKeys : envelopes[k] # None => envelopes[k] \in MatchObservations
  BY DEF IdentityInv, IdentityTypeOK
<1> QED  BY <1>1, <1>2, <1>3, <1>4 DEF Candidate

\* An operation of the identity store keeps its invariant and only grows it.
LEMMA IdentityPreserved ==
    ASSUME IdentityInv, IdentitySteps
    PROVE  /\ IdentityInv'
           /\ Final(envelopes, envelopes') /\ Final(delivery_keys, delivery_keys')
           /\ Final(match_id_by_structural_key, match_id_by_structural_key')
           /\ observations \subseteq observations'
           /\ identity_events \subseteq identity_events'
<1> DEFINE Good == /\ IdentityInv'
                   /\ Final(envelopes, envelopes') /\ Final(delivery_keys, delivery_keys')
                   /\ Final(match_id_by_structural_key, match_id_by_structural_key')
                   /\ observations \subseteq observations'
                   /\ identity_events \subseteq identity_events'
<1>1. CASE UNCHANGED identity_vars
  BY <1>1 DEF identity_vars, IdentityInv, IdentityTypeOK, OneMatchPerFixture, DeliveredAgree,
     Delivered, Final
<1>2. ASSUME NEW o \in MatchObservations \cup {Invalid},
             \/ IdentityInvalid(o) \/ IdentityDuplicate(o) \/ IdentityConflict(o)
             \/ IdentityRaises(o)
      PROVE  Good
  BY <1>2 DEF IdentityInvalid, IdentityDuplicate, IdentityConflict, IdentityRaises, IdentityEvent,
     IdentityInv, IdentityTypeOK, OneMatchPerFixture, DeliveredAgree, Delivered, Final
<1>3. ASSUME NEW o \in MatchObservations \cup {Invalid}, IdentityAlias(o)
      PROVE  Good
  <2>0. o \in MatchObservations
    BY <1>3 DEF IdentityAlias
  <2> DEFINE c == Candidate(o)
  <2>1. /\ c \in BusinessKeys /\ envelopes[c] \in MatchObservations
        /\ DeliveryKey(o) \in DeliveryKeys
    BY <1>3, <2>0, Candidates DEF IdentityAlias
  <2>2. StructuralKey(envelopes[c]) = StructuralKey(o) /\ envelopes[c].zone = o.zone
    BY <1>3 DEF IdentityAlias, Conflicts
  <2>3. /\ delivery_keys' = [delivery_keys EXCEPT ![DeliveryKey(o)] = c]
        /\ delivery_keys[DeliveryKey(o)] = None
        /\ observations' = observations \cup {o}
        /\ identity_events' = identity_events \cup {o}
        /\ UNCHANGED <<envelopes, match_id_by_structural_key>>
    BY <1>3 DEF IdentityAlias, IdentityEvent, Delivered
  <2> HIDE DEF c
  <2>4. IdentityTypeOK' /\ OneMatchPerFixture'
    BY <2>0, <2>1, <2>3 DEF IdentityInv, IdentityTypeOK, OneMatchPerFixture
  <2>5. ASSUME NEW q \in MatchObservations, Delivered(q)'
        PROVE  /\ envelopes[delivery_keys'[DeliveryKey(q)]] # None
               /\ StructuralKey(envelopes[delivery_keys'[DeliveryKey(q)]]) = StructuralKey(q)
               /\ envelopes[delivery_keys'[DeliveryKey(q)]].zone = q.zone
    <3>1. DeliveryKey(q) \in DeliveryKeys
      BY DEF DeliveryKeys
    <3>2. CASE DeliveryKey(q) = DeliveryKey(o)
      <4>1. StructuralKey(q) = StructuralKey(o) /\ q.zone = o.zone
        BY <3>2 DEF DeliveryKey, StructuralKey
      <4>2. delivery_keys'[DeliveryKey(q)] = c
        BY <2>1, <2>3, <3>2 DEF IdentityInv, IdentityTypeOK
      <4> QED  BY <4>1, <4>2, <2>1, <2>2
    <3>3. CASE DeliveryKey(q) # DeliveryKey(o)
      <4>1. delivery_keys'[DeliveryKey(q)] = delivery_keys[DeliveryKey(q)]
        BY <2>3, <3>1, <3>3 DEF IdentityInv, IdentityTypeOK
      <4>2. Delivered(q)
        BY <2>5, <4>1 DEF Delivered
      <4> QED  BY <4>1, <4>2 DEF IdentityInv, DeliveredAgree
    <3> QED  BY <3>2, <3>3
  <2>6. DeliveredAgree'
    BY <2>3, <2>5 DEF DeliveredAgree, StructuralKey, DeliveryKey
  <2>7. Final(delivery_keys, delivery_keys')
    BY <2>1, <2>3 DEF Final, IdentityInv, IdentityTypeOK
  <2> QED  BY <2>3, <2>4, <2>6, <2>7 DEF Final, IdentityInv
<1>4. ASSUME NEW o \in MatchObservations \cup {Invalid}, IdentityRoot(o)
      PROVE  Good
  <2>0. o \in MatchObservations /\ o.key \in BusinessKeys
    BY <1>4 DEF IdentityRoot
  <2>1. /\ DeliveryKey(o) \in DeliveryKeys /\ StructuralKey(o) \in StructuralKeys
        /\ envelopes[o.key] = None
        /\ match_id_by_structural_key[StructuralKey(o)] = None
    BY <1>4, <2>0, Candidates DEF IdentityRoot, Candidate
  <2>3. /\ delivery_keys' = [delivery_keys EXCEPT ![DeliveryKey(o)] = o.key]
        /\ delivery_keys[DeliveryKey(o)] = None
        /\ observations' = observations \cup {o}
        /\ identity_events' = identity_events \cup {o}
        /\ envelopes' = [envelopes EXCEPT ![o.key] = o]
        /\ match_id_by_structural_key' =
              [match_id_by_structural_key EXCEPT ![StructuralKey(o)] = o.key]
    BY <1>4 DEF IdentityRoot, IdentityEvent, Delivered
  <2>4. IdentityTypeOK'
    BY <2>0, <2>1, <2>3 DEF IdentityInv, IdentityTypeOK
  <2>5. /\ Final(envelopes, envelopes') /\ Final(delivery_keys, delivery_keys')
        /\ Final(match_id_by_structural_key, match_id_by_structural_key')
    BY <2>0, <2>1, <2>3 DEF Final, IdentityInv, IdentityTypeOK
  <2>6. ASSUME NEW s \in StructuralKeys, NEW k \in BusinessKeys
        PROVE  match_id_by_structural_key'[s] = k <=>
                   envelopes'[k] # None /\ StructuralKey(envelopes'[k]) = s
    <3>1. CASE k = o.key
      <4>1. envelopes'[k] = o
        BY <2>0, <2>3, <3>1 DEF IdentityInv, IdentityTypeOK
      <4>2. match_id_by_structural_key[s] # k
        BY <2>1, <3>1 DEF IdentityInv, OneMatchPerFixture
      <4>3. match_id_by_structural_key'[s] = k <=> s = StructuralKey(o)
        BY <2>1, <2>3, <3>1, <4>2 DEF IdentityInv, IdentityTypeOK
      <4> QED  BY <2>0, <4>1, <4>3
    <3>2. CASE k # o.key
      <4>1. envelopes'[k] = envelopes[k]
        BY <2>0, <2>3, <3>2 DEF IdentityInv, IdentityTypeOK
      <4>2. match_id_by_structural_key'[s] = k <=> match_id_by_structural_key[s] = k
        BY <2>1, <2>3, <3>2 DEF IdentityInv, IdentityTypeOK
      <4> QED  BY <4>1, <4>2 DEF IdentityInv, OneMatchPerFixture
    <3> QED  BY <3>1, <3>2
  <2>7. OneMatchPerFixture'
    BY <2>6 DEF OneMatchPerFixture, StructuralKey
  <2>8. ASSUME NEW q \in MatchObservations, Delivered(q)'
        PROVE  /\ envelopes'[delivery_keys'[DeliveryKey(q)]] # None
               /\ StructuralKey(envelopes'[delivery_keys'[DeliveryKey(q)]]) = StructuralKey(q)
               /\ envelopes'[delivery_keys'[DeliveryKey(q)]].zone = q.zone
    <3>1. DeliveryKey(q) \in DeliveryKeys
      BY DEF DeliveryKeys
    <3>2. CASE DeliveryKey(q) = DeliveryKey(o)
      <4>1. StructuralKey(q) = StructuralKey(o) /\ q.zone = o.zone
        BY <3>2 DEF DeliveryKey, StructuralKey
      <4>2. delivery_keys'[DeliveryKey(q)] = o.key /\ envelopes'[o.key] = o
        BY <2>0, <2>1, <2>3, <3>2 DEF IdentityInv, IdentityTypeOK
      <4> QED  BY <4>1, <4>2, <2>0
    <3>3. CASE DeliveryKey(q) # DeliveryKey(o)
      <4>1. delivery_keys'[DeliveryKey(q)] = delivery_keys[DeliveryKey(q)]
        BY <2>3, <3>1, <3>3 DEF IdentityInv, IdentityTypeOK
      <4>2. Delivered(q)
        BY <2>8, <4>1 DEF Delivered
      <4>3. delivery_keys[DeliveryKey(q)] \in BusinessKeys
        BY <3>1, <4>2 DEF Delivered, IdentityInv, IdentityTypeOK
      <4>4. envelopes[delivery_keys[DeliveryKey(q)]] # None
        BY <4>2 DEF IdentityInv, DeliveredAgree
      <4>5. envelopes'[delivery_keys[DeliveryKey(q)]] = envelopes[delivery_keys[DeliveryKey(q)]]
        BY <2>5, <4>3, <4>4 DEF Final, IdentityInv, IdentityTypeOK
      <4> QED  BY <4>1, <4>2, <4>5 DEF IdentityInv, DeliveredAgree
    <3> QED  BY <3>2, <3>3
  <2>9. DeliveredAgree'
    BY <2>8 DEF DeliveredAgree, StructuralKey, DeliveryKey
  <2> QED  BY <2>3, <2>4, <2>5, <2>7, <2>9 DEF IdentityInv
<1> QED  BY <1>1, <1>2, <1>3, <1>4 DEF IdentitySteps, IdentityIngest

\* The empty identity store satisfies its invariant.
LEMMA IdentityStarts == Init => IdentityInv
BY DEF Init, IdentityInit, IdentityInv, IdentityTypeOK, OneMatchPerFixture, DeliveredAgree,
   Delivered, StructuralKeys, DeliveryKeys

\* No two business keys root the same fixture.
THEOREM OneMatch == Spec => []OneMatchPerFixture
<1>1. IdentityInv /\ [Next]_vars => IdentityInv'
  BY StoresMoveByTheirSteps, IdentityPreserved
<1>2. IdentityInv => OneMatchPerFixture
  BY DEF IdentityInv
<1> QED  BY IdentityStarts, <1>1, <1>2, PTL DEF Spec

\* No schedule row is merged into a match it contradicts.
THEOREM Agreement == Spec => []AliasesAgree
<1>1. IdentityInv /\ [Next]_vars => IdentityInv'
  BY StoresMoveByTheirSteps, IdentityPreserved
<1>2. IdentityInv => AliasesAgree
  BY DEF IdentityInv, IdentityTypeOK, DeliveredAgree, AliasesAgree
<1> QED  BY IdentityStarts, <1>1, <1>2, PTL DEF Spec

----------------------------------------------------------------------------
(* The fact store.                                                         *)

\* What an envelope stands on: its subject, and the predecessor it names.
FactInv ==
    /\ FactTypeOK
    /\ NoOrphanFacts
    /\ \A k \in FactKeys : latest_by_key[k] # None =>
          fact_envelopes[latest_by_key[k]] # None /\ FactKey(latest_by_key[k]) = k

\* An operation of the fact store keeps its invariant, the matches only growing.
LEMMA FactPreserved ==
    ASSUME IdentityInv, IdentityInv', FactInv, FactSteps, Final(envelopes, envelopes')
    PROVE  /\ FactInv'
           /\ Final(fact_envelopes, fact_envelopes')
           /\ fact_observations \subseteq fact_observations'
           /\ fact_events \subseteq fact_events'
<1> DEFINE Good == /\ FactInv'
                   /\ Final(fact_envelopes, fact_envelopes')
                   /\ fact_observations \subseteq fact_observations'
                   /\ fact_events \subseteq fact_events'
<1>0. \A k \in BusinessKeys : envelopes[k] # None => envelopes'[k] # None
  BY DEF Final, IdentityInv, IdentityTypeOK
<1>1. ASSUME fact_observations \subseteq fact_observations',
             fact_observations' \subseteq FactObservations,
             fact_events \subseteq fact_events',
             fact_events' \subseteq FactObservations \cup {Invalid},
             UNCHANGED <<fact_envelopes, latest_by_key>>
      PROVE  Good
  BY <1>0, <1>1 DEF FactInv, FactTypeOK, NoOrphanFacts, Final, FactKey
<1>2. CASE UNCHANGED fact_vars
  BY <1>1, <1>2 DEF fact_vars, FactInv, FactTypeOK
<1>3. ASSUME NEW f \in FactObservations \cup {Invalid}, NEW ids,
             FactInvalid(f) \/ FactDuplicate(f) \/ FactSubjectBlocked(f, ids)
      PROVE  Good
  BY <1>1, <1>3 DEF FactInvalid, FactDuplicate, FactSubjectBlocked, FactEvent, FactInv, FactTypeOK
<1>4. ASSUME NEW f \in FactObservations \cup {Invalid}, NEW ids,
             ids \in {envelopes, envelopes'}, FactAppended(f, ids)
      PROVE  Good
  <2>1. /\ f \in FactObservations \ fact_observations
        /\ envelopes'[f.subject] # None /\ f.key = f.subject
        /\ fact_observations' = fact_observations \cup {f}
        /\ fact_envelopes' = [fact_envelopes EXCEPT ![f] = EnvelopeOf(f)]
        /\ latest_by_key' = [latest_by_key EXCEPT ![FactKey(f)] = f]
        /\ fact_events' = fact_events \cup {f}
    BY <1>0, <1>4 DEF FactAppended, SubjectResolves, FactEvent
  <2>2. fact_envelopes[f] = None
    BY <2>1 DEF FactInv, NoOrphanFacts
  <2>3. FactKey(f) \in FactKeys
    BY <2>1 DEF FactKey, FactKeys
  <2>4. Predecessor(f) \in FactObservations \cup {None}
    BY <2>3 DEF FactInv, FactTypeOK, Predecessor
  <2>5. Predecessor(f) # None => fact_envelopes[Predecessor(f)] \in Revisions
    BY <2>3, <2>4 DEF FactInv, FactTypeOK, Predecessor
  <2>6. EnvelopeOf(f) \in Revisions /\ EnvelopeOf(f) # None
    BY <2>4, <2>5, RevisionAssumption DEF EnvelopeOf, Revisions
  <2> QED
    BY <1>0, <2>1, <2>2, <2>3, <2>6 DEF FactInv, FactTypeOK, NoOrphanFacts, Final, FactKey
<1> QED  BY <1>2, <1>3, <1>4 DEF FactSteps, FactIngest

----------------------------------------------------------------------------
(* The time gate.                                                          *)

\* The availability and the times the gate judges by are times.
LEMMA TimesAreTimes ==
    ASSUME NEW r \in TimeRequests, NEW f \in FactObservations
    PROVE  LET t == TimesOf(r, f) IN
           /\ t.cutoff \in Nat /\ t.kickoff \in Nat /\ t.basis \in Bases
           /\ t.observed \in Times /\ t.ingested \in Times
           /\ t.timestamp \in Times \cup {None} /\ t.published \in Times \cup {None}
BY DEF TimesOf, Otherwise

\* What a decision says, for every request and fact.
LEMMA DecisionsAreSound ==
    ASSUME NEW r \in TimeRequests, NEW f \in FactObservations
    PROVE  LET d == Decide(r, f) IN
           /\ d.fact = f
           /\ Allows(d) =>
                /\ f.status = "AVAILABLE" /\ d.availability \in Times
                /\ d.availability <= d.times.cutoff /\ d.times.cutoff < d.times.kickoff
                /\ d.availability <= d.times.ingested
           /\ f.status = "AVAILABLE" /\ d.availability # None =>
                (Leaks(d) <=> d.availability > d.times.cutoff)
<1> DEFINE t == TimesOf(r, f)
           a == SelectedTime(t)
           reason == Reason(t, f.status)
<1>1. /\ t.cutoff \in Nat /\ t.kickoff \in Nat /\ t.basis \in Bases
      /\ t.observed \in Nat /\ t.ingested \in Nat /\ t.observed \in Times
      /\ t.timestamp \in Times \cup {None} /\ t.published \in Times \cup {None}
  BY TimesAreTimes
<1>2. a \in Times \cup {None} /\ Times \subseteq Nat /\ None \notin Times
  BY <1>1 DEF SelectedTime, Bases
<1>3. /\ Decide(r, f).fact = f /\ Decide(r, f).times = t
      /\ Decide(r, f).status = StatusOf(reason)
      /\ Decide(r, f).availability = IF reason \in NoAvailability THEN None ELSE a
  BY DEF Decide
<1> HIDE DEF t
<1>4. ASSUME reason \notin NoAvailability
      PROVE  /\ t.cutoff < t.kickoff /\ t.observed <= t.ingested
             /\ a \in Times /\ a <= t.observed
             /\ reason = IF f.status = "FUTURE_DATA" THEN "FACT_MARKED_FUTURE_DATA"
                         ELSE IF f.status # "AVAILABLE" THEN "FACT_STATUS_NOT_FORMALLY_ELIGIBLE"
                         ELSE IF a >= t.kickoff THEN "AVAILABLE_AT_OR_AFTER_KICKOFF"
                         ELSE IF a > t.cutoff THEN "AFTER_DECLARED_CUTOFF"
                         ELSE "PREMATCH_CUTOFF_PASSED"
  <2>1. /\ ~(t.cutoff >= t.kickoff) /\ ~(t.ingested < t.observed)
        /\ ~Precedes(t.observed, t.published) /\ ~Precedes(t.observed, t.timestamp)
        /\ a # None
    BY <1>4 DEF Reason, NoAvailability
  <2>2. a <= t.observed
    BY <1>1, <1>2, <2>1 DEF SelectedTime, Precedes, Bases
  <2> QED  BY <1>1, <1>2, <2>1, <2>2 DEF Reason, Late
<1>5. ASSUME StatusOf(reason) = "PREMATCH_ALLOWED"
      PROVE  reason = "PREMATCH_CUTOFF_PASSED"
  BY <1>5 DEF StatusOf
<1> HIDE DEF a, reason
<1>6. Allows(Decide(r, f)) =>
        /\ f.status = "AVAILABLE" /\ a \in Times /\ reason \notin NoAvailability
        /\ a <= t.cutoff /\ t.cutoff < t.kickoff /\ a <= t.ingested
  <2> SUFFICES ASSUME reason = "PREMATCH_CUTOFF_PASSED"
               PROVE  /\ f.status = "AVAILABLE" /\ a \in Times
                      /\ reason \notin NoAvailability
                      /\ a <= t.cutoff /\ t.cutoff < t.kickoff /\ a <= t.ingested
    BY <1>3, <1>5 DEF Allows
  <2>1. reason \notin NoAvailability
    BY DEF NoAvailability
  <2> QED  BY <1>1, <1>2, <1>4, <2>1
<1>7. ASSUME f.status = "AVAILABLE", reason \notin NoAvailability
      PROVE  Leaks(Decide(r, f)) <=> a > t.cutoff
  <2>1. reason = IF a >= t.kickoff THEN "AVAILABLE_AT_OR_AFTER_KICKOFF"
                 ELSE IF a > t.cutoff THEN "AFTER_DECLARED_CUTOFF"
                 ELSE "PREMATCH_CUTOFF_PASSED"
    BY <1>4, <1>7
  <2>2. StatusOf(reason) \in {"POSTMATCH_ONLY", "FUTURE_INFORMATION_LEAKAGE"}
            <=> a >= t.kickoff \/ a > t.cutoff
    BY <2>1 DEF StatusOf
  <2> QED  BY <1>1, <1>2, <1>3, <1>4, <1>7, <2>2 DEF Leaks
<1> QED  BY <1>3, <1>6, <1>7

TimeInv == TimeTypeOK /\ PrematchIsKnownAtCutoff /\ LeakageIsExact

\* A judgement of the gate keeps what its decisions say.
LEMMA TimePreserved ==
    ASSUME FactInv, FactInv', TimeInv, TimeSteps, Final(fact_envelopes, fact_envelopes')
    PROVE  TimeInv' /\ decisions \subseteq decisions' /\ time_events \subseteq time_events'
<1>0. \A f \in FactObservations : fact_envelopes[f] # None => fact_envelopes'[f] # None
  BY DEF Final, FactInv, FactTypeOK
<1>1. ASSUME NEW d \in decisions
      PROVE  d.fact \in FactObservations
  BY DecisionsAreSound DEF TimeInv, TimeTypeOK
<1>2. ASSUME decisions' = decisions, time_events \subseteq time_events',
             time_events' \subseteq FactObservations \cup {None}
      PROVE  TimeInv' /\ decisions \subseteq decisions'
  BY <1>0, <1>1, <1>2 DEF TimeInv, TimeTypeOK, PrematchIsKnownAtCutoff, LeakageIsExact, Allows, Leaks
<1>3. CASE UNCHANGED time_vars
  BY <1>2, <1>3 DEF time_vars, TimeInv, TimeTypeOK
<1>4. ASSUME NEW r \in TimeRequests \cup {Invalid}, NEW f \in FactObservations \cup {None},
             NEW envs, TimeRefused(r, f, envs)
      PROVE  TimeInv' /\ decisions \subseteq decisions' /\ time_events \subseteq time_events'
  BY <1>2, <1>4 DEF TimeRefused, TimeInv, TimeTypeOK
<1>5. ASSUME NEW r \in TimeRequests \cup {Invalid}, NEW f \in FactObservations \cup {None},
             NEW envs, envs \in {fact_envelopes, fact_envelopes'}, TimeDecided(r, f, envs)
      PROVE  TimeInv' /\ decisions \subseteq decisions' /\ time_events \subseteq time_events'
  <2>1. /\ f \in FactObservations /\ r \in TimeRequests /\ envs[f] # None
        /\ decisions' = decisions \cup {Decide(r, f)}
        /\ time_events' = time_events \cup {f}
    BY <1>5 DEF TimeDecided, DecisionFor
  <2>2. fact_envelopes'[f] # None
    BY <1>0, <1>5, <2>1
  <2>3. TimeTypeOK'
    BY <2>1 DEF TimeInv, TimeTypeOK
  <2>4. ASSUME NEW d \in decisions', d \in decisions \/ d = Decide(r, f)
        PROVE  /\ Allows(d) =>
                    /\ fact_envelopes'[d.fact] # None /\ d.fact.status = "AVAILABLE"
                    /\ d.availability \in Times
                    /\ d.availability <= d.times.cutoff /\ d.times.cutoff < d.times.kickoff
                    /\ d.availability <= d.times.ingested
               /\ d.fact.status = "AVAILABLE" /\ d.availability # None =>
                    (Leaks(d) <=> d.availability > d.times.cutoff)
    <3>1. CASE d \in decisions
      BY <1>0, <1>1, <3>1 DEF TimeInv, PrematchIsKnownAtCutoff, LeakageIsExact
    <3>2. CASE d = Decide(r, f)
      BY <2>1, <2>2, <3>2, DecisionsAreSound
    <3> QED  BY <2>4, <3>1, <3>2
  <2>5. PrematchIsKnownAtCutoff' /\ LeakageIsExact'
    BY <2>1, <2>4 DEF PrematchIsKnownAtCutoff, LeakageIsExact, Allows, Leaks
  <2> QED  BY <2>1, <2>3, <2>5 DEF TimeInv
<1> QED  BY <1>2, <1>3, <1>4, <1>5 DEF TimeSteps, TimeEvaluate, time_vars

----------------------------------------------------------------------------
(* The deliveries.                                                         *)

StoresInv == IdentityInv /\ FactInv /\ TimeInv

StoresGrow ==
    /\ Final(envelopes, envelopes') /\ Final(delivery_keys, delivery_keys')
    /\ Final(match_id_by_structural_key, match_id_by_structural_key')
    /\ Final(fact_envelopes, fact_envelopes')
    /\ decisions \subseteq decisions' /\ observations \subseteq observations'
    /\ fact_observations \subseteq fact_observations'
    /\ identity_events \subseteq identity_events' /\ fact_events \subseteq fact_events'
    /\ time_events \subseteq time_events'

\* One step of the system keeps the invariants of the three stores.
LEMMA StoresPreserved ==
    ASSUME StoresInv, [Next]_vars
    PROVE  StoresInv' /\ StoresGrow
<1>1. IdentitySteps /\ FactSteps /\ TimeSteps
  BY StoresMoveByTheirSteps
<1>2. /\ IdentityInv'
      /\ Final(envelopes, envelopes') /\ Final(delivery_keys, delivery_keys')
      /\ Final(match_id_by_structural_key, match_id_by_structural_key')
      /\ observations \subseteq observations' /\ identity_events \subseteq identity_events'
  BY <1>1, IdentityPreserved DEF StoresInv
<1>3. /\ FactInv' /\ Final(fact_envelopes, fact_envelopes')
      /\ fact_observations \subseteq fact_observations' /\ fact_events \subseteq fact_events'
  BY <1>1, <1>2, FactPreserved DEF StoresInv
<1>4. TimeInv' /\ decisions \subseteq decisions' /\ time_events \subseteq time_events'
  BY <1>1, <1>3, TimePreserved DEF StoresInv
<1> QED  BY <1>2, <1>3, <1>4 DEF StoresInv, StoresGrow

DeliveriesOK ==
    /\ deliveries \in [IdempotencyKeys -> DeliveryRecords \cup {None}]
    /\ delivery_events \subseteq IdempotencyKeys \cup {Invalid}

\* The evidence of one delivery; it stays when the stores grow.
Evidence(k) ==
    LET d == deliveries[k]
        p == d.packet
    IN  /\ p.key = k /\ p.identity \in identity_events
        /\ d.stage # "identity" =>
              p.identity \in observations /\ Delivered(p.identity) /\ p.fact \in fact_events
        /\ d.stage = "time" =>
              /\ p.fact \in FactObservations /\ fact_envelopes[p.fact] # None
              /\ p.fact \in time_events
        /\ d.decision # None =>
              d.stage = "time" /\ d.decision \in decisions /\ d.decision.fact = p.fact
        /\ d.accepted => d.decision # None /\ Allows(d.decision)

DeliveryInv ==
    DeliveriesOK /\ \A k \in IdempotencyKeys : deliveries[k] # None => Evidence(k)

IInv == StoresInv /\ DeliveryInv

\* An observation the identity store accepts is retained and audited.
LEMMA IdentityAnswers ==
    ASSUME IdentityInv, IdentityInv', NEW o \in MatchObservations \cup {Invalid}, IdentityIngest(o)
    PROVE  /\ o \in identity_events'
           /\ IdentityAccepts(o) => o \in observations' /\ Delivered(o)'
<1>1. o \in identity_events'
  BY DEF IdentityIngest, IdentityInvalid, IdentityDuplicate, IdentityConflict, IdentityAlias,
     IdentityRoot, IdentityEvent
<1>2. ASSUME IdentityAccepts(o)
      PROVE  o \in observations' /\ Delivered(o)'
  <2>0. o \in MatchObservations /\ DeliveryKey(o) \in DeliveryKeys
    BY <1>2 DEF IdentityAccepts, DeliveryKeys
  <2>1. CASE IdentityDuplicate(o)
    BY <2>1 DEF IdentityDuplicate, Delivered, DeliveryKey
  <2>2. CASE IdentityAlias(o)
    <3>1. delivery_keys'[DeliveryKey(o)] = Candidate(o)
      BY <2>0, <2>2 DEF IdentityAlias, IdentityInv, IdentityTypeOK
    <3> QED  BY <2>2, <3>1 DEF IdentityAlias, Delivered, DeliveryKey
  <2>3. CASE IdentityRoot(o)
    <3>1. delivery_keys'[DeliveryKey(o)] = o.key
      BY <2>0, <2>3 DEF IdentityRoot, IdentityInv, IdentityTypeOK
    <3> QED  BY <2>3, <3>1 DEF IdentityRoot, Delivered, DeliveryKey
  <2> QED
    BY <1>2, <2>1, <2>2, <2>3 DEF IdentityIngest, IdentityInvalid, IdentityConflict, IdentityAccepts
<1> QED  BY <1>1, <1>2

\* A fact that passes has its envelope and its event.
LEMMA FactAnswers ==
    ASSUME FactInv, NEW f \in FactObservations \cup {Invalid}, NEW ids, FactIngest(f, ids)
    PROVE  /\ f \in fact_events'
           /\ FactPasses(f, ids) => f \in FactObservations /\ fact_envelopes'[f] # None
<1>1. f \in fact_events'
  BY DEF FactIngest, FactInvalid, FactDuplicate, FactSubjectBlocked, FactAppended, FactEvent
<1>2. ASSUME FactPasses(f, ids)
      PROVE  f \in FactObservations /\ fact_envelopes'[f] # None
  <2>1. f \in FactObservations
    BY <1>2 DEF FactPasses, FactAccepts
  <2>2. CASE f \in fact_observations
    BY <1>2, <2>1, <2>2 DEF FactPasses, FactEnvelopeReturned, FactIngest, FactInvalid, FactDuplicate,
       FactSubjectBlocked, FactAppended
  <2>3. CASE f \notin fact_observations
    <3>1. FactAppended(f, ids)
      BY <1>2, <2>1, <2>3 DEF FactPasses, FactEnvelopeReturned, FactIngest, FactInvalid,
         FactDuplicate, FactSubjectBlocked
    <3>2. fact_envelopes'[f] = EnvelopeOf(f)
      BY <2>1, <3>1 DEF FactAppended, FactInv, FactTypeOK
    <3>3. FactKey(f) \in FactKeys
      BY <2>1 DEF FactKey, FactKeys
    <3>4. EnvelopeOf(f) \in Revisions
      BY <3>3 DEF EnvelopeOf, Revisions, Predecessor, FactInv, FactTypeOK
    <3> QED  BY <2>1, <3>2, <3>4, RevisionAssumption
  <2> QED  BY <2>1, <2>2, <2>3
<1> QED  BY <1>1, <1>2

\* The evidence of a delivery that a step does not make stays.
LEMMA EvidenceStays ==
    ASSUME IInv, StoresInv', StoresGrow, NEW k \in IdempotencyKeys,
           deliveries[k] # None, deliveries'[k] = deliveries[k]
    PROVE  Evidence(k)'
<1>1. /\ Evidence(k) /\ deliveries[k] \in DeliveryRecords
  BY DEF IInv, DeliveryInv, DeliveriesOK
<1>2. ASSUME NEW o \in MatchObservations, Delivered(o)
      PROVE  Delivered(o)'
  <2>1. DeliveryKey(o) \in DeliveryKeys
    BY DEF DeliveryKeys
  <2> QED  BY <1>2, <2>1 DEF Delivered, DeliveryKey, StoresGrow, Final, IInv, StoresInv, IdentityInv,
              IdentityTypeOK
<1>3. \A f \in FactObservations : fact_envelopes[f] # None => fact_envelopes'[f] # None
  BY DEF StoresGrow, Final, IInv, StoresInv, FactInv, FactTypeOK
<1>4. observations \subseteq MatchObservations
  BY DEF IInv, StoresInv, IdentityInv, IdentityTypeOK
<1> QED  BY <1>1, <1>2, <1>3, <1>4 DEF Evidence, StoresGrow, Allows

\* A step keeps the evidence of every delivery, and the deliveries themselves.
LEMMA DeliveriesPreserved ==
    ASSUME IInv, StoresInv', StoresGrow, [Next]_vars
    PROVE  DeliveryInv' /\ Final(deliveries, deliveries')
<1>1. ASSUME UNCHANGED deliveries, delivery_events' \subseteq IdempotencyKeys \cup {Invalid}
      PROVE  DeliveryInv' /\ Final(deliveries, deliveries')
  <2>1. \A k \in IdempotencyKeys : deliveries'[k] # None => Evidence(k)'
    BY <1>1, EvidenceStays
  <2> QED  BY <1>1, <2>1 DEF IInv, DeliveryInv, DeliveriesOK, Final
<1>2. CASE UNCHANGED <<deliveries, delivery_events>>
  BY <1>1, <1>2 DEF IInv, DeliveryInv, DeliveriesOK
<1>3. CASE PacketInvalid
  BY <1>1, <1>3 DEF PacketInvalid, DeliveryEvent, IInv, DeliveryInv, DeliveriesOK
<1>4. ASSUME NEW p \in Packets, NEW d \in DeliveryRecords, ~Repeated(p),
             deliveries' = [deliveries EXCEPT ![p.key] = d],
             delivery_events' = delivery_events \cup {p.key},
             deliveries'[p.key] = d => Evidence(p.key)'
      PROVE  DeliveryInv' /\ Final(deliveries, deliveries')
  <2>1. p.key \in IdempotencyKeys
    OBVIOUS
  <2>2. deliveries'[p.key] = d
    BY <1>4, <2>1 DEF IInv, DeliveryInv, DeliveriesOK
  <2>3. DeliveriesOK'
    BY <1>4, <2>1 DEF IInv, DeliveryInv, DeliveriesOK
  <2>4. ASSUME NEW k \in IdempotencyKeys, k # p.key
        PROVE  deliveries'[k] = deliveries[k]
    BY <1>4, <2>4 DEF IInv, DeliveryInv, DeliveriesOK
  <2>5. \A k \in IdempotencyKeys : deliveries'[k] # None => Evidence(k)'
    BY <1>4, <2>2, <2>4, EvidenceStays
  <2>6. Final(deliveries, deliveries')
    BY <1>4, <2>1, <2>4 DEF Final, Repeated, IInv, DeliveryInv, DeliveriesOK
  <2> QED  BY <2>3, <2>5, <2>6 DEF DeliveryInv
<1>5. ASSUME NEW p \in Packets, Ingest(p)
      PROVE  DeliveryInv' /\ Final(deliveries, deliveries')
  <2>0. /\ p.identity \in MatchObservations \cup {Invalid}
        /\ p.fact \in FactObservations \cup {Invalid}
        /\ p.time \in TimeRequests \cup {Invalid} /\ p.key \in IdempotencyKeys
        /\ IdentityInv /\ IdentityInv' /\ FactInv
    BY DEF IInv, StoresInv
  <2>1. CASE PacketRepeated(p)
    BY <1>1, <2>0, <2>1 DEF PacketRepeated, DeliveryEvent, IInv, DeliveryInv, DeliveriesOK
  <2>2. CASE IdentityStageRaises(p)
    BY <1>2, <2>2 DEF IdentityStageRaises
  <2>3. CASE IdentityBlocks(p)
    <3>1. p.identity \in identity_events'
      BY <2>0, <2>3, IdentityAnswers DEF IdentityBlocks
    <3> DEFINE d == [packet |-> p, stage |-> "identity", accepted |-> FALSE, decision |-> None]
    <3>2. d \in DeliveryRecords
      BY DEF DeliveryRecords
    <3>3. /\ ~Repeated(p) /\ deliveries' = [deliveries EXCEPT ![p.key] = d]
          /\ delivery_events' = delivery_events \cup {p.key}
      BY <2>3 DEF IdentityBlocks, Record, DeliveryEvent
    <3>4. deliveries'[p.key] = d => Evidence(p.key)'
      BY <3>1 DEF Evidence
    <3> QED  BY <1>4, <3>2, <3>3, <3>4
  <2>4. CASE FactBlocks(p)
    <3>1. /\ p.identity \in identity_events' /\ p.identity \in observations'
          /\ Delivered(p.identity)'
      BY <2>0, <2>4, IdentityAnswers DEF FactBlocks
    <3>2. p.fact \in fact_events'
      BY <2>0, <2>4, FactAnswers DEF FactBlocks
    <3> DEFINE d == [packet |-> p, stage |-> "fact", accepted |-> FALSE, decision |-> None]
    <3>3. d \in DeliveryRecords
      BY DEF DeliveryRecords
    <3>4. /\ ~Repeated(p) /\ deliveries' = [deliveries EXCEPT ![p.key] = d]
          /\ delivery_events' = delivery_events \cup {p.key}
      BY <2>4 DEF FactBlocks, Record, DeliveryEvent
    <3>5. deliveries'[p.key] = d => Evidence(p.key)'
      BY <3>1, <3>2 DEF Evidence
    <3> QED  BY <1>4, <3>3, <3>4, <3>5
  <2>5. CASE TimeJudges(p)
    <3>1. /\ p.identity \in identity_events' /\ p.identity \in observations'
          /\ Delivered(p.identity)'
      BY <2>0, <2>5, IdentityAnswers DEF TimeJudges
    <3>2. p.fact \in fact_events' /\ p.fact \in FactObservations /\ fact_envelopes'[p.fact] # None
      BY <2>0, <2>5, FactAnswers DEF TimeJudges
    <3> DEFINE decision == DecisionFor(p.time, p.fact, fact_envelopes')
    <3>3. decision # None =>
            /\ p.time \in TimeRequests /\ decision = Decide(p.time, p.fact)
      BY <2>0 DEF DecisionFor
    <3>4. /\ decision \in {Decide(r, f) : r \in TimeRequests, f \in FactObservations} \cup {None}
          /\ decision # None => decision.fact = p.fact
      BY <3>2, <3>3, DecisionsAreSound
    <3>5. p.fact \in time_events' /\ (decision # None => decision \in decisions')
      BY <2>5 DEF TimeJudges, TimeEvaluate, TimeRefused, TimeDecided
    <3>6. Record(p, "time", TimeAccepts(decision), decision) /\ ~Repeated(p)
      BY <2>5 DEF TimeJudges
    <3>7. /\ TimeAccepts(decision) \in BOOLEAN
          /\ TimeAccepts(decision) => decision # None /\ Allows(decision)
      BY DEF TimeAccepts, Allows
    <3> HIDE DEF decision
    <3> DEFINE accepted == TimeAccepts(decision)
               d == [packet |-> p, stage |-> "time", accepted |-> accepted,
                     decision |-> decision]
    <3>8. d \in DeliveryRecords
      BY <3>4, <3>7 DEF DeliveryRecords
    <3>9. /\ ~Repeated(p) /\ deliveries' = [deliveries EXCEPT ![p.key] = d]
          /\ delivery_events' = delivery_events \cup {p.key}
      BY <3>6 DEF Record, DeliveryEvent
    <3>10. deliveries'[p.key] = d => Evidence(p.key)'
      BY <3>1, <3>2, <3>4, <3>5, <3>7 DEF Evidence, Allows
    <3> QED  BY <1>4, <3>8, <3>9, <3>10
  <2> QED  BY <1>5, <2>1, <2>2, <2>3, <2>4, <2>5 DEF Ingest
<1>6. ASSUME \/ UNCHANGED vars
             \/ \E o \in Observed : ObserveMatch(o)
             \/ \E f \in Reported : ReportFact(f)
             \/ \E r \in Requested, f \in FactObservations \cup {None} : RequestTime(r, f)
      PROVE  UNCHANGED <<deliveries, delivery_events>>
  BY <1>6 DEF vars, ObserveMatch, ReportFact, RequestTime
<1> QED  BY <1>2, <1>3, <1>5, <1>6 DEF Next

\* The empty stores satisfy the invariant.
LEMMA Starts == Init => IInv
<1> SUFFICES ASSUME Init PROVE IInv
  OBVIOUS
<1>1. IdentityInv
  BY IdentityStarts
<1>2. FactInv
  BY DEF Init, FactInit, FactInv, FactTypeOK, NoOrphanFacts, FactKeys
<1>3. TimeInv
  BY DEF Init, TimeInit, TimeInv, TimeTypeOK, PrematchIsKnownAtCutoff, LeakageIsExact
<1>4. DeliveryInv
  BY DEF Init, DeliveryInv, DeliveriesOK
<1> QED  BY <1>1, <1>2, <1>3, <1>4 DEF IInv, StoresInv

\* The invariant is inductive, and every step only adds.
LEMMA Inductive == IInv /\ [Next]_vars => IInv' /\ StoresGrow /\ Final(deliveries, deliveries')
BY StoresPreserved, DeliveriesPreserved DEF IInv

----------------------------------------------------------------------------
(* Theorems of the specification.                                          *)

\* The stores' invariants and the evidence of the deliveries always hold.
THEOREM Invariance == Spec => []IInv
BY Starts, Inductive, PTL DEF Spec

\* The types of all stores and of the deliveries.
THEOREM TypeCorrect == Spec => []TypeOK
<1>1. IInv => TypeOK
  BY DEF IInv, StoresInv, IdentityInv, FactInv, TimeInv, DeliveryInv, DeliveriesOK, TypeOK
<1> QED  BY <1>1, Invariance, PTL

\* No fact envelope without its match.
THEOREM NoOrphans == Spec => []NoOrphanFacts
<1>1. IInv => NoOrphanFacts
  BY DEF IInv, StoresInv, FactInv
<1> QED  BY <1>1, Invariance, PTL

\* Only what was known at the cutoff passes the gate.
THEOREM GateIsSound == Spec => []PrematchIsKnownAtCutoff
<1>1. IInv => PrematchIsKnownAtCutoff
  BY DEF IInv, StoresInv, TimeInv
<1> QED  BY <1>1, Invariance, PTL

\* Of the usable facts exactly those after the cutoff are called leakage.
THEOREM GateIsExact == Spec => []LeakageIsExact
<1>1. IInv => LeakageIsExact
  BY DEF IInv, StoresInv, TimeInv
<1> QED  BY <1>1, Invariance, PTL

\* An accepted delivery is fit for a pre-match path.
THEOREM AcceptedPackets == Spec => []AcceptedIsPrematch
<1>1. ASSUME IInv, NEW k \in IdempotencyKeys, deliveries[k] # None, deliveries[k].accepted
      PROVE  LET p == deliveries[k].packet
                 d == deliveries[k].decision
             IN  /\ p.identity \in observations /\ Delivered(p.identity)
                 /\ fact_envelopes[p.fact] # None
                 /\ envelopes[p.fact.subject] # None
                 /\ d \in decisions /\ d.fact = p.fact
                 /\ d.availability <= d.times.cutoff /\ d.times.cutoff < d.times.kickoff
  <2>1. Evidence(k)
    BY <1>1 DEF IInv, DeliveryInv
  <2>2. NoOrphanFacts /\ PrematchIsKnownAtCutoff
    BY <1>1 DEF IInv, StoresInv, FactInv, TimeInv
  <2> QED  BY <1>1, <2>1, <2>2 DEF Evidence, NoOrphanFacts, PrematchIsKnownAtCutoff
<1>2. IInv => AcceptedIsPrematch
  BY <1>1 DEF AcceptedIsPrematch
<1> QED  BY <1>2, Invariance, PTL

\* A delivery cites exactly the evidence of the stages it went through.
THEOREM CitedEvidence == Spec => []DeliveriesCiteEvidence
<1>1. IInv => DeliveriesCiteEvidence
  BY DEF IInv, DeliveryInv, Evidence, DeliveriesCiteEvidence
<1> QED  BY <1>1, Invariance, PTL

\* Nothing a store has answered with is ever taken back.
THEOREM AppendOnlyStores == Spec => StoresAreAppendOnly
<1> DEFINE Kept ==
       /\ Final(envelopes, envelopes') /\ Final(delivery_keys, delivery_keys')
       /\ Final(match_id_by_structural_key, match_id_by_structural_key')
       /\ Final(fact_envelopes, fact_envelopes') /\ Final(deliveries, deliveries')
       /\ decisions \subseteq decisions' /\ observations \subseteq observations'
       /\ fact_observations \subseteq fact_observations'
<1>1. IInv /\ [Next]_vars => Kept
  BY Inductive DEF StoresGrow
<1> HIDE DEF Kept
<1>2. Spec => [][Kept]_vars
  BY <1>1, Invariance, PTL DEF Spec
<1> QED  BY <1>2 DEF StoresAreAppendOnly, Kept

----------------------------------------------------------------------------
(* The fact store implements the linear revision log, whoever calls it and *)
(* whatever facts arrive in whatever order.                                *)

\* What the log of revisions needs beyond FactInv: the latest fact of a key has
\* its highest revision, and a fact supersedes one that has an envelope.
LinearInv ==
    \A f \in FactObservations : fact_envelopes[f] # None =>
        /\ latest_by_key[FactKey(f)] # None
        /\ fact_envelopes[f].rev <= fact_envelopes[latest_by_key[FactKey(f)]].rev
        /\ fact_envelopes[f].sup # None => fact_envelopes[fact_envelopes[f].sup] # None

Log == {FactRecord(f) : f \in {g \in FactObservations : fact_envelopes[g] # None}}

\* What an appended fact changes, and what the latest of its key is then.
LEMMA Appending ==
    ASSUME FactInv, LinearInv, NEW f, NEW ids, FactAppended(f, ids)
    PROVE  /\ f \in FactObservations /\ FactKey(f) \in FactKeys /\ fact_envelopes[f] = None
           /\ fact_envelopes' = [fact_envelopes EXCEPT ![f] = EnvelopeOf(f)]
           /\ latest_by_key' = [latest_by_key EXCEPT ![FactKey(f)] = f]
           /\ EnvelopeOf(f) \in Revisions /\ EnvelopeOf(f) # None
           /\ Predecessor(f) # None =>
                /\ Predecessor(f) \in FactObservations
                /\ fact_envelopes[Predecessor(f)] # None
                /\ fact_envelopes[Predecessor(f)].rev \in Nat \ {0}
                /\ FactKey(Predecessor(f)) = FactKey(f)
<1>1. /\ f \in FactObservations /\ f \notin fact_observations
      /\ fact_envelopes' = [fact_envelopes EXCEPT ![f] = EnvelopeOf(f)]
      /\ latest_by_key' = [latest_by_key EXCEPT ![FactKey(f)] = f]
  BY DEF FactAppended
<1>2. fact_envelopes[f] = None /\ FactKey(f) \in FactKeys
  BY <1>1 DEF FactInv, NoOrphanFacts, FactKey, FactKeys
<1>3. ASSUME Predecessor(f) # None
      PROVE  /\ Predecessor(f) \in FactObservations
             /\ fact_envelopes[Predecessor(f)] # None
             /\ fact_envelopes[Predecessor(f)] \in Revisions
             /\ FactKey(Predecessor(f)) = FactKey(f)
  BY <1>2, <1>3 DEF Predecessor, FactInv, FactTypeOK
<1>4. EnvelopeOf(f) \in Revisions
  BY <1>2, <1>3 DEF EnvelopeOf, Revisions, FactInv, FactTypeOK, Predecessor
<1> QED  BY <1>1, <1>2, <1>3, <1>4 DEF Revisions

\* The latest fact of each key keeps the highest revision.
LEMMA LinearPreserved ==
    ASSUME FactInv, LinearInv, FactSteps
    PROVE  LinearInv'
<1>1. CASE UNCHANGED <<fact_envelopes, latest_by_key>>
  BY <1>1 DEF LinearInv, FactKey
<1>2. ASSUME NEW f, NEW ids, FactAppended(f, ids)
      PROVE  LinearInv'
  <2>1. SUFFICES ASSUME NEW g \in FactObservations, fact_envelopes'[g] # None
                 PROVE  /\ latest_by_key'[FactKey(g)] # None
                        /\ fact_envelopes'[g].rev <= fact_envelopes'[latest_by_key'[FactKey(g)]].rev
                        /\ fact_envelopes'[g].sup # None =>
                              fact_envelopes'[fact_envelopes'[g].sup] # None
    BY DEF LinearInv, FactKey
  <2>2. /\ fact_envelopes'[f] = EnvelopeOf(f)
        /\ \A h \in FactObservations \ {f} : fact_envelopes'[h] = fact_envelopes[h]
        /\ latest_by_key'[FactKey(f)] = f
        /\ \A k \in FactKeys \ {FactKey(f)} : latest_by_key'[k] = latest_by_key[k]
    BY <1>2, Appending DEF FactInv, FactTypeOK
  <2>3. FactKey(g) \in FactKeys
    BY DEF FactKey, FactKeys
  <2>4. CASE g = f
    <3>1. EnvelopeOf(f).rev \in Nat
      BY <1>2, Appending DEF Revisions
    <3>2. EnvelopeOf(f).sup = Predecessor(f)
      BY DEF EnvelopeOf
    <3> QED  BY <1>2, <2>2, <2>4, <3>1, <3>2, Appending
  <2>5. CASE g # f
    <3>0. fact_envelopes'[g] = fact_envelopes[g] /\ fact_envelopes[g] # None
      BY <2>1, <2>2, <2>5
    <3>1. fact_envelopes[g] \in Revisions
      BY <3>0 DEF FactInv, FactTypeOK
    <3>2. fact_envelopes'[g].sup # None => fact_envelopes'[fact_envelopes'[g].sup] # None
      BY <1>2, <2>2, <3>0, <3>1, Appending DEF LinearInv, Revisions
    <3>3. CASE FactKey(g) = FactKey(f)
      <4>1. /\ Predecessor(f) # None
            /\ fact_envelopes[g].rev <= fact_envelopes[Predecessor(f)].rev
        BY <3>0, <3>3 DEF LinearInv, Predecessor
      <4>2. EnvelopeOf(f).rev = fact_envelopes[Predecessor(f)].rev + 1
        BY <4>1 DEF EnvelopeOf
      <4>3. fact_envelopes[g].rev \in Nat /\ fact_envelopes[Predecessor(f)].rev \in Nat
        BY <1>2, <3>1, <4>1, Appending DEF Revisions
      <4>4. f # None
        BY <1>2, Appending
      <4>5. fact_envelopes[g].rev <= EnvelopeOf(f).rev
        BY <4>1, <4>2, <4>3
      <4> QED  BY <2>2, <3>0, <3>2, <3>3, <4>4, <4>5
    <3>4. CASE FactKey(g) # FactKey(f)
      <4>1. /\ latest_by_key'[FactKey(g)] = latest_by_key[FactKey(g)]
            /\ latest_by_key[FactKey(g)] # None
            /\ fact_envelopes[g].rev <= fact_envelopes[latest_by_key[FactKey(g)]].rev
        BY <2>2, <2>3, <3>0, <3>4 DEF LinearInv
      <4>2. /\ latest_by_key[FactKey(g)] \in FactObservations
            /\ FactKey(latest_by_key[FactKey(g)]) = FactKey(g)
        BY <2>3, <4>1 DEF FactInv, FactTypeOK
      <4>3. fact_envelopes'[latest_by_key[FactKey(g)]] = fact_envelopes[latest_by_key[FactKey(g)]]
        BY <2>2, <3>4, <4>2
      <4> QED  BY <3>0, <3>2, <4>1, <4>3
    <3> QED  BY <3>3, <3>4
  <2> QED  BY <2>4, <2>5
<1>3. ASSUME NEW f, NEW ids, FactInvalid(f) \/ FactDuplicate(f) \/ FactSubjectBlocked(f, ids)
      PROVE  UNCHANGED <<fact_envelopes, latest_by_key>>
  BY <1>3 DEF FactInvalid, FactDuplicate, FactSubjectBlocked
<1> QED  BY <1>1, <1>2, <1>3 DEF FactSteps, FactIngest, fact_vars

\* A fact appended is a revision of its key above all others, which supersedes
\* the one below it; every other step leaves the log as it is.
LEMMA FactLogStep ==
    ASSUME FactInv, LinearInv, FactSteps
    PROVE  [FactLog!LinearNext]_Log
<1>1. CASE UNCHANGED <<fact_envelopes, latest_by_key>>
  BY <1>1 DEF Log, FactRecord, FactId
<1>2. ASSUME NEW f, NEW ids, FactAppended(f, ids)
      PROVE  FactLog!LinearNext
  <2>0. f \in FactObservations /\ FactKey(f) \in FactKeys /\ f # None
    BY <1>2, Appending
  <2>1. /\ fact_envelopes'[f] = EnvelopeOf(f) /\ fact_envelopes[f] = None
        /\ \A h \in FactObservations \ {f} : fact_envelopes'[h] = fact_envelopes[h]
    BY <1>2, Appending DEF FactInv, FactTypeOK
  <2>2. \A g \in FactObservations :
           fact_envelopes[g] # None =>
             /\ FactRecord(g)' = FactRecord(g)
             /\ fact_envelopes[g].sup \in FactObservations \cup {None}
    <3> SUFFICES ASSUME NEW g \in FactObservations, fact_envelopes[g] # None
                 PROVE  /\ FactRecord(g)' = FactRecord(g)
                        /\ fact_envelopes[g].sup \in FactObservations \cup {None}
      OBVIOUS
    <3>1. fact_envelopes'[g] = fact_envelopes[g]
      BY <2>1
    <3>2. fact_envelopes[g].sup \in FactObservations \cup {None}
      BY DEF FactInv, FactTypeOK, Revisions
    <3>3. fact_envelopes[g].sup # None =>
             fact_envelopes'[fact_envelopes[g].sup] = fact_envelopes[fact_envelopes[g].sup]
      BY <2>1, <3>2 DEF LinearInv
    <3> QED  BY <3>1, <3>2, <3>3 DEF FactRecord, FactId, FactKey
  <2> DEFINE r == FactRecord(f)'
             k == FactKey(f)
             latest == Predecessor(f)
  <2>3. Log' = Log \cup {r}
    <3>1. \A g \in FactObservations : fact_envelopes'[g] # None <=> g = f \/ fact_envelopes[g] # None
      BY <1>2, <2>1, Appending
    <3> QED  BY <2>0, <2>2, <3>1 DEF Log
  <2>4. latest # None => fact_envelopes'[latest] = fact_envelopes[latest]
    BY <1>2, <2>1, Appending
  <2>5. /\ r.id = [key |-> k, rev |-> EnvelopeOf(f).rev, fact |-> f]
        /\ latest = None => r.sup = None
        /\ latest # None => r.sup = FactId(latest)
    BY <2>1, <2>4 DEF FactRecord, FactId, FactKey, EnvelopeOf
  <2>6. EnvelopeOf(f).rev \in Nat \ {0}
    BY <1>2, Appending DEF Revisions
  <2>7. latest # None => FactId(latest) \in FactIds
    BY <1>2, <2>0, Appending DEF FactId, FactIds
  <2>8. r \in FactRecords
    <3>1. r.id \in FactIds
      BY <2>0, <2>5, <2>6 DEF FactIds
    <3>2. r.sup \in FactIds \cup {None}
      BY <2>5, <2>7
    <3>3. r = [id |-> r.id, sup |-> r.sup]
      BY DEF FactRecord
    <3> QED  BY <3>1, <3>2, <3>3 DEF FactRecords
  <2>9. ASSUME NEW p \in Log
        PROVE  p.id # r.id /\ (p.id.key = k => p.id.rev < r.id.rev)
    <3>1. PICK g \in FactObservations : fact_envelopes[g] # None /\ p = FactRecord(g)
      BY DEF Log
    <3>2. p.id = [key |-> FactKey(g), rev |-> fact_envelopes[g].rev, fact |-> g]
      BY <3>1 DEF FactRecord, FactId
    <3>3. g # f
      BY <2>1, <3>1
    <3>4. ASSUME FactKey(g) = k
          PROVE  fact_envelopes[g].rev < EnvelopeOf(f).rev
      <4>1. latest # None /\ fact_envelopes[g].rev <= fact_envelopes[latest].rev
        BY <3>1, <3>4 DEF LinearInv, Predecessor
      <4>2. fact_envelopes[g].rev \in Nat /\ fact_envelopes[latest].rev \in Nat
        BY <1>2, <3>1, <4>1, Appending DEF FactInv, FactTypeOK, Revisions
      <4>3. EnvelopeOf(f).rev = fact_envelopes[latest].rev + 1
        BY <4>1 DEF EnvelopeOf
      <4> QED  BY <4>1, <4>2, <4>3
    <3> QED  BY <2>5, <3>2, <3>3, <3>4
  <2>10. FactLog!Grounded(r)
    <3>1. CASE latest = None
      <4>1. r.sup = None /\ r.id.rev = 1
        BY <2>5, <3>1 DEF EnvelopeOf
      <4> HIDE DEF r
      <4> QED  BY <4>1 DEF FactLog!Grounded
    <3>2. CASE latest # None
      <4>1. /\ FactRecord(latest) \in Log
            /\ FactRecord(latest).id = FactId(latest)
            /\ FactId(latest).key = k
            /\ FactId(latest).rev + 1 = EnvelopeOf(f).rev
        BY <1>2, <3>2, Appending DEF Log, FactRecord, FactId, EnvelopeOf
      <4>2. r.sup # None
        BY <2>5, <2>7, <3>2
      <4>3. r.id.key = k /\ r.id.rev = EnvelopeOf(f).rev /\ r.sup = FactId(latest)
        BY <2>5, <3>2
      <4> HIDE DEF r, k, latest
      <4>4. \E p \in Log : p.id = r.sup /\ p.id.key = r.id.key /\ p.id.rev + 1 = r.id.rev
        BY <4>1, <4>3
      <4> QED  BY <4>2, <4>4 DEF FactLog!Grounded, Log
    <3> QED  BY <3>1, <3>2
  <2>11. PICK s : s = r
    OBVIOUS
  <2>12. s \in Log' /\ s \in FactRecords /\ s.id.key = k
    BY <2>3, <2>5, <2>8, <2>11
  <2>13. FactLog!Grounded(s)
    BY <2>10, <2>11 DEF FactLog!Grounded
  <2>14. /\ Log' = Log \cup {s}
         /\ \A p \in Log : p.id # s.id /\ (p.id.key = s.id.key => p.id.rev < s.id.rev)
    BY <2>3, <2>9, <2>11, <2>12
  <2>15. FactLog!Latest(s) /\ FactLog!Archive(s)
    BY <2>13, <2>14 DEF FactLog!Latest, FactLog!Archive, Log
  <2> QED  BY <2>12, <2>15 DEF FactLog!LinearNext, Log
<1>3. ASSUME NEW f, NEW ids, FactInvalid(f) \/ FactDuplicate(f) \/ FactSubjectBlocked(f, ids)
      PROVE  UNCHANGED <<fact_envelopes, latest_by_key>>
  BY <1>3 DEF FactInvalid, FactDuplicate, FactSubjectBlocked
<1> QED  BY <1>1, <1>2, <1>3 DEF FactSteps, FactIngest, fact_vars

\* The empty store is the empty revision log.
LEMMA FactLogStarts == Init => LinearInv /\ FactLog!Init
BY DEF Init, FactInit, LinearInv, FactLog!Init

\* The latest fact of each key has the highest revision in every reachable state.
THEOREM LinearFacts == Spec => []LinearInv
<1>1. IInv /\ LinearInv /\ [Next]_vars => LinearInv'
  BY StoresMoveByTheirSteps, LinearPreserved DEF IInv, StoresInv
<1> QED  BY <1>1, FactLogStarts, Invariance, PTL DEF Spec

\* The fact store implements the linear revision log: one line of revisions for
\* each match and fact type, whatever was blocked, repeated or sent in packets.
THEOREM FactsAreALog == Spec => ImplementsFactLog
<1>1. IInv /\ LinearInv /\ [Next]_vars => [FactLog!LinearNext]_Log
  BY StoresMoveByTheirSteps, FactLogStep DEF IInv, StoresInv
<1> QED
  BY <1>1, FactLogStarts, LinearFacts, Invariance, PTL
  DEF Spec, ImplementsFactLog, FactLog!LinearSpec, Log
=============================================================================
