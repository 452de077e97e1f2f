---------------------------- MODULE StoreProofs ----------------------------
(***************************************************************************)
(* Theorems about the stores that stand on the match identities, and about *)
(* the engines that make features of what is in them, for all matches,     *)
(* records, observations and requests.                                     *)
(***************************************************************************)
EXTENDS MCCanonicalStores, MCFeaturePipeline, FiniteSetTheorems, TLAPS

----------------------------------------------------------------------------
(* The context stores.  The index of source references is what the links   *)
(* agree through, and the latest link is what a context record stands on.  *)

ContextHeld ==
    /\ \A r \in records : r.observation \in ContextInputs
    /\ by_source_ref \in [Matches \X References -> Sides \cup {None}]
    /\ latest = [k \in ContextKeys |-> latest[k]]
    /\ \A k \in ContextKeys :
          latest[k] # None => latest[k] \in records /\ Key(latest[k].observation) = k

LinksIndexed ==
    \A r \in LinksHeld :
        /\ by_source_ref[<<r.observation.match, r.observation.reference>>] = r.observation.side
        /\ r.team = TeamOn(r.observation)

ContextInv == ContextHeld /\ LinksIndexed /\ AdmittedContextIsPrematch

LEMMA ContextInvInit == ContextInit => ContextInv
BY DEF ContextInit, ContextInv, ContextHeld, LinksIndexed, LinksHeld, AdmittedContextIsPrematch

\* A record that is appended is the latest of its key.
LEMMA Appended ==
    ASSUME ContextHeld, NEW o \in ContextInputs, NEW link, AppendRecord(o, link),
           by_source_ref' \in [Matches \X References -> Sides \cup {None}]
    PROVE  /\ ContextHeld'
           /\ \E r : /\ records' = records \cup {r}
                    /\ r.observation = o /\ r.team = TeamOn(o) /\ r.link = link
<1> DEFINE p == latest[Key(o)]
           r == [observation |-> o, team |-> TeamOn(o), link |-> link,
                 revision |-> IF p = None THEN 1 ELSE p.revision + 1,
                 supersedes |-> IF p = None THEN None ELSE p.observation]
<1>1. records' = records \cup {r} /\ latest' = [latest EXCEPT ![Key(o)] = r]
  BY DEF AppendRecord
<1>2. r.observation = o /\ r.team = TeamOn(o) /\ r.link = link
  OBVIOUS
<1> HIDE DEF r
<1>3. Key(o) \in ContextKeys
  BY ContextAssumption DEF Key, ContextKeys
<1>4. ContextHeld'
  <2>1. \A k \in ContextKeys : latest'[k] = IF k = Key(o) THEN r ELSE latest[k]
    BY <1>1, <1>3 DEF ContextHeld
  <2>2. latest' = [k \in ContextKeys |-> latest'[k]]
    BY <1>1 DEF ContextHeld
  <2>3. \A s \in records' : s.observation \in ContextInputs
    BY <1>1, <1>2 DEF ContextHeld
  <2>4. ASSUME NEW k \in ContextKeys, latest'[k] # None
        PROVE  latest'[k] \in records' /\ Key(latest'[k].observation) = k
    BY <1>1, <1>2, <2>1, <2>4 DEF ContextHeld
  <2> QED  BY <2>2, <2>3, <2>4 DEF ContextHeld
<1> QED  BY <1>1, <1>2, <1>4

LEMMA LinkStep ==
    ASSUME ContextInv, NEW o \in ContextInputs, IngestLink(o)
    PROVE  ContextInv'
<1> USE ContextAssumption
<1>1. CASE ~(LinkResolves(o) /\ ReferenceAgrees(o))
  <2>1. UNCHANGED <<records, latest, by_source_ref>>
    BY <1>1 DEF IngestLink
  <2> QED
    BY <2>1 DEF ContextInv, ContextHeld, LinksIndexed, LinksHeld, AdmittedContextIsPrematch
<1>2. CASE LinkResolves(o) /\ ReferenceAgrees(o)
  <2>1. /\ AppendRecord(o, None) /\ o.store = "link"
        /\ by_source_ref' = [by_source_ref EXCEPT ![<<o.match, o.reference>>] = o.side]
    BY <1>2 DEF IngestLink, LinkAccepts
  <2>2. /\ o.match \in Matches /\ o.reference \in References /\ o.side \in Sides
    BY <2>1
  <2>3. by_source_ref' \in [Matches \X References -> Sides \cup {None}]
    BY <2>1, <2>2 DEF ContextInv, ContextHeld
  <2>4. PICK r : /\ records' = records \cup {r}
                 /\ r.observation = o /\ r.team = TeamOn(o)
    BY <2>1, <2>3, Appended DEF ContextInv
  <2>5. ContextHeld'
    BY <2>1, <2>3, Appended DEF ContextInv
  <2>6. LinksIndexed'
    <3>1. ASSUME NEW k \in LinksHeld
          PROVE  /\ by_source_ref'[<<k.observation.match, k.observation.reference>>] = k.observation.side
                 /\ k.team = TeamOn(k.observation)
      <4>1. /\ k.observation.match \in Matches /\ k.observation.reference \in References
            /\ k.observation.side \in Sides
        BY DEF LinksHeld, ContextInv, ContextHeld
      <4>2. /\ by_source_ref[<<k.observation.match, k.observation.reference>>] = k.observation.side
            /\ k.team = TeamOn(k.observation)
        BY DEF ContextInv, LinksIndexed
      <4>3. CASE <<k.observation.match, k.observation.reference>> = <<o.match, o.reference>>
        BY <1>2, <2>1, <2>2, <4>1, <4>2, <4>3 DEF ReferenceAgrees, ContextInv, ContextHeld
      <4>4. CASE <<k.observation.match, k.observation.reference>> # <<o.match, o.reference>>
        BY <2>1, <4>1, <4>2, <4>4 DEF ContextInv, ContextHeld
      <4> QED  BY <4>3, <4>4
    <3>2. by_source_ref'[<<o.match, o.reference>>] = o.side
      BY <2>1, <2>2 DEF ContextInv, ContextHeld
    <3>3. \A k \in LinksHeld' : k \in LinksHeld \/ k = r
      BY <2>4 DEF LinksHeld
    <3> QED  BY <2>4, <3>1, <3>2, <3>3 DEF LinksIndexed, TeamOn
  <2>7. AdmittedContextIsPrematch'
    <3>1. records' \ LinksHeld' = records \ LinksHeld /\ LinksHeld \subseteq LinksHeld'
      BY <2>1, <2>4 DEF LinksHeld
    <3> QED  BY <3>1 DEF ContextInv, AdmittedContextIsPrematch
  <2> QED  BY <2>5, <2>6, <2>7 DEF ContextInv
<1> QED  BY <1>1, <1>2

\* What a context record needs: times before the kickoff, no future data where the
\* store refuses it, and the team that the latest link names.
LEMMA RetainStep ==
    ASSUME ContextInv, NEW o \in ContextInputs, NEW admitted, RetainContext(o, admitted),
           o.store # "link",
           admitted => /\ Admissible(o)
                       /\ \A t \in o.at : /\ t.source < Fixture[o.match].kickoff
                                          /\ t.observed < Fixture[o.match].kickoff
                                          /\ t.effective < Fixture[o.match].kickoff
                       /\ o.store # "lineup" => "FUTURE_DATA" \notin StatesOf(o)
    PROVE  ContextInv'
<1> USE ContextAssumption
<1>1. CASE ~admitted
  <2>1. UNCHANGED <<records, latest, by_source_ref>>
    BY <1>1 DEF RetainContext
  <2> QED
    BY <2>1 DEF ContextInv, ContextHeld, LinksIndexed, LinksHeld, AdmittedContextIsPrematch
<1>2. CASE admitted
  <2>1. AppendRecord(o, LinkOf(o).observation) /\ UNCHANGED by_source_ref
    BY <1>2 DEF RetainContext
  <2>2. by_source_ref' \in [Matches \X References -> Sides \cup {None}]
    BY <2>1 DEF ContextInv, ContextHeld
  <2>3. PICK r : /\ records' = records \cup {r}
                 /\ r.observation = o /\ r.link = LinkOf(o).observation
    BY <2>1, <2>2, Appended DEF ContextInv
  <2>4. ContextHeld'
    BY <2>1, <2>2, Appended DEF ContextInv
  <2>5. LinksHeld' = LinksHeld
    BY <2>3 DEF LinksHeld
  <2>6. LinksIndexed'
    BY <2>1, <2>5 DEF ContextInv, LinksIndexed, TeamOn
  <2>7. \E k \in LinksHeld :
           /\ k.observation = LinkOf(o).observation /\ k.team = o.team
           /\ k.observation.match = o.match /\ k.observation.side = o.side
    <3>1. /\ LinkOf(o) # None /\ <<"link", o.match, o.side>> \in ContextKeys
          /\ o.team = TeamOn(o)
      BY <1>2 DEF Admissible, ContextKeys, Stores
    <3>2. LinkOf(o) \in records /\ Key(LinkOf(o).observation) = <<"link", o.match, o.side>>
      BY <3>1 DEF LinkOf, ContextInv, ContextHeld
    <3>3. /\ LinkOf(o).observation.store = "link" /\ LinkOf(o).observation.match = o.match
          /\ LinkOf(o).observation.side = o.side
      BY <3>2 DEF Key
    <3>4. LinkOf(o) \in LinksHeld
      BY <3>2, <3>3 DEF LinksHeld
    <3>5. LinkOf(o).team = o.team
      BY <3>1, <3>3, <3>4 DEF ContextInv, LinksIndexed, TeamOn
    <3> QED  BY <3>3, <3>4, <3>5
  <2>8. AdmittedContextIsPrematch'
    <3>1. \A s \in records' \ LinksHeld' : s \in records \ LinksHeld \/ s = r
      BY <2>3, <2>5
    <3> QED
      BY <1>2, <2>3, <2>5, <2>7, <3>1 DEF ContextInv, AdmittedContextIsPrematch, StatesOf
  <2> QED  BY <2>4, <2>6, <2>8 DEF ContextInv
<1> QED  BY <1>1, <1>2

\* The order of an observation's times carries the cutoff's bound to all of them.
LEMMA TimesBeforeKickoff ==
    ASSUME NEW o \in ContextInputs, TimesOK(o), Admissible(o)
    PROVE  \A t \in o.at : /\ t.source < Fixture[o.match].kickoff
                          /\ t.observed < Fixture[o.match].kickoff
                          /\ t.effective < Fixture[o.match].kickoff
<1> TAKE t \in o.at
<1>1. /\ t.source \in Nat /\ t.observed \in Nat /\ t.effective \in Nat
      /\ o.cutoff \in Nat /\ Fixture[o.match].kickoff \in Nat
  BY ContextAssumption
<1>2. /\ t.source <= t.observed /\ t.observed <= o.cutoff /\ t.effective <= o.cutoff
      /\ o.cutoff < Fixture[o.match].kickoff
  BY DEF TimesOK, Admissible
<1> QED  BY <1>1, <1>2

LEMMA ContextInvStep ==
    ASSUME ContextInv, [ContextNext]_context_vars
    PROVE  ContextInv'
<1>1. CASE UNCHANGED context_store
  BY <1>1 DEF context_store, ContextInv, ContextHeld, LinksIndexed, LinksHeld, AdmittedContextIsPrematch
<1>2. CASE UNCHANGED context_vars
  BY <1>1, <1>2 DEF context_vars, context_store
<1>3. ASSUME NEW o \in ContextInputs, IngestAvailability(o)
      PROVE  ContextInv'
  <2>1. /\ o.store # "link" /\ TimesOK(o)
        /\ RetainContext(o, Admissible(o) /\ "FUTURE_DATA" \notin StatesOf(o))
    BY <1>3 DEF IngestAvailability, AvailabilityAccepts
  <2> QED  BY <2>1, TimesBeforeKickoff, RetainStep
<1>4. ASSUME NEW o \in ContextInputs, IngestLineup(o)
      PROVE  ContextInv'
  <2>1. /\ o.store = "lineup" /\ TimesOK(o)
        /\ RetainContext(o, /\ Admissible(o)
                            /\ \A t \in o.at : {t.source, t.observed, t.effective}
                                                 \subseteq 0 .. Fixture[o.match].kickoff - 1)
    BY <1>4 DEF IngestLineup, LineupAccepts
  <2> QED  BY <2>1, TimesBeforeKickoff, RetainStep
<1>5. ASSUME NEW o \in ContextInputs, IngestOperational(o)
      PROVE  ContextInv'
  <2>1. o.store = "operational" /\ FactsOK(o) /\ TimesOK(o) /\ RetainContext(o, Admissible(o))
    BY <1>5 DEF IngestOperational, OperationalAccepts
  <2>2. \A n \in DOMAIN o.facts : ItemOK(o.facts[n])
    BY <2>1 DEF FactsOK
  <2>3. "FUTURE_DATA" \notin StatesOf(o)
    BY <2>1, <2>2 DEF StatesOf, ItemOK, ContextStates
  <2> QED  BY <2>1, <2>3, TimesBeforeKickoff, RetainStep
<1> QED  BY <1>1, <1>2, <1>3, <1>4, <1>5, LinkStep DEF ContextNext

LEMMA ContextInvariance == ContextSpec => []ContextInv
<1>1. ContextInv /\ [ContextNext]_context_vars => ContextInv'
  BY ContextInvStep
<1> QED  BY ContextInvInit, <1>1, PTL DEF ContextSpec

\* All that one source reference says of a match is about one team, in whatever
\* order the labels arrive (TeamContextLinker.ingest).
THEOREM OneTeam == ContextSpec => []OneTeamPerReference
<1>1. ContextInv => OneTeamPerReference
  <2> SUFFICES ASSUME ContextInv, NEW k \in LinksHeld, NEW l \in LinksHeld,
                      k.observation.match = l.observation.match,
                      k.observation.reference = l.observation.reference
               PROVE  k.observation.side = l.observation.side /\ k.team = l.team
    BY DEF OneTeamPerReference
  <2>1. k.observation.side = l.observation.side
    BY DEF ContextInv, LinksIndexed
  <2> QED  BY <2>1 DEF ContextInv, LinksIndexed, TeamOn
<1> QED  BY <1>1, ContextInvariance, PTL

\* Admitted context was known before its match began and stands on a link that
\* names its team (the three context stores' ingest).
THEOREM ContextIsPrematch == ContextSpec => []AdmittedContextIsPrematch
<1>1. ContextInv => AdmittedContextIsPrematch
  BY DEF ContextInv
<1> QED  BY <1>1, ContextInvariance, PTL

----------------------------------------------------------------------------
(* The evidence graph.  Evidence is never withdrawn or rewritten, so a      *)
(* conflict stays one as evidence is added to it (ConflictsStay).           *)

Held == {i \in EvidenceIds : items[i] # None}

EvidenceInv ==
    /\ items = [i \in EvidenceIds |-> items[i]]
    /\ \A i \in EvidenceIds : items[i] # None => items[i] \in EvidenceInputs
    /\ IsFiniteSet(Held)
    /\ ResolutionsSettleConflicts

LEMMA EvidenceInvInit == EvidenceInit => EvidenceInv
<1> SUFFICES ASSUME EvidenceInit PROVE EvidenceInv
  OBVIOUS
<1>1. Held = {}
  BY DEF EvidenceInit, Held
<1>2. IsFiniteSet(Held)
  BY <1>1, FS_EmptySet
<1> QED  BY <1>2 DEF EvidenceInit, EvidenceInv, ResolutionsSettleConflicts

\* One piece of evidence says of its claim what it says.
LEMMA LoneContradiction ==
    ASSUME NEW i
    PROVE  Contradiction({i}) = items[i].contradiction
<1>1. Cardinality({i}) = 1 /\ {i} # {}
  BY FS_Singleton
<1>2. {items[j] : j \in {i}} = {items[i]}
  OBVIOUS
<1>3. (CHOOSE e \in {items[i]} : TRUE) = items[i]
  OBVIOUS
<1> QED  BY <1>1, <1>2, <1>3 DEF Contradiction

\* Of several pieces, that they differ, contradict or are in dispute.
Disputed(ids) ==
    \/ \E i, j \in ids : items[i].content # items[j].content
    \/ \E i \in ids : \/ items[i].relation = "CONTRADICTS"
                      \/ items[i].contradiction \in {"PENDING", "CONFLICTED"}

LEMMA ManyContradictions ==
    ASSUME NEW ids, IsFiniteSet(ids), NEW i \in ids, NEW j \in ids, i # j
    PROVE  Contradiction(ids) = IF Disputed(ids) THEN "CONFLICTED" ELSE "NONE"
<1>1. Cardinality(ids) # 1
  BY FS_Singleton
<1>2. ids # {}
  OBVIOUS
<1>3. Disputed(ids) <=>
         \/ \E d, e \in {items[k] : k \in ids} : d.content # e.content
         \/ \E e \in {items[k] : k \in ids} : \/ e.relation = "CONTRADICTS"
                                              \/ e.contradiction \in {"PENDING", "CONFLICTED"}
  BY DEF Disputed
<1> QED  BY <1>1, <1>2, <1>3 DEF Contradiction

\* What is in conflict remains so when more is held.
LEMMA ConflictsStay ==
    ASSUME NEW ids, NEW more, ids \subseteq more, IsFiniteSet(more),
           Contradiction(ids) = "CONFLICTED"
    PROVE  Contradiction(more) = "CONFLICTED"
<1>1. IsFiniteSet(ids)
  BY FS_Subset
<1>2. ids # {}
  <2> SUFFICES ASSUME ids = {}
               PROVE  Contradiction(ids) = "NONE"
    OBVIOUS
  <2> QED  BY FS_EmptySet DEF Contradiction
<1>3. PICK i \in ids : TRUE
  BY <1>2
<1>4. CASE more = {i}
  <2>1. ids = more
    BY <1>3, <1>4
  <2> QED  BY <2>1
<1>5. CASE more # {i}
  <2>1. PICK j \in more : j # i
    BY <1>3, <1>5
  <2>2. Disputed(ids)
    <3>1. CASE ids = {i}
      <4>1. items[i].contradiction = "CONFLICTED"
        BY <3>1, LoneContradiction
      <4> QED  BY <1>3, <4>1 DEF Disputed
    <3>2. CASE ids # {i}
      <4>1. PICK k \in ids : k # i
        BY <1>3, <3>2
      <4> QED  BY <1>1, <1>3, <4>1, ManyContradictions
    <3> QED  BY <3>1, <3>2
  <2>3. Disputed(more)
    BY <2>2 DEF Disputed
  <2> QED  BY <1>3, <2>1, <2>3, ManyContradictions
<1> QED  BY <1>4, <1>5

\* Evidence that is not touched says what it said.
ContradictionAmong(of, n) ==
    IF n = 1 THEN (CHOOSE e \in of : TRUE).contradiction
    ELSE IF \/ \E d, e \in of : d.content # e.content
            \/ \E e \in of : \/ e.relation = "CONTRADICTS"
                             \/ e.contradiction \in {"PENDING", "CONFLICTED"}
    THEN "CONFLICTED" ELSE "NONE"

LEMMA SameContradiction ==
    ASSUME NEW ids, \A i \in ids : items'[i] = items[i]
    PROVE  Contradiction(ids)' = Contradiction(ids)
<1>1. {items'[i] : i \in ids} = {items[i] : i \in ids}
  OBVIOUS
<1>2. Contradiction(ids) = ContradictionAmong({items[i] : i \in ids}, Cardinality(ids))
  BY Zenon DEF Contradiction, ContradictionAmong
<1>3. Contradiction(ids)' = ContradictionAmong({items'[i] : i \in ids}, Cardinality(ids))
  BY Zenon DEF Contradiction, ContradictionAmong
<1> QED  BY <1>1, <1>2, <1>3

LEMMA EvidenceInvStep ==
    ASSUME EvidenceInv, [EvidenceNext]_evidence_vars
    PROVE  EvidenceInv'
<1>1. CASE UNCHANGED <<items, resolutions>>
  <2>1. \A ids : Contradiction(ids)' = Contradiction(ids)
    BY <1>1, SameContradiction
  <2>2. ResolutionsSettleConflicts'
    BY <1>1, <2>1 DEF EvidenceInv, ResolutionsSettleConflicts, ForClaim
  <2> QED  BY <1>1, <2>2 DEF EvidenceInv, Held
<1>2. ASSUME NEW e \in EvidenceInputs, Admit(e)
      PROVE  EvidenceInv'
  <2>1. /\ e.id \in EvidenceIds /\ items[e.id] = None /\ e # None
        /\ items' = [items EXCEPT ![e.id] = e] /\ UNCHANGED resolutions
    BY <1>2, EvidenceAssumption DEF Admit, EvidenceIds
  <2>2. \A i \in EvidenceIds : items'[i] = IF i = e.id THEN e ELSE items[i]
    BY <2>1 DEF EvidenceInv
  <2>3. Held' = Held \cup {e.id}
    BY <2>1, <2>2 DEF Held
  <2>4. IsFiniteSet(Held')
    BY <2>3, FS_AddElement DEF EvidenceInv
  <2>5. ResolutionsSettleConflicts'
    <3> SUFFICES ASSUME NEW r \in resolutions
                 PROVE  /\ r.evidence \subseteq ForClaim(r.claim)'
                        /\ \/ Contradiction(r.evidence)' = "CONFLICTED"
                           \/ \E i \in r.evidence : items'[i].contradiction = "RESOLVED"
      BY <2>1 DEF ResolutionsSettleConflicts
    <3>1. r.evidence \subseteq ForClaim(r.claim)
      BY DEF EvidenceInv, ResolutionsSettleConflicts
    <3>2. \A i \in r.evidence : i \in EvidenceIds /\ items'[i] = items[i]
      BY <2>1, <2>2, <3>1 DEF ForClaim
    <3>4. Contradiction(r.evidence)' = Contradiction(r.evidence)
      BY <3>2, SameContradiction
    <3>5. r.evidence \subseteq ForClaim(r.claim)'
      BY <3>1, <3>2 DEF ForClaim
    <3> QED  BY <3>2, <3>4, <3>5 DEF EvidenceInv, ResolutionsSettleConflicts
  <2>6. items' = [i \in EvidenceIds |-> items'[i]]
    BY <2>1 DEF EvidenceInv
  <2>7. \A i \in EvidenceIds : items'[i] # None => items'[i] \in EvidenceInputs
    BY <2>2 DEF EvidenceInv
  <2> QED  BY <2>4, <2>5, <2>6, <2>7 DEF EvidenceInv
<1>3. ASSUME NEW r \in Resolutions, ResolveConflict(r)
      PROVE  EvidenceInv'
  <2>1. /\ r.evidence = ForClaim(r.claim) /\ r.evidence # {}
        /\ ConflictState(r.claim) \in {"CONFLICTED", "RESOLVED"}
        /\ resolutions' = resolutions \cup {r} /\ UNCHANGED items
    BY <1>3 DEF ResolveConflict
  <2>2. IsFiniteSet(r.evidence)
    <3>1. r.evidence \subseteq Held
      BY <2>1 DEF ForClaim, Held
    <3> QED  BY <3>1, FS_Subset DEF EvidenceInv
  <2>3. \/ Contradiction(r.evidence) = "CONFLICTED"
        \/ \E i \in r.evidence : items[i].contradiction = "RESOLVED"
    <3>1. CASE \E s \in resolutions : s.claim = r.claim
      <4>1. PICK s \in resolutions : s.claim = r.claim
        BY <3>1
      <4>2. /\ s.evidence \subseteq r.evidence
            /\ \/ Contradiction(s.evidence) = "CONFLICTED"
               \/ \E i \in s.evidence : items[i].contradiction = "RESOLVED"
        BY <2>1, <4>1 DEF EvidenceInv, ResolutionsSettleConflicts
      <4> QED  BY <2>2, <4>2, ConflictsStay
    <3>2. CASE ~\E s \in resolutions : s.claim = r.claim
      <4>1. Contradiction(r.evidence) \in {"CONFLICTED", "RESOLVED"}
        BY <2>1, <3>2 DEF ConflictState
      <4>2. PICK i \in r.evidence : TRUE
        BY <2>1
      <4>3. CASE r.evidence = {i}
        BY <4>1, <4>2, <4>3, LoneContradiction
      <4>4. CASE r.evidence # {i}
        <5>1. PICK j \in r.evidence : j # i
          BY <4>2, <4>4
        <5>2. Contradiction(r.evidence) \in {"CONFLICTED", "NONE"}
          BY <2>2, <4>2, <5>1, ManyContradictions
        <5> QED  BY <4>1, <5>2
      <4> QED  BY <4>3, <4>4
    <3> QED  BY <3>1, <3>2
  <2>4. ResolutionsSettleConflicts'
    <3> SUFFICES ASSUME NEW s \in resolutions'
                 PROVE  /\ s.evidence \subseteq ForClaim(s.claim)'
                        /\ \/ Contradiction(s.evidence)' = "CONFLICTED"
                           \/ \E i \in s.evidence : items'[i].contradiction = "RESOLVED"
      BY DEF ResolutionsSettleConflicts
    <3>1. Contradiction(s.evidence)' = Contradiction(s.evidence)
      BY <2>1, SameContradiction
    <3>2. ForClaim(s.claim)' = ForClaim(s.claim)
      BY <2>1 DEF ForClaim
    <3>3. CASE s = r
      BY <2>1, <2>3, <3>1, <3>2, <3>3
    <3>4. CASE s \in resolutions
      BY <2>1, <3>1, <3>2, <3>4 DEF EvidenceInv, ResolutionsSettleConflicts
    <3> QED  BY <2>1, <3>3, <3>4
  <2> QED  BY <2>1, <2>4 DEF EvidenceInv, Held
<1>4. ASSUME NEW a \in Assessments, AssessSource(a)
      PROVE  UNCHANGED <<items, resolutions>>
  BY <1>4 DEF AssessSource
<1>5. CASE UNCHANGED evidence_store
  BY <1>1, <1>5 DEF evidence_store
<1> QED
  BY <1>1, <1>2, <1>3, <1>4, <1>5 DEF EvidenceNext, evidence_vars

\* Evidence that may be used at a cutoff: each blocker that is not there says so.
LEMMA EligibleIsSettled == EvidenceInv => EligibleEvidenceIsSettled
<1> SUFFICES ASSUME EvidenceInv, NEW i \in EvidenceIds, NEW q \in Questions,
                    items[i] # None, Blockers(i, q) = {}, q.cutoff # None
             PROVE  /\ items[i].valid_from <= q.cutoff /\ items[i].retrieved <= q.cutoff
                    /\ quality[i] # None
                    /\ \/ \E r \in resolutions : r.claim = items[i].claim
                       \/ \A j \in ForClaim(items[i].claim) :
                             /\ items[j].content = items[i].content
                             /\ items[j].contradiction \notin {"PENDING", "CONFLICTED"}
  BY DEF EligibleEvidenceIsSettled, Eligible
<1> DEFINE e == items[i]
           c == items[i].claim
<1>1. /\ ~(e.valid_from = None \/ e.valid_from > q.cutoff \/ e.retrieved > q.cutoff)
      /\ ConflictState(c) # "CONFLICTED" /\ quality[i] # None
      /\ e.contradiction \in {"PENDING", "CONFLICTED"} => ConflictState(c) = "RESOLVED"
  BY DEF Blockers
<1>2. e.valid_from <= q.cutoff /\ e.retrieved <= q.cutoff
  <2>1. e \in EvidenceInputs
    BY DEF EvidenceInv
  <2>2. e.valid_from \in Nat \cup {None} /\ e.retrieved \in Nat /\ q.cutoff \in Nat
    BY <2>1, EvidenceAssumption
  <2> QED  BY <1>1, <2>2
<1>3. \/ \E r \in resolutions : r.claim = c
      \/ \A j \in ForClaim(c) : /\ items[j].content = e.content
                                /\ items[j].contradiction \notin {"PENDING", "CONFLICTED"}
  <2> SUFFICES ASSUME ~\E r \in resolutions : r.claim = c, NEW j \in ForClaim(c)
               PROVE  /\ items[j].content = e.content
                      /\ items[j].contradiction \notin {"PENDING", "CONFLICTED"}
    OBVIOUS
  <2>1. ConflictState(c) = Contradiction(ForClaim(c)) /\ i \in ForClaim(c)
    BY DEF ConflictState, ForClaim
  <2>2. IsFiniteSet(ForClaim(c))
    <3>1. ForClaim(c) \subseteq Held
      BY DEF ForClaim, Held
    <3> QED  BY <3>1, FS_Subset DEF EvidenceInv
  <2>3. CASE ForClaim(c) = {i}
    <3>1. ConflictState(c) = e.contradiction /\ j = i
      BY <2>1, <2>3, LoneContradiction
    <3> QED  BY <1>1, <3>1
  <2>4. CASE ForClaim(c) # {i}
    <3>1. PICK k \in ForClaim(c) : k # i
      BY <2>1, <2>4
    <3>2. Contradiction(ForClaim(c)) = IF Disputed(ForClaim(c)) THEN "CONFLICTED" ELSE "NONE"
      BY <2>1, <2>2, <3>1, ManyContradictions
    <3>3. ~Disputed(ForClaim(c))
      BY <1>1, <2>1, <3>2
    <3> QED  BY <2>1, <3>3 DEF Disputed
  <2> QED  BY <2>3, <2>4
<1> QED  BY <1>1, <1>2, <1>3

LEMMA EvidenceInvariance == EvidenceSpec => []EvidenceInv
<1>1. EvidenceInv /\ [EvidenceNext]_evidence_vars => EvidenceInv'
  BY EvidenceInvStep
<1> QED  BY EvidenceInvInit, <1>1, PTL DEF EvidenceSpec

\* No conflict of sources is settled that was not there, and none is passed over
\* when evidence is found fit for use (SourceConflictResolver.resolve_conflict,
\* EvidenceGraphStore.evaluate).
THEOREM EvidenceSettled == EvidenceSpec => []EvidenceIsSettled
<1>1. EvidenceInv => EvidenceIsSettled
  BY EligibleIsSettled DEF EvidenceInv, EvidenceIsSettled
<1> QED  BY <1>1, EvidenceInvariance, PTL

----------------------------------------------------------------------------
(* The feature bundles.  The bundle store and the assembly ledger share no  *)
(* state; what keeps them together is what an id made of content covers.    *)

HandoffsCounted ==
    \A h \in handoffs : \E q \in AssemblyRequests :
        /\ h.id = BundleId(q.bundle) /\ h.lineage = InputLineage(q.bundle)
        /\ Counted(h.summary) = Missingness(q.bundle.features)

LEMMA HandoffsCountedStep ==
    ASSUME HandoffsCounted, [BundleNext]_bundle_vars
    PROVE  HandoffsCounted'
<1>1. CASE UNCHANGED handoffs
  BY <1>1 DEF HandoffsCounted
<1>2. ASSUME NEW q \in AssemblyRequests, Assemble(q)
      PROVE  HandoffsCounted'
  <2>1. /\ Handoff(q).id = BundleId(q.bundle)
        /\ Handoff(q).lineage = InputLineage(q.bundle)
        /\ Handoff(q).summary = q.bundle.summary
    BY DEF Handoff
  <2>2. Counted(q.bundle.summary) = Missingness(q.bundle.features)
    BY <1>2 DEF Assemble, RequestOK
  <2>3. handoffs' = handoffs \cup {Handoff(q)}
    BY <1>2 DEF Assemble
  <2> QED  BY <2>1, <2>2, <2>3 DEF HandoffsCounted
<1>3. ASSUME NEW s \in Schemas, RegisterSchema(s)
      PROVE  UNCHANGED handoffs
  BY <1>3 DEF RegisterSchema
<1>4. ASSUME NEW a \in Adapters, RegisterAdapter(a)
      PROVE  UNCHANGED handoffs
  BY <1>4 DEF RegisterAdapter
<1>5. ASSUME NEW b \in BundleInputs, IngestBundle(b)
      PROVE  UNCHANGED handoffs
  BY <1>5 DEF IngestBundle
<1>6. CASE UNCHANGED bundle_store
  BY <1>1, <1>6 DEF bundle_store
<1>7. CASE UNCHANGED bundle_vars
  BY <1>6, <1>7 DEF bundle_vars
<1> QED  BY <1>1, <1>2, <1>3, <1>4, <1>5, <1>6, <1>7 DEF BundleNext

LEMMA HandoffsCountedInvariance == BundleSpec => []HandoffsCounted
<1>1. BundleInit => HandoffsCounted
  BY DEF BundleInit, HandoffsCounted
<1>2. HandoffsCounted /\ [BundleNext]_bundle_vars => HandoffsCounted'
  BY HandoffsCountedStep
<1> QED  BY <1>1, <1>2, PTL DEF BundleSpec

\* What was handed off under an id made of content cites the inputs of the bundle
\* stored under that id, and its summary, which is the caller's own and not what
\* it was compared as, reads as the counts of that bundle's features (FeatureAssemblyStore.assemble,
\* FeatureBundleStore.ingest).
THEOREM HandoffsCount == BundleSpec => []HandoffsCountTheFeatures
<1>1. ASSUME NEW b, NEW d, b.id = None, BundleId(d) = BundleId(b)
      PROVE  InputLineage(d) = InputLineage(b) /\ d.features = b.features
  <2>1. BundleId(b) = <<"computed", InputLineage(b), b.features, b.revision>>
    BY <1>1 DEF BundleId
  <2>2. CASE d.id # None
    <3>1. BundleId(d) = <<"supplied", d.id>>
      BY <2>2 DEF BundleId
    <3> QED  BY <1>1, <2>1, <3>1
  <2>3. CASE d.id = None
    <3>1. BundleId(d) = <<"computed", InputLineage(d), d.features, d.revision>>
      BY <2>3 DEF BundleId
    <3> QED  BY <1>1, <2>1, <3>1
  <2> QED  BY <2>2, <2>3
<1>2. HandoffsCounted => HandoffsCountTheFeatures
  BY <1>1 DEF HandoffsCounted, HandoffsCountTheFeatures
<1> QED  BY <1>2, HandoffsCountedInvariance, PTL

----------------------------------------------------------------------------
(* Official odds.  A gate's result is looked up by ids: what it decided is  *)
(* said of the content that an id of content determines.                   *)

\* The fields an observation keeps in the ids that are made of it.
LEMMA IdsKeepTheMarkets ==
    ASSUME NEW o \in OddsInputs
    PROVE  /\ OddsObservationId(o).markets = o.markets
           /\ SnapshotContent(o).markets = o.markets
BY OddsInputsAssumption DEF OddsObservationId, SnapshotContent

LEMMA EvidenceKeepsTheMarkets ==
    ASSUME NEW e \in ScreenshotInputs
    PROVE  EvidenceId(e).markets = e.markets
BY OddsInputsAssumption DEF EvidenceId

\* A gate that passed under ids of content: every market is on offer and as in
\* the screenshot.
Passed(g) ==
    g.outcome = "PASSED" /\ g.snapshot[1] = "computed" =>
        \A m \in Markets :
            /\ g.snapshot[2].markets[m].status = "AVAILABLE"
            /\ g.evidence # None =>
                  g.evidence.markets[m] =
                      [status |-> "VERIFIED", payload |-> g.snapshot[2].markets[m].payload]

OddsHeld ==
    /\ matches \subseteq Matches
    /\ snapshots \subseteq issued
    /\ issued \subseteq Snapshots
    /\ \A s \in issued : s.observation.match \in Matches /\ s.id = SnapshotId(s.observation)
    /\ latest_by_match \in [Matches -> issued \cup {None}]
    /\ \A v \in evidence : v.observation \in ScreenshotInputs /\ v.id = EvidenceId(v.observation)

LedgerHeld ==
    /\ ledger \in Seq({ledger[i] : i \in DOMAIN ledger})
    /\ \A i \in DOMAIN ledger :
          /\ ledger[i].key.match \in Matches /\ ledger[i].revision \in Nat \ {0}
          /\ ledger[i].key.supersedes \in DOMAIN ledger \cup {None}

OddsInv ==
    /\ OddsHeld /\ LedgerHeld
    /\ SnapshotsAreNumbered /\ (\A g \in gates : Passed(g)) /\ AllowedOddsAreGated

LEMMA OddsInvInit == OddsInit => OddsInv
BY DEF OddsInit, OddsInv, OddsHeld, LedgerHeld, SnapshotsAreNumbered, AllowedOddsAreGated, Allowed

\* A new snapshot is numbered after all of its match.
LEMMA IngestKeepsOddsInv ==
    ASSUME OddsInv, NEW o \in OddsInputs, IngestOdds(o)
    PROVE  OddsInv'
<1> DEFINE s == [id |-> SnapshotId(o), observation |-> o, revision |-> NextRevision(o.match)]
<1>1. UNCHANGED <<matches, evidence, gates, ledger>> /\ o.match \in Matches
  BY DEF IngestOdds, OddsInv, OddsHeld
<1>2. LedgerHeld' /\ (\A g \in gates : Passed(g))' /\ AllowedOddsAreGated'
  BY <1>1 DEF OddsInv, LedgerHeld, Passed, AllowedOddsAreGated, Allowed
<1>3. CASE UNCHANGED <<snapshots, issued, latest_by_match>>
  BY <1>1, <1>2, <1>3 DEF OddsInv, OddsHeld, SnapshotsAreNumbered
<1>4. CASE Supersedable(o) /\ AppendSnapshot(o)
  <2>1. /\ snapshots' \subseteq snapshots \cup {s}
        /\ issued' = issued \cup {s}
        /\ latest_by_match' = [latest_by_match EXCEPT ![o.match] = s]
    BY <1>4 DEF AppendSnapshot
  <2>2. NextRevision(o.match) \in Nat
    BY <1>1 DEF NextRevision, OddsInv, OddsHeld, Snapshots
  <2>3. OddsHeld'
    BY <1>1, <2>1, <2>2 DEF OddsInv, OddsHeld, Snapshots, SnapshotIds
  <2>4. ASSUME NEW t \in issued, t.observation.match = o.match
        PROVE  t.revision < s.revision
    <3>1. /\ latest_by_match[o.match] # None
          /\ t.revision <= latest_by_match[o.match].revision
      BY <2>4 DEF OddsInv, SnapshotsAreNumbered
    <3>2. latest_by_match[o.match].revision \in Nat /\ t.revision \in Nat
      BY <1>1, <3>1 DEF OddsInv, OddsHeld, Snapshots
    <3> QED
      BY <3>1, <3>2 DEF NextRevision
  <2>5. ASSUME o.supersedes # None
        PROVE  \E p \in issued : /\ p.id = o.supersedes /\ p.observation.match = o.match
                                 /\ p.revision < s.revision
    BY <1>4, <2>4, <2>5 DEF Supersedable, SnapshotsWith, OddsInv, OddsHeld
  <2>6. s # None
    BY <2>2, SnapshotsAssumption DEF Snapshots, SnapshotIds
  <2>7. latest_by_match'[o.match] = s /\ \A m \in Matches : m # o.match => latest_by_match'[m] = latest_by_match[m]
    BY <1>1, <2>1 DEF OddsInv, OddsHeld
  <2>8. SnapshotsAreNumbered'
    <3> SUFFICES ASSUME NEW t \in issued'
                 PROVE  LET m == t.observation.match
                        IN  /\ latest_by_match'[m] # None
                            /\ t.revision <= latest_by_match'[m].revision
                            /\ \A u \in issued' :
                                  u.observation.match = m /\ u.revision = t.revision => u = t
                            /\ t.observation.supersedes # None =>
                                  \E p \in issued' : /\ p.id = t.observation.supersedes
                                                     /\ p.observation.match = m
                                                     /\ p.revision < t.revision
      BY DEF SnapshotsAreNumbered
    <3>1. CASE t = s
      BY <2>1, <2>2, <2>4, <2>5, <2>6, <2>7, <3>1
    <3>2. CASE t \in issued /\ t.observation.match = o.match
      <4>1. t.revision < s.revision /\ t.revision \in Nat /\ s.revision \in Nat
        BY <2>2, <2>4, <3>2 DEF OddsInv, OddsHeld, Snapshots
      <4>2. ASSUME NEW u \in issued', u.observation.match = o.match, u.revision = t.revision
            PROVE  u = t
        <5>1. u \in issued
          BY <2>1, <4>1, <4>2
        <5> QED
          BY <3>2, <4>2, <5>1 DEF OddsInv, SnapshotsAreNumbered
      <4>3. t.observation.supersedes # None =>
               \E p \in issued' : /\ p.id = t.observation.supersedes
                                  /\ p.observation.match = o.match
                                  /\ p.revision < t.revision
        BY <2>1, <3>2 DEF OddsInv, SnapshotsAreNumbered
      <4> QED
        BY <2>6, <2>7, <3>2, <4>1, <4>2, <4>3
    <3>3. CASE t \in issued /\ t.observation.match # o.match
      BY <2>1, <2>7, <3>3 DEF OddsInv, OddsHeld, SnapshotsAreNumbered
    <3> QED
      BY <2>1, <3>1, <3>2, <3>3
  <2> QED
    BY <1>2, <2>3, <2>8 DEF OddsInv
<1> QED
  BY <1>3, <1>4 DEF IngestOdds

LEMMA ScreenshotKeepsOddsInv ==
    ASSUME OddsInv, NEW e \in ScreenshotInputs, IngestScreenshot(e)
    PROVE  OddsInv'
<1>1. UNCHANGED <<matches, snapshots, issued, latest_by_match, gates, ledger>>
  BY DEF IngestScreenshot
<1>2. \A v \in evidence' : v \in evidence \/ (v.observation = e /\ v.id = EvidenceId(e))
  BY DEF IngestScreenshot
<1>3. OddsHeld'
  BY <1>1, <1>2 DEF OddsInv, OddsHeld
<1>4. /\ LedgerHeld' /\ SnapshotsAreNumbered'
      /\ (\A g \in gates : Passed(g))' /\ AllowedOddsAreGated'
  BY <1>1 DEF OddsInv, LedgerHeld, SnapshotsAreNumbered, Passed, AllowedOddsAreGated, Allowed
<1> QED
  BY <1>3, <1>4 DEF OddsInv

\* A market that is decided AVAILABLE is on offer, and as in the screenshot.
LEMMA AvailableAgrees ==
    ASSUME NEW x, NEW y, MarketDecision(x, y) = "AVAILABLE"
    PROVE  /\ x.status = "AVAILABLE"
           /\ y \in {NoScreenshot, [status |-> "VERIFIED", payload |-> x.payload]}
BY DEF MarketDecision

LEMMA DecisionsAreFour ==
    ASSUME NEW x, NEW y
    PROVE  MarketDecision(x, y) \in {"AVAILABLE", "UNAVAILABLE", "NOT_VERIFIED", "BLOCKED"}
BY DEF MarketDecision

LEMMA GateKeepsOddsInv ==
    ASSUME OddsInv, NEW s \in issued, NEW v \in evidence \cup {None}, EvaluateGate(s, v)
    PROVE  OddsInv'
<1> DEFINE y(m) == IF v = None THEN NoScreenshot ELSE v.observation.markets[m]
           d == [m \in Markets |-> MarketDecision(s.observation.markets[m], y(m))]
           g == [snapshot |-> s.id, evidence |-> IdOf(v), match |-> s.observation.match,
                 outcome |-> Outcome(d)]
<1>1. /\ UNCHANGED <<matches, snapshots, issued, latest_by_match, evidence, ledger>>
      /\ gates' = gates \cup {g}
  BY DEF EvaluateGate
<1>2. OddsHeld' /\ LedgerHeld' /\ SnapshotsAreNumbered' /\ AllowedOddsAreGated'
  BY <1>1 DEF OddsInv, OddsHeld, LedgerHeld, SnapshotsAreNumbered, AllowedOddsAreGated, Allowed
<1>3. Passed(g)
  <2> SUFFICES ASSUME g.outcome = "PASSED", g.snapshot[1] = "computed", NEW m \in Markets
               PROVE  /\ g.snapshot[2].markets[m].status = "AVAILABLE"
                      /\ g.evidence # None =>
                            g.evidence.markets[m] =
                                [status |-> "VERIFIED",
                                 payload |-> g.snapshot[2].markets[m].payload]
    BY DEF Passed
  <2>1. MarketDecision(s.observation.markets[m], y(m)) = "AVAILABLE"
    <3>1. Outcome(d) = "PASSED"
      OBVIOUS
    <3>2. d[m] \notin {"BLOCKED", "NOT_VERIFIED", "UNAVAILABLE"}
      <4> HIDE DEF d
      <4> QED  BY <3>1 DEF Outcome
    <3> QED
      BY <3>2, DecisionsAreFour
  <2>2. /\ s.observation.markets[m].status = "AVAILABLE"
        /\ y(m) \in {NoScreenshot,
                     [status |-> "VERIFIED", payload |-> s.observation.markets[m].payload]}
    BY <2>1, AvailableAgrees
  <2>3. g.snapshot[2].markets = s.observation.markets
    <3>1. s.observation \in OddsInputs /\ s.id = SnapshotId(s.observation)
      BY DEF OddsInv, OddsHeld, Snapshots
    <3>2. g.snapshot = SnapshotId(s.observation) /\ g.snapshot[1] = "computed"
      BY <3>1
    <3>3. g.snapshot[2] = SnapshotContent(s.observation)
      <4> HIDE DEF g
      <4> QED  BY <3>2 DEF SnapshotId
    <3> QED
      BY <3>1, <3>3, IdsKeepTheMarkets
  <2>4. ASSUME g.evidence # None
        PROVE  g.evidence.markets[m] =
                  [status |-> "VERIFIED", payload |-> s.observation.markets[m].payload]
    <3>1. v \in evidence /\ v # None /\ g.evidence = v.id
      BY <2>4 DEF IdOf
    <3>2. v.observation \in ScreenshotInputs /\ v.id = EvidenceId(v.observation)
      BY <3>1 DEF OddsInv, OddsHeld
    <3>3. y(m) = v.observation.markets[m] /\ y(m).status # None
      BY <3>1, <3>2, OddsInputsAssumption
    <3>4. y(m) = [status |-> "VERIFIED", payload |-> s.observation.markets[m].payload]
      BY <2>2, <3>3 DEF NoScreenshot
    <3> QED
      BY <3>1, <3>2, <3>3, <3>4, EvidenceKeepsTheMarkets
  <2> HIDE DEF g
  <2> QED
    BY <2>2, <2>3, <2>4
<1>4. (\A h \in gates : Passed(h))'
  <2> HIDE DEF g
  <2>1. \A h \in gates' : Passed(h)
    BY <1>1, <1>3 DEF OddsInv
  <2> QED
    BY <2>1 DEF Passed
<1> QED
  BY <1>2, <1>4 DEF OddsInv

\* Availability is a time or None.
LEMMA AvailabilityIsATime ==
    ASSUME NEW s, s.observation \in OddsInputs, NEW v, NEW q \in LedgerRequests,
           v # None => v.observation \in ScreenshotInputs
    PROVE  Availability(s, v, q.basis) \in Int \cup {None}
<1>1. \A t \in Times \cup {None} : Whole(t) \in Int \cup {None}
  BY OddsAssumption DEF Whole
<1>2. /\ s.observation.timestamp \in Times \cup {None}
      /\ s.observation.observed \in Times \cup {None}
      /\ v # None => v.observation.published \in Times \cup {None}
  BY OddsInputsAssumption
<1>3. q.basis \in {"SOURCE_PUBLISHED_AT", "SOURCE_TIMESTAMP", "OBSERVED_AT"}
  BY OddsAssumption
<1>4. CASE q.basis = "SOURCE_PUBLISHED_AT"
  BY <1>1, <1>2, <1>4 DEF Availability
<1>5. CASE q.basis = "SOURCE_TIMESTAMP"
  BY <1>1, <1>2, <1>5 DEF Availability
<1>6. CASE q.basis = "OBSERVED_AT"
  BY <1>1, <1>2, <1>6 DEF Availability
<1> QED  BY <1>3, <1>4, <1>5, <1>6

\* What is appended to the ledger keeps what is there in its place.
LEMMA LedgerGrows ==
    ASSUME LedgerHeld, NEW e, ledger' = Append(ledger, e)
    PROVE  /\ Len(ledger) \in Nat /\ DOMAIN ledger = 1..Len(ledger)
           /\ DOMAIN ledger' = 1..(Len(ledger) + 1)
           /\ ledger'[Len(ledger) + 1] = e
           /\ \A i \in DOMAIN ledger : ledger'[i] = ledger[i]
           /\ ledger' \in Seq({ledger'[i] : i \in DOMAIN ledger'})
<1> DEFINE S == {ledger[i] : i \in DOMAIN ledger} \cup {e}
<1>1. ledger \in Seq(S)
  <2>1. ledger \in Seq({ledger[i] : i \in DOMAIN ledger})
    BY DEF LedgerHeld
  <2> QED  BY <2>1
<1> HIDE DEF S
<1>2. /\ Len(ledger) \in Nat /\ DOMAIN ledger = 1..Len(ledger)
      /\ ledger' \in Seq(S) /\ Len(ledger') = Len(ledger) + 1
      /\ DOMAIN ledger' = 1..(Len(ledger) + 1)
      /\ ledger'[Len(ledger) + 1] = e
      /\ \A i \in DOMAIN ledger : ledger'[i] = ledger[i]
  <2>1. e \in S
    BY DEF S
  <2>2. /\ Len(ledger) \in Nat /\ DOMAIN ledger = 1..Len(ledger)
        /\ ledger' \in Seq(S) /\ Len(ledger') = Len(ledger) + 1
    BY <1>1, <2>1
  <2>3. DOMAIN ledger' = 1..(Len(ledger) + 1)
    BY <2>2
  <2>4. ledger'[Len(ledger) + 1] = e /\ \A i \in DOMAIN ledger : ledger'[i] = ledger[i]
    BY <1>1, <2>1, <2>2
  <2> QED  BY <2>2, <2>3, <2>4
<1>3. ledger' \in Seq({ledger'[i] : i \in DOMAIN ledger'})
  BY <1>2
<1> QED  BY <1>2, <1>3

LEMMA CutoffsAreTimes == \A q \in LedgerRequests : q.cutoff \in Int
<1>1. \A q \in LedgerRequests : q.cutoff \in Times
  BY OddsAssumption
<1>2. Times \subseteq Int
  BY OddsAssumption
<1> QED  BY <1>1, <1>2

LEMMA OnlyThePastIsAllowed ==
    ASSUME NEW outcome, NEW available, NEW q,
           DecideTime(outcome, available, q) = "PREMATCH_ALLOWED"
    PROVE  outcome = "PASSED" /\ available # None /\ ~(available > q.cutoff)
<1>1. outcome = "PASSED" /\ available # None
  BY DEF DecideTime
<1>2. ASSUME available > q.cutoff
      PROVE  FALSE
  <2>1. CASE available >= q.kickoff
    BY <1>1, <2>1 DEF DecideTime
  <2>2. CASE ~(available >= q.kickoff)
    BY <1>1, <1>2, <2>2 DEF DecideTime
  <2> QED  BY <2>1, <2>2
<1> QED  BY <1>1, <1>2

LEMMA RecordKeepsOddsInv ==
    ASSUME OddsInv, NEW s \in issued, NEW g \in gates, NEW v \in evidence \cup {None},
           NEW q \in LedgerRequests, NEW sup \in DOMAIN ledger \cup {None},
           RecordOdds(s, g, v, q, sup)
    PROVE  OddsInv'
<1> DEFINE e == LedgerEntry(s, g, v, q, sup)
           n == Len(ledger) + 1
<1>1. /\ UNCHANGED <<matches, snapshots, issued, latest_by_match, evidence, gates>>
      /\ ledger' = Append(ledger, e) /\ Bound(s, g, v, q)
  BY DEF RecordOdds
<1>2. OddsHeld' /\ SnapshotsAreNumbered' /\ (\A h \in gates : Passed(h))'
  BY <1>1 DEF OddsInv, OddsHeld, SnapshotsAreNumbered, Passed
<1>3. /\ s.observation \in OddsInputs /\ s.observation.match \in Matches
      /\ s.id = SnapshotId(s.observation)
      /\ v # None => v.observation \in ScreenshotInputs
  BY DEF OddsInv, OddsHeld, Snapshots
<1>4. /\ n \in Nat /\ DOMAIN ledger = 1..(n - 1) /\ DOMAIN ledger' = 1..n
      /\ ledger'[n] = e /\ (\A i \in DOMAIN ledger : ledger'[i] = ledger[i])
      /\ ledger' \in Seq({ledger'[i] : i \in DOMAIN ledger'})
  BY <1>1, LedgerGrows DEF OddsInv
<1>5. /\ e.key = LedgerKey(s, g, v, q, sup) /\ e.request = q
      /\ e.available = Availability(s, v, q.basis)
      /\ e.status = DecideTime(g.outcome, e.available, q)
      /\ e.revision = IF sup = None THEN 1 ELSE ledger[sup].revision + 1
  BY DEF LedgerEntry
<1> HIDE DEF e, n
<1>6. /\ e.key.match = s.observation.match /\ e.key.supersedes = sup
      /\ e.key.snapshot = s.id /\ e.key.gate = <<g.snapshot, g.evidence>>
      /\ e.key.observation = OddsObservationId(s.observation)
  BY <1>5 DEF LedgerKey
<1>7. LedgerHeld'
  <2>1. e.revision \in Nat \ {0}
    BY <1>5 DEF OddsInv, LedgerHeld
  <2>2. sup \in DOMAIN ledger' \cup {None}
    BY <1>4
  <2>3. ASSUME NEW i \in DOMAIN ledger'
        PROVE  /\ ledger'[i].key.match \in Matches /\ ledger'[i].revision \in Nat \ {0}
               /\ ledger'[i].key.supersedes \in DOMAIN ledger' \cup {None}
    <3>1. CASE i = n
      BY <1>3, <1>4, <1>6, <2>1, <2>2, <3>1
    <3>2. CASE i \in DOMAIN ledger
      BY <1>4, <3>2 DEF OddsInv, LedgerHeld
    <3> QED
      BY <1>4, <3>1, <3>2
  <2> QED
    BY <1>4, <2>3 DEF LedgerHeld
<1>8. AllowedOddsAreGated'
  <2>1. ASSUME e.status = "PREMATCH_ALLOWED"
        PROVE  /\ e.available # None /\ e.available <= q.cutoff /\ q.cutoff < q.kickoff
               /\ e.key.snapshot[1] = "computed" =>
                     \A m \in Markets :
                        /\ e.key.observation.markets[m].status = "AVAILABLE"
                        /\ e.key.gate[2] # None =>
                             e.key.gate[2].markets[m] =
                                [status |-> "VERIFIED",
                                 payload |-> e.key.observation.markets[m].payload]
    <3>1. DecideTime(g.outcome, e.available, q) = "PREMATCH_ALLOWED"
      BY <1>5, <2>1
    <3>2. g.outcome = "PASSED" /\ e.available # None /\ ~(e.available > q.cutoff)
      BY <3>1, OnlyThePastIsAllowed
    <3>6. e.available \in Int /\ q.cutoff \in Int
      <4>1. Availability(s, v, q.basis) \in Int \cup {None}
        BY <1>3, AvailabilityIsATime
      <4>2. q.cutoff \in Int
        BY CutoffsAreTimes
      <4> QED
        BY <1>5, <3>2, <4>1, <4>2
    <3>3. q.cutoff < q.kickoff /\ g.snapshot = s.id
      BY <1>1 DEF Bound
    <3>4. ASSUME s.id[1] = "computed"
          PROVE  s.id[2].markets = OddsObservationId(s.observation).markets
      <4>1. s.id[2] = SnapshotContent(s.observation)
        BY <1>3, <3>4 DEF SnapshotId
      <4> QED
        BY <1>3, <4>1, IdsKeepTheMarkets
    <3>5. Passed(g)
      BY DEF OddsInv
    <3> QED
      BY <1>6, <3>2, <3>3, <3>4, <3>5, <3>6 DEF Passed
  <2> SUFFICES ASSUME NEW i \in DOMAIN ledger', ledger'[i].status = "PREMATCH_ALLOWED"
               PROVE  LET k == ledger'[i].key
                      IN  /\ ledger'[i].available # None
                          /\ ledger'[i].available <= ledger'[i].request.cutoff
                          /\ ledger'[i].request.cutoff < ledger'[i].request.kickoff
                          /\ k.snapshot[1] = "computed" =>
                                \A m \in Markets :
                                   /\ k.observation.markets[m].status = "AVAILABLE"
                                   /\ k.gate[2] # None =>
                                        k.gate[2].markets[m] =
                                           [status |-> "VERIFIED",
                                            payload |-> k.observation.markets[m].payload]
    BY DEF AllowedOddsAreGated, Allowed
  <2>2. CASE i = n
    BY <1>4, <1>5, <2>1, <2>2
  <2>3. CASE i \in DOMAIN ledger
    BY <1>4, <2>3 DEF OddsInv, AllowedOddsAreGated, Allowed
  <2> QED
    BY <1>4, <2>2, <2>3
<1> QED
  BY <1>2, <1>7, <1>8 DEF OddsInv

LEMMA OddsInvStep ==
    ASSUME OddsInv, [OddsNext]_odds_vars
    PROVE  OddsInv'
<1>1. ASSUME NEW m \in Matches, ResolveMatch(m), UNCHANGED odds_store
      PROVE  OddsInv'
  BY <1>1 DEF ResolveMatch, odds_store, OddsInv, OddsHeld, LedgerHeld, SnapshotsAreNumbered,
              Passed, AllowedOddsAreGated, Allowed
<1>2. CASE UNCHANGED odds_vars
  BY <1>2 DEF odds_vars, odds_store, OddsInv, OddsHeld, LedgerHeld, SnapshotsAreNumbered,
              Passed, AllowedOddsAreGated, Allowed
<1> QED
  BY <1>1, <1>2, IngestKeepsOddsInv, ScreenshotKeepsOddsInv, GateKeepsOddsInv,
     RecordKeepsOddsInv DEF OddsNext

LEMMA OddsInvariance == OddsSpec => []OddsInv
BY OddsInvInit, OddsInvStep, PTL DEF OddsSpec

\* Odds allowed before the match passed the gate with all their markets on offer
\* and were known at the cutoff; the snapshots are numbered and a correction comes
\* after what it corrects (OfficialOddsProvenanceLedger, OfficialMarketAvailabilityGate,
\* OfficialOddsSnapshotStore).
THEOREM AllowedOddsAreAlwaysSound == OddsSpec => []AllowedOddsAreSound
<1>1. OddsInv => AllowedOddsAreSound
  BY DEF OddsInv, AllowedOddsAreSound
<1> QED  BY <1>1, OddsInvariance, PTL

----------------------------------------------------------------------------
(* The stores as logs.  An entry of the ledger stays in its place, an item  *)
(* of the graph under its id, and the latest record of a context key is the *)
(* last of its line.                                                        *)

Entries == {EntryRecord(i) : i \in DOMAIN ledger}

LEMMA RecordedIsGrounded ==
    ASSUME OddsInv, NEW s \in issued, NEW g \in gates, NEW v \in evidence \cup {None},
           NEW q \in LedgerRequests, NEW sup \in DOMAIN ledger \cup {None},
           RecordOdds(s, g, v, q, sup)
    PROVE  LedgerLog!Next
<1> DEFINE e == LedgerEntry(s, g, v, q, sup)
<1>0. PICK n : n = Len(ledger) + 1
  OBVIOUS
<1>1. /\ ledger' = Append(ledger, e)
      /\ sup # None => ledger[sup].key.match = s.observation.match
  BY DEF RecordOdds
<1>2. s.observation.match \in Matches
  BY DEF OddsInv, OddsHeld
<1>3. /\ n \in Nat \ {0} /\ DOMAIN ledger = 1..(n - 1) /\ DOMAIN ledger' = 1..n
      /\ ledger'[n] = e /\ (\A i \in DOMAIN ledger : ledger'[i] = ledger[i])
  BY <1>0, <1>1, LedgerGrows DEF OddsInv
<1>4. /\ e.key.match = s.observation.match /\ e.key.supersedes = sup
      /\ e.revision = IF sup = None THEN 1 ELSE ledger[sup].revision + 1
  BY DEF LedgerEntry, LedgerKey
<1> HIDE DEF e
<1>5. \A i \in DOMAIN ledger : EntryId(i)' = EntryId(i) /\ EntryId(i) \in EntryIds
  BY <1>3 DEF EntryId, EntryIds, OddsInv, LedgerHeld
<1>6. \A i \in DOMAIN ledger : EntryRecord(i)' = EntryRecord(i)
  <2> TAKE i \in DOMAIN ledger
  <2>1. ledger'[i] = ledger[i] /\ ledger[i].key.supersedes \in DOMAIN ledger \cup {None}
    BY <1>3 DEF OddsInv, LedgerHeld
  <2> QED
    BY <1>5, <2>1 DEF EntryRecord
<1> DEFINE id == [key |-> s.observation.match, rev |-> e.revision, no |-> n]
           r == [id |-> id, sup |-> IF sup = None THEN None ELSE EntryId(sup)]
<1>7. EntryRecord(n)' = r
  <2>1. EntryId(n)' = id
    BY <1>3, <1>4 DEF EntryId
  <2>2. sup # None => EntryId(sup)' = EntryId(sup)
    BY <1>5
  <2>3. ledger'[n].key.supersedes = sup
    BY <1>3, <1>4
  <2> HIDE DEF id
  <2> QED
    BY <2>1, <2>2, <2>3 DEF EntryRecord
<1>8. Entries' = Entries \cup {r}
  BY <1>3, <1>6, <1>7 DEF Entries
<1>9. e.revision \in Nat \ {0}
  BY <1>4 DEF OddsInv, LedgerHeld
<1>10. id \in EntryIds
  BY <1>2, <1>3, <1>9 DEF EntryIds
<1>11. /\ r.id = id /\ id.key = s.observation.match /\ id.rev = e.revision /\ id.no = n
       /\ r.sup = IF sup = None THEN None ELSE EntryId(sup)
       /\ r \in [id : EntryIds, sup : EntryIds \cup {None}]
  <2>1. (IF sup = None THEN None ELSE EntryId(sup)) \in EntryIds \cup {None}
    BY <1>5
  <2> QED  BY <1>10, <2>1
<1> HIDE DEF id, r
<1>12. \A p \in Entries : p.id # r.id
  BY <1>3, <1>11 DEF Entries, EntryRecord, EntryId
<1>13. LedgerLog!Grounded(r)
  <2>1. CASE sup = None
    BY <1>4, <1>11, <2>1 DEF LedgerLog!Grounded
  <2>2. CASE sup # None
    <3>1. r.sup = EntryId(sup) /\ r.sup # None
      BY <1>5, <1>11, <2>2, EntriesAssumption
    <3>2. /\ EntryRecord(sup) \in Entries /\ EntryRecord(sup).id = EntryId(sup)
          /\ EntryId(sup).key = s.observation.match
          /\ EntryId(sup).rev + 1 = e.revision
      BY <1>1, <1>4, <2>2 DEF Entries, EntryRecord, EntryId
    <3>3. \E p \in Entries : p.id = r.sup /\ p.id.key = r.id.key /\ p.id.rev + 1 = r.id.rev
      BY <1>11, <3>1, <3>2
    <3> QED
      BY <3>1, <3>3 DEF LedgerLog!Grounded, Entries
  <2> QED  BY <2>1, <2>2
<1>14. LedgerLog!Archive(r)
  BY <1>8, <1>12, <1>13 DEF LedgerLog!Archive, Entries
<1>15. r \in Entries'
  BY <1>8
<1> QED
  BY <1>11, <1>14, <1>15 DEF LedgerLog!Next, Entries

\* Only RecordOdds appends to the ledger.
LEMMA LedgerStep ==
    ASSUME OddsInv, [OddsNext]_odds_vars
    PROVE  [LedgerLog!Next]_Entries
<1>1. ASSUME UNCHANGED ledger
      PROVE  UNCHANGED Entries
  BY <1>1 DEF Entries, EntryRecord, EntryId
<1>2. ASSUME NEW o \in OddsInputs, IngestOdds(o)
      PROVE  UNCHANGED ledger
  BY <1>2 DEF IngestOdds
<1>3. ASSUME NEW e \in ScreenshotInputs, IngestScreenshot(e)
      PROVE  UNCHANGED ledger
  BY <1>3 DEF IngestScreenshot
<1>4. ASSUME NEW s, NEW v, EvaluateGate(s, v)
      PROVE  UNCHANGED ledger
  BY <1>4 DEF EvaluateGate
<1>5. CASE UNCHANGED odds_store
  BY <1>1, <1>5 DEF odds_store
<1>6. CASE UNCHANGED odds_vars
  BY <1>1, <1>6 DEF odds_vars, odds_store
<1> QED
  BY <1>1, <1>2, <1>3, <1>4, <1>5, <1>6, RecordedIsGrounded DEF OddsNext

\* The ledger implements the revision log with forks: an entry is the first of its
\* line or supersedes an entry of its match, and none is rewritten
\* (OfficialOddsProvenanceLedger.record).
THEOREM LedgerIsALog == OddsSpec => ImplementsLedgerLog
<1>1. OddsInit => LedgerLog!Init
  BY DEF OddsInit, LedgerLog!Init
<1>2. OddsInv /\ [OddsNext]_odds_vars => [LedgerLog!Next]_Entries
  BY LedgerStep
<1> QED
  BY <1>1, <1>2, OddsInvariance, PTL
  DEF OddsSpec, ImplementsLedgerLog, LedgerLog!Spec, Entries

GraphItems == {ItemRecord(i) : i \in {j \in EvidenceIds : items[j] # None}}

GraphInv ==
    /\ items = [i \in EvidenceIds |-> items[i]]
    /\ \A i \in Held :
          /\ items[i] \in EvidenceInputs /\ items[i].id = i
          /\ items[i].supersedes # None => items[i].supersedes \in Held

LEMMA AdmitIsLogged ==
    ASSUME GraphInv, NEW e \in EvidenceInputs, Admit(e)
    PROVE  GraphInv' /\ GraphLog!Next
<1> USE EvidenceAssumption
<1>1. /\ e.id \in EvidenceIds /\ e.id \notin Held /\ e # None
      /\ items' = [items EXCEPT ![e.id] = e] /\ Follows(e)
  BY DEF Admit, Held, EvidenceIds
<1>2. /\ items' = [i \in EvidenceIds |-> items'[i]] /\ items'[e.id] = e
      /\ \A i \in EvidenceIds \ {e.id} : items'[i] = items[i]
  BY <1>1 DEF GraphInv
<1>3. Held' = Held \cup {e.id}
  BY <1>1, <1>2 DEF Held
<1>4. \A i \in Held : items'[i] = items[i]
  BY <1>1, <1>2 DEF Held
<1>5. e.supersedes # None =>
         /\ e.supersedes \in Held
         /\ items[e.supersedes].claim = e.claim /\ items[e.supersedes].match = e.match
         /\ e.revision = items[e.supersedes].revision + 1
  BY <1>1 DEF Follows, Held
<1>6. GraphInv'
  BY <1>2, <1>3, <1>4, <1>5 DEF GraphInv
<1>7. \A i \in Held : ItemId(items[i]) \in ItemIds /\ ItemId(items[i]).evidence = i
  BY DEF GraphInv, ItemId, ItemIds, Held
<1>8. \A i \in Held : ItemRecord(i)' = ItemRecord(i)
  BY <1>4 DEF ItemRecord, ItemId, GraphInv
<1> DEFINE r == [id |-> ItemId(e),
                 sup |-> IF e.supersedes = None THEN None ELSE ItemId(items[e.supersedes])]
<1>9. PICK k : k = e.id
  OBVIOUS
<1>10. ItemRecord(k)' = r
  BY <1>2, <1>4, <1>5, <1>9 DEF ItemRecord, ItemId
<1>11. GraphItems' = GraphItems \cup {r}
  BY <1>3, <1>8, <1>9, <1>10 DEF GraphItems, Held
<1>12. ItemId(e) \in ItemIds /\ ItemId(e).evidence = e.id
  BY <1>1 DEF ItemId, ItemIds
<1>13. /\ r.id = ItemId(e)
       /\ r.sup = IF e.supersedes = None THEN None ELSE ItemId(items[e.supersedes])
       /\ r \in [id : ItemIds, sup : ItemIds \cup {None}]
  BY <1>5, <1>7, <1>12
<1> HIDE DEF r
<1>14. \A p \in GraphItems : p.id # r.id
  BY <1>1, <1>7, <1>12, <1>13 DEF GraphItems, Held, ItemRecord
<1>15. GraphLog!Grounded(r)
  <2>1. CASE e.supersedes = None
    <3>1. r.sup = None /\ r.id.rev = 1
      BY <1>1, <1>13, <2>1 DEF Follows, ItemId
    <3> QED  BY <3>1 DEF GraphLog!Grounded
  <2>2. CASE e.supersedes # None
    <3>1. r.sup = ItemId(items[e.supersedes]) /\ r.sup # None
      BY <1>5, <1>7, <1>13, <2>2, ItemIdsAssumption
    <3>2. /\ ItemRecord(e.supersedes) \in GraphItems
          /\ ItemRecord(e.supersedes).id = ItemId(items[e.supersedes])
      BY <1>5, <2>2 DEF GraphItems, Held, ItemRecord
    <3>3. /\ ItemId(items[e.supersedes]).key = ItemId(e).key
          /\ ItemId(items[e.supersedes]).rev + 1 = ItemId(e).rev
      BY <1>5, <2>2 DEF ItemId
    <3>4. \E p \in GraphItems : p.id = r.sup /\ p.id.key = r.id.key /\ p.id.rev + 1 = r.id.rev
      BY <1>13, <3>1, <3>2, <3>3
    <3> QED
      BY <3>1, <3>4 DEF GraphLog!Grounded, GraphItems
  <2> QED  BY <2>1, <2>2
<1>16. PICK s : s = r
  OBVIOUS
<1>17. s \in GraphItems' /\ s \in [id : ItemIds, sup : ItemIds \cup {None}]
  BY <1>11, <1>13, <1>16
<1>18. GraphLog!Archive(s)
  BY <1>11, <1>14, <1>15, <1>16 DEF GraphLog!Archive, GraphItems
<1>19. GraphLog!Next
  BY <1>17, <1>18 DEF GraphLog!Next, GraphItems
<1> QED  BY <1>6, <1>19

\* Only Admit adds to the graph.
LEMMA GraphStep ==
    ASSUME GraphInv, [EvidenceNext]_evidence_vars
    PROVE  GraphInv' /\ [GraphLog!Next]_GraphItems
<1>1. ASSUME UNCHANGED items
      PROVE  GraphInv' /\ UNCHANGED GraphItems
  BY <1>1 DEF GraphInv, GraphItems, Held, ItemRecord, ItemId
<1>2. ASSUME NEW a, AssessSource(a)
      PROVE  UNCHANGED items
  BY <1>2 DEF AssessSource
<1>3. ASSUME NEW r, ResolveConflict(r)
      PROVE  UNCHANGED items
  BY <1>3 DEF ResolveConflict
<1>4. CASE UNCHANGED evidence_store
  BY <1>1, <1>4 DEF evidence_store
<1>5. CASE UNCHANGED evidence_vars
  BY <1>1, <1>5 DEF evidence_vars, evidence_store
<1> QED
  BY <1>1, <1>2, <1>3, <1>4, <1>5, AdmitIsLogged DEF EvidenceNext

\* The graph implements the revision log with forks: an item is the first of its
\* line or supersedes one about its claim and match (EvidenceGraphStore.ingest).
THEOREM GraphIsALog == EvidenceSpec => ImplementsGraphLog
<1>1. EvidenceInit => GraphInv /\ GraphLog!Init
  <2>1. ASSUME EvidenceInit
        PROVE  Held = {} /\ items = [i \in EvidenceIds |-> items[i]]
    BY <2>1 DEF EvidenceInit, Held
  <2>2. EvidenceInit => GraphInv
    BY <2>1 DEF GraphInv
  <2>3. EvidenceInit => GraphItems = {}
    BY <2>1 DEF GraphItems, Held
  <2>4. GraphItems = {} => GraphLog!Init
    BY DEF GraphLog!Init, GraphItems
  <2> QED  BY <2>2, <2>3, <2>4
<1>2. GraphInv /\ [EvidenceNext]_evidence_vars => GraphInv' /\ [GraphLog!Next]_GraphItems
  BY GraphStep
<1> QED
  BY <1>1, <1>2, PTL
  DEF EvidenceSpec, ImplementsGraphLog, GraphLog!Spec, GraphItems

Lines == {ContextRecord(r) : r \in records}

\* A record that supersedes none is the first of its line, and the others are
\* numbered after what they supersede.
LineInv ==
    /\ records \subseteq ContextRecords
    /\ \A r \in records :
          LET l == latest[Key(r.observation)]
          IN  l # None /\ r.revision <= l.revision

LEMMA AppendedIsLogged ==
    ASSUME ContextHeld, LineInv, NEW o \in ContextInputs, NEW link \in ContextInputs \cup {None},
           AppendRecord(o, link)
    PROVE  LineInv' /\ ContextLog!LinearNext
<1> USE ContextAssumption
<1> DEFINE p == latest[Key(o)]
           r == [observation |-> o, team |-> TeamOn(o), link |-> link,
                 revision |-> IF p = None THEN 1 ELSE p.revision + 1,
                 supersedes |-> IF p = None THEN None ELSE p.observation]
<1>1. records' = records \cup {r} /\ latest' = [latest EXCEPT ![Key(o)] = r]
  BY DEF AppendRecord
<1>2. Key(o) \in ContextKeys
  BY DEF Key, ContextKeys
<1>3. p # None => /\ p \in records /\ p \in ContextRecords /\ Key(p.observation) = Key(o)
                  /\ p.observation \in ContextInputs /\ p.revision \in Nat \ {0}
  BY <1>2 DEF ContextHeld, LineInv, ContextRecords
<1>4. /\ r.observation = o
      /\ r.revision = IF p = None THEN 1 ELSE p.revision + 1
      /\ r.supersedes = IF p = None THEN None ELSE p.observation
      /\ r.revision \in Nat \ {0} /\ r.supersedes \in ContextInputs \cup {None}
  BY <1>3
<1>5. r \in ContextRecords
  BY <1>4 DEF ContextRecords
<1> HIDE DEF r
<1>6. r # None
  BY <1>5, ContextRecordsAssumption
<1>7. \A k \in ContextKeys : latest'[k] = IF k = Key(o) THEN r ELSE latest[k]
  BY <1>1, <1>2 DEF ContextHeld
<1>8. \A s \in records : Key(s.observation) \in ContextKeys /\ s.revision \in Nat
  BY DEF LineInv, ContextRecords, Key, ContextKeys
<1>9. ASSUME NEW s \in records, Key(s.observation) = Key(o)
      PROVE  s.revision < r.revision
  BY <1>3, <1>4, <1>8, <1>9 DEF LineInv
<1>10. LineInv'
  <2> SUFFICES ASSUME NEW s \in records'
               PROVE  /\ latest'[Key(s.observation)] # None
                      /\ s.revision <= latest'[Key(s.observation)].revision
    BY <1>1, <1>5 DEF LineInv, Key
  <2>1. CASE s = r
    BY <1>2, <1>4, <1>6, <1>7, <2>1
  <2>2. CASE s \in records /\ Key(s.observation) = Key(o)
    BY <1>2, <1>4, <1>6, <1>7, <1>8, <1>9, <2>2
  <2>3. CASE s \in records /\ Key(s.observation) # Key(o)
    BY <1>7, <1>8, <2>3 DEF LineInv
  <2> QED  BY <1>1, <2>1, <2>2, <2>3
<1> DEFINE c == ContextRecord(r)
<1>11. /\ c.id = ContextId(o, r.revision)
       /\ c.sup = IF r.supersedes = None THEN None
                  ELSE ContextId(r.supersedes, r.revision - 1)
       /\ c = [id |-> c.id, sup |-> c.sup]
  BY <1>4 DEF ContextRecord
<1>12. c.id \in ContextIds /\ c.id.key = Key(o) /\ c.id.rev = r.revision
  BY <1>2, <1>4, <1>11 DEF ContextId, ContextIds
<1>13. p # None => /\ c.sup = ContextId(p.observation, p.revision) /\ c.sup \in ContextIds
                   /\ c.sup.key = Key(o) /\ c.sup.rev + 1 = r.revision
  <2> SUFFICES ASSUME p # None
               PROVE  /\ c.sup = ContextId(p.observation, p.revision) /\ c.sup \in ContextIds
                      /\ c.sup.key = Key(o) /\ c.sup.rev + 1 = r.revision
    OBVIOUS
  <2>1. r.supersedes = p.observation /\ r.supersedes # None /\ r.revision - 1 = p.revision
    BY <1>3, <1>4
  <2>2. c.sup = ContextId(p.observation, p.revision)
    BY <1>11, <2>1
  <2>3. /\ ContextId(p.observation, p.revision) \in ContextIds
        /\ ContextId(p.observation, p.revision).key = Key(o)
        /\ ContextId(p.observation, p.revision).rev = p.revision
    BY <1>2, <1>3 DEF ContextId, ContextIds
  <2> QED  BY <1>3, <1>4, <2>1, <2>2, <2>3
<1>14. p = None => c.sup = None
  BY <1>4, <1>11
<1>15. c \in [id : ContextIds, sup : ContextIds \cup {None}]
  BY <1>11, <1>12, <1>13, <1>14
<1>16. Lines' = Lines \cup {c}
  BY <1>1 DEF Lines, ContextRecord, ContextId, Key
<1>17. \A s \in records : /\ ContextRecord(s).id.key = Key(s.observation)
                          /\ ContextRecord(s).id.rev = s.revision
  BY DEF ContextRecord, ContextId
<1> HIDE DEF c
<1>18. \A d \in Lines : d.id.key = c.id.key => d.id.rev < c.id.rev
  BY <1>9, <1>12, <1>17 DEF Lines
<1>19. \A d \in Lines : d.id # c.id
  <2> SUFFICES ASSUME NEW d \in Lines, d.id = c.id
               PROVE  FALSE
    OBVIOUS
  <2>1. d.id.rev < c.id.rev /\ c.id.rev \in Nat
    BY <1>4, <1>12, <1>18
  <2> QED  BY <2>1
<1>20. ContextLog!Grounded(c)
  <2>1. CASE p = None
    <3>1. c.sup = None /\ c.id.rev = 1
      BY <1>4, <1>12, <1>14, <2>1
    <3> QED  BY <3>1 DEF ContextLog!Grounded
  <2>2. CASE p # None
    <3>1. ContextRecord(p) \in Lines /\ ContextRecord(p).id = ContextId(p.observation, p.revision)
      BY <1>3, <2>2 DEF Lines, ContextRecord
    <3>2. c.sup # None
      BY <1>13, <2>2, ContextIdsAssumption
    <3>3. \E d \in Lines : d.id = c.sup /\ d.id.key = c.id.key /\ d.id.rev + 1 = c.id.rev
      BY <1>12, <1>13, <2>2, <3>1
    <3> QED  BY <3>2, <3>3 DEF ContextLog!Grounded, Lines
  <2> QED  BY <2>1, <2>2
<1>21. ContextLog!Latest(c) /\ ContextLog!Archive(c)
  BY <1>16, <1>18, <1>19, <1>20 DEF ContextLog!Latest, ContextLog!Archive, Lines
<1>22. c \in Lines'
  BY <1>16
<1>23. ContextLog!LinearNext
  BY <1>15, <1>21, <1>22 DEF ContextLog!LinearNext, Lines
<1> QED  BY <1>10, <1>23

\* A step of the context stores appends one record or none.
LEMMA ContextLogStep ==
    ASSUME ContextInv, LineInv, [ContextNext]_context_vars
    PROVE  LineInv' /\ [ContextLog!LinearNext]_Lines
<1>1. ASSUME UNCHANGED <<records, latest>>
      PROVE  LineInv' /\ UNCHANGED Lines
  BY <1>1 DEF LineInv, Lines, ContextRecord, ContextId, Key
<1>2. ASSUME NEW o \in ContextInputs, IngestLink(o)
      PROVE  LineInv' /\ [ContextLog!LinearNext]_Lines
  <2>1. AppendRecord(o, None) \/ UNCHANGED <<records, latest>>
    BY <1>2 DEF IngestLink
  <2> QED  BY <1>1, <2>1, AppendedIsLogged DEF ContextInv
<1>3. ASSUME NEW o \in ContextInputs, NEW admitted, RetainContext(o, admitted),
             admitted => Admissible(o)
      PROVE  LineInv' /\ [ContextLog!LinearNext]_Lines
  <2>1. CASE admitted
    <3>1. AppendRecord(o, LinkOf(o).observation) /\ Admissible(o)
      BY <1>3, <2>1 DEF RetainContext
    <3>2. LinkOf(o) # None /\ <<"link", o.match, o.side>> \in ContextKeys
      BY <3>1, ContextAssumption DEF Admissible, ContextKeys, Stores
    <3>3. LinkOf(o).observation \in ContextInputs
      BY <3>2 DEF LinkOf, ContextInv, ContextHeld
    <3> QED  BY <3>1, <3>3, AppendedIsLogged DEF ContextInv
  <2>2. CASE ~admitted
    BY <1>1, <1>3, <2>2 DEF RetainContext
  <2> QED  BY <2>1, <2>2
<1>4. ASSUME NEW o \in ContextInputs,
             IngestAvailability(o) \/ IngestLineup(o) \/ IngestOperational(o)
      PROVE  LineInv' /\ [ContextLog!LinearNext]_Lines
  BY <1>3, <1>4 DEF IngestAvailability, IngestLineup, IngestOperational
<1>5. CASE UNCHANGED context_store
  BY <1>1, <1>5 DEF context_store
<1>6. CASE UNCHANGED context_vars
  BY <1>1, <1>6 DEF context_vars, context_store
<1> QED  BY <1>2, <1>4, <1>5, <1>6 DEF ContextNext

\* Each context store implements the linear revision log of its matches and sides:
\* no revision is lost, rewritten or forked (the four stores' ingest).
THEOREM ContextsAreLogs == ContextSpec => ImplementsContextLogs
<1>1. ContextInit => LineInv /\ ContextLog!Init
  BY DEF ContextInit, LineInv, ContextLog!Init
<1>2. ContextInv /\ LineInv /\ [ContextNext]_context_vars
         => LineInv' /\ [ContextLog!LinearNext]_Lines
  BY ContextLogStep
<1> QED
  BY <1>1, <1>2, ContextInvariance, PTL
  DEF ContextSpec, ImplementsContextLogs, ContextLog!LinearSpec, Lines

----------------------------------------------------------------------------
(* The external market.  A line's snapshots are numbered as they come, and  *)
(* the snapshots of a set can always be put in the order of their times.    *)

MarketHeld ==
    /\ published \subseteq MarketSnapshots /\ IsFiniteSet(published)
    /\ \A s \in published : Priced(s.observation)
    /\ book \in Seq(published)
    /\ market_latest \in [MarketKeys -> published \cup {None}]
    /\ \A s \in published : market_latest[MarketKey(s.observation)] # None

MarketInv == MarketHeld /\ CorrectionsStayOnTheLine

LEMMA ShelvedIsPublished ==
    ASSUME NEW S, NEW s, book \in Seq(S)
    PROVE  Shelve(s) \in Seq(S \cup {s})
<1>1. book \in Seq(S \cup {s})
  OBVIOUS
<1>2. CASE \E i \in DOMAIN book : book[i].id = s.id
  <2>1. Shelve(s) = [i \in 1..Len(book) |-> IF book[i].id = s.id THEN s ELSE book[i]]
    BY <1>2 DEF Shelve
  <2>2. \A i \in 1..Len(book) : (IF book[i].id = s.id THEN s ELSE book[i]) \in S \cup {s}
    OBVIOUS
  <2>3. Len(book) \in Nat
    OBVIOUS
  <2> QED  BY <2>1, <2>2, <2>3
<1>3. CASE ~\E i \in DOMAIN book : book[i].id = s.id
  BY <1>1, <1>3 DEF Shelve
<1> QED  BY <1>2, <1>3

LEMMA IngestKeepsMarketInv ==
    ASSUME MarketInv, NEW o \in MarketInputs, IngestMarket(o)
    PROVE  MarketInv'
<1> DEFINE k == MarketKey(o)
           p == market_latest[k]
           s == [id |-> MarketSnapshotId(o), observation |-> o,
                 revision |-> IF p = None THEN 1 ELSE p.revision + 1]
<1>1. /\ Priced(o) /\ Supersedes(o)
      /\ book' = Shelve(s) /\ market_latest' = [market_latest EXCEPT ![k] = s]
      /\ published' = published \cup {s}
  BY DEF IngestMarket, MarketAccepts
<1>2. k \in MarketKeys /\ \A t \in published : MarketKey(t.observation) \in MarketKeys
  BY DEF MarketKeys, MarketInv, MarketHeld, MarketSnapshots
<1>3. p # None => p.revision \in Nat
  BY <1>2 DEF MarketInv, MarketHeld, MarketSnapshots
<1>4. /\ s.observation = o /\ s.id = MarketSnapshotId(o) /\ s.revision \in Nat
      /\ s \in MarketSnapshots
      /\ s.revision = IF p = None THEN 1 ELSE p.revision + 1
  BY <1>3 DEF MarketSnapshots
<1> HIDE DEF s
<1>5. \A l \in MarketKeys : market_latest'[l] = IF l = k THEN s ELSE market_latest[l]
  BY <1>1 DEF MarketInv, MarketHeld
<1>6. s # None
  BY <1>4, MarketSnapshotsAssumption
<1>7. \A t \in published : t.revision \in Nat
  BY DEF MarketInv, MarketHeld, MarketSnapshots
<1>8. ASSUME NEW t \in published, MarketKey(t.observation) = k
      PROVE  t.revision < s.revision
  <2>1. p # None /\ t.revision <= p.revision
    BY <1>8 DEF MarketInv, MarketHeld, CorrectionsStayOnTheLine
  <2> QED  BY <1>3, <1>4, <1>7, <2>1
<1>9. MarketHeld'
  <2>1. book' \in Seq(published')
    BY <1>1, ShelvedIsPublished DEF MarketInv, MarketHeld
  <2>2. IsFiniteSet(published')
    BY <1>1, FS_AddElement DEF MarketInv, MarketHeld
  <2>3. published' \subseteq MarketSnapshots /\ \A t \in published' : Priced(t.observation)
    BY <1>1, <1>4 DEF MarketInv, MarketHeld
  <2>4. market_latest' \in [MarketKeys -> published' \cup {None}]
    BY <1>1 DEF MarketInv, MarketHeld
  <2>5. \A t \in published' : market_latest'[MarketKey(t.observation)] # None
    BY <1>1, <1>2, <1>4, <1>5, <1>6 DEF MarketInv, MarketHeld
  <2> QED  BY <2>1, <2>2, <2>3, <2>4, <2>5 DEF MarketHeld, Priced
<1>10. o.supersedes # None =>
          \E q \in published : /\ q.id = o.supersedes /\ MarketKey(q.observation) = k
                               /\ q.revision < s.revision
  <2> SUFFICES ASSUME o.supersedes # None
               PROVE  \E q \in published : /\ q.id = o.supersedes
                                           /\ MarketKey(q.observation) = k
                                           /\ q.revision < s.revision
    OBVIOUS
  <2>1. PICK i \in DOMAIN book : book[i].id = o.supersedes /\ MarketKey(book[i].observation) = k
    BY <1>1 DEF Supersedes
  <2>2. book[i] \in published
    BY DEF MarketInv, MarketHeld
  <2> QED  BY <1>8, <2>1, <2>2
<1>11. CorrectionsStayOnTheLine'
  <2> SUFFICES ASSUME NEW t \in published'
               PROVE  LET l == MarketKey(t.observation)
                      IN  /\ t.revision <= market_latest'[l].revision
                          /\ \A u \in published' :
                                MarketKey(u.observation) = l /\ u.revision = t.revision => u = t
                          /\ t.observation.supersedes # None =>
                                \E q \in published' : /\ q.id = t.observation.supersedes
                                                      /\ MarketKey(q.observation) = l
                                                      /\ q.revision < t.revision
    BY DEF CorrectionsStayOnTheLine, MarketKey
  <2>1. CASE t = s
    <3>1. MarketKey(t.observation) = k /\ market_latest'[k] = s
      BY <1>2, <1>4, <1>5, <2>1
    <3>2. \A u \in published' : MarketKey(u.observation) = k /\ u.revision = s.revision => u = s
      BY <1>1, <1>4, <1>7, <1>8
    <3> QED  BY <1>1, <1>4, <1>10, <2>1, <3>1, <3>2
  <2>2. CASE t \in published /\ MarketKey(t.observation) = k
    <3>1. market_latest'[k] = s /\ t.revision < s.revision
      BY <1>2, <1>5, <1>8, <2>2
    <3>2. ASSUME NEW u \in published', MarketKey(u.observation) = k, u.revision = t.revision
          PROVE  u = t
      <4>1. u \in published
        BY <1>1, <1>4, <1>7, <2>2, <3>1, <3>2
      <4> QED  BY <2>2, <3>2, <4>1 DEF MarketInv, CorrectionsStayOnTheLine
    <3>3. t.observation.supersedes # None =>
             \E q \in published' : /\ q.id = t.observation.supersedes
                                   /\ MarketKey(q.observation) = k
                                   /\ q.revision < t.revision
      BY <1>1, <2>2 DEF MarketInv, CorrectionsStayOnTheLine
    <3> QED  BY <1>4, <1>7, <2>2, <3>1, <3>2, <3>3
  <2>3. CASE t \in published /\ MarketKey(t.observation) # k
    <3>1. market_latest'[MarketKey(t.observation)] = market_latest[MarketKey(t.observation)]
      BY <1>2, <1>5, <2>3
    <3> QED  BY <1>1, <1>4, <2>3, <3>1 DEF MarketInv, CorrectionsStayOnTheLine
  <2> QED  BY <1>1, <2>1, <2>2, <2>3
<1> QED  BY <1>9, <1>11 DEF MarketInv

LEMMA MarketInvariance == MarketSpec => []MarketInv
<1>1. MarketInit => MarketInv
  <2> SUFFICES ASSUME MarketInit
               PROVE  MarketInv
    OBVIOUS
  <2>1. published = {} /\ book = <<>> /\ market_latest = [k \in MarketKeys |-> None]
    BY DEF MarketInit
  <2>2. IsFiniteSet(published)
    BY <2>1, FS_EmptySet
  <2> QED  BY <2>1, <2>2 DEF MarketInv, MarketHeld, CorrectionsStayOnTheLine
<1>2. MarketInv /\ [MarketNext]_market_vars => MarketInv'
  <2>1. ASSUME MarketInv, UNCHANGED market_store
        PROVE  MarketInv'
    BY <2>1 DEF market_store, MarketInv, MarketHeld, CorrectionsStayOnTheLine
  <2>2. UNCHANGED market_vars => UNCHANGED market_store
    BY DEF market_vars
  <2> QED  BY <2>1, <2>2, IngestKeepsMarketInv DEF MarketNext
<1> QED  BY <1>1, <1>2, PTL DEF MarketSpec

LEMMA LeastNumber ==
    ASSUME NEW U \in SUBSET Nat, U # {}
    PROVE  \E x \in U : \A y \in U : x <= y
<1> DEFINE R == {z \in Nat \X Nat : z[1] < z[2]}
<1>1. IsWellFoundedOn(R, Nat)
  BY NatLessThanWellFounded DEF OpToRel
<1>2. \A x, y \in Nat : <<x, y>> \in R <=> x < y
  OBVIOUS
<1> HIDE DEF R
<1>3. PICK x \in U : \A y \in U : ~ (<<y, x>> \in R)
  BY <1>1, WFMin
<1>4. x \in Nat /\ \A y \in U : y \in Nat
  OBVIOUS
<1>5. ASSUME NEW y \in U
      PROVE  x <= y
  <2>1. <<y, x>> \notin R
    BY <1>3
  <2>2. <<y, x>> \in R <=> y < x
    BY <1>2, <1>4
  <2> QED  BY <1>4, <2>1, <2>2
<1> QED  BY <1>5

\* An order of a set in which each member may precede those after it.
Orders(S) ==
    {order \in [1..Cardinality(S) -> S] :
        \A i, j \in DOMAIN order :
            i < j => order[i] # order[j] /\ MayPrecede(order[i], order[j])}

Timed(S) ==
    \A s \in S : s.observation.source.state = "KNOWN" /\ s.observation.source.at \in Nat

\* One that has the earliest time goes before an order of the others.
LEMMA EarliestGoesFirst ==
    ASSUME NEW S, IsFiniteSet(S), Timed(S), S # {},
           \A s \in S : Orders(S \ {s}) # {}
    PROVE  Orders(S) # {}
<1>1. PICK s \in S : \A t \in S : s.observation.source.at <= t.observation.source.at
  <2> DEFINE U == {t.observation.source.at : t \in S}
  <2>1. U \in SUBSET Nat /\ U # {}
    BY DEF Timed
  <2>2. PICK x \in U : \A y \in U : x <= y
    BY <2>1, LeastNumber
  <2> QED  BY <2>2
<1> DEFINE n == Cardinality(S)
           T == S \ {s}
<1>2. n \in Nat /\ n # 0 /\ Cardinality(T) = n - 1
  <2>1. n \in Nat
    BY FS_CardinalityType
  <2>2. n # 0
    BY FS_EmptySet
  <2> QED  BY <2>1, <2>2, FS_RemoveElement
<1>3. PICK f \in Orders(T) : TRUE
  BY <1>1
<1> DEFINE g == [i \in 1..n |-> IF i = 1 THEN s ELSE f[i - 1]]
<1>4. /\ f \in [1..(n - 1) -> T]
      /\ \A i, j \in 1..(n - 1) : i < j => f[i] # f[j] /\ MayPrecede(f[i], f[j])
  BY <1>2 DEF Orders
<1> HIDE DEF n, T
<1>5. \A i \in 1..n : i # 1 => i - 1 \in 1..(n - 1) /\ g[i] = f[i - 1] /\ g[i] \in T
  BY <1>2, <1>4
<1>6. g \in [1..n -> S] /\ g[1] = s
  BY <1>2, <1>5 DEF T
<1>7. ASSUME NEW i \in 1..n, NEW j \in 1..n, i < j
      PROVE  g[i] # g[j] /\ MayPrecede(g[i], g[j])
  <2>1. j # 1 /\ g[j] \in T /\ g[j] = f[j - 1] /\ j - 1 \in 1..(n - 1)
    BY <1>2, <1>5, <1>7
  <2>2. CASE i = 1
    BY <1>1, <1>6, <2>1, <2>2 DEF T, MayPrecede, Timed
  <2>3. CASE i # 1
    <3>1. g[i] = f[i - 1] /\ i - 1 \in 1..(n - 1) /\ i - 1 < j - 1
      BY <1>2, <1>5, <1>7, <2>3
    <3> QED  BY <1>4, <2>1, <3>1
  <2> QED  BY <2>2, <2>3
<1>8. g \in Orders(S)
  BY <1>6, <1>7 DEF Orders, n
<1> QED  BY <1>8

\* No set is the smallest without an order.
LEMMA OrdersExist ==
    ASSUME NEW S, IsFiniteSet(S), Timed(S)
    PROVE  Orders(S) # {}
<1> DEFINE Lacks(n) == \E T \in SUBSET S : Cardinality(T) = n /\ Orders(T) = {}
           U == {n \in Nat : Lacks(n)}
<1> SUFFICES ASSUME Orders(S) = {}
             PROVE  FALSE
  OBVIOUS
<1>1. \A T \in SUBSET S : IsFiniteSet(T) /\ Cardinality(T) \in Nat /\ Timed(T)
  BY FS_Subset, FS_CardinalityType DEF Timed
<1>2. Cardinality(S) \in U
  BY <1>1
<1>3. PICK n \in U : \A m \in U : n <= m
  <2>1. U \in SUBSET Nat /\ U # {}
    BY <1>2
  <2> HIDE DEF U
  <2> QED  BY <2>1, LeastNumber
<1>4. PICK T \in SUBSET S : Cardinality(T) = n /\ Orders(T) = {}
  BY <1>3
<1>5. T # {}
  <2> SUFFICES ASSUME T = {}
               PROVE  Orders(T) # {}
    BY <1>4
  <2>1. Cardinality(T) = 0
    BY FS_EmptySet
  <2>2. [i \in 1..0 |-> i] \in [1..Cardinality(T) -> T]
    BY <2>1
  <2>3. [i \in 1..0 |-> i] \in Orders(T)
    BY <2>2 DEF Orders
  <2> QED  BY <2>3
<1>6. ASSUME NEW s \in T
      PROVE  Orders(T \ {s}) # {}
  <2>1. Cardinality(T \ {s}) = n - 1 /\ n \in Nat
    BY <1>1, <1>4, FS_RemoveElement
  <2>2. Cardinality(T \ {s}) \in Nat /\ T \ {s} \in SUBSET S
    BY <1>1
  <2>3. n - 1 \notin U
    BY <1>3, <2>1, <2>2
  <2> QED  BY <2>1, <2>2, <2>3
<1> QED  BY <1>1, <1>4, <1>5, <1>6, EarliestGoesFirst

\* Corrections stay on their market line and follow what they correct, and a
\* normalized set that is accepted is priced and in the order of its source times
\* (ExternalMarketSnapshotStore.ingest, ExternalSourceTimeNormalizer.normalize).
THEOREM MarketLinesAreAlwaysSound == MarketSpec => []MarketLinesAreSound
<1>1. MarketInv => AcceptedSetsAreUsable
  <2> SUFFICES ASSUME MarketInv, NEW S \in SUBSET published, NormalizedOK(S)
               PROVE  LET order == InSourceOrder(S)
                      IN  /\ \A i, j \in DOMAIN order :
                                i < j => order[i].observation.source.at
                                            <= order[j].observation.source.at
                          /\ \A s \in S : s.observation.prices # None
    BY DEF AcceptedSetsAreUsable
  <2>1. \A s \in S : s.observation \in MarketInputs /\ Priced(s.observation)
    BY DEF MarketInv, MarketHeld, MarketSnapshots
  <2>2. \A s \in S : s.observation.prices # None
    BY <2>1 DEF NormalizedOK, Priced
  <2>3. Timed(S) /\ IsFiniteSet(S)
    BY <2>1, MarketAssumption, FS_Subset DEF NormalizedOK, Timed, MarketInv, MarketHeld
  <2>4. InSourceOrder(S) \in Orders(S)
    <3>1. InSourceOrder(S) = CHOOSE order \in Orders(S) : TRUE
      BY Zenon DEF InSourceOrder, Orders
    <3>2. PICK order : order \in Orders(S)
      BY <2>3, OrdersExist
    <3>3. (CHOOSE f \in Orders(S) : TRUE) \in Orders(S)
      BY <3>2
    <3> QED  BY <3>1, <3>3
  <2>5. ASSUME NEW order \in Orders(S), NEW i \in DOMAIN order, NEW j \in DOMAIN order, i < j
        PROVE  order[i].observation.source.at <= order[j].observation.source.at
    <3>1. MayPrecede(order[i], order[j]) /\ order[j] \in S
      BY <2>5 DEF Orders
    <3> QED  BY <2>3, <3>1 DEF MayPrecede, Timed
  <2> QED  BY <2>2, <2>4, <2>5
<1>2. MarketInv => MarketLinesAreSound
  BY <1>1 DEF MarketInv, MarketLinesAreSound
<1> QED  BY <1>2, MarketInvariance, PTL

----------------------------------------------------------------------------
(* The stores together: they share the identities, which only ResolveMatch  *)
(* changes, so a step of one is a step of each of the others or none.       *)

LEMMA IdentitiesAreShared ==
    ASSUME OddsNext \/ EvidenceNext \/ ContextNext \/ MarketNext
    PROVE  UNCHANGED matches \/ \E m \in Matches \ matches : ResolveMatch(m)
<1>1. OddsNext => UNCHANGED matches \/ \E m \in Matches \ matches : ResolveMatch(m)
  BY DEF OddsNext, IngestOdds, IngestScreenshot, EvaluateGate, RecordOdds
<1>2. EvidenceNext => UNCHANGED matches \/ \E m \in Matches \ matches : ResolveMatch(m)
  BY DEF EvidenceNext, Admit, AssessSource, ResolveConflict
<1>3. ContextNext => UNCHANGED matches \/ \E m \in Matches \ matches : ResolveMatch(m)
  BY DEF ContextNext, IngestLink, IngestAvailability, IngestLineup, IngestOperational,
         RetainContext
<1>4. MarketNext => UNCHANGED matches \/ \E m \in Matches \ matches : ResolveMatch(m)
  BY DEF MarketNext, IngestMarket
<1> QED  BY <1>1, <1>2, <1>3, <1>4

\* A step of the stores is a step of each, or leaves it alone.
LEMMA StoresMoveApart ==
    ASSUME [StoresNext]_stores_vars
    PROVE  /\ [OddsNext]_odds_vars /\ [EvidenceNext]_evidence_vars
           /\ [ContextNext]_context_vars /\ [MarketNext]_market_vars
<1> DEFINE Resolved == UNCHANGED matches \/ \E m \in Matches \ matches : ResolveMatch(m)
<1>1. ASSUME Resolved, UNCHANGED odds_store
      PROVE  [OddsNext]_odds_vars
  BY <1>1 DEF OddsNext, odds_vars
<1>2. ASSUME Resolved, UNCHANGED evidence_store
      PROVE  [EvidenceNext]_evidence_vars
  BY <1>2 DEF EvidenceNext, evidence_vars
<1>3. ASSUME Resolved, UNCHANGED context_store
      PROVE  [ContextNext]_context_vars
  BY <1>3 DEF ContextNext, context_vars
<1>4. ASSUME Resolved, UNCHANGED market_store
      PROVE  [MarketNext]_market_vars
  BY <1>4 DEF MarketNext, market_vars
<1>5. CASE UNCHANGED stores_vars
  BY <1>5 DEF stores_vars
<1>6. CASE OddsNext /\ UNCHANGED <<evidence_store, context_store, market_store>>
  <2>1. Resolved
    BY <1>6, IdentitiesAreShared
  <2> QED  BY <1>2, <1>3, <1>4, <1>6, <2>1
<1>7. CASE EvidenceNext /\ UNCHANGED <<odds_store, context_store, market_store>>
  <2>1. Resolved
    BY <1>7, IdentitiesAreShared
  <2> QED  BY <1>1, <1>3, <1>4, <1>7, <2>1
<1>8. CASE ContextNext /\ UNCHANGED <<odds_store, evidence_store, market_store>>
  <2>1. Resolved
    BY <1>8, IdentitiesAreShared
  <2> QED  BY <1>1, <1>2, <1>4, <1>8, <2>1
<1>9. CASE MarketNext /\ UNCHANGED <<odds_store, evidence_store, context_store>>
  <2>1. Resolved
    BY <1>9, IdentitiesAreShared
  <2> QED  BY <1>1, <1>2, <1>3, <1>9, <2>1
<1> QED  BY <1>5, <1>6, <1>7, <1>8, <1>9 DEF StoresNext

LEMMA StoresBehaveApart ==
    StoresSpec => OddsSpec /\ EvidenceSpec /\ ContextSpec /\ MarketSpec
<1>1. StoresInit => OddsInit /\ EvidenceInit /\ ContextInit /\ MarketInit
  BY DEF StoresInit
<1>2. [StoresNext]_stores_vars =>
         /\ [OddsNext]_odds_vars /\ [EvidenceNext]_evidence_vars
         /\ [ContextNext]_context_vars /\ [MarketNext]_market_vars
  BY StoresMoveApart
<1> QED
  BY <1>1, <1>2, PTL DEF StoresSpec, OddsSpec, EvidenceSpec, ContextSpec, MarketSpec

\* Together too the ledger, the graph and the context stores implement their logs.
THEOREM StoresAreLogsTogether == StoresSpec => StoresAreLogs
BY StoresBehaveApart, LedgerIsALog, GraphIsALog, ContextsAreLogs, PTL DEF StoresAreLogs

----------------------------------------------------------------------------
(* From a sealed bundle to the gate.  What is eligible is judged by the     *)
(* blockers of the assessment, so these have to be those of its inputs.     *)

\* A value took effect by the cutoff.
InTime(f, cutoff) ==
    f.value # None =>
        \A t \in {f.effective, IF f.effective = None THEN f.source ELSE None} :
            t # None => t <= cutoff

\* An assessment is of one bundle, and says what blocks every input.
Assessed(a) ==
    \E b \in SealedBundles, I \in AssessmentSets :
        /\ a.match = b.match /\ a.cutoff = b.cutoff /\ a.kickoff = b.kickoff
        /\ a.inputs = I
        /\ \A i \in I : InputBlockers(i, I, b) \subseteq a.blockers

IntelligenceHeld ==
    \A x \in intelligence :
        \E b \in SealedBundles, S \in Statistics, O \in ContextSets, n \in Revisions :
            x = IntelligenceArtifact(b, S, O, n, x.supersedes)

TacticalsHeld ==
    \A t \in tacticals : \A f \in t.features : f.state = "AVAILABLE" => f.value # None

AssessmentsHeld == \A a \in assessments : Assessed(a)

GateInv ==
    /\ LateValuesAreDropped /\ EligibleRestsOnSoundInputs
    /\ IntelligenceHeld /\ TacticalsHeld /\ AssessmentsHeld

LEMMA GateInvInit == GateInit => GateInv
BY DEF GateInit, GateInv, LateValuesAreDropped, EligibleRestsOnSoundInputs,
       IntelligenceHeld, TacticalsHeld, AssessmentsHeld

\* Each engine appends to its own store.
LEMMA EnginesKeepTheRest ==
    ASSUME NEW rev, NEW b, NEW S, NEW O, NEW sup, NEW a, NEW c, NEW t
    PROVE  /\ AppendIntelligence(b, S, O, rev, sup) =>
                 UNCHANGED <<integrations, tacticals, assessments, gate_records>>
           /\ AppendIntegration(a, O, rev, sup) =>
                 UNCHANGED <<intelligence, tacticals, assessments, gate_records>>
           /\ AppendTactical(b, c, O, rev, sup) =>
                 UNCHANGED <<intelligence, integrations, assessments, gate_records>>
           /\ AppendAssessment(b, O, rev, sup) =>
                 UNCHANGED <<intelligence, integrations, tacticals, gate_records>>
           /\ AppendGate(t, a, rev, sup) =>
                 UNCHANGED <<intelligence, integrations, tacticals, assessments>>
<1>1. AppendIntelligence(b, S, O, rev, sup) =>
         UNCHANGED <<integrations, tacticals, assessments, gate_records>>
  BY DEF AppendIntelligence
<1>2. AppendIntegration(a, O, rev, sup) =>
         UNCHANGED <<intelligence, tacticals, assessments, gate_records>>
  BY DEF AppendIntegration
<1>3. AppendTactical(b, c, O, rev, sup) =>
         UNCHANGED <<intelligence, integrations, assessments, gate_records>>
  BY DEF AppendTactical
<1>4. AppendAssessment(b, O, rev, sup) =>
         UNCHANGED <<intelligence, integrations, tacticals, gate_records>>
  BY DEF AppendAssessment
<1>5. AppendGate(t, a, rev, sup) =>
         UNCHANGED <<intelligence, integrations, tacticals, assessments>>
  BY DEF AppendGate
<1> QED
  BY <1>1, <1>2, <1>3, <1>4, <1>5

LEMMA IntelligenceHeldStep ==
    ASSUME IntelligenceHeld, GateNext \/ UNCHANGED gate_store
    PROVE  IntelligenceHeld'
<1>1. CASE UNCHANGED gate_store
  BY <1>1 DEF IntelligenceHeld, gate_store
<1>2. CASE UNCHANGED intelligence
  BY <1>2 DEF IntelligenceHeld
<1>3. ASSUME NEW rev \in Revisions, NEW b \in SealedBundles, NEW S \in Statistics,
             NEW O \in ContextSets, NEW sup \in Correctable(intelligence),
             AppendIntelligence(b, S, O, rev, sup)
      PROVE  IntelligenceHeld'
  <2> DEFINE x == IntelligenceArtifact(b, S, O, rev, sup)
  <2>1. intelligence' = intelligence \cup {x}
    BY <1>3 DEF AppendIntelligence
  <2>2. x.supersedes = sup
    BY DEF IntelligenceArtifact
  <2> QED
    BY <2>1, <2>2 DEF IntelligenceHeld
<1>4. GateNext => UNCHANGED intelligence
        \/ \E rev \in Revisions, b \in SealedBundles, S \in Statistics, O \in ContextSets,
              sup \in Correctable(intelligence) : AppendIntelligence(b, S, O, rev, sup)
  BY EnginesKeepTheRest DEF GateNext
<1> QED
  BY <1>1, <1>2, <1>3, <1>4

\* An engine looks at the time from which a value counts.
LEMMA ValuesAreInTime ==
    ASSUME NEW b \in SealedBundles, NEW O \in ContextSets \cup TacticalSets, NEW o \in O
    PROVE  /\ O \in ContextSets => InTime(ObservedFeature(o, b), b.cutoff)
           /\ O \in TacticalSets => InTime(TacticalFeature(o, b), b.cutoff)
<1>1. b.cutoff \in Nat /\ {o.source, o.observed, o.effective} \subseteq Nat \cup {None}
  BY QualityGateAssumption, GateInputsAssumption
<1>2. None \notin Nat
  BY QualityGateAssumption
<1>3. ASSUME NEW t \in {o.effective, IF o.effective = None THEN o.source ELSE None}, t # None
      PROVE  t = EffectiveTime(o) /\ EffectiveTime(o) \in Nat
  BY <1>1, <1>3 DEF EffectiveTime
<1>4. InTime(ObservedFeature(o, b), b.cutoff)
  <2> DEFINE f == ObservedFeature(o, b)
  <2>1. f.effective = o.effective /\ f.source = o.source
    BY DEF ObservedFeature
  <2>2. f.value # None => ~(EffectiveTime(o) > b.cutoff)
    BY DEF ObservedFeature
  <2> QED
    BY <1>1, <1>3, <2>1, <2>2 DEF InTime
<1>5. InTime(TacticalFeature(o, b), b.cutoff)
  <2> DEFINE f == TacticalFeature(o, b)
  <2>1. f.effective = o.effective /\ f.source = o.source
    BY DEF TacticalFeature
  <2>2. f.value # None => ~(EffectiveTime(o) > b.cutoff)
    BY DEF TacticalFeature
  <2> QED
    BY <1>1, <1>3, <2>1, <2>2 DEF InTime
<1> QED
  BY <1>4, <1>5

\* What an engine of V4-044, V4-045 or V4-049 adds is in time.
LEMMA LateIsDroppedStep ==
    ASSUME LateValuesAreDropped, IntelligenceHeld, GateNext \/ UNCHANGED gate_store
    PROVE  LateValuesAreDropped'
<1> DEFINE Timely(x) == \A f \in x.features : InTime(f, x.bundle.cutoff)
<1>1. LateValuesAreDropped = \A x \in intelligence \cup integrations \cup tacticals : Timely(x)
  BY DEF LateValuesAreDropped, InTime
<1>2. LateValuesAreDropped' =
        \A x \in intelligence' \cup integrations' \cup tacticals' : Timely(x)
  BY DEF LateValuesAreDropped, InTime
<1>3. \A x \in intelligence \cup integrations \cup tacticals : Timely(x)
  BY <1>1
<1> HIDE DEF Timely
<1>4. CASE UNCHANGED gate_store
  BY <1>2, <1>3, <1>4 DEF gate_store
<1>5. CASE GateNext
  <2> PICK rev \in Revisions :
        \/ \E b \in SealedBundles, S \in Statistics, O \in ContextSets,
              sup \in Correctable(intelligence) :
              AppendIntelligence(b, S, O, rev, sup)
        \/ \E a \in intelligence, O \in ContextSets, sup \in Correctable(integrations) :
              AppendIntegration(a, O, rev, sup)
        \/ \E b \in SealedBundles, c \in integrations, O \in TacticalSets,
              sup \in Correctable(tacticals) : AppendTactical(b, c, O, rev, sup)
        \/ \E b \in SealedBundles, I \in AssessmentSets, sup \in Correctable(assessments) :
              AppendAssessment(b, I, rev, sup)
        \/ \E t \in tacticals, a \in assessments, sup \in Correctable(gate_records) :
              AppendGate(t, a, rev, sup)
    BY <1>5 DEF GateNext
  <2>1. ASSUME NEW b \in SealedBundles, NEW S \in Statistics, NEW O \in ContextSets,
               NEW sup \in Correctable(intelligence), AppendIntelligence(b, S, O, rev, sup)
        PROVE  LateValuesAreDropped'
    <3> DEFINE x == IntelligenceArtifact(b, S, O, rev, sup)
    <3>1. intelligence' = intelligence \cup {x} /\ UNCHANGED <<integrations, tacticals>>
      BY <2>1 DEF AppendIntelligence
    <3>2. Timely(x)
      BY ValuesAreInTime DEF Timely, IntelligenceArtifact
    <3> QED
      BY <1>2, <1>3, <3>1, <3>2
  <2>2. ASSUME NEW a \in intelligence, NEW O \in ContextSets,
               NEW sup \in Correctable(integrations), AppendIntegration(a, O, rev, sup)
        PROVE  LateValuesAreDropped'
    <3>1. a.bundle \in SealedBundles
      BY DEF IntelligenceHeld, IntelligenceArtifact
    <3> PICK x : /\ x.bundle = a.bundle
                 /\ x.features = a.features
                      \cup Added({ObservedFeature(o, a.bundle) : o \in O}, a.features)
                 /\ integrations' = integrations \cup {x}
                 /\ UNCHANGED <<intelligence, tacticals>>
      BY <2>2 DEF AppendIntegration
    <3>2. \A f \in x.features :
             f \in a.features \/ \E o \in O : f = ObservedFeature(o, a.bundle)
      BY DEF Added
    <3>3. Timely(a)
      BY <1>3
    <3>4. Timely(x)
      BY <3>1, <3>2, <3>3, ValuesAreInTime DEF Timely
    <3> QED
      BY <1>2, <1>3, <3>4
  <2>3. ASSUME NEW b \in SealedBundles, NEW c \in integrations, NEW O \in TacticalSets,
               NEW sup \in Correctable(tacticals), AppendTactical(b, c, O, rev, sup)
        PROVE  LateValuesAreDropped'
    <3> PICK x : /\ x.bundle = b /\ x.features = {TacticalFeature(o, b) : o \in O}
                 /\ tacticals' = tacticals \cup {x}
                 /\ UNCHANGED <<intelligence, integrations>>
      BY <2>3 DEF AppendTactical
    <3>1. Timely(x)
      BY ValuesAreInTime DEF Timely
    <3> QED
      BY <1>2, <1>3, <3>1
  <2>4. ASSUME NEW b \in SealedBundles, NEW I \in AssessmentSets,
               NEW sup \in Correctable(assessments), AppendAssessment(b, I, rev, sup)
        PROVE  LateValuesAreDropped'
    BY <1>2, <1>3, <2>4 DEF AppendAssessment
  <2>5. ASSUME NEW t \in tacticals, NEW a \in assessments,
               NEW sup \in Correctable(gate_records), AppendGate(t, a, rev, sup)
        PROVE  LateValuesAreDropped'
    BY <1>2, <1>3, <2>5 DEF AppendGate
  <2> QED
    BY <2>1, <2>2, <2>3, <2>4, <2>5
<1> QED
  BY <1>4, <1>5

\* A value that is known, of inputs with nothing wrong.
RestsOnSound(f, I, match, cutoff) ==
    /\ f.value # None
    /\ \A i \in I :
          /\ i.hash # None
          /\ i.match \in {None, match}
          /\ \A j \in I : j.id = i.id => <<j.hash, j.revision>> = <<i.hash, i.revision>>
          /\ i.domain \in {f.category, "CONTEXT"} =>
                i.available # None /\ i.available <= cutoff

\* Where no blocker of an input is related to a feature, nothing is wrong with it.
LEMMA UnblockedIsSound ==
    ASSUME NEW b \in SealedBundles, NEW I \in AssessmentSets, NEW i \in I, NEW f, NEW B,
           InputBlockers(i, I, b) \subseteq B, RelatedHard(f, B) = {}
    PROVE  /\ i.hash # None
           /\ i.match \in {None, b.match}
           /\ \A j \in I : j.id = i.id => <<j.hash, j.revision>> = <<i.hash, i.revision>>
           /\ i.domain \in {f.category, "CONTEXT"} =>
                 i.available # None /\ i.available <= b.cutoff
<1>1. \A x \in InputBlockers(i, I, b) :
         x.scope \notin WideScopes /\ x.domain \notin {f.category, "CONTEXT"}
  BY DEF RelatedHard
<1>2. \A code, scope :
         /\ Blocker(code, scope, i.domain).scope = scope
         /\ Blocker(code, scope, i.domain).domain = i.domain
  BY DEF Blocker
<1>3. {"AFFECTED_LINEAGE", "CANDIDATE_SET"} \subseteq WideScopes
  BY DEF WideScopes
<1>4. i.hash # None
  <2>1. i.hash = None =>
          Blocker("REQUIRED_HASH_MISSING", "AFFECTED_LINEAGE", i.domain)
             \in InputBlockers(i, I, b)
    BY DEF InputBlockers
  <2> QED
    BY <1>1, <1>2, <1>3, <2>1
<1>5. i.match \in {None, b.match}
  <2>1. i.match \notin {None, b.match} =>
          Blocker("CANONICAL_IDENTITY_MISMATCH", "CANDIDATE_SET", i.domain)
             \in InputBlockers(i, I, b)
    BY DEF InputBlockers
  <2> QED
    BY <1>1, <1>2, <1>3, <2>1
<1>6. ASSUME NEW j \in I, j.id = i.id,
             <<j.hash, j.revision>> # <<i.hash, i.revision>>
      PROVE  FALSE
  <2>1. Blocker("REVISION_HASH_CONFLICT", "AFFECTED_LINEAGE", i.domain)
           \in InputBlockers(i, I, b)
    BY <1>6 DEF InputBlockers
  <2> QED
    BY <1>1, <1>2, <1>3, <2>1
<1>7. ASSUME i.domain \in {f.category, "CONTEXT"}
      PROVE  i.available # None /\ i.available <= b.cutoff
  <2>1. \A code : Blocker(code, "AFFECTED_DOMAIN", i.domain) \notin InputBlockers(i, I, b)
    BY <1>1, <1>2, <1>7
  <2>2. i.available = None =>
          Blocker("SOURCE_TIMESTAMP_UNKNOWN", "AFFECTED_DOMAIN", i.domain)
             \in InputBlockers(i, I, b)
    BY DEF InputBlockers
  <2>3. i.available # None /\ ~(i.available >= b.kickoff) /\ i.available > b.cutoff =>
          Blocker("FUTURE_DATA", "AFFECTED_DOMAIN", i.domain) \in InputBlockers(i, I, b)
    BY DEF InputBlockers
  <2>4. i.available # None /\ i.available >= b.kickoff =>
          Blocker("POST_MATCH_DATA", "AFFECTED_DOMAIN", i.domain)
             \in InputBlockers(i, I, b)
    BY DEF InputBlockers
  <2>5. i.available \in Nat \cup {None} /\ b.cutoff \in Nat
    BY QualityGateAssumption, GateInputsAssumption
  <2> QED
    BY <2>1, <2>2, <2>3, <2>4, <2>5
<1> QED
  BY <1>4, <1>5, <1>6, <1>7

LEMMA TacticalsHeldStep ==
    ASSUME TacticalsHeld, GateNext \/ UNCHANGED gate_store
    PROVE  TacticalsHeld'
<1>1. CASE UNCHANGED tacticals
  BY <1>1 DEF TacticalsHeld
<1>2. ASSUME NEW rev \in Revisions, NEW b \in SealedBundles, NEW c \in integrations,
             NEW O \in TacticalSets, NEW sup \in Correctable(tacticals),
             AppendTactical(b, c, O, rev, sup)
      PROVE  TacticalsHeld'
  <2>1. \A o \in O : (o.state = "AVAILABLE") = (o.value # None)
    BY <1>2 DEF AppendTactical
  <2>2. \A o \in O : LET f == TacticalFeature(o, b)
                     IN  f.state = "AVAILABLE" => f.value # None
    BY <2>1 DEF TacticalFeature
  <2> PICK x : /\ x.features = {TacticalFeature(o, b) : o \in O}
               /\ tacticals' = tacticals \cup {x}
    BY <1>2 DEF AppendTactical
  <2> QED
    BY <2>2 DEF TacticalsHeld
<1>3. GateNext => UNCHANGED tacticals
        \/ \E rev \in Revisions, b \in SealedBundles, c \in integrations,
              O \in TacticalSets, sup \in Correctable(tacticals) :
                 AppendTactical(b, c, O, rev, sup)
  BY EnginesKeepTheRest DEF GateNext
<1> QED
  BY <1>1, <1>2, <1>3 DEF gate_store

LEMMA AssessmentsHeldStep ==
    ASSUME AssessmentsHeld, GateNext \/ UNCHANGED gate_store
    PROVE  AssessmentsHeld'
<1>1. CASE UNCHANGED assessments
  BY <1>1 DEF AssessmentsHeld, Assessed
<1>2. ASSUME NEW rev \in Revisions, NEW b \in SealedBundles, NEW I \in AssessmentSets,
             NEW sup \in Correctable(assessments), AppendAssessment(b, I, rev, sup)
      PROVE  AssessmentsHeld'
  <2> PICK x : /\ x.match = b.match /\ x.cutoff = b.cutoff /\ x.kickoff = b.kickoff
               /\ x.inputs = I /\ x.blockers = UNION {InputBlockers(i, I, b) : i \in I}
               /\ assessments' = assessments \cup {x}
    BY <1>2 DEF AppendAssessment
  <2>1. Assessed(x)
    BY DEF Assessed
  <2> QED
    BY <2>1 DEF AssessmentsHeld
<1>3. GateNext => UNCHANGED assessments
        \/ \E rev \in Revisions, b \in SealedBundles, I \in AssessmentSets,
              sup \in Correctable(assessments) : AppendAssessment(b, I, rev, sup)
  BY EnginesKeepTheRest DEF GateNext
<1> QED
  BY <1>1, <1>2, <1>3 DEF gate_store

\* A gate sees the blockers of the assessment it is given.
LEMMA GateIsSoundStep ==
    ASSUME EligibleRestsOnSoundInputs, TacticalsHeld, AssessmentsHeld,
           GateNext \/ UNCHANGED gate_store
    PROVE  EligibleRestsOnSoundInputs'
<1> DEFINE Sound(g) ==
       \A r \in g.features :
          r.state = "ELIGIBLE" =>
             RestsOnSound(r.feature, g.assessment.inputs, g.match, g.assessment.cutoff)
<1>1. /\ \A g \in gate_records : Sound(g)
      /\ EligibleRestsOnSoundInputs' = \A g \in gate_records' : Sound(g)
  BY DEF EligibleRestsOnSoundInputs, RestsOnSound
<1>2. CASE UNCHANGED gate_records
  BY <1>1, <1>2
<1>3. ASSUME NEW rev \in Revisions, NEW t \in tacticals, NEW a \in assessments,
             NEW sup \in Correctable(gate_records), AppendGate(t, a, rev, sup)
      PROVE  EligibleRestsOnSoundInputs'
  <2> DEFINE B == GateBlockers(t, a)
  <2> PICK x : /\ x.match = t.match /\ x.assessment = ArtifactIdentity(a)
               /\ x.features = {[feature |-> f, state |-> FeatureEligibility(f, B)] :
                                   f \in t.features}
               /\ gate_records' = gate_records \cup {x}
    BY <1>3 DEF AppendGate
  <2>1. t.match = a.match
    BY <1>3 DEF AppendGate
  <2> PICK b \in SealedBundles, I \in AssessmentSets :
        /\ a.match = b.match /\ a.cutoff = b.cutoff /\ a.kickoff = b.kickoff
        /\ a.inputs = I
        /\ \A i \in I : InputBlockers(i, I, b) \subseteq a.blockers
    BY DEF AssessmentsHeld, Assessed
  <2>2. x.assessment.inputs = I /\ x.assessment.cutoff = b.cutoff /\ x.match = b.match
    BY <2>1 DEF ArtifactIdentity
  <2>3. \A i \in I : InputBlockers(i, I, b) \subseteq B
    BY DEF GateBlockers
  <2>4. ASSUME NEW f \in t.features, FeatureEligibility(f, B) = "ELIGIBLE"
        PROVE  f.value # None /\ RelatedHard(f, B) = {}
    BY <2>4 DEF FeatureEligibility, TacticalsHeld
  <2>5. Sound(x)
    <3>1. ASSUME NEW f \in t.features, FeatureEligibility(f, B) = "ELIGIBLE"
          PROVE  RestsOnSound(f, I, b.match, b.cutoff)
      BY <2>3, <2>4, <3>1, UnblockedIsSound DEF RestsOnSound
    <3> QED
      BY <2>2, <3>1
  <2> QED
    BY <1>1, <2>5
<1>4. GateNext => UNCHANGED gate_records
        \/ \E rev \in Revisions, t \in tacticals, a \in assessments,
              sup \in Correctable(gate_records) : AppendGate(t, a, rev, sup)
  BY EnginesKeepTheRest DEF GateNext
<1> QED
  BY <1>2, <1>3, <1>4 DEF gate_store

\* EligibleIsSound: no engine hands on a value that took effect after its
\* bundle's cutoff, and what the gate lets pass is known and judged by inputs
\* with nothing wrong (V4-044, V4-045, V4-049 to V4-051).
THEOREM EligibleIsAlwaysSound == GateSpec => []EligibleIsSound
<1>1. GateInv /\ [GateNext]_gate_vars => GateInv'
  <2> SUFFICES ASSUME GateInv, GateNext \/ UNCHANGED gate_store
               PROVE  GateInv'
    BY DEF gate_vars
  <2> QED
    BY LateIsDroppedStep, IntelligenceHeldStep, TacticalsHeldStep, AssessmentsHeldStep,
       GateIsSoundStep DEF GateInv
<1>2. GateInv => EligibleIsSound
  BY DEF GateInv, EligibleIsSound
<1> QED
  BY GateInvInit, <1>1, <1>2, PTL DEF GateSpec

Thoughts == {IntelligenceRecord(x) : x \in intelligence}

\* A first artifact of a bundle, or a correction of its latest one.
LEMMA IntelligenceIsLogged ==
    ASSUME IntelligenceHeld, NEW rev \in Revisions, NEW b \in SealedBundles,
           NEW S \in Statistics, NEW O \in ContextSets, NEW sup \in Correctable(intelligence),
           AppendIntelligence(b, S, O, rev, sup)
    PROVE  IntelligenceLog!LinearNext
<1> DEFINE x == IntelligenceArtifact(b, S, O, rev, sup)
           c == IntelligenceRecord(x)
           line == {y \in intelligence : IntelligenceFamily(y) = IntelligenceFamily(x)}
<1>1. /\ intelligence' = intelligence \cup {x}
      /\ IsNew(x, intelligence) /\ FollowsLatest(x, line)
  BY DEF AppendIntelligence
<1>2. ASSUME NEW y, NEW d \in SealedBundles, NEW R \in Statistics, NEW U \in ContextSets,
             NEW n \in Revisions, y = IntelligenceArtifact(d, R, U, n, y.supersedes)
      PROVE  /\ ArtifactIdentity(y) = IntelligenceArtifact(d, R, U, n, None)
             /\ ArtifactIdentity(y) \in IntelligenceContents
             /\ IntelligenceId(ArtifactIdentity(y)) \in IntelligenceIds
             /\ IntelligenceId(ArtifactIdentity(y)).key = IntelligenceFamily(y)
             /\ IntelligenceId(ArtifactIdentity(y)).rev = y.revision
             /\ IntelligenceId(ArtifactIdentity(y)).content = ArtifactIdentity(y)
             /\ y.revision \in Revisions
  <2> DEFINE z == IntelligenceArtifact(d, R, U, n, None)
  <2>1. ArtifactIdentity(y) = z
    <3> PICK s : s = y.supersedes
      OBVIOUS
    <3>1. y = IntelligenceArtifact(d, R, U, n, s)
      BY <1>2
    <3> QED
      BY <3>1 DEF ArtifactIdentity, IntelligenceArtifact
  <2>2. z \in IntelligenceContents
    BY DEF IntelligenceContents
  <2>3. z.bundle = d /\ z.revision = n
    BY DEF IntelligenceArtifact
  <2>4. y.bundle = d /\ y.revision = n
    BY <1>2 DEF IntelligenceArtifact
  <2>5. IntelligenceId(z) = [key |-> d.id, rev |-> n, content |-> z]
    BY <2>3 DEF IntelligenceId, IntelligenceFamily
  <2> HIDE DEF z
  <2>6. IntelligenceId(z) \in IntelligenceIds
    BY <2>2, <2>5 DEF IntelligenceIds
  <2> QED
    BY <2>1, <2>2, <2>4, <2>5, <2>6 DEF IntelligenceFamily, z
<1> DEFINE Id(y) == IntelligenceId(ArtifactIdentity(y))
<1>3. \A y \in intelligence :
         /\ ArtifactIdentity(y) \in IntelligenceContents /\ Id(y) \in IntelligenceIds
         /\ Id(y).key = IntelligenceFamily(y) /\ Id(y).rev = y.revision
         /\ Id(y).content = ArtifactIdentity(y) /\ y.revision \in Revisions
  BY <1>2 DEF IntelligenceHeld
<1>4. x.supersedes = sup /\ x.revision = rev
  BY DEF IntelligenceArtifact
<1>5. /\ Id(x) \in IntelligenceIds /\ Id(x).key = IntelligenceFamily(x)
      /\ Id(x).rev = x.revision /\ Id(x).content = ArtifactIdentity(x)
  BY <1>2, <1>4
<1> HIDE DEF x
<1>6. Revisions \subseteq Nat
  BY DEF Revisions
<1>7. /\ c.id = Id(x)
      /\ c.sup = IF sup = None THEN None ELSE IntelligenceId(sup)
      /\ c = [id |-> c.id, sup |-> c.sup]
  BY <1>4 DEF IntelligenceRecord
<1>8. sup # None => \E y \in intelligence : sup = ArtifactIdentity(y)
  BY DEF Correctable
<1>9. c \in [id : IntelligenceIds, sup : IntelligenceIds \cup {None}]
  BY <1>3, <1>5, <1>7, <1>8
<1>10. Thoughts' = Thoughts \cup {c}
  BY <1>1 DEF Thoughts, IntelligenceRecord, IntelligenceId, IntelligenceFamily,
              ArtifactIdentity
<1>11. \A d \in Thoughts : \E y \in intelligence : d.id = Id(y)
  BY DEF Thoughts, IntelligenceRecord
<1>12. \A y \in intelligence : IntelligenceRecord(y) \in Thoughts
                                  /\ IntelligenceRecord(y).id = Id(y)
  BY DEF Thoughts, IntelligenceRecord
<1> HIDE DEF c, Id
<1>13. \A d \in Thoughts : d.id # c.id
  BY <1>1, <1>3, <1>5, <1>7, <1>11 DEF IsNew
<1>14. CASE line = {}
  <2>1. c.sup = None /\ c.id.rev = 1
    BY <1>1, <1>4, <1>5, <1>7, <1>14 DEF FollowsLatest
  <2>2. \A d \in Thoughts : d.id.key # c.id.key
    BY <1>3, <1>5, <1>7, <1>11, <1>14
  <2>3. IntelligenceLog!Grounded(c) /\ IntelligenceLog!Latest(c)
    BY <2>1, <2>2 DEF IntelligenceLog!Grounded, IntelligenceLog!Latest, Thoughts
  <2> QED
    BY <1>9, <1>10, <1>13, <2>3
    DEF IntelligenceLog!LinearNext, IntelligenceLog!Archive, Thoughts
<1>15. CASE line # {}
  <2> PICK y \in line : /\ \A z \in line : z.revision <= y.revision
                         /\ x.revision = y.revision + 1
                         /\ x.supersedes = ArtifactIdentity(y)
    BY <1>1, <1>15 DEF FollowsLatest
  <2>1. sup # None /\ sup = ArtifactIdentity(y)
    BY <1>3, <1>4, IntelligenceAssumption
  <2>2. c.sup = Id(y) /\ c.sup # None
    BY <1>3, <1>7, <2>1, IntelligenceAssumption DEF Id
  <2>3. Id(y).key = c.id.key /\ Id(y).rev + 1 = c.id.rev
    BY <1>3, <1>5, <1>7
  <2>4. IntelligenceLog!Grounded(c)
    <3>1. \E d \in Thoughts : d.id = c.sup /\ d.id.key = c.id.key /\ d.id.rev + 1 = c.id.rev
      BY <1>12, <2>2, <2>3
    <3> QED
      BY <2>2, <3>1 DEF IntelligenceLog!Grounded, Thoughts
  <2>5. \A d \in Thoughts : d.id.key = c.id.key => d.id.rev < c.id.rev
    <3> SUFFICES ASSUME NEW z \in intelligence, Id(z).key = c.id.key
                 PROVE  Id(z).rev < c.id.rev
      BY <1>11
    <3>1. z \in line
      BY <1>3, <1>5, <1>7
    <3>2. z.revision <= y.revision /\ z.revision \in Nat /\ y.revision \in Nat
      BY <1>3, <1>6, <3>1
    <3> QED
      BY <1>3, <1>5, <1>7, <3>2
  <2>6. IntelligenceLog!Latest(c)
    BY <2>5 DEF IntelligenceLog!Latest, Thoughts
  <2> QED
    BY <1>9, <1>10, <1>13, <2>4, <2>6
    DEF IntelligenceLog!LinearNext, IntelligenceLog!Archive, Thoughts
<1> QED
  BY <1>14, <1>15

LEMMA IntelligenceLogStep ==
    ASSUME IntelligenceHeld, GateNext \/ UNCHANGED gate_store
    PROVE  [IntelligenceLog!LinearNext]_Thoughts
<1>1. UNCHANGED intelligence
        \/ \E rev \in Revisions, b \in SealedBundles, S \in Statistics, O \in ContextSets,
              sup \in Correctable(intelligence) : AppendIntelligence(b, S, O, rev, sup)
  BY EnginesKeepTheRest DEF GateNext, gate_store
<1>2. UNCHANGED intelligence => UNCHANGED Thoughts
  BY DEF Thoughts, IntelligenceRecord, IntelligenceId, IntelligenceFamily, ArtifactIdentity
<1> QED
  BY <1>1, <1>2, IntelligenceIsLogged

----------------------------------------------------------------------------
(* The market features.  A correction is one of a first artifact, which the *)
(* fixed number of a correction sees to.                                    *)

ArtifactsHeld == market_artifacts \subseteq Firsts \cup Corrections

ArtifactLines == {ArtifactRecord(a) : a \in market_artifacts}

LEMMA ArtifactIsLogged ==
    ASSUME ArtifactsHeld, NEW s \in Quotes, NEW q \in Boundaries,
           NEW sup \in market_artifacts \cup {None}, AppendArtifact(s, q, sup)
    PROVE  ArtifactsHeld' /\ [ArtifactLog!Next]_ArtifactLines
<1> DEFINE a == NormalizedArtifact(s, q, sup)
           c == ArtifactRecord(a)
<1>1. /\ market_artifacts' = market_artifacts \cup {a}
      /\ sup # None => ArtifactScope(sup) = ArtifactScope(a) /\ a.revision = sup.revision + 1
  BY DEF AppendArtifact
<1>2. a.supersedes = sup /\ a.revision = IF sup = None THEN 1 ELSE 2
  BY DEF NormalizedArtifact
<1>3. \A r \in market_artifacts : r.revision \in {1, 2}
  BY DEF ArtifactsHeld, Firsts, Corrections, NormalizedArtifact
<1>4. sup # None => sup \in Firsts
  <2> SUFFICES ASSUME sup # None, sup \notin Firsts
               PROVE  FALSE
    OBVIOUS
  <2>1. sup.revision = 1
    BY <1>1, <1>2, <1>3
  <2> PICK t \in Quotes, u \in Boundaries, p \in Firsts : sup = NormalizedArtifact(t, u, p)
    BY DEF ArtifactsHeld, Corrections
  <2>2. p = None
    BY <2>1 DEF NormalizedArtifact
  <2> QED
    BY <2>2 DEF Firsts
<1>5. a \in Firsts \cup Corrections
  BY <1>4 DEF Firsts, Corrections
<1> HIDE DEF a
<1>6. ArtifactsHeld'
  BY <1>1, <1>5 DEF ArtifactsHeld
<1>7. CASE a \in market_artifacts
  <2>1. UNCHANGED market_artifacts
    BY <1>1, <1>7
  <2> QED
    BY <1>6, <2>1 DEF ArtifactLines, ArtifactRecord, ArtifactId, ArtifactScope
<1>8. CASE a \notin market_artifacts
  <2>1. /\ c.id = ArtifactId(a)
        /\ c.sup = IF sup = None THEN None ELSE ArtifactId(sup)
    BY <1>2 DEF ArtifactRecord
  <2>2. c \in ArtifactRecords
    BY <1>5 DEF ArtifactRecords
  <2>3. \A r : /\ ArtifactId(r).key = ArtifactScope(r) /\ ArtifactId(r).rev = r.revision
               /\ ArtifactId(r).content = r
    BY DEF ArtifactId
  <2>4. ArtifactLines' = ArtifactLines \cup {c}
    BY <1>1 DEF ArtifactLines, ArtifactRecord, ArtifactId, ArtifactScope
  <2>5. \A r : ArtifactRecord(r).id = ArtifactId(r)
    BY DEF ArtifactRecord
  <2> HIDE DEF c
  <2>6. \A d \in ArtifactLines : d.id # c.id
    <3> SUFFICES ASSUME NEW r \in market_artifacts
                 PROVE  ArtifactRecord(r).id # c.id
      BY DEF ArtifactLines
    <3>1. ArtifactId(r).content = r /\ ArtifactId(a).content = a
      BY <2>3
    <3>2. ArtifactRecord(r).id = ArtifactId(r)
      BY <2>5
    <3> QED
      BY <1>8, <2>1, <3>1, <3>2
  <2>7. CASE sup = None
    <3>1. ArtifactLog!Grounded(c)
      BY <1>2, <2>1, <2>3, <2>7 DEF ArtifactLog!Grounded
    <3>2. ArtifactLog!Archive(c)
      BY <2>4, <2>6, <3>1 DEF ArtifactLog!Archive, ArtifactLines
    <3> QED
      BY <1>6, <2>2, <2>4, <3>2 DEF ArtifactLog!Next, ArtifactLines
  <2>8. CASE sup # None
    <3>1. c.sup # None
      BY <1>4, <2>1, <2>8, ArtifactIdsAssumption
    <3>2. \E d \in ArtifactLines :
             d.id = c.sup /\ d.id.key = c.id.key /\ d.id.rev + 1 = c.id.rev
      <4>1. ArtifactRecord(sup) \in ArtifactLines /\ ArtifactRecord(sup).id = c.sup
        BY <2>1, <2>5, <2>8 DEF ArtifactLines
      <4>2. ArtifactId(sup).key = ArtifactId(a).key /\ ArtifactId(a).rev = ArtifactId(sup).rev + 1
        BY <1>1, <2>3, <2>8
      <4>3. ArtifactRecord(sup).id = ArtifactId(sup) /\ c.id = ArtifactId(a)
        BY <2>1, <2>5
      <4> QED
        BY <4>1, <4>2, <4>3
    <3>3. ArtifactLog!Grounded(c)
      BY <3>1, <3>2 DEF ArtifactLog!Grounded, ArtifactLines
    <3>4. ArtifactLog!Archive(c)
      BY <2>4, <2>6, <3>3 DEF ArtifactLog!Archive, ArtifactLines
    <3> QED
      BY <1>6, <2>2, <2>4, <3>4 DEF ArtifactLog!Next, ArtifactLines
  <2> QED
    BY <2>7, <2>8
<1> QED
  BY <1>7, <1>8

LEMMA ArtifactLogStep ==
    ASSUME ArtifactsHeld, MarketFeaturesNext \/ UNCHANGED feature_store
    PROVE  ArtifactsHeld' /\ [ArtifactLog!Next]_ArtifactLines
<1>1. ASSUME UNCHANGED market_artifacts
      PROVE  ArtifactsHeld' /\ UNCHANGED ArtifactLines
  BY <1>1 DEF ArtifactsHeld, ArtifactLines, ArtifactRecord, ArtifactId, ArtifactScope,
              Firsts, Corrections, NormalizedArtifact, ArtifactState
<1>2. ComputeMovement => UNCHANGED market_artifacts
  BY DEF ComputeMovement, AppendMovement
<1>3. \A M, q : Interpret(M, q) => UNCHANGED market_artifacts
  BY DEF Interpret
<1>4. CASE UNCHANGED feature_store
  BY <1>1, <1>4 DEF feature_store
<1> QED
  BY <1>1, <1>2, <1>3, <1>4, ArtifactIsLogged DEF MarketFeaturesNext, feature_store

\* EnginesAreLogs, in the pipeline: an artifact is the first of its scope or the
\* correction of one there (MarketIntelligenceStore.append), and of a bundle there
\* is one line of intelligence revisions (FootballIntelligenceStore.append).
THEOREM EnginesAreAlwaysLogs == PipelineSpec => EnginesAreLogs
<1>1. PipelineInit => /\ ArtifactsHeld /\ ArtifactLog!Init
                      /\ IntelligenceHeld /\ IntelligenceLog!Init
  BY DEF PipelineInit, MarketFeaturesInit, GateInit, ArtifactsHeld, IntelligenceHeld,
         ArtifactLog!Init, IntelligenceLog!Init
<1>2. [PipelineNext]_pipeline_vars => (MarketFeaturesNext \/ UNCHANGED feature_store)
                                        /\ (GateNext \/ UNCHANGED gate_store)
  BY DEF PipelineNext, pipeline_vars
<1>3. ArtifactsHeld /\ [PipelineNext]_pipeline_vars
         => ArtifactsHeld' /\ [ArtifactLog!Next]_ArtifactLines
  <2> SUFFICES ASSUME ArtifactsHeld, [PipelineNext]_pipeline_vars
               PROVE  ArtifactsHeld' /\ [ArtifactLog!Next]_ArtifactLines
    OBVIOUS
  <2>1. MarketFeaturesNext \/ UNCHANGED feature_store
    BY <1>2
  <2> QED
    BY <2>1, ArtifactLogStep
<1>4. IntelligenceHeld /\ [PipelineNext]_pipeline_vars
         => IntelligenceHeld' /\ [IntelligenceLog!LinearNext]_Thoughts
  BY <1>2, IntelligenceHeldStep, IntelligenceLogStep
<1> QED
  BY <1>1, <1>3, <1>4, PTL
  DEF PipelineSpec, EnginesAreLogs, ImplementsArtifactLog, ImplementsIntelligenceLog,
      ArtifactLog!Spec, IntelligenceLog!LinearSpec, ArtifactLines, Thoughts

----------------------------------------------------------------------------
(* A movement with a direction is one of a pair that was looked at.         *)

\* A movement with a direction goes forward between prices of one source.
Directional(v) ==
    v.type \in Directed =>
        /\ v.before < v.after /\ v.after <= v.cutoff /\ v.cutoff < v.kickoff
        /\ Cardinality(v.providers) = 1
        /\ \A a \in v.of : a.state = "AVAILABLE" /\ a.time <= v.cutoff

MovementsInv ==
    /\ \A v \in movements : Directional(v)
    /\ ProfilesRestOnPrecutoffMoves

LEMMA PairsAreDirectional ==
    ASSUME NEW b, NEW a, NEW q, PairOK(b, a, q), NEW type \in Directed,
           NEW v \in PairMovements(b, a, q, type)
    PROVE  Directional(v)
<1> PICK selection, value :
       v = Movement(type, selection, b, {b, a}, b.time, a.time, q, "AVAILABLE", value)
  BY DEF PairMovements, Directed
<1>1. /\ v.before = b.time /\ v.after = a.time /\ v.cutoff = q.cutoff
      /\ v.kickoff = q.kickoff /\ v.of = {b, a}
      /\ v.providers = {x.provider : x \in {b, a}}
  BY DEF Movement
<1>2. v.providers = {b.provider}
  BY <1>1 DEF PairOK, SameSource
<1>3. Cardinality(v.providers) = 1
  BY <1>2, FS_Singleton
<1> QED
  BY <1>1, <1>3 DEF Directional, PairOK

LEMMA MovementsStep ==
    ASSUME \A v \in movements : Directional(v), ComputeMovement
    PROVE  (\A v \in movements : Directional(v))'
<1> PICK S \in SUBSET market_artifacts, q \in Boundaries, selection \in Selections :
       \/ \E type \in {"PRICE_MOVEMENT", "LINE_MOVEMENT", "IMPLIED_PROBABILITY_MOVEMENT"} :
             /\ SeriesOK(S, q, type)
             /\ \E v \in Series(S, q, type) : AppendMovement(v)
       \/ \E v \in Acceleration(S, q, selection) : AppendMovement(v)
       \/ \E v \in Aggregate(S, q, selection) : AppendMovement(v)
       \/ \E o, e \in S : \E v \in Divergence(o, e, q) : AppendMovement(v)
  BY DEF ComputeMovement
<1>1. ASSUME NEW v, AppendMovement(v), Directional(v)
      PROVE  (\A w \in movements : Directional(w))'
  BY <1>1 DEF AppendMovement, Directional
<1>2. ASSUME NEW type \in {"PRICE_MOVEMENT", "LINE_MOVEMENT", "IMPLIED_PROBABILITY_MOVEMENT"},
             SeriesOK(S, q, type), NEW v \in Series(S, q, type)
      PROVE  Directional(v)
  <2> PICK p \in Neighbours(S) : v \in PairMovements(p[1], p[2], q, type)
    BY DEF Series
  <2>1. PairOK(p[1], p[2], q)
    BY <1>2 DEF SeriesOK
  <2> QED
    BY <2>1, PairsAreDirectional DEF Directed
<1>3. \A seed, of, before, after, state, value, sel :
         /\ Directional(Movement("ACCELERATION", sel, seed, of, before, after, q, state, value))
         /\ Directional(Movement("PROVIDER_AGGREGATE", sel, seed, of, before, after, q,
                                 state, value))
         /\ Directional(Movement("OFFICIAL_EXTERNAL_DIVERGENCE", sel, seed, of, before,
                                 after, q, state, value))
  BY DEF Directional, Directed, Movement
<1>4. ASSUME NEW v \in Acceleration(S, q, selection)
      PROVE  Directional(v)
  <2>1. \E seed, of, before, after, state, value :
           v = Movement("ACCELERATION", selection, seed, of, before, after, q, state, value)
    <3>1. CASE Cardinality(S) < 3
      BY <3>1 DEF Acceleration
    <3>2. CASE ~(Cardinality(S) < 3)
      BY <3>2, Zenon DEF Acceleration
    <3> QED
      BY <3>1, <3>2
  <2> QED
    BY <1>3, <2>1
<1>5. ASSUME NEW v \in Aggregate(S, q, selection)
      PROVE  Directional(v)
  BY <1>3 DEF Aggregate
<1>6. ASSUME NEW o, NEW e, NEW v \in Divergence(o, e, q)
      PROVE  Directional(v)
  BY <1>3 DEF Divergence
<1> QED
  BY <1>1, <1>2, <1>4, <1>5, <1>6

\* ProfilesRestOnPrecutoffMoves: the movements of a profile are those asked for
\* with its cutoff, and the engine that made them looked at every pair
\* (MarketMovementEngine, MarketRiskInterpretationEngine).
THEOREM ProfilesAlwaysRestOnMoves == MarketFeaturesSpec => []ProfilesRestOnPrecutoffMoves
<1>1. MarketFeaturesInit => MovementsInv
  BY DEF MarketFeaturesInit, MovementsInv, ProfilesRestOnPrecutoffMoves
<1>2. MovementsInv /\ [MarketFeaturesNext]_feature_vars => MovementsInv'
  <2> SUFFICES ASSUME MovementsInv, [MarketFeaturesNext]_feature_vars
               PROVE  MovementsInv'
    OBVIOUS
  <2>1. CASE UNCHANGED <<movements, profiles>>
    BY <2>1 DEF MovementsInv, Directional, ProfilesRestOnPrecutoffMoves
  <2>2. CASE ComputeMovement
    <3>1. UNCHANGED profiles
      BY <2>2 DEF ComputeMovement, AppendMovement
    <3> QED
      BY <2>2, <3>1, MovementsStep DEF MovementsInv, ProfilesRestOnPrecutoffMoves
  <2>3. ASSUME NEW M \in SUBSET movements, NEW q \in Boundaries, Interpret(M, q)
        PROVE  MovementsInv'
    <3> PICK p : /\ p.movements = M /\ p.cutoff = q.cutoff /\ p.kickoff = q.kickoff
                 /\ profiles' = profiles \cup {p} /\ UNCHANGED movements
      BY <2>3 DEF Interpret
    <3>1. \A v \in M : v.cutoff = q.cutoff /\ v.kickoff = q.kickoff /\ Directional(v)
      BY <2>3 DEF Interpret, InterpretOK, MovementsInv
    <3>2. \A v \in p.movements :
             /\ v.cutoff = p.cutoff
             /\ v.type \in Directed =>
                   /\ v.before < v.after /\ v.after <= p.cutoff /\ p.cutoff < p.kickoff
                   /\ Cardinality(v.providers) = 1
                   /\ \A a \in v.of : a.state = "AVAILABLE" /\ a.time <= p.cutoff
      BY <3>1 DEF Directional
    <3> QED
      BY <3>2 DEF MovementsInv, ProfilesRestOnPrecutoffMoves
  <2>4. ASSUME NEW s, NEW q, NEW sup, AppendArtifact(s, q, sup)
        PROVE  UNCHANGED <<movements, profiles>>
    BY <2>4 DEF AppendArtifact
  <2> QED
    BY <2>1, <2>2, <2>3, <2>4 DEF MarketFeaturesNext, feature_vars, feature_store
<1>3. MovementsInv => ProfilesRestOnPrecutoffMoves
  BY DEF MovementsInv
<1> QED
  BY <1>1, <1>2, <1>3, PTL DEF MarketFeaturesSpec

----------------------------------------------------------------------------
(* The strength of a team.  A finite set has a first member in any order,   *)
(* so the newest matches of a team and the last of its observations exist.  *)

\* The smallest part without a first member would have two members, of which one
\* precedes the other and all the rest.
LEMMA FiniteSetsHaveFirsts ==
    ASSUME NEW S, IsFiniteSet(S), S # {}, NEW R,
           \A x, y \in S : <<x, y>> \in R \/ <<y, x>> \in R,
           \A x, y, z \in S : <<x, y>> \in R /\ <<y, z>> \in R => <<x, z>> \in R
    PROVE  \E x \in S : \A y \in S : <<x, y>> \in R
<1> DEFINE IsFirst(x, T) == \A y \in T : <<x, y>> \in R
           Lacks(n) == \E T \in SUBSET S : /\ T # {} /\ Cardinality(T) = n
                                           /\ \A x \in T : ~IsFirst(x, T)
           U == {n \in Nat : Lacks(n)}
<1> SUFFICES ASSUME \A x \in S : ~IsFirst(x, S)
             PROVE  FALSE
  OBVIOUS
<1>1. \A T \in SUBSET S : IsFiniteSet(T) /\ Cardinality(T) \in Nat
  BY FS_Subset, FS_CardinalityType
<1>2. PICK n \in U : \A m \in U : n <= m
  <2>1. U \in SUBSET Nat /\ U # {}
    BY <1>1
  <2> HIDE DEF U
  <2> QED
    BY <2>1, LeastNumber
<1>3. PICK T \in SUBSET S : T # {} /\ Cardinality(T) = n /\ \A x \in T : ~IsFirst(x, T)
  BY <1>2
<1>4. PICK x \in T : TRUE
  BY <1>3
<1> DEFINE rest == T \ {x}
<1>5. rest # {}
  <2>1. <<x, x>> \in R
    BY <1>3, <1>4
  <2> QED
    BY <1>3, <1>4, <2>1
<1>6. PICK y \in rest : IsFirst(y, rest)
  <2>1. Cardinality(rest) = n - 1 /\ n \in Nat
    BY <1>1, <1>3, <1>4, FS_RemoveElement
  <2>2. rest \in SUBSET S /\ Cardinality(rest) \in Nat
    BY <1>1
  <2>3. n - 1 \in Nat
    BY <2>1, <2>2
  <2>4. n - 1 \notin U
    <3> HIDE DEF U, rest
    <3> QED
      BY <1>2, <2>1, <2>3
  <2>5. ~Lacks(n - 1)
    <3> HIDE DEF Lacks
    <3> QED
      BY <2>3, <2>4
  <2> QED
    BY <1>5, <2>1, <2>2, <2>5
<1>7. x \in S /\ y \in S /\ T \subseteq S /\ y \in T /\ <<x, x>> \in R
  BY <1>3, <1>4
<1>8. CASE <<y, x>> \in R
  BY <1>3, <1>6, <1>7, <1>8
<1>9. CASE <<x, y>> \in R
  <2>1. IsFirst(x, T)
    BY <1>6, <1>7, <1>9
  <2> QED
    BY <1>3, <1>4, <2>1
<1> QED
  BY <1>7, <1>8, <1>9

\* The observations of a list, as far as they are looked at here.
Dated(S) == IsFiniteSet(S) /\ \A o \in S : o.id \in Nat /\ o.event \in Nat

\* Of some matches one has the last observation.
LEMMA NewestExists ==
    ASSUME NEW S, Dated(S), NEW T \in SUBSET SourceMatches(S), T # {}
    PROVE  \E m \in T : \A k \in T : ~IsNewer(k, m, S)
<1> DEFINE O == {o \in S : o.source \in T}
           R == {z \in O \X O : z[1].event >= z[2].event}
<1>1. IsFiniteSet(O) /\ O # {}
  BY FS_Subset DEF Dated, SourceMatches
<1>2. \A x, y \in O : <<x, y>> \in R <=> x.event >= y.event
  OBVIOUS
<1>3. \A x \in O : x.event \in Nat
  BY DEF Dated
<1> HIDE DEF R
<1>4. PICK o \in O : \A p \in O : <<o, p>> \in R
  <2>1. ASSUME NEW x \in O, NEW y \in O
        PROVE  <<x, y>> \in R \/ <<y, x>> \in R
    <3>1. x.event \in Nat /\ y.event \in Nat
      BY <1>3
    <3> HIDE DEF O
    <3>2. x.event >= y.event \/ y.event >= x.event
      BY <3>1
    <3> QED
      BY <1>2, <3>2
  <2>2. ASSUME NEW x \in O, NEW y \in O, NEW z \in O,
               <<x, y>> \in R, <<y, z>> \in R
        PROVE  <<x, z>> \in R
    <3>1. x.event \in Nat /\ y.event \in Nat /\ z.event \in Nat
      BY <1>3
    <3> HIDE DEF O
    <3>2. x.event >= y.event /\ y.event >= z.event
      BY <1>2, <2>2
    <3>3. x.event >= z.event
      BY <3>1, <3>2
    <3> QED
      BY <1>2, <3>3
  <2> HIDE DEF O
  <2> QED
    BY <1>1, <2>1, <2>2, FiniteSetsHaveFirsts
<1>5. ASSUME NEW p \in O
      PROVE  ~(o.event < p.event)
  <2>1. o.event \in Nat /\ p.event \in Nat
    BY <1>3
  <2>2. o.event >= p.event
    <3> HIDE DEF O
    <3> QED
      BY <1>2, <1>4
  <2> QED
    BY <2>1, <2>2
<1>6. \A k \in T : ~IsNewer(k, o.source, S)
  BY <1>5 DEF IsNewer
<1> QED
  BY <1>6

\* A finite list is of finitely many matches.
LEMMA SourcesAreFinite ==
    ASSUME NEW S, IsFiniteSet(S)
    PROVE  IsFiniteSet(SourceMatches(S)) /\ Cardinality(SourceMatches(S)) \in Nat
<1> DEFINE f == [o \in S |-> o.source]
<1>1. f \in Surjection(S, SourceMatches(S))
  BY DEF Surjection, SourceMatches
<1> QED
  BY <1>1, FS_Surjection, FS_CardinalityType

\* As many of the newest matches as there are can be kept, one after the other.
LEMMA NewestCanBeKept ==
    ASSUME NEW S, Dated(S), NEW n \in 0..Cardinality(SourceMatches(S))
    PROVE  \E kept \in SUBSET SourceMatches(S) :
              /\ Cardinality(kept) = n
              /\ \A m \in kept, k \in SourceMatches(S) \ kept : ~IsNewer(k, m, S)
<1> DEFINE played == SourceMatches(S)
           Kept(kept, i) ==
              /\ Cardinality(kept) = i
              /\ \A m \in kept, k \in played \ kept : ~IsNewer(k, m, S)
           U == {i \in 0..Cardinality(played) : \A kept \in SUBSET played : ~Kept(kept, i)}
<1> SUFFICES ASSUME U # {}
             PROVE  FALSE
  OBVIOUS
<1>1. IsFiniteSet(played) /\ Cardinality(played) \in Nat
  BY SourcesAreFinite DEF Dated
<1>2. PICK i \in U : \A j \in U : i <= j
  <2>1. U \in SUBSET Nat
    BY <1>1
  <2> HIDE DEF U
  <2> QED
    BY <2>1, LeastNumber
<1>3. i \in Nat /\ i <= Cardinality(played)
  BY <1>1, <1>2
<1>4. i # 0
  <2>1. Kept({}, 0)
    BY FS_EmptySet
  <2> QED
    BY <1>2, <2>1
<1>5. PICK kept \in SUBSET played : Kept(kept, i - 1)
  <2>1. i - 1 \in 0..Cardinality(played) /\ i - 1 \notin U
    BY <1>1, <1>2, <1>3, <1>4
  <2> QED
    BY <2>1
<1>6. IsFiniteSet(kept) /\ kept # played
  BY <1>1, <1>3, <1>5, FS_Subset
<1>7. PICK m \in played \ kept : \A k \in played \ kept : ~IsNewer(k, m, S)
  <2>1. played \ kept \in SUBSET played /\ played \ kept # {}
    BY <1>6
  <2> QED
    BY <2>1, NewestExists
<1>8. Kept(kept \cup {m}, i)
  <2>1. Cardinality(kept \cup {m}) = Cardinality(kept) + 1
    BY <1>6, <1>7, FS_AddElement
  <2>2. Cardinality(kept) = i - 1
    BY <1>5
  <2>3. Cardinality(kept \cup {m}) = i
    BY <1>3, <2>1, <2>2
  <2> QED
    BY <1>5, <1>7, <2>3
<1> QED
  BY <1>2, <1>5, <1>7, <1>8

LEMMA NewestAreFew ==
    ASSUME NEW S, Dated(S)
    PROVE  /\ NewestMatches(S) \in SUBSET SourceMatches(S)
           /\ Cardinality(NewestMatches(S)) <= MaxMatches
<1> DEFINE played == SourceMatches(S)
           n == IF Cardinality(played) <= MaxMatches THEN Cardinality(played) ELSE MaxMatches
           Fits(kept) ==
              /\ Cardinality(kept) <= MaxMatches
              /\ kept = played \/ Cardinality(kept) = MaxMatches
              /\ \A m \in kept, k \in played \ kept : ~IsNewer(k, m, S)
<1>1. IsFiniteSet(played) /\ Cardinality(played) \in Nat /\ MaxMatches \in Nat
  BY StrengthAssumption, SourcesAreFinite DEF Dated
<1>2. n \in 0..Cardinality(played) /\ n <= MaxMatches
  BY <1>1
<1>3. PICK kept \in SUBSET played :
         Cardinality(kept) = n /\ \A m \in kept, k \in played \ kept : ~IsNewer(k, m, S)
  BY <1>2, NewestCanBeKept
<1>4. kept = played \/ Cardinality(kept) = MaxMatches
  BY <1>1, <1>3, FS_Subset
<1>5. Fits(kept)
  BY <1>2, <1>3, <1>4
<1>6. NewestMatches(S) = CHOOSE k \in SUBSET played : Fits(k)
  BY DEF NewestMatches
<1> HIDE DEF Fits
<1>7. NewestMatches(S) \in SUBSET played /\ Fits(NewestMatches(S))
  BY <1>5, <1>6
<1> QED
  BY <1>7 DEF Fits

\* An observation is of a match other than the target, and of before the cutoff.
IsPast(o, q) ==
    /\ o.source \in matches \ {q.match}
    /\ o.event <= q.cutoff /\ o.available <= q.cutoff
    /\ o.correction_published # None => o.correction_published <= q.cutoff

\* A manifest has past observations of one list, of few matches for each team.
ManifestHeld(mf) ==
    \E S \in Offers, q \in Targets :
        /\ mf.id = ManifestId(q) /\ mf.target = q /\ mf.observations \subseteq S
        /\ \A o \in mf.observations : IsPast(o, q)
        /\ \A team \in Teams \cup {None} :
              Cardinality(SourceMatches({o \in mf.observations : o.team = team}))
                 <= MaxMatches

\* A feature was made of a manifest, and uses no more than is in it.
MadeOf(f, mf) ==
    /\ f.manifest = mf.id /\ f.target = mf.target.match
    /\ f.usable \subseteq mf.observations /\ f.team \in Teams \cup {None}

\* The ratings it was adjusted by are numbers kept for its match.
Adjusted(f) == \A g \in f.ratings : g \in Numbered /\ g.target = f.target

StrengthInv ==
    /\ \A mf \in manifests : ManifestHeld(mf)
    /\ \A f \in features : \E mf \in manifests : MadeOf(f, mf)
    /\ \A f \in features : Adjusted(f)
    /\ \A f, g \in features : FeatureId(f) = FeatureId(g) => f = g

LEMMA AcceptedArePast ==
    ASSUME NEW S \in Offers, NEW o \in S, NEW q \in Targets,
           ExclusionReason(o, q) = None
    PROVE  IsPast(o, q)
<1>1. /\ o.event \in Nat /\ o.available \in Nat /\ o.status # None
      /\ o.correction_published \in Nat \cup {None}
      /\ q.cutoff \in Nat
  BY OffersAssumption, StrengthAssumption
<1>2. Unreadable(o) = None
  BY DEF ExclusionReason
<1>3. o.source # o.target
  BY <1>2, StrengthAssumption DEF Unreadable, Reasons
<1>4. o.source \in matches /\ o.target = q.match
  BY <1>1, <1>2, StrengthAssumption DEF ExclusionReason, Reasons
<1>5. ~(o.event > q.cutoff \/ o.available > q.cutoff)
  BY <1>1, <1>2, StrengthAssumption DEF ExclusionReason, Reasons
<1>6. ~(o.correction_published # None /\ o.correction_published > q.cutoff)
  <2> DEFINE corrected == o.correction_published # None /\ o.correction_published > q.cutoff
  <2> HIDE DEF corrected
  <2>1. ExclusionReason(o, q) = IF corrected THEN "POST_CUTOFF_CORRECTION" ELSE None
    <3>1. o.status = "AVAILABLE" /\ o.identity_agrees /\ o.competition = q.competition
      BY <1>1, <1>2, StrengthAssumption DEF ExclusionReason, Reasons
    <3> QED
      BY <1>2, <1>4, <1>5, <3>1 DEF ExclusionReason, corrected
  <2>2. ~corrected
    BY <2>1, StrengthAssumption DEF Reasons
  <2> QED
    BY <2>2 DEF corrected
<1> QED
  BY <1>1, <1>3, <1>4, <1>5, <1>6 DEF IsPast

LEMMA ManifestsAreHeld ==
    ASSUME NEW S \in Offers, NEW q \in Targets
    PROVE  ManifestHeld(Manifest(S, q))
<1> DEFINE accepted == {o \in S : ExclusionReason(o, q) = None}
           kept == Retained(accepted)
           mf == Manifest(S, q)
<1>1. mf.id = ManifestId(q) /\ mf.target = q /\ mf.observations = kept
  BY DEF Manifest
<1>2. kept \subseteq accepted /\ accepted \subseteq S
  BY DEF Retained
<1>3. \A o \in kept : IsPast(o, q)
  BY <1>2, AcceptedArePast
<1>4. ASSUME NEW team
      PROVE  Cardinality(SourceMatches({o \in kept : o.team = team})) <= MaxMatches
  <2> DEFINE A == {p \in accepted : p.team = team}
             newest == NewestMatches(A)
             played == SourceMatches({o \in kept : o.team = team})
  <2>1. Dated(A)
    BY <1>2, OffersAssumption, FS_Subset DEF Dated
  <2>2. newest \in SUBSET SourceMatches(A) /\ Cardinality(newest) <= MaxMatches
    BY <2>1, NewestAreFew
  <2>3. IsFiniteSet(newest)
    BY <2>1, <2>2, SourcesAreFinite, FS_Subset DEF Dated
  <2>4. played \subseteq newest
    BY DEF Retained, SourceMatches
  <2>5. Cardinality(played) <= Cardinality(newest)
        /\ Cardinality(played) \in Nat /\ Cardinality(newest) \in Nat
    <3> HIDE DEF played, newest
    <3> QED
      BY <2>3, <2>4, FS_Subset, FS_CardinalityType
  <2> HIDE DEF played, newest
  <2>6. Cardinality(played) <= MaxMatches
    BY <2>2, <2>5, StrengthAssumption
  <2> QED
    BY <2>6 DEF played
<1> HIDE DEF kept, mf
<1>5. mf.observations \subseteq S
  BY <1>1, <1>2
<1>6. ManifestHeld(mf)
  BY <1>1, <1>3, <1>4, <1>5 DEF ManifestHeld
<1> QED
  BY <1>6 DEF mf

LEMMA LastIsThere ==
    ASSUME NEW S, Dated(S), S # {}
    PROVE  LastOf(S) \in S
<1> DEFINE ComesFirst(o, p) == o.event < p.event \/ (o.event = p.event /\ o.id >= p.id)
           R == {z \in S \X S : ComesFirst(z[1], z[2])}
<1>1. \A o, p \in S : <<o, p>> \in R <=> ComesFirst(o, p)
  OBVIOUS
<1>2. ASSUME NEW o \in S, NEW p \in S
      PROVE  <<o, p>> \in R \/ <<p, o>> \in R
  <2>1. o.event \in Nat /\ p.event \in Nat /\ o.id \in Nat /\ p.id \in Nat
    BY DEF Dated
  <2>2. ComesFirst(o, p) \/ ComesFirst(p, o)
    BY <2>1
  <2> HIDE DEF ComesFirst, R
  <2> QED
    BY <1>1, <2>2
<1>3. ASSUME NEW o \in S, NEW p \in S, NEW r \in S, <<o, p>> \in R, <<p, r>> \in R
      PROVE  <<o, r>> \in R
  <2>1. /\ o.event \in Nat /\ p.event \in Nat /\ r.event \in Nat
        /\ o.id \in Nat /\ p.id \in Nat /\ r.id \in Nat
    BY DEF Dated
  <2>2. ComesFirst(o, p) /\ ComesFirst(p, r)
    BY <1>1, <1>3
  <2>3. ComesFirst(o, r)
    BY <2>1, <2>2
  <2> HIDE DEF ComesFirst, R
  <2> QED
    BY <1>1, <2>3
<1> HIDE DEF R
<1>4. PICK o \in S : \A p \in S : <<o, p>> \in R
  BY <1>2, <1>3, FiniteSetsHaveFirsts DEF Dated
<1>5. \A p \in S : ComesFirst(o, p)
  BY <1>1, <1>4
<1> QED
  BY <1>5 DEF LastOf

LEMMA EnginesUseTheManifest ==
    ASSUME NEW mf, ManifestHeld(mf), NEW team \in Teams
    PROVE  /\ MadeOf(Rating(mf, team), mf) /\ Rating(mf, team).ratings = {}
           /\ \A f \in AttackDefence(mf, team) : MadeOf(f, mf) /\ f.ratings = {}
           /\ \A upstream, required, mapping :
                 \A f \in OpponentFormLeague(mf, team, upstream, required, mapping) :
                    MadeOf(f, mf) /\ f.ratings \subseteq RatingsIn(upstream)
<1> DEFINE Unadjusted(f) == MadeOf(f, mf) /\ f.ratings = {}
<1>1. ASSUME NEW type, NEW t \in Teams \cup {None}, NEW state, NEW value,
             NEW mapping, NEW usable \in SUBSET mf.observations
      PROVE  Unadjusted(Feature(mf, type, t, state, usable, value, mapping))
  BY DEF MadeOf, Feature
<1>2. ASSUME NEW type, NEW t \in Teams \cup {None}, NEW value,
             NEW usable \in SUBSET mf.observations
      PROVE  Unadjusted(Rated(mf, type, t, usable, value))
  BY <1>1 DEF Rated
<1>3. \A kind : ForTeam(mf, team, kind) \in SUBSET mf.observations
  BY DEF ForTeam
<1>4. HomeItems(mf, team) \in SUBSET mf.observations
  <2> SUFFICES ASSUME NEW h \in HomeItems(mf, team)
               PROVE  h \in mf.observations
    OBVIOUS
  <2> DEFINE at(m) == {o \in ForTeam(mf, team, "GOALS_FOR") :
                          o.source = m /\ o.side = "HOME" /\ o.venue # "UNKNOWN"}
  <2>1. PICK m \in Matches : at(m) # {} /\ h = LastOf(at(m))
    BY DEF HomeItems
  <2>2. at(m) \subseteq mf.observations
    BY <1>3
  <2>3. Dated(at(m))
    BY <2>2, OffersAssumption, FS_Subset DEF ManifestHeld, Dated
  <2> HIDE DEF at
  <2> QED
    BY <2>1, <2>2, <2>3, LastIsThere
<1>5. Unadjusted(Rating(mf, team))
  BY <1>2, <1>3 DEF Rating
<1>6. Unadjusted(HomeAdvantage(mf, team))
  BY <1>1, <1>2, <1>4 DEF HomeAdvantage
<1>7. \A f \in AttackDefence(mf, team) : Unadjusted(f)
  BY <1>2, <1>3, <1>6 DEF AttackDefence
<1>8. ASSUME NEW required, NEW mapping
      PROVE  Unadjusted(Transition(mf, team, required, mapping))
  <2>1. {} \in SUBSET mf.observations
    OBVIOUS
  <2>2. CASE ~required
    BY <1>1, <2>1, <2>2 DEF Transition
  <2>3. CASE required /\ mapping = None
    BY <1>1, <1>3, <2>3 DEF Transition
  <2>4. CASE required /\ mapping # None
    BY <1>1, <1>3, <2>4 DEF Transition
  <2> QED
    BY <2>2, <2>3, <2>4
<1>10. ASSUME NEW upstream
       PROVE  /\ MadeOf(OpponentAdjusted(mf, team, upstream), mf)
              /\ OpponentAdjusted(mf, team, upstream).ratings \subseteq RatingsIn(upstream)
  <2> DEFINE rated == RatingsIn(upstream)
             faced == {o \in ForTeam(mf, team, "POINTS") :
                          o.opponent \in {f.team : f \in rated}}
             against == {f \in rated : f.team \in {o.opponent : o \in faced}}
  <2>1. faced \in SUBSET mf.observations /\ against \subseteq rated
    BY <1>3
  <2>2. OpponentAdjusted(mf, team, upstream) =
           [Rated(mf, "OPPONENT_ADJUSTED_STRENGTH", team, faced, <<faced, against>>)
               EXCEPT !.ratings = against]
    BY DEF OpponentAdjusted
  <2> HIDE DEF faced, against, rated
  <2>3. PICK state, value :
           OpponentAdjusted(mf, team, upstream) =
              [Feature(mf, "OPPONENT_ADJUSTED_STRENGTH", team, state, faced, value, None)
                  EXCEPT !.ratings = against]
    BY <2>2 DEF Rated
  <2>4. /\ OpponentAdjusted(mf, team, upstream).ratings = against
        /\ MadeOf(OpponentAdjusted(mf, team, upstream), mf)
    BY <2>1, <2>3 DEF Feature, MadeOf
  <2> QED
    BY <2>1, <2>4 DEF rated
<1>9. ASSUME NEW upstream, NEW required, NEW mapping,
             NEW f \in OpponentFormLeague(mf, team, upstream, required, mapping)
      PROVE  MadeOf(f, mf) /\ f.ratings \subseteq RatingsIn(upstream)
  <2> DEFINE league == {o \in mf.observations : o.kind = "POINTS"}
  <2>1. league \in SUBSET mf.observations
    OBVIOUS
  <2>2. \/ f = OpponentAdjusted(mf, team, upstream)
        \/ f = Rated(mf, "FORM_DECAY", team, ForTeam(mf, team, "POINTS"),
                     <<ForTeam(mf, team, "POINTS")>>)
        \/ f = Rated(mf, "LEAGUE_STRENGTH", None, league, <<league>>)
        \/ f = Transition(mf, team, required, mapping)
    BY DEF OpponentFormLeague
  <2> HIDE DEF league
  <2>3. CASE f = OpponentAdjusted(mf, team, upstream)
    BY <1>10, <2>3
  <2> QED
    BY <1>2, <1>3, <1>8, <2>1, <2>2, <2>3
<1> QED
  BY <1>5, <1>7, <1>9

\* A feature that is appended has an id of its own.
LEMMA AppendFeatureStep ==
    ASSUME StrengthInv, NEW mf \in manifests, NEW f, MadeOf(f, mf), Adjusted(f),
           AppendFeature(f)
    PROVE  StrengthInv'
<1>1. UNCHANGED <<matches, manifests>> /\ features' = features \cup {f}
  BY DEF AppendFeature
<1>2. (\A m \in manifests : ManifestHeld(m))'
  BY <1>1 DEF StrengthInv, ManifestHeld, IsPast
<1>3. (\A g \in features : \E m \in manifests : MadeOf(g, m))'
  BY <1>1 DEF StrengthInv, MadeOf
<1>4. (\A g, h \in features : FeatureId(g) = FeatureId(h) => g = h)'
  BY <1>1 DEF StrengthInv, AppendFeature, FeatureId
<1>5. (\A g \in features : Adjusted(g))'
  BY <1>1 DEF StrengthInv, Adjusted, Numbered
<1> QED
  BY <1>2, <1>3, <1>4, <1>5 DEF StrengthInv

LEMMA StrengthStep ==
    ASSUME StrengthInv, [StrengthNext]_strength_vars
    PROVE  StrengthInv'
<1>1. ASSUME NEW m \in Matches \ matches, ResolveMatch(m), UNCHANGED strength_store
      PROVE  StrengthInv'
  <2>1. matches \subseteq matches'
    BY <1>1 DEF ResolveMatch
  <2>2. UNCHANGED <<manifests, features>>
    BY <1>1 DEF strength_store
  <2>3. \A o, q : IsPast(o, q) => IsPast(o, q)'
    BY <2>1 DEF IsPast
  <2>4. \A mf \in manifests : ManifestHeld(mf) => ManifestHeld(mf)'
    BY <2>3 DEF ManifestHeld
  <2> QED
    BY <2>2, <2>4 DEF StrengthInv, MadeOf, FeatureId, Adjusted, Numbered
<1>2. ASSUME NEW S \in Offers, NEW q \in Targets, BuildManifest(S, q)
      PROVE  StrengthInv'
  <2>1. manifests' = manifests \cup {Manifest(S, q)} /\ UNCHANGED <<matches, features>>
    BY <1>2 DEF BuildManifest
  <2>2. \A mf : ManifestHeld(mf) => ManifestHeld(mf)'
    BY <2>1 DEF ManifestHeld, IsPast
  <2>3. ManifestHeld(Manifest(S, q))
    BY ManifestsAreHeld
  <2>4. (\A mf \in manifests : ManifestHeld(mf))'
    <3> DEFINE new == Manifest(S, q)
    <3> HIDE DEF new
    <3>1. manifests' = manifests \cup {new} /\ ManifestHeld(new)
      BY <2>1, <2>3 DEF new
    <3> QED
      BY <2>2, <3>1 DEF StrengthInv
  <2>5. (\A f \in features : \E mf \in manifests : MadeOf(f, mf))'
    BY <2>1 DEF StrengthInv, MadeOf
  <2>6. (\A f, g \in features : FeatureId(f) = FeatureId(g) => f = g)'
    BY <2>1 DEF StrengthInv, FeatureId
  <2>7. (\A f \in features : Adjusted(f))'
    BY <2>1 DEF StrengthInv, Adjusted, Numbered
  <2> QED
    BY <2>4, <2>5, <2>6, <2>7 DEF StrengthInv
<1>3. ASSUME NEW mf \in manifests, NEW team \in Teams,
             \/ AppendFeature(Rating(mf, team))
             \/ \E f \in AttackDefence(mf, team) : AppendFeature(f)
             \/ \E upstream \in SUBSET features, required \in BOOLEAN,
                   mapping \in Mappings \cup {None} :
                   /\ UpstreamOK(mf, upstream)
                   /\ \E f \in OpponentFormLeague(mf, team, upstream, required, mapping) :
                         AppendFeature(f)
      PROVE  StrengthInv'
  <2>1. ManifestHeld(mf)
    BY DEF StrengthInv
  <2>3. ASSUME NEW f, MadeOf(f, mf), f.ratings = {}
        PROVE  Adjusted(f)
    BY <2>3 DEF Adjusted
  <2>4. ASSUME NEW upstream \in SUBSET features, UpstreamOK(mf, upstream),
               NEW f, MadeOf(f, mf), f.ratings \subseteq RatingsIn(upstream)
        PROVE  Adjusted(f)
    <3>1. ASSUME NEW g \in f.ratings
          PROVE  g \in upstream /\ g.state = "AVAILABLE"
      BY <2>4, <3>1 DEF RatingsIn
    <3>2. f.target = mf.target.match /\ \A g \in upstream : g.target = mf.target.match
      BY <2>4 DEF UpstreamOK, MadeOf
    <3> QED
      BY <3>1, <3>2 DEF Adjusted, Numbered
  <2>2. PICK f : MadeOf(f, mf) /\ Adjusted(f) /\ AppendFeature(f)
    <3>1. CASE AppendFeature(Rating(mf, team))
      BY <2>1, <2>3, <3>1, EnginesUseTheManifest
    <3>2. CASE \E f \in AttackDefence(mf, team) : AppendFeature(f)
      BY <2>1, <2>3, <3>2, EnginesUseTheManifest
    <3>3. ASSUME NEW upstream \in SUBSET features, NEW required, NEW mapping,
                 UpstreamOK(mf, upstream),
                 NEW f \in OpponentFormLeague(mf, team, upstream, required, mapping),
                 AppendFeature(f)
          PROVE  MadeOf(f, mf) /\ Adjusted(f)
      BY <2>1, <2>4, <3>3, EnginesUseTheManifest
    <3> QED
      BY <1>3, <3>1, <3>2, <3>3
  <2> QED
    BY <2>2, AppendFeatureStep
<1>4. CASE UNCHANGED strength_vars
  BY <1>4 DEF strength_vars, strength_store, StrengthInv, ManifestHeld, IsPast, MadeOf,
              FeatureId, Adjusted, Numbered
<1> QED
  BY <1>1, <1>2, <1>3, <1>4 DEF StrengthNext

LEMMA StrengthInvHolds == StrengthSpec => []StrengthInv
<1>1. StrengthInit => StrengthInv
  BY DEF StrengthInit, StrengthInv
<1>2. StrengthInv /\ [StrengthNext]_strength_vars => StrengthInv'
  BY StrengthStep
<1> QED
  BY <1>1, <1>2, PTL DEF StrengthSpec

LEMMA HeldNumbersAreSound == StrengthInv => NumbersAreSound
<1> SUFFICES ASSUME StrengthInv
             PROVE  NumbersAreSound
  OBVIOUS
<1>1. ASSUME NEW f \in Numbered
      PROVE  /\ SourceMatches(f.usable) \subseteq matches \ {f.target}
             /\ Cardinality(SourceMatches({o \in f.usable : o.team = f.team})) <= MaxMatches
             /\ KnownBy(f.usable, f.manifest[2])
  <2>1. PICK mf \in manifests : MadeOf(f, mf)
    BY DEF StrengthInv, Numbered
  <2>2. PICK S \in Offers, q \in Targets :
           /\ mf.id = ManifestId(q) /\ mf.target = q /\ mf.observations \subseteq S
           /\ \A o \in mf.observations : IsPast(o, q)
           /\ \A team \in Teams \cup {None} :
                 Cardinality(SourceMatches({o \in mf.observations : o.team = team}))
                    <= MaxMatches
    BY DEF StrengthInv, ManifestHeld
  <2>3. f.target = q.match /\ f.manifest[2] = q.cutoff
    BY <2>1, <2>2 DEF MadeOf, ManifestId
  <2>4. \A o \in f.usable : IsPast(o, q)
    BY <2>1, <2>2 DEF MadeOf
  <2> DEFINE used == SourceMatches({p \in f.usable : p.team = f.team})
             held == SourceMatches({p \in mf.observations : p.team = f.team})
  <2>5. used \subseteq held /\ Cardinality(held) <= MaxMatches
    BY <2>1, <2>2 DEF MadeOf, SourceMatches
  <2>6. IsFiniteSet(held) /\ Cardinality(held) \in Nat
    <3>1. IsFiniteSet({p \in mf.observations : p.team = f.team})
      BY <2>2, OffersAssumption, FS_Subset
    <3> QED
      BY <3>1, SourcesAreFinite
  <2>7. Cardinality(used) <= MaxMatches
    <3> HIDE DEF used, held
    <3>1. Cardinality(used) <= Cardinality(held) /\ Cardinality(used) \in Nat
      BY <2>5, <2>6, FS_Subset, FS_CardinalityType
    <3> QED
      BY <2>5, <2>6, <3>1, StrengthAssumption
  <2>8. SourceMatches(f.usable) \subseteq matches \ {f.target}
    BY <2>3, <2>4 DEF IsPast, SourceMatches
  <2>9. KnownBy(f.usable, f.manifest[2])
    BY <2>3, <2>4 DEF IsPast, KnownBy
  <2> QED
    BY <2>7, <2>8, <2>9
<1>2. NumbersAreOfThePast
  <2> SUFFICES ASSUME NEW f \in Numbered, NEW g \in {f} \cup f.ratings
               PROVE  /\ g \in Numbered
                      /\ SourceMatches(g.usable) \subseteq matches \ {f.target}
                      /\ Cardinality(SourceMatches({o \in g.usable : o.team = g.team}))
                            <= MaxMatches
                      /\ KnownBy(g.usable, g.manifest[2])
    BY DEF NumbersAreOfThePast
  <2>1. g \in Numbered /\ g.target = f.target
    BY DEF StrengthInv, Adjusted, Numbered
  <2> QED
    BY <1>1, <2>1
<1>3. OneNumberPerQuestion
  BY DEF StrengthInv, OneNumberPerQuestion, Numbered, FeatureId
<1> QED
  BY <1>2, <1>3 DEF NumbersAreSound

\* NumbersAreSound: a number kept for a team, and each number of an opponent that it
\* is adjusted by, rests on few enough other matches, all known, and on nothing from
\* after its own cutoff; there is one for a question
\* (HistoricalInputManifest.build, the three engines, StatisticalFeatureStore.append).
THEOREM NumbersAreAlwaysSound == StrengthSpec => []NumbersAreSound
BY StrengthInvHolds, HeldNumbersAreSound, PTL
=============================================================================
