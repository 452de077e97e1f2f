------------------------------ MODULE Evidence ------------------------------
(***************************************************************************)
(* EvidenceGraphStore (V4-036) and SourceConflictResolver (V4-037): claims *)
(* about matches with the evidence for and against them, what is thought   *)
(* of their sources, and the resolution of their conflicts.                *)
(***************************************************************************)
EXTENDS ResolvedMatches

CONSTANTS
    Claims,
    EvidenceInputs,     \* evidence that may be submitted
    Assessments,        \* judgements of a source's quality
    Resolutions,        \* resolutions of a claim's conflict
    Questions           \* times at which evidence is asked for

EvidenceIds == {e.id : e \in EvidenceInputs}
AssessmentIds == {a.id : a \in Assessments}

\* content: the claim's payload, compared by its hash.  note: the metadata,
\* which no hash covers.  key: the identity key claimed for the match.
ASSUME EvidenceAssumption ==
    /\ \A e \in EvidenceInputs :
          /\ DOMAIN e = {"id", "claim", "match", "key", "content", "relation",
                         "contradiction", "verification", "published", "valid_from",
                         "retrieved", "expires", "supersedes", "revision", "note"}
          /\ e.retrieved \in Nat /\ {e.published, e.valid_from, e.expires} \subseteq Nat \cup {None}
          /\ e.claim \in Claims /\ e.match \in Matches /\ e.revision \in Nat \ {0}
          /\ e.supersedes \in EvidenceIds \cup {None}
    /\ None \notin EvidenceInputs /\ None \notin EvidenceIds
    /\ None \notin Assessments /\ None \notin Nat
    /\ \A r \in Resolutions : r.claim \in Claims
    /\ Questions \subseteq [as_of : Nat, cutoff : Nat \cup {None}, kickoff : Nat \cup {None}]

VARIABLES
    items,              \* [evidence id -> the item admitted under it]
    quality,            \* [evidence id -> its latest assessment]
    quality_history,    \* [assessment id -> assessment]
    resolutions         \* of ids no two have in common

evidence_store == <<items, quality, quality_history, resolutions>>
evidence_vars == <<matches, evidence_store>>

EvidenceInit ==
    /\ matches = {}
    /\ items = [i \in EvidenceIds |-> None]
    /\ quality = [i \in EvidenceIds |-> None]
    /\ quality_history = [a \in AssessmentIds |-> None]
    /\ resolutions = {}

----------------------------------------------------------------------------
(* EvidenceGraphStore.ingest                                               *)

\* EvidenceItem.from_dict
WellTimed(e) ==
    /\ e.published # None => e.published <= e.retrieved
    /\ e.valid_from # None => e.valid_from <= e.retrieved
    /\ None \notin {e.expires, e.valid_from} => e.expires >= e.valid_from

Follows(e) ==
    IF e.supersedes = None THEN e.revision = 1
    ELSE LET p == items[e.supersedes]
         IN  /\ p # None
             /\ p.claim = e.claim /\ p.match = e.match
             /\ e.revision = p.revision + 1

Admit(e) ==
    /\ WellTimed(e)
    /\ e.match \in matches /\ e.key \in {None, e.match}
    /\ items[e.id] = None
    /\ Follows(e)
    /\ items' = [items EXCEPT ![e.id] = e]
    /\ UNCHANGED <<matches, quality, quality_history, resolutions>>

----------------------------------------------------------------------------
(* SourceConflictResolver                                                  *)

\* The latest assessment of the evidence is checked; the history is written
\* under the assessment's id, whatever is there.
AssessSource(a) ==
    LET previous == quality[a.evidence]
    IN  /\ items[a.evidence] # None
        /\ IF previous = None THEN a.supersedes = None /\ a.revision = 1
           ELSE a.supersedes = previous.id /\ a.revision = previous.revision + 1
        /\ quality' = [quality EXCEPT ![a.evidence] = a]
        /\ quality_history' = [quality_history EXCEPT ![a.id] = a]
        /\ UNCHANGED <<matches, items, resolutions>>

ForClaim(c) == {i \in EvidenceIds : items[i] # None /\ items[i].claim = c}

\* What the evidence of ids says of a claim, left to itself.
Contradiction(ids) ==
    LET of == {items[i] : i \in ids}
    IN  IF Cardinality(ids) = 1 THEN (CHOOSE e \in of : TRUE).contradiction
        ELSE IF \/ \E d, e \in of : d.content # e.content
                \/ \E e \in of : \/ e.relation = "CONTRADICTS"
                                 \/ e.contradiction \in {"PENDING", "CONFLICTED"}
        THEN "CONFLICTED" ELSE "NONE"

\* conflict_state: a resolution holds for good.
ConflictState(c) ==
    IF ForClaim(c) # {} /\ \E r \in resolutions : r.claim = c THEN "RESOLVED"
    ELSE Contradiction(ForClaim(c))

\* Mutant: a claim without a conflict may be resolved.
ResolveConflict_Any(r) ==
    /\ r.evidence # {} /\ r.basis # {} /\ r.selected \in r.evidence \cup {None}
    /\ r.evidence = ForClaim(r.claim) /\ r.basis \subseteq r.evidence
    /\ \A s \in resolutions : s.id # r.id
    /\ resolutions' = resolutions \cup {r}
    /\ UNCHANGED <<matches, items, quality, quality_history>>

ResolveConflict(r) ==
    /\ r.evidence # {} /\ r.basis # {} /\ r.selected \in r.evidence \cup {None}
    /\ r.evidence = ForClaim(r.claim) /\ r.basis \subseteq r.evidence
    /\ ConflictState(r.claim) \in {"CONFLICTED", "RESOLVED"}
    /\ \A s \in resolutions : s.id # r.id
    /\ resolutions' = resolutions \cup {r}
    /\ UNCHANGED <<matches, items, quality, quality_history>>

\* Mutant: evidence retrieved after the cutoff is not held back.
Blockers_AnyRetrieval(i, q) ==
    LET e == items[i] IN
    UNION {
       IF e.valid_from = None \/ e.valid_from > q.as_of THEN {"NOT_VALID_YET"} ELSE {},
       IF e.expires # None /\ e.expires < q.as_of THEN {"EXPIRED"} ELSE {},
       IF q.cutoff # None /\ q.kickoff # None /\ q.cutoff >= q.kickoff
       THEN {"CUTOFF_NOT_BEFORE_KICKOFF"} ELSE {},
       IF q.cutoff # None /\ (e.valid_from = None \/ e.valid_from > q.cutoff)
       THEN {"NOT_ELIGIBLE_AT_CUTOFF"} ELSE {},
       {e.verification} \cap {"NOT_VERIFIED", "REJECTED", "STALE"},
       IF ConflictState(e.claim) = "CONFLICTED" THEN {"UNRESOLVED_CONFLICT"} ELSE {},
       IF quality[i] = None \/ quality[i].band = "UNKNOWN"
       THEN {"SOURCE_QUALITY_UNKNOWN"} ELSE {}}

\* evaluate: what keeps a piece of evidence from being used at a time.
Blockers(i, q) ==
    LET e == items[i] IN
    UNION {
       IF e.valid_from = None \/ e.valid_from > q.as_of THEN {"NOT_VALID_YET"} ELSE {},
       IF e.expires # None /\ e.expires < q.as_of THEN {"EXPIRED"} ELSE {},
       IF q.cutoff # None /\ q.kickoff # None /\ q.cutoff >= q.kickoff
       THEN {"CUTOFF_NOT_BEFORE_KICKOFF"} ELSE {},
       IF q.cutoff # None /\ (\/ e.valid_from = None \/ e.valid_from > q.cutoff
                              \/ e.retrieved > q.cutoff)
       THEN {"NOT_ELIGIBLE_AT_CUTOFF"} ELSE {},
       {e.verification} \cap {"NOT_VERIFIED", "REJECTED", "STALE"},
       IF ConflictState(e.claim) = "CONFLICTED" THEN {"UNRESOLVED_CONFLICT"} ELSE {},
       IF /\ e.contradiction \in {"PENDING", "CONFLICTED"}
          /\ ConflictState(e.claim) # "RESOLVED"
       THEN {"CONTRADICTION_NOT_RESOLVED"} ELSE {},
       IF quality[i] = None \/ quality[i].band = "UNKNOWN"
       THEN {"SOURCE_QUALITY_UNKNOWN"} ELSE {}}

Eligible(i, q) == items[i] # None /\ Blockers(i, q) = {}

EvidenceNext ==
    \/ \E m \in Matches \ matches : ResolveMatch(m) /\ UNCHANGED evidence_store
    \/ \E e \in EvidenceInputs : Admit(e)
    \/ \E a \in Assessments : AssessSource(a)
    \/ \E r \in Resolutions : ResolveConflict(r)

EvidenceSpec == EvidenceInit /\ [][EvidenceNext]_evidence_vars

----------------------------------------------------------------------------
(* Safety.                                                                 *)

\* Every resolution settled a conflict that was there: the evidence it retained
\* is still held, is about its claim, and contradicts itself, unless a piece of it
\* came in as RESOLVED by its own word.
ResolutionsSettleConflicts ==
    \A r \in resolutions :
        /\ r.evidence \subseteq ForClaim(r.claim)
        /\ \/ Contradiction(r.evidence) = "CONFLICTED"
           \/ \E i \in r.evidence : items[i].contradiction = "RESOLVED"

\* Evidence that may be used at a cutoff was valid and retrieved by then, its
\* source has been judged, and if anything else is held of its claim that
\* differs or contradicts it, the claim has been resolved.
EligibleEvidenceIsSettled ==
    \A i \in EvidenceIds, q \in Questions :
        Eligible(i, q) /\ q.cutoff # None =>
            /\ items[i].valid_from <= q.cutoff /\ items[i].retrieved <= q.cutoff
            /\ quality[i] # None
            /\ \/ \E r \in resolutions : r.claim = items[i].claim
               \/ \A j \in ForClaim(items[i].claim) :
                     /\ items[j].content = items[i].content
                     /\ items[j].contradiction \notin {"PENDING", "CONFLICTED"}

\* No conflict is settled that was not there, and none that is there is passed over.
EvidenceIsSettled == ResolutionsSettleConflicts /\ EligibleEvidenceIsSettled

\* An assessment that was superseded is still in the history.
QualityHistoryKept ==
    \A i \in EvidenceIds :
        quality[i] # None /\ quality[i].supersedes # None =>
            LET p == quality_history[quality[i].supersedes]
            IN  p # None /\ p.evidence = i /\ p.revision + 1 = quality[i].revision

\* A claim that counts as resolved has a resolution that retained all of its
\* evidence.
ResolutionsCoverClaims ==
    \A c \in Claims :
        ConflictState(c) = "RESOLVED" =>
            \E r \in resolutions : r.claim = c /\ r.evidence = ForClaim(c)

\* The graph implements the revision log with forks: an item is a first revision
\* or supersedes one about the same claim and match.
ItemId(e) == [key |-> <<e.claim, e.match>>, rev |-> e.revision, evidence |-> e.id]

ItemRecord(i) ==
    [id |-> ItemId(items[i]),
     sup |-> IF items[i].supersedes = None THEN None
             ELSE ItemId(items[items[i].supersedes])]

ItemIds == [key : Claims \X Matches, rev : Nat \ {0}, evidence : EvidenceIds]

ASSUME ItemIdsAssumption == None \notin ItemIds

GraphLog == INSTANCE RevisionLog WITH
    Records <- [id : ItemIds, sup : ItemIds \cup {None}],
    log <- {ItemRecord(i) : i \in {j \in EvidenceIds : items[j] # None}}

ImplementsGraphLog == GraphLog!Spec
=============================================================================
