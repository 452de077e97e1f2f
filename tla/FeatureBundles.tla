--------------------------- MODULE FeatureBundles ---------------------------
(***************************************************************************)
(* Feature bundles (V4-038 to V4-040): the registry of schemas, the store  *)
(* of bundles, the seal over a bundle's content, and the assembly ledger   *)
(* that hands a sealed bundle downstream.                                  *)
(*                                                                         *)
(* The hash of an object is the object here.  A seal is "right" when it is *)
(* the hash of the bundle's own content and "wrong" otherwise.  A count of *)
(* the summary comes as the caller wrote it, a number or a text, in        *)
(* tenths: [text |-> BOOLEAN, tenths |-> Nat].                             *)
(***************************************************************************)
EXTENDS ResolvedMatches

CONSTANTS
    Schemas,            \* [key, by]: key is the schema and generator version
    Adapters,           \* [key, version]: key is <<kind, version, target>>
    BundleInputs,       \* what a caller may send to the store
    AssemblyRequests    \* what a caller may ask to assemble

VARIABLES
    schemas,    \* registered schemas; a key has at most one
    bundles,    \* stored bundles; an id has at most one
    adapters,   \* registered adapters; a key has at most one
    handoffs    \* handed off bundles; a bundle id has at most one

bundle_store == <<schemas, bundles, adapters, handoffs>>
bundle_vars == <<matches, bundle_store>>

BundleInit ==
    matches = {} /\ schemas = {} /\ bundles = {} /\ adapters = {} /\ handoffs = {}

RegisterSchema(s) ==
    /\ \A t \in schemas : t.key # s.key
    /\ schemas' = schemas \cup {s}
    /\ UNCHANGED <<bundles, adapters, handoffs>>

RegisterAdapter(a) ==
    /\ \A b \in adapters : b.key # a.key
    /\ adapters' = adapters \cup {a}
    /\ UNCHANGED <<schemas, bundles, handoffs>>

----------------------------------------------------------------------------
(* V4-038: FeatureBundle.  Cutoff and kickoff are texts, never compared.   *)

\* FeatureRecord.from_dict.  A feature that is not available says why; it may
\* still carry a value.
FeatureOK(f) ==
    /\ IF f.state = "AVAILABLE" THEN f.value # None ELSE f.reason # None
    /\ f.refs # {}

\* References of every kind have an id and a hash; official odds say that they
\* are official, external markets that they are not.
RefsOK(b) == b.facts # {} /\ b.roles_agree

BundleOK(b) ==
    /\ RefsOK(b)
    /\ \A f \in b.features : FeatureOK(f)
    /\ b.hashes_agree
    /\ b.revision >= 1

\* What input_hash covers.
InputLineage(b) == <<b.schema, b.config, b.match, b.facts, b.cutoff, b.kickoff>>

\* The id made of content leaves out quality, summary, seal and metadata.
BundleId(b) ==
    IF b.id # None THEN <<"supplied", b.id>>
    ELSE <<"computed", InputLineage(b), b.features, b.revision>>

\* The predecessor is of the match and a revision before; a bundle without one
\* may have any revision.
BundleFollows(b) ==
    b.supersedes # None =>
        \E p \in bundles : /\ BundleId(p) = b.supersedes
                           /\ p.match = b.match
                           /\ b.revision = p.revision + 1

IngestBundle(b) ==
    /\ BundleOK(b)
    /\ \E s \in schemas : s.key = b.schema
    /\ b.match \in matches
    /\ \A p \in bundles : BundleId(p) # BundleId(b)
    /\ BundleFollows(b)
    /\ bundles' = bundles \cup {b}
    /\ UNCHANGED <<schemas, adapters, handoffs>>

----------------------------------------------------------------------------
(* V4-039: FeatureSnapshotHasher.                                          *)

\* The sealed bundle keeps the id and the revision of the unsealed one.
Seal(b) == [b EXCEPT !.seal = "right"]

----------------------------------------------------------------------------
(* V4-040: FeatureAssemblyStore.                                           *)

\* How many features are in each state.
Missingness(features) ==
    [s \in {f.state : f \in features} |->
        Cardinality({f \in features : f.state = s})]

Resolve(kind, version, target) ==
    {a \in adapters : a.key = <<kind, version, target>>}

\* Source objects are of the match and were available at the cutoff; each has a
\* registered adapter, and the request declares it.
SourcesOK(q) ==
    /\ q.sources # {}
    /\ \A o \in q.sources :
          /\ o.match = q.match
          /\ o.available <= q.cutoff
          /\ Resolve(o.kind, o.version, q.schema) # {}
          /\ <<o.kind, o.version, q.schema>> \in q.declared

\* int() of each count: it drops the fraction of a number, and raises on a text
\* that has one.
Readable(summary) ==
    \A s \in DOMAIN summary : summary[s].text => summary[s].tenths % 10 = 0
Counted(summary) == [s \in DOMAIN summary |-> summary[s].tenths \div 10]

\* Mutant: the counts of the summary are not compared.
RequestOK_Uncounted(q) ==
    /\ SourcesOK(q)
    /\ BundleOK(q.bundle)
    /\ <<q.bundle.schema, q.bundle.config, q.bundle.match>> =
          <<q.schema, q.config, q.match>>
    /\ q.bundle.seal # None

\* _parse_request.  The bundle is parsed without a store: its match need not be
\* resolved, nor its schema registered; its seal is not verified, and its
\* cutoff and references are not compared with the request's.
RequestOK(q) ==
    /\ SourcesOK(q)
    /\ BundleOK(q.bundle)
    /\ <<q.bundle.schema, q.bundle.config, q.bundle.match>> =
          <<q.schema, q.config, q.match>>
    /\ q.bundle.seal # None
    /\ Readable(q.bundle.summary)
    /\ Counted(q.bundle.summary) = Missingness(q.bundle.features)

\* The summary is handed off as it came, not as it was counted.
Handoff(q) ==
    [id |-> BundleId(q.bundle), seal |-> q.bundle.seal,
     lineage |-> InputLineage(q.bundle), summary |-> q.bundle.summary,
     quality |-> q.bundle.quality,
     adapters |-> UNION {Resolve(o.kind, o.version, q.schema) : o \in q.sources}]

Assemble(q) ==
    /\ RequestOK(q)
    /\ \A h \in handoffs : h.id # BundleId(q.bundle)
    /\ handoffs' = handoffs \cup {Handoff(q)}
    /\ UNCHANGED <<schemas, bundles, adapters>>

----------------------------------------------------------------------------
BundleNext ==
    \/ \E m \in Matches \ matches : ResolveMatch(m) /\ UNCHANGED bundle_store
    \/ /\ \/ \E s \in Schemas : RegisterSchema(s)
          \/ \E a \in Adapters : RegisterAdapter(a)
          \/ \E b \in BundleInputs : IngestBundle(b)
          \/ \E q \in AssemblyRequests : Assemble(q)
       /\ UNCHANGED matches

BundleSpec == BundleInit /\ [][BundleNext]_bundle_vars

----------------------------------------------------------------------------
(* Safety.                                                                 *)

\* The two stores never meet, yet what was handed off under an id made of
\* content cites the inputs of the bundle stored under that id, and its
\* summary, read as whole numbers, counts that bundle's features.
HandoffsCountTheFeatures ==
    \A b \in bundles, h \in handoffs :
        b.id = None /\ h.id = BundleId(b) =>
            /\ h.lineage = InputLineage(b)
            /\ Counted(h.summary) = Missingness(b.features)

\* Refuted: docs/V4_FEATURE_BUNDLE_CONTRACT_1.0.md, "`missingness_summary`
\* reconciles with the feature records and preserves states separately."  What is
\* handed off says 1.9 or "1" where one feature is in the state.
SummariesReconcile ==
    \A b \in bundles, h \in handoffs :
        b.id = None /\ h.id = BundleId(b) =>
            h.summary = [s \in DOMAIN Missingness(b.features) |->
                            [text |-> FALSE, tenths |-> 10 * Missingness(b.features)[s]]]
=============================================================================
