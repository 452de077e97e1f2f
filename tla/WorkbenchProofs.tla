-------------------------- MODULE WorkbenchProofs --------------------------
(***************************************************************************)
(* Theorems about Workbench, for any queue, any reviews and any number of  *)
(* crashes and failed writes.                                              *)
(*                                                                         *)
(* The argument: the ledger is one line of revisions for each item         *)
(* (Linear), and what submit is about to append continues it (Continues).  *)
(* Between the two nothing else writes, so the append keeps it; a line     *)
(* that is torn makes the ledger unreadable, and then nothing is appended. *)
(***************************************************************************)
EXTENDS Workbench, SequenceTheorems, TLAPS

USE WorkbenchAssumption

\* The reviews of a ledger, whole or torn: each has an id of its own, what it
\* supersedes is there, and it says something else; each item has a last one.
Linear(chunks) ==
    /\ chunks \in Seq(Chunks)
    /\ \A i \in Items :
          Reviewed(chunks, i) # {} =>
              \E r \in Reviewed(chunks, i) : \A s \in Reviewed(chunks, i) : s.id.rev <= r.id.rev
    /\ \A n, m \in DOMAIN chunks :
          LET r == chunks[n].record
              s == chunks[m].record
          IN  n # m => r.id # s.id /\ (s.sup = r.id => r.action # s.action \/ r.text # s.text)
    /\ \A n \in DOMAIN chunks :
          chunks[n].record.sup # None =>
              \E m \in DOMAIN chunks : chunks[m].record.id = chunks[n].record.sup

\* p may be appended: it is above the revisions of its item, and if it is not
\* the first, it supersedes the last one and says something else.
Continues(chunks, p) ==
    /\ p \in Records
    /\ \A n \in DOMAIN chunks :
          chunks[n].record.id.key = p.id.key => chunks[n].record.id.rev < p.id.rev
    /\ IF p.sup = None THEN p.id.rev = 1
       ELSE \E n \in DOMAIN chunks :
                LET r == chunks[n].record
                IN  /\ r.id = p.sup /\ r.id.key = p.id.key /\ r.id.rev + 1 = p.id.rev
                    /\ r.action # p.action \/ r.text # p.text

\* A first start writes the files in order, and never one that is there.
CreationInv ==
    /\ disk["dir"] = Absent => phase \in {"down"} /\ \A f \in Files : disk[f] = Absent
    /\ phase = "creating" => Ledger \in {Absent, <<>>}

\* Nothing is written between submit's reads and its append.
PendingInv ==
    phase = "append" => /\ CanRead /\ Len(Ledger) < MaxLines
                        /\ Continues(Ledger, pending)

\* A refresh has made the exports before todo anew.
RefreshInv ==
    phase = "refresh" =>
        /\ \A n \in 1..(todo - 1) : RefreshOrder[n] \in Exports =>
              disk[RefreshOrder[n]] = Export(RefreshOrder[n], Ledger)
        /\ todo > 5 => disk["session"].summary = Summary(Ledger)

\* No answer stands while a review is on its way, or before the first start.
AnswerInv ==
    /\ phase \in {"creating", "append", "refresh"} => answer = None
    /\ disk["dir"] = Absent => answer = None

IInv ==
    /\ TypeOK
    /\ Ledger # Absent => Linear(Ledger)
    /\ CreationInv /\ PendingInv
    /\ ExportsAreSnapshots
    /\ RefreshInv /\ AnswerInv /\ CommittedIsExported

----------------------------------------------------------------------------
(* The ledger.                                                             *)

LEMMA FileNames ==
    /\ DOMAIN CreationOrder = 1..10 /\ Len(CreationOrder) = 10
    /\ CreationOrder[1] = "dir" /\ CreationOrder[2] = "queue"
    /\ CreationOrder[3] = "queue_manifest" /\ CreationOrder[4] = "summary"
    /\ CreationOrder[5] = "manifest" /\ CreationOrder[6] = "ledger"
    /\ CreationOrder[7] = "conflicts" /\ CreationOrder[8] = "remaining"
    /\ CreationOrder[9] = "session" /\ CreationOrder[10] = "report"
    /\ DOMAIN RefreshOrder = 1..6 /\ Len(RefreshOrder) = 6
    /\ RefreshOrder[1] = "remaining" /\ RefreshOrder[2] = "conflicts"
    /\ RefreshOrder[3] = "manifest" /\ RefreshOrder[4] = "summary"
    /\ RefreshOrder[5] = "session" /\ RefreshOrder[6] = "report"
BY DEF CreationOrder, RefreshOrder

LEMMA FilesNamed ==
    Files = {"dir", "queue", "queue_manifest", "summary", "manifest", "ledger",
             "conflicts", "remaining", "session", "report"}
<1>1. Files = {CreationOrder[n] : n \in 1..10}
  BY FileNames DEF Files
<1>2. 1..10 = {1, 2, 3, 4, 5, 6, 7, 8, 9, 10}
  OBVIOUS
<1> QED  BY <1>1, <1>2, FileNames

\* The last review of an item is one of the ledger, above all others of it.
LEMMA LastReview ==
    ASSUME NEW chunks, Linear(chunks), NEW i \in DOMAIN LatestByItem(chunks)
    PROVE  LET r == LatestByItem(chunks)[i]
           IN  /\ i \in Items /\ r \in Records /\ r.id.key = i
               /\ \E n \in DOMAIN chunks : chunks[n].record = r
               /\ \A n \in DOMAIN chunks :
                     chunks[n].record.id.key = i => chunks[n].record.id.rev <= r.id.rev
<1> DEFINE r == LatestByItem(chunks)[i]
<1>1. PICK n \in DOMAIN chunks : i = chunks[n].record.id.key
  BY DEF LatestByItem
<1>2. \A m \in DOMAIN chunks : chunks[m] \in Chunks
  BY DEF Linear
<1>3. i \in Items
  BY <1>1, <1>2 DEF Chunks, Records, RecordIds
<1>4. chunks[n].record \in Reviewed(chunks, i)
  BY <1>1 DEF Reviewed
<1>5. \E x \in Reviewed(chunks, i) : \A s \in Reviewed(chunks, i) : s.id.rev <= x.id.rev
  BY <1>3, <1>4 DEF Linear
<1>6. r = CHOOSE x \in Reviewed(chunks, i) : \A s \in Reviewed(chunks, i) : s.id.rev <= x.id.rev
  BY DEF LatestByItem
<1>7. r \in Reviewed(chunks, i) /\ \A s \in Reviewed(chunks, i) : s.id.rev <= r.id.rev
  BY <1>5, <1>6
<1> HIDE DEF r
<1>8. \A m \in DOMAIN chunks : chunks[m].record.id.key = i => chunks[m].record \in Reviewed(chunks, i)
  BY DEF Reviewed
<1>9. \E m \in DOMAIN chunks : chunks[m].record = r /\ r.id.key = i
  BY <1>7 DEF Reviewed
<1>10. r \in Records
  BY <1>9, <1>2 DEF Chunks
<1> QED  BY <1>3, <1>7, <1>8, <1>9, <1>10 DEF r

\* An append of what continues the ledger, whole or torn, keeps it linear.
LEMMA AppendContinues ==
    ASSUME NEW chunks, Linear(chunks), NEW p, Continues(chunks, p),
           NEW bytes \in {"line", "open", "torn"}
    PROVE  Linear(Append(chunks, [record |-> p, bytes |-> bytes]))
<1> DEFINE c == [record |-> p, bytes |-> bytes]
           longer == Append(chunks, c)
           last == Len(chunks) + 1
<1>1. c \in Chunks /\ c.record = p
  BY DEF Continues, Chunks
<1>2. chunks \in Seq(Chunks)
  BY DEF Linear
<1>3. /\ longer \in Seq(Chunks)
      /\ DOMAIN chunks = 1..Len(chunks) /\ Len(chunks) \in Nat
      /\ DOMAIN longer = 1..last
      /\ \A n \in DOMAIN chunks : longer[n] = chunks[n]
      /\ longer[last] = c
  BY <1>1, <1>2
<1> HIDE DEF c, longer
<1>4. \A n \in DOMAIN longer : n = last \/ n \in DOMAIN chunks
  BY <1>3
<1>5. \A n \in DOMAIN chunks : n \in DOMAIN longer /\ n # last
  BY <1>3
<1>6. last \in DOMAIN longer /\ longer[last].record = p
  BY <1>1, <1>3
<1>7. \A n \in DOMAIN chunks : chunks[n].record \in Records /\ longer[n].record = chunks[n].record
  <2>1. \A n \in DOMAIN chunks : chunks[n] \in Chunks
    BY <1>2
  <2> QED  BY <1>3, <2>1 DEF Chunks
<1>8. \A n \in DOMAIN chunks : chunks[n].record.id # p.id
  BY <1>7 DEF Continues, Records, RecordIds
<1>9. ASSUME NEW i \in Items, Reviewed(longer, i) # {}
      PROVE  \E r \in Reviewed(longer, i) : \A s \in Reviewed(longer, i) : s.id.rev <= r.id.rev
  <2>1. Reviewed(longer, i) = Reviewed(chunks, i) \cup (IF p.id.key = i THEN {p} ELSE {})
    BY <1>4, <1>5, <1>6, <1>7 DEF Reviewed
  <2>2. \A s \in Reviewed(chunks, i) : \E n \in DOMAIN chunks : s = chunks[n].record /\ s.id.key = i
    BY DEF Reviewed
  <2>3. CASE p.id.key = i
    <3>1. \A s \in Reviewed(chunks, i) : s.id.rev <= p.id.rev
      BY <2>2, <2>3, <1>7 DEF Continues, Records, RecordIds
    <3>2. p.id.rev <= p.id.rev
      BY DEF Continues, Records, RecordIds
    <3> QED  BY <2>1, <2>3, <3>1, <3>2
  <2>4. CASE p.id.key # i
    BY <2>1, <2>4, <1>9 DEF Linear
  <2> QED  BY <2>3, <2>4
<1>10. ASSUME NEW n \in DOMAIN longer, NEW m \in DOMAIN longer, n # m
       PROVE  /\ longer[n].record.id # longer[m].record.id
              /\ longer[m].record.sup = longer[n].record.id =>
                    \/ longer[n].record.action # longer[m].record.action
                    \/ longer[n].record.text # longer[m].record.text
  <2>1. CASE n \in DOMAIN chunks /\ m \in DOMAIN chunks
    BY <2>1, <1>7, <1>10 DEF Linear
  <2>2. CASE n = last /\ m \in DOMAIN chunks
    <3>1. chunks[m].record.sup # p.id
      BY <2>2, <1>7, <1>8 DEF Linear, Continues, Records
    <3> QED  BY <2>2, <3>1, <1>6, <1>7, <1>8
  <2>3. CASE n \in DOMAIN chunks /\ m = last
    <3>1. ASSUME p.sup = chunks[n].record.id
          PROVE  chunks[n].record.action # p.action \/ chunks[n].record.text # p.text
      <4>1. p.sup # None
        BY <2>3, <3>1, <1>7 DEF Records
      <4>2. PICK k \in DOMAIN chunks :
               /\ chunks[k].record.id = p.sup
               /\ chunks[k].record.action # p.action \/ chunks[k].record.text # p.text
        BY <4>1 DEF Continues
      <4>3. k = n
        BY <2>3, <3>1, <4>2 DEF Linear
      <4> QED  BY <4>2, <4>3
    <3> QED  BY <2>3, <3>1, <1>6, <1>7, <1>8
  <2> QED  BY <2>1, <2>2, <2>3, <1>4, <1>10
<1>11. ASSUME NEW n \in DOMAIN longer, longer[n].record.sup # None
       PROVE  \E m \in DOMAIN longer : longer[m].record.id = longer[n].record.sup
  <2>1. CASE n = last
    BY <2>1, <1>5, <1>6, <1>7, <1>11 DEF Continues
  <2>2. CASE n \in DOMAIN chunks
    BY <2>2, <1>5, <1>7, <1>11 DEF Linear
  <2> QED  BY <2>1, <2>2, <1>4
<1> QED  BY <1>3, <1>9, <1>10, <1>11 DEF Linear, longer, c

\* What submit makes of the last review of the item continues the ledger.
LEMMA SubmitContinues ==
    ASSUME NEW chunks, Linear(chunks), NEW i \in Items, NEW action \in Actions,
           NEW text \in Texts \cup {None}, NEW note \in Notes,
           NEW prior, prior = IF i \in DOMAIN LatestByItem(chunks) THEN LatestByItem(chunks)[i] ELSE None,
           ~Repeats(prior, action, text)
    PROVE  Continues(chunks, RecordOf(i, prior, action, text, note))
<1> DEFINE p == RecordOf(i, prior, action, text, note)
<1>1. CASE i \in DOMAIN LatestByItem(chunks)
  <2>1. /\ prior \in Records /\ prior.id.key = i
        /\ \E n \in DOMAIN chunks : chunks[n].record = prior
        /\ \A n \in DOMAIN chunks :
              chunks[n].record.id.key = i => chunks[n].record.id.rev <= prior.id.rev
    BY <1>1, LastReview
  <2>2. prior # None /\ prior.id \in RecordIds /\ prior.id.rev \in Nat \ {0} /\ prior.id # None
    BY <2>1 DEF Records, RecordIds
  <2>3. p = [id |-> [key |-> i, rev |-> prior.id.rev + 1], sup |-> prior.id,
             action |-> action, text |-> text, note |-> note]
    BY <2>2 DEF RecordOf
  <2>4. p \in Records
    BY <2>2, <2>3 DEF Records, RecordIds
  <2>5. \A n \in DOMAIN chunks :
           chunks[n].record.id.key = i => chunks[n].record.id.rev < prior.id.rev + 1
    <3>1. \A n \in DOMAIN chunks : chunks[n].record.id.rev \in Nat
      <4>1. \A n \in DOMAIN chunks : chunks[n] \in Chunks
        BY DEF Linear
      <4> QED  BY <4>1 DEF Chunks, Records, RecordIds
    <3> QED  BY <2>1, <2>2, <3>1
  <2>6. prior.action # action \/ prior.text # text
    BY <2>2 DEF Repeats
  <2>7. /\ p.sup = prior.id /\ p.id.key = i /\ p.id.rev = prior.id.rev + 1
        /\ p.action = action /\ p.text = text
    BY <2>3
  <2> HIDE DEF p
  <2>8. Continues(chunks, p)
    BY <2>1, <2>2, <2>4, <2>5, <2>6, <2>7 DEF Continues
  <2> QED  BY <2>8 DEF p
<1>2. CASE i \notin DOMAIN LatestByItem(chunks)
  <2>1. p = [id |-> [key |-> i, rev |-> 1], sup |-> None,
             action |-> action, text |-> text, note |-> note]
    BY <1>2 DEF RecordOf
  <2>2. p \in Records
    BY <2>1 DEF Records, RecordIds
  <2>3. \A n \in DOMAIN chunks : chunks[n].record.id.key # i
    BY <1>2 DEF LatestByItem
  <2>4. p.sup = None /\ p.id.key = i /\ p.id.rev = 1
    BY <2>1
  <2> HIDE DEF p
  <2>5. Continues(chunks, p)
    BY <2>2, <2>3, <2>4 DEF Continues
  <2> QED  BY <2>5 DEF p
<1> QED  BY <1>1, <1>2

\* What an export says is of the items and of the reviews in the ledger.
LEMMA ExportTypes ==
    ASSUME NEW chunks, Linear(chunks)
    PROVE  Export("remaining", chunks) \subseteq Items /\ Export("conflicts", chunks) \subseteq Records
<1>1. Export("remaining", chunks) = Remaining(LatestByItem(chunks))
  BY DEF Export
<1>2. Export("conflicts", chunks) =
         {LatestByItem(chunks)[i] : i \in With(LatestByItem(chunks), {"CONFLICT"})}
  BY DEF Export
<1>3. \A i \in DOMAIN LatestByItem(chunks) : LatestByItem(chunks)[i] \in Records
  BY LastReview
<1> QED  BY <1>1, <1>2, <1>3 DEF Remaining, With

LEMMA EmptyIsLinear == Linear(<<>>)
BY DEF Linear, Reviewed

\* The first part of an append is the whole of what it was appended to.
LEMMA PartsOfAppend ==
    ASSUME NEW chunks \in Seq(Chunks), NEW c \in Chunks, NEW n \in 1..Len(chunks)
    PROVE  SubSeq(Append(chunks, c), 1, n) = SubSeq(chunks, 1, n)
OBVIOUS

LEMMA WholePart ==
    ASSUME NEW chunks \in Seq(Chunks)
    PROVE  chunks = <<>> \/ (Len(chunks) \in DOMAIN chunks /\ SubSeq(chunks, 1, Len(chunks)) = chunks)
OBVIOUS

----------------------------------------------------------------------------
(* The steps.                                                              *)

LEMMA InvInit == Init => IInv
<1> SUFFICES ASSUME Init PROVE IInv
  OBVIOUS
<1>1. DOMAIN disk = Files /\ \A f \in Files : disk[f] = Absent
  BY DEF Init
<1>2. Ledger = Absent /\ disk["remaining"] = Absent /\ disk["conflicts"] = Absent
      /\ disk["session"] = Absent /\ Exports \subseteq Files
  BY <1>1, FilesNamed DEF Ledger, Exports
<1>3. TypeOK
  BY <1>1, <1>2, FileNames DEF Init, TypeOK
<1>4. CreationInv /\ PendingInv /\ RefreshInv /\ AnswerInv /\ CommittedIsExported
  <2>1. phase = "down" /\ answer = None /\ None # "committed"
    BY DEF Init, Answers
  <2> QED  BY <1>1, <2>1 DEF CreationInv, PendingInv, RefreshInv, AnswerInv, CommittedIsExported
<1>5. ExportsAreSnapshots
  BY <1>1, <1>2 DEF ExportsAreSnapshots
<1> QED  BY <1>2, <1>3, <1>4, <1>5 DEF IInv

\* What TypeOK and the ledger's invariant say of an appending process and its disk
\* after an append of any part of the line, or of nothing.
LEMMA Appends ==
    ASSUME IInv, phase = "append",
           UNCHANGED disk \/ \E bytes \in {"torn", "open", "line"} : Write("ledger", Appended(bytes))
    PROVE  /\ DOMAIN disk' = Files /\ \A f \in Files \ {"ledger"} : disk'[f] = disk[f]
           /\ Ledger' # Absent /\ Linear(Ledger') /\ Len(Ledger') <= MaxLines
           /\ ExportsAreSnapshots'
<1>1. /\ DOMAIN disk = Files /\ Ledger # Absent /\ Linear(Ledger) /\ Ledger \in Seq(Chunks)
      /\ Len(Ledger) < MaxLines /\ Continues(Ledger, pending)
  BY DEF IInv, TypeOK, PendingInv, Linear
<1>2. CASE UNCHANGED disk
  BY <1>1, <1>2 DEF Ledger, IInv, TypeOK, ExportsAreSnapshots
<1>3. ASSUME NEW bytes \in {"torn", "open", "line"}, Write("ledger", Appended(bytes))
      PROVE  /\ DOMAIN disk' = Files /\ \A f \in Files \ {"ledger"} : disk'[f] = disk[f]
             /\ Ledger' # Absent /\ Linear(Ledger') /\ Len(Ledger') <= MaxLines
             /\ ExportsAreSnapshots'
  <2> DEFINE c == [record |-> pending, bytes |-> bytes]
  <2>1. /\ DOMAIN disk' = Files /\ \A f \in Files \ {"ledger"} : disk'[f] = disk[f]
        /\ Ledger' = Append(Ledger, c)
    BY <1>1, <1>3, FilesNamed DEF Write, Appended, Ledger
  <2>2. Linear(Ledger')
    BY <1>1, <2>1, AppendContinues
  <2>3. c \in Chunks
    BY <1>1 DEF Continues, Chunks
  <2>4. Ledger' # Absent /\ Len(Ledger') = Len(Ledger) + 1
    BY <1>1, <2>1, <2>3
  <2>5. /\ DOMAIN Ledger = 1..Len(Ledger) /\ DOMAIN Ledger' = 1..(Len(Ledger) + 1) /\ Len(Ledger) \in Nat
    BY <1>1, <2>1, <2>3
  <2> HIDE DEF c
  <2>6. ASSUME NEW f \in Exports, disk'[f] # Absent
        PROVE  \/ disk'[f] = Export(f, <<>>)
               \/ \E n \in DOMAIN Ledger' : disk'[f] = Export(f, SubSeq(Ledger', 1, n))
    <3>1. disk'[f] = disk[f]
      BY <2>1, FilesNamed DEF Exports
    <3>2. CASE disk[f] = Export(f, <<>>)
      BY <3>1, <3>2
    <3>3. ASSUME NEW n \in DOMAIN Ledger, disk[f] = Export(f, SubSeq(Ledger, 1, n))
          PROVE  \E m \in DOMAIN Ledger' : disk'[f] = Export(f, SubSeq(Ledger', 1, m))
      <4>1. n \in DOMAIN Ledger' /\ n \in 1..Len(Ledger)
        BY <2>5
      <4>2. SubSeq(Append(Ledger, c), 1, n) = SubSeq(Ledger, 1, n)
        BY <1>1, <2>3, <4>1, PartsOfAppend
      <4> QED  BY <2>1, <3>1, <3>3, <4>1, <4>2
    <3> QED  BY <2>6, <3>1, <3>2, <3>3 DEF IInv, ExportsAreSnapshots
  <2>7. ExportsAreSnapshots'
    BY <2>4, <2>6 DEF ExportsAreSnapshots
  <2>8. Len(Ledger') <= MaxLines
    BY <1>1, <2>4, <2>5
  <2> QED  BY <2>1, <2>2, <2>4, <2>7, <2>8
<1> QED  BY <1>2, <1>3

\* What the type invariant says of the files, and of the process.
DiskOK ==
    /\ DOMAIN disk = Files
    /\ Ledger = Absent \/ (Ledger \in Seq(Chunks) /\ Len(Ledger) <= MaxLines)
    /\ disk["remaining"] = Absent \/ disk["remaining"] \subseteq Items
    /\ disk["conflicts"] = Absent \/ disk["conflicts"] \subseteq Records
    /\ disk["session"] # Absent => disk["session"].skipped \subseteq Items

ProcessOK ==
    /\ phase \in {"down", "creating", "idle", "append", "refresh"}
    /\ todo \in DOMAIN RefreshOrder
    /\ pending \in Records \cup {None}
    /\ phase \in {"append", "refresh"} => Ledger # Absent
    /\ phase = "append" <=> pending # None
    /\ answer \in Answers \cup {None}
    /\ crashes \in 0..MaxCrashes /\ failures \in 0..MaxFailures

LedgerInv == Ledger # Absent => Linear(Ledger)

LEMMA TypeParts == DiskOK' /\ ProcessOK' => TypeOK'
BY DEF TypeOK, DiskOK, ProcessOK

\* A step that leaves the disk alone keeps what is said of the disk alone.
LEMMA DiskKept ==
    ASSUME IInv, UNCHANGED disk
    PROVE  /\ DiskOK' /\ LedgerInv' /\ ExportsAreSnapshots'
           /\ UNCHANGED Ledger
           /\ CanRead' <=> CanRead
<1>1. DiskOK /\ LedgerInv /\ ExportsAreSnapshots
  BY DEF IInv, TypeOK, DiskOK, LedgerInv
<1>2. UNCHANGED Ledger
  BY DEF Ledger
<1> QED  BY <1>1, <1>2 DEF DiskOK, LedgerInv, ExportsAreSnapshots, CanRead

LEMMA CreateStep == ASSUME IInv, Create PROVE IInv'
<1>1. PICK n \in DOMAIN CreationOrder :
        /\ disk[CreationOrder[n]] = Absent
        /\ \A m \in 1..(n - 1) : disk[CreationOrder[m]] # Absent
        /\ Write(CreationOrder[n], FirstContent(CreationOrder[n]))
        /\ phase' = IF n = Len(CreationOrder) THEN "idle" ELSE "creating"
  BY DEF Create
<1> DEFINE file == CreationOrder[n]
<1>2. /\ UNCHANGED <<todo, pending, answer, crashes, failures>>
      /\ phase = "creating" \/ (phase = "down" /\ disk["dir"] = Absent)
  BY DEF Create
<1>3. file \in Files /\ n \in 1..10
  BY FileNames DEF Files
<1>4. /\ DOMAIN disk' = Files /\ disk'[file] = FirstContent(file)
      /\ \A f \in Files \ {file} : disk'[f] = disk[f]
  BY <1>1, <1>3 DEF Write, IInv, TypeOK
<1>5. answer = None /\ pending = None
  BY <1>2 DEF IInv, TypeOK, AnswerInv
<1>6. Ledger \in {Absent, <<>>}
  BY <1>2, FilesNamed DEF IInv, CreationInv, Ledger
<1>7. Ledger' \in {Absent, <<>>}
  <2>1. CASE file = "ledger"
    BY <1>4, <2>1 DEF Ledger, FirstContent, Exports
  <2>2. CASE file # "ledger"
    BY <1>4, <1>6, <2>2, FilesNamed DEF Ledger
  <2> QED  BY <2>1, <2>2
<1>8. Ledger' # Absent => Linear(Ledger')
  BY <1>7, EmptyIsLinear
<1>9. disk'["dir"] # Absent
  <2>1. CASE file = "dir"
    BY <1>4, <2>1 DEF FirstContent, Exports
  <2>2. CASE file # "dir"
    <3>1. n # 1
      BY <2>2, FileNames
    <3>2. 1 \in 1..(n - 1)
      BY <1>3, <3>1
    <3> QED  BY <1>1, <1>4, <2>2, <3>2, FileNames, FilesNamed
  <2> QED  BY <2>1, <2>2
<1>10. disk' = [disk EXCEPT ![file] = FirstContent(file)]
  BY <1>1 DEF Write
<1>11. ExportsAreSnapshots'
  <2>1. SUFFICES ASSUME NEW f \in Exports, disk'[f] # Absent
                 PROVE  disk'[f] = Export(f, <<>>)
    BY DEF ExportsAreSnapshots
  <2>2. f \in Files
    BY FilesNamed DEF Exports
  <2>3. CASE f = file
    <3>1. FirstContent(f) = Export(f, <<>>)
      BY DEF FirstContent, Exports
    <3> QED  BY <1>4, <2>3, <3>1
  <2>4. CASE f # file
    <3>1. disk'[f] = disk[f]
      BY <1>4, <2>2, <2>4
    <3>2. Ledger # Absent => DOMAIN Ledger = {}
      BY <1>6
    <3> QED  BY <2>1, <3>1, <3>2 DEF IInv, ExportsAreSnapshots
  <2> QED  BY <2>3, <2>4
<1>12. TypeOK'
  <2>1. Ledger' = Absent \/ (Ledger' \in Seq(Chunks) /\ Len(Ledger') <= MaxLines)
    <3>1. <<>> \in Seq(Chunks) /\ Len(<<>>) = 0 /\ 0 <= MaxLines
      OBVIOUS
    <3> QED  BY <1>7, <3>1
  <2>2. disk'["remaining"] = Absent \/ disk'["remaining"] \subseteq Items
    <3>1. CASE file = "remaining"
      BY <1>4, <3>1, EmptyIsLinear, ExportTypes DEF FirstContent, Exports
    <3>2. CASE file # "remaining"
      BY <1>4, <3>2, FilesNamed DEF IInv, TypeOK
    <3> QED  BY <3>1, <3>2
  <2>3. disk'["conflicts"] = Absent \/ disk'["conflicts"] \subseteq Records
    <3>1. CASE file = "conflicts"
      BY <1>4, <3>1, EmptyIsLinear, ExportTypes DEF FirstContent, Exports
    <3>2. CASE file # "conflicts"
      BY <1>4, <3>2, FilesNamed DEF IInv, TypeOK
    <3> QED  BY <3>1, <3>2
  <2>4. disk'["session"] # Absent => disk'["session"].skipped \subseteq Items
    <3>1. CASE file = "session"
      BY <1>4, <3>1 DEF FirstContent, Exports, SessionState
    <3>2. CASE file # "session"
      BY <1>4, <3>2, FilesNamed DEF IInv, TypeOK
    <3> QED  BY <3>1, <3>2
  <2>5. phase' \in {"idle", "creating"}
    BY <1>1
  <2> QED
    BY <1>2, <1>4, <1>5, <2>1, <2>2, <2>3, <2>4, <2>5 DEF IInv, TypeOK
<1>13. CreationInv' /\ PendingInv' /\ RefreshInv' /\ AnswerInv' /\ CommittedIsExported'
  <2>1. phase' \in {"idle", "creating"} /\ answer' = None /\ None # "committed"
    BY <1>1, <1>2, <1>5 DEF Answers
  <2> QED  BY <1>7, <1>9, <2>1 DEF CreationInv, PendingInv, RefreshInv, AnswerInv, CommittedIsExported
<1> QED  BY <1>8, <1>11, <1>12, <1>13 DEF IInv

LEMMA ResumeStep == ASSUME IInv, Resume PROVE IInv'
<1>1. /\ phase = "down" /\ disk["queue_manifest"] # Absent /\ phase' = "idle"
      /\ UNCHANGED <<disk, todo, pending, answer, crashes, failures>>
  BY DEF Resume
<1>2. disk["dir"] # Absent
  BY <1>1, FilesNamed DEF IInv, CreationInv
<1>3. ProcessOK'
  BY <1>1 DEF IInv, TypeOK, ProcessOK
<1>4. CreationInv' /\ PendingInv' /\ RefreshInv' /\ AnswerInv'
  BY <1>1, <1>2 DEF CreationInv, PendingInv, RefreshInv, AnswerInv
<1>5. CommittedIsExported'
  BY <1>1, DiskKept DEF IInv, CommittedIsExported
<1> QED  BY <1>1, <1>3, <1>4, <1>5, DiskKept, TypeParts DEF IInv, LedgerInv

LEMMA SubmitStep ==
    ASSUME IInv, NEW i \in Items, NEW action \in Actions, NEW text \in Texts, NEW note \in Notes,
           Submit(i, action, text, note)
    PROVE  IInv'
<1> DEFINE prior == IF i \in DOMAIN LatestByItem(Ledger) THEN LatestByItem(Ledger)[i] ELSE None
           source_text == SubmittedText(i, action, text)
<1>1. /\ phase = "idle" /\ CanRead /\ Len(Ledger) < MaxLines
      /\ ~Repeats(prior, action, source_text)
      /\ pending' = RecordOf(i, prior, action, source_text, note)
      /\ phase' = "append" /\ answer' = None
      /\ UNCHANGED <<disk, todo, crashes, failures>>
  BY DEF Submit, MayRead
<1>2. source_text \in Texts \cup {None}
  BY DEF SubmittedText
<1>3. Ledger # Absent /\ Linear(Ledger)
  BY <1>1 DEF IInv, CanRead
<1> HIDE DEF source_text
<1>4. Continues(Ledger, RecordOf(i, prior, action, source_text, note))
  BY <1>1, <1>2, <1>3, SubmitContinues
<1> HIDE DEF prior
<1>5. PendingInv' /\ pending' \in Records /\ pending' # None
  BY <1>1, <1>4, DiskKept DEF PendingInv, Continues
<1>6. ProcessOK'
  BY <1>1, <1>3, <1>5, DiskKept DEF IInv, TypeOK, ProcessOK
<1>7. CreationInv' /\ RefreshInv' /\ AnswerInv' /\ CommittedIsExported'
  <2>1. disk["dir"] # Absent
    BY <1>1 DEF IInv, CreationInv
  <2> QED  BY <1>1, <2>1 DEF CreationInv, RefreshInv, AnswerInv, CommittedIsExported, Answers
<1> QED  BY <1>1, <1>5, <1>6, <1>7, DiskKept, TypeParts DEF IInv, LedgerInv

\* After an append, whole, failed or ended by a crash.
LEMMA AfterAppend ==
    ASSUME IInv, phase = "append",
           UNCHANGED disk \/ \E bytes \in {"torn", "open", "line"} : Write("ledger", Appended(bytes)),
           phase' \in {"down", "idle", "refresh"}, todo' \in {todo, 1}, phase' = "refresh" => todo' = 1,
           pending' = None, answer' = answer,
           crashes' \in 0..MaxCrashes, failures' \in 0..MaxFailures
    PROVE  IInv'
<1>1. /\ DOMAIN disk' = Files /\ \A f \in Files \ {"ledger"} : disk'[f] = disk[f]
      /\ Ledger' # Absent /\ Linear(Ledger') /\ Len(Ledger') <= MaxLines
      /\ ExportsAreSnapshots'
  BY Appends
<1>2. /\ disk'["dir"] = disk["dir"] /\ disk'["remaining"] = disk["remaining"]
      /\ disk'["conflicts"] = disk["conflicts"] /\ disk'["session"] = disk["session"]
  BY <1>1, FilesNamed
<1>3. answer = None /\ None # "committed" /\ disk["dir"] # Absent
  BY DEF IInv, AnswerInv, CreationInv, Answers
<1>4. DiskOK'
  BY <1>1, <1>2 DEF IInv, TypeOK, DiskOK, Linear
<1>5. ProcessOK'
  BY <1>1, <1>3, FileNames DEF IInv, TypeOK, ProcessOK
<1>6. CreationInv' /\ PendingInv' /\ AnswerInv' /\ CommittedIsExported'
  BY <1>2, <1>3 DEF CreationInv, PendingInv, AnswerInv, CommittedIsExported
<1>7. RefreshInv'
  BY DEF RefreshInv
<1> QED  BY <1>1, <1>4, <1>5, <1>6, <1>7, TypeParts DEF IInv

LEMMA AppendLineStep == ASSUME IInv, AppendLine PROVE IInv'
<1>1. crashes' \in 0..MaxCrashes /\ failures' \in 0..MaxFailures
  BY DEF AppendLine, IInv, TypeOK
<1> QED  BY <1>1, AfterAppend DEF AppendLine

LEMMA AppendFailsStep == ASSUME IInv, AppendFails PROVE IInv'
<1>1. crashes' \in 0..MaxCrashes /\ failures' \in 0..MaxFailures
  BY DEF AppendFails, IInv, TypeOK
<1> QED  BY <1>1, AfterAppend DEF AppendFails, Interrupted

LEMMA CrashStep == ASSUME IInv, Crash PROVE IInv'
<1>1. crashes' \in 0..MaxCrashes /\ failures' \in 0..MaxFailures
  BY DEF Crash, IInv, TypeOK
<1>2. CASE phase = "append"
  BY <1>1, <1>2, AfterAppend DEF Crash, Interrupted
<1>3. CASE phase # "append"
  <2>1. UNCHANGED disk /\ phase' = "down" /\ todo' = 1 /\ pending' = None /\ answer' = answer
    BY <1>3 DEF Crash
  <2>2. ProcessOK'
    BY <1>1, <2>1, FileNames DEF IInv, TypeOK, ProcessOK
  <2>3. CreationInv' /\ PendingInv' /\ RefreshInv' /\ AnswerInv'
    BY <2>1 DEF IInv, CreationInv, PendingInv, RefreshInv, AnswerInv
  <2>4. CommittedIsExported'
    BY <2>1, DiskKept DEF IInv, CommittedIsExported
  <2> QED  BY <2>1, <2>2, <2>3, <2>4, DiskKept, TypeParts DEF IInv, LedgerInv
<1> QED  BY <1>2, <1>3

LEMMA RefreshFailsStep == ASSUME IInv, RefreshFails PROVE IInv'
<1>1. /\ phase = "refresh" /\ phase' = "idle" /\ todo' = 1
      /\ UNCHANGED <<disk, pending, crashes>>
      /\ answer' \in Answers /\ answer' # "committed"
  BY DEF RefreshFails, FailedRefreshAnswer, Answers
<1>2. failures' \in 0..MaxFailures
  BY DEF RefreshFails, IInv, TypeOK
<1>3. ProcessOK'
  BY <1>1, <1>2, FileNames DEF IInv, TypeOK, ProcessOK
<1>4. CreationInv' /\ PendingInv' /\ RefreshInv' /\ AnswerInv' /\ CommittedIsExported'
  <2>1. disk["dir"] # Absent
    BY <1>1 DEF IInv, CreationInv
  <2> QED  BY <1>1, <2>1 DEF CreationInv, PendingInv, RefreshInv, AnswerInv, CommittedIsExported
<1> QED  BY <1>1, <1>3, <1>4, DiskKept, TypeParts DEF IInv, LedgerInv

LEMMA SkipStep == ASSUME IInv, NEW i \in Items, Skip(i) PROVE IInv'
<1> DEFINE state == SessionState(disk["session"].skipped \cup {i}, Ledger)
<1>1. /\ phase = "idle" /\ disk["session"] # Absent
      /\ disk' = [disk EXCEPT !["session"] = state]
      /\ UNCHANGED <<phase, todo, pending, answer, crashes, failures>>
  BY DEF Skip, Write
<1>2. state.skipped = disk["session"].skipped \cup {i} /\ state.summary = Summary(Ledger)
  BY DEF SessionState
<1> HIDE DEF state
<1>3. /\ DOMAIN disk' = Files /\ disk'["session"] = state
      /\ \A f \in Files \ {"session"} : disk'[f] = disk[f]
  BY <1>1, FilesNamed DEF IInv, TypeOK
<1>4. Ledger' = Ledger /\ (\A f \in Exports : disk'[f] = disk[f]) /\ disk'["dir"] = disk["dir"]
  BY <1>3, FilesNamed DEF Ledger, Exports
<1>5. DiskOK'
  BY <1>1, <1>2, <1>3, <1>4 DEF IInv, TypeOK, DiskOK, Exports
<1>6. LedgerInv' /\ ExportsAreSnapshots'
  BY <1>4 DEF IInv, LedgerInv, ExportsAreSnapshots
<1>7. ProcessOK'
  BY <1>1, <1>4 DEF IInv, TypeOK, ProcessOK
<1>8. CreationInv' /\ PendingInv' /\ RefreshInv' /\ AnswerInv'
  BY <1>1, <1>4 DEF IInv, CreationInv, PendingInv, RefreshInv, AnswerInv
<1>9. CommittedIsExported'
  BY <1>1, <1>2, <1>3, <1>4 DEF IInv, CommittedIsExported
<1> QED  BY <1>5, <1>6, <1>7, <1>8, <1>9, TypeParts DEF IInv, LedgerInv

LEMMA RefreshFileStep == ASSUME IInv, RefreshFile PROVE IInv'
<1> DEFINE file == RefreshOrder[todo]
<1>1. /\ phase = "refresh" /\ CanRead /\ Ledger # Absent /\ Linear(Ledger) /\ Ledger \in Seq(Chunks)
      /\ file = "session" => disk["session"] # Absent
      /\ disk' = [disk EXCEPT ![file] = Refreshed(file)]
      /\ UNCHANGED <<pending, crashes, failures>> /\ answer = None
  BY DEF RefreshFile, Refreshable, CanRead, Write, IInv, AnswerInv, Linear
<1>2. todo \in 1..6
  BY FileNames DEF IInv, TypeOK
<1>3. /\ file \in {"remaining", "conflicts", "manifest", "summary", "session", "report"}
      /\ file = "session" <=> todo = 5
      /\ file = "report" <=> todo = 6
  BY <1>2, FileNames
<1>4. \A n \in 1..6 : n # todo => RefreshOrder[n] # file
  BY <1>2, FileNames
<1> HIDE DEF file
<1>5. /\ DOMAIN disk' = Files /\ disk'[file] = Refreshed(file)
      /\ \A f \in Files \ {file} : disk'[f] = disk[f]
  BY <1>1, <1>3, FilesNamed DEF IInv, TypeOK
<1>6. Ledger' = Ledger /\ disk'["dir"] = disk["dir"] /\ disk["dir"] # Absent
  BY <1>1, <1>3, <1>5, FilesNamed DEF Ledger, IInv, CreationInv
<1>7. file \in Exports => disk'[file] = Export(file, Ledger)
  <2>1. Refreshed("remaining") = Export("remaining", Ledger)
        /\ Refreshed("conflicts") = Export("conflicts", Ledger)
        /\ Refreshed("manifest") = Export("manifest", Ledger)
        /\ Refreshed("summary") = Export("summary", Ledger)
    BY DEF Refreshed
  <2> QED  BY <1>5, <2>1 DEF Exports
<1>8. file = "session" => /\ disk'["session"].skipped = disk["session"].skipped
                          /\ disk'["session"].summary = Summary(Ledger)
  <2>1. SessionAfter.skipped = disk["session"].skipped /\ SessionAfter.summary = Summary(Ledger)
    BY DEF SessionAfter, SessionState
  <2>2. Refreshed("session") = SessionAfter
    BY DEF Refreshed
  <2> QED  BY <1>5, <2>1, <2>2
<1>9. DiskOK'
  <2>1. disk'["remaining"] = Absent \/ disk'["remaining"] \subseteq Items
    BY <1>1, <1>5, <1>7, ExportTypes, FilesNamed DEF IInv, TypeOK, Exports
  <2>2. disk'["conflicts"] = Absent \/ disk'["conflicts"] \subseteq Records
    BY <1>1, <1>5, <1>7, ExportTypes, FilesNamed DEF IInv, TypeOK, Exports
  <2>3. disk'["session"] # Absent => disk'["session"].skipped \subseteq Items
    BY <1>1, <1>5, <1>8, FilesNamed DEF IInv, TypeOK
  <2>4. Ledger \in Seq(Chunks) /\ Len(Ledger) <= MaxLines
    BY <1>1 DEF IInv, TypeOK
  <2> QED  BY <1>5, <1>6, <2>1, <2>2, <2>3, <2>4 DEF DiskOK
<1>10. LedgerInv'
  BY <1>1, <1>6 DEF LedgerInv
<1>11. ExportsAreSnapshots'
  <2>1. SUFFICES ASSUME NEW f \in Exports, disk'[f] # Absent
                 PROVE  \/ disk'[f] = Export(f, <<>>)
                        \/ \E n \in DOMAIN Ledger : disk'[f] = Export(f, SubSeq(Ledger, 1, n))
    BY <1>1, <1>6 DEF ExportsAreSnapshots
  <2>2. CASE f = file
    BY <1>1, <1>7, <2>2, WholePart
  <2>3. CASE f # file
    BY <1>5, <2>1, <2>3, FilesNamed DEF IInv, ExportsAreSnapshots, Exports
  <2> QED  BY <2>2, <2>3
<1>12. CASE todo < 6
  <2>1. todo' = todo + 1 /\ UNCHANGED <<phase, answer>> /\ todo' \in 1..6
    BY <1>2, <1>12, FileNames DEF RefreshFile
  <2>2. RefreshInv'
    <3>1. ASSUME NEW n \in 1..(todo' - 1), RefreshOrder[n] \in Exports
          PROVE  disk'[RefreshOrder[n]] = Export(RefreshOrder[n], Ledger)
      <4>1. CASE n = todo
        BY <1>7, <3>1, <4>1 DEF file
      <4>2. CASE n # todo
        <5>1. n \in 1..(todo - 1) /\ n \in 1..6
          BY <1>2, <2>1, <4>2
        <5>2. disk'[RefreshOrder[n]] = disk[RefreshOrder[n]]
          BY <1>4, <1>5, <3>1, <4>2, <5>1, FilesNamed DEF Exports
        <5> QED  BY <1>1, <3>1, <5>1, <5>2 DEF IInv, RefreshInv
      <4> QED  BY <4>1, <4>2
    <3>2. todo' > 5 => disk'["session"].summary = Summary(Ledger)
      BY <1>2, <1>3, <1>8, <2>1
    <3> QED  BY <1>6, <3>1, <3>2 DEF RefreshInv
  <2>3. ProcessOK'
    BY <1>1, <1>6, <2>1, FileNames DEF IInv, TypeOK, ProcessOK
  <2>4. CreationInv' /\ PendingInv' /\ AnswerInv' /\ CommittedIsExported'
    BY <1>1, <1>6, <2>1 DEF CreationInv, PendingInv, AnswerInv, CommittedIsExported, Answers
  <2> QED  BY <1>9, <1>10, <1>11, <2>2, <2>3, <2>4, TypeParts DEF IInv, LedgerInv
<1>13. CASE todo = 6
  <2>1. todo' = 1 /\ phase' = "idle" /\ answer' = "committed"
    BY <1>13, FileNames DEF RefreshFile
  <2>2. CommittedIsExported'
    <3>1. ASSUME NEW f \in Exports PROVE disk'[f] = Export(f, Ledger)
      <4>1. \E n \in 1..4 : f = RefreshOrder[n]
        BY FileNames DEF Exports
      <4>2. f # file /\ f \in Files
        BY <1>3, <1>13, FilesNamed DEF Exports
      <4> QED  BY <1>1, <1>5, <1>13, <4>1, <4>2 DEF IInv, RefreshInv
    <3>2. disk'["session"].summary = Summary(Ledger)
      BY <1>1, <1>3, <1>5, <1>13, FilesNamed DEF IInv, RefreshInv
    <3> QED  BY <1>6, <3>1, <3>2 DEF CommittedIsExported
  <2>3. ProcessOK'
    BY <1>1, <2>1, FileNames DEF IInv, TypeOK, ProcessOK, Answers
  <2>4. CreationInv' /\ PendingInv' /\ RefreshInv' /\ AnswerInv'
    BY <1>6, <2>1 DEF CreationInv, PendingInv, RefreshInv, AnswerInv
  <2> QED  BY <1>9, <1>10, <1>11, <2>2, <2>3, <2>4, TypeParts DEF IInv, LedgerInv
<1> QED  BY <1>2, <1>12, <1>13

LEMMA InvNext == IInv /\ [Next]_vars => IInv'
<1> SUFFICES ASSUME IInv, [Next]_vars PROVE IInv'
  OBVIOUS
<1>1. CASE Create
  BY <1>1, CreateStep
<1>2. CASE Resume
  BY <1>2, ResumeStep
<1>3. CASE \E i \in Items, action \in Actions, text \in Texts, note \in Notes :
              Submit(i, action, text, note)
  BY <1>3, SubmitStep
<1>4. CASE AppendLine
  BY <1>4, AppendLineStep
<1>5. CASE AppendFails
  BY <1>5, AppendFailsStep
<1>6. CASE RefreshFile
  BY <1>6, RefreshFileStep
<1>7. CASE RefreshFails
  BY <1>7, RefreshFailsStep
<1>8. CASE \E i \in Items : Skip(i)
  BY <1>8, SkipStep
<1>9. CASE Crash
  BY <1>9, CrashStep
<1>10. CASE UNCHANGED vars
  <2>1. UNCHANGED <<disk, phase, todo, pending, answer, crashes, failures>>
    BY <1>10 DEF vars
  <2>2. ProcessOK' /\ AnswerInv' /\ CreationInv'
    BY <2>1, DiskKept DEF IInv, TypeOK, ProcessOK, AnswerInv, CreationInv
  <2>3. PendingInv' /\ RefreshInv' /\ CommittedIsExported'
    BY <2>1, DiskKept DEF IInv, PendingInv, RefreshInv, CommittedIsExported
  <2> QED  BY <2>1, <2>2, <2>3, DiskKept, TypeParts DEF IInv, LedgerInv
<1> QED
  BY <1>1, <1>2, <1>3, <1>4, <1>5, <1>6, <1>7, <1>8, <1>9, <1>10 DEF Next

LEMMA Invariance == Spec => []IInv
BY InvInit, InvNext, PTL DEF Spec

----------------------------------------------------------------------------
(* What a run shows of a small queue, for any.                             *)

\* initialize_workbench, submit, skip and _refresh_exports keep the files and the
\* session in their types.
THEOREM TypeCorrectness == Spec => []TypeOK
<1>1. IInv => TypeOK
  BY DEF IInv
<1> QED  BY <1>1, Invariance, PTL

\* submit never commits a review twice, every export says what was true after some
\* append, and what it answers as committed is in the exports.
THEOREM ReviewsAreAlwaysExported == Spec => []ReviewsAreExported
<1>1. IInv => NoRepeatedReview
  BY DEF IInv, Linear, NoRepeatedReview
<1>2. IInv => ReviewsAreExported
  BY <1>1 DEF IInv, ReviewsAreExported
<1> QED  BY <1>2, Invariance, PTL

LEMMA UnreadableStep ==
    ASSUME IInv, [Next]_vars, Ledger # Absent, ~Loads(Ledger)
    PROVE  UNCHANGED disk
<1>1. ~CanRead
  BY DEF CanRead
<1>2. phase # "append"
  BY <1>1 DEF IInv, PendingInv
<1>3. ASSUME Create PROVE FALSE
  <2>1. phase = "creating" \/ disk["dir"] = Absent
    BY <1>3 DEF Create
  <2>2. Ledger = <<>>
    BY <2>1, FilesNamed DEF IInv, CreationInv, Ledger
  <2>3. Loads(<<>>)
    BY DEF Loads
  <2> QED  BY <2>2, <2>3
<1>4. ~RefreshFile /\ \A i \in Items : ~Skip(i)
  BY <1>1 DEF RefreshFile, Refreshable, Skip, MayRead
<1> QED
  BY <1>2, <1>3, <1>4
  DEF Next, Resume, Submit, AppendLine, AppendFails, RefreshFails, Crash, vars

LEMMA SkipsStep ==
    ASSUME IInv, [Next]_vars, disk["session"] # Absent
    PROVE  disk["session"].skipped \subseteq disk'["session"].skipped
<1>1. DOMAIN disk = Files /\ "session" \in Files
  BY FilesNamed DEF IInv, TypeOK
<1>2. CASE UNCHANGED disk
  BY <1>2
<1>3. CASE Create
  BY <1>1, <1>3 DEF Create, Write
<1>4. ASSUME NEW bytes \in {"torn", "open", "line"}, Write("ledger", Appended(bytes))
      PROVE  disk'["session"] = disk["session"]
  BY <1>1, <1>4 DEF Write
<1>5. CASE RefreshFile
  <2>1. PICK file \in DOMAIN disk : disk' = [disk EXCEPT ![file] = Refreshed(file)]
    <3>1. RefreshOrder[todo] \in Files
      BY FileNames, FilesNamed DEF IInv, TypeOK
    <3> QED  BY <1>1, <1>5, <3>1 DEF RefreshFile, Write
  <2>2. Refreshed("session").skipped = disk["session"].skipped
    BY DEF Refreshed, SessionAfter, SessionState
  <2> QED  BY <1>1, <2>1, <2>2
<1>6. ASSUME NEW i \in Items, Skip(i)
      PROVE  disk["session"].skipped \subseteq disk'["session"].skipped
  BY <1>1, <1>6 DEF Skip, Write, SessionState
<1> QED
  BY <1>2, <1>3, <1>4, <1>5, <1>6
  DEF Next, Resume, Submit, AppendLine, AppendFails, Interrupted, RefreshFails, Crash, vars

\* _load_records raises on a ledger it cannot parse, before anything is written;
\* _refresh_exports takes the skipped items over from the session it replaces.
THEOREM FilesAreAlwaysKept == Spec => FilesAreKept
<1>1. IInv /\ [Next]_vars => [Ledger # Absent /\ ~Loads(Ledger) => UNCHANGED disk]_vars
  BY UnreadableStep
<1>2. IInv /\ [Next]_vars =>
        [disk["session"] # Absent => disk["session"].skipped \subseteq disk'["session"].skipped]_vars
  BY SkipsStep
<1> QED
  BY <1>1, <1>2, Invariance, PTL DEF Spec, FilesAreKept, UnreadableIsFrozen, SkipsAreKept

\* The reviews whose line is whole.
Log == IF Ledger = Absent THEN {}
       ELSE {Ledger[n].record : n \in {m \in DOMAIN Ledger : Ledger[m].bytes # "torn"}}

LEMMA AppendedLog ==
    ASSUME IInv, phase = "append", NEW bytes \in {"line", "open", "torn"},
           Write("ledger", Appended(bytes))
    PROVE  Log' = Log \cup (IF bytes = "torn" THEN {} ELSE {pending})
<1> DEFINE c == [record |-> pending, bytes |-> bytes]
           last == Len(Ledger) + 1
<1>1. Ledger # Absent /\ Ledger \in Seq(Chunks) /\ Linear(Ledger) /\ Continues(Ledger, pending)
  BY DEF IInv, TypeOK, PendingInv, Linear
<1>2. Ledger' = Append(Ledger, c)
  BY FilesNamed DEF IInv, TypeOK, Write, Appended, Ledger
<1>3. c \in Chunks /\ c.record = pending /\ c.bytes = bytes
  BY <1>1 DEF Continues, Chunks
<1>4. /\ Ledger' \in Seq(Chunks) /\ Ledger' # Absent
      /\ DOMAIN Ledger = 1..Len(Ledger) /\ Len(Ledger) \in Nat /\ DOMAIN Ledger' = 1..last
      /\ \A n \in DOMAIN Ledger : Ledger'[n] = Ledger[n]
      /\ Ledger'[last] = c
  BY <1>1, <1>2, <1>3
<1> HIDE DEF c
<1>5. \A n \in DOMAIN Ledger' : n = last \/ n \in DOMAIN Ledger
  BY <1>4
<1>6. last \in DOMAIN Ledger' /\ \A n \in DOMAIN Ledger : n \in DOMAIN Ledger'
  BY <1>4
<1>7. ASSUME NEW r, r \in Log' PROVE r \in Log \/ (bytes # "torn" /\ r = pending)
  <2>1. PICK n \in DOMAIN Ledger' : Ledger'[n].bytes # "torn" /\ r = Ledger'[n].record
    BY <1>4, <1>7 DEF Log
  <2> QED  BY <1>1, <1>3, <1>4, <1>5, <2>1 DEF Log
<1>8. ASSUME NEW r, r \in Log PROVE r \in Log'
  <2>1. PICK n \in DOMAIN Ledger : Ledger[n].bytes # "torn" /\ r = Ledger[n].record
    BY <1>1, <1>8 DEF Log
  <2> QED  BY <1>4, <1>6, <2>1 DEF Log
<1>9. bytes # "torn" => pending \in Log'
  BY <1>3, <1>4, <1>6 DEF Log
<1> QED  BY <1>7, <1>8, <1>9

LEMMA AppendIsLinear ==
    ASSUME IInv, phase = "append",
           UNCHANGED disk \/ \E bytes \in {"line", "open", "torn"} : Write("ledger", Appended(bytes))
    PROVE  [ReviewLog!LinearNext]_Log
<1>1. CASE UNCHANGED disk
  BY <1>1 DEF Log, Ledger
<1>2. ASSUME NEW bytes \in {"line", "open", "torn"}, Write("ledger", Appended(bytes))
      PROVE  [ReviewLog!LinearNext]_Log
  <2>1. Log' = Log \cup (IF bytes = "torn" THEN {} ELSE {pending})
    BY <1>2, AppendedLog
  <2>2. CASE bytes = "torn"
    BY <2>1, <2>2
  <2>3. CASE bytes # "torn"
    <3>1. CanRead /\ Linear(Ledger) /\ Continues(Ledger, pending)
      BY DEF IInv, PendingInv, CanRead
    <3>2. /\ \A p \in Log : \E n \in DOMAIN Ledger : p = Ledger[n].record
          /\ \A n \in DOMAIN Ledger : Ledger[n].record \in Log /\ Ledger[n].record \in Records
      <4>1. \A n \in DOMAIN Ledger : Ledger[n] \in Chunks
        BY <3>1 DEF Linear
      <4>2. \A n \in DOMAIN Ledger : Ledger[n].bytes # "torn" /\ Ledger[n].record \in Records
        BY <3>1, <4>1 DEF CanRead, Loads, Chunks
      <4>3. Log = {Ledger[n].record : n \in {m \in DOMAIN Ledger : Ledger[m].bytes # "torn"}}
        BY <3>1 DEF Log, CanRead
      <4>4. Log = {Ledger[n].record : n \in DOMAIN Ledger}
        BY <4>2, <4>3
      <4> QED  BY <4>2, <4>4
    <3>3. PICK q : q = pending
      OBVIOUS
    <3>4. /\ q \in Records /\ q \in Log' /\ Log' = Log \cup {q}
          /\ \A p \in Log : p.id.key = q.id.key => p.id.rev < q.id.rev
      BY <2>1, <2>3, <3>1, <3>2, <3>3 DEF Continues
    <3>5. \A p \in Log : p.id # q.id
      BY <3>4 DEF Records, RecordIds
    <3>6. IF q.sup = None THEN q.id.rev = 1
          ELSE \E p \in Log : p.id = q.sup /\ p.id.key = q.id.key /\ p.id.rev + 1 = q.id.rev
      BY <3>1, <3>2, <3>3 DEF Continues
    <3>7. ReviewLog!Latest(q) /\ ReviewLog!Archive(q)
      BY <3>4, <3>5, <3>6 DEF ReviewLog!Latest, ReviewLog!Archive, ReviewLog!Grounded, Log
    <3> QED  BY <3>4, <3>7 DEF ReviewLog!LinearNext, Log
  <2> QED  BY <2>2, <2>3
<1> QED  BY <1>1, <1>2

LEMMA LogStep == IInv /\ [Next]_vars => [ReviewLog!LinearNext]_Log
<1> SUFFICES ASSUME IInv, [Next]_vars PROVE [ReviewLog!LinearNext]_Log
  OBVIOUS
<1>1. CASE phase = "append" /\ (AppendLine \/ AppendFails \/ Crash)
  BY <1>1, AppendIsLinear DEF AppendLine, AppendFails, Crash, Interrupted
<1>2. CASE UNCHANGED Ledger
  BY <1>2 DEF Log
<1>3. CASE Create
  <2>1. Ledger \in {Absent, <<>>}
    BY <1>3, FilesNamed DEF IInv, CreationInv, Ledger, Create
  <2>2. Ledger' \in {Ledger, <<>>}
    <3>1. PICK f \in Files : disk' = [disk EXCEPT ![f] = FirstContent(f)]
      BY <1>3 DEF Create, Write, Files
    <3>2. FirstContent("ledger") = <<>>
      BY DEF FirstContent, Exports
    <3>3. f = "ledger" \/ Ledger' = Ledger
      BY <3>1 DEF IInv, TypeOK, Ledger
    <3>4. f = "ledger" => Ledger' = <<>>
      BY <3>1, <3>2 DEF IInv, TypeOK, Ledger
    <3> QED  BY <3>3, <3>4
  <2>3. Log = {} /\ Log' = {}
    BY <2>1, <2>2 DEF Log
  <2> QED  BY <2>3
<1>4. CASE RefreshFile \/ \E i \in Items : Skip(i)
  <2>1. CASE RefreshFile
    <3>1. RefreshOrder[todo] # "ledger"
      BY FileNames DEF IInv, TypeOK
    <3> QED  BY <1>2, <2>1, <3>1, FilesNamed DEF IInv, TypeOK, RefreshFile, Write, Ledger
  <2>2. CASE \E i \in Items : Skip(i)
    BY <1>2, <2>2, FilesNamed DEF IInv, TypeOK, Skip, Write, Ledger
  <2> QED  BY <1>4, <2>1, <2>2
<1>5. CASE UNCHANGED disk
  BY <1>2, <1>5 DEF Ledger
<1> QED
  BY <1>1, <1>3, <1>4, <1>5
  DEF Next, Resume, Submit, AppendLine, AppendFails, RefreshFails, Crash, Interrupted, vars

\* The ledger of reviews is one line of revisions for each item, however many
\* appends fail, are torn or are cut off by the end of the process.
THEOREM ReviewsAreOneLine == Spec => ImplementsReviewLog
<1>1. Init => Log = {}
  BY FilesNamed DEF Init, Log, Ledger
<1>2. Init => ReviewLog!Init
  BY <1>1 DEF ReviewLog!Init, Log
<1> QED
  BY <1>2, LogStep, Invariance, PTL
  DEF Spec, ImplementsReviewLog, ReviewLog!LinearSpec, Log
=============================================================================
