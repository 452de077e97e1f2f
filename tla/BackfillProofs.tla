---------------------------- MODULE BackfillProofs ----------------------------
(***************************************************************************)
(* Theorems about the backfill of historical screenshots, for any number   *)
(* of processes, packages and calls, any inventory, screenshot, profiles,  *)
(* engines and answers.                                                    *)
(*                                                                         *)
(* Staging: mkdir gives a name to one call (Owned), so the files of a      *)
(* directory are of the call that made it as long as it writes (Whole up   *)
(* to next), and a call that crashed or failed never reports.              *)
(*                                                                         *)
(* Cells: any set of cells of the screenshots has a queue in the order of  *)
(* the markets, so the queue holds what is missing and nothing else, each  *)
(* once (TraceHeld, MissingIsReviewed, QueueIsABijection); the             *)
(* edges of a grid's cells are rounded towards each other by less than a   *)
(* pixel, so the cells tile their region (CellsAreTiled).                  *)
(*                                                                         *)
(* Reviews: what a run or a batch has read so far is of the front of the   *)
(* queue, its finished files are of all of it, and packages and imports    *)
(* only refer to files that nobody writes again (OcrHeld, VisualHeld).     *)
(***************************************************************************)
EXTENDS MCBackfill, FiniteSetTheorems, TLAPS

-----------------------------------------------------------------------------
(* Staging. *)

Writing(w) == stager[w].at = "writing"

\* The process writes into its own directory, in the order of the plan.
WritesItsPlan(w) ==
    LET s == stager[w]
    IN  /\ s.package \in Packages /\ s.name \in DOMAIN dirs
        /\ s.next \in Nat
        /\ \A k \in DOMAIN Plan(s.package) :
              k < s.next => Plan(s.package)[k].path \in DOMAIN dirs[s.name].files
        /\ \A f \in DOMAIN dirs[s.name].files : dirs[s.name].files[f].by = s.call

\* A process that is in a call knows its package, its name and where it is.
InCall(w) ==
    /\ stager[w].at \in {"idle", "checked", "writing"}
    /\ stager[w].at # "idle" =>
          stager[w] = [at |-> stager[w].at, call |-> stager[w].call, name |-> stager[w].name,
                       package |-> stager[w].package, next |-> stager[w].next]
    /\ stager[w].at = "checked" => stager[w].package \in Packages /\ stager[w].next = 1
    /\ Writing(w) => WritesItsPlan(w)

\* A directory that is being written is of one call, which has not reported.
Owned ==
    /\ \A v, w \in Stagers : Writing(v) /\ Writing(w) /\ stager[v].name = stager[w].name => v = w
    /\ \A s \in staged, w \in Stagers : Writing(w) => stager[w].name # s.name

\* Directories are there to stay, each with the files it has.
Made ==
    /\ \A s \in staged : s.name \in DOMAIN dirs
    /\ stager = [w \in Stagers |-> stager[w]]
    /\ dirs = [n \in DOMAIN dirs |-> dirs[n]]
    /\ \A n \in DOMAIN dirs : dirs[n] = [package |-> dirs[n].package, files |-> dirs[n].files]

IInv ==
    /\ Made
    /\ \A w \in Stagers : InCall(w)
    /\ Owned
    /\ ReportedIsWhole

LEMMA InvInit == StagingInit => IInv
BY DEF StagingInit, IInv, Made, InCall, Owned, ReportedIsWhole, Writing, Idle

\* What a step leaves alone stays whole: the directories other than those of the
\* process that takes it, and the processes other than itself.
LEMMA LeavesOthers ==
    ASSUME IInv, NEW w \in Stagers,
           Made', InCall(w)',
           \A v \in Stagers \ {w} : stager'[v] = stager[v],
           \A n \in DOMAIN dirs : n \in DOMAIN dirs' /\ (dirs'[n] = dirs[n] \/ (Writing(w) /\ n = stager[w].name)),
           Writing(w)' => Writing(w) \/ stager'[w].name \notin DOMAIN dirs,
           Writing(w)' /\ Writing(w) => stager'[w].name = stager[w].name,
           UNCHANGED staged
    PROVE  IInv'
<1>1. \A v \in Stagers \ {w} : InCall(v)'
  <2> SUFFICES ASSUME NEW v \in Stagers \ {w} PROVE InCall(v)'
    OBVIOUS
  <2>1. stager'[v] = stager[v] /\ InCall(v)
    BY DEF IInv
  <2>2. Writing(v) => dirs'[stager[v].name] = dirs[stager[v].name] /\ stager[v].name \in DOMAIN dirs'
    BY <2>1 DEF IInv, Owned, InCall, WritesItsPlan
  <2> QED  BY <2>1, <2>2 DEF InCall, WritesItsPlan, Writing
<1>2. Owned'
  <2>1. \A v \in Stagers \ {w} : Writing(v)' = Writing(v) /\ stager'[v].name = stager[v].name
    BY DEF Writing
  <2>2. \A v \in Stagers : Writing(v) => stager[v].name \in DOMAIN dirs
    BY DEF IInv, InCall, WritesItsPlan
  <2>3. \A s \in staged : s.name \in DOMAIN dirs
    BY DEF IInv, Made
  <2> QED  BY <2>1, <2>2, <2>3 DEF IInv, Owned
<1>3. ReportedIsWhole'
  <2> SUFFICES ASSUME NEW s \in staged
               PROVE  dirs'[s.name] = dirs[s.name]
    BY DEF IInv, ReportedIsWhole
  <2> QED  BY DEF IInv, Owned, Made
<1> QED  BY <1>1, <1>2, <1>3 DEF IInv

LEMMA CheckStep ==
    ASSUME IInv, NEW w \in Stagers, NEW name \in Names, NEW p \in Packages,
           NEW raw \in RawFiles, Check(w, name, p, raw)
    PROVE  IInv'
<1>1. UNCHANGED <<dirs, staged>> /\ stager[w].at = "idle"
  BY DEF Check, Idle
<1>2. \/ stager' = stager
      \/ stager' = [stager EXCEPT ![w] =
            [at |-> "checked", call |-> calls', name |-> name, package |-> p, next |-> 1]]
  BY DEF Check
<1>3. Made'
  BY <1>1, <1>2 DEF IInv, Made
<1>4. InCall(w)' /\ ~Writing(w)'
  BY <1>1, <1>2 DEF IInv, Made, InCall, Writing
<1>5. \A v \in Stagers \ {w} : stager'[v] = stager[v]
  BY <1>2 DEF IInv, Made
<1> QED  BY <1>1, <1>3, <1>4, <1>5, LeavesOthers

LEMMA MakeStep ==
    ASSUME IInv, NEW w \in Stagers, MakeDirectory(w)
    PROVE  IInv'
<1> DEFINE s == stager[w]
<1>1. UNCHANGED staged /\ s.at = "checked" /\ s.package \in Packages /\ s.next = 1
  BY DEF MakeDirectory, IInv, InCall
<1>2. CASE s.name \in DOMAIN dirs
  <2>1. stager' = [stager EXCEPT ![w] = Idle] /\ UNCHANGED dirs
    BY <1>2 DEF MakeDirectory
  <2>2. stager'[w].at = "idle"
    BY <2>1 DEF IInv, Made, Idle
  <2>3. Made' /\ InCall(w)' /\ ~Writing(w)'
    BY <1>1, <2>1, <2>2 DEF IInv, Made, InCall, Writing
  <2>4. \A v \in Stagers \ {w} : stager'[v] = stager[v]
    BY <2>1 DEF IInv, Made
  <2> QED  BY <1>1, <2>1, <2>3, <2>4, LeavesOthers
<1>3. CASE s.name \notin DOMAIN dirs
  <2>1. /\ stager' = [stager EXCEPT ![w].at = "writing"]
        /\ dirs' = [n \in DOMAIN dirs \cup {s.name} |->
                        IF n = s.name THEN [package |-> s.package, files |-> <<>>] ELSE dirs[n]]
    BY <1>3 DEF MakeDirectory
  <2>2. /\ DOMAIN dirs' = DOMAIN dirs \cup {s.name}
        /\ \A n \in DOMAIN dirs : dirs'[n] = dirs[n]
        /\ dirs'[s.name] = [package |-> s.package, files |-> <<>>]
    BY <1>3, <2>1
  <2>3. /\ stager'[w].at = "writing" /\ stager'[w].name = s.name
        /\ stager'[w].package = s.package /\ stager'[w].next = s.next
    BY <1>1, <2>1 DEF IInv, Made, InCall
  <2>4. Made'
    BY <1>1, <2>1, <2>2 DEF IInv, Made
  <2>9. stager'[w] = [at |-> "writing", call |-> s.call, name |-> s.name, package |-> s.package, next |-> s.next]
    BY <1>1, <2>1 DEF IInv, Made, InCall
  <2>5. InCall(w)'
    <3>1. \A k \in DOMAIN Plan(s.package) : ~(k < 1)
      BY <1>1, PlanAssumption
    <3>2. DOMAIN dirs'[s.name].files = {}
      BY <2>2
    <3> QED  BY <1>1, <2>2, <2>3, <2>9, <3>1, <3>2 DEF InCall, WritesItsPlan, Writing
  <2>6. \A v \in Stagers \ {w} : stager'[v] = stager[v]
    BY <2>1 DEF IInv, Made
  <2>7. ~Writing(w)
    BY <1>1 DEF Writing
  <2> QED  BY <1>1, <1>3, <2>2, <2>3, <2>4, <2>5, <2>6, <2>7, LeavesOthers
<1> QED  BY <1>2, <1>3

LEMMA EndStep ==
    ASSUME IInv, NEW w \in Stagers, stager' = [stager EXCEPT ![w] = Idle],
           UNCHANGED <<dirs, staged>>
    PROVE  IInv'
<1>1. stager'[w].at = "idle"
  BY DEF IInv, Made, Idle
<1>2. Made' /\ InCall(w)' /\ ~Writing(w)'
  BY <1>1 DEF IInv, Made, InCall, Writing
<1>3. \A v \in Stagers \ {w} : stager'[v] = stager[v]
  BY DEF IInv, Made
<1> QED  BY <1>2, <1>3, LeavesOthers

LEMMA WriteStep ==
    ASSUME IInv, NEW w \in Stagers, WriteFile(w)
    PROVE  IInv'
<1> DEFINE s == stager[w]
           there == dirs[s.name].files
           path == Plan(s.package)[s.next].path
<1>1. CASE stager' = [stager EXCEPT ![w] = Idle] /\ UNCHANGED dirs
  BY <1>1, EndStep DEF WriteFile
<1>2. CASE ~(stager' = [stager EXCEPT ![w] = Idle] /\ UNCHANGED dirs)
  <2>1. /\ Writing(w) /\ UNCHANGED staged
        /\ stager' = [stager EXCEPT ![w].next = s.next + 1]
    BY <1>2 DEF WriteFile, Writing
  <2>2. PICK n \in {0} \cup {there[f].times : f \in DOMAIN there} :
           dirs' = [dirs EXCEPT ![s.name].files =
                        [f \in DOMAIN there \cup {path} |->
                            IF f = path THEN [by |-> s.call, times |-> n + 1] ELSE there[f]]]
    <3>1. dirs' = [dirs EXCEPT ![s.name].files =
                     [f \in DOMAIN there \cup {path} |->
                        IF f = path
                        THEN [by |-> s.call,
                              times |-> (IF path \in DOMAIN there THEN there[path].times ELSE 0) + 1]
                        ELSE there[f]]]
      BY <1>2 DEF WriteFile
    <3>2. CASE path \in DOMAIN there
      <4>1. there[path].times \in {0} \cup {there[f].times : f \in DOMAIN there}
        BY <3>2
      <4> QED  BY <3>1, <3>2, <4>1
    <3>3. CASE path \notin DOMAIN there
      BY <3>1, <3>3
    <3> QED  BY <3>2, <3>3
  <2>3. /\ s.name \in DOMAIN dirs /\ s.next \in Nat /\ s.package \in Packages
        /\ \A k \in DOMAIN Plan(s.package) : k < s.next => Plan(s.package)[k].path \in DOMAIN there
        /\ \A f \in DOMAIN there : there[f].by = s.call
    BY <2>1 DEF IInv, InCall, WritesItsPlan
  <2> DEFINE new == [f \in DOMAIN there \cup {path} |->
                          IF f = path THEN [by |-> s.call, times |-> n + 1] ELSE there[f]]
  <2>10. /\ DOMAIN new = DOMAIN there \cup {path}
         /\ \A f \in DOMAIN new : new[f].by = s.call
    BY <2>3
  <2>11. dirs' = [dirs EXCEPT ![s.name] = [@ EXCEPT !.files = new]]
    BY <2>2
  <2> HIDE DEF new
  <2>12. [dirs[s.name] EXCEPT !.files = new] = [package |-> dirs[s.name].package, files |-> new]
    <3>1. dirs[s.name] = [package |-> dirs[s.name].package, files |-> dirs[s.name].files]
      BY <2>3 DEF IInv, Made
    <3> QED  BY <3>1
  <2>4. /\ DOMAIN dirs' = DOMAIN dirs
        /\ \A m \in DOMAIN dirs : m # s.name => dirs'[m] = dirs[m]
        /\ dirs'[s.name] = [package |-> dirs[s.name].package, files |-> new]
    BY <2>3, <2>11, <2>12 DEF IInv, Made
  <2>5. stager'[w] = [at |-> "writing", call |-> s.call, name |-> s.name,
                      package |-> s.package, next |-> s.next + 1]
    BY <2>1 DEF IInv, Made, InCall, Writing
  <2>6. Made'
    <3>1. \A m \in DOMAIN dirs' : dirs'[m] = [package |-> dirs'[m].package, files |-> dirs'[m].files]
      BY <2>4 DEF IInv, Made
    <3>2. dirs' = [m \in DOMAIN dirs' |-> dirs'[m]] /\ stager' = [v \in Stagers |-> stager'[v]]
      BY <2>1, <2>11 DEF IInv, Made
    <3> QED  BY <2>1, <2>4, <3>1, <3>2 DEF IInv, Made
  <2>7. InCall(w)'
    <3>1. \A k \in DOMAIN Plan(s.package) : k < s.next + 1 => k < s.next \/ k = s.next
      BY <2>3, PlanAssumption
    <3>2. dirs'[s.name].files = new
      BY <2>4
    <3> QED  BY <2>3, <2>4, <2>5, <2>10, <3>1, <3>2 DEF InCall, WritesItsPlan, Writing
  <2>8. \A v \in Stagers \ {w} : stager'[v] = stager[v]
    BY <2>1 DEF IInv, Made
  <2> QED  BY <2>1, <2>4, <2>5, <2>6, <2>7, <2>8, LeavesOthers
<1> QED  BY <1>1, <1>2

LEMMA ReportStep ==
    ASSUME IInv, NEW w \in Stagers, Report(w)
    PROVE  IInv'
<1> DEFINE s == stager[w]
           reported == [call |-> s.call, name |-> s.name, package |-> s.package]
<1>1. /\ Writing(w) /\ s.next > Len(Plan(s.package)) /\ UNCHANGED dirs
      /\ staged' = staged \cup {reported} /\ stager' = [stager EXCEPT ![w] = Idle]
  BY DEF Report, Writing
<1>2. /\ s.package \in Packages /\ s.name \in DOMAIN dirs /\ s.next \in Nat
      /\ \A k \in DOMAIN Plan(s.package) : k < s.next => Plan(s.package)[k].path \in DOMAIN dirs[s.name].files
      /\ \A f \in DOMAIN dirs[s.name].files : dirs[s.name].files[f].by = s.call
  BY <1>1 DEF IInv, InCall, WritesItsPlan
<1>3. \A k \in DOMAIN Plan(s.package) : k < s.next
  BY <1>1, <1>2, PlanAssumption
<1>4. ReportedIsWhole'
  <2>1. reported.name = s.name /\ reported.call = s.call /\ reported.package = s.package
    OBVIOUS
  <2> HIDE DEF reported
  <2>2. ASSUME NEW r \in staged'
        PROVE  LET made == dirs[r.name].files
               IN  /\ \A k \in DOMAIN Plan(r.package) : Plan(r.package)[k].path \in DOMAIN made
                   /\ \A f \in DOMAIN made : made[f].by = r.call
    <3>1. CASE r \in staged
      BY <3>1 DEF IInv, ReportedIsWhole
    <3>2. CASE r = reported
      BY <1>2, <1>3, <2>1, <3>2
    <3> QED  BY <1>1, <3>1, <3>2
  <2> QED  BY <1>1, <2>2 DEF ReportedIsWhole
<1>5. stager'[w].at = "idle" /\ \A v \in Stagers \ {w} : stager'[v] = stager[v]
  BY <1>1 DEF IInv, Made, Idle
<1>6. Made'
  <2>1. stager' = [v \in Stagers |-> stager'[v]]
    BY <1>1 DEF IInv, Made
  <2>2. \A r \in staged' : r.name \in DOMAIN dirs
    BY <1>1, <1>2 DEF IInv, Made
  <2> QED  BY <1>1, <2>1, <2>2 DEF IInv, Made
<1>7. \A v \in Stagers : InCall(v)'
  BY <1>1, <1>5 DEF IInv, InCall, Writing, WritesItsPlan
<1>8. Owned'
  BY <1>1, <1>5 DEF IInv, Owned, Writing
<1> QED  BY <1>4, <1>6, <1>7, <1>8 DEF IInv

LEMMA InvStep ==
    ASSUME IInv, [StagingNext]_stagingVars
    PROVE  IInv'
<1>1. CASE UNCHANGED <<dirs, stager, staged>>
  BY <1>1 DEF IInv, Made, InCall, WritesItsPlan, Writing, Owned, ReportedIsWhole
<1>2. CASE UNCHANGED stagingVars
  BY <1>1, <1>2 DEF stagingVars
<1>3. ASSUME NEW w \in Stagers, Crash(w)
      PROVE  IInv'
  BY <1>3, EndStep DEF Crash
<1>4. ASSUME NEW p \in Packages, DryRun(p)
      PROVE  IInv'
  BY <1>1, <1>4 DEF DryRun
<1>5. ASSUME NEW h \in Handoffs, ValidateHandoff(h)
      PROVE  IInv'
  BY <1>1, <1>5 DEF ValidateHandoff
<1>6. ASSUME NEW p \in Packages, NEW q \in Packages, Compare(p, q)
      PROVE  IInv'
  BY <1>1, <1>6 DEF Compare
<1> QED
  BY <1>2, <1>3, <1>4, <1>5, <1>6, CheckStep, MakeStep, WriteStep, ReportStep DEF StagingNext

\* A package that was reported as staged is whole in a directory of its own,
\* whatever other processes stage under whatever names, and wherever they crash
\* (staging.stage_validated_package).
THEOREM StagedPackagesAreWhole == StagingSpec => []ReportedIsWhole
<1>1. IInv /\ [StagingNext]_stagingVars => IInv'
  BY InvStep
<1>2. IInv => ReportedIsWhole
  BY DEF IInv
<1> QED  BY InvInit, <1>1, <1>2, PTL DEF StagingSpec

\* The same when the packages are staged next to the reviews of the cells.
THEOREM StagedPackagesStayWhole == BackfillSpec => []ReportedIsWhole
<1>1. BackfillInit => IInv
  BY InvInit DEF BackfillInit
<1>2. IInv /\ [BackfillNext]_backfillVars => IInv'
  <2>1. [BackfillNext]_backfillVars => [StagingNext]_stagingVars
    BY DEF BackfillNext, backfillVars
  <2> QED  BY <2>1, InvStep
<1>3. IInv => ReportedIsWhole
  BY DEF IInv
<1> QED  BY <1>1, <1>2, <1>3, PTL DEF BackfillSpec

-----------------------------------------------------------------------------
(* The order of the queue. *)

LEMMA LeastNumber ==
    ASSUME NEW U \in SUBSET Nat, U # {}
    PROVE  \E x \in U : \A y \in U : x <= y
<1> DEFINE R == {z \in Nat \X Nat : z[1] < z[2]}
<1>1. IsWellFoundedOn(R, Nat)
  BY NatLessThanWellFounded DEF OpToRel
<1>2. \A x, y \in Nat : <<x, y>> \in R <=> x < y
  OBVIOUS
<1> HIDE DEF R
<1>3. PICK x \in U : \A y \in U : ~ (<<y, x>> \in R)
  BY <1>1, WFMin
<1>4. x \in Nat /\ \A y \in U : y \in Nat
  OBVIOUS
<1>5. ASSUME NEW y \in U
      PROVE  x <= y
  <2>1. <<y, x>> \notin R
    BY <1>3
  <2>2. <<y, x>> \in R <=> y < x
    BY <1>2, <1>4
  <2> QED  BY <1>4, <2>1, <2>2
<1> QED  BY <1>5

LEMMA ItemsAreFinite ==
    \A S \in SUBSET Items : IsFiniteSet(S) /\ Cardinality(S) \in Nat
<1>1. 1 \in Int /\ Len(Inventory) \in Int /\ Cells = 1..Len(Inventory) /\ Screens \in Int
  BY InventoryAssumption
<1>2. IsFiniteSet(Cells) /\ IsFiniteSet(Slots)
  BY <1>1, FS_Interval DEF Slots
<1>3. IsFiniteSet(Items)
  BY <1>2, FS_Product DEF Items
<1> QED  BY <1>3, FS_Subset, FS_CardinalityType

LEMMA InOrderOfNumbers ==
    \A p \in Items : p[1] \in Nat /\ p[2] \in Nat /\ Place(p) \in Nat
<1> SUFFICES ASSUME NEW p \in Items
             PROVE  p[1] \in Nat /\ p[2] \in Nat /\ Place(p) \in Nat
  OBVIOUS
<1>1. p[1] \in Slots /\ p[2] \in Cells
  BY DEF Items
<1>2. p[1] \in Nat /\ p[2] \in Nat
  BY <1>1, InventoryAssumption DEF Slots
<1>3. Place(p) \in DOMAIN MarketOrder
  BY <1>1, InventoryAssumption DEF Place
<1>4. DOMAIN MarketOrder = 1..5
  BY DEF MarketOrder
<1> QED  BY <1>2, <1>3, <1>4

LEMMA FirstOfTheItems ==
    ASSUME NEW S \in SUBSET Items, S # {}
    PROVE  \E s \in S : \A t \in S : t # s => InOrder(s, t)
<1> DEFINE U == {Place(p) : p \in S}
<1>1. U \in SUBSET Nat /\ U # {}
  BY InOrderOfNumbers
<1> HIDE DEF U
<1>2. PICK market \in U : \A y \in U : market <= y
  BY <1>1, LeastNumber
<1> DEFINE V == {p[1] : p \in {q \in S : Place(q) = market}}
<1>3. V \in SUBSET Nat /\ V # {}
  BY InOrderOfNumbers DEF U
<1> HIDE DEF V
<1>4. PICK slot \in V : \A y \in V : slot <= y
  BY <1>3, LeastNumber
<1> DEFINE W == {p[2] : p \in {q \in S : Place(q) = market /\ q[1] = slot}}
<1>5. W \in SUBSET Nat /\ W # {}
  BY InOrderOfNumbers DEF V
<1> HIDE DEF W
<1>6. PICK cell \in W : \A y \in W : cell <= y
  BY <1>5, LeastNumber
<1>7. PICK s \in S : Place(s) = market /\ s[1] = slot /\ s[2] = cell
  BY DEF W
<1>8. ASSUME NEW t \in S, t # s
      PROVE  InOrder(s, t)
  <2>1. market <= Place(t)
    BY <1>2 DEF U
  <2>2. Place(t) = market => slot <= t[1]
    BY <1>4 DEF V
  <2>3. (Place(t) = market /\ t[1] = slot) => cell <= t[2]
    BY <1>6 DEF W
  <2>4. t[1] # s[1] \/ t[2] # s[2]
    BY <1>8 DEF Items
  <2>5. /\ market \in Nat /\ slot \in Nat /\ cell \in Nat
        /\ t[1] \in Nat /\ t[2] \in Nat /\ Place(t) \in Nat
    BY <1>7, InOrderOfNumbers
  <2> QED  BY <1>7, <2>1, <2>2, <2>3, <2>4, <2>5 DEF InOrder
<1> QED  BY <1>8

\* The queues that a set of items may become.
Sorted(S) ==
    {q \in [1..Cardinality(S) -> S] : \A i, j \in DOMAIN q : i < j => InOrder(q[i], q[j])}

\* The first item goes before an order of the others.
LEMMA FirstGoesFirst ==
    ASSUME NEW S \in SUBSET Items, IsFiniteSet(S), S # {},
           \A s \in S : Sorted(S \ {s}) # {}
    PROVE  Sorted(S) # {}
<1>1. PICK s \in S : \A t \in S : t # s => InOrder(s, t)
  BY FirstOfTheItems
<1> DEFINE n == Cardinality(S)
           T == S \ {s}
<1>2. n \in Nat /\ n # 0 /\ Cardinality(T) = n - 1
  <2>1. n \in Nat
    BY FS_CardinalityType
  <2>2. n # 0
    BY FS_EmptySet
  <2> QED  BY <2>1, <2>2, FS_RemoveElement
<1>3. PICK f \in Sorted(T) : TRUE
  BY <1>1
<1> DEFINE g == [i \in 1..n |-> IF i = 1 THEN s ELSE f[i - 1]]
<1>4. /\ f \in [1..(n - 1) -> T]
      /\ \A i, j \in 1..(n - 1) : i < j => InOrder(f[i], f[j])
  BY <1>2 DEF Sorted
<1> HIDE DEF n, T
<1>5. \A i \in 1..n : i # 1 => i - 1 \in 1..(n - 1) /\ g[i] = f[i - 1] /\ g[i] \in T
  BY <1>2, <1>4
<1>6. g \in [1..n -> S] /\ g[1] = s
  BY <1>2, <1>5 DEF T
<1>7. ASSUME NEW i \in 1..n, NEW j \in 1..n, i < j
      PROVE  InOrder(g[i], g[j])
  <2>1. j # 1 /\ g[j] \in T /\ g[j] = f[j - 1] /\ j - 1 \in 1..(n - 1)
    BY <1>2, <1>5, <1>7
  <2>2. CASE i = 1
    BY <1>1, <1>6, <2>1, <2>2 DEF T
  <2>3. CASE i # 1
    <3>1. g[i] = f[i - 1] /\ i - 1 \in 1..(n - 1) /\ i - 1 < j - 1
      BY <1>2, <1>5, <1>7, <2>3
    <3> QED  BY <1>4, <2>1, <3>1
  <2> QED  BY <2>2, <2>3
<1>8. g \in Sorted(S)
  BY <1>6, <1>7 DEF Sorted, n
<1> QED  BY <1>8

\* No set is the smallest without an order.
LEMMA ItemsCanBeSorted ==
    ASSUME NEW S \in SUBSET Items
    PROVE  Sorted(S) # {}
<1> DEFINE Lacks(n) == \E T \in SUBSET S : Cardinality(T) = n /\ Sorted(T) = {}
           U == {n \in Nat : Lacks(n)}
<1> SUFFICES ASSUME Sorted(S) = {}
             PROVE  FALSE
  OBVIOUS
<1>1. \A T \in SUBSET S : IsFiniteSet(T) /\ Cardinality(T) \in Nat
  BY ItemsAreFinite
<1>2. Cardinality(S) \in U
  BY <1>1
<1>3. PICK n \in U : \A m \in U : n <= m
  <2>1. U \in SUBSET Nat /\ U # {}
    BY <1>2
  <2> HIDE DEF U
  <2> QED  BY <2>1, LeastNumber
<1>4. PICK T \in SUBSET S : Cardinality(T) = n /\ Sorted(T) = {}
  BY <1>3
<1>5. T # {}
  <2> SUFFICES ASSUME T = {}
               PROVE  Sorted(T) # {}
    BY <1>4
  <2>1. Cardinality(T) = 0
    BY FS_EmptySet
  <2>2. [i \in 1..0 |-> i] \in [1..Cardinality(T) -> T]
    BY <2>1
  <2>3. [i \in 1..0 |-> i] \in Sorted(T)
    BY <2>2 DEF Sorted
  <2> QED  BY <2>3
<1>6. ASSUME NEW s \in T
      PROVE  Sorted(T \ {s}) # {}
  <2>1. Cardinality(T \ {s}) = n - 1 /\ n \in Nat
    BY <1>1, <1>4, FS_RemoveElement
  <2>2. Cardinality(T \ {s}) \in Nat /\ T \ {s} \in SUBSET S
    BY <1>1
  <2>3. n - 1 \notin U
    BY <1>3, <2>1, <2>2
  <2> QED  BY <2>1, <2>2, <2>3
<1> QED  BY <1>1, <1>4, <1>5, <1>6, FirstGoesFirst

-----------------------------------------------------------------------------
(* The traces and their queue. *)

TraceHeld ==
    /\ DOMAIN sources = Slots /\ DOMAIN traces = Slots
    /\ \A slot \in Slots :
          \/ traces[slot] = <<>>
          \/ /\ sources[slot] \in Sources
             /\ ~Raises(sources[slot], Detect(sources[slot]))
             /\ traces[slot] = [c \in Cells |-> Record(sources[slot], Detect(sources[slot]), c)]
    /\ queue # None =>
          /\ \A slot \in Slots : sources[slot] # None /\ traces[slot] # <<>>
          /\ queue \in Sorted(ToReview)

LEMMA ToReviewAreItems == Records \in SUBSET Items /\ ToReview \in SUBSET Items
  BY DEF Records, ToReview

LEMMA QueueIsOfItems ==
    ASSUME TraceHeld, queue # None
    PROVE  queue \in Seq(Items)
<1>1. Cardinality(ToReview) \in Nat
  BY ToReviewAreItems, ItemsAreFinite
<1>2. queue \in [1..Cardinality(ToReview) -> Items]
  BY ToReviewAreItems DEF TraceHeld, Sorted
<1> QED  BY <1>1, <1>2

LEMMA TraceStep ==
    ASSUME TraceHeld, TraceNext
    PROVE  TraceHeld'
<1>1. ASSUME NEW slot \in Slots, NEW src \in Sources, BuildTrace(slot, src)
      PROVE  TraceHeld'
  <2> DEFINE records == IF Raises(src, Detect(src)) THEN <<>> ELSE [c \in Cells |-> Record(src, Detect(src), c)]
  <2>1. queue = None /\ queue' = None
    BY <1>1 DEF BuildTrace, TraceHeld
  <2>2. /\ sources' = [sources EXCEPT ![slot] = src]
        /\ traces' = [traces EXCEPT ![slot] = records]
    BY <1>1, Zenon DEF BuildTrace
  <2>3. records = <<>> \/ (~Raises(src, Detect(src)) /\ records = [c \in Cells |-> Record(src, Detect(src), c)])
    OBVIOUS
  <2> HIDE DEF records
  <2>4. /\ DOMAIN sources' = Slots /\ sources'[slot] = src
        /\ DOMAIN traces' = Slots /\ traces'[slot] = records
        /\ \A other \in Slots : other # slot => sources'[other] = sources[other] /\ traces'[other] = traces[other]
    BY <2>2 DEF TraceHeld
  <2>5. ASSUME NEW other \in Slots
        PROVE  \/ traces'[other] = <<>>
               \/ /\ sources'[other] \in Sources
                  /\ ~Raises(sources'[other], Detect(sources'[other]))
                  /\ traces'[other] = [c \in Cells |-> Record(sources'[other], Detect(sources'[other]), c)]
    BY <2>3, <2>4 DEF TraceHeld
  <2> QED  BY <2>1, <2>4, <2>5 DEF TraceHeld
<1>2. ASSUME BuildQueue
      PROVE  TraceHeld'
  <2>1. UNCHANGED <<sources, traces>> /\ queue' \in Sorted(ToReview)
    <3>1. \E q \in [1..Cardinality(ToReview) -> ToReview] : \A i, j \in DOMAIN q : i < j => InOrder(q[i], q[j])
      BY ToReviewAreItems, ItemsCanBeSorted DEF Sorted
    <3> QED  BY <1>2, <3>1 DEF BuildQueue, Sorted
  <2>2. \A slot \in Slots : traces[slot] # <<>> /\ sources[slot] # None
    BY <1>2, InventoryAssumption DEF BuildQueue, TraceHeld
  <2>3. ToReview' = ToReview /\ Sorted(ToReview)' = Sorted(ToReview)
    BY <2>1 DEF ToReview, Excluded, Records, RecordOf, Sorted
  <2> QED  BY <2>1, <2>2, <2>3 DEF TraceHeld
<1> QED  BY <1>1, <1>2 DEF TraceNext

-----------------------------------------------------------------------------
(* The cells of a grid in pixels. *)

LEMMA QuotientOf ==
    ASSUME NEW a \in Int, NEW b \in Nat \ {0}
    PROVE  /\ a \div b \in Int
           /\ (a \div b) * b <= a /\ a < (a \div b) * b + b
  OBVIOUS

\* A quotient grows with the dividend, and by one at least when that grows by the divisor.
LEMMA QuotientsGrow ==
    ASSUME NEW a \in Int, NEW c \in Int, NEW b \in Nat \ {0}
    PROVE  /\ a <= c => a \div b <= c \div b
           /\ a + b <= c => a \div b + 1 <= c \div b
<1> DEFINE p == a \div b
           q == c \div b
<1>1. /\ p \in Int /\ q \in Int
      /\ p * b <= a /\ a < p * b + b /\ q * b <= c /\ c < q * b + b
  BY QuotientOf
<1> HIDE DEF p, q
<1>2. ASSUME q < p
      PROVE  c < a
  <2>1. (q + 1) * b <= p * b
    BY <1>1, <1>2
  <2> QED  BY <1>1, <2>1
<1>3. ASSUME q < p + 1
      PROVE  c < a + b
  <2>1. q * b <= p * b
    BY <1>1, <1>3
  <2> QED  BY <1>1, <2>1
<1> QED  BY <1>1, <1>2, <1>3 DEF p, q

\* The edge of the k-th of n parts of a side of w.
LEMMA EdgesOfParts ==
    ASSUME NEW w \in Nat, NEW n \in Nat \ {0}, NEW k \in Nat, k < n, n <= w
    PROVE  /\ Rounded(k * w, n) \in Int /\ Rounded((k + 1) * w, n) \in Int
           /\ 0 <= Rounded(k * w, n)
           /\ Rounded(k * w, n) < Rounded((k + 1) * w, n)
           /\ Rounded((k + 1) * w, n) <= w
<1> DEFINE x == k * w
           y == (k + 1) * w
           d == 2 * n
<1>1. x \in Nat /\ y = x + w /\ d \in Nat \ {0}
  OBVIOUS
<1>2. y <= n * w
  <2>1. k + 1 <= n
    OBVIOUS
  <2> QED  BY <2>1
<1> HIDE DEF x, y, d
<1>3. Rounded(x, n) = (2 * x + n) \div d /\ Rounded(y, n) = (2 * y + n) \div d
  BY DEF Rounded, d
<1>4. (2 * x + n) + d <= 2 * y + n
  BY <1>1 DEF d
<1>5. (2 * x + n) \div d + 1 <= (2 * y + n) \div d
  BY <1>1, <1>4, QuotientsGrow
<1>6. 0 <= (2 * x + n) \div d
  BY <1>1
<1>7. (2 * y + n) \div d <= w
  <2> DEFINE q == (2 * y + n) \div d
  <2>1. q \in Int /\ q * d <= 2 * y + n
    BY <1>1, QuotientOf
  <2> HIDE DEF q
  <2> SUFFICES ASSUME w < q
               PROVE  FALSE
    BY <2>1 DEF q
  <2>2. (w + 1) * d <= q * d
    BY <1>1, <2>1
  <2>3. (w + 1) * d = 2 * (n * w) + 2 * n
    BY DEF d
  <2> QED  BY <1>1, <1>2, <2>1, <2>2, <2>3
<1>8. (2 * x + n) \div d \in Int /\ (2 * y + n) \div d \in Int
  BY <1>1, QuotientOf
<1> QED  BY <1>3, <1>5, <1>6, <1>7, <1>8 DEF x, y

Down(x) == x \div Unit
Up(x) == -((-x) \div Unit)

\* A coordinate in pixels, rounded down and up.
LEMMA PixelEdges ==
    ASSUME NEW x \in Nat, NEW y \in Nat
    PROVE  /\ Down(x) \in Int /\ Up(x) \in Int
           /\ x <= y => Down(x) <= Down(y) /\ Up(x) <= Up(y)
           /\ x < y => Down(x) < Up(y)
           /\ Up(x) - Down(x) \in {0, 1}
  BY SMT DEF Down, Up, Unit

LEMMA Products ==
    ASSUME NEW x \in Nat, NEW y \in Nat, NEW n \in Nat \ {0}
    PROVE  /\ x * n \in Nat
           /\ x <= y => x * n <= y * n
           /\ x < y => x * n < y * n
  OBVIOUS

\* One side of a cell of a grid.
LEMMA SideOfACell ==
    ASSUME NEW near \in Nat, NEW far \in Nat, NEW n \in Nat \ {0}, near + n <= far,
           NEW size \in Nat \ {0}, NEW k \in Nat, k < n
    PROVE  LET L == near + Rounded(k * (far - near), n)
               R == near + Rounded((k + 1) * (far - near), n)
           IN  /\ Down(near * size) <= Down(L * size)
               /\ Down(L * size) < Up(R * size)
               /\ Up(R * size) <= Up(far * size)
               /\ Up(R * size) - Down(R * size) \in {0, 1}
<1> DEFINE w == far - near
           L == near + Rounded(k * w, n)
           R == near + Rounded((k + 1) * w, n)
<1>1. w \in Nat /\ n <= w
  OBVIOUS
<1>2. L \in Nat /\ R \in Nat /\ near <= L /\ L < R /\ R <= far
  <2> HIDE DEF w
  <2>1. /\ Rounded(k * w, n) \in Int /\ Rounded((k + 1) * w, n) \in Int
        /\ 0 <= Rounded(k * w, n)
        /\ Rounded(k * w, n) < Rounded((k + 1) * w, n)
        /\ Rounded((k + 1) * w, n) <= w
    BY <1>1, EdgesOfParts
  <2>2. near + w = far
    BY DEF w
  <2> QED  BY <1>1, <2>1, <2>2
<1> HIDE DEF L, R
<1>3. /\ near * size \in Nat /\ L * size \in Nat /\ R * size \in Nat /\ far * size \in Nat
      /\ near * size <= L * size /\ L * size < R * size /\ R * size <= far * size
  BY <1>2, Products
<1>4. /\ Down(near * size) <= Down(L * size) /\ Down(L * size) < Up(R * size)
      /\ Up(R * size) <= Up(far * size) /\ Up(R * size) - Down(R * size) \in {0, 1}
  BY <1>3, PixelEdges
<1> QED  BY <1>4 DEF L, R

\* What is projected of a cell of a grid.
LEMMA GridCellInPixels ==
    ASSUME NEW p \in DOMAIN Grids, NEW c \in Cells, NEW src \in Sources,
           Inventory[c].row < Grids[p][Inventory[c].market].rows,
           Inventory[c].col < Grids[p][Inventory[c].market].cols
    PROVE  LET g == Grids[p][Inventory[c].market]
               cell == Inventory[c]
               page == Project(g, src.width, src.height)
               r == Project(GridCell(cell, g), src.width, src.height)
           IN  /\ page.left <= r.left /\ r.left < r.right /\ r.right <= page.right
               /\ page.top <= r.top /\ r.top < r.bottom /\ r.bottom <= page.bottom
               /\ r.left = Down((g.left + Rounded(cell.col * (g.right - g.left), g.cols)) * src.width)
               /\ r.top = Down((g.top + Rounded(cell.row * (g.bottom - g.top), g.rows)) * src.height)
               /\ r.right = Up((g.left + Rounded((cell.col + 1) * (g.right - g.left), g.cols)) * src.width)
               /\ r.bottom = Up((g.top + Rounded((cell.row + 1) * (g.bottom - g.top), g.rows)) * src.height)
               /\ r.right - Down((g.left + Rounded((cell.col + 1) * (g.right - g.left), g.cols)) * src.width) \in {0, 1}
               /\ r.bottom - Down((g.top + Rounded((cell.row + 1) * (g.bottom - g.top), g.rows)) * src.height) \in {0, 1}
<1> DEFINE g == Grids[p][Inventory[c].market]
           cell == Inventory[c]
           page == Project(g, src.width, src.height)
           r == Project(GridCell(cell, g), src.width, src.height)
           L == g.left + Rounded(cell.col * (g.right - g.left), g.cols)
           R == g.left + Rounded((cell.col + 1) * (g.right - g.left), g.cols)
           T == g.top + Rounded(cell.row * (g.bottom - g.top), g.rows)
           B == g.top + Rounded((cell.row + 1) * (g.bottom - g.top), g.rows)
<1>1. /\ g.left \in Nat /\ g.top \in Nat /\ g.right \in Nat /\ g.bottom \in Nat
      /\ g.rows \in Nat \ {0} /\ g.cols \in Nat \ {0}
      /\ g.left + g.cols <= g.right /\ g.top + g.rows <= g.bottom
  <2>1. Inventory[c].market \in Markets
    BY DEF Markets
  <2>2. Unit \in Nat
    BY SMT DEF Unit
  <2>3. /\ g.left \in 0..Unit /\ g.top \in 0..Unit /\ g.right \in 0..Unit /\ g.bottom \in 0..Unit
        /\ g.rows \in Nat \ {0} /\ g.cols \in Nat \ {0}
        /\ g.left + g.cols <= g.right /\ g.top + g.rows <= g.bottom
    BY <2>1, GridsAssumption
  <2> QED  BY <2>2, <2>3
<1>2. cell.row \in Nat /\ cell.col \in Nat /\ cell.row < g.rows /\ cell.col < g.cols
  BY InventoryAssumption
<1>3. src.width \in Nat \ {0} /\ src.height \in Nat \ {0}
  BY GridsAssumption
<1>4. /\ page.left = Down(g.left * src.width) /\ page.right = Up(g.right * src.width)
      /\ page.top = Down(g.top * src.height) /\ page.bottom = Up(g.bottom * src.height)
      /\ r.left = Down(L * src.width) /\ r.right = Up(R * src.width)
      /\ r.top = Down(T * src.height) /\ r.bottom = Up(B * src.height)
  BY DEF Project, GridCell, Down, Up
<1> HIDE DEF page, r
<1>5. /\ Down(g.left * src.width) <= Down(L * src.width) /\ Down(L * src.width) < Up(R * src.width)
      /\ Up(R * src.width) <= Up(g.right * src.width) /\ Up(R * src.width) - Down(R * src.width) \in {0, 1}
  <2> HIDE DEF g, cell
  <2> QED  BY <1>1, <1>2, <1>3, SideOfACell
<1>6. /\ Down(g.top * src.height) <= Down(T * src.height) /\ Down(T * src.height) < Up(B * src.height)
      /\ Up(B * src.height) <= Up(g.bottom * src.height) /\ Up(B * src.height) - Down(B * src.height) \in {0, 1}
  <2> HIDE DEF g, cell
  <2> QED  BY <1>1, <1>2, <1>3, SideOfACell
<1> HIDE DEF L, R, T, B
<1>7. /\ page.left <= r.left /\ r.left < r.right /\ r.right <= page.right
      /\ page.top <= r.top /\ r.top < r.bottom /\ r.bottom <= page.bottom
      /\ r.left = Down(L * src.width) /\ r.top = Down(T * src.height)
      /\ r.right = Up(R * src.width) /\ r.bottom = Up(B * src.height)
      /\ r.right - Down(R * src.width) \in {0, 1} /\ r.bottom - Down(B * src.height) \in {0, 1}
  BY <1>4, <1>5, <1>6
<1> QED  BY <1>7 DEF page, r, L, R, T, B

LEMMA TraceRecords ==
    ASSUME TraceHeld, NEW slot \in Slots, traces[slot] # <<>>
    PROVE  /\ sources[slot] \in Sources /\ ~Raises(sources[slot], Detect(sources[slot]))
           /\ DOMAIN traces[slot] = Cells
           /\ \A c \in Cells : traces[slot][c] = Record(sources[slot], Detect(sources[slot]), c)
<1>1. traces[slot] = [c \in Cells |-> Record(sources[slot], Detect(sources[slot]), c)]
  BY DEF TraceHeld
<1> QED  BY <1>1 DEF TraceHeld

LEMMA CellsAreTiled == TraceHeld => CellsTile
<1> SUFFICES ASSUME TraceHeld, NEW slot \in Slots, NEW c \in DOMAIN traces[slot], NEW d \in DOMAIN traces[slot],
                    sources[slot].contract = "1.0", traces[slot][c].locator.cell # None,
                    Inventory[c].market = Inventory[d].market
             PROVE  LET r == traces[slot][c].locator.cell
                        s == traces[slot][d].locator.cell
                        g == traces[slot][c].locator.region
                    IN  /\ g.left <= r.left /\ r.left < r.right /\ r.right <= g.right
                        /\ g.top <= r.top /\ r.top < r.bottom /\ r.bottom <= g.bottom
                        /\ Inventory[d].col = Inventory[c].col + 1 => r.right - s.left \in {0, 1}
                        /\ Inventory[d].row = Inventory[c].row + 1 => r.bottom - s.top \in {0, 1}
  BY DEF CellsTile
<1> DEFINE src == sources[slot]
           trace == traces[slot]
           det == Detect(src)
           p == det.profile
           g == Grids[p][Inventory[c].market]
           r == Project(GridCell(Inventory[c], g), src.width, src.height)
           s == Project(GridCell(Inventory[d], g), src.width, src.height)
<1>1. trace # <<>>
  OBVIOUS
<1>2. /\ src \in Sources /\ ~Raises(src, det) /\ c \in Cells /\ d \in Cells
      /\ trace[c].locator = Locate(src, det, c) /\ trace[d].locator = Locate(src, det, d)
  <2>1. /\ src \in Sources /\ ~Raises(src, det) /\ c \in Cells /\ d \in Cells
        /\ trace[c] = Record(src, det, c) /\ trace[d] = Record(src, det, d)
    BY <1>1, TraceRecords
  <2>2. \A x : Record(src, det, x).locator = Locate(src, det, x)
    BY DEF Record
  <2> HIDE DEF src, trace, det
  <2> QED  BY <2>1, <2>2
<1>3. det.status = "MATCHED" /\ p \in DOMAIN Grids
  <2>1. /\ det.status = "MATCHED" /\ p \in DOMAIN Grids
        \/ det.status = "UNSUPPORTED_LAYOUT"
    BY DEF Detect
  <2>2. det.status # "UNSUPPORTED_LAYOUT"
    BY <1>2 DEF Locate
  <2> QED  BY <2>1, <2>2
<1>4. \A x \in Cells : /\ Inventory[x].row < Grids[p][Inventory[x].market].rows
                       /\ Inventory[x].col < Grids[p][Inventory[x].market].cols
  <2> SUFFICES ASSUME NEW x \in Cells
               PROVE  /\ Inventory[x].row < Grids[p][Inventory[x].market].rows
                      /\ Inventory[x].col < Grids[p][Inventory[x].market].cols
    OBVIOUS
  <2>1. ~(Inventory[x].row >= Grids[p][Inventory[x].market].rows \/ Inventory[x].col >= Grids[p][Inventory[x].market].cols)
    BY <1>2, <1>3 DEF Raises
  <2>2. /\ Inventory[x].row \in Nat /\ Inventory[x].col \in Nat
        /\ Grids[p][Inventory[x].market].rows \in Nat /\ Grids[p][Inventory[x].market].cols \in Nat
    BY <1>3, InventoryAssumption, GridsAssumption DEF Markets
  <2> HIDE DEF p
  <2> QED  BY <2>1, <2>2
<1>5. /\ trace[c].locator.cell = r /\ trace[d].locator.cell = s
      /\ trace[c].locator.region = Project(g, src.width, src.height)
  BY <1>2, <1>3 DEF Locate
<1> HIDE DEF det, p, trace
<1> DEFINE page == Project(g, src.width, src.height)
           col == Inventory[c].col
           row == Inventory[c].row
<1>6. /\ page.left <= r.left /\ r.left < r.right /\ r.right <= page.right
      /\ page.top <= r.top /\ r.top < r.bottom /\ r.bottom <= page.bottom
      /\ r.right - Down((g.left + Rounded((col + 1) * (g.right - g.left), g.cols)) * src.width) \in {0, 1}
      /\ r.bottom - Down((g.top + Rounded((row + 1) * (g.bottom - g.top), g.rows)) * src.height) \in {0, 1}
  BY <1>2, <1>3, <1>4, GridCellInPixels
<1>7. /\ s.left = Down((g.left + Rounded(Inventory[d].col * (g.right - g.left), g.cols)) * src.width)
      /\ s.top = Down((g.top + Rounded(Inventory[d].row * (g.bottom - g.top), g.rows)) * src.height)
  BY <1>2, <1>3, <1>4, GridCellInPixels
<1> HIDE DEF r, s, page, g
<1> QED  BY <1>5, <1>6, <1>7 DEF page, trace

-----------------------------------------------------------------------------
(* The queue has what has no value. *)

\* The four statuses to review are those of a cell whose value is missing.
LEMMA StatusOfARecord ==
    ASSUME NEW src, NEW c
    PROVE  LET r == Record(src, Detect(src), c)
           IN  (/\ r.status # "UNSUPPORTED_LAYOUT" /\ r.availability = "AVAILABLE" /\ r.value = None) <=>
               (/\ r.status # "MARKET_UNAVAILABLE" /\ r.availability # "UNAVAILABLE" /\ r.status \in Eligible)
<1> DEFINE det == Detect(src)
           r == Record(src, det, c)
           available == Availability(src, det, Inventory[c].market)
           e == EvidenceFor(src, c)
           parsed == ParseStatus(Inventory[c].kind, e, available = "AVAILABLE", c \notin src.absent)
<1>1. /\ r.availability = available
      /\ r.status = IF det.status \in {"MATCHED", "SELECTED"} THEN parsed ELSE "UNSUPPORTED_LAYOUT"
      /\ r.value = IF r.status = "PARSED" THEN e.text ELSE None
  BY DEF Record
<1>2. /\ available # "AVAILABLE" => parsed = "MARKET_UNAVAILABLE"
      /\ available = "AVAILABLE" => parsed \in Eligible \cup {"PARSED"}
      /\ parsed = "PARSED" => e.text \in Int
  BY DEF ParseStatus, Eligible
<1>3. e.text \in Int => e.text # None
  BY InventoryAssumption
<1> HIDE DEF det, r, available, e, parsed
<1>4. \A status \in Eligible : status \notin {"UNSUPPORTED_LAYOUT", "MARKET_UNAVAILABLE", "PARSED"}
  BY DEF Eligible
<1>5. (/\ r.status # "UNSUPPORTED_LAYOUT" /\ r.availability = "AVAILABLE" /\ r.value = None) <=>
      (/\ r.status # "MARKET_UNAVAILABLE" /\ r.availability # "UNAVAILABLE" /\ r.status \in Eligible)
  BY <1>1, <1>2, <1>3, <1>4
<1> QED  BY <1>5 DEF r, det

LEMMA MissingIsReviewed ==
    ASSUME TraceHeld, queue # None, NEW p \in Items
    PROVE  Missing(p) <=> p \in ToReview
<1>1. p[1] \in Slots /\ p[2] \in Cells
  BY DEF Items
<1>2. traces[p[1]] # <<>>
  BY <1>1 DEF TraceHeld
<1>3. /\ DOMAIN traces[p[1]] = Cells
      /\ RecordOf(p) = Record(sources[p[1]], Detect(sources[p[1]]), p[2])
  BY <1>1, <1>2, TraceRecords DEF RecordOf
<1>4. p \in Records
  BY <1>1, <1>3 DEF Records
<1>5. Missing(p) <=> /\ RecordOf(p).status # "MARKET_UNAVAILABLE" /\ RecordOf(p).availability # "UNAVAILABLE"
                     /\ RecordOf(p).status \in Eligible
  BY <1>3, StatusOfARecord DEF Missing
<1> QED  BY <1>4, <1>5 DEF ToReview, Excluded

\* Every item that is to be reviewed has its place, and one only.
LEMMA QueueIsABijection ==
    ASSUME TraceHeld, queue # None
    PROVE  /\ \A i \in DOMAIN queue : queue[i] \in ToReview
           /\ \A i, j \in DOMAIN queue : queue[i] = queue[j] => i = j
           /\ \A p \in ToReview : \E i \in DOMAIN queue : queue[i] = p
<1> DEFINE n == Cardinality(ToReview)
<1>1. IsFiniteSet(ToReview) /\ n \in Nat /\ ToReview \in SUBSET Items
  BY ToReviewAreItems, ItemsAreFinite
<1>2. queue \in [1..n -> ToReview] /\ \A i, j \in 1..n : i < j => InOrder(queue[i], queue[j])
  BY DEF TraceHeld, Sorted
<1> HIDE DEF n
<1>3. ASSUME NEW i \in 1..n, NEW j \in 1..n, queue[i] = queue[j]
      PROVE  i = j
  <2>1. \A x \in Items : ~InOrder(x, x)
    BY InOrderOfNumbers DEF InOrder
  <2>2. ~(i < j) /\ ~(j < i)
    BY <1>1, <1>2, <1>3, <2>1
  <2> QED  BY <1>1, <2>2
<1>4. queue \in Injection(1..n, ToReview)
  BY <1>2, <1>3 DEF Injection, IsInjective
<1>5. Cardinality(1..n) = Cardinality(ToReview)
  BY <1>1, FS_Interval DEF n
<1>6. queue \in Surjection(1..n, ToReview)
  BY <1>1, <1>4, <1>5, FS_Injection
<1> QED  BY <1>2, <1>3, <1>6 DEF Surjection

LEMMA NothingIsLeftOut == TraceHeld => QueueHasTheRest
<1> SUFFICES ASSUME TraceHeld, queue # None, NEW p \in Items
             PROVE  LET places == {i \in DOMAIN queue : queue[i] = p}
                    IN  IF Missing(p) THEN \E i \in places : places = {i} ELSE places = {}
  BY DEF QueueHasTheRest
<1>1. CASE Missing(p)
  <2>1. PICK i \in DOMAIN queue : queue[i] = p
    BY <1>1, MissingIsReviewed, QueueIsABijection
  <2>2. {j \in DOMAIN queue : queue[j] = p} = {i}
    BY <2>1, QueueIsABijection
  <2> QED  BY <1>1, <2>1, <2>2
<1>2. CASE ~Missing(p)
  BY <1>2, MissingIsReviewed, QueueIsABijection
<1> QED  BY <1>1, <1>2

-----------------------------------------------------------------------------
(* The OCR run, the package of its exceptions and the import of the answers. *)

RecordHeld(q, i, r) ==
    /\ r.id = q[i] /\ r.crop = r.id
    /\ r.consensus.status = "CONFIRMED" => Cardinality(r.engines) >= 2

\* What a finished run wrote.
WholeHeld(q, output) ==
    /\ Len(output.records) \in Nat /\ DOMAIN output.records = 1..Len(output.records)
    /\ \A i \in DOMAIN output.records : RecordHeld(q, i, output.records[i])
    /\ output.exceptions = Unconfirmed(output.records, Len(output.records))

\* The run under way reads the front of the queue, and its exceptions are not there yet.
RunHeld ==
    /\ queue # None
    /\ ocr = [at |-> "reading", output |-> ocr.output, cells |-> ocr.cells, engines |-> ocr.engines, done |-> ocr.done]
    /\ ocr.output \in DOMAIN outputs
    /\ outputs[ocr.output].exceptions = None /\ outputs[ocr.output].whole = FALSE
    /\ Len(ocr.cells) \in Nat /\ DOMAIN ocr.cells = 1..Len(ocr.cells)
    /\ \A i \in DOMAIN ocr.cells : ocr.cells[i] = queue[i]
    /\ \A i \in DOMAIN ocr.done : RecordHeld(queue, i, ocr.done[i])

OutputsHeld == \A o \in DOMAIN outputs : queue # None /\ (outputs[o].whole => WholeHeld(queue, outputs[o]))

ItemsOf(exceptions) == {[id |-> e.id, crop |-> e.crop, status |-> e.consensus.status] : e \in exceptions}

PackagesHeld ==
    \A p \in DOMAIN packages :
        LET from == packages[p].from
        IN  /\ from \in DOMAIN outputs /\ outputs[from].exceptions # None
            /\ packages[p].items # None => packages[p].items = ItemsOf(outputs[from].exceptions)

ImportsHeld ==
    \A n \in DOMAIN imports :
        LET package == imports[n].package
        IN  /\ package \in DOMAIN packages /\ packages[package].items # None
            /\ Accepted(packages[package], imports[n].rows)

OcrHeld ==
    /\ ocr.at = "reading" => RunHeld
    /\ OutputsHeld /\ PackagesHeld /\ ImportsHeld

LEMMA StartStep ==
    ASSUME TraceHeld, OcrHeld, NEW name, NEW engines, NEW limit, StartOcr(name, engines, limit)
    PROVE  OcrHeld'
<1> DEFINE n == IF limit \in 1..Len(queue) THEN limit ELSE Len(queue)
           cells == SubSeq(queue, 1, n)
           empty == [records |-> None, exceptions |-> None, whole |-> FALSE]
<1>1. /\ queue # None /\ name \notin DOMAIN outputs /\ queue' = queue
      /\ outputs' = Put(outputs, name, empty)
      /\ ocr' = [at |-> "reading", output |-> name, cells |-> cells, engines |-> engines, done |-> <<>>]
      /\ packages' = packages /\ imports' = imports
  BY DEF StartOcr, traceVars
<1>2. /\ Len(cells) \in Nat /\ DOMAIN cells = 1..Len(cells)
      /\ \A i \in DOMAIN cells : cells[i] = queue[i]
  <2>1. queue \in Seq(Items) /\ Len(queue) \in Nat
    BY <1>1, QueueIsOfItems
  <2>2. n \in 0..Len(queue)
    BY <2>1
  <2> HIDE DEF n
  <2>3. cells = [i \in 1..n |-> queue[i]] /\ cells \in Seq(Items)
    BY <2>1, <2>2
  <2> QED  BY <2>2, <2>3
<1> HIDE DEF cells
<1>3. /\ DOMAIN outputs' = DOMAIN outputs \cup {name} /\ outputs'[name] = empty
      /\ \A o \in DOMAIN outputs : outputs'[o] = outputs[o]
  BY <1>1 DEF Put
<1>4. RunHeld'
  BY <1>1, <1>2, <1>3 DEF RunHeld
<1>5. OutputsHeld'
  <2>1. empty.whole = FALSE
    OBVIOUS
  <2> HIDE DEF empty
  <2> SUFFICES ASSUME NEW o \in DOMAIN outputs', outputs'[o].whole
               PROVE  WholeHeld(queue', outputs'[o])
    BY <1>1 DEF OutputsHeld
  <2>2. o \in DOMAIN outputs /\ outputs'[o] = outputs[o]
    BY <1>3, <2>1
  <2> QED  BY <1>1, <2>2 DEF OcrHeld, OutputsHeld
<1>6. PackagesHeld' /\ ImportsHeld'
  BY <1>1, <1>3 DEF OcrHeld, PackagesHeld, ImportsHeld
<1> QED  BY <1>4, <1>5, <1>6 DEF OcrHeld

LEMMA ConfirmedByEngines ==
    ASSUME NEW runs, Consensus(runs).status = "CONFIRMED"
    PROVE  Cardinality({r.engine : r \in runs}) >= 2
  BY DEF Consensus

LEMMA NewDone ==
    ASSUME NEW held, NEW at, NEW output, NEW cells, NEW engines, NEW old, NEW new,
           held = [at |-> at, output |-> output, cells |-> cells, engines |-> engines, done |-> old]
    PROVE  [held EXCEPT !.done = new] = [at |-> at, output |-> output, cells |-> cells, engines |-> engines, done |-> new]
  OBVIOUS

LEMMA ReadStep ==
    ASSUME OcrHeld, NEW i, NEW reads, ReadCell(i, reads)
    PROVE  OcrHeld'
<1> DEFINE c == ocr.cells[i]
           runs == Runs(ocr.engines, reads)
           record == [id |-> c, crop |-> c, engines |-> {r.engine : r \in runs}, consensus |-> Consensus(runs)]
           done == Put(ocr.done, i, record)
<1>1. /\ ocr.at = "reading" /\ i \in DOMAIN ocr.cells
      /\ UNCHANGED <<traceVars, crop, outputs, packages, imports>>
      /\ ocr' = [ocr EXCEPT !.done = done] \/ ocr' = NoRun
  BY Zenon DEF ReadCell
<1>2. /\ queue' = queue /\ outputs' = outputs /\ packages' = packages /\ imports' = imports
  BY <1>1 DEF traceVars
<1>3. OutputsHeld' /\ PackagesHeld' /\ ImportsHeld'
  BY <1>2 DEF OcrHeld, OutputsHeld, PackagesHeld, ImportsHeld
<1>4. RunHeld
  BY <1>1 DEF OcrHeld
<1>5. RecordHeld(queue, i, record)
  <2>1. Consensus(runs).status = "CONFIRMED" => Cardinality({r.engine : r \in runs}) >= 2
    BY ConfirmedByEngines
  <2>2. c = queue[i]
    BY <1>1, <1>4 DEF RunHeld
  <2> HIDE DEF runs, c
  <2> QED  BY <2>1, <2>2 DEF RecordHeld
<1> HIDE DEF record
<1>6. \A j \in DOMAIN done : RecordHeld(queue, j, done[j])
  <2>1. DOMAIN done = DOMAIN ocr.done \cup {i} /\ done[i] = record /\ \A j \in DOMAIN ocr.done : j # i => done[j] = ocr.done[j]
    BY DEF Put
  <2> HIDE DEF done
  <2> QED  BY <1>4, <1>5, <2>1 DEF RunHeld
<1> HIDE DEF done
<1>7. CASE ocr' = [ocr EXCEPT !.done = done]
  <2>1. ocr' = [at |-> "reading", output |-> ocr.output, cells |-> ocr.cells, engines |-> ocr.engines, done |-> done]
    BY <1>4, <1>7, NewDone DEF RunHeld
  <2>2. RunHeld'
    BY <1>2, <1>4, <1>6, <2>1 DEF RunHeld
  <2> QED  BY <1>3, <2>2 DEF OcrHeld
<1>8. CASE ocr' = NoRun
  BY <1>3, <1>8 DEF OcrHeld, NoRun
<1> QED  BY <1>1, <1>7, <1>8

LEMMA WriteOcrStep ==
    ASSUME OcrHeld, NEW written, NEW kept, NEW whole \in BOOLEAN, WriteOcr(written, kept, whole)
    PROVE  OcrHeld'
<1> DEFINE records == [i \in DOMAIN ocr.cells |-> ocr.done[i]]
           new == [records |-> IF written >= 1 THEN records ELSE None,
                   exceptions |-> IF written >= 2 THEN Unconfirmed(records, kept) ELSE None,
                   whole |-> whole]
<1>1. /\ ocr.at = "reading" /\ DOMAIN ocr.done = DOMAIN ocr.cells
      /\ whole => written = 2 /\ kept = Len(ocr.cells)
      /\ outputs' = Put(outputs, ocr.output, new) /\ ocr' = NoRun
      /\ queue' = queue /\ packages' = packages /\ imports' = imports
  BY Zenon DEF WriteOcr, traceVars
<1>2. RunHeld
  BY <1>1 DEF OcrHeld
<1>3. /\ DOMAIN outputs' = DOMAIN outputs /\ outputs'[ocr.output] = new
      /\ \A o \in DOMAIN outputs : o # ocr.output => outputs'[o] = outputs[o]
  <2> HIDE DEF new
  <2> QED  BY <1>1, <1>2 DEF RunHeld, Put
<1>4. whole => WholeHeld(queue, new)
  <2> SUFFICES ASSUME whole
               PROVE  WholeHeld(queue, new)
    OBVIOUS
  <2> DEFINE n == Len(ocr.cells)
  <2>1. n \in Nat /\ DOMAIN ocr.cells = 1..n /\ DOMAIN ocr.done = 1..n
    BY <1>1, <1>2 DEF RunHeld
  <2>2. written = 2 /\ kept = n
    BY <1>1
  <2>3. new.records = records /\ new.exceptions = Unconfirmed(records, n)
    BY <2>2
  <2>4. \A i \in 1..n : RecordHeld(queue, i, records[i])
    BY <1>2, <2>1 DEF RunHeld
  <2> HIDE DEF n
  <2>5. DOMAIN records = 1..n /\ Len(records) = n
    BY <2>1
  <2> HIDE DEF records, new
  <2> QED  BY <2>1, <2>3, <2>4, <2>5 DEF WholeHeld
<1>5. new.whole = whole
  OBVIOUS
<1> HIDE DEF new, records
<1>6. OutputsHeld'
  BY <1>1, <1>3, <1>4, <1>5 DEF OcrHeld, OutputsHeld
<1>7. PackagesHeld'
  <2>1. \A p \in DOMAIN packages : packages[p].from # ocr.output
    BY <1>2 DEF OcrHeld, PackagesHeld, RunHeld
  <2> QED  BY <1>1, <1>3, <2>1 DEF OcrHeld, PackagesHeld
<1>8. ImportsHeld'
  BY <1>1 DEF OcrHeld, ImportsHeld
<1> QED  BY <1>1, <1>6, <1>7, <1>8 DEF OcrHeld, NoRun

LEMMA BuildStep ==
    ASSUME OcrHeld, NEW name, NEW output \in DOMAIN outputs, NEW written, BuildPackage(name, output, written)
    PROVE  OcrHeld'
<1> DEFINE exceptions == outputs[output].exceptions
           items == ItemsOf(exceptions)
           sound == \A e \in exceptions : e.id \in Queued /\ crop[e.id] = e.crop
           new == [from |-> output,
                   items |-> IF sound /\ written >= 1 THEN items ELSE None,
                   count |-> IF sound /\ written >= 2 THEN Cardinality(items) ELSE None]
<1>1. /\ name \notin DOMAIN packages /\ exceptions # None
      /\ packages' = Put(packages, name, new)
      /\ queue' = queue /\ ocr' = ocr /\ outputs' = outputs /\ imports' = imports
  BY Zenon DEF BuildPackage, ItemsOf, traceVars
<1>2. new.from = output /\ (new.items # None => new.items = items)
  OBVIOUS
<1>3. /\ DOMAIN packages' = DOMAIN packages \cup {name} /\ packages'[name] = new
      /\ \A p \in DOMAIN packages : packages'[p] = packages[p]
  <2> HIDE DEF new
  <2> QED  BY <1>1 DEF Put
<1> HIDE DEF new
<1>4. PackagesHeld'
  BY <1>1, <1>2, <1>3 DEF OcrHeld, PackagesHeld
<1>5. ImportsHeld'
  BY <1>1, <1>3 DEF OcrHeld, ImportsHeld
<1>6. OutputsHeld' /\ (ocr'.at = "reading" => RunHeld')
  BY <1>1 DEF OcrHeld, OutputsHeld, RunHeld
<1> QED  BY <1>4, <1>5, <1>6 DEF OcrHeld

LEMMA ImportStep ==
    ASSUME OcrHeld, NEW name, NEW package \in DOMAIN packages, NEW answers, Import(name, package, answers)
    PROVE  OcrHeld'
<1> DEFINE new == [package |-> package, rows |-> answers]
<1>1. /\ name \notin DOMAIN imports /\ packages[package].items # None
      /\ Accepted(packages[package], answers)
      /\ imports' = Put(imports, name, new)
      /\ queue' = queue /\ ocr' = ocr /\ outputs' = outputs /\ packages' = packages
  BY Zenon DEF Import, traceVars
<1>2. /\ DOMAIN imports' = DOMAIN imports \cup {name} /\ imports'[name] = new
      /\ \A n \in DOMAIN imports : imports'[n] = imports[n]
  BY <1>1 DEF Put
<1>3. ImportsHeld'
  BY <1>1, <1>2 DEF OcrHeld, ImportsHeld
<1>4. OutputsHeld' /\ PackagesHeld' /\ (ocr'.at = "reading" => RunHeld')
  BY <1>1 DEF OcrHeld, OutputsHeld, PackagesHeld, RunHeld
<1> QED  BY <1>3, <1>4 DEF OcrHeld

\* A step that leaves the queue and the OCR programs alone.
LEMMA OcrUntouched ==
    ASSUME OcrHeld, queue # None => queue' = queue, UNCHANGED <<ocr, outputs, packages, imports>>
    PROVE  OcrHeld'
<1>1. CASE queue = None
  <2>1. ocr.at # "reading" /\ DOMAIN outputs = {} /\ DOMAIN packages = {} /\ DOMAIN imports = {}
    BY <1>1 DEF OcrHeld, RunHeld, OutputsHeld, PackagesHeld, ImportsHeld
  <2> QED  BY <2>1 DEF OcrHeld, OutputsHeld, PackagesHeld, ImportsHeld
<1>2. CASE queue' = queue
  BY <1>2 DEF OcrHeld, RunHeld, OutputsHeld, PackagesHeld, ImportsHeld
<1> QED  BY <1>1, <1>2

LEMMA OcrStep ==
    ASSUME TraceHeld, OcrHeld, OcrNext
    PROVE  OcrHeld'
<1>1. ASSUME KillOcr
      PROVE  OcrHeld'
  <2>1. ocr' = NoRun /\ queue' = queue /\ outputs' = outputs /\ packages' = packages /\ imports' = imports
    BY <1>1 DEF KillOcr, traceVars
  <2> QED  BY <2>1 DEF OcrHeld, OutputsHeld, PackagesHeld, ImportsHeld, NoRun
<1>2. ASSUME NEW c, NEW shown, ChangeCrop(c, shown)
      PROVE  OcrHeld'
  <2>1. queue' = queue /\ UNCHANGED <<ocr, outputs, packages, imports>>
    BY <1>2, Zenon DEF ChangeCrop, traceVars
  <2> QED  BY <2>1, OcrUntouched
<1> QED  BY <1>1, <1>2, StartStep, ReadStep, WriteOcrStep, BuildStep, ImportStep, Zenon DEF OcrNext

LEMMA AnswersAreThere == TraceHeld /\ OcrHeld => EveryCellIsAnswered
<1> SUFFICES ASSUME TraceHeld, OcrHeld, NEW n \in DOMAIN imports, NEW c \in Items, Missing(c),
                    outputs[packages[imports[n].package].from].whole,
                    Len(outputs[packages[imports[n].package].from].records) = Len(queue)
             PROVE  LET output == outputs[packages[imports[n].package].from]
                        rows_ == imports[n].rows
                    IN  \/ \E i \in DOMAIN output.records :
                              LET r == output.records[i]
                              IN  r.id = c /\ r.consensus.status = "CONFIRMED" /\ Cardinality(r.engines) >= 2
                        \/ Cardinality({k \in DOMAIN rows_ :
                              /\ rows_[k].id = c /\ rows_[k].crop = c
                              /\ (rows_[k].value # None) = (rows_[k].status = "CHATGPT_CONFIRMED")}) = 1
  BY DEF EveryCellIsAnswered
<1> DEFINE package == packages[imports[n].package]
           output == outputs[package.from]
           answers == imports[n].rows
<1>1. /\ package.items = ItemsOf(output.exceptions)
      /\ Accepted(package, answers)
      /\ queue # None /\ WholeHeld(queue, output)
  BY DEF OcrHeld, ImportsHeld, PackagesHeld, OutputsHeld
<1>2. PICK i \in DOMAIN queue : queue[i] = c
  BY <1>1, MissingIsReviewed, QueueIsABijection
<1> DEFINE r == output.records[i]
<1>3. i \in DOMAIN output.records /\ RecordHeld(queue, i, r)
  <2>1. DOMAIN queue = 1..Len(queue)
    BY <1>1, QueueIsOfItems
  <2> QED  BY <1>1, <2>1 DEF WholeHeld
<1>4. CASE r.consensus.status = "CONFIRMED"
  BY <1>2, <1>3, <1>4 DEF RecordHeld
<1>5. CASE r.consensus.status # "CONFIRMED"
  <2> HIDE DEF package, output, answers
  <2>1. \A e \in output.exceptions : e.crop = e.id
    BY <1>1 DEF WholeHeld, Unconfirmed, RecordHeld
  <2>2. r \in output.exceptions /\ r.id = c
    BY <1>1, <1>2, <1>3, <1>5 DEF WholeHeld, Unconfirmed, RecordHeld
  <2>3. \A item \in package.items : item.crop = item.id
    BY <1>1, <2>1 DEF ItemsOf
  <2>4. PICK item \in package.items : item.id = c
    <3>1. [id |-> r.id, crop |-> r.crop, status |-> r.consensus.status] \in package.items
      BY <1>1, <2>2, Zenon DEF ItemsOf
    <3> QED  BY <2>2, <3>1
  <2>5. PICK k \in DOMAIN answers : answers[k].id = c
    BY <1>1, <2>4 DEF Accepted
  <2>6. PICK other \in package.items : other.id = c /\ AnswerOK(answers[k], other)
    BY <1>1, <2>5 DEF Accepted
  <2>7. /\ answers[k].crop = c
        /\ (answers[k].value # None) = (answers[k].status = "CHATGPT_CONFIRMED")
    BY <2>3, <2>6 DEF AnswerOK
  <2> DEFINE those == {l \in DOMAIN answers :
                          /\ answers[l].id = c /\ answers[l].crop = c
                          /\ (answers[l].value # None) = (answers[l].status = "CHATGPT_CONFIRMED")}
  <2>8. \A l \in DOMAIN answers : answers[l].id = c => l = k
    BY <1>1, <2>5 DEF Accepted
  <2>9. those = {k}
    BY <2>5, <2>7, <2>8
  <2> HIDE DEF those
  <2>10. Cardinality(those) = 1
    BY <2>9, FS_Singleton
  <2> QED  BY <2>10 DEF those, answers
<1> QED  BY <1>4, <1>5 DEF output, package, answers

-----------------------------------------------------------------------------
(* The visual review. *)

Observations == {NotExecuted} \cup {Observation(reply) : reply \in Replies}
Statuses == {"CONFLICT", "AI_REVIEW_AMBIGUOUS", "HUMAN_ESCALATION_REQUIRED", "AI_CONFIRMED"}
ReviewRecords == [id : Items, status : Statuses, a : Observations, b : Observations]

\* A record is of the cell at its place, and when it confirms, the passes and the OCR
\* number agree.
Sound(q, i, r) ==
    /\ r.id = q[i]
    /\ r.status = "AI_CONFIRMED" =>
          /\ r.a.value = r.b.value /\ r.a.value # None
          /\ Bindings[q[i]].ocr \in Int => Bindings[q[i]].ocr = r.a.value

\* What the batch under way has in memory, and which of the files are its own.
BatchHeld ==
    /\ queue # None
    /\ batch = [kind |-> batch.kind, number |-> batches, records |-> batch.records, next |-> batch.next]
    /\ batch.next \in 1..Len(FileOrder(batch.kind))
    /\ batch.records \in Seq(ReviewRecords)
    /\ Len(batch.records) <= Len(queue)
    /\ \A i \in DOMAIN batch.records : Sound(queue, i, batch.records[i])
    /\ batch.next > 1 =>
          /\ Len(batch.records) = Len(queue)
          /\ files.records = [number |-> batches, content |-> batch.records]
    /\ batch.next > 2 => files.escalations = [number |-> batches, content |-> Escalated(batch.records)]
    /\ files.manifest # None =>
          /\ batch.next = 1 => files.records.number < batches
          /\ batch.next <= 2 => files.escalations.number < batches
          /\ batch.next <= 3 => files.manifest.number < batches

\* No file is older than one that is written after it, and escalations of the batch of
\* the records are of its records.
ManifestHeld ==
    /\ queue # None
    /\ files.records.number \in Nat /\ files.escalations.number \in Nat /\ files.manifest.number \in Nat
    /\ files.manifest.number <= files.escalations.number
    /\ files.escalations.number <= files.records.number
    /\ files.records.number <= batches
    /\ DOMAIN files.records.content = DOMAIN queue
    /\ \A i \in DOMAIN queue : Sound(queue, i, files.records.content[i])
    /\ files.escalations.number = files.records.number =>
          files.escalations.content = Escalated(files.records.content)

FileNames == {"records", "escalations", "manifest", "summary"}

VisualHeld ==
    /\ batches \in Nat
    /\ files = [f \in FileNames |-> files[f]]
    /\ batch # None => BatchHeld
    /\ files.manifest # None => ManifestHeld

LEMMA NoCellHidden == VisualHeld => NoCellIsHidden
<1> SUFFICES ASSUME VisualHeld, files.manifest # None,
                    files.manifest.number = files.records.number,
                    NEW i \in DOMAIN queue
             PROVE  LET r == files.records.content[i]
                    IN  /\ r.id = queue[i]
                        /\ \/ \E e \in files.escalations.content : e.id = r.id
                           \/ /\ r.a.value = r.b.value /\ r.a.value # None
                              /\ Bindings[queue[i]].ocr \notin Int \/ Bindings[queue[i]].ocr = r.a.value
  BY DEF NoCellIsHidden
<1> DEFINE r == files.records.content[i]
<1>1. ManifestHeld
  BY DEF VisualHeld
<1>2. files.escalations.content = Escalated(files.records.content)
  BY <1>1 DEF ManifestHeld
<1>3. Sound(queue, i, r) /\ r \in Range(files.records.content)
  BY <1>1 DEF ManifestHeld, Range
<1>4. CASE r.status # "AI_CONFIRMED"
  <2>1. r \in files.escalations.content
    BY <1>2, <1>3, <1>4 DEF Escalated
  <2> QED  BY <1>3, <2>1 DEF Sound
<1>5. CASE r.status = "AI_CONFIRMED"
  BY <1>3, <1>5 DEF Sound
<1> QED  BY <1>4, <1>5

\* The decision confirms only what both passes read, and what the OCR number says.
LEMMA ConfirmedIsRead ==
    ASSUME NEW c \in Items, NEW a \in Observations, NEW b \in Observations,
           Valid(a, Item(c)), Valid(b, Item(c))
    PROVE  /\ Decision(Item(c), a, b) \in Statuses
           /\ Decision(Item(c), a, b) = "AI_CONFIRMED" =>
                /\ a.value = b.value /\ a.value # None
                /\ Bindings[c].ocr \in Int => Bindings[c].ocr = a.value
<1>1. Item(c).ocr = Bindings[c].ocr
  BY DEF Item
<1>2. Decision(Item(c), a, b) \in Statuses
  BY DEF Decision, Statuses
<1>3. ASSUME Decision(Item(c), a, b) = "AI_CONFIRMED"
      PROVE  /\ Readable(a) /\ a.value = b.value
             /\ Bindings[c].ocr \in Int => Bindings[c].ocr = a.value
  BY <1>1, <1>3 DEF Decision
<1>4. Readable(a) => a.value \in Int /\ a.value # None
  BY InventoryAssumption DEF Valid
<1> QED  BY <1>2, <1>3, <1>4

LEMMA FilesInOrder ==
    ASSUME NEW kind
    PROVE  /\ Len(FileOrder(kind)) \in {3, 4}
           /\ FileOrder(kind)[1] = "records" /\ FileOrder(kind)[2] = "escalations" /\ FileOrder(kind)[3] = "manifest"
           /\ Len(FileOrder(kind)) = 4 => FileOrder(kind)[4] = "summary"
  BY DEF FileOrder

LEMMA BeginStep ==
    ASSUME TraceHeld, VisualHeld, NEW kind, Begin(kind)
    PROVE  VisualHeld'
<1>1. /\ queue # None /\ queue' = queue /\ batches' = batches + 1 /\ batches \in Nat
      /\ batch' = [kind |-> kind, number |-> batches', records |-> <<>>, next |-> 1]
      /\ files' = files
  BY DEF Begin, VisualHeld, traceVars
<1>2. files.manifest # None => ManifestHeld /\ ManifestHeld'
  BY <1>1 DEF ManifestHeld, VisualHeld
<1>3. BatchHeld'
  <2>1. Len(queue) \in Nat
    BY <1>1, QueueIsOfItems
  <2>2. batch'.records = <<>> /\ batch'.records \in Seq(ReviewRecords) /\ Len(batch'.records) = 0 /\ DOMAIN batch'.records = {}
    BY <1>1
  <2>3. files'.manifest # None =>
          files'.records.number < batches' /\ files'.escalations.number < batches' /\ files'.manifest.number < batches'
    BY <1>1, <1>2 DEF ManifestHeld
  <2>4. batch'.next \in 1..Len(FileOrder(batch'.kind))
    BY <1>1, FilesInOrder
  <2> QED  BY <1>1, <2>1, <2>2, <2>3, <2>4 DEF BatchHeld
<1> QED  BY <1>1, <1>2, <1>3 DEF VisualHeld

LEMMA NewRecords ==
    ASSUME NEW held, NEW kind, NEW number, NEW old, NEW next, NEW new,
           held = [kind |-> kind, number |-> number, records |-> old, next |-> next]
    PROVE  [held EXCEPT !.records = new] = [kind |-> kind, number |-> number, records |-> new, next |-> next]
  OBVIOUS

LEMMA ReviewStep ==
    ASSUME TraceHeld, VisualHeld, NEW a \in Replies, NEW b \in Replies, Review(a, b)
    PROVE  VisualHeld'
<1> DEFINE item == Item(queue[Len(batch.records) + 1])
           seen(reply) == IF batch.kind = "no provider" THEN NotExecuted ELSE Observation(reply)
           record == [id |-> item.id, status |-> Decision(item, seen(a), seen(b)), a |-> seen(a), b |-> seen(b)]
<1>1. /\ batch # None /\ BatchHeld /\ Len(batch.records) < Len(queue)
      /\ queue' = queue /\ batches' = batches /\ files' = files /\ batches \in Nat
  BY DEF Review, VisualHeld, traceVars
<1>2. files'.manifest # None => ManifestHeld'
  BY <1>1 DEF ManifestHeld, VisualHeld
<1>3. CASE batch' = None
  BY <1>1, <1>2, <1>3 DEF VisualHeld
<1>4. CASE /\ batch' = [batch EXCEPT !.records = Append(@, record)]
           /\ Valid(seen(a), item) /\ Valid(seen(b), item)
  <2> DEFINE n == Len(batch.records) + 1
             c == queue[n]
  <2>1. queue \in Seq(Items) /\ Len(queue) \in Nat /\ batch.records \in Seq(ReviewRecords) /\ Len(batch.records) \in Nat
    BY <1>1, QueueIsOfItems DEF BatchHeld
  <2>2. n \in 1..Len(queue) /\ c \in Items
    BY <1>1, <2>1
  <2>3. seen(a) \in Observations /\ seen(b) \in Observations
    BY DEF Observations
  <2>4. item = Item(c) /\ item.id = c
    BY DEF Item
  <2>5. /\ record.status \in Statuses
        /\ record.status = "AI_CONFIRMED" =>
                /\ record.a.value = record.b.value /\ record.a.value # None
                /\ Bindings[c].ocr \in Int => Bindings[c].ocr = record.a.value
    <3> HIDE DEF seen, item, c
    <3> QED  BY <1>4, <2>2, <2>3, <2>4, ConfirmedIsRead
  <2>6. record \in ReviewRecords /\ Sound(queue, n, record)
    <3> HIDE DEF seen, n
    <3> QED  BY <2>2, <2>3, <2>4, <2>5 DEF ReviewRecords, Sound
  <2> HIDE DEF record, item, seen, c
  <2>7. /\ Append(batch.records, record) \in Seq(ReviewRecords)
        /\ Len(Append(batch.records, record)) = n
        /\ \A i \in DOMAIN Append(batch.records, record) : Sound(queue, i, Append(batch.records, record)[i])
    <3>1. \A i \in 1..Len(batch.records) : Sound(queue, i, batch.records[i])
      BY <1>1, <2>1 DEF BatchHeld
    <3> QED  BY <2>1, <2>6, <3>1
  <2>8. batch.next = 1
    BY <1>1, <2>1 DEF BatchHeld
  <2>9. batch' = [kind |-> batch.kind, number |-> batches, records |-> Append(batch.records, record), next |-> 1]
    <3> DEFINE more == Append(batch.records, record)
    <3>1. batch' = [batch EXCEPT !.records = more]
      BY <1>4
    <3>2. batch = [kind |-> batch.kind, number |-> batches, records |-> batch.records, next |-> 1]
      BY <1>1, <2>8 DEF BatchHeld
    <3> HIDE DEF more
    <3>3. [batch EXCEPT !.records = more] = [kind |-> batch.kind, number |-> batches, records |-> more, next |-> 1]
      BY <3>2, NewRecords
    <3> QED  BY <3>1, <3>3 DEF more
  <2>11. files'.manifest # None =>
            files'.records.number < batches' /\ files'.escalations.number < batches' /\ files'.manifest.number < batches'
    BY <1>1, <2>8 DEF BatchHeld
  <2>12. BatchHeld'
    BY <1>1, <2>1, <2>2, <2>7, <2>9, <2>11 DEF BatchHeld
  <2> QED  BY <1>1, <1>2, <2>12 DEF VisualHeld
<1>5. \/ batch' = None
      \/ /\ batch' = [batch EXCEPT !.records = Append(@, record)]
         /\ Valid(seen(a), item) /\ Valid(seen(b), item)
  BY ZenonT(30) DEF Review
<1> QED  BY <1>3, <1>4, <1>5

LEMMA NextFile ==
    ASSUME NEW held, NEW kind, NEW number, NEW records, NEW next \in Nat,
           held = [kind |-> kind, number |-> number, records |-> records, next |-> next]
    PROVE  [held EXCEPT !.next = @ + 1] = [kind |-> kind, number |-> number, records |-> records, next |-> next + 1]
  OBVIOUS

LEMMA WriteNextStep ==
    ASSUME TraceHeld, VisualHeld, WriteNext
    PROVE  VisualHeld'
<1> DEFINE file == FileOrder(batch.kind)[batch.next]
           new == [number |-> batches, content |-> Content(file)]
           r == files.records
           e == files.escalations
           m == files.manifest
           s == files.summary
<1>1. /\ batch # None /\ BatchHeld /\ Len(batch.records) = Len(queue)
      /\ queue' = queue /\ batches' = batches /\ batches \in Nat
      /\ batch.number = batches /\ batch.next \in Nat
  BY FilesInOrder DEF WriteNext, VisualHeld, BatchHeld, traceVars
<1>2. /\ files = [f \in FileNames |-> files[f]]
      /\ files' = [files EXCEPT ![file] = new]
  BY <1>1 DEF WriteNext, VisualHeld
<1>3. \/ batch' = None
      \/ batch' = [kind |-> batch.kind, number |-> batches, records |-> batch.records, next |-> batch.next + 1]
         /\ batch.next # Len(FileOrder(batch.kind))
  BY <1>1, NextFile DEF WriteNext, BatchHeld
<1>4. queue \in Seq(Items) /\ DOMAIN batch.records = DOMAIN queue /\ batch.records \in Seq(ReviewRecords)
  BY <1>1, QueueIsOfItems DEF BatchHeld
<1>6. files.manifest # None => ManifestHeld
  BY DEF VisualHeld
<1> HIDE DEF new, file
<1>11. batch' # None =>
         /\ batch'.next = batch.next + 1 /\ batch'.kind = batch.kind /\ batch'.records = batch.records
         /\ batch'.next \in 1..Len(FileOrder(batch'.kind))
         /\ batch' = [kind |-> batch'.kind, number |-> batches', records |-> batch'.records, next |-> batch'.next]
  <2>1. batch.next \in 1..Len(FileOrder(batch.kind)) /\ Len(FileOrder(batch.kind)) \in Nat
    BY <1>1, FilesInOrder DEF BatchHeld
  <2> QED  BY <1>1, <1>3, <2>1
<1>12. /\ files' = [f \in FileNames |-> files'[f]]
       /\ \A f \in FileNames : files'[f] = IF f = file THEN new ELSE files[f]
  BY <1>2
<1>14. batch' # None =>
         /\ queue' # None /\ batch'.next = batch.next + 1 /\ batch'.records = batch.records
         /\ batch' = [kind |-> batch'.kind, number |-> batches', records |-> batch'.records, next |-> batch'.next]
         /\ batch'.next \in 1..Len(FileOrder(batch'.kind))
         /\ batch'.records \in Seq(ReviewRecords) /\ Len(batch'.records) = Len(queue') /\ Len(queue') \in Nat
         /\ \A i \in DOMAIN batch'.records : Sound(queue', i, batch'.records[i])
  <2>1. Len(queue') \in Nat /\ queue' # None
    BY <1>1, <1>4 DEF BatchHeld
  <2>2. /\ batch.records \in Seq(ReviewRecords) /\ Len(batch.records) = Len(queue')
        /\ \A i \in DOMAIN batch.records : Sound(queue', i, batch.records[i])
    BY <1>1 DEF BatchHeld
  <2> QED  BY <1>11, <2>1, <2>2
<1>7. CASE batch.next = 1
  <2>1. file = "records" /\ new = [number |-> batches, content |-> batch.records]
    BY <1>1, <1>7, FilesInOrder DEF file, new, Content
  <2>2. files'.records = new /\ files'.escalations = e /\ files'.manifest = m
    BY <1>12, <2>1 DEF FileNames
  <2>3. files'.manifest # None => ManifestHeld'
    BY <1>1, <1>4, <1>6, <1>7, <2>1, <2>2 DEF ManifestHeld, BatchHeld
  <2>4. batch' # None => BatchHeld'
    <3>1. files'.manifest # None =>
            files'.escalations.number < batches' /\ files'.manifest.number < batches'
      BY <1>1, <1>6, <1>7, <2>1, <2>2 DEF ManifestHeld, BatchHeld
    <3> QED  BY <1>1, <1>7, <1>14, <2>1, <2>2, <3>1 DEF BatchHeld
  <2> QED  BY <1>1, <1>12, <2>3, <2>4 DEF VisualHeld
<1>8. CASE batch.next = 2
  <2>1. file = "escalations" /\ new = [number |-> batches, content |-> Escalated(batch.records)]
    BY <1>1, <1>8, FilesInOrder DEF file, new, Content
  <2>2. files'.records = r /\ files'.escalations = new /\ files'.manifest = m
    BY <1>12, <2>1 DEF FileNames
  <2>3. files'.manifest # None => ManifestHeld'
    BY <1>1, <1>4, <1>6, <1>8, <2>1, <2>2 DEF ManifestHeld, BatchHeld
  <2>4. batch' # None => BatchHeld'
    <3>1. files'.manifest # None =>
            files'.escalations.number <= batches' /\ files'.manifest.number < batches'
      BY <1>1, <1>6, <1>8, <2>1, <2>2 DEF ManifestHeld, BatchHeld
    <3> QED  BY <1>1, <1>8, <1>14, <2>1, <2>2, <3>1 DEF BatchHeld
  <2> QED  BY <1>1, <1>12, <2>3, <2>4 DEF VisualHeld
<1>9. CASE batch.next = 3
  <2>1. file = "manifest" /\ new.number = batches
    BY <1>1, <1>9, FilesInOrder DEF file, new
  <2>2. files'.records = r /\ files'.escalations = e /\ files'.manifest = new
    BY <1>12, <2>1 DEF FileNames
  <2>3. ManifestHeld'
    BY <1>1, <1>4, <1>9, <2>1, <2>2 DEF ManifestHeld, BatchHeld
  <2>4. batch' # None => BatchHeld'
    BY <1>1, <1>9, <1>14, <2>2 DEF BatchHeld
  <2> QED  BY <1>1, <1>12, <2>3, <2>4 DEF VisualHeld
<1>10. CASE batch.next = 4
  <2>1. file = "summary" /\ batch' = None
    BY <1>1, <1>3, <1>10, FilesInOrder DEF file, BatchHeld
  <2>2. files'.records = r /\ files'.escalations = e /\ files'.manifest = m
    BY <1>12, <2>1 DEF FileNames
  <2>3. files'.manifest # None => ManifestHeld'
    BY <1>1, <1>6, <2>2 DEF ManifestHeld
  <2> QED  BY <1>1, <1>12, <2>1, <2>3 DEF VisualHeld
<1>13. batch.next \in {1, 2, 3, 4}
  <2>1. batch.next \in 1..Len(FileOrder(batch.kind))
    BY <1>1 DEF BatchHeld
  <2>2. Len(FileOrder(batch.kind)) = 3 \/ Len(FileOrder(batch.kind)) = 4
    BY FilesInOrder
  <2>3. batch.next \in 1..3 \/ batch.next \in 1..4
    BY <2>1, <2>2
  <2> QED  BY <2>3
<1> QED  BY <1>7, <1>8, <1>9, <1>10, <1>13

\* A step that leaves the queue and the review alone.
LEMMA ReviewUntouched ==
    ASSUME VisualHeld, UNCHANGED visualVars, queue # None => queue' = queue
    PROVE  VisualHeld'
<1>1. queue = None => batch = None /\ files.manifest = None
  BY DEF VisualHeld, BatchHeld, ManifestHeld
<1>2. CASE queue = None
  BY <1>1, <1>2 DEF VisualHeld, visualVars
<1>3. CASE queue' = queue
  BY <1>3 DEF VisualHeld, BatchHeld, ManifestHeld, visualVars
<1> QED  BY <1>2, <1>3

LEMMA VisualStep ==
    ASSUME TraceHeld, VisualHeld, VisualNext
    PROVE  VisualHeld'
<1>1. ASSUME KillBatch
      PROVE  VisualHeld'
  BY <1>1 DEF KillBatch, VisualHeld, ManifestHeld, traceVars
<1> QED  BY <1>1, BeginStep, ReviewStep, WriteNextStep DEF VisualNext

-----------------------------------------------------------------------------
(* The PNG decoders: what a row was encoded from is the one solution of its    *)
(* recursion.                                                                  *)

Guess(decoder, filter, prior, left, i) ==
    CASE filter = 0 -> 0
      [] filter = 1 -> left
      [] filter = 2 -> prior[i]
      [] filter = 3 -> (left + prior[i]) \div 2
      [] filter = 4 -> IF decoder = "crops" THEN Predictor(left, prior[i], Before(prior, i))
                       ELSE LayoutPredictor(left, prior[i], Before(prior, i))

RowOf(decoder, filter, raw, prior, current) ==
    [i \in DOMAIN raw |->
        (raw[i] + Guess(decoder, filter, prior, IF i >= Channels THEN current[i - Channels] ELSE 0, i)) % ByteSize]

LEMMA DecodedRowIsOne ==
    ASSUME NEW decoder, NEW filter, NEW raw, NEW prior
    PROVE  DecodedRow(decoder, filter, raw, prior) = CHOOSE current : current = RowOf(decoder, filter, raw, prior, current)
  BY Zenon DEF DecodedRow, RowOf, Guess

LEMMA DecodedRowFits ==
    ASSUME NEW decoder, NEW filter, NEW raw, NEW prior, NEW row,
           row = RowOf(decoder, filter, raw, prior, row)
    PROVE  DecodedRow(decoder, filter, raw, prior) = RowOf(decoder, filter, raw, prior, DecodedRow(decoder, filter, raw, prior))
  BY DecodedRowIsOne, Zenon

LEMMA ModuloUndone ==
    ASSUME NEW b \in Nat \ {0}, NEW a \in 0..(b - 1), NEW g \in Int
    PROVE  /\ (a - g) % b \in 0..(b - 1)
           /\ (((a - g) % b) + g) % b = a
<1> DEFINE m == (a - g) % b
           q == (a - g) \div b
<1>1. m \in 0..(b - 1) /\ q \in Int /\ a - g = q * b + m
  OBVIOUS
<1> HIDE DEF m, q
<1> DEFINE r == (m + g) % b
           p == (m + g) \div b
<1>2. r \in 0..(b - 1) /\ p \in Int /\ m + g = p * b + r
  BY <1>1
<1> HIDE DEF r, p
<1>3. a - r = (q + p) * b
  BY <1>1, <1>2
<1>4. \A z \in Int : z * b > -b /\ z * b < b => z = 0
  <2> SUFFICES ASSUME NEW z \in Int, z * b > -b, z * b < b
               PROVE  z = 0
    OBVIOUS
  <2>1. CASE z >= 1
    <3>1. z * b >= 1 * b
      BY <2>1
    <3> QED  BY <3>1
  <2>2. CASE z <= -1
    <3>1. z * b <= (-1) * b
      BY <2>2
    <3> QED  BY <3>1
  <2> QED  BY <2>1, <2>2
<1>5. a = r
  <2>1. a - r > -b /\ a - r < b /\ q + p \in Int
    BY <1>1, <1>2
  <2>2. q + p = 0
    BY <1>3, <1>4, <2>1
  <2> QED  BY <1>2, <1>3, <2>2
<1> QED  BY <1>1, <1>5 DEF m, r

LEMMA LeastIsMin ==
    ASSUME NEW S \in SUBSET Nat, NEW m \in S, \A y \in S : m <= y
    PROVE  Min(S) = m
<1>1. \E x \in S : \A y \in S : x <= y
  OBVIOUS
<1>2. Min(S) \in S /\ \A y \in S : Min(S) <= y
  BY <1>1, Zenon DEF Min
<1>3. Min(S) \in Nat /\ m \in Nat
  BY <1>2
<1> QED  BY <1>2, <1>3

\* The encoder's estimate by the standard and those of the two decoders are one.
LEMMA PredictorsAgree ==
    ASSUME NEW left \in Nat, NEW up \in Nat, NEW corner \in Nat
    PROVE  /\ Predictor(left, up, corner) = Paeth(left, up, corner)
           /\ LayoutPredictor(left, up, corner) = Paeth(left, up, corner)
           /\ Paeth(left, up, corner) \in {left, up, corner}
<1> DEFINE e == left + up - corner
           d == <<Distance(e, left), Distance(e, up), Distance(e, corner)>>
           Nearest(k) == \A j \in 1..3 : d[k] < d[j] \/ (d[k] = d[j] /\ k <= j)
           best == IF d[1] <= d[2] /\ d[1] <= d[3] THEN 1 ELSE IF d[2] <= d[3] THEN 2 ELSE 3
           order == <<left, up, corner>>
<1>1. d[1] \in Nat /\ d[2] \in Nat /\ d[3] \in Nat
  BY DEF Distance
<1>2. /\ Distance(e, order[1]) = d[1] /\ Distance(e, order[2]) = d[2] /\ Distance(e, order[3]) = d[3]
  OBVIOUS
<1>3. Predictor(left, up, corner) = order[best]
  BY DEF Predictor
<1>4. Paeth(left, up, corner) = order[CHOOSE k \in 1..3 : Nearest(k)]
  <2>1. \A k \in 1..3 : Nearest(k) <=>
            \A j \in 1..3 : \/ Distance(e, order[k]) < Distance(e, order[j])
                            \/ (Distance(e, order[k]) = Distance(e, order[j]) /\ k <= j)
    <3> HIDE DEF d, e, order
    <3>1. \A k \in 1..3 : Distance(e, order[k]) = d[k]
      BY <1>2
    <3> QED  BY <3>1
  <2> QED  BY <2>1 DEF Paeth
<1>5. /\ LayoutPredictor(left, up, corner) = order[Min({k \in 1..3 : d[k] = Min({d[j] : j \in 1..3})})]
  BY DEF LayoutPredictor
<1> HIDE DEF d, order
<1>6. best \in 1..3 /\ Nearest(best) /\ \A k \in 1..3 : Nearest(k) => k = best
  BY <1>1
<1> HIDE DEF best
<1>7. (CHOOSE k \in 1..3 : Nearest(k)) = best
  BY <1>6
<1>8. Min({d[j] : j \in 1..3}) = d[best]
  BY <1>1, <1>6, LeastIsMin
<1>9. Min({k \in 1..3 : d[k] = d[best]}) = best
  BY <1>1, <1>6, LeastIsMin
<1>10. order[best] \in {left, up, corner}
  BY <1>6 DEF order
<1> QED  BY <1>3, <1>4, <1>5, <1>7, <1>8, <1>9, <1>10

LEMMA GuessIsTheEncoders ==
    ASSUME NEW decoder, NEW filter \in 0..4, NEW n \in Nat, NEW row \in Rows(n), NEW prior \in Rows(n),
           NEW i \in 0..(n - 1)
    PROVE  LET guess == Guess(decoder, filter, prior, Before(row, i), i)
           IN  /\ guess \in Nat
               /\ EncodedRow(filter, row, prior)[i] = (row[i] - guess) % ByteSize
<1>1. /\ Before(row, i) \in Nat /\ Before(prior, i) \in Nat /\ prior[i] \in Nat /\ DOMAIN row = 0..(n - 1)
  BY ByteAssumption DEF Rows, Bytes, Before
<1> DEFINE left == Before(row, i)
           corner == Before(prior, i)
<1>2. /\ Predictor(left, prior[i], corner) = Paeth(left, prior[i], corner)
      /\ LayoutPredictor(left, prior[i], corner) = Paeth(left, prior[i], corner)
      /\ Paeth(left, prior[i], corner) \in Nat
  BY <1>1, PredictorsAgree
<1> HIDE DEF left, corner
<1>3. (left + prior[i]) \div 2 \in Nat
  BY <1>1 DEF left
<1>4. CASE filter = 4
  BY <1>1, <1>2, <1>4 DEF Guess, EncodedRow, left, corner
<1>5. CASE filter \in {0, 1, 2, 3}
  BY <1>1, <1>3, <1>5 DEF Guess, EncodedRow, left
<1> QED  BY <1>4, <1>5

\* Each decoder undoes the encoder, byte by byte from the left.
LEMMA DecodingUndoesEncoding ==
    ASSUME NEW decoder, NEW filter \in 0..4, NEW n \in Nat, NEW row \in Rows(n), NEW prior \in Rows(n)
    PROVE  DecodedRow(decoder, filter, EncodedRow(filter, row, prior), prior) = row
<1> DEFINE raw == EncodedRow(filter, row, prior)
           current == DecodedRow(decoder, filter, raw, prior)
           Of(left, i) == (raw[i] + Guess(decoder, filter, prior, left, i)) % ByteSize
<1>1. DOMAIN raw = 0..(n - 1) /\ DOMAIN row = 0..(n - 1)
  BY DEF Rows, EncodedRow
<1>2. ASSUME NEW i \in 0..(n - 1)
      PROVE  Of(Before(row, i), i) = row[i]
  <2>1. row[i] \in 0..(ByteSize - 1)
    BY DEF Rows, Bytes
  <2> DEFINE guess == Guess(decoder, filter, prior, Before(row, i), i)
  <2>2. guess \in Nat /\ raw[i] = (row[i] - guess) % ByteSize
    BY GuessIsTheEncoders
  <2> HIDE DEF guess, raw
  <2>3. (((row[i] - guess) % ByteSize) + guess) % ByteSize = row[i]
    <3>1. guess \in Int
      BY <2>2
    <3>2. ByteSize \in Nat \ {0}
      BY ByteAssumption
    <3> QED  BY <2>1, <3>1, <3>2, ModuloUndone
  <2> QED  BY <2>2, <2>3 DEF guess
<1>3. row = RowOf(decoder, filter, raw, prior, row)
  <2>1. RowOf(decoder, filter, raw, prior, row) = [i \in 0..(n - 1) |-> Of(Before(row, i), i)]
    BY <1>1, Zenon DEF RowOf, Before
  <2>2. row = [i \in 0..(n - 1) |-> row[i]]
    BY DEF Rows
  <2> HIDE DEF Of
  <2> QED  BY <1>2, <2>1, <2>2
<1>4. current = RowOf(decoder, filter, raw, prior, current)
  BY <1>3, DecodedRowFits
<1> HIDE DEF raw, current
<1>5. current = [i \in 0..(n - 1) |-> Of(Before(current, i), i)]
  BY <1>1, <1>4, Zenon DEF RowOf, Before
<1> HIDE DEF Of
<1> DEFINE wrong == {i \in 0..(n - 1) : current[i] # row[i]}
<1>6. wrong = {}
  <2> SUFFICES ASSUME wrong # {}
               PROVE  FALSE
    OBVIOUS
  <2>1. PICK x \in wrong : \A y \in wrong : x <= y
    <3>1. wrong \in SUBSET Nat
      OBVIOUS
    <3> QED  BY <3>1, LeastNumber
  <2>2. x >= Channels => x - Channels \in 0..(n - 1) /\ x - Channels \notin wrong
    BY <2>1, ByteAssumption
  <2>3. Before(current, x) = Before(row, x)
    BY <2>2 DEF Before
  <2> QED  BY <1>2, <1>5, <2>1, <2>3
<1>7. current = [i \in 0..(n - 1) |-> current[i]] /\ row = [i \in 0..(n - 1) |-> row[i]]
  BY <1>5 DEF Rows
<1> QED  BY <1>6, <1>7 DEF current, raw

-----------------------------------------------------------------------------
(* Sums over sets of pixels.  The fold of the community modules is a recursive   *)
(* function on the subsets of the set that is summed; Solves is its equation.    *)
First(s) == CHOOSE x \in s : TRUE

Solves(v, D, g) ==
    g = [s \in D |-> IF s = {} THEN 0 ELSE v[First(s)] + g[s \ {First(s)}]]

LEMMA AnyIsOne ==
    ASSUME NEW s, s # {}
    PROVE  First(s) \in s
  BY DEF First

\* The subsets of U with at most n elements.
UpTo(U, n) == {s \in SUBSET U : Cardinality(s) <= n}

LEMMA OneLess ==
    ASSUME NEW U, IsFiniteSet(U), NEW s \in SUBSET U, NEW x \in s
    PROVE  /\ IsFiniteSet(s) /\ Cardinality(s) \in Nat \ {0}
           /\ s \ {x} \in SUBSET U
           /\ IsFiniteSet(s \ {x}) /\ Cardinality(s \ {x}) = Cardinality(s) - 1
<1>1. IsFiniteSet(s)
  BY FS_Subset
<1>2. Cardinality(s) \in Nat /\ Cardinality(s) # 0
  BY <1>1, FS_CardinalityType, FS_EmptySet
<1> QED  BY <1>1, <1>2, FS_RemoveElement

LEMMA SumsExist ==
    ASSUME NEW U, IsFiniteSet(U), NEW v
    PROVE  \E g : Solves(v, SUBSET U, g)
<1> DEFINE Sum(n) == \E g : Solves(v, UpTo(U, n), g)
           N == Cardinality(U)
<1>1. N \in Nat /\ UpTo(U, N) = SUBSET U
  BY FS_CardinalityType, FS_Subset DEF UpTo
<1>2. Sum(0)
  <2>1. UpTo(U, 0) = {{}}
    <3>1. \A s \in SUBSET U : IsFiniteSet(s) /\ Cardinality(s) \in Nat /\ (Cardinality(s) = 0 <=> s = {})
      BY FS_Subset, FS_CardinalityType, FS_EmptySet
    <3> QED  BY <3>1 DEF UpTo
  <2> DEFINE g == [s \in {{}} |-> 0]
  <2>2. Solves(v, UpTo(U, 0), g)
    BY <2>1 DEF Solves
  <2> QED  BY <2>2
<1>3. ASSUME NEW n \in Nat, Sum(n)
      PROVE  Sum(n + 1)
  <2>1. PICK g : Solves(v, UpTo(U, n), g)
    BY <1>3
  <2> DEFINE h == [s \in UpTo(U, n + 1) |-> IF s = {} THEN 0 ELSE v[First(s)] + g[s \ {First(s)}]]
  <2>2. \A s \in UpTo(U, n + 1) : s # {} => s \ {First(s)} \in UpTo(U, n)
    BY AnyIsOne, OneLess DEF UpTo
  <2>3. \A s \in UpTo(U, n) : g[s] = IF s = {} THEN 0 ELSE v[First(s)] + g[s \ {First(s)}]
    BY <2>1 DEF Solves
  <2>4. \A s \in UpTo(U, n) : s \in UpTo(U, n + 1)
    <3>1. \A s \in SUBSET U : Cardinality(s) \in Nat
      BY FS_Subset, FS_CardinalityType
    <3> QED  BY <3>1 DEF UpTo
  <2>5. \A s \in UpTo(U, n) : h[s] = g[s]
    BY <2>3, <2>4
  <2>6. h = [s \in UpTo(U, n + 1) |-> IF s = {} THEN 0 ELSE v[First(s)] + h[s \ {First(s)}]]
    <3>1. \A s \in UpTo(U, n + 1) : s # {} => h[s \ {First(s)}] = g[s \ {First(s)}]
      BY <2>2, <2>5
    <3> QED  BY <3>1
  <2> QED  BY <2>6 DEF Solves
<1> HIDE DEF Sum
<1>4. \A n \in Nat : Sum(n)
  <2> DEFINE without == {n \in Nat : ~Sum(n)}
  <2> SUFFICES ASSUME without # {}
               PROVE  FALSE
    OBVIOUS
  <2>1. PICK n \in without : \A m \in without : n <= m
    <3>1. without \in SUBSET Nat
      OBVIOUS
    <3> QED  BY <3>1, LeastNumber
  <2>2. n # 0 /\ n - 1 \in Nat /\ n - 1 \notin without
    BY <1>2, <2>1
  <2> QED  BY <1>3, <2>1, <2>2
<1> QED  BY <1>1, <1>4 DEF Sum

Sums(v, U) == CHOOSE g : Solves(v, SUBSET U, g)
Total(v, U) == Sums(v, U)[U]

LEMMA SumsSolve ==
    ASSUME NEW U, IsFiniteSet(U), NEW v
    PROVE  Solves(v, SUBSET U, Sums(v, U))
  BY SumsExist, Zenon DEF Sums

\* Two solutions agree where both are.
LEMMA SumsAreOne ==
    ASSUME NEW U, IsFiniteSet(U), NEW W, IsFiniteSet(W), NEW v, NEW w, NEW g, NEW h,
           Solves(v, SUBSET U, g), Solves(w, SUBSET W, h),
           \A x \in U \cap W : v[x] = w[x],
           NEW s \in SUBSET (U \cap W)
    PROVE  g[s] = h[s]
<1> DEFINE wrong == {Cardinality(t) : t \in {u \in SUBSET (U \cap W) : g[u] # h[u]}}
<1>1. \A t \in SUBSET (U \cap W) : IsFiniteSet(t) /\ Cardinality(t) \in Nat
  BY FS_Subset, FS_CardinalityType
<1> SUFFICES ASSUME wrong # {}
             PROVE  FALSE
  OBVIOUS
<1>2. PICK n \in wrong : \A m \in wrong : n <= m
  <2>1. wrong \in SUBSET Nat
    BY <1>1
  <2> QED  BY <2>1, LeastNumber
<1>3. PICK t \in SUBSET (U \cap W) : g[t] # h[t] /\ Cardinality(t) = n
  BY <1>2
<1>4. t # {}
  BY <1>3 DEF Solves
<1> DEFINE x == First(t)
           rest == t \ {x}
<1>5. x \in t
  BY <1>4, AnyIsOne
<1>6. rest \in SUBSET (U \cap W) /\ Cardinality(rest) = n - 1 /\ n \in Nat
  BY <1>1, <1>3, <1>5, OneLess
<1>7. g[rest] = h[rest]
  BY <1>2, <1>6
<1>8. g[t] = v[x] + g[rest] /\ h[t] = w[x] + h[rest]
  BY <1>3, <1>4 DEF Solves
<1> QED  BY <1>3, <1>5, <1>7, <1>8

LEMMA TotalOfNothing ==
    ASSUME NEW v
    PROVE  Total(v, {}) = 0
<1>1. Solves(v, SUBSET {}, Sums(v, {}))
  BY FS_EmptySet, SumsSolve
<1> QED  BY <1>1 DEF Solves, Total

LEMMA TotalByAny ==
    ASSUME NEW U, IsFiniteSet(U), U # {}, NEW v
    PROVE  Total(v, U) = v[First(U)] + Total(v, U \ {First(U)})
<1> DEFINE W == U \ {First(U)}
           g == Sums(v, U)
           h == Sums(v, W)
<1>1. IsFiniteSet(W) /\ W \in SUBSET (U \cap W)
  BY FS_Subset
<1>2. Solves(v, SUBSET U, g) /\ Solves(v, SUBSET W, h)
  BY <1>1, SumsSolve
<1> HIDE DEF g, h, W
<1>3. g[W] = h[W]
  <2>1. \A x \in U \cap W : v[x] = v[x]
    OBVIOUS
  <2> QED  BY <1>1, <1>2, <2>1, SumsAreOne
<1>4. g[U] = v[First(U)] + g[W]
  BY <1>2 DEF Solves, W
<1> QED  BY <1>3, <1>4 DEF Total, g, h, W

\* The two sums of one set with the same values.
LEMMA TotalOfTheSame ==
    ASSUME NEW U, IsFiniteSet(U), NEW v, NEW w, \A x \in U : v[x] = w[x]
    PROVE  Total(v, U) = Total(w, U)
<1> DEFINE g == Sums(v, U)
           h == Sums(w, U)
<1>1. Solves(v, SUBSET U, g) /\ Solves(w, SUBSET U, h) /\ U \in SUBSET (U \cap U)
  BY SumsSolve
<1> HIDE DEF g, h
<1>2. g[U] = h[U]
  BY <1>1, SumsAreOne
<1> QED  BY <1>2 DEF Total, g, h

\* Any element may be added last.
LEMMA TotalByOne ==
    ASSUME NEW U, IsFiniteSet(U), NEW v, \A x \in U : v[x] \in Int
    PROVE  /\ Total(v, U) \in Int
           /\ \A p \in U : Total(v, U) = v[p] + Total(v, U \ {p})
<1> DEFINE Good(t) == Total(v, t) \in Int /\ \A p \in t : Total(v, t) = v[p] + Total(v, t \ {p})
           wrong == {Cardinality(t) : t \in {u \in SUBSET U : ~Good(u)}}
<1>1. \A t \in SUBSET U : IsFiniteSet(t) /\ Cardinality(t) \in Nat
  BY FS_Subset, FS_CardinalityType
<1> SUFFICES ASSUME wrong # {}
             PROVE  FALSE
  OBVIOUS
<1> HIDE DEF Good
<1>2. PICK n \in wrong : \A m \in wrong : n <= m
  <2>1. wrong \in SUBSET Nat
    BY <1>1
  <2> QED  BY <2>1, LeastNumber
<1>3. PICK t \in SUBSET U : ~Good(t) /\ Cardinality(t) = n
  BY <1>2
<1>4. \A p \in t : t \ {p} \in SUBSET U /\ Good(t \ {p})
  <2> SUFFICES ASSUME NEW p \in t
               PROVE  t \ {p} \in SUBSET U /\ Good(t \ {p})
    OBVIOUS
  <2>1. t \ {p} \in SUBSET U /\ Cardinality(t \ {p}) = n - 1 /\ n \in Nat
    BY <1>1, <1>3, OneLess
  <2> QED  BY <1>2, <2>1
<1>5. t # {}
  <2>1. Total(v, {}) \in Int
    BY TotalOfNothing
  <2> QED  BY <1>3, <2>1 DEF Good
<1> DEFINE a == First(t)
<1>6. a \in t /\ Total(v, t) = v[a] + Total(v, t \ {a})
  BY <1>1, <1>5, AnyIsOne, TotalByAny
<1> HIDE DEF a
<1>7. Total(v, t \ {a}) \in Int /\ Total(v, t) \in Int
  BY <1>4, <1>6 DEF Good
<1>8. ASSUME NEW p \in t, p # a
      PROVE  Total(v, t) = v[p] + Total(v, t \ {p})
  <2> DEFINE rest == (t \ {a}) \ {p}
  <2>1. Total(v, t \ {a}) = v[p] + Total(v, rest)
    BY <1>4, <1>6, <1>8 DEF Good
  <2>2. rest = (t \ {p}) \ {a}
    OBVIOUS
  <2> HIDE DEF rest
  <2>3. Total(v, t \ {p}) = v[a] + Total(v, rest)
    BY <1>4, <1>6, <1>8, <2>2 DEF Good
  <2>4. Total(v, rest) \in Int
    <3>1. rest \in SUBSET U /\ rest = (t \ {p}) \ {a} /\ t \ {p} \in SUBSET U /\ a \in t \ {p}
      BY <1>6, <1>8, <2>2
    <3>2. Cardinality(rest) = n - 2 /\ n \in Nat
      <4>1. Cardinality(t \ {p}) = n - 1 /\ n \in Nat
        BY <1>1, <1>3, OneLess
      <4>2. Cardinality(rest) = Cardinality(t \ {p}) - 1
        BY <3>1, OneLess
      <4> QED  BY <4>1, <4>2
    <3>3. Good(rest)
      BY <1>2, <3>1, <3>2
    <3> QED  BY <3>3 DEF Good
  <2> QED  BY <1>6, <2>1, <2>3, <2>4
<1> QED  BY <1>3, <1>6, <1>7, <1>8 DEF Good

LEMMA TotalOfTwo ==
    ASSUME NEW U, IsFiniteSet(U), NEW v, \A x \in U : v[x] \in Int,
           NEW A \in SUBSET U, NEW B \in SUBSET U, A \cap B = {}
    PROVE  Total(v, A \cup B) = Total(v, A) + Total(v, B)
<1> DEFINE Good(t) == Total(v, A \cup t) = Total(v, A) + Total(v, t)
           wrong == {Cardinality(t) : t \in {u \in SUBSET B : ~Good(u)}}
<1>1. \A t \in SUBSET U : IsFiniteSet(t) /\ Cardinality(t) \in Nat /\ Total(v, t) \in Int
  BY FS_Subset, FS_CardinalityType, TotalByOne
<1> SUFFICES ASSUME wrong # {}
             PROVE  FALSE
  OBVIOUS
<1>2. PICK n \in wrong : \A m \in wrong : n <= m
  <2>1. wrong \in SUBSET Nat
    BY <1>1
  <2> HIDE DEF wrong
  <2> QED  BY <2>1, LeastNumber
<1> HIDE DEF Good
<1>3. PICK t \in SUBSET B : ~Good(t) /\ Cardinality(t) = n
  BY <1>2
<1>4. t # {}
  <2>1. A \cup {} = A /\ Total(v, A) \in Int
    BY <1>1
  <2>2. Good({})
    BY <2>1, TotalOfNothing DEF Good
  <2> QED  BY <1>3, <2>2
<1>5. PICK p : p \in t
  BY <1>4
<1>6. Good(t \ {p})
  <2>1. t \ {p} \in SUBSET B /\ Cardinality(t \ {p}) = n - 1 /\ n \in Nat
    BY <1>1, <1>3, <1>5, OneLess
  <2> QED  BY <1>2, <2>1
<1>7. Total(v, t) = v[p] + Total(v, t \ {p})
  <2>1. t \in SUBSET U
    OBVIOUS
  <2> QED  BY <1>1, <1>5, <2>1, TotalByOne
<1>8. Total(v, A \cup t) = v[p] + Total(v, A \cup (t \ {p}))
  <2>1. A \cup t \in SUBSET U /\ p \in A \cup t
    BY <1>5
  <2>2. (A \cup t) \ {p} = A \cup (t \ {p})
    BY <1>5
  <2> QED  BY <1>1, <2>1, <2>2, TotalByOne
<1>9. v[p] \in Int /\ Total(v, A) \in Int /\ Total(v, t \ {p}) \in Int
  <2>1. t \ {p} \in SUBSET U /\ p \in U
    BY <1>5
  <2> QED  BY <1>1, <2>1
<1>10. Good(t)
  BY <1>6, <1>7, <1>8, <1>9 DEF Good
<1> QED  BY <1>3, <1>10

-----------------------------------------------------------------------------
(* A picture has h rows of w pixels; its pixels are <<x, y>>. *)
Area(left, top, right, bottom) == (left..(right - 1)) \X (top..(bottom - 1))
Values(pixels, U) == [p \in U |-> At(pixels, p[1], p[2])]
Pictures(w, h) == [1..h -> Rows(w)]

LEMMA LengthOfInterval ==
    ASSUME NEW a \in Nat, NEW b \in Nat, a <= b
    PROVE  IsFiniteSet(a..(b - 1)) /\ Cardinality(a..(b - 1)) = b - a
<1> DEFINE last == b - 1
<1>1. a \in Int /\ last \in Int /\ last = b - 1
  OBVIOUS
<1> HIDE DEF last
<1>2. IsFiniteSet(a..last) /\ Cardinality(a..last) = IF a > last THEN 0 ELSE last - a + 1
  BY <1>1, FS_Interval
<1> QED  BY <1>1, <1>2

LEMMA AreaOfBox ==
    ASSUME NEW left \in Nat, NEW top \in Nat, NEW right \in Nat, NEW bottom \in Nat, left <= right, top <= bottom
    PROVE  /\ IsFiniteSet(Area(left, top, right, bottom))
           /\ Cardinality(Area(left, top, right, bottom)) = (right - left) * (bottom - top)
<1>1. /\ IsFiniteSet(left..(right - 1)) /\ Cardinality(left..(right - 1)) = right - left
      /\ IsFiniteSet(top..(bottom - 1)) /\ Cardinality(top..(bottom - 1)) = bottom - top
  BY LengthOfInterval
<1> QED  BY <1>1, FS_Product DEF Area

LEMMA PictureSize ==
    ASSUME NEW w \in Nat \ {0}, NEW h \in Nat \ {0}, NEW pixels \in Pictures(w, h)
    PROVE  /\ Height(pixels) = h /\ Width(pixels) = w
           /\ DOMAIN pixels = 1..h /\ \A r \in 1..h : DOMAIN pixels[r] = 0..(w - 1)
           /\ \A r \in 1..h, x \in 0..(w - 1) : pixels[r][x] \in Bytes
           /\ \A x \in 0..(w - 1), y \in 0..(h - 1) : At(pixels, x, y) \in Bytes
<1>1. pixels = [r \in 1..h |-> pixels[r]] /\ \A r \in 1..h : pixels[r] \in Rows(w)
  BY DEF Pictures
<1>2. \A r \in 1..h : DOMAIN pixels[r] = 0..(w - 1) /\ \A x \in 0..(w - 1) : pixels[r][x] \in Bytes
  BY <1>1 DEF Rows
<1>3. Len(pixels) = h
  BY <1>1
<1>4. Cardinality(0..(w - 1)) = w
  BY FS_Interval
<1> QED  BY <1>1, <1>2, <1>3, <1>4 DEF Height, Width, At

\* The fold that the property sums with is Total.
LEMMA FoldIsTotal ==
    ASSUME NEW pixels, NEW U, IsFiniteSet(U)
    PROVE  MapThenSumSet(LAMBDA p : At(pixels, p[1], p[2]), U) = Total(Values(pixels, U), U)
<1> DEFINE Folds(g) ==
              g = [s \in SUBSET U |->
                      IF s = {} THEN 0
                      ELSE At(pixels, (CHOOSE x \in s : TRUE)[1], (CHOOSE x \in s : TRUE)[2])
                              + g[s \ {CHOOSE x \in s : TRUE}]]
           fold == CHOOSE g : Folds(g)
           v == Values(pixels, U)
<1>1. MapThenSumSet(LAMBDA p : At(pixels, p[1], p[2]), U) = fold[U]
  BY Zenon DEF MapThenSumSet, MapThenFoldSet
<1>2. \A g : Folds(g) <=> Solves(v, SUBSET U, g)
  <2> SUFFICES ASSUME NEW g
               PROVE  Folds(g) <=> Solves(v, SUBSET U, g)
    OBVIOUS
  <2>1. ASSUME NEW s \in SUBSET U, s # {}
        PROVE  At(pixels, First(s)[1], First(s)[2]) = v[First(s)]
    <3>1. First(s) \in U
      BY <2>1, AnyIsOne
    <3> HIDE DEF First
    <3> QED  BY <3>1 DEF Values
  <2>2. Folds(g) <=> g = [s \in SUBSET U |->
                            IF s = {} THEN 0 ELSE At(pixels, First(s)[1], First(s)[2]) + g[s \ {First(s)}]]
    BY Zenon DEF First
  <2> HIDE DEF Folds, v
  <2> QED  BY <2>1, <2>2 DEF Solves
<1> HIDE DEF v
<1>3. Folds(fold)
  <2> HIDE DEF Folds
  <2>1. \E g : Folds(g)
    BY <1>2, SumsExist
  <2> QED  BY <2>1, Zenon
<1> HIDE DEF fold, Folds
<1>4. Solves(v, SUBSET U, fold) /\ Solves(v, SUBSET U, Sums(v, U)) /\ U \in SUBSET (U \cap U)
  BY <1>2, <1>3, SumsSolve
<1>5. fold[U] = Sums(v, U)[U]
  BY <1>4, SumsAreOne
<1> QED  BY <1>1, <1>5 DEF Total, v

\* A row's sums are of its pixels up to each.
LEMMA RowSumsAreTotals ==
    ASSUME NEW w \in Nat \ {0}, NEW h \in Nat \ {0}, NEW pixels \in Pictures(w, h), NEW y \in 0..(h - 1)
    PROVE  /\ DOMAIN RowSums(pixels, y) = 0..w
           /\ \A x \in 0..w : RowSums(pixels, y)[x] = Total(Values(pixels, Area(0, 0, w, h)), Area(0, y, x, y + 1))
<1> DEFINE v == Values(pixels, Area(0, 0, w, h))
           T(x) == Total(v, Area(0, y, x, y + 1))
           Rec(f) == f = [x \in 0..Width(pixels) |-> IF x = 0 THEN 0 ELSE f[x - 1] + At(pixels, x - 1, y)]
<1>1. \A p \in Area(0, 0, w, h) : v[p] = At(pixels, p[1], p[2]) /\ v[p] \in Int
  BY PictureSize, ByteAssumption DEF Values, Area, Bytes
<1>2. T(0) = 0
  <2>1. Area(0, y, 0, y + 1) = {}
    BY DEF Area
  <2> QED  BY <2>1, TotalOfNothing
<1>3. ASSUME NEW x \in 1..w
      PROVE  T(x) = T(x - 1) + At(pixels, x - 1, y)
  <2> DEFINE U == Area(0, y, x, y + 1)
             p == <<x - 1, y>>
  <2>1. IsFiniteSet(U) /\ U \in SUBSET Area(0, 0, w, h)
    <3>1. IsFiniteSet(U)
      BY AreaOfBox
    <3> QED  BY <3>1 DEF Area
  <2>2. p \in U /\ U \ {p} = Area(0, y, x - 1, y + 1)
    BY DEF Area
  <2>3. v[p] = At(pixels, x - 1, y)
    BY <1>1, <2>1, <2>2
  <2> HIDE DEF U, v, p
  <2>4. Total(v, U) = v[p] + Total(v, U \ {p}) /\ Total(v, U) \in Int
    BY <1>1, <2>1, <2>2, TotalByOne
  <2>5. Total(v, U \ {p}) \in Int /\ v[p] \in Int
    <3>1. U \ {p} \in SUBSET U /\ IsFiniteSet(U \ {p})
      BY <2>1, FS_Subset
    <3> QED  BY <1>1, <2>1, <2>2, <3>1, TotalByOne
  <2> QED  BY <2>2, <2>3, <2>4, <2>5 DEF U
<1> HIDE DEF T
<1>4. Rec([x \in 0..w |-> T(x)])
  <2>1. Width(pixels) = w
    BY PictureSize
  <2> QED  BY <1>2, <1>3, <2>1
<1>5. RowSums(pixels, y) = CHOOSE f : Rec(f)
  BY Zenon DEF RowSums
<1> DEFINE f == RowSums(pixels, y)
<1>6. Rec(f)
  <2> HIDE DEF Rec
  <2> QED  BY <1>4, <1>5, Zenon
<1>9. f = [x \in 0..w |-> IF x = 0 THEN 0 ELSE f[x - 1] + At(pixels, x - 1, y)]
  <2>1. Width(pixels) = w
    BY PictureSize
  <2> HIDE DEF f
  <2> QED  BY <1>6, <2>1
<1> HIDE DEF f
<1> DEFINE wrong == {x \in 0..w : f[x] # T(x)}
<1>7. wrong = {}
  <2> SUFFICES ASSUME wrong # {}
               PROVE  FALSE
    OBVIOUS
  <2>1. PICK x \in wrong : \A z \in wrong : x <= z
    <3>1. wrong \in SUBSET Nat
      OBVIOUS
    <3> QED  BY <3>1, LeastNumber
  <2>2. x # 0
    BY <1>2, <1>9, <2>1
  <2>3. f[x - 1] = T(x - 1)
    BY <2>1, <2>2
  <2> QED  BY <1>3, <1>9, <2>1, <2>2, <2>3
<1>8. DOMAIN f = 0..w
  BY <1>9
<1> QED  BY <1>7, <1>8 DEF f, T

\* The integral's entry is the sum of all pixels above and to the left of it.
LEMMA IntegralIsTotals ==
    ASSUME NEW w \in Nat \ {0}, NEW h \in Nat \ {0}, NEW pixels \in Pictures(w, h), NEW y \in 0..h
    PROVE  \A x \in 0..w : Integral(pixels)[y][x] = Total(Values(pixels, Area(0, 0, w, h)), Area(0, 0, x, y))
<1> DEFINE v == Values(pixels, Area(0, 0, w, h))
           T(z) == [x \in 0..w |-> Total(v, Area(0, 0, x, z))]
           Zeros == [x \in 0..Width(pixels) |-> 0]
           Added(old, z) == [x \in 0..Width(pixels) |-> old[x] + RowSums(pixels, z - 1)[x]]
           Rec(f) == f = [z \in 0..Height(pixels) |-> IF z = 0 THEN Zeros ELSE Added(f[z - 1], z)]
<1>0. Width(pixels) = w /\ Height(pixels) = h
  BY PictureSize
<1>1. \A p \in Area(0, 0, w, h) : v[p] \in Int
  BY PictureSize, ByteAssumption DEF Values, Area, Bytes
<1>2. T(0) = Zeros
  <2>1. \A x \in 0..w : Area(0, 0, x, 0) = {}
    BY DEF Area
  <2> HIDE DEF v
  <2>2. \A x \in 0..w : Total(v, Area(0, 0, x, 0)) = 0
    BY <2>1, TotalOfNothing
  <2> QED  BY <1>0, <2>2
<1>3. ASSUME NEW z \in 1..h
      PROVE  T(z) = Added(T(z - 1), z)
  <2> SUFFICES ASSUME NEW x \in 0..w
               PROVE  Total(v, Area(0, 0, x, z)) = Total(v, Area(0, 0, x, z - 1)) + RowSums(pixels, z - 1)[x]
    BY <1>0
  <2>1. RowSums(pixels, z - 1)[x] = Total(v, Area(0, z - 1, x, z))
    <3>1. z - 1 \in 0..(h - 1) /\ z - 1 + 1 = z
      OBVIOUS
    <3> QED  BY <3>1, RowSumsAreTotals
  <2> DEFINE A == Area(0, 0, x, z - 1)
             B == Area(0, z - 1, x, z)
  <2>2. /\ A \cup B = Area(0, 0, x, z) /\ A \cap B = {}
        /\ A \in SUBSET Area(0, 0, w, h) /\ B \in SUBSET Area(0, 0, w, h)
    BY DEF Area
  <2>3. IsFiniteSet(Area(0, 0, w, h))
    BY AreaOfBox
  <2> HIDE DEF v, A, B
  <2>4. Total(v, A \cup B) = Total(v, A) + Total(v, B)
    BY <1>1, <2>2, <2>3, TotalOfTwo
  <2> QED  BY <2>1, <2>2, <2>4 DEF A, B
<1> HIDE DEF T, Zeros, Added
<1>4. Rec([z \in 0..h |-> T(z)])
  BY <1>0, <1>2, <1>3
<1>5. Integral(pixels) = CHOOSE f : Rec(f)
  BY Zenon DEF Integral, Zeros, Added
<1> DEFINE f == Integral(pixels)
<1>6. Rec(f)
  <2> HIDE DEF Rec
  <2> QED  BY <1>4, <1>5, Zenon
<1>7. f = [z \in 0..h |-> IF z = 0 THEN Zeros ELSE Added(f[z - 1], z)]
  <2> HIDE DEF f
  <2> QED  BY <1>0, <1>6
<1> HIDE DEF f
<1> DEFINE wrong == {z \in 0..h : f[z] # T(z)}
<1>8. wrong = {}
  <2> SUFFICES ASSUME wrong # {}
               PROVE  FALSE
    OBVIOUS
  <2>1. PICK z \in wrong : \A u \in wrong : z <= u
    <3>1. wrong \in SUBSET Nat
      OBVIOUS
    <3> QED  BY <3>1, LeastNumber
  <2>2. z # 0
    BY <1>2, <1>7, <2>1
  <2>3. f[z - 1] = T(z - 1)
    BY <2>1, <2>2
  <2> QED  BY <1>3, <1>7, <2>1, <2>2, <2>3
<1> QED  BY <1>8 DEF f, T

\* Four entries of the integral give the sum of a box.
LEMMA BoxOfIntegral ==
    ASSUME NEW w \in Nat \ {0}, NEW h \in Nat \ {0}, NEW pixels \in Pictures(w, h),
           NEW left \in 0..w, NEW right \in 0..w, NEW top \in 0..h, NEW bottom \in 0..h,
           left <= right, top <= bottom
    PROVE  Integral(pixels)[bottom][right] - Integral(pixels)[top][right]
               - Integral(pixels)[bottom][left] + Integral(pixels)[top][left]
             = Total(Values(pixels, Area(0, 0, w, h)), Area(left, top, right, bottom))
<1> DEFINE U == Area(0, 0, w, h)
           v == Values(pixels, U)
           sum == Integral(pixels)
           box == Area(left, top, right, bottom)
           beside == Area(0, top, left, bottom)
           above == Area(0, 0, right, top)
           corner == Area(0, 0, left, top)
<1>1. /\ sum[bottom][right] = Total(v, Area(0, 0, right, bottom))
      /\ sum[top][right] = Total(v, above)
      /\ sum[bottom][left] = Total(v, Area(0, 0, left, bottom))
      /\ sum[top][left] = Total(v, corner)
  BY IntegralIsTotals
<1>2. /\ Area(0, 0, right, bottom) = above \cup (beside \cup box)
      /\ Area(0, 0, left, bottom) = corner \cup beside
      /\ above \cap (beside \cup box) = {} /\ beside \cap box = {} /\ corner \cap beside = {}
  BY DEF Area
<1>3. /\ above \in SUBSET U /\ beside \in SUBSET U /\ box \in SUBSET U /\ corner \in SUBSET U
      /\ IsFiniteSet(U)
  <2>1. IsFiniteSet(U)
    BY AreaOfBox
  <2> QED  BY <2>1 DEF Area
<1>4. \A p \in U : v[p] \in Int
  BY PictureSize, ByteAssumption DEF Values, Area, Bytes
<1> HIDE DEF U, v, sum, box, beside, above, corner
<1>5. Total(v, above \cup (beside \cup box)) = Total(v, above) + Total(v, beside \cup box)
  BY <1>2, <1>3, <1>4, TotalOfTwo
<1>6. Total(v, beside \cup box) = Total(v, beside) + Total(v, box)
  BY <1>2, <1>3, <1>4, TotalOfTwo
<1>7. Total(v, corner \cup beside) = Total(v, corner) + Total(v, beside)
  BY <1>2, <1>3, <1>4, TotalOfTwo
<1>8. \A S \in SUBSET U : Total(v, S) \in Int
  <2> SUFFICES ASSUME NEW S \in SUBSET U
               PROVE  Total(v, S) \in Int
    OBVIOUS
  <2>1. IsFiniteSet(S) /\ \A p \in S : v[p] \in Int
    BY <1>3, <1>4, FS_Subset
  <2> QED  BY <2>1, TotalByOne
<1>9. /\ Total(v, above) \in Int /\ Total(v, beside) \in Int /\ Total(v, box) \in Int /\ Total(v, corner) \in Int
  BY <1>3, <1>8
<1>10. sum[bottom][right] = Total(v, above) + (Total(v, beside) + Total(v, box))
  BY <1>1, <1>2, <1>5, <1>6
<1>11. sum[bottom][left] = Total(v, corner) + Total(v, beside)
  BY <1>1, <1>2, <1>7
<1>12. sum[bottom][right] - sum[top][right] - sum[bottom][left] + sum[top][left] = Total(v, box)
  BY <1>1, <1>9, <1>10, <1>11
<1> QED  BY <1>12 DEF U, v, sum, box

Around(w, h, x, y) ==
    {p \in (0..(w - 1)) \X (0..(h - 1)) : Distance(p[1], x) <= Radius /\ Distance(p[2], y) <= Radius}

\* The window of the code, cut at the picture's edges, is what is near.
LEMMA WindowIsAround ==
    ASSUME NEW w \in Nat \ {0}, NEW h \in Nat \ {0}, NEW pixels \in Pictures(w, h),
           NEW x \in 0..(w - 1), NEW y \in 0..(h - 1)
    PROVE  LET win == Window(pixels, x, y)
           IN  /\ win.left \in 0..w /\ win.right \in 0..w /\ win.left <= win.right
               /\ win.top \in 0..h /\ win.bottom \in 0..h /\ win.top <= win.bottom
               /\ Area(win.left, win.top, win.right, win.bottom) = Around(w, h, x, y)
<1> DEFINE win == Window(pixels, x, y)
<1>1. Height(pixels) = h /\ Width(pixels) = w
  BY PictureSize
<1>2. /\ win.top = Larger(0, y - Radius) /\ win.left = Larger(0, x - Radius)
      /\ win.bottom = Smaller(h, y + Radius + 1) /\ win.right = Smaller(w, x + Radius + 1)
  BY <1>1 DEF Window
<1> HIDE DEF win
<1>3. /\ win.left \in 0..w /\ win.right \in 0..w /\ win.left <= win.right
      /\ win.top \in 0..h /\ win.bottom \in 0..h /\ win.top <= win.bottom
  BY <1>2, ByteAssumption DEF Larger, Smaller
<1>4. \A a \in Int : a \in win.left..(win.right - 1) <=> a \in 0..(w - 1) /\ Distance(a, x) <= Radius
  BY <1>2, <1>3, ByteAssumption DEF Larger, Smaller, Distance
<1>5. \A a \in Int : a \in win.top..(win.bottom - 1) <=> a \in 0..(h - 1) /\ Distance(a, y) <= Radius
  BY <1>2, <1>3, ByteAssumption DEF Larger, Smaller, Distance
<1>6. Area(win.left, win.top, win.right, win.bottom) = Around(w, h, x, y)
  <2> DEFINE A == win.left..(win.right - 1)
             B == win.top..(win.bottom - 1)
  <2>1. A = {a \in 0..(w - 1) : Distance(a, x) <= Radius}
    BY <1>3, <1>4
  <2>2. B = {a \in 0..(h - 1) : Distance(a, y) <= Radius}
    BY <1>3, <1>5
  <2> HIDE DEF A, B
  <2>3. A \X B = Around(w, h, x, y)
    BY <2>1, <2>2 DEF Around
  <2> QED  BY <2>3 DEF Area, A, B
<1> QED  BY <1>3, <1>6 DEF win

\* A pixel of the thresholded picture is white just when it is as bright as its
\* neighbourhood, but for the bias.
LEMMA ThresholdIsOfTheMean ==
    ASSUME NEW w \in Nat \ {0}, NEW h \in Nat \ {0}, NEW pixels \in Pictures(w, h),
           NEW r \in 1..h, NEW x \in 0..(w - 1)
    PROVE  /\ Threshold(pixels)[r][x] \in Bytes
           /\ Threshold(pixels)[r][x] = (ByteSize - 1) <=>
                  Cardinality(Around(w, h, x, r - 1)) * (pixels[r][x] + Bias)
                      >= MapThenSumSet(LAMBDA p : At(pixels, p[1], p[2]), Around(w, h, x, r - 1))
<1> DEFINE near == Around(w, h, x, r - 1)
           win == Window(pixels, x, r - 1)
           sum == Integral(pixels)
           total == sum[win.bottom][win.right] - sum[win.top][win.right] - sum[win.bottom][win.left] + sum[win.top][win.left]
           area == (win.bottom - win.top) * (win.right - win.left)
           fold == MapThenSumSet(LAMBDA p : At(pixels, p[1], p[2]), near)
           U == Area(0, 0, w, h)
<1>0. r - 1 \in 0..(h - 1)
  OBVIOUS
<1>1. /\ win.left \in 0..w /\ win.right \in 0..w /\ win.left <= win.right
      /\ win.top \in 0..h /\ win.bottom \in 0..h /\ win.top <= win.bottom
      /\ Area(win.left, win.top, win.right, win.bottom) = near
  BY <1>0, WindowIsAround
<1>2. IsFiniteSet(near) /\ Cardinality(near) = area
  <2> HIDE DEF near, win
  <2>1. /\ win.left \in Nat /\ win.right \in Nat /\ win.top \in Nat /\ win.bottom \in Nat
        /\ (win.right - win.left) * (win.bottom - win.top) = area
    BY <1>1
  <2> HIDE DEF area
  <2> QED  BY <1>1, <2>1, AreaOfBox
<1>3. total = fold
  <2>1. total = Total(Values(pixels, U), near)
    <3> HIDE DEF near, win
    <3> QED  BY <1>1, BoxOfIntegral
  <2>2. near \in SUBSET U
    BY DEF Around, Area
  <2> HIDE DEF near
  <2>3. fold = Total(Values(pixels, near), near)
    BY <1>2, FoldIsTotal, Zenon
  <2>4. \A p \in near : Values(pixels, near)[p] = Values(pixels, U)[p]
    BY <2>2 DEF Values
  <2>5. Total(Values(pixels, near), near) = Total(Values(pixels, U), near)
    BY <1>2, <2>4, TotalOfTheSame
  <2> HIDE DEF total, fold
  <2> QED  BY <2>1, <2>3, <2>5
<1>4. DOMAIN pixels = 1..h /\ DOMAIN pixels[r] = 0..(w - 1) /\ At(pixels, x, r - 1) = pixels[r][x] /\ pixels[r][x] \in Int
  BY PictureSize, ByteAssumption DEF At, Bytes
<1>5. Threshold(pixels)[r][x] = IF (pixels[r][x] + Bias) * area >= total THEN ByteSize - 1 ELSE 0
  <2>1. Threshold(pixels)[r][x] = IF (At(pixels, x, r - 1) + Bias) * area >= total THEN ByteSize - 1 ELSE 0
    <3> HIDE DEF total, area
    <3>1. Threshold(pixels) = [s \in DOMAIN pixels |-> [z \in DOMAIN pixels[s] |-> Threshold(pixels)[s][z]]]
      BY DEF Threshold
    <3> QED  BY <1>4 DEF Threshold, total, area
  <2> QED  BY <1>4, <2>1
<1>6. area \in Int
  BY <1>1
<1> HIDE DEF total, area, fold, near
<1>7. area * (pixels[r][x] + Bias) = (pixels[r][x] + Bias) * area
  BY <1>4, <1>6, ByteAssumption
<1>8. /\ Threshold(pixels)[r][x] \in Bytes
      /\ Threshold(pixels)[r][x] = (ByteSize - 1) <=> Cardinality(near) * (pixels[r][x] + Bias) >= fold
  BY <1>2, <1>3, <1>5, <1>7, ByteAssumption DEF Bytes
<1> QED  BY <1>8 DEF fold, near

-----------------------------------------------------------------------------
(* The transforms give pictures. *)

LEMMA ResizedIsAPicture ==
    ASSUME NEW w \in Nat \ {0}, NEW h \in Nat \ {0}, NEW pixels \in Pictures(w, h), NEW factor \in Nat \ {0}
    PROVE  /\ Resized(pixels, factor) \in Pictures(w * factor, h * factor)
           /\ w * factor \in Nat \ {0} /\ h * factor \in Nat \ {0}
<1>1. w * factor \in Nat \ {0} /\ h * factor \in Nat \ {0}
  OBVIOUS
<1>2. \A n \in Nat \ {0} : \A x \in 0..(n * factor - 1) : x \div factor \in 0..(n - 1)
  <2> SUFFICES ASSUME NEW n \in Nat \ {0}, NEW x \in 0..(n * factor - 1)
               PROVE  x \div factor \in 0..(n - 1)
    OBVIOUS
  <2> DEFINE q == x \div factor
  <2>1. q \in Int /\ q * factor <= x /\ x < q * factor + factor /\ x \in Int /\ x >= 0 /\ x < n * factor
    <3>1. n * factor \in Nat
      OBVIOUS
    <3>2. x \in Int /\ x >= 0 /\ x < n * factor
      BY <3>1
    <3> QED  BY <3>2, QuotientOf
  <2> HIDE DEF q
  <2>2. q >= 0
    <3>1. CASE q <= -1
      <4>1. q * factor <= (-1) * factor
        BY <2>1, <3>1
      <4> QED  BY <2>1, <4>1
    <3> QED  BY <2>1, <3>1
  <2>3. q <= n - 1
    <3>1. CASE q >= n
      <4>1. q * factor >= n * factor
        BY <2>1, <3>1
      <4> QED  BY <2>1, <4>1
    <3> QED  BY <2>1, <3>1
  <2> QED  BY <2>1, <2>2, <2>3 DEF q
<1>3. ASSUME NEW r \in 1..(h * factor), NEW x \in 0..(w * factor - 1)
      PROVE  At(pixels, x \div factor, (r - 1) \div factor) \in Bytes
  <2>1. r - 1 \in 0..(h * factor - 1)
    BY <1>1
  <2>2. x \div factor \in 0..(w - 1) /\ (r - 1) \div factor \in 0..(h - 1)
    BY <1>2, <2>1
  <2> QED  BY <2>2, PictureSize
<1>4. Resized(pixels, factor) = [r \in 1..(h * factor) |-> [x \in 0..(w * factor - 1) |->
                                    At(pixels, x \div factor, (r - 1) \div factor)]]
  <2>1. Height(pixels) = h /\ Width(pixels) = w
    BY PictureSize
  <2> QED  BY <2>1 DEF Resized
<1> DEFINE width == w * factor
           height == h * factor
           pixel(r, x) == At(pixels, x \div factor, (r - 1) \div factor)
<1>5. /\ \A r \in 1..height, x \in 0..(width - 1) : pixel(r, x) \in Bytes
      /\ Resized(pixels, factor) = [r \in 1..height |-> [x \in 0..(width - 1) |-> pixel(r, x)]]
  BY <1>3, <1>4
<1> HIDE DEF width, height, pixel
<1>6. Resized(pixels, factor) \in [1..height -> [0..(width - 1) -> Bytes]]
  BY <1>5
<1> QED  BY <1>1, <1>6 DEF Pictures, Rows, width, height

LEMMA ByteIsRounded ==
    ASSUME NEW d \in Nat \ {0}, NEW n \in Nat, n <= d * (ByteSize - 1)
    PROVE  RoundedEven(n, d) \in Bytes
<1> DEFINE q == n \div d
           m == n % d
           b == ByteSize - 1
<1>1. q \in Int /\ m \in 0..(d - 1) /\ n = q * d + m /\ b \in Nat /\ b >= 1
  BY ByteAssumption
<1>2. RoundedEven(n, d) = IF 2 * m < d \/ (2 * m = d /\ q % 2 = 0) THEN q ELSE q + 1
  BY DEF RoundedEven
<1>3. n <= d * b
  OBVIOUS
<1>4. b = ByteSize - 1
  OBVIOUS
<1> HIDE DEF q, m, b
<1>5. q >= 0
  <2>1. CASE q <= -1
    <3>1. q * d <= (-1) * d
      BY <1>1, <2>1
    <3> QED  BY <1>1, <3>1
  <2> QED  BY <1>1, <2>1
<1>6. q < b \/ (q = b /\ m = 0)
  <2>1. CASE q >= b + 1
    <3>1. q * d >= (b + 1) * d
      BY <1>1, <2>1
    <3>2. (b + 1) * d = d * b + d
      BY <1>1
    <3>3. d * b \in Int /\ q * d \in Int
      BY <1>1
    <3> QED  BY <1>1, <1>3, <3>1, <3>2, <3>3
  <2>2. CASE q = b
    <3>1. q * d = d * b /\ d * b \in Int
      BY <1>1, <2>2
    <3> QED  BY <1>1, <1>3, <2>2, <3>1
  <2> QED  BY <1>1, <2>1, <2>2
<1>7. RoundedEven(n, d) \in 0..b
  BY <1>1, <1>2, <1>5, <1>6
<1> QED  BY <1>4, <1>7 DEF Bytes

LEMMA ContrastIsAPicture ==
    ASSUME NEW w \in Nat \ {0}, NEW h \in Nat \ {0}, NEW pixels \in Pictures(w, h)
    PROVE  Contrast(pixels) \in Pictures(w, h)
<1> DEFINE values == UNION {{pixels[r][x] : x \in DOMAIN pixels[r]} : r \in DOMAIN pixels}
           low == Min(values)
           high == Max(values)
           d == high - low
<1>1. values \in SUBSET Bytes /\ values # {} /\ \A r \in 1..h, x \in 0..(w - 1) : pixels[r][x] \in values
  <2>1. 1 \in 1..h /\ 0 \in 0..(w - 1)
    OBVIOUS
  <2>2. /\ DOMAIN pixels = 1..h /\ \A r \in 1..h : DOMAIN pixels[r] = 0..(w - 1)
        /\ \A r \in 1..h, x \in 0..(w - 1) : pixels[r][x] \in Bytes
    BY PictureSize
  <2>3. \A r \in 1..h, x \in 0..(w - 1) : pixels[r][x] \in values
    BY <2>2
  <2>4. \A v \in values : v \in Bytes
    BY <2>2
  <2> HIDE DEF values
  <2> QED  BY <2>1, <2>3, <2>4
<1>2. Contrast(pixels) = IF high <= low THEN pixels
                         ELSE [r \in 1..h |-> [x \in 0..(w - 1) |->
                                  RoundedEven((pixels[r][x] - low) * (ByteSize - 1), high - low)]]
  <2>1. DOMAIN pixels = 1..h /\ \A r \in 1..h : DOMAIN pixels[r] = 0..(w - 1)
    BY PictureSize
  <2>2. Contrast(pixels) = IF high <= low THEN pixels
                           ELSE [r \in DOMAIN pixels |-> [x \in DOMAIN pixels[r] |->
                                    RoundedEven((pixels[r][x] - low) * (ByteSize - 1), high - low)]]
    BY Zenon DEF Contrast
  <2> HIDE DEF low, high
  <2> QED  BY <2>1, <2>2
<1> HIDE DEF values
<1>3. low \in values /\ \A v \in values : low <= v
  <2>1. values \in SUBSET Nat
    BY <1>1, ByteAssumption DEF Bytes
  <2>2. \E x \in values : \A y \in values : x <= y
    BY <1>1, <2>1, LeastNumber
  <2> QED  BY <2>2, Zenon DEF Min
<1>4. high \in values /\ \A v \in values : high >= v
  <2> DEFINE rest == {ByteSize - 1 - v : v \in values}
  <2>1. rest \in SUBSET Nat /\ rest # {}
    <3>1. \A v \in values : ByteSize - 1 - v \in Nat
      BY <1>1, ByteAssumption DEF Bytes
    <3> QED  BY <1>1, <3>1
  <2>2. PICK y \in rest : \A z \in rest : y <= z
    BY <2>1, LeastNumber
  <2>3. PICK x \in values : y = ByteSize - 1 - x
    BY <2>2
  <2>4. \A v \in values : x >= v
    <3> SUFFICES ASSUME NEW v \in values
                 PROVE  x >= v
      OBVIOUS
    <3>1. ByteSize - 1 - x <= ByteSize - 1 - v
      BY <2>2, <2>3
    <3> QED  BY <1>1, <3>1, ByteAssumption DEF Bytes
  <2>5. \E u \in values : \A v \in values : u >= v
    BY <2>4
  <2> QED  BY <2>5, Zenon DEF Max
<1> HIDE DEF low, high
<1>5. CASE ~(high <= low)
  <2>1. low \in Nat /\ high \in Nat /\ d \in Nat \ {0}
    BY <1>1, <1>3, <1>4, <1>5, ByteAssumption DEF Bytes
  <2>2. ASSUME NEW r \in 1..h, NEW x \in 0..(w - 1)
        PROVE  RoundedEven((pixels[r][x] - low) * (ByteSize - 1), high - low) \in Bytes
    <3> DEFINE k == pixels[r][x] - low
               b == ByteSize - 1
    <3>1. k \in Nat /\ k <= d
      <4> DEFINE p == pixels[r][x]
      <4>1. p \in values
        BY <1>1
      <4> HIDE DEF p
      <4>2. p \in Nat /\ low <= p /\ high >= p
        BY <1>1, <1>3, <1>4, <4>1, ByteAssumption DEF Bytes
      <4>3. p - low \in Nat /\ p - low <= d
        BY <2>1, <4>2
      <4> QED  BY <4>3 DEF p
    <3>2. b \in Nat
      BY ByteAssumption
    <3> HIDE DEF k, b, d
    <3>3. k * b \in Nat /\ k * b <= d * b
      BY <2>1, <3>1, <3>2
    <3>4. k * b <= d * (ByteSize - 1)
      BY <3>3 DEF b
    <3>5. RoundedEven(k * b, d) \in Bytes
      BY <2>1, <3>3, <3>4, ByteIsRounded
    <3> QED  BY <3>5 DEF k, b, d
  <2> QED  BY <1>2, <1>5, <2>2 DEF Pictures, Rows
<1> QED  BY <1>2, <1>5

LEMMA ThresholdIsAPicture ==
    ASSUME NEW w \in Nat \ {0}, NEW h \in Nat \ {0}, NEW pixels \in Pictures(w, h)
    PROVE  Threshold(pixels) \in Pictures(w, h)
<1>1. DOMAIN pixels = 1..h /\ \A r \in 1..h : DOMAIN pixels[r] = 0..(w - 1)
  BY PictureSize
<1>2. Threshold(pixels) = [r \in 1..h |-> [x \in 0..(w - 1) |-> Threshold(pixels)[r][x]]]
  BY <1>1 DEF Threshold
<1>3. \A r \in 1..h, x \in 0..(w - 1) : Threshold(pixels)[r][x] \in Bytes
  BY ThresholdIsOfTheMean
<1> DEFINE picture == Threshold(pixels)
<1> HIDE DEF picture
<1>4. picture = [r \in 1..h |-> [x \in 0..(w - 1) |-> picture[r][x]]]
  BY <1>2 DEF picture
<1>5. \A r \in 1..h, x \in 0..(w - 1) : picture[r][x] \in Bytes
  BY <1>3 DEF picture
<1>6. picture \in Pictures(w, h)
  BY <1>4, <1>5 DEF Pictures, Rows
<1> QED  BY <1>6 DEF picture

LEMMA SharpenedIsAPicture ==
    ASSUME NEW w \in Nat \ {0}, NEW h \in Nat \ {0}, NEW pixels \in Pictures(w, h)
    PROVE  Sharpened(pixels) \in Pictures(w, h)
<1> DEFINE Value(r, x) == 5 * pixels[r][x] - pixels[r - 1][x] - pixels[r + 1][x] - pixels[r][x - 1] - pixels[r][x + 1]
           Pixel(r, x) == IF r \in {1, h} \/ x \in {0, w - 1} THEN pixels[r][x]
                          ELSE Larger(0, Smaller(ByteSize - 1, Value(r, x)))
<1>1. /\ DOMAIN pixels = 1..h /\ \A r \in 1..h : DOMAIN pixels[r] = 0..(w - 1)
      /\ Height(pixels) = h /\ Width(pixels) = w
      /\ \A r \in 1..h, x \in 0..(w - 1) : pixels[r][x] \in Bytes /\ pixels[r][x] \in Int
  BY PictureSize, ByteAssumption DEF Bytes
<1>2. Sharpened(pixels) = [r \in 1..h |-> [x \in 0..(w - 1) |-> Pixel(r, x)]]
  BY <1>1 DEF Sharpened
<1>3. ASSUME NEW r \in 1..h, NEW x \in 0..(w - 1)
      PROVE  Pixel(r, x) \in Bytes
  <2>1. CASE r \in {1, h} \/ x \in {0, w - 1}
    BY <1>1, <2>1
  <2>2. CASE ~(r \in {1, h} \/ x \in {0, w - 1})
    <3>1. r - 1 \in 1..h /\ r + 1 \in 1..h /\ x - 1 \in 0..(w - 1) /\ x + 1 \in 0..(w - 1)
      BY <2>2
    <3>2. Value(r, x) \in Int
      <4>1. /\ pixels[r][x] \in Int /\ pixels[r - 1][x] \in Int /\ pixels[r + 1][x] \in Int
            /\ pixels[r][x - 1] \in Int /\ pixels[r][x + 1] \in Int
        BY <1>1, <3>1
      <4> QED  BY <4>1
    <3> HIDE DEF Value
    <3> QED  BY <2>2, <3>2, ByteAssumption DEF Larger, Smaller, Bytes
  <2> QED  BY <2>1, <2>2
<1> HIDE DEF Pixel
<1> QED  BY <1>2, <1>3 DEF Pictures, Rows

LEMMA PreparedIsAPicture ==
    ASSUME NEW w \in Nat \ {0}, NEW h \in Nat \ {0}, NEW pixels \in Pictures(w, h),
           NEW transform \in Transforms
    PROVE  \E width, height \in Nat \ {0} : Prepared(pixels, transform) \in Pictures(width, height)
<1>1. CASE transform.kind = "original"
  BY <1>1 DEF Prepared
<1>2. CASE transform.kind \in {"gray", "contrast", "threshold", "sharpen"}
  <2> DEFINE f == transform.factor
             larger == Resized(pixels, f)
  <2>1. f \in Nat \ {0}
    BY TransformsAssumption
  <2>2. Prepared(pixels, transform) \in {larger, Contrast(larger), Threshold(larger), Sharpened(larger)}
    BY <1>2 DEF Prepared
  <2> HIDE DEF f
  <2>3. larger \in Pictures(w * f, h * f) /\ w * f \in Nat \ {0} /\ h * f \in Nat \ {0}
    BY <2>1, ResizedIsAPicture
  <2> HIDE DEF larger
  <2>4. /\ Contrast(larger) \in Pictures(w * f, h * f) /\ Threshold(larger) \in Pictures(w * f, h * f)
        /\ Sharpened(larger) \in Pictures(w * f, h * f)
    BY <2>3, ContrastIsAPicture, ThresholdIsAPicture, SharpenedIsAPicture
  <2> QED  BY <2>2, <2>3, <2>4
<1> QED  BY <1>1, <1>2, TransformsAssumption

-----------------------------------------------------------------------------
(* The rows are those of the image, as far as they are decoded. *)

PngHeld ==
    /\ image \in Images /\ filters \in [DOMAIN image -> 0..4]
    /\ \E k \in 0..Len(image) :
          rows = [r \in 1..k |-> image[r]] /\ layout = [r \in 1..k |-> image[r]]
    /\ \/ prepared = <<>>
       \/ \E transform \in Transforms : prepared = [transform |-> transform, pixels |-> Prepared(image, transform)]

LEMMA ImageIsAPicture ==
    ASSUME NEW img \in Images
    PROVE  \E w, h \in Nat \ {0} : img \in Pictures(w, h) /\ Len(img) = h /\ DOMAIN img = 1..h
<1>1. PICK w \in Nat \ {0} : img \in Seq(Rows(w)) /\ Len(img) >= 1
  BY ImagesAssumption
<1>2. Len(img) \in Nat \ {0} /\ img \in [1..Len(img) -> Rows(w)] /\ DOMAIN img = 1..Len(img)
  BY <1>1
<1> QED  BY <1>2 DEF Pictures

LEMMA DecodeStep ==
    ASSUME PngHeld, DecodeRow
    PROVE  PngHeld'
<1>1. PICK w \in Nat \ {0}, h \in Nat \ {0} : image \in Pictures(w, h) /\ Len(image) = h /\ DOMAIN image = 1..h
  BY ImageIsAPicture DEF PngHeld
<1>2. PICK k \in 0..h : rows = [r \in 1..k |-> image[r]] /\ layout = [r \in 1..k |-> image[r]]
  BY <1>1 DEF PngHeld
<1> DEFINE r == k + 1
           prior == IF r = 1 THEN Blank(image[1]) ELSE image[r - 1]
           raw == EncodedRow(filters[r], image[r], prior)
           last(decoded) == IF r = 1 THEN Blank(raw) ELSE decoded[r - 1]
<1>3. Len(rows) = k /\ Len(layout) = k
  BY <1>2
<1>4. /\ r <= h /\ image' = image /\ filters' = filters /\ prepared' = prepared
      /\ rows' = Append(rows, DecodedRow("crops", filters[r], raw, last(rows)))
      /\ layout' = Append(layout, DecodedRow("layout", filters[r], raw, last(layout)))
  BY <1>1, <1>3, Zenon DEF DecodeRow
<1>5. r \in 1..h /\ \A s \in 1..h : image[s] \in Rows(w)
  BY <1>1, <1>4 DEF Pictures
<1>6. Blank(raw) = Blank(image[1]) /\ Blank(image[1]) \in Rows(w)
  <2>1. DOMAIN raw = DOMAIN image[r] /\ DOMAIN image[r] = 0..(w - 1) /\ DOMAIN image[1] = 0..(w - 1)
    BY <1>5 DEF EncodedRow, Rows
  <2> HIDE DEF raw, r
  <2> QED  BY <2>1, ByteAssumption DEF Blank, Rows, Bytes
<1>7. prior \in Rows(w) /\ last(rows) = prior /\ last(layout) = prior
  <2>1. r # 1 => r - 1 \in 1..k /\ r - 1 \in 1..h
    BY <1>5
  <2> HIDE DEF raw, r
  <2> QED  BY <1>2, <1>5, <1>6, <2>1
<1>8. filters[r] \in 0..4 /\ image[r] \in Rows(w)
  BY <1>1, <1>5 DEF PngHeld
<1> HIDE DEF prior, last
<1>9. rows' = Append(rows, image[r]) /\ layout' = Append(layout, image[r])
  <2>1. /\ rows' = Append(rows, DecodedRow("crops", filters[r], raw, prior))
        /\ layout' = Append(layout, DecodedRow("layout", filters[r], raw, prior))
    BY <1>4, <1>7
  <2> HIDE DEF r
  <2>2. /\ DecodedRow("crops", filters[r], raw, prior) = image[r]
        /\ DecodedRow("layout", filters[r], raw, prior) = image[r]
    <3>1. w \in Nat /\ "crops" \in {"crops", "layout"} /\ "layout" \in {"crops", "layout"}
      OBVIOUS
    <3> HIDE DEF raw
    <3>2. raw = EncodedRow(filters[r], image[r], prior)
      BY DEF raw
    <3> QED  BY <1>7, <1>8, <3>1, <3>2, DecodingUndoesEncoding
  <2> QED  BY <2>1, <2>2
<1>10. rows' = [s \in 1..r |-> image[s]] /\ layout' = [s \in 1..r |-> image[s]]
  BY <1>2, <1>9
<1> HIDE DEF r
<1>11. \E j \in 0..Len(image') :
          rows' = [s \in 1..j |-> image'[s]] /\ layout' = [s \in 1..j |-> image'[s]]
  <2>1. r \in 0..Len(image')
    BY <1>1, <1>4, <1>5
  <2> QED  BY <1>4, <1>10, <2>1
<1> QED  BY <1>4, <1>11 DEF PngHeld

LEMMA PrepareStep ==
    ASSUME PngHeld, NEW transform \in Transforms, Prepare(transform)
    PROVE  PngHeld'
<1>1. PICK w \in Nat \ {0}, h \in Nat \ {0} : image \in Pictures(w, h) /\ Len(image) = h /\ DOMAIN image = 1..h
  BY ImageIsAPicture DEF PngHeld
<1>2. PICK k \in 0..h : rows = [r \in 1..k |-> image[r]] /\ layout = [r \in 1..k |-> image[r]]
  BY <1>1 DEF PngHeld
<1>3. /\ Len(rows) = Len(image) /\ UNCHANGED <<image, filters, rows, layout>>
      /\ prepared' = [transform |-> transform, pixels |-> Prepared(rows, transform)]
  BY DEF Prepare
<1>4. rows = image
  <2>1. k = h
    BY <1>1, <1>2, <1>3
  <2>2. image = [r \in 1..h |-> image[r]]
    BY <1>1 DEF Pictures
  <2> QED  BY <1>2, <2>1, <2>2
<1> QED  BY <1>1, <1>2, <1>3, <1>4 DEF PngHeld

LEMMA ImagesRead == PngHeld => DecodersAgree /\ PreparedIsOfTheImage
<1> SUFFICES ASSUME PngHeld
             PROVE  DecodersAgree /\ PreparedIsOfTheImage
  OBVIOUS
<1>1. PICK w \in Nat \ {0}, h \in Nat \ {0} : image \in Pictures(w, h) /\ Len(image) = h /\ DOMAIN image = 1..h
  BY ImageIsAPicture DEF PngHeld
<1>2. DecodersAgree
  <2>1. PICK k \in 0..h : rows = [r \in 1..k |-> image[r]] /\ layout = [r \in 1..k |-> image[r]]
    BY <1>1 DEF PngHeld
  <2> QED  BY <2>1 DEF DecodersAgree
<1>3. ASSUME NEW transform \in Transforms,
             prepared = [transform |-> transform, pixels |-> Prepared(image, transform)]
      PROVE  PreparedIsOfTheImage
  <2> DEFINE pixels == Prepared(image, transform)
             f == transform.factor
             larger == Resized(image, f)
             W == w * f
             H == h * f
  <2>1. prepared.pixels = pixels /\ prepared.transform = transform
    BY <1>3
  <2>2. \A r \in DOMAIN pixels : \A x \in DOMAIN pixels[r] : pixels[r][x] \in Bytes
    <3>1. PICK width \in Nat \ {0}, height \in Nat \ {0} : pixels \in Pictures(width, height)
      <4> HIDE DEF pixels
      <4>2. \E width, height \in Nat \ {0} : Prepared(image, transform) \in Pictures(width, height)
        BY <1>1, PreparedIsAPicture
      <4> QED  BY <4>2 DEF pixels
    <3> HIDE DEF pixels
    <3> QED  BY <3>1, PictureSize
  <2>3. larger \in Pictures(W, H) /\ W \in Nat \ {0} /\ H \in Nat \ {0}
    BY <1>1, TransformsAssumption, ResizedIsAPicture
  <2> HIDE DEF larger, W, H, f
  <2>4. Width(larger) = W /\ Height(larger) = H /\ DOMAIN larger = 1..H /\ \A r \in 1..H : DOMAIN larger[r] = 0..(W - 1)
    BY <2>3, PictureSize
  <2> DEFINE near(x, y) == {p \in (0..(Width(larger) - 1)) \X (0..(Height(larger) - 1)) :
                                Distance(p[1], x) <= Radius /\ Distance(p[2], y) <= Radius}
  <2>5. \A x, y : near(x, y) = Around(W, H, x, y)
    BY <2>4 DEF Around
  <2> HIDE DEF near
  <2>6. ASSUME transform.kind = "threshold", NEW r \in DOMAIN pixels, NEW x \in DOMAIN pixels[r]
        PROVE  pixels[r][x] = (ByteSize - 1) <=>
                  Cardinality(near(x, r - 1)) * (larger[r][x] + Bias)
                      >= MapThenSumSet(LAMBDA p : At(larger, p[1], p[2]), near(x, r - 1))
    <3>1. pixels = Threshold(larger)
      BY <2>6 DEF Prepared, larger, f
    <3>2. DOMAIN pixels = 1..H /\ \A s \in 1..H : DOMAIN pixels[s] = 0..(W - 1)
      BY <2>3, <3>1, ThresholdIsAPicture, PictureSize
    <3> HIDE DEF pixels
    <3>3. r \in 1..H /\ x \in 0..(W - 1)
      BY <3>2
    <3>4. Threshold(larger)[r][x] = (ByteSize - 1) <=>
              Cardinality(Around(W, H, x, r - 1)) * (larger[r][x] + Bias)
                  >= MapThenSumSet(LAMBDA p : At(larger, p[1], p[2]), Around(W, H, x, r - 1))
      BY <2>3, <3>3, ThresholdIsOfTheMean, Zenon
    <3> QED  BY <2>5, <3>1, <3>4, Zenon
  <2> HIDE DEF pixels
  <2> DEFINE Reads(source, kind, shown) ==
                LET those(x, y) == {p \in (0..(Width(source) - 1)) \X (0..(Height(source) - 1)) :
                                        Distance(p[1], x) <= Radius /\ Distance(p[2], y) <= Radius}
                IN  /\ \A r \in DOMAIN shown : \A x \in DOMAIN shown[r] : shown[r][x] \in Bytes
                    /\ kind = "threshold" =>
                        \A r \in DOMAIN shown : \A x \in DOMAIN shown[r] :
                            shown[r][x] = (ByteSize - 1) <=>
                                Cardinality(those(x, r - 1)) * (source[r][x] + Bias)
                                    >= MapThenSumSet(LAMBDA p : At(source, p[1], p[2]), those(x, r - 1))
  <2>7. Reads(larger, transform.kind, pixels)
    BY <2>2, <2>6, Zenon DEF near
  <2>8. Reads(Resized(image, prepared.transform.factor), prepared.transform.kind, prepared.pixels) => PreparedIsOfTheImage
    BY Zenon DEF PreparedIsOfTheImage
  <2> HIDE DEF Reads
  <2>9. Resized(image, prepared.transform.factor) = larger /\ prepared.transform.kind = transform.kind
    BY <2>1 DEF larger, f
  <2> QED  BY <2>1, <2>7, <2>8, <2>9
<1>4. ASSUME prepared = <<>>
      PROVE  PreparedIsOfTheImage
  <2>1. ~ (prepared # <<>>)
    BY <1>4
  <2> QED  BY <2>1, Zenon DEF PreparedIsOfTheImage
<1> QED  BY <1>2, <1>3, <1>4 DEF PngHeld

-----------------------------------------------------------------------------
(* The backfill. *)

LEMMA OcrLeavesTheTrace ==
    ASSUME OcrNext
    PROVE  UNCHANGED traceVars
<1>1. ASSUME NEW name, NEW engines, NEW limit, StartOcr(name, engines, limit)
      PROVE  UNCHANGED traceVars
  BY <1>1, Zenon DEF StartOcr
<1>2. ASSUME NEW i, NEW reads, ReadCell(i, reads)
      PROVE  UNCHANGED traceVars
  BY <1>2, Zenon DEF ReadCell
<1>3. ASSUME NEW written, NEW kept, NEW whole, WriteOcr(written, kept, whole)
      PROVE  UNCHANGED traceVars
  BY <1>3, Zenon DEF WriteOcr
<1>4. ASSUME KillOcr
      PROVE  UNCHANGED traceVars
  BY <1>4 DEF KillOcr
<1>5. ASSUME NEW c, NEW shown, ChangeCrop(c, shown)
      PROVE  UNCHANGED traceVars
  BY <1>5, Zenon DEF ChangeCrop
<1>6. ASSUME NEW name, NEW output, NEW written, BuildPackage(name, output, written)
      PROVE  UNCHANGED traceVars
  BY <1>6, Zenon DEF BuildPackage
<1>7. ASSUME NEW name, NEW package, NEW answers, Import(name, package, answers)
      PROVE  UNCHANGED traceVars
  BY <1>7, Zenon DEF Import
<1> QED  BY <1>1, <1>2, <1>3, <1>4, <1>5, <1>6, <1>7, Zenon DEF OcrNext

LEMMA ReviewLeavesTheTrace ==
    ASSUME VisualNext
    PROVE  UNCHANGED traceVars
<1>1. ASSUME NEW a, NEW b, Review(a, b)
      PROVE  UNCHANGED traceVars
  BY <1>1, Zenon DEF Review
<1>2. ASSUME WriteNext
      PROVE  UNCHANGED traceVars
  BY <1>2, Zenon DEF WriteNext
<1> QED  BY <1>1, <1>2 DEF VisualNext, Begin, KillBatch

LEMMA TraceUntouched ==
    ASSUME TraceHeld, UNCHANGED traceVars
    PROVE  TraceHeld'
<1>1. sources' = sources /\ traces' = traces /\ queue' = queue
  BY DEF traceVars
<1>2. ToReview' = ToReview /\ Sorted(ToReview)' = Sorted(ToReview)
  BY <1>1 DEF ToReview, Excluded, Records, RecordOf, Sorted
<1> QED  BY <1>1, <1>2 DEF TraceHeld

LEMMA BackfillStep ==
    ASSUME TraceHeld, OcrHeld, VisualHeld, [BackfillNext]_backfillVars
    PROVE  TraceHeld' /\ OcrHeld' /\ VisualHeld'
<1>1. CASE UNCHANGED <<traceVars, ocrVars, visualVars>>
  BY <1>1, TraceUntouched, OcrUntouched, ReviewUntouched DEF traceVars, ocrVars
<1>2. CASE TraceNext /\ UNCHANGED <<ocrVars, visualVars>>
  <2>1. queue # None => queue' = queue
    BY <1>2 DEF TraceNext, BuildTrace, BuildQueue
  <2> QED  BY <1>2, <2>1, TraceStep, OcrUntouched, ReviewUntouched DEF ocrVars
<1>3. CASE OcrNext /\ UNCHANGED visualVars
  <2>1. UNCHANGED traceVars
    BY <1>3, OcrLeavesTheTrace
  <2>2. OcrHeld'
    BY <1>3, OcrStep
  <2> QED  BY <1>3, <2>1, <2>2, TraceUntouched, ReviewUntouched DEF traceVars
<1>4. CASE VisualNext /\ UNCHANGED ocrVars
  <2>1. UNCHANGED traceVars
    BY <1>4, ReviewLeavesTheTrace
  <2> QED  BY <1>4, <2>1, TraceUntouched, OcrUntouched, VisualStep DEF traceVars, ocrVars
<1>5. CASE UNCHANGED backfillVars
  BY <1>1, <1>5 DEF backfillVars
<1> QED  BY <1>1, <1>2, <1>3, <1>4, <1>5 DEF BackfillNext

LEMMA BackfillStart == BackfillInit => TraceHeld /\ OcrHeld /\ VisualHeld
<1> SUFFICES ASSUME BackfillInit
             PROVE  TraceHeld /\ OcrHeld /\ VisualHeld
  OBVIOUS
<1>1. TraceHeld
  BY DEF BackfillInit, TraceInit, TraceHeld
<1>2. files = [records |-> None, escalations |-> None, manifest |-> None, summary |-> None] /\ batch = None /\ batches = 0
  BY DEF BackfillInit, VisualInit
<1>3. files = [f \in FileNames |-> files[f]] /\ files.manifest = None
  BY <1>2 DEF FileNames
<1>4. VisualHeld
  BY <1>2, <1>3 DEF VisualHeld
<1>5. OcrHeld
  BY DEF BackfillInit, OcrInit, NoRun, OcrHeld, OutputsHeld, PackagesHeld, ImportsHeld
<1> QED  BY <1>1, <1>4, <1>5

BackfillHeld == TraceHeld /\ OcrHeld /\ VisualHeld

LEMMA BackfillIsHeld == BackfillSpec => []BackfillHeld
<1>1. BackfillInit => BackfillHeld
  BY BackfillStart DEF BackfillHeld
<1>2. BackfillHeld /\ [BackfillNext]_backfillVars => BackfillHeld'
  BY BackfillStep DEF BackfillHeld
<1> QED  BY <1>1, <1>2, PTL DEF BackfillSpec

\* Whatever the screenshots, their profiles and their readings, the engines and threads
\* of the OCR runs, the crops that change, the runs cut short and the responses: the
\* cells of each market tile its region, the review queue holds once each cell without a
\* value of a market that is on a page of a known layout, and no other, whatever counts
\* it was checked against; and under the imported answers to a whole run each of these
\* has two engines behind it, or one row about its own crop (evidence_trace,
\* official_odds_cells, _build_queue_from_sources, run_local_ocr_consensus,
\* build_chatgpt_review_package, import_chatgpt_review_response).
THEOREM CellsAreAlwaysAccounted == BackfillSpec => []CellsAreAccounted
<1>1. BackfillHeld => CellsAreAccounted
  BY CellsAreTiled, NothingIsLeftOut, AnswersAreThere DEF BackfillHeld, CellsAreAccounted
<1> QED  BY BackfillIsHeld, <1>1, PTL

\* Whatever the screenshots, the answers of the providers, the batches that end early
\* and the files that one batch writes over another's: under a manifest of the records'
\* batch every cell of the queue is escalated, or both passes and the OCR number agree
\* about it (ai_visual_review.runner.run, run_adapter_batch, build_review_record).
THEOREM NoCellIsEverHidden == BackfillSpec => []NoCellIsHidden
<1>1. BackfillHeld => NoCellIsHidden
  BY NoCellHidden DEF BackfillHeld
<1> QED  BY BackfillIsHeld, <1>1, PTL

PixelsHeld == IF focus = "png" THEN PngHeld ELSE rows = <<>> /\ prepared = <<>>

LEMMA PixelsStart == BackfillInit => PixelsHeld
<1> SUFFICES ASSUME BackfillInit
             PROVE  PixelsHeld
  OBVIOUS
<1>1. CASE focus = "png"
  <2>1. /\ image \in Images /\ filters \in [DOMAIN image -> 0..4]
        /\ rows = <<>> /\ layout = <<>> /\ prepared = <<>>
    BY <1>1 DEF BackfillInit, PngInit
  <2>2. Len(image) \in Nat
    BY <2>1, ImageIsAPicture
  <2>3. 0 \in 0..Len(image) /\ rows = [r \in 1..0 |-> image[r]] /\ layout = [r \in 1..0 |-> image[r]]
    BY <2>1, <2>2
  <2>4. PngHeld
    BY <2>1, <2>3 DEF PngHeld
  <2> QED  BY <1>1, <2>4 DEF PixelsHeld
<1>2. CASE focus # "png"
  BY <1>2 DEF BackfillInit, PixelsHeld
<1> QED  BY <1>1, <1>2

LEMMA PixelsStep ==
    ASSUME PixelsHeld, [BackfillNext]_backfillVars
    PROVE  PixelsHeld'
<1>1. CASE UNCHANGED <<focus, pngVars>>
  BY <1>1 DEF pngVars, PixelsHeld, PngHeld
<1>2. CASE focus = "png" /\ UNCHANGED focus /\ PngNext
  <2>1. PngHeld'
    BY <1>2, DecodeStep, PrepareStep DEF PixelsHeld, PngNext
  <2> QED  BY <1>2, <2>1 DEF PixelsHeld
<1> QED  BY <1>1, <1>2 DEF BackfillNext, backfillVars

\* Whatever the images, the filters that their encoder took and the transforms that are
\* asked for: both decoders give back the encoded rows, every transform gives bytes, and
\* the threshold compares each pixel with the mean of its surroundings, whose sum it takes
\* from four entries of the integral (_read_png, _png_rows, render_preprocessed).
THEOREM ImagesAreAlwaysRead == BackfillSpec => []ImagesAreRead
<1>1. PixelsHeld => ImagesAreRead
  <2>1. CASE focus = "png"
    BY <2>1, ImagesRead DEF PixelsHeld, ImagesAreRead
  <2>2. ASSUME focus # "png", PixelsHeld
        PROVE  ImagesAreRead
    <3>1. rows = <<>> /\ ~ (prepared # <<>>)
      BY <2>2 DEF PixelsHeld
    <3>2. DecodersAgree
      BY <3>1 DEF DecodersAgree
    <3>3. PreparedIsOfTheImage
      BY <3>1, Zenon DEF PreparedIsOfTheImage
    <3> QED  BY <3>2, <3>3 DEF ImagesAreRead
  <2> QED  BY <2>1, <2>2
<1>2. PixelsHeld /\ [BackfillNext]_backfillVars => PixelsHeld'
  BY PixelsStep
<1> QED  BY PixelsStart, <1>1, <1>2, PTL DEF BackfillSpec
=============================================================================
