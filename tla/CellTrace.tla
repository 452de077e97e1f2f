------------------------------ MODULE CellTrace ------------------------------
(* build_full_trace: a screenshot of the official odds becomes one record    *)
(* per cell of the contract's inventory, by way of its layout, the locators  *)
(* of the cells and the OCR evidence about them; and the review queue that   *)
(* is taken from the records of all screenshots of a set.  Contract 1.0      *)
(* takes the regions it is told and divides them into grids, contract 1.1    *)
(* finds dark bars in the image and has every rectangle listed.  A           *)
(* normalized coordinate is a number of millionths; hashes, names of         *)
(* revisions and timestamps are left out.                                    *)
EXTENDS Integers, Sequences, FiniteSets

CONSTANTS
    Inventory,      \* sequence of [market, label, kind, row, col], in contract order
    Grids,          \* contract 1.0: [profile |-> [market |-> [left, top, right, bottom, rows, cols]]]
    Profiles,       \* contract 1.1: set of [id, width, height, spans, presence, geometry]
    Tolerance,      \* anchor_tolerance_pixels
    MinBar,         \* rows a section bar has at least
    Sources,        \* what build_full_trace is called with
    Screens,        \* how many screenshots the set has
    Expected,       \* [market |-> how many candidates the queue must have of all screenshots]
    ExpectedUnavailable,
    None

Unit == 1000000
Cells == DOMAIN Inventory
Slots == 1..Screens
Items == Slots \X Cells    \* a cell of a screenshot
Markets == {Inventory[c].market : c \in Cells}
MarketOrder == <<"EXACT_SCORE", "TOTAL_GOALS", "HTFT", "SPF", "RQSPF">>

\* What validate_contract asks of the inventories.
ASSUME InventoryAssumption ==
    /\ None \notin Int /\ None \notin Sources
    /\ Len(Inventory) \in Nat /\ Cells = 1..Len(Inventory)
    /\ \A c \in Cells :
        /\ \E i \in DOMAIN MarketOrder : MarketOrder[i] = Inventory[c].market
        /\ Inventory[c].row \in Nat /\ Inventory[c].col \in Nat
    /\ Screens \in Nat

\* NormalizedRect refuses a rectangle without an area, so a cell of a grid is a millionth
\* at least; project refuses an image without pixels.
ASSUME GridsAssumption ==
    /\ \A p \in DOMAIN Grids, m \in Markets :
        LET g == Grids[p][m]
        IN  /\ {g.left, g.top, g.right, g.bottom} \subseteq 0..Unit
            /\ g.rows \in Nat \ {0} /\ g.cols \in Nat \ {0}
            /\ g.left + g.cols <= g.right /\ g.top + g.rows <= g.bottom
    /\ \A src \in Sources : src.width \in Nat \ {0} /\ src.height \in Nat \ {0}

VARIABLES
    sources,    \* [slot |-> the call for its screenshot, or None before it]
    traces,     \* [slot |-> [cell |-> record]], empty before the call and when it raised
    queue       \* the items to review, in the queue's order, or None
traceVars == <<sources, traces, queue>>

-----------------------------------------------------------------------------
(* Layout. *)

\* Maximal runs of dark rows, as [first, past the last].
BarSpans(dark) ==
    LET rows == 0..Len(dark)
        isDark(y) == y \in 0..(Len(dark) - 1) /\ dark[y + 1]
    IN  {s \in rows \X rows : /\ s[2] - s[1] >= MinBar
                              /\ \A y \in s[1]..(s[2] - 1) : isDark(y)
                              /\ ~isDark(s[1] - 1) /\ ~isDark(s[2])}

\* Two sets of disjoint spans, paired from the top.
Near(observed, expected) ==
    LET rank(S, s) == Cardinality({t \in S : t[1] <= s[1]})
        off(a, b) == a - b > Tolerance \/ b - a > Tolerance
    IN  /\ Cardinality(observed) = Cardinality(expected)
        /\ \A s \in observed, t \in expected :
                rank(observed, s) = rank(expected, t) => ~off(s[1], t[1]) /\ ~off(s[2], t[2])

Candidates(src) ==
    {p \in Profiles : p.width = src.imageWidth /\ p.height = Len(src.dark) /\ Near(BarSpans(src.dark), p.spans)}

Detect(src) ==
    IF src.contract = "1.0"
    THEN IF src.profile \in DOMAIN Grids /\ src.regions = Grids[src.profile]
         THEN [status |-> "MATCHED", profile |-> src.profile]
         ELSE [status |-> "UNSUPPORTED_LAYOUT", profile |-> None]
    ELSE CASE Cardinality(Candidates(src)) = 1 ->
                [status |-> "SELECTED", profile |-> CHOOSE p \in Candidates(src) : TRUE]
           [] Candidates(src) = {} -> [status |-> "UNSUPPORTED_LAYOUT", profile |-> None]
           [] OTHER -> [status |-> "AMBIGUOUS_LAYOUT", profile |-> None]

\* What the registry of the profiles is validated for: cells lie in their region, do
\* not overlap, and are null where their market is not on the page.
GeometryOK(p) ==
    /\ DOMAIN p.geometry = Cells
    /\ \A c \in Cells :
        LET r == p.geometry[c]
            g == p.regions[Inventory[c].market]
        IN  IF p.presence[Inventory[c].market] # "AVAILABLE" THEN r = None
            ELSE r # None => /\ g.left <= r.left /\ r.left < r.right /\ r.right <= g.right
                             /\ g.top <= r.top /\ r.top < r.bottom /\ r.bottom <= g.bottom
    /\ \A c, d \in Cells :
        LET r == p.geometry[c]
            s == p.geometry[d]
        IN  (c < d /\ Inventory[c].market = Inventory[d].market /\ r # None /\ s # None) =>
                (r.right <= s.left \/ s.right <= r.left \/ r.bottom <= s.top \/ s.bottom <= r.top)

ASSUME ProfilesAssumption == \A p \in Profiles : GeometryOK(p)

-----------------------------------------------------------------------------
(* Locators. *)

Rounded(n, d) == (2 * n + d) \div (2 * d)

\* floor of the near edges, ceiling of the far ones.
Project(r, width, height) ==
    [left |-> (r.left * width) \div Unit, top |-> (r.top * height) \div Unit,
     right |-> -((-(r.right * width)) \div Unit), bottom |-> -((-(r.bottom * height)) \div Unit)]

\* Contract 1.0: the cell of a row and a column of its region.
GridCell(cell, g) ==
    LET w == g.right - g.left
        h == g.bottom - g.top
    IN  [left |-> g.left + Rounded(cell.col * w, g.cols), top |-> g.top + Rounded(cell.row * h, g.rows),
         right |-> g.left + Rounded((cell.col + 1) * w, g.cols),
         bottom |-> g.top + Rounded((cell.row + 1) * h, g.rows)]

\* Contract 1.1 returns the rectangle of the profile, which may be null.
Locate(src, det, c) ==
    IF det.status = "MATCHED"
    THEN LET g == Grids[det.profile][Inventory[c].market]
         IN  [region |-> Project(g, src.width, src.height),
              cell |-> Project(GridCell(Inventory[c], g), src.width, src.height)]
    ELSE IF det.status = "SELECTED"
    THEN [region |-> det.profile.regions[Inventory[c].market], cell |-> det.profile.geometry[c]]
    ELSE [region |-> None, cell |-> None]

\* Locating raises when the caller's dimensions are not the profile's, or when a cell
\* is outside its grid; it is not caught.
Raises(src, det) ==
    \/ det.status = "SELECTED" /\ <<src.width, src.height>> # <<det.profile.width, det.profile.height>>
    \/ det.status = "MATCHED" /\ \E c \in Cells :
            LET g == Grids[det.profile][Inventory[c].market]
            IN  Inventory[c].row >= g.rows \/ Inventory[c].col >= g.cols
    \/ det.status \in {"MATCHED", "SELECTED"} /\ \E c \in DOMAIN src.evidence : ~src.evidence[c].valid

-----------------------------------------------------------------------------
(* Values. *)

\* The HTFT market under its own name and its old one.
Resolved(fields) ==
    LET states == {fields[f] : f \in DOMAIN fields}
    IN  IF states = {} THEN "UNKNOWN"
        ELSE IF Cardinality(states) > 1 THEN "BLOCKED"
        ELSE CHOOSE s \in states : TRUE

\* All markets are there, unless the profile, then the caller, then a coverage field of
\* HTFT says otherwise.
Availability(src, det, market) ==
    IF market = "HTFT" /\ src.fields # None THEN Resolved(src.fields)
    ELSE IF market \in DOMAIN src.availability THEN src.availability[market]
    ELSE IF det.status = "SELECTED" THEN det.profile.presence[market]
    ELSE "AVAILABLE"

\* A text is a number or not; odds must be positive, a handicap line need not be.
ParseStatus(kind, e, available, present) ==
    IF ~available THEN "MARKET_UNAVAILABLE"
    ELSE IF ~present THEN "NOT_PRESENT"
    ELSE IF e = None THEN "UNRESOLVED"
    ELSE IF e.contradiction = "CONFLICTED" THEN "CONFLICT"
    ELSE IF e.text = None THEN "UNRESOLVED"
    ELSE IF Cardinality(e.candidates) > 1 THEN "AMBIGUOUS"
    ELSE IF e.text \notin Int \/ (kind = "ODDS" /\ e.text <= 0) THEN "UNRESOLVED"
    ELSE "PARSED"

EvidenceFor(src, c) == IF c \in DOMAIN src.evidence THEN src.evidence[c] ELSE None

Record(src, det, c) ==
    LET available == Availability(src, det, Inventory[c].market)
        e == EvidenceFor(src, c)
        status == IF det.status \in {"MATCHED", "SELECTED"}
                  THEN ParseStatus(Inventory[c].kind, e, available = "AVAILABLE", c \notin src.absent)
                  ELSE "UNSUPPORTED_LAYOUT"
    IN  [cell |-> c, locator |-> Locate(src, det, c), availability |-> available, status |-> status,
         value |-> IF status = "PARSED" THEN e.text ELSE None]

-----------------------------------------------------------------------------
TraceInit == sources = [s \in Slots |-> None] /\ traces = [s \in Slots |-> <<>>] /\ queue = None

BuildTrace(slot, src) ==
    LET det == Detect(src)
    IN  /\ sources[slot] = None
        /\ sources' = [sources EXCEPT ![slot] = src]
        /\ traces' = [traces EXCEPT ![slot] = IF Raises(src, det) THEN <<>> ELSE [c \in Cells |-> Record(src, det, c)]]
        /\ UNCHANGED queue

Eligible == {"UNRESOLVED", "AMBIGUOUS", "NOT_PRESENT", "CONFLICT"}

\* _build_queue_from_sources: a record is counted and left out when its market is
\* unavailable, and left out without a count when its status is not one to review.
Records == {p \in Items : p[2] \in DOMAIN traces[p[1]]}
RecordOf(p) == traces[p[1]][p[2]]
Excluded == {p \in Records : RecordOf(p).status = "MARKET_UNAVAILABLE" \/ RecordOf(p).availability = "UNAVAILABLE"}
ToReview == {p \in Records \ Excluded : RecordOf(p).status \in Eligible}

\* The queue goes by market, the exact scores first, then by screenshot, then by the
\* inventory.
Place(p) == CHOOSE i \in DOMAIN MarketOrder : MarketOrder[i] = Inventory[p[2]].market
InOrder(p, q) ==
    \/ Place(p) < Place(q)
    \/ Place(p) = Place(q) /\ (p[1] < q[1] \/ (p[1] = q[1] /\ p[2] < q[2]))

\* The trace must be complete and the counts the known ones.  They are sums: what one
\* screenshot lacks, another may have.
BuildQueue ==
    /\ queue = None /\ \A s \in Slots : traces[s] # <<>>
    /\ \A m \in Markets : Cardinality({p \in ToReview : Inventory[p[2]].market = m}) = Expected[m]
    /\ Cardinality(Excluded) = ExpectedUnavailable
    /\ queue' = CHOOSE q \in [1..Cardinality(ToReview) -> ToReview] :
                    \A i, j \in DOMAIN q : i < j => InOrder(q[i], q[j])
    /\ UNCHANGED <<sources, traces>>

TraceNext == (\E slot \in Slots, src \in Sources : BuildTrace(slot, src)) \/ BuildQueue

-----------------------------------------------------------------------------
\* In the grids of contract 1.0 a cell's pixels lie in its region's, neighbours leave
\* no pixel between them and share at most one, at every size of a screenshot
\* (CellLocatorRegistry.locate, PixelRect).
CellsTile ==
    \A slot \in Slots : \A c, d \in DOMAIN traces[slot] :
        LET trace == traces[slot]
        IN  (/\ sources[slot].contract = "1.0" /\ trace[c].locator.cell # None
             /\ Inventory[c].market = Inventory[d].market) =>
            LET r == trace[c].locator.cell
                s == trace[d].locator.cell
                g == trace[c].locator.region
            IN  /\ g.left <= r.left /\ r.left < r.right /\ r.right <= g.right
                /\ g.top <= r.top /\ r.top < r.bottom /\ r.bottom <= g.bottom
                /\ Inventory[d].col = Inventory[c].col + 1 => r.right - s.left \in {0, 1}
                /\ Inventory[d].row = Inventory[c].row + 1 => r.bottom - s.top \in {0, 1}

\* The layout of the screenshot is known and the market is there, but not the value.
Missing(p) ==
    LET r == RecordOf(p)
    IN  r.status # "UNSUPPORTED_LAYOUT" /\ r.availability = "AVAILABLE" /\ r.value = None

\* The queue has just those cells of the recognized screenshots whose market is there
\* and whose value is not, each at one place: between the two programs none of them is
\* dropped or doubled, whatever the sums are made of.
QueueHasTheRest ==
    queue # None =>
        \A p \in Items :
            LET places == {i \in DOMAIN queue : queue[i] = p}
            IN  IF Missing(p)
                THEN \E i \in places : places = {i}
                ELSE places = {}

\* Refuted: "... retains only records whose status is one of UNRESOLVED, AMBIGUOUS,
\* NOT_PRESENT, MARKET_UNAVAILABLE, CONFLICT, or UNSUPPORTED_LAYOUT" (the extraction
\* report, section 8) and the tool for "the 432 unresolved official-odds cells" (the
\* workbench's document): a screenshot that is not recognized is neither queued nor
\* counted, while the others make up the sums.
UnresolvedIsQueuedOrCounted ==
    queue # None =>
        \A p \in Records \ Excluded : RecordOf(p).status # "PARSED" => \E i \in DOMAIN queue : queue[i] = p

\* "Missing coverage remains UNKNOWN; it is not silently converted into
\* MARKET_UNAVAILABLE" (the remediation report, section 6).
UnknownIsNotUnavailable ==
    \A p \in Records : RecordOf(p).availability = "UNKNOWN" => RecordOf(p).status # "MARKET_UNAVAILABLE"
=============================================================================
