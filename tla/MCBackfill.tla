------------------------------ MODULE MCBackfill ------------------------------
(* The backfill of historical screenshots, for TLC: the staging of packages, *)
(* the cells of screenshots with the two reviews of those without a value,   *)
(* and the pixels that the OCR engines get.  A behaviour exercises one of    *)
(* them: focus.                                                              *)
EXTENDS BackfillStaging, OcrConsensus, VisualReview, PngRows

CONSTANT Garbled    \* a text that is no number

VARIABLE focus      \* "staging", "cells", "ocr", "visual" or "png"

-----------------------------------------------------------------------------
(* Staging. *)

MCRoot == <<"F:", "jcfb-v4">>
MCNames == {"p1", "../p2"}
MCSafeNames == {"p1", "m1", "m2", "m3"}

CoverageOf(state) ==
    [market \in {"SPF", "RQSPF", "EXACT_SCORE", "TOTAL_GOALS", "HTFT"} |-> [state |-> state, says |-> {}]]
IdentityOf(match) == [match |-> match, competition |-> "c", home |-> "h", away |-> "a", kickoff |-> 3]
Manifest(id) ==
    [id |-> id, fields |-> TRUE, revision |-> 1, supersedes |-> 0, class |-> "RAW_FACT", generated |-> FALSE,
     identity |-> IdentityOf("x"), coverage |-> CoverageOf("AVAILABLE"), hashOK |-> TRUE, sha |-> 1, snapshot |-> 1,
     bound |-> TRUE, upload |-> 2, kickoff |-> 3, conflicts |-> {}, extraction |-> "VERIFIED",
     candidates |-> [kickoff_candidates |-> {3}], source |-> "s", payload |-> 1]
File(id, name) == [manifest |-> id, name |-> name, sha |-> 1, ref |-> "l", generated |-> FALSE]
Package(contract, manifests, names) ==
    [contract |-> contract, fields |-> TRUE, manifests |-> manifests,
     files |-> [i \in DOMAIN names |-> File(manifests[i].id, names[i])],
     metadata |-> [i \in DOMAIN names |-> [manifest |-> manifests[i].id, snapshot |-> 1]],
     exclusions |-> {}, exclusionsOK |-> TRUE, hashesOK |-> TRUE]

Png(n) == <<"raw", n>>
Disputed(m) == [m EXCEPT !.candidates.kickoff_candidates = {3, 4}]
Slip == [category |-> "BETTING_SLIP", reason |-> "BETTING_SLIP_NOT_RAW_FACT", class |-> "EXCLUDED",
         name |-> Png("1"), ref |-> "l", sha |-> 1]
Two == Package("1.1", <<Manifest("m1"), Manifest("m2")>>, <<Png("1"), Png("2")>>)

\* One that is sound, one whose raw files take the package's own name and that of a
\* directory, one with an unsafe manifest id, one with a dispute, one with an exclusion.
MCPackages ==
    {Two,
     Package("1.1", <<Manifest("m1")>>, <<<<"package.json">>>>),
     Package("1.1", <<Manifest("m1")>>, <<<<"manifests">>>>),
     Package("1.1", <<Manifest("m1/")>>, <<Png("1")>>),
     Package("1.1", <<Disputed(Manifest("m1"))>>, <<Png("1")>>),
     Package("1.1", <<Manifest("m1")>>, <<<<"raw", "..", "1">>>>),
     [Two EXCEPT !.exclusions = {Slip}],
     Package("1.0", <<Manifest("m1")>>, <<Png("1")>>),
     Package("1.0", <<Disputed(Manifest("m1"))>>, <<Png("1")>>),
     Package("1.0", <<[Manifest("m1") EXCEPT !.upload = Unknown]>>, <<Png("1")>>)}
Every(sha) == [n \in {Png("1"), Png("2"), <<"package.json">>, <<"manifests">>, <<"raw", "..", "1">>} |-> sha]
MCRawFiles == {Every(1), Every(2), [n \in {Png("1")} |-> 1]}

Candidate(id, status) ==
    [id |-> id, fields |-> TRUE, status |-> status, identity |-> IdentityOf("x"), reingest |-> TRUE,
     type |-> "RAW_SCREENSHOT", sha |-> 1, ref |-> "l", observed |-> Unknown, payload |-> 1]
Handoff == [fields |-> TRUE, archiveWrite |-> FALSE, trainingWrite |-> FALSE, artifacts |-> {[role |-> "RAW_SCREENSHOT"]},
            target |-> 99, candidates |-> <<Candidate("c1", "UNVERIFIED"), Candidate("c2", "EXPLICIT"), Candidate("c3", "AMBIGUOUS")>>]
MCHandoffs == {Handoff, [Handoff EXCEPT !.target = 98]}

-----------------------------------------------------------------------------
(* Cells: three of a row of SPF and two of a column of HTFT, on three screenshots. *)

CellOf(market, label, kind, row, col) == [market |-> market, label |-> label, kind |-> kind, row |-> row, col |-> col]
MCInventory ==
    <<CellOf("SPF", "h", "ODDS", 0, 0), CellOf("SPF", "d", "ODDS", 0, 1), CellOf("SPF", "line", "HANDICAP", 0, 2),
      CellOf("HTFT", "hh", "ODDS", 0, 0), CellOf("HTFT", "hd", "ODDS", 1, 0)>>
SpfGrid == [left |-> 30000, top |-> 140000, right |-> 970000, bottom |-> 220000, rows |-> 1, cols |-> 3]
HtftGrid == [left |-> 30000, top |-> 250000, right |-> 515000, bottom |-> 970000, rows |-> 2, cols |-> 1]
MCGrids == [g1 |-> [SPF |-> SpfGrid, HTFT |-> HtftGrid]]

Rect(left, top, right, bottom) == [left |-> left, top |-> top, right |-> right, bottom |-> bottom]
PageRects == <<Rect(0, 0, 4, 3), Rect(4, 0, 8, 3), Rect(8, 0, 12, 3), Rect(0, 5, 4, 8), Rect(0, 8, 4, 11)>>
Profile(id, presence, geometry, spans) ==
    [id |-> id, width |-> 12, height |-> 12, spans |-> spans, presence |-> presence, geometry |-> geometry,
     regions |-> [SPF |-> Rect(0, 0, 12, 3), HTFT |-> Rect(0, 5, 12, 12)]]
There == [SPF |-> "AVAILABLE", HTFT |-> "AVAILABLE"]
NoHtft == [There EXCEPT !.HTFT = "UNAVAILABLE"]
Full == Profile("full", There, PageRects, {<<3, 5>>})
Short == Profile("short", NoHtft, [c \in 1..5 |-> IF c > 3 THEN None ELSE PageRects[c]], {<<3, 5>>, <<8, 10>>})
MCProfiles == {Full, Short}
Dark(spans) == [y \in 1..12 |-> \E s \in spans : s[1] < y /\ y <= s[2]]

Reading(text) == [valid |-> TRUE, contradiction |-> "NONE", text |-> text, candidates |-> {text}]
Evidence == [c \in {1} |-> Reading(2)] @@ [c \in {2} |-> [Reading(2) EXCEPT !.candidates = {2, 3}]]
            @@ [c \in {3} |-> Reading(-1)] @@ [c \in {4} |-> [Reading(2) EXCEPT !.contradiction = "CONFLICTED"]]
            @@ [c \in {5} |-> Reading(4)]
Screen(width, height) ==
    [contract |-> "1.0", profile |-> "g1", regions |-> MCGrids.g1, imageWidth |-> 12, dark |-> Dark({<<3, 5>>}),
     width |-> width, height |-> height, availability |-> <<>>, fields |-> None, absent |-> {}, evidence |-> Evidence]
NewScreen == [Screen(12, 12) EXCEPT !.contract = "1.1"]
MCSources ==
    {Screen(w, h) : w \in {7, 100, 1081}, h \in {9, 1999}}
    \cup {NewScreen, [NewScreen EXCEPT !.dark = Dark({<<4, 6>>})], [NewScreen EXCEPT !.dark = Dark({<<3, 5>>, <<8, 10>>})],
          [NewScreen EXCEPT !.dark = Dark({<<5, 7>>})], [NewScreen EXCEPT !.width = 11],
          [NewScreen EXCEPT !.fields = [htft |-> "AVAILABLE", half_full |-> "UNAVAILABLE"]],
          [NewScreen EXCEPT !.fields = <<>>], [NewScreen EXCEPT !.absent = {2}],
          [NewScreen EXCEPT !.availability = [HTFT |-> "UNAVAILABLE"]],
          [NewScreen EXCEPT !.evidence[1] = Reading(Garbled), !.evidence[2] = Reading(2)],
          [NewScreen EXCEPT !.evidence[2] = Reading(2)], [NewScreen EXCEPT !.evidence[4] = Reading(2)],
          [NewScreen EXCEPT !.evidence[5] = Reading(Garbled)],
          [NewScreen EXCEPT !.evidence[2].valid = FALSE], [Screen(12, 12) EXCEPT !.regions = <<>>]}
MCExpected == [SPF |-> 1, HTFT |-> 1]

\* The reviews start from these: the first lacks a value of HTFT, the second is not
\* recognized, the third lacks one of SPF.
Reviewed ==
    <<[NewScreen EXCEPT !.evidence[2] = Reading(2)], [NewScreen EXCEPT !.dark = Dark({<<5, 7>>})],
      [NewScreen EXCEPT !.evidence[4] = Reading(2)]>>

-----------------------------------------------------------------------------
(* The reviews. *)

Text(value, fraction) == [value |-> value, whole |-> 1, fraction |-> fraction, points |-> 1, zeroLed |-> FALSE]
MCTexts == {Text(15000, 1), Text(15000, 2), Text(15000, 0)}
HtftItem == <<1, 4>>
SpfItem == <<3, 2>>
Answer(c, crop_, status, value) ==
    [id |-> c, crop |-> crop_, method |-> "CHATGPT_ASSISTED_VISUAL_REVIEW", status |-> status, value |-> value]
MCAnswers ==
    {Answer(SpfItem, SpfItem, "CHATGPT_CONFIRMED", Text(15000, 1)), Answer(SpfItem, HtftItem, "CHATGPT_UNREADABLE", None),
     Answer(SpfItem, SpfItem, "CHATGPT_CONFIRMED", None), Answer(HtftItem, HtftItem, "CHATGPT_CONFIRMED", Text(15000, 1)),
     Answer(HtftItem, HtftItem, "CHATGPT_UNREADABLE", None)}
MCEngines == {{}, {"tesseract"}}

Bound(ocr_) == [ocr |-> ocr_, hashes |-> TRUE, crop |-> TRUE, raw |-> TRUE]
MCBindings == [p \in Items |-> Bound(CASE p = HtftItem -> 1 [] p = SpfItem -> Garbled [] OTHER -> None)]
Reply(status, value, label) == [kind |-> "object", status |-> status, value |-> value, label |-> label, evidence |-> TRUE]
MCReplies ==
    {Reply("READABLE", 1, "hh"), Reply("READABLE", 2, "hh"), Reply("READABLE", 1, "d"), Reply("AMBIGUOUS", None, None),
     [Reply("NOT_EXECUTED", None, None) EXCEPT !.kind = "error"]}

-----------------------------------------------------------------------------
MCImages == [1..2 -> [0..1 -> Bytes]]
Transform(kind, factor) == [kind |-> kind, factor |-> factor]
MCTransforms ==
    {Transform("original", 1), Transform("gray", 2), Transform("gray", 4), Transform("contrast", 4),
     Transform("threshold", 2), Transform("threshold", 4), Transform("sharpen", 4)}

\* What is prepared are the rows, which are the same for every choice of filters: one is enough.
PreparedOnce == prepared' # prepared => \A r \in DOMAIN filters : filters[r] = 0

BackfillInit ==
    /\ focus \in {"staging", "cells", "ocr", "visual", "png"}
    /\ StagingInit /\ TraceInit /\ OcrInit /\ VisualInit
    /\ IF focus = "png" THEN PngInit
       ELSE image = <<>> /\ filters = <<>> /\ rows = <<>> /\ layout = <<>> /\ prepared = <<>>


\* The queue of the reviews is <<HtftItem, SpfItem>>.
ReviewedSources == focus # "cells" => \A s \in Slots : sources'[s] \in {None, Reviewed[s]}

BackfillNext ==
    /\ UNCHANGED focus
    /\ \/ focus = "staging" /\ StagingNext /\ UNCHANGED <<traceVars, ocrVars, visualVars, pngVars>>
       \/ focus \in {"cells", "ocr", "visual"} /\ TraceNext /\ ReviewedSources /\ UNCHANGED <<stagingVars, ocrVars, visualVars, pngVars>>
       \/ focus = "ocr" /\ OcrNext /\ UNCHANGED <<stagingVars, visualVars, pngVars>>
       \/ focus = "visual" /\ VisualNext /\ UNCHANGED <<stagingVars, ocrVars, pngVars>>
       \/ focus = "png" /\ PngNext /\ PreparedOnce /\ UNCHANGED <<stagingVars, traceVars, ocrVars, visualVars>>

backfillVars == <<focus, stagingVars, traceVars, ocrVars, visualVars, pngVars>>
BackfillSpec == BackfillInit /\ [][BackfillNext]_backfillVars

-----------------------------------------------------------------------------
\* From a recognized screenshot to the imported answers no cell is lost: cells tile
\* the page, the queue has what has no value, and every queued cell is answered.
CellsAreAccounted == CellsTile /\ QueueHasTheRest /\ EveryCellIsAnswered

\* Both decoders return the image, and engines are given what was made of it.
ImagesAreRead == DecodersAgree /\ PreparedIsOfTheImage
=============================================================================
