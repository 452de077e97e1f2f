------------------------------- MODULE PngRows -------------------------------
(* The pixels that the OCR engines get: a crop's rows are taken out of the   *)
(* PNG filters and prepared (enlarged, stretched, thresholded, sharpened).   *)
(* Two decoders were written for the same format, one for the crops and one  *)
(* for the layout of whole images.  A byte has ByteSize values; the PNG's    *)
(* chunks and its compression are left out.                                  *)
EXTENDS Integers, Sequences, FiniteSets, FiniteSetsExt

CONSTANTS
    ByteSize,      \* 256
    Channels,      \* bytes of a pixel
    Images,        \* sequences of rows, a row a function on 0..(stride - 1)
    Transforms,    \* set of [kind, factor]: gray_4x is kind "gray" and factor 4
    Radius, Bias   \* of the adaptive threshold

ASSUME ByteAssumption ==
    /\ ByteSize \in Nat /\ ByteSize >= 2 /\ Channels \in Nat \ {0}
    /\ Radius \in Nat /\ Bias \in Int

Bytes == 0..(ByteSize - 1)

\* The rows of an image have one length, and a PNG has at least one pixel.
Rows(stride) == [0..(stride - 1) -> Bytes]
ASSUME ImagesAssumption ==
    \A img \in Images :
        LET stride == Cardinality(DOMAIN img[1])
        IN  stride \in Nat \ {0} /\ Len(img) >= 1 /\ img \in Seq(Rows(stride))
ASSUME TransformsAssumption ==
    \A t \in Transforms : /\ t.kind \in {"original", "gray", "contrast", "threshold", "sharpen"}
                          /\ t.factor \in Nat \ {0}

VARIABLES
    image,      \* what was encoded
    filters,    \* the filter that the encoder took for each row
    rows,       \* the rows decoded so far by the decoder of the crops
    layout,     \* and by that of the layouts
    prepared    \* [transform, source, pixels], or <<>>
pngVars == <<image, filters, rows, layout, prepared>>

Distance(a, b) == IF a >= b THEN a - b ELSE b - a
Before(row, i) == IF i >= Channels THEN row[i - Channels] ELSE 0
Blank(row) == [i \in DOMAIN row |-> 0]

-----------------------------------------------------------------------------
(* The encoder, by the PNG standard: of left, up and upper left the nearest  *)
(* to their estimate, in this order when they tie.                           *)
Paeth(left, up, corner) ==
    LET order == <<left, up, corner>>
        far(k) == Distance(left + up - corner, order[k])
    IN  order[CHOOSE k \in 1..3 : \A j \in 1..3 : far(k) < far(j) \/ (far(k) = far(j) /\ k <= j)]

EncodedRow(filter, row, prior) ==
    [i \in DOMAIN row |->
        LET left == Before(row, i)
            guess == CASE filter = 0 -> 0
                       [] filter = 1 -> left
                       [] filter = 2 -> prior[i]
                       [] filter = 3 -> (left + prior[i]) \div 2
                       [] filter = 4 -> Paeth(left, prior[i], Before(prior, i))
        IN  (row[i] - guess) % ByteSize]

-----------------------------------------------------------------------------
(* The decoders. *)

\* Mutant: left must be nearer than the corner.
PredictorStrict(left, up, corner) ==
    LET pa == Distance(left + up - corner, left)
        pb == Distance(left + up - corner, up)
        pc == Distance(left + up - corner, corner)
    IN  IF pa <= pb /\ pa < pc THEN left ELSE IF pb <= pc THEN up ELSE corner

Predictor(left, up, corner) ==
    LET pa == Distance(left + up - corner, left)
        pb == Distance(left + up - corner, up)
        pc == Distance(left + up - corner, corner)
    IN  IF pa <= pb /\ pa <= pc THEN left ELSE IF pb <= pc THEN up ELSE corner

\* distances.index(min(distances)).
LayoutPredictor(left, up, corner) ==
    LET distances == <<Distance(left + up - corner, left), Distance(left + up - corner, up),
                       Distance(left + up - corner, corner)>>
        least == Min({distances[k] : k \in 1..3})
    IN  <<left, up, corner>>[Min({k \in 1..3 : distances[k] = least})]

DecodedRow(decoder, filter, raw, prior) ==
    LET predict(left, up, corner) ==
            IF decoder = "crops" THEN Predictor(left, up, corner)
            ELSE LayoutPredictor(left, up, corner)
        current[i \in DOMAIN raw] ==
            LET left == IF i >= Channels THEN current[i - Channels] ELSE 0
                guess == CASE filter = 0 -> 0
                           [] filter = 1 -> left
                           [] filter = 2 -> prior[i]
                           [] filter = 3 -> (left + prior[i]) \div 2
                           [] filter = 4 -> predict(left, prior[i], Before(prior, i))
            IN  (raw[i] + guess) % ByteSize
    IN  current

-----------------------------------------------------------------------------
(* The transforms, on rows of one byte a pixel; x and y count from 0. *)

Height(pixels) == Len(pixels)
Width(pixels) == Cardinality(DOMAIN pixels[1])
At(pixels, x, y) == pixels[y + 1][x]

Resized(pixels, factor) ==
    [r \in 1..(Height(pixels) * factor) |->
        [x \in 0..(Width(pixels) * factor - 1) |-> At(pixels, x \div factor, (r - 1) \div factor)]]

\* To the nearest, and of two to the even one, as Python rounds.
RoundedEven(n, d) ==
    LET low == n \div d
        twice == 2 * (n % d)
    IN  IF twice < d \/ (twice = d /\ low % 2 = 0) THEN low ELSE low + 1

Contrast(pixels) ==
    LET values == UNION {{pixels[r][x] : x \in DOMAIN pixels[r]} : r \in DOMAIN pixels}
        low == Min(values)
        high == Max(values)
    IN  IF high <= low THEN pixels
        ELSE [r \in DOMAIN pixels |-> [x \in DOMAIN pixels[r] |->
                RoundedEven((pixels[r][x] - low) * (ByteSize - 1), high - low)]]

\* The sums of a row up to each of its pixels.
RowSums(pixels, y) ==
    LET sum[x \in 0..Width(pixels)] == IF x = 0 THEN 0 ELSE sum[x - 1] + At(pixels, x - 1, y)
    IN  sum

\* The sums of what is above and left, row by row.
Integral(pixels) ==
    LET sums[y \in 0..Height(pixels)] ==
            IF y = 0 THEN [x \in 0..Width(pixels) |-> 0]
            ELSE LET row == RowSums(pixels, y - 1)
                 IN  [x \in 0..Width(pixels) |-> sums[y - 1][x] + row[x]]
    IN  sums

Larger(a, b) == IF a >= b THEN a ELSE b
Smaller(a, b) == IF a <= b THEN a ELSE b

Window(pixels, x, y) ==
    [top |-> Larger(0, y - Radius), left |-> Larger(0, x - Radius),
     bottom |-> Smaller(Height(pixels), y + Radius + 1), right |-> Smaller(Width(pixels), x + Radius + 1)]

Threshold(pixels) ==
    LET sum == Integral(pixels)
        white(x, y) ==
            LET w == Window(pixels, x, y)
                total == sum[w.bottom][w.right] - sum[w.top][w.right] - sum[w.bottom][w.left] + sum[w.top][w.left]
                area == (w.bottom - w.top) * (w.right - w.left)
            IN  (At(pixels, x, y) + Bias) * area >= total
    IN  [r \in DOMAIN pixels |-> [x \in DOMAIN pixels[r] |-> IF white(x, r - 1) THEN ByteSize - 1 ELSE 0]]

\* The edge keeps its pixels.
Sharpened(pixels) ==
    [r \in DOMAIN pixels |-> [x \in DOMAIN pixels[r] |->
        IF r \in {1, Height(pixels)} \/ x \in {0, Width(pixels) - 1} THEN pixels[r][x]
        ELSE LET value == 5 * pixels[r][x] - pixels[r - 1][x] - pixels[r + 1][x]
                             - pixels[r][x - 1] - pixels[r][x + 1]
             IN  Larger(0, Smaller(ByteSize - 1, value))]]

Prepared(pixels, transform) ==
    LET larger == Resized(pixels, transform.factor)
    IN  CASE transform.kind = "original" -> pixels
          [] transform.kind = "gray" -> larger
          [] transform.kind = "contrast" -> Contrast(larger)
          [] transform.kind = "threshold" -> Threshold(larger)
          [] transform.kind = "sharpen" -> Sharpened(larger)

-----------------------------------------------------------------------------
PngInit ==
    /\ image \in Images
    /\ filters \in [DOMAIN image -> 0..4]
    /\ rows = <<>> /\ layout = <<>> /\ prepared = <<>>

\* A row is decoded from the one that was decoded before it.
DecodeRow ==
    LET r == Len(rows) + 1
        prior == IF r = 1 THEN Blank(image[1]) ELSE image[r - 1]
        raw == EncodedRow(filters[r], image[r], prior)
        last(decoded) == IF r = 1 THEN Blank(raw) ELSE decoded[r - 1]
    IN  /\ r <= Len(image)
        /\ rows' = Append(rows, DecodedRow("crops", filters[r], raw, last(rows)))
        /\ layout' = Append(layout, DecodedRow("layout", filters[r], raw, last(layout)))
        /\ UNCHANGED <<image, filters, prepared>>

Prepare(transform) ==
    /\ Len(rows) = Len(image) /\ prepared = <<>> /\ Channels = 1
    /\ prepared' = [transform |-> transform, pixels |-> Prepared(rows, transform)]
    /\ UNCHANGED <<image, filters, rows, layout>>

PngNext == DecodeRow \/ \E transform \in Transforms : Prepare(transform)

-----------------------------------------------------------------------------
\* Both decoders give back the rows that were encoded, under every choice of filters
\* (_read_png, _png_rows).
DecodersAgree ==
    \A r \in DOMAIN rows : rows[r] = image[r] /\ layout[r] = image[r]

\* What an engine is given is made of bytes, and a pixel is white in the thresholded
\* image just when it is not darker by more than the bias than the mean of the pixels
\* around it (_adaptive_threshold, with its sums of sums).
PreparedIsOfTheImage ==
    prepared # <<>> =>
        LET pixels == prepared.pixels
            source == Resized(image, prepared.transform.factor)
            near(x, y) == {p \in (0..(Width(source) - 1)) \X (0..(Height(source) - 1)) :
                                Distance(p[1], x) <= Radius /\ Distance(p[2], y) <= Radius}
        IN  /\ \A r \in DOMAIN pixels : \A x \in DOMAIN pixels[r] : pixels[r][x] \in Bytes
            /\ prepared.transform.kind = "threshold" =>
                \A r \in DOMAIN pixels : \A x \in DOMAIN pixels[r] :
                    pixels[r][x] = (ByteSize - 1) <=>
                        Cardinality(near(x, r - 1)) * (source[r][x] + Bias)
                            >= MapThenSumSet(LAMBDA p : At(source, p[1], p[2]), near(x, r - 1))
=============================================================================
