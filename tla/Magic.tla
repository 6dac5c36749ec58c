--------------------------------- MODULE Magic ---------------------------------
(***************************************************************************)
(* Clean-up of a scanned image (sanei_magic.c): spots are removed, the     *)
(* edges of the medium are found and the image is cropped to them, all in  *)
(* the buffer the image is in.                                             *)
(*                                                                         *)
(* The buffer is a sequence: bytes of a "rgb" or a "gray" image, bits of a *)
(* "lineart" one (gray of depth 1), the highest bit of a byte first;       *)
(* offsets into it count from 0 as in C.  The skew (findSkew, rotate) is   *)
(* floating-point geometry and is not here.                                *)
(***************************************************************************)
EXTENDS Integers, Sequences, FiniteSets, FiniteSetsExt

CONSTANTS
    Images,         \* [p |-> parameters, buf |-> samples, medium |-> the edges of the medium,
                    \* NoEdges for an image with just marks, dirt |-> spots around it]
    Diams,          \* diameters of a spot
    Dpis            \* resolutions

WinLen == 9             \* winLen

Depth(p) == IF p.format = "rgb" THEN 3 ELSE 1
SamplesPerLine(p) == IF p.format = "lineart" THEN 8 * p.bpl ELSE p.bpl

\* Parameters: format, ppl (pixels_per_line), bpl (bytes_per_line), lines.
ParameterSet ==
    [format : {"rgb", "gray", "lineart", "other"}, ppl : Nat, bpl : Nat, lines : Nat]
SamplesOf(p) == IF p.format = "lineart" THEN {0, 1} ELSE 0 .. 255

\* A line holds its pixels, and the buffer the lines.
ASSUME MagicAssumption ==
    /\ \A m \in Images :
         /\ m.p \in ParameterSet /\ m.p.ppl * Depth(m.p) <= SamplesPerLine(m.p)
         /\ m.buf \in Seq(SamplesOf(m.p)) /\ Len(m.buf) = m.p.lines * SamplesPerLine(m.p)
    /\ Diams \subseteq Nat \ {0} /\ Dpis \subseteq Nat

VARIABLES
    image,          \* the image at first
    params, buffer,
    edges,          \* what findEdges has set: top, bot, left, right
    magicStatus,    \* of the last call
    spot,           \* the diameter spots were removed with, 0: not yet
    done            \* "edges", "crop": the calls so far

magicVars == <<image, params, buffer, edges, magicStatus, spot, done>>

NoEdges == [top |-> 0, bot |-> 0, left |-> 0, right |-> 0]

Abs(n) == IF n < 0 THEN -n ELSE n
Quot(a, b) == IF a < 0 THEN -((-a) \div b) ELSE a \div b    \* C's division
Supported(p) == p.format # "other"

\* An array of n elements, as a sequence that is evaluated once.
Array(n, element(_)) == <<>> \o [i \in 1 .. n |-> element(i - 1)]

\* The sum over the channels of a pixel.
PixelAt(p, buf, at) ==
    IF p.format = "rgb" THEN buf[at + 1] + buf[at + 2] + buf[at + 3] ELSE buf[at + 1]
Pixel(p, buf, q) == PixelAt(p, buf, q[1] * SamplesPerLine(p) + q[2] * Depth(p))

-----------------------------------------------------------------------------
(* sanei_magic_despeck.                                                    *)

\* The windows in the order they are visited: the first and the last line and
\* column are left out, so that there is something around each of them.
WindowsOf(p, diam) ==
    LET w == Max({0, p.ppl - 2 - diam})
        h == Max({0, p.lines - 2 - diam})
    IN [i \in 1 .. w * h |-> <<1 + (i - 1) \div w, 1 + ((i - 1) % w)>>]

Window(at, diam) == (at[1] .. at[1] + diam - 1) \X (at[2] .. at[2] + diam - 1)
Ring(at, diam) ==
    ((at[1] - 1 .. at[1] + diam) \X (at[2] - 1 .. at[2] + diam)) \ Window(at, diam)

Copied_OneLate(buf, to, piece) ==
    SubSeq(buf, 1, to + 1) \o piece \o SubSeq(buf, to + Len(piece) + 2, Len(buf))

\* memcpy of samples to an offset.
Copied(buf, to, piece) == SubSeq(buf, 1, to) \o piece \o SubSeq(buf, to + Len(piece) + 1, Len(buf))

Isolated_HalfRing(p, buf, at, diam) ==
    LET half == {q \in Ring(at, diam) : q[1] = at[1] - 1 \/ q[2] = at[2] - 1}
    IN /\ \E q \in Window(at, diam) : Pixel(p, buf, q) = 1
       /\ \A q \in half : Pixel(p, buf, q) = 0

\* Nothing around the window is about as dark as the darkest pixel in it (lineart:
\* there is black in it and none around it).
Isolated(p, buf, at, diam) ==
    LET white == 255 * Depth(p)
        darkest == Min({white} \cup {Pixel(p, buf, q) : q \in Window(at, diam)})
    IN IF p.format = "lineart"
       THEN /\ \E q \in Window(at, diam) : Pixel(p, buf, q) = 1
            /\ \A q \in Ring(at, diam) : Pixel(p, buf, q) = 0
       ELSE \A q \in Ring(at, diam) : Pixel(p, buf, q) >= (darkest + 2 * white) \div 3

\* The window painted line by line.
Painted(p, buf, at, diam, line) ==
    LET lines[k \in 0 .. diam] ==
          IF k = 0 THEN buf
          ELSE Copied(lines[k - 1], (at[1] + k - 1) * SamplesPerLine(p) + at[2] * Depth(p), line)
    IN lines[diam]

\* The average of a channel around a window.
Average(p, buf, at, diam, n) ==
    MapThenSumSet(LAMBDA q : buf[q[1] * p.bpl + q[2] * Depth(p) + n + 1], Ring(at, diam))
      \div (4 * diam + 4)

\* An isolated window becomes white (lineart) or the average of what is around it,
\* channel by channel.
Despecked(p, buf, at, diam) ==
    LET paint == [n \in 0 .. Depth(p) - 1 |->
                    IF p.format = "lineart" THEN 0 ELSE Average(p, buf, at, diam, n)]
        line == [i \in 1 .. diam * Depth(p) |-> paint[(i - 1) % Depth(p)]]
    IN IF Isolated(p, buf, at, diam) THEN Painted(p, buf, at, diam, line) ELSE buf

\* Window after window, each on what the ones before it have left.
AllDespecked(p, buf, diam) ==
    LET at == WindowsOf(p, diam)
        after[i \in 0 .. Len(at)] ==
          IF i = 0 THEN buf
          ELSE CHOOSE b \in {Despecked(p, before, at[i], diam) : before \in {after[i - 1]}} : TRUE
    IN after[Len(at)]

Despeck(diam) ==
    /\ done = {} /\ spot = 0
    /\ spot' = diam
    /\ magicStatus' = IF Supported(params) THEN "good" ELSE "inval"
    /\ buffer' = IF Supported(params) THEN AllDespecked(params, buffer, diam) ELSE buffer
    /\ UNCHANGED <<image, params, edges, done>>

-----------------------------------------------------------------------------
(* sanei_magic_getTransY, getTransX: the first change of color in each     *)
(* column or line.                                                         *)

\* The k-th position from an edge of n.
From(k, n, up) == IF up THEN k ELSE n - 1 - k
\* The value of a line where nothing changes.
Impossible(n, up) == IF up THEN n ELSE -1

\* Windows of WinLen pixels, the near one at the position and the far one before
\* it, both filled with the first pixel.  px gives the pixels from the edge on;
\* off is what the windows hold more than that.
Changes(px, k, off, depth) ==
    LET sum(i) == off + MapThenSumSet(LAMBDA w : px[Max({i - w, 0}) + 1], 0 .. WinLen - 1)
        near == sum(k)
        far == IF k > WinLen THEN sum(k - WinLen) ELSE off + WinLen * px[1]
    IN Abs(near - far) > 50 * WinLen * depth - Quot(near * 40, 255)

\* The first position k > 0 of a column or a line where it changes.
FirstChange(p, px, up, off) ==
    LET changes(k) == IF p.format = "lineart" THEN px[k + 1] # px[1] ELSE Changes(px, k, off, Depth(p))
        S == {k \in 1 .. Len(px) - 1 : changes(k)}
    IN IF S = {} THEN Impossible(Len(px), up) ELSE From(Min(S), Len(px), up)

\* Changes with fewer than two of the next seven within half an inch are dropped.
Neighbours(trans, none, dpi) ==
    Array(Len(trans), LAMBDA i :
       IF i + 7 < Len(trans)
          /\ Cardinality({j \in 1 .. 7 : Abs(trans[i + j + 1] - trans[i + 1]) < dpi \div 2}) < 2
       THEN none ELSE trans[i + 1])

\* The columns.  It takes the lines to be as long as the pixels make them: of a
\* lineart image the byte is the one of the whole image, the bit that of the column.
TransY(p, buf, dpi, up) ==
    LET at(j, i) == IF p.format = "lineart" THEN 8 * ((j * p.ppl + i) \div 8) + (i % 8)
                    ELSE (j * p.ppl + i) * Depth(p)
        column(i) == Array(p.lines, LAMBDA k : PixelAt(p, buf, at(From(k, p.lines, up), i)))
        trans == Array(p.ppl, LAMBDA i : FirstChange(p, column(i), up, 0))
    IN Neighbours(trans, Impossible(p.lines, up), dpi)

\* The lines.  From the right too, the windows are filled with the leftmost pixel.
TransX(p, buf, dpi, up) ==
    LET line(i) == Array(p.ppl, LAMBDA k : Pixel(p, buf, <<i, From(k, p.ppl, up)>>))
        off(i) == WinLen * (Pixel(p, buf, <<i, 0>>) - Pixel(p, buf, <<i, From(0, p.ppl, up)>>))
        trans == Array(p.lines, LAMBDA i : FirstChange(p, line(i), up, off(i)))
    IN Neighbours(trans, Impossible(p.ppl, up), dpi)

-----------------------------------------------------------------------------
(* sanei_magic_findEdges.                                                  *)

FirstRun_ItsEnd(good, up) ==
    LET n == Len(good)
        runs == {k \in 0 .. n - 1 : \A i \in k .. Min({k + 3, n - 1}) : good[From(i, n, up) + 1]}
    IN IF runs = {} THEN Impossible(n, up) ELSE From(Min({Min(runs) + 3, n - 1}), n, up)

\* From an edge of n on: where the first four in a row begin that are good, or else
\* the ones that reach the other edge.
FirstRun(good, up) ==
    LET n == Len(good)
        runs == {k \in 0 .. n - 1 : \A i \in k .. Min({k + 3, n - 1}) : good[From(i, n, up) + 1]}
    IN IF runs = {} THEN Impossible(n, up) ELSE From(Min(runs), n, up)

\* The edges, outside of each other when there are none.  Nothing above the top or
\* below the bottom counts for the sides.
EdgesOf(p, buf, dpi) ==
    LET topBuf == TransY(p, buf, dpi, TRUE)
        botBuf == TransY(p, buf, dpi, FALSE)
        leftBuf == TransX(p, buf, dpi, TRUE)
        rightBuf == TransX(p, buf, dpi, FALSE)
        line == Array(p.lines, LAMBDA i : rightBuf[i + 1] > leftBuf[i + 1])
        top == FirstRun(line, TRUE)
        bot == FirstRun(line, FALSE)
        column == Array(p.ppl, LAMBDA i :
          /\ botBuf[i + 1] > topBuf[i + 1]
          /\ botBuf[i + 1] - 10 < bot \/ topBuf[i + 1] + 10 > top)
    IN [top |-> top, bot |-> bot, left |-> FirstRun(column, TRUE), right |-> FirstRun(column, FALSE)]

FindEdges(dpi) ==
    /\ "edges" \notin done
    /\ done' = done \cup {"edges"}
    /\ IF ~Supported(params) THEN magicStatus' = "no_mem" /\ UNCHANGED edges
       ELSE \E e \in {EdgesOf(params, buffer, dpi)} :
              IF e.top > e.bot
              THEN magicStatus' = "unsupported" /\ edges' = [edges EXCEPT !.top = e.top, !.bot = e.bot]
              ELSE /\ magicStatus' = IF e.left > e.right THEN "unsupported" ELSE "good"
                   /\ edges' = e
    /\ UNCHANGED <<image, params, buffer, spot>>

-----------------------------------------------------------------------------
(* sanei_magic_crop.                                                       *)

Cropped_Whole(p, left, right) ==
    IF p.format = "lineart"
    THEN [from |-> left, samples |-> right - left, ppl |-> right - left, bpl |-> (right - left) \div 8]
    ELSE [from |-> left * Depth(p), samples |-> (right - left) * Depth(p),
          ppl |-> right - left, bpl |-> (right - left) * Depth(p)]

\* The part of a line that is kept; of a lineart image whole bytes.
Cropped(p, left, right) ==
    IF p.format = "lineart"
    THEN LET bytes == (right + 7) \div 8 - left \div 8
         IN [from |-> 8 * (left \div 8), samples |-> 8 * bytes, ppl |-> 8 * bytes, bpl |-> bytes]
    ELSE [from |-> left * Depth(p), samples |-> (right - left) * Depth(p),
          ppl |-> right - left, bpl |-> (right - left) * Depth(p)]

\* That part of so many lines from the top, moved to the front line by line.
MovedToFront(p, buf, top, count, part) ==
    LET lines[n \in 0 .. count] ==
          IF n = 0 THEN buf
          ELSE LET from == (top + n - 1) * SamplesPerLine(p) + part.from
               IN Copied(lines[n - 1], (n - 1) * part.samples,
                         SubSeq(lines[n - 1], from + 1, from + part.samples))
    IN lines[count]

Crop(top, bot, left, right) ==
    LET part == Cropped(params, left, right)
    IN /\ "crop" \notin done
       /\ done' = done \cup {"crop"}
       /\ IF ~Supported(params) THEN magicStatus' = "inval" /\ UNCHANGED <<params, buffer>>
          ELSE /\ magicStatus' = "good"
               /\ buffer' = MovedToFront(params, buffer, top, bot - top, part)
               /\ params' = [params EXCEPT !.lines = bot - top, !.ppl = part.ppl, !.bpl = part.bpl]
       /\ UNCHANGED <<image, edges, spot>>

-----------------------------------------------------------------------------
MagicInit ==
    /\ image \in Images
    /\ params = image.p /\ buffer = image.buf
    /\ edges = NoEdges /\ magicStatus = "good" /\ spot = 0 /\ done = {}

\* An application crops to the edges when they were found.
MagicNext ==
    \/ \E diam \in Diams : Despeck(diam)
    \/ \E dpi \in Dpis : "crop" \notin done /\ FindEdges(dpi)
    \/ /\ "edges" \in done /\ (magicStatus = "good" \/ ~Supported(params))
       /\ Crop(edges.top, edges.bot, edges.left, edges.right)

MagicSpec == MagicInit /\ [][MagicNext]_magicVars

-----------------------------------------------------------------------------
(* Properties.                                                             *)

\* The parameters describe what is in the buffer, and edges that were found are
\* inside of the image they were found in.
MagicTypeOK ==
    /\ magicStatus \in {"good", "inval", "no_mem", "unsupported"}
    /\ params.lines * SamplesPerLine(params) <= Len(buffer)
    /\ params.ppl * Depth(params) <= SamplesPerLine(params)
    /\ "edges" \in done /\ magicStatus = "good" =>
         /\ 0 <= edges.top /\ edges.top <= edges.bot /\ edges.bot < image.p.lines
         /\ 0 <= edges.left /\ edges.left <= edges.right /\ edges.right < image.p.ppl

Black(m) ==
    {q \in (0 .. m.p.lines - 1) \X (0 .. m.p.ppl - 1) : Pixel(m.p, m.buf, q) = 1}

\* The black pixels that hang together with one of them, corners included: with
\* each step the ones beside those there are, until there are no more.
Beside(r, s) == Abs(r[1] - s[1]) <= 1 /\ Abs(r[2] - s[2]) <= 1
With(black, S) == UNION {{r \in black : Beside(r, s)} : s \in S}
Mark(black, q) ==
    LET grown[n \in 0 .. Cardinality(black)] == IF n = 0 THEN {q} ELSE With(black, grown[n - 1])
    IN grown[Cardinality(black)]

Fits(S, diam) ==
    \A r, s \in S : Abs(r[1] - s[1]) < diam /\ Abs(r[2] - s[2]) < diam

\* What despeck removes of a lineart image are spots: a mark that does not fit in a
\* square of the diameter keeps every pixel, in whatever order the windows come
\* and whatever was removed around it before (sanei_magic_despeck works in place).
MarksKept ==
    spot # 0 /\ done = {} /\ params.format = "lineart" =>
      LET black == Black(image) IN
      \A q \in black :
        Pixel(params, buffer, q) = 0 => Fits(Mark(black, q), spot)

\* A crop keeps exactly the samples of the image between the edges: lines are moved
\* within the buffer before the ones behind them are read (sanei_magic_crop).
CropIsInPlace ==
    "crop" \in done /\ spot = 0 /\ magicStatus = "good" =>
      LET c == Cropped(image.p, edges.left, edges.right) IN
      \A y \in 0 .. params.lines - 1, x \in 0 .. SamplesPerLine(params) - 1 :
        buffer[y * SamplesPerLine(params) + x + 1]
          = image.buf[(edges.top + y) * SamplesPerLine(image.p) + c.from + x + 1]

\* No line is longer than its pixels need.
Packed(p) == SamplesPerLine(p) = p.ppl * Depth(p)

Near(a, b, d) ==
    \A side \in {"top", "bot", "left", "right"} : Abs(a[side] - b[side]) <= d

\* The edges that are found are the ones of the medium, from all four sides - with
\* spots around it, when they were removed before: in lineart to the pixel, else
\* within two, where the near window has seen enough of the new color
\* (sanei_magic_getTransX, getTransY, findEdges).  Only a packed image is read right.
EdgesOfMedium ==
    (/\ done = {"edges"} /\ magicStatus = "good"
     /\ image.medium # NoEdges /\ Packed(image.p) /\ (image.dirt => spot # 0))
      => Near(edges, image.medium, IF params.format = "lineart" THEN 0 ELSE 2)

\* The steps that backends apply to a finished image keep what belongs to it: despeck
\* the marks, crop the samples of every image, wherever its edges are.
MagicSafe == MagicTypeOK /\ MarksKept /\ CropIsInPlace
=============================================================================
