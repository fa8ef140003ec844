--------------------------- MODULE ScreenshotImage ---------------------------
(***************************************************************************)
(* What happens to a screenshot between the Printing Service and the disk: *)
(* cropPngBuffer of lib/audit-screenshots.js and addTextHeaderToPng of     *)
(* lib/audit-screenshot-metadata-image.js.                                 *)
(*                                                                         *)
(* A picture is the columns and the rows of the rendered image that it     *)
(* shows, each a sequence of numbers: copying a block of pixels is taking  *)
(* a part of a sequence, and taking more than there is an error.  Bitmaps  *)
(* and their encodings are told apart where the code keeps both.           *)
(***************************************************************************)
EXTENDS Integers, Sequences, FiniteSetsExt

CONSTANTS
    Sizes,      \* the sizes of the images that are rendered, width and height
    HeaderLines \* the metadata headers, each its lines' numbers of characters

ASSUME ScreenshotImageAssumption ==
    /\ Sizes \subseteq (Nat \ {0}) \X (Nat \ {0})
    /\ HeaderLines \subseteq Seq(Nat)

\* The crop rectangle of an event, in halves of a pixel: any numbers.
Crop == [{"top", "left", "width", "height", "scrollTop", "scrollAreaOffsetY",
          "renderingOverflow"} -> Int]

Rendered(w, h) == [cols |-> [x \in 1..w |-> x], rows |-> [y \in 1..h |-> y]]
Width(p) == Len(p.cols)
Height(p) == Len(p.rows)

Smaller(a, b) == IF a <= b THEN a ELSE b
Larger(a, b) == IF a >= b THEN a ELSE b

\* normalizeCrop: whole pixels, none of them negative.  Crop rectangles come in
\* halves of a pixel.
Pixels(halves) == Larger(0, halves \div 2)
NormalizeCrop(crop) == [f \in DOMAIN crop |-> Pixels(crop[f])]

-----------------------------------------------------------------------------
(* The working image: the bitmap, and an encoding of it if there is one.   *)

NotEncoded == [cols |-> <<>>, rows |-> <<>>]
Working(bitmap, encoded) == [src |-> bitmap, srcBytes |-> encoded]

\* Mutant: the encoding of the image before stays.
SetSrcMutant(work, bitmap) == [work EXCEPT !.src = bitmap]

\* setSrc: with the image goes the encoding of the one before.
SetSrc(work, bitmap) == Working(bitmap, NotEncoded)

\* encodedCurrent: encoded at most once.
EncodedCurrent(work) == IF work.srcBytes = NotEncoded THEN work.src ELSE work.srcBytes

\* Rows and columns of the picture, by position.
Rows(p, from, to) == SubSeq(p.rows, from, to)
Cols(p, from, to) == SubSeq(p.cols, from, to)

-----------------------------------------------------------------------------
(* The stages.                                                             *)

\* The rows scrolled past are cut out between the title and what is in view.
Scrolls(p, crop) ==
    /\ crop.scrollTop > 0
    /\ crop.scrollAreaOffsetY + crop.scrollTop < Height(p)

ScrollComposite(work, crop) ==
    LET p == work.src
        skipEnd == crop.scrollAreaOffsetY + crop.scrollTop
    IN  IF ~Scrolls(p, crop) THEN work
        ELSE SetSrc(work, [p EXCEPT !.rows = Rows(p, 1, crop.scrollAreaOffsetY)
                                                \o Rows(p, skipEnd + 1, Height(p))])

\* Where the scan from the bottom up may find the line under a table: somewhere in
\* the lower half, but not in the last rows, or nowhere.  The pixels decide.
GridLines(p) ==
    {-1} \cup {y \in 1..(Height(p) - 5) : Height(p) \div 2 <= y}

\* The rows rendered in excess are cut out above that line.
OverflowComposite(work, crop, gridLineY) ==
    LET p == work.src
        keepAbove == gridLineY - crop.renderingOverflow
    IN  IF crop.renderingOverflow = 0 \/ gridLineY < 0 \/ keepAbove < 0 THEN work
        ELSE SetSrc(work, [p EXCEPT !.rows = Rows(p, 1, keepAbove)
                                                \o Rows(p, gridLineY + 1, Height(p))])

\* The rectangle itself; an image that is no larger, or a rectangle outside of it,
\* leaves the image as it is.
Result(bytes, decoded) == [bytes |-> bytes, decoded |-> decoded]

Rectangle(work, crop) ==
    LET p == work.src
        cropW == Smaller(crop.width, Width(p) - crop.left)
        cropH == Smaller(crop.height, Height(p) - crop.top)
        dst == [cols |-> Cols(p, crop.left + 1, crop.left + cropW),
                rows |-> Rows(p, crop.top + 1, crop.top + cropH)]
    IN  IF \/ Width(p) <= crop.width /\ Height(p) <= crop.height
           \/ cropW <= 0
           \/ cropH <= 0
        THEN Result(EncodedCurrent(work), p)
        ELSE Result(dst, dst)

\* The header alone tells that no stage has anything to do.
NothingToDo(p, crop) ==
    /\ ~Scrolls(p, crop)
    /\ crop.renderingOverflow = 0
    /\ ~(Width(p) > crop.width \/ Height(p) > crop.height)

Decoded(p, crop, gridLineY) ==
    Rectangle(OverflowComposite(ScrollComposite(Working(p, p), crop), crop, gridLineY), crop)

\* cropPngBuffer.  At debug level every picture is decoded.
CropPng(p, crop, gridLineY, debug) ==
    IF ~debug /\ NothingToDo(p, crop) THEN Result(p, NotEncoded)
    ELSE Decoded(p, crop, gridLineY)

-----------------------------------------------------------------------------
(* The copy with the metadata above the picture.                           *)

Padding == 8
LineHeight == 7 + 3
Advance == 5 + 1

\* Lines are given by their number of characters, values cut to a length.
HeaderHeight(lines) == Padding + Len(lines) * LineHeight + Padding
HeaderWidth(lines) == 2 * Padding + Max({0} \cup {lines[i] * Advance : i \in DOMAIN lines})

\* addTextHeaderToPng, given the bytes and, if there is one, the bitmap at hand:
\* the picture it shows, the size of the whole, and where text ends and picture begins.
WithHeader(result, lines) ==
    LET picture == IF result.decoded # NotEncoded THEN result.decoded ELSE result.bytes
    IN  [picture |-> picture,
         matches |-> /\ Width(picture) = Width(result.bytes)
                     /\ Height(picture) = Height(result.bytes),
         width |-> Larger(Width(picture), HeaderWidth(lines)),
         height |-> Height(picture) + HeaderHeight(lines),
         textEnd |-> Padding + Len(lines) * LineHeight,
         separator |-> HeaderHeight(lines) - 1]

-----------------------------------------------------------------------------

\* The rows that were scrolled past.
Hidden(p, crop) ==
    IF Scrolls(p, crop)
    THEN (crop.scrollAreaOffsetY + 1)..(crop.scrollAreaOffsetY + crop.scrollTop)
    ELSE {}

\* The copy shows the same picture, with all of the text above it.
CopiedWhole(shot, lines) ==
    LET copy == WithHeader(shot, lines)
    IN  /\ copy.matches /\ copy.picture = shot.bytes
        /\ copy.textEnd <= copy.separator
        /\ \A i \in DOMAIN lines : Padding + lines[i] * Advance <= copy.width

AsSeen(shot, hidden) ==
    LET rows == shot.bytes.rows
    IN  /\ shot.decoded # NotEncoded => shot.bytes = shot.decoded
        /\ Width(shot.bytes) > 0 /\ Height(shot.bytes) > 0
        /\ \A i, j \in DOMAIN rows : i < j => rows[i] < rows[j]
        /\ \A i \in DOMAIN rows : rows[i] \notin hidden
        /\ \A lines \in HeaderLines : CopiedWhole(shot, lines)

\* What is saved of an image with a crop rectangle is what the user saw: whichever stages
\* apply, the bytes written show the very bitmap that is handed on, the rows are in
\* order and none that was scrolled past is among them, the log level changes nothing,
\* and the copy with the metadata shows the same picture with all of the text above it.
SavedAsSeen(crop) ==
    \A size \in Sizes :
        LET p == Rendered(size[1], size[2])
            c == NormalizeCrop(crop)
        IN  \A grid \in GridLines(ScrollComposite(Working(p, p), c).src) :
                /\ AsSeen(CropPng(p, c, grid, FALSE), Hidden(p, c))
                /\ CropPng(p, c, grid, FALSE).bytes = CropPng(p, c, grid, TRUE).bytes
=============================================================================
