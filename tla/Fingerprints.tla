---------------------------- MODULE Fingerprints ----------------------------
(***************************************************************************)
(* Pictures and what the move analyzer uses to search in them: the          *)
(* comparisons of src/src/display/comparer/imageaux.cpp and .h, and the      *)
(* fingerprints of areafingerprint.cpp.  A picture is a function from       *)
(* pixels to colours; the colours are numbers, because the fingerprints     *)
(* add them up.  The fingerprints of a picture have one entry for each      *)
(* place at which a row of a template, t pixels wide, fits.                 *)
(***************************************************************************)
EXTENDS Rectangles

CONSTANTS
    Width, Height,   \* of both buffers
    Modulus          \* one more than the largest quint32

ASSUME SizeAssumption == Width \in Nat \ {0} /\ Height \in Nat \ {0}
ASSUME ModulusAssumption == Modulus \in Nat \ {0}

Whole == Rect(0, 0, Width, Height)

Pixel == (0..(Width - 1)) \X (0..(Height - 1))

\* What is in the picture of a rectangle.  The areas below are given as this.
Visible(r) == Intersected(r, Whole)

\* contentMatches: what "after" shows in "to" is what "before" shows in "from".
ContentMatches(before, after, from, to) ==
    /\ from.w = to.w /\ from.h = to.h
    /\ \A i \in 0..(to.w - 1), j \in 0..(to.h - 1) :
        before[<<from.x + i, from.y + j>>] = after[<<to.x + i, to.y + j>>]

\* What findChangedRect32 makes of an area outside of the picture: the corners
\* of an empty QRect, exchanged, are those of four pixels.
Corner == Rect(-1, -1, 2, 2)

\* findChangedRect32.  It takes a single pixel for changed, whether it is or not.
FindChangedRect(before, after, roi) ==
    LET changed == {p \in PixelsOf(roi) : before[p] # after[p]}
    IN  IF roi = NoRect THEN Corner
        ELSE IF changed # {} THEN Around(changed)
        ELSE IF roi.w = 1 /\ roi.h = 1 THEN roi
        ELSE NoRect

\* getSolidRectColor: the colours of an area if it has but one, else none.
SolidColor(picture, roi) ==
    LET first == picture[<<roi.x, roi.y>>]
    IN  IF \A p \in PixelsOf(roi) : picture[p] = first THEN {first} ELSE {}

-----------------------------------------------------------------------------
(* AreaFingerPrintHash, AreaFingerPrint, AreaFingerPrints *)

ZeroHash == [hash |-> 0, average |-> 0]

AddPixel(h, pixel) ==
    [hash |-> (h.hash + pixel) % Modulus,
     average |-> ((h.average + pixel) % Modulus) \div 2]

\* The fingerprint of the w pixels at <<x, y>>.
HashRow(picture, x, y, w) ==
    LET hash[n \in 0..w] ==
            IF n = 0 THEN ZeroHash ELSE AddPixel(hash[n - 1], picture[<<x + n - 1, y>>])
    IN  hash[w]

\* A template's fingerprint (initFromImage): one hash for each row of it that is
\* in the picture.
TemplateOf(picture, roi) ==
    [j \in 0..(roi.h - 1) |-> HashRow(picture, roi.x, roi.y + j, roi.w)]

\* initFromSize.
EmptyPrints(t) == [x \in 0..(Width - t) |-> [y \in 0..(Height - 1) |-> ZeroHash]]

\* updateFromImage: the rows of the area, in the columns whose templates reach
\* into it, but for the one that begins at its right edge.
UpdateFromImage(prints, picture, roi, t) ==
    LET columns == Max({0, roi.x - t + 1})..(Min({Width - t + 1, Right(roi)}) - 1)
        rows == roi.y..Bottom(roi)
    IN  [x \in DOMAIN prints |-> [y \in 0..(Height - 1) |->
            IF x \in columns /\ y \in rows THEN HashRow(picture, x, y, t)
                                           ELSE prints[x][y]]]

\* The entries of a needle of n rows that AreaFingerPrint::indexOf compares:
\* the last two are left out.
Compared(n) == IF n = 1 THEN {0} ELSE {0, 1} \cup 2..(n - 3)

\* indexOf: the first row from start to end (to the last possible one if end
\* is not positive) where the needle is found, or -1.  A needle of no, of two
\* or of three rows is never found.
IndexOf(column, needle, start, end) ==
    LET n == Cardinality(DOMAIN needle)
        last == IF end <= 0 \/ end > Height - n THEN Height - n ELSE end
        found == {i \in start..last :
                    n \notin {0, 2, 3} /\ \A k \in Compared(n) : column[i + k] = needle[k]}
    IN  IF found = {} THEN -1 ELSE Min(found)

\* findPosition: the first row found in each column of the area; the matcher is
\* asked for one after the other.
Positions(prints, needle, roi, t) ==
    LET n == Cardinality(DOMAIN needle)
        row(x) == IndexOf(prints[x], needle, roi.y, Bottom(roi) + 1 - n)
        columns == IF roi.h < n THEN {} ELSE roi.x..(Right(roi) - t + 1)
    IN  {p \in {<<x, row(x)>> : x \in columns} : p[2] > -1}

=============================================================================
