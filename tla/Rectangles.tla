----------------------------- MODULE Rectangles -----------------------------
(***************************************************************************)
(* Rectangles as the image comparer cuts and joins them: QRect, and         *)
(* TileOperations and TiledRegion of src/src/display/comparer/tiles.cpp.    *)
(* A pixel is a pair <<x, y>>, a region is the set of its pixels, and the   *)
(* bottom and right edges of a rectangle belong to it, as with QRect.       *)
(***************************************************************************)
EXTENDS Integers, Sequences, FiniteSets, SequencesExt

Rect(x, y, w, h) == [x |-> x, y |-> y, w |-> w, h |-> h]

NoRect == Rect(0, 0, 0, 0)

Right(r) == r.x + r.w - 1
Bottom(r) == r.y + r.h - 1

PixelsOf(r) == (r.x..Right(r)) \X (r.y..Bottom(r))

\* QRect::translated by the vector v.
Translated(r, v) == Rect(r.x + v[1], r.y + v[2], r.w, r.h)

\* QRect::adjusted(-n, -n, n, n).
Grown(r, n) == Rect(r.x - n, r.y - n, r.w + 2 * n, r.h + 2 * n)

\* QRect between its edges, which is empty if they are exchanged.
Between(left, top, right, bottom) ==
    IF left > right \/ top > bottom THEN NoRect
    ELSE Rect(left, top, right - left + 1, bottom - top + 1)

Intersected(r, s) ==
    Between(Max({r.x, s.x}), Max({r.y, s.y}),
            Min({Right(r), Right(s)}), Min({Bottom(r), Bottom(s)}))

\* The smallest rectangle around some pixels.
Around(pixels) ==
    LET xs == {p[1] : p \in pixels}
        ys == {p[2] : p \in pixels}
    IN  Between(Min(xs), Min(ys), Max(xs), Max(ys))

United(r, s) == Around(PixelsOf(r) \cup PixelsOf(s))

\* The run of pixels of the region that starts at p, up to where a run ends.
SpanAt(region, p) ==
    LET ends == {q[1] : q \in {e \in region : e[2] = p[2] /\ e[1] >= p[1]
                                              /\ <<e[1] + 1, e[2]>> \notin region}}
    IN  Rect(p[1], p[2], Min(ends) - p[1] + 1, 1)

\* Where the runs of a region start.
RunStarts(region) == {p \in region : <<p[1] - 1, p[2]>> \notin region}

\* From top to bottom and from left to right.
Precedes(p, q) == p[2] < q[2] \/ (p[2] = q[2] /\ p[1] <= q[1])

\* QRegion::rects, one rectangle for each run of a row.  (QRegion may give equal runs of
\* several rows as one; verticallyUniteRects makes one rectangle of them in any case.)
RegionRects(region) ==
    LET starts == RunStarts(region)
        Place(p) == Cardinality({q \in starts : Precedes(q, p)})
    IN  [i \in 1..Cardinality(starts) |->
            SpanAt(region, CHOOSE p \in starts : Place(p) = i)]

\* One is directly above the other, and they have the same columns.
VerticallyAdjacent(r, s) ==
    /\ Bottom(r) + 1 = s.y \/ r.y = Bottom(s) + 1
    /\ r.x = s.x \/ Right(r) = Right(s)
    /\ r.w = s.w

\* Each rectangle is united with every one before it that it is adjacent to.
VerticallyUniteRects(rects) ==
    LET Unite(result, r) ==
            IF \E i \in DOMAIN result : VerticallyAdjacent(result[i], r)
            THEN [i \in DOMAIN result |->
                    IF VerticallyAdjacent(result[i], r) THEN United(result[i], r)
                                                        ELSE result[i]]
            ELSE Append(result, r)
        united[n \in 0..Len(rects)] ==
            IF n = 0 THEN <<>> ELSE Unite(united[n - 1], rects[n])
    IN  united[Len(rects)]

CeilDiv(n, d) == (n + d - 1) \div d

\* Mutant: the last tiles are as large as the others and overlap these.
SplitIntoEqualTiles(r, size) ==
    LET columns == CeilDiv(r.w, size)
        dx(i) == Min({((i - 1) % columns) * size, Max({r.w - size, 0})})
        dy(i) == Min({((i - 1) \div columns) * size, Max({r.h - size, 0})})
    IN  [i \in 1..(columns * CeilDiv(r.h, size)) |->
            Rect(r.x + dx(i), r.y + dy(i), Min({size, r.w}), Min({size, r.h}))]

\* Row by row; what is left at the right and at the bottom makes smaller tiles.
SplitRectIntoTiles(r, size) ==
    LET columns == CeilDiv(r.w, size)
        dx(i) == ((i - 1) % columns) * size
        dy(i) == ((i - 1) \div columns) * size
    IN  [i \in 1..(columns * CeilDiv(r.h, size)) |->
            Rect(r.x + dx(i), r.y + dy(i),
                 Min({size, r.w - dx(i)}), Min({size, r.h - dy(i)}))]

\* TiledRegion::operator+= adds this: r on the grid of the tiles.  A last pixel
\* that is not the first of a tile is rounded up to the first of the next one.
Snapped(r, size) ==
    LET down(n) == (n \div size) * size
        up(n) == down(n) + (IF n % size # 0 THEN size ELSE 0)
    IN  Rect(down(r.x), down(r.y),
             up(Right(r)) - down(r.x) + 1, up(Bottom(r)) - down(r.y) + 1)

=============================================================================
