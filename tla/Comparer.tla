------------------------------ MODULE Comparer ------------------------------
(***************************************************************************)
(* How the frame of a display becomes drawing operations:                   *)
(* GraphicsSceneBufferRenderer, ImageComparer, MoveAnalyzer and             *)
(* ImageComparerOpTools (src/src/display).  The scene is painted into one   *)
(* buffer and compared with the other; each rectangle that differs is cut   *)
(* into tiles; threads turn a tile into a fill, a move of what the client   *)
(* shows, or an image; in the end operations of a kind are joined.          *)
(*                                                                          *)
(* The move analyzer keeps fingerprints of the picture the client shows,    *)
(* the vectors that were successful and a count of its misses; the threads  *)
(* share these.                                                             *)
(***************************************************************************)
EXTENDS Fingerprints

CONSTANTS
    Scenes,                \* the pictures the adapter may draw
    Settings,              \* the settings a display may be created with
    SearchRadius,          \* searchRadius_
    SearchMissesThreshold, \* searchMissesThreshold_
    MaxVectors,            \* how many vectors swap() keeps
    MaxThreads,            \* bound: threads of the pool
    MaxFrames              \* bound: frames of a display

Color == 0..(Modulus - 1)

Picture == [Pixel -> Color]

Clear == [p \in Pixel |-> 0]
White == [p \in Pixel |-> Modulus - 1]

ASSUME ScenesAssumption == Scenes \subseteq Picture
ASSUME SettingsAssumption ==
    Settings \subseteq
        [tileWidth : 1..Width, useMultithreading : BOOLEAN, minifyTiles : BOOLEAN,
         minifyTileCountThreshold : Int, analyzeFills : BOOLEAN,
         analyzeMoves : BOOLEAN, fineGrainedMoves : BOOLEAN,
         minimizeDamageRegion : BOOLEAN]
ASSUME FineTilesAssumption ==
    \A s \in Settings : s.fineGrainedMoves => s.tileWidth >= 2
ASSUME BoundAssumption ==
    /\ SearchRadius \in Nat /\ SearchMissesThreshold \in Nat \ {0}
    /\ MaxVectors \in Nat /\ MaxThreads \in Nat \ {0} /\ MaxFrames \in Nat

VARIABLES
    settings,       \* settings_ and minimizeDamageRegion_
    before, after,  \* *otherBuffer_ and *workBuffer_
    phase,          \* where updateBufferAndGetUpdateOperations is
    areas,          \* the rectangles findDifferences returned
    rects,          \* those that have not been searched
    tiles,          \* the tiles of the rectangle being searched, not processed yet
    leftovers,      \* where findMoveOperations found no move
    minified,       \* useMinifiedTile
    searching,      \* tiles for which a thread looks for a move
    ops,            \* the operations found
    prints, damaged, vectors, misses, enabled,  \* of the move analyzer
    frames

analyzerVars == <<prints, damaged, vectors, misses, enabled>>
vars == <<settings, before, after, phase, areas, rects, tiles, leftovers, minified,
          searching, ops, analyzerVars, frames>>

\* The width of the templates of a move analyzer.
MoveTileWidth(s) == IF s.fineGrainedMoves THEN s.tileWidth \div 2 ELSE s.tileWidth

TemplateWidth == MoveTileWidth(settings)

Operation == [type : {"update", "move", "fill"}, src : [x : Int, y : Int, w : Nat, h : Nat],
              dst : Int \X Int, color : Color \cup {-1}]

\* An update, or a fill of a colour, in its place.
UpdateOf(r) == [type |-> "update", src |-> r, dst |-> <<r.x, r.y>>, color |-> -1]
FillOf(r, color) == [type |-> "fill", src |-> r, dst |-> <<r.x, r.y>>, color |-> color]
MoveOf(src, r) == [type |-> "move", src |-> src, dst |-> <<r.x, r.y>>, color |-> -1]

Vector(op) == <<op.src.x - op.dst[1], op.src.y - op.dst[2]>>

Target(op) == Rect(op.dst[1], op.dst[2], op.src.w, op.src.h)

\* The pixels of the picture, and those of Corner.
Near == Pixel \cup PixelsOf(Corner)

TypeOK ==
    /\ settings \in Settings
    /\ before \in Picture /\ after \in Picture
    /\ phase \in {"idle", "rects", "moves", "tiles", "done"}
    /\ \A i \in DOMAIN areas : PixelsOf(areas[i]) # {}
    /\ rects \in Seq(ToSet(areas))
    /\ \A i \in DOMAIN tiles : PixelsOf(tiles[i]) # {} /\ PixelsOf(tiles[i]) \subseteq Near
    /\ leftovers \subseteq Near
    /\ minified \in BOOLEAN
    /\ Cardinality(searching) <= MaxThreads
    /\ ops \subseteq Operation
    /\ \A op \in ops : op.type = "move" => PixelsOf(op.src) \subseteq Pixel
    /\ prints \in [0..(Width - TemplateWidth) ->
                    [0..(Height - 1) -> [hash : Color, average : Color]]]
    /\ \A r \in damaged : PixelsOf(r) \subseteq Near
    /\ vectors \in Seq(Int \X Int)
    /\ misses \in Nat /\ enabled \in BOOLEAN
    /\ frames \in 0..MaxFrames

\* A display of the picture's size has been created: initComparer with empty
\* buffers, then setSettings.
Init ==
    /\ settings \in Settings
    /\ before = Clear /\ after = Clear
    /\ phase = "idle" /\ areas = <<>> /\ rects = <<>> /\ tiles = <<>>
    /\ leftovers = {} /\ minified = FALSE /\ searching = {} /\ ops = {}
    /\ prints = UpdateFromImage(EmptyPrints(MoveTileWidth(settings)), before, Whole,
                                MoveTileWidth(settings))
    /\ damaged = {} /\ vectors = <<>> /\ misses = 0 /\ enabled = TRUE
    /\ frames = 0

-----------------------------------------------------------------------------
(* paintUpdatesToBuffer *)

\* The tiles of the grid that differ, as TiledRegion gives them back.
FindDifferences(old, new) ==
    LET size == settings.tileWidth
        grid == {Rect(x * size, y * size, size, size) :
                    x \in 0..(CeilDiv(Width, size) - 1), y \in 0..(CeilDiv(Height, size) - 1)}
        differing == {r \in grid : ~ContentMatches(old, new, Visible(r), Visible(r))}
    IN  VerticallyUniteRects(RegionRects(UNION {PixelsOf(Snapped(r, size)) : r \in differing}))

\* MoveAnalyzer::swap: the fingerprints of what was searched are renewed.
SwapAnalyzer(old) ==
    /\ prints' = LET region == RegionRects(UNION {PixelsOf(r) : r \in damaged})
                     updated[n \in 0..Len(region)] ==
                        IF n = 0 THEN prints
                        ELSE UpdateFromImage(updated[n - 1], old, Visible(region[n]),
                                             TemplateWidth)
                 IN  updated[Len(region)]
    /\ damaged' = {}
    /\ vectors' = SubSeq(vectors, 1, Min({Len(vectors), MaxVectors}))
    /\ UNCHANGED <<misses, enabled>>

\* swapWorkBuffer, the scene painted over the copy, findDifferences.
PaintUpdatesToBuffer(scene) ==
    /\ phase \in {"idle", "done"}
    /\ frames < MaxFrames
    /\ frames' = frames + 1
    /\ before' = after /\ after' = scene
    /\ IF settings.analyzeMoves THEN SwapAnalyzer(after) ELSE UNCHANGED analyzerVars
    /\ areas' = FindDifferences(after, scene)
    /\ rects' = areas'
    /\ ops' = {}
    /\ phase' = "rects"
    /\ UNCHANGED <<settings, tiles, leftovers, minified, searching>>

\* fullUpdate, when no frame is made: the analyzer is not told.
FullUpdate ==
    /\ phase \in {"idle", "done"}
    /\ before' = White /\ after' = Clear
    /\ ops' = {}
    /\ phase' = "idle"
    /\ UNCHANGED <<settings, areas, rects, tiles, leftovers, minified, searching,
                   analyzerVars, frames>>

-----------------------------------------------------------------------------
(* MoveAnalyzer *)

\* What is compared with the template at place p, pixel by pixel.  A tile that
\* sticks out of the picture is compared with the memory around it as well, and
\* this matches, if at all, at the place "wild" (undefined behaviour).
RawMatches(p, tile, wild) ==
    /\ PixelsOf(tile) \subseteq Pixel \/ p = wild
    /\ \A q \in PixelsOf(tile) \cap Pixel :
        before[<<p[1] + q[1] - tile.x, p[2] + q[2] - tile.y>>] = after[q]

\* findMovedRectExhaustive tries every place, row by row.
RawPositions(roi, tile, wild) ==
    {p \in (roi.x..(Right(roi) - tile.w + 1)) \X (roi.y..(Bottom(roi) - tile.h + 1)) :
        RawMatches(p, tile, wild)}

FirstByRow(places) ==
    {p \in places : \A q \in places : p[2] < q[2] \/ (p[2] = q[2] /\ p[1] <= q[1])}
FirstByColumn(places) == {p \in places : \A q \in places : p[1] <= q[1]}

\* Mutant: what the fingerprints find is not compared with the pictures.
PositionTrusted(p, tile) == TRUE

\* positionMatches, of the matcher that confirms what the fingerprints find.
PositionMatches(p, tile) ==
    ContentMatches(before, after, Visible(Rect(p[1], p[2], tile.w, tile.h)), Visible(tile))

\* findMovedRect: where the tile has come from, if it is found in the area, as a
\* set of at most one rectangle.
FindMovedRect(roi, tile, wild) ==
    LET found == Positions(prints, TemplateOf(after, Visible(tile)), roi, TemplateWidth)
    IN  {Rect(p[1], p[2], tile.w, tile.h) :
            p \in IF tile.w % TemplateWidth = 0
                  THEN FirstByColumn({p \in found : PositionMatches(p, tile)})
                  ELSE FirstByRow(RawPositions(roi, tile, wild))}

\* What is found in each of some areas.
FoundIn(areasSearched, tile, wild) ==
    [i \in DOMAIN areasSearched |-> FindMovedRect(Visible(areasSearched[i]), tile, wild)]

\* The rectangle found first, and how often the search missed: a miss of a vector
\* does not count, and at the threshold the search gives up.
SearchResult(byVector, byArea) ==
    LET hits == {i \in DOMAIN byVector : byVector[i] # {}}
        last == Min({i \in DOMAIN byArea :
                        \/ byArea[i] # {}
                        \/ misses + i = SearchMissesThreshold
                        \/ i = Len(byArea)})
    IN  IF hits # {} THEN [src |-> byVector[Min(hits)], missed |-> 0]
        ELSE [src |-> byArea[last],
              missed |-> IF byArea[last] = {} THEN last ELSE last - 1]

\* The search of MoveAnalyzer::processRect with the vectors it has read: where
\* each of them would have moved the tile from, then in the areas.
Search(tile, known, additional, wild) ==
    SearchResult(
        FoundIn([i \in DOMAIN known |-> Translated(tile, <<-known[i][1], -known[i][2]>>)],
                tile, wild),
        FoundIn(Append(additional, Grown(tile, SearchRadius)), tile, wild))

\* Mutant: the threshold is compared with what the thread had read before.
CountMissesLate(search) ==
    /\ misses' = misses + search.missed
    /\ enabled' = (enabled /\ ~(search.src = {} /\ search.missed > 0
                                /\ misses = SearchMissesThreshold))

\* Each miss is counted and compared with the threshold under the lock.
CountMisses(search) ==
    /\ misses' = misses + search.missed
    /\ enabled' = (enabled /\ ~(search.src = {} /\ search.missed > 0
                                /\ misses + search.missed = SearchMissesThreshold))

\* A vector that was successful goes to the front.
KeepVector(search, tile) ==
    vectors' = IF search.src = {} THEN vectors
               ELSE LET src == CHOOSE r \in search.src : TRUE
                        vector == <<tile.x - src.x, tile.y - src.y>>
                    IN  <<vector>> \o RemoveFirst(vectors, vector)

\* The places where the memory around the picture may match a tile.
Wild(tile) == IF PixelsOf(tile) \subseteq Pixel THEN {<<-1, -1>>} ELSE Pixel \cup {<<-1, -1>>}

NoSearch == [src |-> {}, missed |-> 0]

StartNewSearch == misses' = 0 /\ enabled' = TRUE

\* The move operation, if the search was successful.
MoveFound(search, tile) ==
    {MoveOf(src, tile) : src \in search.src}

-----------------------------------------------------------------------------
(* findUpdateOperations *)

UseMinifiedTile(count) ==
    /\ settings.minifyTiles
    /\ \/ settings.minifyTileCountThreshold = -1
       \/ count <= settings.minifyTileCountThreshold

\* The next rectangle: its changed part is cut into tiles.
FindUpdateOperations ==
    /\ phase = "rects" /\ rects # <<>>
    /\ settings.minimizeDamageRegion
    /\ rects' = Tail(rects)
    /\ \E minRect \in {FindChangedRect(before, after, Visible(Head(rects)))} :
       LET fine == settings.analyzeMoves /\ settings.fineGrainedMoves
           size == IF fine THEN TemplateWidth ELSE settings.tileWidth
       IN  \/ /\ minRect = NoRect
              /\ UNCHANGED <<phase, tiles, minified, misses, enabled>>
           \/ /\ minRect # NoRect
              /\ tiles' = SplitRectIntoTiles(minRect, size)
              /\ phase' = IF fine THEN "moves" ELSE "tiles"
              /\ minified' = (~fine /\ UseMinifiedTile(Len(tiles')))
              /\ IF settings.analyzeMoves THEN StartNewSearch
                                          ELSE UNCHANGED <<misses, enabled>>
    /\ UNCHANGED <<settings, before, after, areas, leftovers, searching, ops, prints,
                   damaged, vectors, frames>>

\* findMoveOperations, one tile after the other.
FindMoveOperation(wild) ==
    /\ phase = "moves" /\ tiles # <<>>
    /\ tiles' = Tail(tiles)
    /\ LET tile == Head(tiles)
       IN  \E search \in {IF enabled THEN Search(tile, vectors, areas, wild) ELSE NoSearch} :
           /\ damaged' = damaged \cup {tile}
           /\ CountMisses(search) /\ KeepVector(search, tile)
           /\ ops' = ops \cup MoveFound(search, tile)
           /\ leftovers' = IF search.src = {} THEN leftovers \cup PixelsOf(tile)
                                              ELSE leftovers
    /\ UNCHANGED <<settings, before, after, phase, areas, rects, minified, searching,
                   prints, frames>>

\* What was not moved is cut into tiles again.
SplitLeftovers ==
    /\ phase = "moves" /\ tiles = <<>>
    /\ LET united == VerticallyUniteRects(RegionRects(leftovers))
       IN  tiles' = FlattenSeq([i \in DOMAIN united |->
                        SplitRectIntoTiles(united[i], settings.tileWidth)])
    /\ minified' = UseMinifiedTile(Len(tiles'))
    /\ leftovers' = {}
    /\ phase' = "tiles"
    /\ UNCHANGED <<settings, before, after, areas, rects, searching, ops, analyzerVars,
                   frames>>

Threads == IF settings.useMultithreading THEN MaxThreads ELSE 1

\* processRect up to the search for a move: the tile is unchanged, of one
\* colour, left to the move analyzer, or an image.
ProcessRect(i) ==
    /\ phase = "tiles"
    /\ Cardinality(searching) < Threads
    /\ tiles' = RemoveAt(tiles, i)
    /\ \E changed \in {FindChangedRect(before, after, Visible(tiles[i]))} :
       LET tile == tiles[i]
           minRect == IF minified THEN changed ELSE tile
           solid == IF settings.analyzeFills THEN SolidColor(after, Visible(minRect)) ELSE {}
           moves == settings.analyzeMoves /\ ~settings.fineGrainedMoves
       IN  \/ /\ changed = NoRect
              /\ UNCHANGED <<ops, searching, damaged>>
           \/ /\ changed # NoRect /\ solid # {}
              /\ ops' = ops \cup {FillOf(minRect, color) : color \in solid}
              /\ UNCHANGED <<searching, damaged>>
           \/ /\ changed # NoRect /\ solid = {} /\ moves
              /\ searching' = searching \cup
                    {[tile |-> tile, minRect |-> minRect, enabled |-> enabled,
                      vectors |-> vectors]}
              /\ damaged' = damaged \cup {tile}
              /\ UNCHANGED ops
           \/ /\ changed # NoRect /\ solid = {} /\ ~moves
              /\ ops' = ops \cup {UpdateOf(minRect)}
              /\ UNCHANGED <<searching, damaged>>
    /\ UNCHANGED <<settings, before, after, phase, areas, rects, leftovers, minified,
                   prints, vectors, misses, enabled, frames>>

\* The rest of processRect, with what the thread read at the beginning.
FinishSearch(s, wild) ==
    /\ searching' = searching \ {s}
    /\ \E search \in {IF s.enabled THEN Search(s.tile, s.vectors, <<>>, wild)
                                   ELSE NoSearch} :
        /\ CountMisses(search) /\ KeepVector(search, s.tile)
        /\ ops' = ops \cup (IF search.src = {} THEN {UpdateOf(s.minRect)}
                                               ELSE MoveFound(search, s.tile))
    /\ UNCHANGED <<settings, before, after, phase, areas, rects, tiles, leftovers,
                   minified, prints, damaged, frames>>

EndOfRect ==
    /\ phase = "tiles" /\ tiles = <<>> /\ searching = {}
    /\ phase' = "rects"
    /\ UNCHANGED <<settings, before, after, areas, rects, tiles, leftovers, minified,
                   searching, ops, analyzerVars, frames>>

-----------------------------------------------------------------------------
(* optimizeUpdateOperations *)

\* Mutant: the vector is added to the source, not subtracted.
JoinedTheOtherWay(group) ==
    LET sources == UNION {PixelsOf(op.src) : op \in group}
        some == CHOOSE op \in group : TRUE
    IN  {[some EXCEPT !.src = r, !.dst = <<r.x + Vector(some)[1], r.y + Vector(some)[2]>>] :
            r \in ToSet(VerticallyUniteRects(RegionRects(sources)))}

\* The operations of a group, joined to rectangles as large as possible.
Joined(group) ==
    LET sources == UNION {PixelsOf(op.src) : op \in group}
        some == CHOOSE op \in group : TRUE
    IN  {[some EXCEPT !.src = r, !.dst = <<r.x - Vector(some)[1], r.y - Vector(some)[2]>>] :
            r \in ToSet(VerticallyUniteRects(RegionRects(sources)))}

\* Operations of a kind are grouped by their vector and colour, and the groups
\* joined, if this makes them fewer.
JoinedByGroup(kind) ==
    UNION {Joined({o \in kind : Vector(o) = Vector(op) /\ o.color = op.color}) : op \in kind}

Fewer(joined, kind) == IF Cardinality(joined) < Cardinality(kind) THEN joined ELSE kind

Optimized(kind) == Fewer(JoinedByGroup(kind), kind)

OptimizeUpdateOperations ==
    /\ phase = "rects" /\ rects = <<>> /\ settings.minimizeDamageRegion
    /\ ops' = UNION {Optimized({op \in ops : op.type = type}) :
                        type \in {"update", "fill", "move"}}
    /\ phase' = "done"
    /\ UNCHANGED <<settings, before, after, areas, rects, tiles, leftovers, minified,
                   searching, analyzerVars, frames>>

\* Without minimizeDamageRegion_ the rectangles are sent as they are.
UpdateRects ==
    /\ phase = "rects" /\ ~settings.minimizeDamageRegion
    /\ ops' = {UpdateOf(r) : r \in ToSet(rects)}
    /\ rects' = <<>>
    /\ phase' = "done"
    /\ UNCHANGED <<settings, before, after, areas, tiles, leftovers, minified, searching,
                   analyzerVars, frames>>

-----------------------------------------------------------------------------
Next ==
    \/ \E scene \in Scenes : PaintUpdatesToBuffer(scene)
    \/ FullUpdate
    \/ FindUpdateOperations
    \/ tiles # <<>> /\ \E wild \in Wild(Head(tiles)) : FindMoveOperation(wild)
    \/ SplitLeftovers
    \/ \E i \in DOMAIN tiles : (settings.useMultithreading \/ i = 1) /\ ProcessRect(i)
    \/ \E s \in searching : \E wild \in Wild(s.tile) : FinishSearch(s, wild)
    \/ EndOfRect
    \/ OptimizeUpdateOperations
    \/ UpdateRects

Spec == Init /\ [][Next]_vars

-----------------------------------------------------------------------------
(* Properties *)

\* What an operation draws at pixel p of its target: it is an image or a fill of
\* what the server has, or a move of what the client shows.
Draws(op, p) ==
    LET source == <<p[1] + Vector(op)[1], p[2] + Vector(op)[2]>>
    IN  CASE op.type = "fill" -> op.color
          [] op.type = "update" -> after[source]
          [] op.type = "move" -> before[source]

DrawsNewPicture(op) == \A p \in PixelsOf(Target(op)) \cap Pixel : Draws(op, p) = after[p]

\* What the threads find is right at any time: whatever the fingerprints contain
\* (they may be stale, or collide) and whatever vectors of earlier frames and of
\* other threads are tried, an operation draws nothing but the new picture.  (And
\* every variable is well typed.)
FoundOperationsAreRight ==
    TypeOK /\ (phase # "done" => \A op \in ops : DrawsNewPicture(op))

\* After rectangles were cut, minified and joined the operations of a frame make
\* the new picture out of the one the client shows: each of them still draws
\* nothing but the new picture, and together they draw all that has changed.
OperationsRebuildPicture ==
    phase = "done" =>
        /\ \A op \in ops : DrawsNewPicture(op)
        /\ \A p \in Pixel : before[p] # after[p] =>
            \E op \in ops : p \in PixelsOf(Target(op))

\* No pixel is drawn twice in a frame, but for the one in the corner, which any
\* rectangle outside of the picture stands for.  So nothing depends on the order of
\* the operations, which is free: tiles are done by threads, the operations are
\* regrouped, and the client draws images when they are loaded.
DrawnOnce ==
    phase = "done" =>
        \A op1, op2 \in ops :
            op1 # op2 =>
                PixelsOf(Target(op1)) \cap PixelsOf(Target(op2)) \subseteq PixelsOf(Corner)

\* The move analyzer stops its searches for a rectangle after so many misses,
\* and not before, although threads count them and a count that went past the
\* threshold unnoticed would never be equal to it again; only searches
\* that had begun add to the count then.
SearchGivesUp ==
    /\ enabled <=> misses < SearchMissesThreshold
    /\ misses + Cardinality({s \in searching : s.enabled}) < SearchMissesThreshold + Threads

=============================================================================
