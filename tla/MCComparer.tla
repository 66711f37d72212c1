----------------------------- MODULE MCComparer -----------------------------
(***************************************************************************)
(* Instances of Comparer for TLC: a small picture in which a document is    *)
(* scrolled and shifted, with settings that reach each way of searching.    *)
(***************************************************************************)
EXTENDS Comparer

MCWidth == 5
MCHeight == 4

\* Six rows of a document.
Document == << <<1, 2, 3, 1, 0>>, <<2, 2, 1, 0, 3>>, <<3, 1, 2, 2, 1>>, <<0, 3, 3, 1, 2>>,
               <<1, 0, 2, 3, 3>>, <<2, 3, 1, 1, 0>> >>

Scrolled(n) == [p \in Pixel |-> Document[p[2] + n][p[1] + 1]]
Shifted(n) == [p \in Pixel |-> Document[p[2] + 1][((p[1] + n) % MCWidth) + 1]]

\* The document with a block of one colour over its last columns.
Covered == [p \in Pixel |-> IF p[1] >= 2 THEN 2 ELSE Scrolled(1)[p]]

\* Changes in two corners, with unchanged tiles between them.
Typed == [Scrolled(1) EXCEPT ![<<0, 0>>] = 3, ![<<4, 3>>] = 0]
Ticked == [Scrolled(1) EXCEPT ![<<3, 0>>] = 3, ![<<0, 3>>] = 3]

MCScenes == {Scrolled(1), Scrolled(3), Shifted(1), Covered, Typed, Ticked}

Setting(size, threads, fills, moves, fine) ==
    [tileWidth |-> size, useMultithreading |-> threads, minifyTiles |-> TRUE,
     minifyTileCountThreshold |-> 4, analyzeFills |-> fills, analyzeMoves |-> moves,
     fineGrainedMoves |-> fine, minimizeDamageRegion |-> TRUE]

MCSettings == {Setting(2, TRUE, TRUE, TRUE, FALSE), Setting(4, FALSE, TRUE, TRUE, FALSE),
               Setting(4, TRUE, FALSE, TRUE, TRUE), Setting(3, TRUE, FALSE, TRUE, FALSE),
               Setting(2, FALSE, FALSE, TRUE, TRUE), Setting(2, TRUE, TRUE, FALSE, FALSE),
               [Setting(2, FALSE, TRUE, FALSE, FALSE) EXCEPT !.minimizeDamageRegion = FALSE],
               [Setting(1, FALSE, FALSE, TRUE, FALSE) EXCEPT !.minifyTiles = FALSE]}
=============================================================================
