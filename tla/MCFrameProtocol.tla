--------------------------- MODULE MCFrameProtocol ---------------------------
(***************************************************************************)
(* Instances of FrameProtocol for TLC: two tiles, a colour drawn as a fill  *)
(* and one sent as an image or moved.  At first one tile is of each.        *)
(***************************************************************************)
EXTENDS FrameProtocol

CONSTANTS t1, t2, red, cat

MCInit == Init /\ scene = (t1 :> red @@ t2 :> cat)
MCSpec == MCInit /\ [][Next]_vars /\ Fairness
=============================================================================
