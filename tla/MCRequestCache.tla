--------------------------- MODULE MCRequestCache ---------------------------
(***************************************************************************)
(* Instances of RequestCache for TLC.                                       *)
(***************************************************************************)
EXTENDS RequestCache

CONSTANTS r1, r2, r3
=============================================================================
