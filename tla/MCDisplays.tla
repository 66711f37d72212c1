----------------------------- MODULE MCDisplays -----------------------------
(***************************************************************************)
(* Instances of Displays for TLC.                                           *)
(***************************************************************************)
EXTENDS Displays
=============================================================================
