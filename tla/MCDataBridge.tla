---------------------------- MODULE MCDataBridge ----------------------------
(***************************************************************************)
(* Instances of DataBridge for TLC.                                         *)
(***************************************************************************)
EXTENDS DataBridge

CONSTANTS s1, s2
=============================================================================
