---------------------------- MODULE MCTransport -----------------------------
(***************************************************************************)
(* Instances of Transport for TLC.                                          *)
(***************************************************************************)
EXTENDS Transport
=============================================================================
