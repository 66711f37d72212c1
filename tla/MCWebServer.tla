---------------------------- MODULE MCWebServer ----------------------------
(***************************************************************************)
(* Instances of WebServer for TLC.                                          *)
(***************************************************************************)
EXTENDS WebServer

CONSTANTS c1, c2, t1, t2, s1
=============================================================================
