----------------------------- MODULE MCSessions -----------------------------
(***************************************************************************)
(* The instance of Sessions for TLC: each handler in a connection thread of *)
(* its own, which lets more happen than one thread for all.                 *)
(***************************************************************************)
EXTENDS Sessions

CONSTANTS s1, u1, u2

\* A connection thread for each handler.
OwnThread == [u \in User |-> u]
=============================================================================
