------------------------------ MODULE MCOutbox ------------------------------
(***************************************************************************)
(* Instances of Outbox for TLC: a client with a connection that carries     *)
(* polls (h1) and one that carries a stream (h3).                           *)
(***************************************************************************)
EXTENDS Outbox

CONSTANTS h1, h3
=============================================================================
