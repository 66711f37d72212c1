------------------------------ MODULE MCUpload ------------------------------
(***************************************************************************)
(* Instances of Upload for TLC.                                             *)
(***************************************************************************)
EXTENDS Upload

CONSTANTS u1, u2

\* One upload of two parts, the first of which ends with white space, and the
\* second of which has a long header and a colon in its name; and one of a
\* single part that is empty.
MCSizes == (u1 :> <<3, 1>>) @@ (u2 :> <<0>>)
MCSpace == {<<u1, 1, 3>>}
MCMaxChunks == (u1 :> 4) @@ (u2 :> 2)
=============================================================================
