------------------------------- MODULE MCInput -------------------------------
(***************************************************************************)
(* Instances of Input for TLC.                                              *)
(***************************************************************************)
EXTENDS Input, TLC

\* No property tells two buttons, or two letters, apart.
Symmetry == Permutations(Button) \cup Permutations(Letter)
=============================================================================
