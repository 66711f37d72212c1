----------------------------- MODULE MCAdapters ------------------------------
(***************************************************************************)
(* Instances of Adapters for TLC.                                           *)
(***************************************************************************)
EXTENDS Adapters, TLC

\* Displays and adapters are alike.
Symmetry == Permutations(Target) \cup Permutations(Adapter)
=============================================================================
