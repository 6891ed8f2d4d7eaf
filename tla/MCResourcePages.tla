---------------------------- MODULE MCResourcePages ----------------------------
(* Instances of ResourcePages for TLC. *)
EXTENDS ResourcePages, TLC

Symmetry == Permutations(Names) \cup Permutations(Scopes)
=============================================================================
