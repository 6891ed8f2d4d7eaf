----------------------------- MODULE MCConnections -----------------------------
(* Instances of Connections for TLC: requests are model values. *)
EXTENDS Connections, TLC
Symmetry == Permutations(Creators) \cup Permutations(Removers)
=============================================================================
