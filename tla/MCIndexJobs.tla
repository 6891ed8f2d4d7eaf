----------------------------- MODULE MCIndexJobs -----------------------------
(* Instances of IndexJobs for TLC. *)
EXTENDS IndexJobs, TLC
Symmetry == Permutations(Jobs) \cup Permutations(Cancels)
=============================================================================
