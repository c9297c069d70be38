---------------------------- MODULE MCTwinAgent ----------------------------
(* Instances of TwinAgent for TLC. *)
EXTENDS TwinAgent, TLC

Symmetry == Permutations(Jobs) \cup Permutations(Threads)
=============================================================================
