---------------------------- MODULE MCApplication ----------------------------
(* Instances of Application for TLC. *)
EXTENDS Application, TLC

CONSTANTS w1, w2

Symmetry == Permutations(Numbers) \cup Permutations(Bodies) \cup Permutations(Workers)
=============================================================================
