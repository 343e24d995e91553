--------------------------- MODULE MCThreadEngine ---------------------------
(* Instances of ThreadEngine for TLC. *)
EXTENDS ThreadEngine, TLC

Symmetry == Permutations(Mutexes)
=============================================================================
