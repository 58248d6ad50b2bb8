---------------------------- MODULE MCWorkQueue ----------------------------
(* Bounds for model checking WorkQueue. *)
EXTENDS WorkQueue, TLC

Symmetry == Permutations(Items) \cup Permutations(Workers) \cup Permutations(Bundles)

=============================================================================
