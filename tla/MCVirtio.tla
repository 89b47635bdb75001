------------------------------ MODULE MCVirtio ------------------------------
(* Finite instances of Virtio. *)
EXTENDS Virtio, TLC

Symmetry == Permutations(Procs) \cup Permutations(Blocks) \cup Permutations(Vals)
=============================================================================
