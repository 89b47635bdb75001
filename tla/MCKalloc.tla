------------------------------ MODULE MCKalloc ------------------------------
(* Finite instances of Kalloc. *)
EXTENDS Kalloc, TLC

Symmetry == Permutations(Threads)
=============================================================================
