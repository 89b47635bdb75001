------------------------------- MODULE MCBio --------------------------------
(* Processes, blocks and values are interchangeable.                        *)
EXTENDS Bio, TLC

Symmetry == Permutations(Procs) \cup Permutations(Blocks) \cup Permutations(Vals)
=============================================================================
