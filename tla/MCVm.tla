-------------------------------- MODULE MCVm --------------------------------
(* Frames differ only in what they are used for. The view forgets which     *)
(* frame has which use: as long as no frame has two, states that agree on   *)
(* it are the same up to a permutation of the frames, and a state in which  *)
(* one has two differs from all the others.                                 *)
EXTENDS Vm

View ==
  <<mem.frames, Cardinality(mem.free), Cardinality(Lost), OneUse, {p \in Slots : Alive(p)},
    [p \in Slots |-> DOMAIN mem.tab[p]],
    [p \in Slots |-> [a \in DOMAIN mem.pte[p] |-> mem.pte[p][a].perm]],
    mem.ret, sz, panicked>>
=============================================================================
