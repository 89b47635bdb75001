----------------------------- MODULE PageAlloc ------------------------------
(***************************************************************************)
(* What kernel/mm/kalloc.c promises to its callers: a page is handed to    *)
(* one owner at a time and stays with it until it is freed; alloc_pages    *)
(* hands out n pages with consecutive addresses.                           *)
(***************************************************************************)
EXTENDS Integers, FiniteSets

CONSTANTS Threads, NPAGES

VARIABLES free, held

Pages == 0..(NPAGES - 1)

Init ==
  /\ free = Pages
  /\ held = [t \in Threads |-> {}]

(* The pages of a request change hands in one step. *)
Take(t, S) ==
  /\ S \subseteq free
  /\ free' = free \ S
  /\ held' = [held EXCEPT ![t] = @ \cup S]

Alloc(t) == \E p \in free : Take(t, {p})

AllocRun(t, n) ==
  \E first \in Pages :
    /\ first + n <= NPAGES
    /\ Take(t, first..(first + n - 1))

Free(t) ==
  \E p \in held[t] :
    /\ free' = free \cup {p}
    /\ held' = [held EXCEPT ![t] = @ \ {p}]

Next == \E t \in Threads : Alloc(t) \/ Free(t) \/ \E n \in 1..NPAGES : AllocRun(t, n)

Spec == Init /\ [][Next]_<<free, held>>
=============================================================================
