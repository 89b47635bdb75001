------------------------------- MODULE Kalloc -------------------------------
(***************************************************************************)
(* The physical page allocator of kernel/mm/kalloc.c: a bounded stack of   *)
(* recently freed pages (page_cache) in front of an address-ordered free   *)
(* list (kmem.freelist). The two have separate locks, so alloc_page and    *)
(* free_page are two critical sections each, between which a timer         *)
(* interrupt lets other kernel threads run. One action is one critical     *)
(* section. A page is its frame number; the linked list threaded through   *)
(* the free pages is the sequence of its nodes.                            *)
(***************************************************************************)
EXTENDS Integers, Sequences

CONSTANTS
  Threads,        \* kernel threads that allocate and free
  NPAGES,         \* pages between end and PHYSTOP
  PAGE_POOL_CAP,  \* capacity of page_cache, kernel/include/param.h:15
  None            \* no page

ASSUME KallocConstants ==
  /\ NPAGES \in Nat
  /\ PAGE_POOL_CAP \in Nat
  /\ None \notin 0..(NPAGES - 1)

VARIABLES
  cursor,         \* next page freerange frees; -1 once initialized
  pool,           \* page_cache.buf[0..n-1]
  freelist,       \* kmem.freelist, from its head
  held,           \* pages each thread owns
  pc,             \* the critical section a thread enters next
  page,           \* the page free_page passes to free_page_to_freelist
  panicked        \* alloc_pages found no run and called panic

vars == <<cursor, pool, freelist, held, pc, page, panicked>>

Pages == 0..(NPAGES - 1)

TypeOK ==
  /\ cursor \in -1..(NPAGES - 1)
  /\ pool \in Seq(Pages) /\ Len(pool) <= PAGE_POOL_CAP
  /\ freelist \in Seq(Pages)
  /\ held \in [Threads -> SUBSET Pages]
  /\ pc \in [Threads -> {"idle", "to_freelist", "from_freelist"}]
  /\ page \in [Threads -> Pages \cup {None}]
  /\ panicked \in BOOLEAN

(* kmem_init has initialised the locks and page_cache.n.                    *)
Init ==
  /\ cursor = NPAGES - 1
  /\ pool = <<>>
  /\ freelist = <<>>
  /\ held = [t \in Threads |-> {}]
  /\ pc = [t \in Threads |-> "idle"]
  /\ page = [t \in Threads |-> None]
  /\ panicked = FALSE

-----------------------------------------------------------------------------

PoolHasRoom == Len(pool) < PAGE_POOL_CAP

(* Fault: the page is pushed on the head of the list, unsorted.             *)
PositionHead(k, r) == k = 1

(* The scan of free_page_to_freelist puts r before the k-th node.           *)
Position(k, r) ==
  /\ k \in 1..(Len(freelist) + 1)
  /\ \A j \in 1..(k - 1) : freelist[j] < r
  /\ k <= Len(freelist) => r < freelist[k]

Insert(k, r) ==
  freelist' = [j \in 1..(Len(freelist) + 1) |->
                 IF j < k THEN freelist[j]
                 ELSE IF j = k THEN r
                 ELSE freelist[j - 1]]

(* freerange, one page per step, before any thread runs.                    *)
Freerange ==
  /\ cursor >= 0
  /\ cursor' = cursor - 1
  /\ \/ /\ PoolHasRoom
        /\ pool' = Append(pool, cursor)
        /\ UNCHANGED freelist
     \/ /\ ~ PoolHasRoom
        /\ \E k \in 1..(Len(freelist) + 1) : Position(k, cursor) /\ Insert(k, cursor)
        /\ UNCHANGED pool
  /\ UNCHANGED <<held, pc, page, panicked>>

Runs(t) == cursor = -1 /\ ~ panicked /\ pc[t] = "idle"

(* free_page up to the release of page_cache.lock. A caller frees only what *)
(* it owns (kalloc.c:49-52).                                                *)
FreePage(t, pa) ==
  /\ Runs(t)
  /\ pa \in held[t]
  /\ held' = [held EXCEPT ![t] = @ \ {pa}]
  /\ \/ /\ PoolHasRoom
        /\ pool' = Append(pool, pa)
        /\ UNCHANGED <<pc, page>>
     \/ /\ ~ PoolHasRoom
        /\ pc' = [pc EXCEPT ![t] = "to_freelist"]
        /\ page' = [page EXCEPT ![t] = pa]
        /\ UNCHANGED pool
  /\ UNCHANGED <<cursor, freelist, panicked>>

FreePageToFreelist(t) ==
  /\ ~ panicked
  /\ pc[t] = "to_freelist"
  /\ \E k \in 1..(Len(freelist) + 1) : Position(k, page[t]) /\ Insert(k, page[t])
  /\ pc' = [pc EXCEPT ![t] = "idle"]
  /\ page' = [page EXCEPT ![t] = None]
  /\ UNCHANGED <<cursor, pool, held, panicked>>

(* Fault: the pool's top page is returned but not removed.                  *)
AllocPageNoPop(t) ==
  /\ Runs(t)
  /\ IF pool # <<>>
       THEN /\ held' = [held EXCEPT ![t] = @ \cup {pool[Len(pool)]}]
            /\ UNCHANGED <<pool, pc>>
       ELSE /\ pc' = [pc EXCEPT ![t] = "from_freelist"]
            /\ UNCHANGED <<pool, held>>
  /\ UNCHANGED <<cursor, freelist, page, panicked>>

(* alloc_page up to the release of page_cache.lock.                         *)
AllocPage(t) ==
  /\ Runs(t)
  /\ IF pool # <<>>
       THEN /\ held' = [held EXCEPT ![t] = @ \cup {pool[Len(pool)]}]
            /\ pool' = SubSeq(pool, 1, Len(pool) - 1)
            /\ UNCHANGED pc
       ELSE /\ pc' = [pc EXCEPT ![t] = "from_freelist"]
            /\ UNCHANGED <<pool, held>>
  /\ UNCHANGED <<cursor, freelist, page, panicked>>

(* The rest of alloc_page when the pool was empty; it returns 0 when the    *)
(* list is empty as well.                                                   *)
AllocFromFreelist(t) ==
  /\ ~ panicked
  /\ pc[t] = "from_freelist"
  /\ IF freelist # <<>>
       THEN /\ held' = [held EXCEPT ![t] = @ \cup {Head(freelist)}]
            /\ freelist' = Tail(freelist)
       ELSE UNCHANGED <<held, freelist>>
  /\ pc' = [pc EXCEPT ![t] = "idle"]
  /\ UNCHANGED <<cursor, pool, page, panicked>>

(* n nodes from the k-th on have consecutive addresses.                     *)
RunAt(k, n) ==
  /\ k + n - 1 <= Len(freelist)
  /\ \A j \in 0..(n - 1) : freelist[k + j] = freelist[k] + j

(* Fault: the cut leaves the last node of the run in the list.              *)
CutShort(k, n) ==
  freelist' = [j \in 1..(Len(freelist) - (n - 1)) |->
                 IF j < k THEN freelist[j] ELSE freelist[j + (n - 1)]]

Cut(k, n) ==
  freelist' = [j \in 1..(Len(freelist) - n) |->
                 IF j < k THEN freelist[j] ELSE freelist[j + n]]

(* alloc_pages takes the first run of n pages of the free list; it never    *)
(* looks at the pool, and panics when there is no such run. A request for   *)
(* n <= 0 pages returns at once and changes nothing.                        *)
AllocPages(t, n) ==
  /\ Runs(t)
  /\ \/ \E k \in 1..Len(freelist) :
          /\ RunAt(k, n)
          /\ \A i \in 1..(k - 1) : ~ RunAt(i, n)
          /\ held' = [held EXCEPT ![t] = @ \cup {freelist[k] + j : j \in 0..(n - 1)}]
          /\ Cut(k, n)
          /\ UNCHANGED panicked
     \/ /\ \A k \in 1..Len(freelist) : ~ RunAt(k, n)
        /\ panicked' = TRUE
        /\ UNCHANGED <<held, freelist>>
  /\ UNCHANGED <<cursor, pool, pc, page>>

Next ==
  \/ Freerange
  \/ \E t \in Threads :
       \/ \E pa \in Pages : FreePage(t, pa)
       \/ FreePageToFreelist(t)
       \/ AllocPage(t)
       \/ AllocFromFreelist(t)
       \/ \E n \in 1..NPAGES : AllocPages(t, n)

Spec == Init /\ [][Next]_vars

-----------------------------------------------------------------------------
(* Properties.                                                              *)

Nodes(s) == {s[i] : i \in 1..Len(s)}

InTransit == {page[t] : t \in {u \in Threads : pc[u] = "to_freelist"}}

(* kalloc.c:53-190, and the assertions page1 != page2 of test/lab3.c. Every *)
(* page is in exactly one place: not yet freed by freerange, in the pool,   *)
(* in the free list, owned by one thread, or on its way from the pool to    *)
(* the list inside one free_page. None is lost and none is handed out       *)
(* twice, however the critical sections interleave.                         *)
OnePlace ==
  /\ \A i, j \in 1..Len(pool) : pool[i] = pool[j] => i = j
  /\ \A i, j \in 1..Len(freelist) : freelist[i] = freelist[j] => i = j
  /\ \A t, u \in Threads : t # u =>
       /\ held[t] \cap held[u] = {}
       /\ pc[t] = "to_freelist" /\ pc[u] = "to_freelist" => page[t] # page[u]
  /\ Nodes(pool) \cap Nodes(freelist) = {}
  /\ \A t \in Threads : held[t] \cap (Nodes(pool) \cup Nodes(freelist) \cup InTransit) = {}
  /\ InTransit \cap (Nodes(pool) \cup Nodes(freelist)) = {}
  /\ \A p \in 0..cursor :
       /\ p \notin Nodes(pool) \cup Nodes(freelist) \cup InTransit
       /\ \A t \in Threads : p \notin held[t]
  /\ Pages = 0..cursor \cup Nodes(pool) \cup Nodes(freelist) \cup InTransit
               \cup UNION {held[t] : t \in Threads}

(* kalloc.c:79. The free list is in strictly ascending address order, which *)
(* the scan for consecutive pages in alloc_pages relies on.                 *)
FreelistOrdered ==
  \A i, j \in 1..Len(freelist) : i < j => freelist[i] < freelist[j]

Abstract == INSTANCE PageAlloc WITH
  free <- 0..cursor \cup Nodes(pool) \cup Nodes(freelist) \cup InTransit

(* kalloc.c:94-96 and 122. Seen from its callers the allocator is a set of  *)
(* free pages: each allocation takes one free page, or n consecutive ones,  *)
(* in a single step, and nothing else changes owner.                        *)
ImplementsPageAlloc == Abstract!Spec
=============================================================================
