--------------------------------- MODULE Vm ---------------------------------
(***************************************************************************)
(* User address spaces: the three-level page tables of kernel/mm/vm.c and  *)
(* the operations of kernel/proc/proc.c that build, copy, resize and free  *)
(* them, over a memory that may run out at every alloc_page. An operation  *)
(* touches only tables of its caller and of a child nobody else can see    *)
(* yet, so it is one action; what other processes do to it is to leave it  *)
(* fewer free pages, and Init starts from every amount of memory.          *)
(***************************************************************************)
EXTENDS Integers, FiniteSets, SequencesExt, FiniteSetsExt, Functions, TLC

CONSTANTS
  NPROC,        \* size of the process table
  NFRAMES,      \* the most page frames the machine can have
  PAGESIZE,     \* bytes in a page
  FAN,          \* entries of a page table (512)
  UINT64,       \* the modulus of address arithmetic
  MaxSz         \* bound: a process grows to at most this many bytes

ASSUME VmConstants ==
  /\ {NPROC, NFRAMES, PAGESIZE, UINT64, MaxSz} \subseteq Nat \ {0}
  /\ FAN \in Nat \ {0, 1} /\ PAGESIZE < MaxSz /\ MaxSz < PAGESIZE * (FAN^3 - 2)
  /\ PAGESIZE * FAN^3 < UINT64

VARIABLES
  mem,          \* memory and page tables, see MemType
  sz,           \* p->sz
  panicked      \* the message of panic, "" while the kernel runs

vars == <<mem, sz, panicked>>

Slots == 0..(NPROC - 1)
Pages == 0..(FAN^3 - 1)
TRAMPOLINE == FAN^3 - 1
TRAPFRAME == FAN^3 - 2

(* The page table a walk reaches at a level: its level and its index.       *)
Node(level, page) == <<level, page \div FAN^(level + 1)>>
Root == <<2, 0>>
Nodes == {Node(l, a) : l \in 0..2, a \in Pages}

(* A frame is a physical address of a page; 0 is the null pointer and, in   *)
(* an entry, the page of the trampoline, which is part of the kernel.       *)
(* frames: the size of the machine; free: the frames alloc_page can return; *)
(* twice: history, a frame was freed that is free already; trapframe: the   *)
(* frame of p->trapframe; tab: the frames of the page tables of a process;  *)
(* pte: frame and permissions of its valid leaf entries; ret: how the       *)
(* operation that is being carried out goes.                                *)
Null == 0
MemType(m) ==
  /\ m.frames \in 0..NFRAMES /\ m.free \subseteq 1..m.frames
  /\ m.twice \in BOOLEAN
  /\ m.trapframe \in [Slots -> 0..m.frames]
  /\ \A p \in Slots :
       /\ DOMAIN m.tab[p] \subseteq Nodes /\ Range(m.tab[p]) \subseteq 1..m.frames
       /\ DOMAIN m.pte[p] \subseteq Pages
       /\ \A e \in Range(m.pte[p]) : e.pa \in 0..m.frames /\ e.perm \subseteq {"R", "W", "X", "U"}
  /\ m.ret \in {"ok", "fail", "map_page: remap", "unmap_page: not aligned",
                "create_pagetable: out of memory", "page fault"}

TypeOK ==
  /\ MemType(mem) /\ mem.ret \in {"ok", "fail"} \cup {panicked}
  /\ sz \in [Slots -> 0..MaxSz]

Alive(p) == mem.trapframe[p] # Null

Fail(m) == [m EXCEPT !.ret = "fail"]
Clear(m) == [m EXCEPT !.ret = "ok"]

(* The pages that hold the bytes from a up to b.                            *)
PageUp(a) == (a + PAGESIZE - 1) \div PAGESIZE
PagesOf(a, b) == [i \in 1..(PageUp(b) - a \div PAGESIZE) |-> a \div PAGESIZE + i - 1]

-----------------------------------------------------------------------------
(* vm.c, as functions of the memory                                         *)
-----------------------------------------------------------------------------
(* alloc_page and free_page of kalloc.c, without the pool and the list that *)
(* Kalloc models. Frames are alike, so the one returned may be the first.   *)
FirstFree(m) == Min(m.free)
alloc_page(m) == IF m.free = {} THEN Fail(m) ELSE [m EXCEPT !.free = @ \ {FirstFree(m)}]
free_page(m, pa) == [m EXCEPT !.twice = @ \/ pa \in m.free, !.free = @ \cup {pa}]

walk_level(m, p, n) ==
  IF m.ret # "ok" \/ n \in DOMAIN m.tab[p] THEN m
  ELSE LET m1 == alloc_page(m)
       IN  IF m1.ret = "ok" THEN [m1 EXCEPT !.tab[p] = (n :> FirstFree(m)) @@ @] ELSE m1

walk_create(m, p, a) == walk_level(walk_level(m, p, Node(1, a)), p, Node(0, a))

map_page(m, p, a, pa, perm) ==
  LET m1 == walk_create(m, p, a)
  IN  IF m1.ret # "ok" THEN m1
      ELSE IF a \in DOMAIN m1.pte[p] THEN [m1 EXCEPT !.ret = "map_page: remap"]
      ELSE [m1 EXCEPT !.pte[p] = (a :> [pa |-> pa, perm |-> perm]) @@ @]

(* Fault: the page without a place is not freed.                            *)
MapFresh_Keeps(m, p, a, perm) ==
  LET m1 == alloc_page(m)
  IN  IF m1.ret = "fail" THEN m1 ELSE map_page(m1, p, a, FirstFree(m), perm)

(* alloc_page and map_page of a fresh page, given back if it has no place.  *)
MapFresh(m, p, a, perm) ==
  LET m1 == alloc_page(m)
      m2 == map_page(m1, p, a, FirstFree(m), perm)
  IN  IF m1.ret = "fail" THEN m1
      ELSE IF m2.ret = "fail" THEN free_page(m2, FirstFree(m))
      ELSE m2

(* walk_create comes first and may allocate tables; its failure is skipped. *)
unmap_one(m, p, a, do_free) ==
  LET m1 == Clear(walk_create(m, p, a))
  IN  IF a \notin DOMAIN m1.pte[p] THEN m1
      ELSE [(IF do_free THEN free_page(m1, m1.pte[p][a].pa) ELSE m1)
              EXCEPT !.pte[p] = Restrict(@, DOMAIN @ \ {a})]

unmap_page(m, p, va, npages, do_free) ==
  IF va % PAGESIZE # 0 THEN [m EXCEPT !.ret = "unmap_page: not aligned"]
  ELSE FoldLeft(LAMBDA x, a : unmap_one(x, p, a, do_free), m,
                PagesOf(va, va + npages * PAGESIZE))

(* Frees the tables; entries with a permission are leaves and stay behind.  *)
destroy_pagetable(m, p) ==
  LET freed == FoldSet(LAMBDA pa, x : free_page(x, pa), m, Range(m.tab[p]))
  IN  [freed EXCEPT !.tab[p] = <<>>, !.pte[p] = <<>>]

walkaddr(m, p, a) ==
  LET m1 == walk_create(m, p, a)
  IN  IF m1.ret = "ok" /\ a \in DOMAIN m1.pte[p] /\ "U" \in m1.pte[p][a].perm
      THEN m1 ELSE Fail(m1)

(* The loop of copyout, copyin and copyinstr over the pages of a buffer.    *)
copy(m, p, va, len) ==
  FoldLeft(LAMBDA x, a : IF x.ret = "ok" THEN walkaddr(x, p, a) ELSE x, m,
           PagesOf(va, va + len))

(* Fault: the child gets the parent's page instead of the copy.             *)
copy_one_Shares(m, old, new, a) ==
  LET m1 == Clear(walk_create(m, old, a))
  IN  IF m.ret # "ok" THEN m
      ELSE IF a \notin DOMAIN m1.pte[old] THEN m1
      ELSE map_page(m1, new, a, m1.pte[old][a].pa, m1.pte[old][a].perm)

copy_one(m, old, new, a) ==
  LET m1 == Clear(walk_create(m, old, a))
      m2 == MapFresh(m1, new, a, m1.pte[old][a].perm)
  IN  IF m.ret # "ok" THEN m
      ELSE IF a \notin DOMAIN m1.pte[old] THEN m1
      ELSE IF m2.ret # "fail" THEN m2
      ELSE Fail(unmap_page(Clear(m2), new, 0, a, TRUE))

(* Fault: a last page that is only partly used is not copied.               *)
copy_pagetable_Floor(m, old, new, size) ==
  FoldLeft(LAMBDA x, a : copy_one(x, old, new, a), m,
           PagesOf(0, (size \div PAGESIZE) * PAGESIZE))

copy_pagetable(m, old, new, size) ==
  FoldLeft(LAMBDA x, a : copy_one(x, old, new, a), m, PagesOf(0, size))

(* Pages mapped before a failure stay mapped.                               *)
uvmalloc(m, p, oldsz, newsz, perm) ==
  FoldLeft(LAMBDA x, a : IF x.ret = "ok" THEN MapFresh(x, p, a, perm) ELSE x, m,
           PagesOf(PageUp(oldsz) * PAGESIZE, newsz))

(* The size uvmdealloc returns: newsz may have wrapped around zero.         *)
ShrinkTo(oldsz, newsz) == IF newsz >= oldsz THEN oldsz ELSE newsz

uvmdealloc(m, p, oldsz, newsz) ==
  IF newsz >= oldsz THEN m
  ELSE unmap_page(m, p, newsz, (oldsz - newsz) \div PAGESIZE, TRUE)

(* ismapped walks with walk_create as well.                                 *)
vmfault(m, p, size, va) ==
  LET a  == va \div PAGESIZE
      m1 == Clear(walk_create(m, p, a))
  IN  IF va >= size THEN Fail(m)
      ELSE IF a \in DOMAIN m1.pte[p] THEN Fail(m1)
      ELSE MapFresh(m1, p, a, {"W", "U", "R"})

-----------------------------------------------------------------------------
(* proc.c, as functions of the memory                                       *)
-----------------------------------------------------------------------------
proc_pagetable(m, p) ==
  LET m1 == walk_level(m, p, Root)
      m2 == map_page(m1, p, TRAMPOLINE, Null, {"R", "X"})
      m3 == map_page(m2, p, TRAPFRAME, m.trapframe[p], {"R", "W"})
      m4 == unmap_page(Clear(m3), p, TRAMPOLINE * PAGESIZE, 1, FALSE)
  IN  IF m1.ret = "fail" THEN [m1 EXCEPT !.ret = "create_pagetable: out of memory"]
      ELSE IF m2.ret = "fail" THEN destroy_pagetable(m2, p)
      ELSE IF m3.ret = "fail" THEN Fail(destroy_pagetable(m4, p))
      ELSE m3

proc_freepagetable(m, p) ==
  destroy_pagetable(unmap_page(unmap_page(m, p, TRAMPOLINE * PAGESIZE, 1, FALSE),
                               p, TRAPFRAME * PAGESIZE, 1, FALSE), p)

freeproc(m, p) ==
  LET m1 == IF m.trapframe[p] # Null THEN free_page(m, m.trapframe[p]) ELSE m
      m2 == [m1 EXCEPT !.trapframe[p] = Null]
  IN  IF m.tab[p] = <<>> THEN m2 ELSE proc_freepagetable(m2, p)

allocproc(m, p) ==
  LET m1 == alloc_page(m)
      m2 == proc_pagetable([m1 EXCEPT !.trapframe[p] = FirstFree(m)], p)
  IN  IF m1.ret = "fail" THEN m1
      ELSE IF m2.ret = "fail" THEN Fail(freeproc(Clear(m2), p))
      ELSE m2

uvmfirst(m, p) == MapFresh(m, p, 0, {"W", "R", "X"})

-----------------------------------------------------------------------------
(* kmem_init and userinit have run, in a machine of some size.              *)
Boot(n) ==
  [frames |-> n, free |-> 1..n, twice |-> FALSE, trapframe |-> [p \in Slots |-> Null],
   tab |-> [p \in Slots |-> <<>>], pte |-> [p \in Slots |-> <<>>], ret |-> "ok"]

Init ==
  \E n \in 1..NFRAMES :
    /\ mem = uvmfirst(allocproc(Boot(n), 0), 0)
    /\ mem.ret = "ok"
    /\ sz = [p \in Slots |-> IF p = 0 THEN PAGESIZE ELSE 0]
    /\ panicked = ""

(* An operation ends with m; a panic stops the kernel.                      *)
Finish(m) ==
  /\ panicked = ""
  /\ mem' = m
  /\ panicked' = IF m.ret \in {"ok", "fail"} THEN "" ELSE m.ret

Begin == [mem EXCEPT !.ret = "ok"]

growproc(p, n) ==
  LET newsz == (sz[p] + n) % UINT64
      m == IF n > 0 THEN uvmalloc(Begin, p, sz[p], newsz, {"W"})
           ELSE uvmdealloc(Begin, p, sz[p], newsz)
  IN  /\ Alive(p) /\ sz[p] + n <= MaxSz
      /\ Finish(m)
      /\ sz' = IF m.ret # "ok" THEN sz
               ELSE [sz EXCEPT ![p] = IF n > 0 THEN newsz ELSE ShrinkTo(@, newsz)]

(* allocproc takes the first unused slot.                                   *)
fork(p) ==
  \E np \in Slots :
    LET m1 == allocproc(Begin, np)
        m2 == copy_pagetable(m1, p, np, sz[p])
        m  == IF m1.ret # "ok" THEN m1
              ELSE IF m2.ret = "fail" THEN Fail(freeproc([m2 EXCEPT !.ret = "ok"], np))
              ELSE m2
    IN  /\ Alive(p) /\ ~Alive(np) /\ \A q \in 0..(np - 1) : Alive(q)
        /\ Finish(m)
        /\ sz' = IF m.ret = "ok" THEN [sz EXCEPT ![np] = sz[p]] ELSE sz

(* A process other than initproc has exited and wait frees it.              *)
reap(p) ==
  /\ p # 0 /\ Alive(p)
  /\ Finish(freeproc(Begin, p))
  /\ sz' = [sz EXCEPT ![p] = 0]

(* A system call copies len bytes from or to the address va.                *)
copy_user(p, va, len) ==
  /\ Alive(p)
  /\ Finish(copy(Begin, p, va, len))
  /\ UNCHANGED sz

(* usertrap panics whatever vmfault returns.                                *)
page_fault(p, va) ==
  /\ Alive(p)
  /\ Finish([vmfault(Begin, p, sz[p], va) EXCEPT !.ret = "page fault"])
  /\ UNCHANGED sz

Next ==
  \E p \in Slots :
    \/ \E n \in -MaxSz..MaxSz : growproc(p, n)
    \/ fork(p)
    \/ reap(p)
    \/ \E va \in 0..MaxSz, len \in 1..PAGESIZE : copy_user(p, va, len)
    \/ \E va \in 0..MaxSz : page_fault(p, va)

Spec == Init /\ [][Next]_vars

-----------------------------------------------------------------------------
(* What frames are used for: to be free, a trapframe, a page table, or user *)
(* memory (the entries of the trampoline and the trapframe own no frame).   *)
UserPages(p) == DOMAIN mem.pte[p] \ {TRAMPOLINE, TRAPFRAME}
UserFrames(p) == {mem.pte[p][a].pa : a \in UserPages(p)}
Uses ==
  {<<pa, "free", 0, 0>> : pa \in mem.free}
  \cup {<<mem.trapframe[p], "trapframe", p, 0>> : p \in {q \in Slots : Alive(q)}}
  \cup UNION {{<<mem.tab[p][n], "table", p, n>> : n \in DOMAIN mem.tab[p]} : p \in Slots}
  \cup UNION {{<<mem.pte[p][a].pa, "user", p, a>> : a \in UserPages(p)} : p \in Slots}
Lost == (1..mem.frames) \ {u[1] : u \in Uses}

(* No frame is used for two things: none is free and mapped, mapped in two  *)
(* places, or both a page table and user memory; none is freed twice; and   *)
(* the page user space sees at TRAPFRAME is p->trapframe. Failing           *)
(* operations undo half of what they did (copy_pagetable, proc_pagetable,   *)
(* allocproc, fork), so a frame freed once too often or kept in a table     *)
(* would be handed out again while in use.                                  *)
OneUse ==
  /\ TypeOK /\ ~mem.twice
  /\ Cardinality({u[1] : u \in Uses}) = Cardinality(Uses)
  /\ panicked = "" => \A p \in Slots : Alive(p) => mem.pte[p][TRAPFRAME].pa = mem.trapframe[p]

(* Every byte below p->sz is backed by a page, after any sequence of        *)
(* growproc and fork with failures in between.                              *)
SizeBacked ==
  panicked = "" => \A p \in Slots : \A a \in 0..(PageUp(sz[p]) - 1) : a \in DOMAIN mem.pte[p]

(* No failure path loses a frame: in a step that ends no process every      *)
(* frame in use or free stays so, however many allocations succeed before   *)
(* one fails (copy_pagetable: "frees any allocated pages on failure"). When *)
(* freeproc removes a process nothing but its user memory may drop out.     *)
RollbackComplete ==
  [][panicked' = "" =>
       Lost' \ Lost \subseteq UNION {UserFrames(p) : p \in {q \in Slots : Alive(q) /\ ~Alive(q)'}}]_vars
=============================================================================
