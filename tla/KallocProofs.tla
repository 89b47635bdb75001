---------------------------- MODULE KallocProofs ----------------------------
(***************************************************************************)
(* Proofs about Kalloc, for every number of threads and pages and every    *)
(* pool capacity: each page is in exactly one place, the free list is in   *)
(* address order, and the allocator implements PageAlloc.                  *)
(*                                                                         *)
(* The lists are handled through the sets of their nodes: a lemma per list *)
(* operation gives the new set, and the invariant then only needs set      *)
(* reasoning about the places a page can be in.                            *)
(***************************************************************************)
EXTENDS Kalloc, SequenceTheorems, TLAPS

InFlight(t, p) == pc[t] = "to_freelist" /\ page[t] = p

(* The places of a page, told apart pairwise.                               *)
Disjoint ==
  /\ \A i, j \in 1..Len(pool) : pool[i] = pool[j] => i = j
  /\ \A p \in Nodes(pool) : p \notin Nodes(freelist)
  /\ \A t \in Threads : \A p \in held[t] : p \notin Nodes(pool) /\ p \notin Nodes(freelist)
  /\ \A t, u \in Threads : \A p \in held[t] : p \in held[u] => t = u
  /\ \A t, u \in Threads : \A p \in held[t] : ~ InFlight(u, p)
  /\ \A t \in Threads : \A p \in Pages : InFlight(t, p) =>
       /\ p \notin Nodes(pool)
       /\ p \notin Nodes(freelist)
       /\ \A u \in Threads : InFlight(u, p) => t = u

(* While freerange runs no thread has started, and what it has yet to free  *)
(* lies below every other page.                                             *)
Booting ==
  /\ cursor # -1 => \A t \in Threads : held[t] = {} /\ pc[t] = "idle"
  /\ \A p \in Nodes(pool) \cup Nodes(freelist) : p > cursor

Covered ==
  \A p \in Pages :
    \/ p <= cursor
    \/ p \in Nodes(pool)
    \/ p \in Nodes(freelist)
    \/ \E t \in Threads : p \in held[t] \/ InFlight(t, p)

InFlightPages == \A t \in Threads : pc[t] = "to_freelist" => page[t] \in Pages

KInv ==
  /\ TypeOK
  /\ Disjoint
  /\ FreelistOrdered
  /\ Booting
  /\ Covered
  /\ InFlightPages

-----------------------------------------------------------------------------

(* Page numbers are integers.                                               *)
LEMMA PagesInt == \A p \in Pages : p \in Int
BY DEF Pages

(* The nodes of a list of pages are pages.                                  *)
LEMMA NodesArePages ==
  ASSUME NEW s \in Seq(Pages)
  PROVE  /\ Nodes(s) \subseteq Pages
         /\ \A i \in 1..Len(s) : s[i] \in Nodes(s)
BY DEF Nodes

(* page_cache.buf[page_cache.n++] = r adds r to the pool.                   *)
LEMMA AppendNodes ==
  ASSUME NEW s \in Seq(Pages), NEW r \in Pages
  PROVE  /\ Append(s, r) \in Seq(Pages)
         /\ Len(Append(s, r)) = Len(s) + 1
         /\ \A i \in 1..Len(s) : Append(s, r)[i] = s[i]
         /\ Append(s, r)[Len(s) + 1] = r
         /\ Nodes(Append(s, r)) = Nodes(s) \cup {r}
<1>1. /\ Append(s, r) \in Seq(Pages)
      /\ Len(Append(s, r)) = Len(s) + 1
      /\ \A i \in 1..Len(s) : Append(s, r)[i] = s[i]
      /\ Append(s, r)[Len(s) + 1] = r
  OBVIOUS
<1>2. ASSUME NEW p PROVE p \in Nodes(Append(s, r)) <=> p \in Nodes(s) \cup {r}
  BY <1>1 DEF Nodes
<1> QED
  BY <1>1, <1>2

(* page_cache.buf[--page_cache.n] removes the top page r of the pool.       *)
LEMMA PopNodes ==
  ASSUME NEW s \in Seq(Pages), s # <<>>,
         \A i, j \in 1..Len(s) : s[i] = s[j] => i = j
  PROVE  LET q == SubSeq(s, 1, Len(s) - 1)
         IN  /\ q \in Seq(Pages)
             /\ Len(q) = Len(s) - 1
             /\ \A i, j \in 1..Len(q) : q[i] = q[j] => i = j
             /\ s[Len(s)] \in Nodes(s)
             /\ Nodes(q) = Nodes(s) \ {s[Len(s)]}
<1> DEFINE q == SubSeq(s, 1, Len(s) - 1)
<1>1. Len(s) \in Nat /\ Len(s) >= 1
  OBVIOUS
<1>2. /\ q \in Seq(Pages)
      /\ Len(q) = Len(s) - 1
      /\ \A i \in 1..(Len(s) - 1) : q[i] = s[i]
  <2>1. 1 \in Int /\ Len(s) - 1 \in Int /\ \A i \in 1..(Len(s) - 1) : s[i] \in Pages
    BY <1>1
  <2>2. /\ q \in Seq(Pages)
        /\ Len(q) = IF 1 <= Len(s) - 1 THEN Len(s) - 1 - 1 + 1 ELSE 0
        /\ \A i \in 1..(Len(s) - 1 - 1 + 1) : q[i] = s[1 + i - 1]
    BY ONLY <2>1, SubSeqProperties
  <2>3. Len(s) - 1 - 1 + 1 = Len(s) - 1 /\ \A i \in 1..(Len(s) - 1) : 1 + i - 1 = i
    BY <1>1
  <2> HIDE DEF q
  <2>4. Len(q) = Len(s) - 1
    <3>1. CASE Len(s) = 1
      <4>1. Len(q) = 0
        BY <2>2, <3>1
      <4> QED
        BY <3>1, <4>1
    <3>2. CASE Len(s) > 1
      <4>1. 1 <= Len(s) - 1
        BY <1>1, <3>2
      <4> QED
        BY <2>2, <2>3, <4>1
    <3>3. Len(s) = 1 \/ Len(s) > 1
      BY <1>1
    <3> QED
      BY ONLY <3>1, <3>2, <3>3
  <2>5. \A i \in 1..(Len(s) - 1) : q[i] = s[i]
    BY <2>2, <2>3, Zenon
  <2> QED
    BY <2>2, <2>4, <2>5
<1>3. \A i, j \in 1..Len(q) : q[i] = q[j] => i = j
  BY <1>1, <1>2
<1>4. ASSUME NEW p PROVE p \in Nodes(q) <=> p \in Nodes(s) \ {s[Len(s)]}
  BY <1>1, <1>2 DEF Nodes
<1>5. s[Len(s)] \in Nodes(s)
  BY <1>1 DEF Nodes
<1> QED
  BY <1>2, <1>3, <1>4, <1>5

(* A page pushed on the pool that was not in it keeps the entries distinct. *)
LEMMA AppendDistinct ==
  ASSUME NEW s \in Seq(Pages), NEW r \in Pages, r \notin Nodes(s),
         \A i, j \in 1..Len(s) : s[i] = s[j] => i = j
  PROVE  \A i, j \in 1..Len(Append(s, r)) : Append(s, r)[i] = Append(s, r)[j] => i = j
<1> DEFINE q == Append(s, r)
<1>1. /\ Len(s) \in Nat
      /\ Len(q) = Len(s) + 1
      /\ \A i \in 1..Len(s) : q[i] = s[i]
      /\ q[Len(s) + 1] = r
  BY AppendNodes
<1>2. \A i \in 1..Len(s) : s[i] # r
  BY NodesArePages
<1> HIDE DEF q
<1>3. \A i \in 1..Len(q) : i \in 1..Len(s) \/ i = Len(s) + 1
  BY <1>1
<1>4. \A i, j \in 1..Len(q) : q[i] = q[j] => i = j
  BY <1>1, <1>2, <1>3
<1> QED
  BY <1>4 DEF q

(* The sorted insertion of free_page_to_freelist.                           *)
LEMMA InsertNodes ==
  ASSUME freelist \in Seq(Pages), FreelistOrdered,
         NEW r \in Pages, NEW k \in 1..(Len(freelist) + 1),
         Position(k, r), Insert(k, r)
  PROVE  /\ freelist' \in Seq(Pages)
         /\ FreelistOrdered'
         /\ Nodes(freelist)' = Nodes(freelist) \cup {r}
<1> DEFINE n == Len(freelist)
<1>0. n \in Nat /\ \A i \in 1..n : freelist[i] \in Pages
  OBVIOUS
<1>1. n \in Nat /\ r \in Int /\ \A i \in 1..n : freelist[i] \in Pages /\ freelist[i] \in Int
  BY <1>0, PagesInt
<1>2. /\ freelist' \in Seq(Pages)
      /\ Len(freelist') = n + 1
      /\ \A j \in 1..(n + 1) :
           freelist'[j] = IF j < k THEN freelist[j] ELSE IF j = k THEN r ELSE freelist[j - 1]
  BY <1>1 DEF Insert
<1>3. ASSUME NEW i \in 1..(n + 1), NEW j \in 1..(n + 1), i < j
      PROVE  freelist'[i] < freelist'[j]
  <2>1. \A a \in 1..n : a < k => freelist[a] < r
    BY <1>1 DEF Position
  <2>2. \A a \in 1..n : a >= k => r < freelist[a]
    <3>1. k <= n => r < freelist[k]
      BY DEF Position
    <3>2. ASSUME NEW a \in 1..n, a > k PROVE r < freelist[a]
      <4>1. k \in 1..n /\ freelist[k] < freelist[a]
        BY <1>1, <3>2 DEF FreelistOrdered
      <4> QED
        BY <1>1, <3>1, <4>1
    <3> QED
      BY <1>1, <3>1, <3>2
  <2>3. \A a, b \in 1..n : a < b => freelist[a] < freelist[b]
    BY DEF FreelistOrdered
  <2>4. CASE j < k
    <3>1. i \in 1..n /\ j \in 1..n /\ freelist'[i] = freelist[i] /\ freelist'[j] = freelist[j]
      BY <1>1, <1>2, <1>3, <2>4
    <3> QED
      BY <1>3, <2>3, <3>1
  <2>5. CASE j = k
    <3>1. i \in 1..n /\ i < k /\ freelist'[i] = freelist[i] /\ freelist'[j] = r
      BY <1>1, <1>2, <1>3, <2>5
    <3> QED
      BY <2>1, <3>1
  <2>6. CASE j > k
    <3>1. j - 1 \in 1..n /\ j - 1 >= k /\ freelist'[j] = freelist[j - 1]
      BY <1>1, <1>2, <2>6
    <3>2. CASE i > k
      <4>1. i - 1 \in 1..n /\ i - 1 < j - 1 /\ freelist'[i] = freelist[i - 1]
        BY <1>1, <1>2, <1>3, <3>2
      <4> QED
        BY <2>3, <3>1, <4>1
    <3>3. CASE i = k
      <4>1. freelist'[i] = r
        BY <1>2, <3>3
      <4> QED
        BY <2>2, <3>1, <4>1
    <3>4. CASE i < k
      <4>1. i \in 1..n /\ i < j - 1 /\ freelist'[i] = freelist[i]
        BY <1>1, <1>2, <1>3, <2>6, <3>4
      <4> QED
        BY <2>3, <3>1, <4>1
    <3> QED
      BY <3>2, <3>3, <3>4
  <2> QED
    BY <2>4, <2>5, <2>6
<1>4. FreelistOrdered'
  BY <1>2, <1>3 DEF FreelistOrdered
<1>5. ASSUME NEW p PROVE p \in Nodes(freelist)' <=> p \in Nodes(freelist) \cup {r}
  <2>1. ASSUME NEW i \in 1..n PROVE \E j \in 1..(n + 1) : freelist'[j] = freelist[i]
    <3>1. CASE i < k
      BY <1>1, <1>2, <3>1
    <3>2. CASE i >= k
      <4>1. i + 1 \in 1..(n + 1) /\ freelist'[i + 1] = freelist[i]
        BY <1>1, <1>2, <3>2
      <4> QED
        BY <4>1
    <3> QED
      BY <1>1, <3>1, <3>2
  <2>2. freelist'[k] = r
    BY <1>1, <1>2
  <2>3. ASSUME NEW j \in 1..(n + 1)
        PROVE  freelist'[j] = r \/ \E i \in 1..n : freelist'[j] = freelist[i]
    <3>1. CASE j > k
      <4>1. j - 1 \in 1..n /\ freelist'[j] = freelist[j - 1]
        BY <1>1, <1>2, <3>1
      <4> QED
        BY <4>1
    <3> QED
      BY <1>1, <1>2, <3>1
  <2>4. Nodes(freelist') \subseteq Nodes(freelist) \cup {r}
    <3>1. Nodes(freelist) = {freelist[i] : i \in 1..n}
      BY <1>1 DEF Nodes
    <3>2. Nodes(freelist') = {freelist'[j] : j \in 1..(n + 1)}
      BY <1>2 DEF Nodes
    <3> QED
      BY ONLY <2>3, <3>1, <3>2
  <2>5. Nodes(freelist) \cup {r} \subseteq Nodes(freelist')
    <3>1. r \in Nodes(freelist')
      BY <1>1, <1>2, <2>2 DEF Nodes
    <3>2. Nodes(freelist) \subseteq Nodes(freelist')
      BY <1>1, <1>2, <2>1 DEF Nodes
    <3> QED
      BY ONLY <3>1, <3>2
  <2> QED
    BY ONLY <2>4, <2>5
<1> QED
  BY <1>2, <1>4, <1>5

(* alloc_page takes the head of the free list.                              *)
LEMMA HeadNodes ==
  ASSUME freelist \in Seq(Pages), FreelistOrdered, freelist # <<>>,
         freelist' = Tail(freelist)
  PROVE  /\ freelist' \in Seq(Pages)
         /\ FreelistOrdered'
         /\ Head(freelist) \in Nodes(freelist)
         /\ Nodes(freelist)' = Nodes(freelist) \ {Head(freelist)}
<1> DEFINE n == Len(freelist)
<1>0. n \in Nat /\ n >= 1 /\ \A i \in 1..n : freelist[i] \in Pages
  OBVIOUS
<1>1. n \in Nat /\ n >= 1 /\ \A i \in 1..n : freelist[i] \in Pages /\ freelist[i] \in Int
  BY <1>0, PagesInt
<1>2. /\ freelist' \in Seq(Pages)
      /\ Len(freelist') = n - 1
      /\ \A j \in 1..(n - 1) : freelist'[j] = freelist[j + 1]
      /\ Head(freelist) = freelist[1]
  BY <1>1
<1>3. FreelistOrdered'
  BY <1>1, <1>2 DEF FreelistOrdered
<1>4. ASSUME NEW p PROVE p \in Nodes(freelist)' <=> p \in Nodes(freelist) \ {Head(freelist)}
  <2>1. \A i \in 1..n : i # 1 => freelist[i] # freelist[1]
    <3>1. ASSUME NEW i \in 1..n, i # 1 PROVE freelist[1] < freelist[i]
      BY <1>1, <3>1 DEF FreelistOrdered
    <3> QED
      BY <1>1, <3>1
  <2>2. \A i \in 1..n : i # 1 => i - 1 \in 1..(n - 1) /\ freelist'[i - 1] = freelist[i]
    BY <1>1, <1>2
  <2> QED
    BY <1>1, <1>2, <2>1, <2>2 DEF Nodes
<1>5. Head(freelist) \in Nodes(freelist)
  BY <1>1, <1>2 DEF Nodes
<1> QED
  BY <1>2, <1>3, <1>4, <1>5

(* alloc_pages cuts a run of n nodes out of the free list.                  *)
LEMMA CutNodes ==
  ASSUME freelist \in Seq(Pages), FreelistOrdered,
         NEW n \in Nat \ {0}, NEW k \in 1..Len(freelist),
         RunAt(k, n), Cut(k, n)
  PROVE  LET S == {freelist[k] + j : j \in 0..(n - 1)}
         IN  /\ freelist' \in Seq(Pages)
             /\ FreelistOrdered'
             /\ S \subseteq Nodes(freelist)
             /\ Nodes(freelist)' = Nodes(freelist) \ S
<1> DEFINE m == Len(freelist)
           S == {freelist[k] + j : j \in 0..(n - 1)}
<1>0. m \in Nat /\ \A i \in 1..m : freelist[i] \in Pages
  OBVIOUS
<1>1. m \in Nat /\ \A i \in 1..m : freelist[i] \in Pages /\ freelist[i] \in Int
  BY <1>0, PagesInt
<1>2. k + n - 1 <= m /\ \A j \in 0..(n - 1) : freelist[k + j] = freelist[k] + j
  BY DEF RunAt
<1>3. /\ freelist' \in Seq(Pages)
      /\ Len(freelist') = m - n
      /\ \A j \in 1..(m - n) : freelist'[j] = IF j < k THEN freelist[j] ELSE freelist[j + n]
  <2>1. m - n \in Nat
    BY <1>1, <1>2
  <2>2. \A j \in 1..(m - n) : j \in 1..m /\ j + n \in 1..m
    BY <1>1, <1>2
  <2>3. freelist' \in [1..(m - n) -> Pages]
    BY <1>1, <2>1, <2>2 DEF Cut
  <2> QED
    BY <2>1, <2>2, <2>3 DEF Cut
<1>4. FreelistOrdered'
  <2>1. ASSUME NEW i \in 1..(m - n), NEW j \in 1..(m - n), i < j
        PROVE  freelist'[i] < freelist'[j]
    <3>1. \A a, b \in 1..m : a < b => freelist[a] < freelist[b]
      BY DEF FreelistOrdered
    <3>2. /\ i \in 1..m /\ j \in 1..m /\ i + n \in 1..m /\ j + n \in 1..m
          /\ i < j /\ i < j + n /\ i + n < j + n
      BY <1>1, <1>2, <2>1
    <3>3. freelist[i] < freelist[j] /\ freelist[i] < freelist[j + n] /\ freelist[i + n] < freelist[j + n]
      BY <3>1, <3>2
    <3>4. i >= k => j >= k
      BY <2>1
    <3> QED
      BY <1>3, <3>3, <3>4
  <2> QED
    BY <1>3, <2>1 DEF FreelistOrdered
<1>5. \A i \in 1..m : freelist[i] \in S <=> (i >= k /\ i < k + n)
  <2>1. ASSUME NEW i \in 1..m, i >= k, i < k + n PROVE freelist[i] \in S
    <3>1. i - k \in 0..(n - 1) /\ k + (i - k) = i
      BY <1>1, <2>1
    <3>2. freelist[i] = freelist[k] + (i - k)
      BY <1>2, <3>1
    <3> QED
      BY <3>1, <3>2
  <2>2. ASSUME NEW i \in 1..m, freelist[i] \in S PROVE i >= k /\ i < k + n
    <3>1. PICK j \in 0..(n - 1) : freelist[i] = freelist[k] + j
      BY <2>2
    <3>2. k + j \in 1..m /\ freelist[k + j] = freelist[i]
      BY <1>1, <1>2, <3>1
    <3>3. i = k + j
      <4>1. freelist[i] \in Int /\ freelist[k + j] \in Int
        BY <1>1, <3>2
      <4>2. i < k + j => freelist[i] < freelist[k + j]
        BY <3>2 DEF FreelistOrdered
      <4>3. k + j < i => freelist[k + j] < freelist[i]
        BY <3>2 DEF FreelistOrdered
      <4> QED
        BY <3>2, <4>1, <4>2, <4>3
    <3> QED
      BY <3>3
  <2> QED
    BY <2>1, <2>2
<1>6. S \subseteq Nodes(freelist)
  <2>1. ASSUME NEW j \in 0..(n - 1) PROVE freelist[k] + j \in Nodes(freelist)
    <3>1. k + j \in 1..m /\ freelist[k + j] = freelist[k] + j
      BY <1>1, <1>2
    <3> QED
      BY <3>1 DEF Nodes
  <2> QED
    BY <2>1
<1>7. ASSUME NEW p PROVE p \in Nodes(freelist)' <=> p \in Nodes(freelist) \ S
  <2>1. ASSUME NEW j \in 1..(m - n)
        PROVE  \E i \in 1..m : freelist'[j] = freelist[i] /\ ~ (i >= k /\ i < k + n)
    <3>1. CASE j < k
      <4>1. j \in 1..m /\ freelist'[j] = freelist[j]
        BY <1>1, <1>3, <3>1
      <4> QED
        BY <3>1, <4>1
    <3>2. CASE j >= k
      <4>1. j + n \in 1..m /\ freelist'[j] = freelist[j + n] /\ j + n >= k + n
        BY <1>1, <1>2, <1>3, <3>2
      <4> QED
        BY <4>1
    <3> QED
      BY <3>1, <3>2
  <2>2. ASSUME NEW i \in 1..m, ~ (i >= k /\ i < k + n)
        PROVE  \E j \in 1..(m - n) : freelist'[j] = freelist[i]
    <3>1. CASE i < k
      <4>1. i \in 1..(m - n)
        BY <1>1, <1>2, <3>1
      <4> QED
        BY <1>3, <3>1, <4>1
    <3>2. CASE i >= k + n
      <4>1. i - n \in 1..(m - n) /\ i - n >= k /\ (i - n) + n = i
        BY <1>1, <1>2, <3>2
      <4>2. freelist'[i - n] = freelist[i]
        BY <1>3, <4>1
      <4> QED
        BY <4>1, <4>2
    <3> QED
      BY <2>2, <3>1, <3>2
  <2>3. \A i \in 1..m : freelist[i] \in Nodes(freelist)
    BY DEF Nodes
  <2>4. ASSUME p \in Nodes(freelist)' PROVE p \in Nodes(freelist) \ S
    <3>1. PICK j \in 1..(m - n) : p = freelist'[j]
      BY <1>3, <2>4 DEF Nodes
    <3>2. PICK i \in 1..m : p = freelist[i] /\ ~ (i >= k /\ i < k + n)
      BY <2>1, <3>1
    <3> QED
      BY <1>5, <2>3, <3>2
  <2>5. ASSUME p \in Nodes(freelist) \ S PROVE p \in Nodes(freelist)'
    <3>1. PICK i \in 1..m : p = freelist[i]
      BY <2>5 DEF Nodes
    <3>2. PICK j \in 1..(m - n) : freelist'[j] = p
      BY <1>5, <2>2, <2>5, <3>1, Zenon
    <3> QED
      BY <1>3, <3>2 DEF Nodes
  <2> QED
    BY <2>4, <2>5
<1> QED
  BY <1>3, <1>4, <1>6, <1>7

-----------------------------------------------------------------------------

(* Every step keeps the types.                                              *)
LEMMA TypeStep ==
  KInv /\ [Next]_vars => TypeOK'
<1> SUFFICES ASSUME KInv, [Next]_vars PROVE TypeOK'
  OBVIOUS
<1> USE KallocConstants
<1>0. TypeOK /\ FreelistOrdered /\ InFlightPages /\ (\A i, j \in 1..Len(pool) : pool[i] = pool[j] => i = j)
  BY DEF KInv, Disjoint
<1>1. CASE Freerange
  <2>1. cursor \in Pages /\ cursor' \in -1..(NPAGES - 1)
    BY <1>0, <1>1 DEF TypeOK, Freerange, Pages
  <2>2. CASE PoolHasRoom
    <3>1. pool' = Append(pool, cursor) /\ freelist' = freelist
      BY <1>1, <2>2 DEF Freerange
    <3>2. pool' \in Seq(Pages) /\ Len(pool') <= PAGE_POOL_CAP
      BY <1>0, <2>1, <2>2, <3>1, AppendNodes DEF TypeOK, PoolHasRoom
    <3> QED
      BY <1>0, <1>1, <2>1, <3>1, <3>2 DEF TypeOK, Freerange
  <2>3. CASE ~ PoolHasRoom
    <3>1. pool' = pool
      BY <1>1, <2>3 DEF Freerange
    <3>2. freelist' \in Seq(Pages)
      BY <1>0, <1>1, <2>1, <2>3, InsertNodes DEF TypeOK, Freerange
    <3> QED
      BY <1>0, <1>1, <2>1, <3>1, <3>2 DEF TypeOK, Freerange
  <2> QED
    BY <2>2, <2>3
<1>2. ASSUME NEW t \in Threads, NEW pa \in Pages, FreePage(t, pa) PROVE TypeOK'
  <2>1. held' \in [Threads -> SUBSET Pages]
    BY <1>0, <1>2 DEF TypeOK, FreePage
  <2>2. CASE PoolHasRoom
    <3>1. pool' = Append(pool, pa)
      BY <1>2, <2>2 DEF FreePage
    <3>2. pool' \in Seq(Pages) /\ Len(pool') <= PAGE_POOL_CAP
      BY <1>0, <2>2, <3>1, AppendNodes DEF TypeOK, PoolHasRoom
    <3> QED
      BY <1>0, <1>2, <2>1, <2>2, <3>2 DEF TypeOK, FreePage
  <2>3. CASE ~ PoolHasRoom
    BY <1>0, <1>2, <2>1, <2>3 DEF TypeOK, FreePage
  <2> QED
    BY <2>2, <2>3
<1>3. ASSUME NEW t \in Threads, FreePageToFreelist(t) PROVE TypeOK'
  <2>1. page[t] \in Pages
    BY <1>0, <1>3 DEF InFlightPages, FreePageToFreelist
  <2>2. freelist' \in Seq(Pages)
    BY <1>0, <1>3, <2>1, InsertNodes DEF TypeOK, FreePageToFreelist
  <2> QED
    BY <1>0, <1>3, <2>2 DEF TypeOK, FreePageToFreelist
<1>4. ASSUME NEW t \in Threads, AllocPage(t) PROVE TypeOK'
  <2>1. CASE pool # <<>>
    <3>1. pool' = SubSeq(pool, 1, Len(pool) - 1) /\ held' = [held EXCEPT ![t] = @ \cup {pool[Len(pool)]}]
      BY <1>4, <2>1 DEF AllocPage
    <3>2. pool \in Seq(Pages)
      BY <1>0 DEF TypeOK
    <3>3. pool' \in Seq(Pages) /\ Len(pool') = Len(pool) - 1 /\ pool[Len(pool)] \in Nodes(pool)
      BY <1>0, <2>1, <3>1, <3>2, PopNodes
    <3>4. pool[Len(pool)] \in Pages
      BY <3>2, <3>3, NodesArePages
    <3>5. held' \in [Threads -> SUBSET Pages]
      BY <1>0, <3>1, <3>4 DEF TypeOK
    <3>6. Len(pool') <= PAGE_POOL_CAP
      BY <1>0, <3>2, <3>3 DEF TypeOK
    <3> QED
      BY <1>0, <1>4, <2>1, <3>3, <3>5, <3>6 DEF TypeOK, AllocPage
  <2>2. CASE pool = <<>>
    BY <1>0, <1>4, <2>2 DEF TypeOK, AllocPage
  <2> QED
    BY <2>1, <2>2
<1>5. ASSUME NEW t \in Threads, AllocFromFreelist(t) PROVE TypeOK'
  <2>1. CASE freelist # <<>>
    <3>1. freelist \in Seq(Pages) /\ freelist' = Tail(freelist)
          /\ held' = [held EXCEPT ![t] = @ \cup {Head(freelist)}]
      BY <1>0, <1>5, <2>1 DEF TypeOK, AllocFromFreelist
    <3>2. freelist' \in Seq(Pages) /\ Head(freelist) \in Pages
      BY <2>1, <3>1
    <3> QED
      BY <1>0, <1>5, <3>1, <3>2 DEF TypeOK, AllocFromFreelist
  <2>2. CASE freelist = <<>>
    BY <1>0, <1>5, <2>2 DEF TypeOK, AllocFromFreelist
  <2> QED
    BY <2>1, <2>2
<1>6. ASSUME NEW t \in Threads, NEW n \in 1..NPAGES, AllocPages(t, n) PROVE TypeOK'
  <2>1. UNCHANGED <<cursor, pool, pc, page>>
    BY <1>6 DEF AllocPages
  <2>2. CASE /\ panicked' = TRUE
             /\ UNCHANGED <<held, freelist>>
    BY <1>0, <2>1, <2>2 DEF TypeOK
  <2>3. ASSUME NEW k \in 1..Len(freelist), RunAt(k, n), Cut(k, n), UNCHANGED panicked,
               held' = [held EXCEPT ![t] = @ \cup {freelist[k] + j : j \in 0..(n - 1)}]
        PROVE  TypeOK'
    <3>1. freelist \in Seq(Pages) /\ n \in Nat \ {0}
      BY <1>0 DEF TypeOK
    <3>2. freelist' \in Seq(Pages) /\ {freelist[k] + j : j \in 0..(n - 1)} \subseteq Nodes(freelist)
      BY <1>0, <2>3, <3>1, CutNodes
    <3>3. {freelist[k] + j : j \in 0..(n - 1)} \subseteq Pages
      BY <3>1, <3>2, NodesArePages
    <3>4. held' \in [Threads -> SUBSET Pages]
      BY <1>0, <2>3, <3>3 DEF TypeOK
    <3> QED
      BY <1>0, <2>1, <2>3, <3>2, <3>4 DEF TypeOK
  <2> QED
    BY <1>6, <2>2, <2>3, Zenon DEF AllocPages
<1>7. CASE UNCHANGED vars
  BY <1>0, <1>7 DEF TypeOK, vars
<1> QED
  BY <1>1, <1>2, <1>3, <1>4, <1>5, <1>6, <1>7 DEF Next

(* What a step does to the set of places: page by page, the allocator moves *)
(* pages between the pool, the list and their owners, and keeps the list in *)
(* order.                                                                   *)
LEMMA FreerangeStep ==
  KInv /\ Freerange => (Disjoint /\ FreelistOrdered /\ Booting /\ Covered /\ InFlightPages)'
<1> SUFFICES ASSUME KInv, Freerange
             PROVE  (Disjoint /\ FreelistOrdered /\ Booting /\ Covered /\ InFlightPages)'
  OBVIOUS
<1> USE KallocConstants
<1>1. /\ cursor \in Pages /\ cursor \in Int /\ cursor >= 0 /\ cursor' = cursor - 1
      /\ pool \in Seq(Pages) /\ freelist \in Seq(Pages)
      /\ UNCHANGED <<held, pc, page>>
  BY DEF KInv, TypeOK, Freerange, Pages
<1>2. \A t \in Threads : held[t] = {} /\ pc[t] = "idle"
  BY <1>1 DEF KInv, Booting
<1>3. Nodes(pool) \subseteq Pages /\ Nodes(freelist) \subseteq Pages
  BY <1>1, NodesArePages
<1>4. cursor \notin Nodes(pool) /\ cursor \notin Nodes(freelist)
  BY <1>1 DEF KInv, Booting
<1>5. \A p \in Nodes(pool) \cup Nodes(freelist) \cup {cursor} : p > cursor - 1
  <2>1. \A p \in Nodes(pool) \cup Nodes(freelist) : p > cursor /\ p \in Int
    BY <1>3, PagesInt DEF KInv, Booting
  <2> QED
    BY <1>1, <2>1
<1>6. CASE PoolHasRoom
  <2>1. pool' = Append(pool, cursor) /\ freelist' = freelist
    BY <1>6 DEF Freerange
  <2>2. Nodes(pool)' = Nodes(pool) \cup {cursor} /\ Nodes(freelist)' = Nodes(freelist)
    BY <1>1, <2>1, AppendNodes
  <2>3. \A i, j \in 1..Len(pool') : pool'[i] = pool'[j] => i = j
    BY <1>1, <1>4, <2>1, AppendDistinct DEF KInv, Disjoint
  <2>4. Disjoint'
    BY <1>1, <1>2, <1>4, <2>2, <2>3 DEF KInv, Disjoint, InFlight
  <2>5. FreelistOrdered'
    BY <2>1 DEF KInv, FreelistOrdered
  <2>6. Booting'
    BY <1>1, <1>2, <1>5, <2>2 DEF Booting
  <2>7. Covered'
    BY <1>1, <1>2, <2>2, PagesInt DEF KInv, Covered, InFlight
  <2> QED
    BY <1>1, <1>2, <2>4, <2>5, <2>6, <2>7 DEF InFlightPages
<1>7. CASE ~ PoolHasRoom
  <2>1. pool' = pool
    BY <1>7 DEF Freerange
  <2>2. FreelistOrdered' /\ Nodes(freelist)' = Nodes(freelist) \cup {cursor}
    BY <1>1, <1>7, InsertNodes DEF Freerange, KInv
  <2>3. Nodes(pool)' = Nodes(pool)
    BY <2>1
  <2>4. Disjoint'
    BY <1>1, <1>2, <1>4, <2>1, <2>2, <2>3 DEF KInv, Disjoint, InFlight
  <2>5. Booting'
    BY <1>1, <1>2, <1>5, <2>2, <2>3 DEF Booting
  <2>6. Covered'
    BY <1>1, <1>2, <2>2, <2>3, PagesInt DEF KInv, Covered, InFlight
  <2> QED
    BY <1>1, <1>2, <2>2, <2>4, <2>5, <2>6 DEF InFlightPages
<1> QED
  BY <1>6, <1>7

(* free_page, up to the release of page_cache.lock, moves a page from its   *)
(* owner to the pool, or takes it in flight to the list.                    *)
LEMMA FreePageStep ==
  ASSUME KInv, NEW t \in Threads, NEW pa \in Pages, FreePage(t, pa)
  PROVE  (Disjoint /\ FreelistOrdered /\ Booting /\ Covered /\ InFlightPages)'
<1> USE KallocConstants
<1>1. /\ pool \in Seq(Pages) /\ pc[t] = "idle" /\ pa \in held[t]
      /\ cursor = -1 /\ cursor' = -1 /\ freelist' = freelist
      /\ held' = [u \in Threads |-> IF u = t THEN held[t] \ {pa} ELSE held[u]]
      /\ Nodes(freelist)' = Nodes(freelist)
  BY Zenon DEF KInv, TypeOK, FreePage, Runs
<1>2. Nodes(pool) \subseteq Pages /\ Nodes(freelist) \subseteq Pages
  BY NodesArePages DEF KInv, TypeOK
<1>3. /\ pa \notin Nodes(pool) /\ pa \notin Nodes(freelist)
      /\ \A u \in Threads : ~ InFlight(u, pa) /\ (pa \in held[u] => u = t)
  BY <1>1 DEF KInv, Disjoint
<1>4. FreelistOrdered'
  BY <1>1 DEF KInv, FreelistOrdered
<1>5. \A u \in Threads : held'[u] \subseteq held[u] /\ pa \notin held'[u]
  BY <1>1, <1>3
<1>6. CASE PoolHasRoom
  <2>1. pool' = Append(pool, pa) /\ UNCHANGED <<pc, page>>
    BY <1>6 DEF FreePage
  <2>2. Nodes(pool)' = Nodes(pool) \cup {pa}
    BY <1>1, <2>1, AppendNodes
  <2>3. \A i, j \in 1..Len(pool') : pool'[i] = pool'[j] => i = j
    BY <1>1, <1>3, <2>1, AppendDistinct DEF KInv, Disjoint
  <2>4. \A u \in Threads, p \in Pages : InFlight(u, p)' <=> InFlight(u, p)
    BY <2>1 DEF InFlight
  <2>5. Disjoint'
    <3>1. \A p \in Nodes(pool)' : p \notin Nodes(freelist)'
      BY <1>1, <1>3, <2>2 DEF KInv, Disjoint
    <3>2. \A u \in Threads : \A p \in held'[u] : p \notin Nodes(pool)' /\ p \notin Nodes(freelist)'
      BY <1>1, <1>3, <1>5, <2>2 DEF KInv, Disjoint
    <3>3. \A u, v \in Threads : \A p \in held'[u] : p \in held'[v] => u = v
      BY <1>5 DEF KInv, Disjoint
    <3>4. \A u, v \in Threads : \A p \in held'[u] : ~ InFlight(v, p)'
      BY <1>5, <2>1 DEF KInv, Disjoint, InFlight
    <3>5. \A u \in Threads : \A p \in Pages : InFlight(u, p)' =>
            /\ p \notin Nodes(pool)'
            /\ p \notin Nodes(freelist)'
            /\ \A v \in Threads : InFlight(v, p)' => u = v
      BY <1>1, <1>3, <2>2, <2>4 DEF KInv, Disjoint
    <3> QED
      BY <2>3, <3>1, <3>2, <3>3, <3>4, <3>5 DEF Disjoint
  <2>6. Booting'
    BY <1>1, <1>2, <2>2, PagesInt DEF Booting, Pages
  <2>7. Covered'
    BY <1>1, <1>3, <2>2, <2>4 DEF KInv, Covered
  <2> QED
    BY <1>4, <2>1, <2>5, <2>6, <2>7 DEF KInv, InFlightPages
<1>7. CASE ~ PoolHasRoom
  <2>1. /\ pool' = pool /\ Nodes(pool)' = Nodes(pool)
        /\ \A u \in Threads : pc'[u] = IF u = t THEN "to_freelist" ELSE pc[u]
        /\ \A u \in Threads : page'[u] = IF u = t THEN pa ELSE page[u]
    BY <1>7 DEF FreePage, KInv, TypeOK
  <2>2. \A u \in Threads : \A p : InFlight(u, p)' <=> IF u = t THEN p = pa ELSE InFlight(u, p)
    BY <2>1 DEF InFlight
  <2>3. Disjoint'
    <3>1. \A i, j \in 1..Len(pool') : pool'[i] = pool'[j] => i = j
      BY <2>1 DEF KInv, Disjoint
    <3>2. \A u \in Threads : \A p \in held'[u] : p \notin Nodes(pool)' /\ p \notin Nodes(freelist)'
      BY <1>1, <1>5, <2>1 DEF KInv, Disjoint
    <3>3. \A u, v \in Threads : \A p \in held'[u] : p \in held'[v] => u = v
      BY <1>5 DEF KInv, Disjoint
    <3>4. \A u, v \in Threads : \A p \in held'[u] : ~ InFlight(v, p)'
      BY <1>5, <2>2 DEF KInv, Disjoint
    <3>5. \A u \in Threads : \A p \in Pages : InFlight(u, p)' =>
            /\ p \notin Nodes(pool)'
            /\ p \notin Nodes(freelist)'
            /\ \A v \in Threads : InFlight(v, p)' => u = v
      BY <1>1, <1>3, <2>1, <2>2 DEF KInv, Disjoint
    <3>6. \A p \in Nodes(pool)' : p \notin Nodes(freelist)'
      BY <1>1, <2>1 DEF KInv, Disjoint
    <3> QED
      BY <3>1, <3>2, <3>3, <3>4, <3>5, <3>6 DEF Disjoint
  <2>4. Booting'
    BY <1>1, <1>2, <2>1, PagesInt DEF Booting, Pages
  <2>5. Covered'
    <3>1. InFlight(t, pa)'
      BY <2>2
    <3>2. \A u \in Threads : \A p \in Pages : p # pa =>
            (p \in held[u] => p \in held'[u]) /\ (InFlight(u, p) => InFlight(u, p)')
      BY <1>1, <2>2, Zenon DEF InFlight
    <3>3. ASSUME NEW p \in Pages, p # pa
          PROVE  \/ p <= cursor' \/ p \in Nodes(pool)' \/ p \in Nodes(freelist)'
                 \/ \E u \in Threads : p \in held'[u] \/ InFlight(u, p)'
      BY <1>1, <2>1, <3>2, <3>3 DEF KInv, Covered
    <3> QED
      BY <3>1, <3>3 DEF Covered
  <2>6. InFlightPages'
    BY <2>1 DEF KInv, InFlightPages
  <2> QED
    BY <1>4, <2>3, <2>4, <2>5, <2>6
<1> QED
  BY <1>6, <1>7

(* free_page_to_freelist moves the page in flight into the list.            *)
LEMMA ToFreelistStep ==
  ASSUME KInv, NEW t \in Threads, FreePageToFreelist(t)
  PROVE  (Disjoint /\ FreelistOrdered /\ Booting /\ Covered /\ InFlightPages)'
<1> USE KallocConstants
<1> DEFINE r == page[t]
<1>1. /\ r \in Pages /\ InFlight(t, r) /\ pool' = pool /\ held' = held /\ cursor' = cursor
      /\ Nodes(pool)' = Nodes(pool)
      /\ \A u \in Threads : pc'[u] = IF u = t THEN "idle" ELSE pc[u]
      /\ \A u \in Threads : u # t => page'[u] = page[u]
  BY DEF KInv, TypeOK, FreePageToFreelist, InFlight, InFlightPages
<1>2. FreelistOrdered' /\ Nodes(freelist)' = Nodes(freelist) \cup {r}
  BY <1>1, InsertNodes DEF KInv, TypeOK, FreePageToFreelist
<1>3. \A u \in Threads : \A p : InFlight(u, p)' <=> u # t /\ InFlight(u, p)
  BY <1>1 DEF InFlight
<1>4. r \notin Nodes(pool) /\ r \notin Nodes(freelist)
      /\ \A u \in Threads : r \notin held[u] /\ (InFlight(u, r) => u = t)
  BY <1>1 DEF KInv, Disjoint
<1>5. cursor = -1
  BY <1>1 DEF KInv, Booting, InFlight
<1> HIDE DEF r
<1>6. Disjoint'
  <2>1. \A i, j \in 1..Len(pool') : pool'[i] = pool'[j] => i = j
    BY <1>1 DEF KInv, Disjoint
  <2>2. \A p \in Nodes(pool)' : p \notin Nodes(freelist)'
    BY <1>1, <1>2, <1>4 DEF KInv, Disjoint
  <2>3. \A u \in Threads : \A p \in held'[u] : p \notin Nodes(pool)' /\ p \notin Nodes(freelist)'
    BY <1>1, <1>2, <1>4 DEF KInv, Disjoint
  <2>4. \A u, v \in Threads : \A p \in held'[u] : (p \in held'[v] => u = v) /\ ~ InFlight(v, p)'
    BY <1>1, <1>3 DEF KInv, Disjoint
  <2>5. \A u \in Threads : \A p \in Pages : InFlight(u, p)' =>
          /\ p \notin Nodes(pool)'
          /\ p \notin Nodes(freelist)'
          /\ \A v \in Threads : InFlight(v, p)' => u = v
    BY <1>1, <1>2, <1>3, <1>4 DEF KInv, Disjoint
  <2> QED
    BY <2>1, <2>2, <2>3, <2>4, <2>5 DEF Disjoint
<1>7. Booting'
  <2>1. \A p \in Pages : p > -1
    BY DEF Pages
  <2>2. Nodes(pool) \subseteq Pages /\ Nodes(freelist) \subseteq Pages
    BY NodesArePages DEF KInv, TypeOK
  <2> QED
    BY <1>1, <1>2, <1>5, <2>1, <2>2 DEF Booting
<1>8. Covered'
  <2>1. \A u \in Threads : \A p \in Pages : p # r => (InFlight(u, p) => InFlight(u, p)')
    BY <1>1, <1>3 DEF InFlight
  <2> QED
    BY <1>1, <1>2, <2>1 DEF KInv, Covered
<1>9. InFlightPages'
  BY <1>1 DEF KInv, InFlightPages
<1> QED
  BY <1>2, <1>6, <1>7, <1>8, <1>9

(* A step that hands a set S of free pages to thread t, taken from the pool *)
(* or from the list, keeps the places apart.                                *)
LEMMA TakeStep ==
  ASSUME KInv, TypeOK', NEW t \in Threads, NEW S,
         cursor = -1, cursor' = -1,
         S \subseteq Nodes(pool) \/ S \subseteq Nodes(freelist),
         Nodes(pool)' = Nodes(pool) \ S,
         Nodes(freelist)' = Nodes(freelist) \ S,
         \A i, j \in 1..Len(pool') : pool'[i] = pool'[j] => i = j,
         held' = [held EXCEPT ![t] = @ \cup S],
         \A u \in Threads : pc'[u] = "to_freelist" <=> pc[u] = "to_freelist",
         page' = page
  PROVE  (Disjoint /\ Booting /\ Covered /\ InFlightPages)'
<1> USE KallocConstants
<1>1. \A u \in Threads : held'[u] = IF u = t THEN held[u] \cup S ELSE held[u]
  BY Zenon DEF KInv, TypeOK
<1>2. \A u \in Threads : \A p : InFlight(u, p)' <=> InFlight(u, p)
  BY DEF InFlight
<1>3. \A p \in S : /\ p \in Pages
                   /\ \A u \in Threads : p \notin held[u] /\ ~ InFlight(u, p)
  <2>1. Nodes(pool) \subseteq Pages /\ Nodes(freelist) \subseteq Pages
    BY NodesArePages DEF KInv, TypeOK
  <2> QED
    BY <2>1 DEF KInv, Disjoint
<1>4. Disjoint'
  <2>2. \A p \in Nodes(pool)' : p \notin Nodes(freelist)'
    BY DEF KInv, Disjoint
  <2>3. \A u \in Threads : \A p \in held'[u] : p \notin Nodes(pool)' /\ p \notin Nodes(freelist)'
    BY <1>1 DEF KInv, Disjoint
  <2>4. \A u, v \in Threads : \A p \in held'[u] : p \in held'[v] => u = v
    BY <1>1, <1>3 DEF KInv, Disjoint
  <2>5. \A u, v \in Threads : \A p \in held'[u] : ~ InFlight(v, p)'
    BY <1>1, <1>2, <1>3 DEF KInv, Disjoint
  <2>6. \A u \in Threads : \A p \in Pages : InFlight(u, p)' =>
          /\ p \notin Nodes(pool)'
          /\ p \notin Nodes(freelist)'
          /\ \A v \in Threads : InFlight(v, p)' => u = v
    BY <1>2 DEF KInv, Disjoint
  <2> QED
    BY <2>2, <2>3, <2>4, <2>5, <2>6 DEF Disjoint
<1>5. Booting'
  <2>1. \A p \in Pages : p > -1
    BY DEF Pages
  <2>2. Nodes(pool) \subseteq Pages /\ Nodes(freelist) \subseteq Pages
    BY NodesArePages DEF KInv, TypeOK
  <2> QED
    BY <2>1, <2>2 DEF Booting
<1>6. Covered'
  <2>1. S \subseteq held'[t]
    <3>1. held'[t] = held[t] \cup S
      BY <1>1, Zenon
    <3> QED
      BY ONLY <3>1
  <2>2. ASSUME NEW p \in Pages, p \notin S
        PROVE  \/ p <= cursor' \/ p \in Nodes(pool)' \/ p \in Nodes(freelist)'
               \/ \E u \in Threads : p \in held'[u] \/ InFlight(u, p)'
    <3>1. \A u \in Threads : p \in held[u] => p \in held'[u]
      BY <1>1
    <3> QED
      BY <1>2, <2>2, <3>1 DEF KInv, Covered
  <2> QED
    BY <2>1, <2>2 DEF Covered
<1>7. InFlightPages'
  BY DEF KInv, InFlightPages
<1> QED
  BY <1>4, <1>5, <1>6, <1>7

(* alloc_page up to the release of page_cache.lock pops the pool.           *)
LEMMA AllocPageStep ==
  ASSUME KInv, NEW t \in Threads, AllocPage(t), TypeOK'
  PROVE  (Disjoint /\ FreelistOrdered /\ Booting /\ Covered /\ InFlightPages)'
<1>1. /\ cursor = -1 /\ cursor' = -1 /\ freelist' = freelist /\ page' = page
      /\ pool \in Seq(Pages) /\ pc[t] = "idle"
  BY DEF KInv, TypeOK, AllocPage, Runs
<1>2. FreelistOrdered' /\ Nodes(freelist)' = Nodes(freelist)
  BY <1>1 DEF KInv, FreelistOrdered
<1>3. CASE pool # <<>>
  <2> DEFINE top == pool[Len(pool)]
  <2>1. /\ pool' = SubSeq(pool, 1, Len(pool) - 1) /\ pc' = pc
        /\ held' = [held EXCEPT ![t] = @ \cup {top}]
    BY <1>3 DEF AllocPage
  <2>2. /\ \A i, j \in 1..Len(pool') : pool'[i] = pool'[j] => i = j
        /\ top \in Nodes(pool)
        /\ Nodes(pool)' = Nodes(pool) \ {top}
    BY <1>1, <1>3, <2>1, PopNodes DEF KInv, Disjoint
  <2>3. Nodes(freelist)' = Nodes(freelist) \ {top}
    BY <1>2, <2>2 DEF KInv, Disjoint
  <2> HIDE DEF top
  <2>4. {top} \subseteq Nodes(pool)
    BY <2>2
  <2>5. \A u \in Threads : pc'[u] = "to_freelist" <=> pc[u] = "to_freelist"
    BY <2>1
  <2>6. (Disjoint /\ Booting /\ Covered /\ InFlightPages)'
    BY <1>1, <2>1, <2>2, <2>3, <2>4, <2>5, TakeStep, Zenon
  <2> QED
    BY <1>2, <2>6
<1>4. CASE pool = <<>>
  <2>1. pool' = pool /\ held' = held /\ pc' = [pc EXCEPT ![t] = "from_freelist"]
    BY <1>4 DEF AllocPage
  <2>2. \A u \in Threads : pc'[u] = "to_freelist" <=> pc[u] = "to_freelist"
    BY <1>1, <2>1 DEF KInv, TypeOK
  <2>3. Nodes(pool)' = Nodes(pool) \ {} /\ Nodes(freelist)' = Nodes(freelist) \ {}
    BY <1>2, <2>1
  <2>4. held' = [held EXCEPT ![t] = @ \cup {}]
    BY <2>1 DEF KInv, TypeOK
  <2>5. \A i, j \in 1..Len(pool') : pool'[i] = pool'[j] => i = j
    BY <2>1 DEF KInv, Disjoint
  <2>6. (Disjoint /\ Booting /\ Covered /\ InFlightPages)'
    BY <1>1, <2>2, <2>3, <2>4, <2>5, TakeStep, Zenon
  <2> QED
    BY <1>2, <2>6
<1> QED
  BY <1>3, <1>4

(* The rest of alloc_page takes the head of the list, or returns 0.         *)
LEMMA FromFreelistStep ==
  ASSUME KInv, NEW t \in Threads, AllocFromFreelist(t), TypeOK'
  PROVE  (Disjoint /\ FreelistOrdered /\ Booting /\ Covered /\ InFlightPages)'
<1>1. /\ cursor' = cursor /\ pool' = pool /\ page' = page /\ Nodes(pool)' = Nodes(pool)
      /\ freelist \in Seq(Pages) /\ pc[t] = "from_freelist"
      /\ pc' = [pc EXCEPT ![t] = "idle"]
  BY DEF KInv, TypeOK, AllocFromFreelist
<1>2. cursor = -1
  BY <1>1 DEF KInv, Booting
<1>3. \A u \in Threads : pc'[u] = "to_freelist" <=> pc[u] = "to_freelist"
  BY <1>1 DEF KInv, TypeOK
<1>4. \A i, j \in 1..Len(pool') : pool'[i] = pool'[j] => i = j
  BY <1>1 DEF KInv, Disjoint
<1>5. CASE freelist # <<>>
  <2> DEFINE h == Head(freelist)
  <2>1. freelist' = Tail(freelist) /\ held' = [held EXCEPT ![t] = @ \cup {h}]
    BY <1>5 DEF AllocFromFreelist
  <2>2. FreelistOrdered' /\ h \in Nodes(freelist) /\ Nodes(freelist)' = Nodes(freelist) \ {h}
    BY <1>1, <1>5, <2>1, HeadNodes DEF KInv
  <2> HIDE DEF h
  <2>3. Nodes(pool)' = Nodes(pool) \ {h} /\ {h} \subseteq Nodes(freelist)
    BY <1>1, <2>2 DEF KInv, Disjoint
  <2>4. (Disjoint /\ Booting /\ Covered /\ InFlightPages)'
    BY <1>1, <1>2, <1>3, <1>4, <2>1, <2>2, <2>3, TakeStep, Zenon
  <2> QED
    BY <2>2, <2>4
<1>6. CASE freelist = <<>>
  <2>1. freelist' = freelist /\ held' = held
    BY <1>6 DEF AllocFromFreelist
  <2>2. FreelistOrdered' /\ Nodes(pool)' = Nodes(pool) \ {} /\ Nodes(freelist)' = Nodes(freelist) \ {}
    BY <1>1, <2>1 DEF KInv, FreelistOrdered
  <2>3. held' = [held EXCEPT ![t] = @ \cup {}]
    BY <2>1 DEF KInv, TypeOK
  <2>4. (Disjoint /\ Booting /\ Covered /\ InFlightPages)'
    BY <1>1, <1>2, <1>3, <1>4, <2>2, <2>3, TakeStep, Zenon
  <2> QED
    BY <2>2, <2>4
<1> QED
  BY <1>5, <1>6

(* alloc_pages takes a run out of the list, or panics.                      *)
LEMMA AllocPagesStep ==
  ASSUME KInv, NEW t \in Threads, NEW n \in 1..NPAGES, AllocPages(t, n), TypeOK'
  PROVE  (Disjoint /\ FreelistOrdered /\ Booting /\ Covered /\ InFlightPages)'
<1>1. /\ cursor = -1 /\ cursor' = -1 /\ pool' = pool /\ page' = page /\ pc' = pc
      /\ Nodes(pool)' = Nodes(pool) /\ freelist \in Seq(Pages)
  BY DEF KInv, TypeOK, AllocPages, Runs
<1>2. \A u \in Threads : pc'[u] = "to_freelist" <=> pc[u] = "to_freelist"
  BY <1>1
<1>3. \A i, j \in 1..Len(pool') : pool'[i] = pool'[j] => i = j
  BY <1>1 DEF KInv, Disjoint
<1>4. ASSUME NEW k \in 1..Len(freelist), RunAt(k, n), Cut(k, n),
             held' = [held EXCEPT ![t] = @ \cup {freelist[k] + j : j \in 0..(n - 1)}]
      PROVE  (Disjoint /\ FreelistOrdered /\ Booting /\ Covered /\ InFlightPages)'
  <2> DEFINE S == {freelist[k] + j : j \in 0..(n - 1)}
  <2>1. n \in Nat \ {0}
    BY KallocConstants
  <2>2. FreelistOrdered' /\ S \subseteq Nodes(freelist) /\ Nodes(freelist)' = Nodes(freelist) \ S
    BY <1>1, <1>4, <2>1, CutNodes DEF KInv
  <2>3. held' = [held EXCEPT ![t] = @ \cup S]
    BY <1>4
  <2> HIDE DEF S
  <2>4. Nodes(pool)' = Nodes(pool) \ S
    BY <1>1, <2>2 DEF KInv, Disjoint
  <2>5. (Disjoint /\ Booting /\ Covered /\ InFlightPages)'
    BY <1>1, <1>2, <1>3, <2>2, <2>3, <2>4, TakeStep, Zenon
  <2> QED
    BY <2>2, <2>5
<1>5. CASE UNCHANGED <<held, freelist>>
  <2>1. FreelistOrdered' /\ Nodes(pool)' = Nodes(pool) \ {} /\ Nodes(freelist)' = Nodes(freelist) \ {}
    BY <1>1, <1>5 DEF KInv, FreelistOrdered
  <2>2. held' = [held EXCEPT ![t] = @ \cup {}]
    BY <1>5 DEF KInv, TypeOK
  <2>3. (Disjoint /\ Booting /\ Covered /\ InFlightPages)'
    BY <1>1, <1>2, <1>3, <2>1, <2>2, TakeStep, Zenon
  <2> QED
    BY <2>1, <2>3
<1> QED
  BY <1>4, <1>5 DEF AllocPages

-----------------------------------------------------------------------------

(* The invariant holds before the first page is freed.                      *)
LEMMA KInit == Init => KInv
<1> SUFFICES ASSUME Init PROVE KInv
  OBVIOUS
<1> USE KallocConstants
<1>1. TypeOK
  <2>1. cursor \in -1..(NPAGES - 1)
    BY DEF Init
  <2>2. pool \in Seq(Pages) /\ Len(pool) <= PAGE_POOL_CAP /\ freelist \in Seq(Pages)
    BY DEF Init
  <2>3. /\ held \in [Threads -> SUBSET Pages]
        /\ pc \in [Threads -> {"idle", "to_freelist", "from_freelist"}]
        /\ page \in [Threads -> Pages \cup {None}]
    BY DEF Init
  <2>4. panicked \in BOOLEAN
    BY Zenon DEF Init
  <2> QED
    BY <2>1, <2>2, <2>3, <2>4 DEF TypeOK
<1>2. Nodes(pool) = {} /\ Nodes(freelist) = {} /\ Len(pool) = 0 /\ Len(freelist) = 0
  BY DEF Init, Nodes
<1>3. Disjoint
  <2>1. \A t \in Threads : held[t] = {} /\ \A p : ~ InFlight(t, p)
    BY Zenon DEF Init, InFlight
  <2>2. \A i \in 1..Len(pool) : FALSE
    BY <1>2
  <2> QED
    BY <1>2, <2>1, <2>2 DEF Disjoint
<1>4. FreelistOrdered
  BY <1>2 DEF FreelistOrdered
<1>5. Booting
  BY <1>2 DEF Init, Booting
<1>6. Covered
  <2>1. \A p \in Pages : p <= cursor
    BY DEF Init, Pages
  <2> QED
    BY <2>1 DEF Covered
<1>7. InFlightPages
  BY DEF Init, InFlightPages
<1> QED
  BY <1>1, <1>3, <1>4, <1>5, <1>6, <1>7 DEF KInv

(* Every step of the allocator keeps the invariant.                         *)
LEMMA KStep == KInv /\ [Next]_vars => KInv'
<1> SUFFICES ASSUME KInv, [Next]_vars PROVE KInv'
  OBVIOUS
<1>1. TypeOK'
  BY TypeStep
<1>2. CASE Freerange
  BY <1>1, <1>2, FreerangeStep DEF KInv
<1>3. ASSUME NEW t \in Threads, NEW pa \in Pages, FreePage(t, pa) PROVE KInv'
  BY <1>1, <1>3, FreePageStep DEF KInv
<1>4. ASSUME NEW t \in Threads, FreePageToFreelist(t) PROVE KInv'
  BY <1>1, <1>4, ToFreelistStep DEF KInv
<1>5. ASSUME NEW t \in Threads, AllocPage(t) PROVE KInv'
  BY <1>1, <1>5, AllocPageStep DEF KInv
<1>6. ASSUME NEW t \in Threads, AllocFromFreelist(t) PROVE KInv'
  BY <1>1, <1>6, FromFreelistStep DEF KInv
<1>7. ASSUME NEW t \in Threads, NEW n \in 1..NPAGES, AllocPages(t, n) PROVE KInv'
  BY <1>1, <1>7, AllocPagesStep DEF KInv
<1>8. CASE UNCHANGED vars
  <2>1. /\ cursor' = cursor /\ pool' = pool /\ freelist' = freelist
        /\ held' = held /\ pc' = pc /\ page' = page
    BY <1>8 DEF vars
  <2>2. Nodes(pool)' = Nodes(pool) /\ Nodes(freelist)' = Nodes(freelist)
    BY <2>1
  <2>3. Disjoint'
    BY <2>1, <2>2 DEF KInv, Disjoint, InFlight
  <2>4. FreelistOrdered' /\ Booting' /\ InFlightPages'
    BY <2>1, <2>2 DEF KInv, FreelistOrdered, Booting, InFlightPages
  <2>5. Covered'
    BY <2>1, <2>2 DEF KInv, Covered, InFlight
  <2> QED
    BY <1>1, <2>3, <2>4, <2>5 DEF KInv
<1> QED
  BY <1>2, <1>3, <1>4, <1>5, <1>6, <1>7, <1>8 DEF Next

(* The invariant in the form of the property OnePlace.                      *)
LEMMA KInvOnePlace == KInv => OnePlace
<1> SUFFICES ASSUME KInv PROVE OnePlace
  OBVIOUS
<1> USE KallocConstants
<1>1. \A p : p \in InTransit <=> \E t \in Threads : InFlight(t, p)
  BY DEF InTransit, InFlight
<1>2. \A t \in Threads : \A p : InFlight(t, p) => p \in Pages
  BY DEF KInv, InFlightPages, InFlight
<1>3. /\ Nodes(pool) \subseteq Pages /\ Nodes(freelist) \subseteq Pages
      /\ \A t \in Threads : held[t] \subseteq Pages
      /\ freelist \in Seq(Pages) /\ cursor \in -1..(NPAGES - 1)
  BY NodesArePages DEF KInv, TypeOK
<1>4. \A i, j \in 1..Len(freelist) : freelist[i] = freelist[j] => i = j
  <2>1. \A i \in 1..Len(freelist) : freelist[i] \in Int
    BY <1>3, PagesInt
  <2>2. ASSUME NEW i \in 1..Len(freelist), NEW j \in 1..Len(freelist), freelist[i] = freelist[j]
        PROVE  i = j
    <3>1. ~ (i < j) /\ ~ (j < i)
      BY <2>1, <2>2 DEF KInv, FreelistOrdered
    <3> QED
      BY <3>1
  <2> QED
    BY <2>2
<1>5. ASSUME NEW t \in Threads, NEW u \in Threads, t # u
      PROVE  /\ held[t] \cap held[u] = {}
             /\ pc[t] = "to_freelist" /\ pc[u] = "to_freelist" => page[t] # page[u]
  <2>1. held[t] \cap held[u] = {}
    BY <1>5 DEF KInv, Disjoint
  <2>2. ASSUME pc[t] = "to_freelist", pc[u] = "to_freelist", page[t] = page[u] PROVE FALSE
    <3>1. InFlight(t, page[t]) /\ InFlight(u, page[t]) /\ page[t] \in Pages
      BY <1>2, <2>2 DEF InFlight
    <3> QED
      BY <1>5, <3>1 DEF KInv, Disjoint
  <2> QED
    BY <2>1, <2>2
<1>6. Nodes(pool) \cap Nodes(freelist) = {}
  BY DEF KInv, Disjoint
<1>7. \A t \in Threads : held[t] \cap (Nodes(pool) \cup Nodes(freelist) \cup InTransit) = {}
  BY <1>1, Zenon DEF KInv, Disjoint
<1>8. InTransit \cap (Nodes(pool) \cup Nodes(freelist)) = {}
  BY <1>1, <1>2 DEF KInv, Disjoint
<1>9. ASSUME NEW p \in 0..cursor
      PROVE  /\ p \notin Nodes(pool) \cup Nodes(freelist) \cup InTransit
             /\ \A t \in Threads : p \notin held[t]
  <2>1. cursor # -1 /\ ~ (p > cursor)
    BY <1>3
  <2>2. \A t \in Threads : held[t] = {} /\ pc[t] = "idle"
    BY <2>1, Zenon DEF KInv, Booting
  <2>3. p \notin InTransit
    BY <1>1, <2>2 DEF InFlight
  <2>4. p \notin Nodes(pool) \cup Nodes(freelist)
    BY <2>1 DEF KInv, Booting
  <2> QED
    BY <2>2, <2>3, <2>4
<1>10. Pages = 0..cursor \cup Nodes(pool) \cup Nodes(freelist) \cup InTransit
                 \cup UNION {held[t] : t \in Threads}
  <2>1. 0..cursor \subseteq Pages
    BY <1>3 DEF Pages
  <2>2. InTransit \subseteq Pages
    BY <1>1, <1>2
  <2>3. UNION {held[t] : t \in Threads} \subseteq Pages
    BY <1>3
  <2>4. \A p \in Pages : p <= cursor => p \in 0..cursor
    BY <1>3 DEF Pages
  <2>5. ASSUME NEW p \in Pages
        PROVE  p \in 0..cursor \cup Nodes(pool) \cup Nodes(freelist) \cup InTransit
                        \cup UNION {held[t] : t \in Threads}
    BY <1>1, <2>4 DEF KInv, Covered
  <2> QED
    BY <1>3, <2>1, <2>2, <2>3, <2>5
<1>11. \A i, j \in 1..Len(pool) : pool[i] = pool[j] => i = j
  BY DEF KInv, Disjoint
<1> QED
  BY <1>4, <1>5, <1>6, <1>7, <1>8, <1>9, <1>10, <1>11 DEF OnePlace

(* The inductive invariant of the allocator.                                *)
THEOREM KInvariance == Spec => []KInv
<1>1. KInv /\ [Next]_vars => KInv'
  BY KStep
<1> QED
  BY KInit, <1>1, PTL DEF Spec

(* kalloc.c:53-190: for any number of threads, pages and pool slots, every  *)
(* page is in exactly one place, so alloc_page and alloc_pages never hand   *)
(* out a page that is in use and free_page never loses one.                 *)
THEOREM PagesOnePlace == Spec => []OnePlace
BY KInvariance, KInvOnePlace, PTL

(* kalloc.c:79: the free list stays in strictly ascending address order.    *)
THEOREM FreelistStaysOrdered == Spec => []FreelistOrdered
<1>1. KInv => FreelistOrdered
  BY DEF KInv
<1> QED
  BY KInvariance, <1>1, PTL

(* kalloc.c:14-30: the pool never holds more than PAGE_POOL_CAP pages and   *)
(* every list and owner holds only pages.                                   *)
THEOREM KallocTypes == Spec => []TypeOK
<1>1. KInv => TypeOK
  BY DEF KInv
<1> QED
  BY KInvariance, <1>1, PTL
-----------------------------------------------------------------------------
(* Kalloc implements PageAlloc. By KInv the free pages are those no thread  *)
(* holds, so a step is known by what it does to held.                       *)

FreePages == 0..cursor \cup Nodes(pool) \cup Nodes(freelist) \cup InTransit

Unheld == {p \in Pages : \A t \in Threads : p \notin held[t]}

(* No page is lost and none is both free and held.                          *)
LEMMA FreeIsUnheld == KInv => FreePages = Unheld
<1> SUFFICES ASSUME KInv PROVE FreePages = Unheld
  OBVIOUS
<1>1. OnePlace
  BY KInvOnePlace
<1>2. \A p \in FreePages : p \in Pages /\ \A t \in Threads : p \notin held[t]
  BY <1>1 DEF OnePlace, FreePages
<1>3. \A p \in Pages : (\A t \in Threads : p \notin held[t]) => p \in FreePages
  BY <1>1 DEF OnePlace, FreePages
<1> QED  BY <1>2, <1>3 DEF Unheld

(* The same after a step.                                                   *)
LEMMA FreeIsUnheldNext == KInv' => FreePages' = Unheld'
<1>1. (KInv => FreePages = Unheld)'
  BY FreeIsUnheld, PTL
<1> QED  BY <1>1

(* A thread that gets free pages takes them out of the set.                 *)
LEMMA TakeMaps ==
  ASSUME KInv, KInv', NEW t \in Threads, NEW S, S \subseteq FreePages,
         held' = [held EXCEPT ![t] = @ \cup S]
  PROVE  Abstract!Take(t, S)
<1>1. FreePages = Unheld /\ FreePages' = Unheld'
  BY FreeIsUnheld, FreeIsUnheldNext
<1>2. held \in [Threads -> SUBSET Pages]
  BY DEF KInv, TypeOK
<1>3. Unheld' = Unheld \ S
  BY <1>1, <1>2 DEF Unheld
<1> QED  BY <1>1, <1>3 DEF Abstract!Take, FreePages

(* The page a thread frees is in the set at once, also while it is on its   *)
(* way to the list.                                                         *)
LEMMA FreeMaps ==
  ASSUME KInv, KInv', NEW t \in Threads, NEW p \in held[t],
         held' = [held EXCEPT ![t] = @ \ {p}]
  PROVE  Abstract!Free(t)
<1>1. FreePages = Unheld /\ FreePages' = Unheld'
  BY FreeIsUnheld, FreeIsUnheldNext
<1>2. held \in [Threads -> SUBSET Pages]
  BY DEF KInv, TypeOK
<1>3. \A u \in Threads : p \in held[u] => u = t
  BY DEF KInv, Disjoint
<1>4. Unheld' = Unheld \cup {p}
  BY <1>2, <1>3 DEF Unheld
<1> QED  BY <1>1, <1>4, Zenon DEF Abstract!Free, FreePages

(* Nothing else is visible.                                                 *)
LEMMA StutterMaps ==
  ASSUME KInv, KInv', held' = held
  PROVE  UNCHANGED <<FreePages, held>>
BY FreeIsUnheld, FreeIsUnheldNext, Zenon DEF Unheld

(* A page from the pool, or no page yet.                                    *)
LEMMA AllocPageMaps ==
  ASSUME KInv, KInv', NEW t \in Threads, AllocPage(t)
  PROVE  Abstract!Alloc(t) \/ UNCHANGED <<FreePages, held>>
<1>1. CASE pool # <<>>
  <2>1. pool[Len(pool)] \in Nodes(pool)
    BY <1>1 DEF KInv, TypeOK, Nodes
  <2>2. pool[Len(pool)] \in FreePages
    BY <2>1 DEF FreePages
  <2>3. Abstract!Take(t, {pool[Len(pool)]})
    BY <1>1, <2>2, TakeMaps DEF AllocPage
  <2> QED  BY <2>2, <2>3, Zenon DEF Abstract!Alloc, FreePages
<1>2. CASE pool = <<>>
  BY <1>2, StutterMaps DEF AllocPage
<1> QED  BY <1>1, <1>2

(* A page from the head of the list, or none.                               *)
LEMMA FromFreelistMaps ==
  ASSUME KInv, KInv', NEW t \in Threads, AllocFromFreelist(t)
  PROVE  Abstract!Alloc(t) \/ UNCHANGED <<FreePages, held>>
<1>1. CASE freelist # <<>>
  <2>1. Head(freelist) \in Nodes(freelist)
    BY <1>1 DEF KInv, TypeOK, Nodes
  <2>2. Head(freelist) \in FreePages
    BY <2>1 DEF FreePages
  <2>3. Abstract!Take(t, {Head(freelist)})
    BY <1>1, <2>2, TakeMaps DEF AllocFromFreelist
  <2> QED  BY <2>2, <2>3, Zenon DEF Abstract!Alloc, FreePages
<1>2. CASE freelist = <<>>
  BY <1>2, StutterMaps DEF AllocFromFreelist
<1> QED  BY <1>1, <1>2

(* The run that alloc_pages cuts out is a range of free addresses.          *)
LEMMA AllocPagesMaps ==
  ASSUME KInv, KInv', NEW t \in Threads, NEW n \in 1..NPAGES, AllocPages(t, n)
  PROVE  Abstract!AllocRun(t, n) \/ UNCHANGED <<FreePages, held>>
<1>1. CASE held' = held
  BY <1>1, StutterMaps
<1>2. ASSUME NEW k \in 1..Len(freelist), RunAt(k, n),
             held' = [held EXCEPT ![t] = @ \cup {freelist[k] + j : j \in 0..(n - 1)}]
      PROVE  Abstract!AllocRun(t, n)
  <2> DEFINE first == freelist[k]
  <2>1. freelist \in Seq(Pages) /\ first \in Pages /\ first \in Int /\ n \in Int /\ n >= 1
    BY KallocConstants, PagesInt DEF KInv, TypeOK
  <2>2. \A j \in 0..(n - 1) : k + j \in 1..Len(freelist) /\ freelist[k + j] = first + j
    <3>1. Len(freelist) \in Nat /\ k \in Int /\ k >= 1 /\ k + n - 1 <= Len(freelist)
      BY <1>2, <2>1 DEF RunAt
    <3>2. \A j \in 0..(n - 1) : k + j \in 1..Len(freelist)
      BY ONLY <2>1, <3>1
    <3>3. \A j \in 0..(n - 1) : freelist[k + j] = first + j
      BY ONLY <1>2 DEF RunAt, first
    <3> QED  BY <3>2, <3>3
  <2>3. \A j \in 0..(n - 1) : first + j \in Nodes(freelist) /\ first + j \in Pages
    <3>1. Nodes(freelist) \subseteq Pages /\ \A i \in 1..Len(freelist) : freelist[i] \in Nodes(freelist)
      BY <2>1, NodesArePages
    <3> QED  BY <2>2, <3>1
  <2> HIDE DEF first
  <2>4. {first + j : j \in 0..(n - 1)} = first..(first + n - 1)
    <3>1. ASSUME NEW x \in first..(first + n - 1) PROVE \E j \in 0..(n - 1) : x = first + j
      <4>1. x - first \in 0..(n - 1) /\ x = first + (x - first)
        BY <2>1
      <4> QED  BY <4>1
    <3>2. \A j \in 0..(n - 1) : first + j \in first..(first + n - 1)
      BY <2>1
    <3> QED  BY <3>1, <3>2
  <2>5. first + n <= NPAGES
    <3>1. first + (n - 1) \in Pages
      BY <2>1, <2>3
    <3> QED  BY <2>1, <3>1, KallocConstants DEF Pages
  <2>6. first..(first + n - 1) \subseteq FreePages
    BY <2>3, <2>4 DEF FreePages
  <2>7. held' = [held EXCEPT ![t] = @ \cup (first..(first + n - 1))]
    BY <1>2, <2>4, Zenon DEF first
  <2>8. Abstract!Take(t, first..(first + n - 1))
    BY <2>6, <2>7, TakeMaps, Zenon
  <2> QED  BY <2>1, <2>5, <2>8 DEF Abstract!AllocRun, Abstract!Pages, Pages
<1> QED  BY <1>1, <1>2 DEF AllocPages

(* Every step is one of PageAlloc or changes nothing a caller sees.         *)
LEMMA StepMaps ==
  ASSUME KInv, KInv', [Next]_vars
  PROVE  [Abstract!Next]_<<FreePages, held>>
<1>1. CASE held' = held
  BY <1>1, StutterMaps
<1>2. ASSUME NEW t \in Threads, NEW pa \in Pages, FreePage(t, pa) PROVE Abstract!Next
  BY <1>2, FreeMaps, Zenon DEF FreePage, Abstract!Next
<1>3. ASSUME NEW t \in Threads, AllocPage(t) PROVE [Abstract!Next]_<<FreePages, held>>
  BY <1>3, AllocPageMaps DEF Abstract!Next
<1>4. ASSUME NEW t \in Threads, AllocFromFreelist(t) PROVE [Abstract!Next]_<<FreePages, held>>
  BY <1>4, FromFreelistMaps DEF Abstract!Next
<1>5. ASSUME NEW t \in Threads, NEW n \in 1..NPAGES, AllocPages(t, n)
      PROVE  [Abstract!Next]_<<FreePages, held>>
  BY <1>5, AllocPagesMaps DEF Abstract!Next
<1>6. Freerange => held' = held
  BY DEF Freerange
<1>7. \A t \in Threads : FreePageToFreelist(t) => held' = held
  BY DEF FreePageToFreelist
<1>8. UNCHANGED vars => held' = held
  BY DEF vars
<1> QED  BY <1>1, <1>2, <1>3, <1>4, <1>5, <1>6, <1>7, <1>8 DEF Next

(* Before freerange all pages count as free.                                *)
LEMMA InitMaps == Init => Abstract!Init
<1> SUFFICES ASSUME Init PROVE Abstract!Init
  OBVIOUS
<1>1. Nodes(pool) = {} /\ Nodes(freelist) = {}
  BY DEF Init, Nodes
<1>2. InTransit = {}
  BY DEF Init, InTransit
<1> QED  BY <1>1, <1>2 DEF Init, Abstract!Init, Abstract!Pages

(* kalloc.c:94-96 and 122: for its callers the allocator with its two locks *)
(* and two structures is one set of free pages from which each call takes   *)
(* one page, or n consecutive ones, in a single step.                       *)
THEOREM KallocImplementsPageAlloc == Spec => ImplementsPageAlloc
<1>1. KInv /\ KInv' /\ [Next]_vars => [Abstract!Next]_<<FreePages, held>>
  BY StepMaps
<1> QED  BY InitMaps, KInvariance, <1>1, PTL DEF Spec, ImplementsPageAlloc, Abstract!Spec, FreePages
=============================================================================
