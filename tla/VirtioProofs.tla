---------------------------- MODULE VirtioProofs ----------------------------
(***************************************************************************)
(* Proofs about Virtio for every set of processes and blocks, every number *)
(* of descriptors, every ring that has room for the chains they make, and  *)
(* every width of the ring indices that is a multiple of it: no descriptor *)
(* leaks or is used twice, no completion and no wakeup is lost, and the    *)
(* driver with its device is a BlockDevice.                                *)
(***************************************************************************)
EXTENDS Virtio, Integers, FiniteSetTheorems, WellFoundedInduction, TLAPS

Owners == {p \in Procs : head[p] # None}

(* The three descriptors of a chain.                                        *)
Second(h) == desc[h].next
Third(h) == desc[desc[h].next].next
Own(h) == {h, Second(h), Third(h)}

(* What the place in virtio_disk_rw says about the local variables, the     *)
(* lock and the channel of a process; callers ask for different blocks.     *)
Control ==
  /\ \A p \in Procs :
       /\ head[p] # None <=> pc[p] \in {"publish", "wait"}
       /\ req[p] # None <=> pc[p] # "idle"
       /\ pc[p] = "publish" => lock = p
       /\ lock = p => pc[p] # "idle" /\ chan[p] = None
       /\ chan[p] = "free" => pc[p] = "alloc"
       /\ chan[p] \in Blocks => pc[p] = "wait" /\ chan[p] = req[p].block
  /\ \A p, q \in Procs :
       p # q /\ req[p] # None /\ req[q] # None => req[p].block # req[q].block

(* The chain of a request: a header, the buffer and the status byte.        *)
Formatted(p) ==
  LET h == head[p] IN
  /\ {Second(h), Third(h)} \subseteq Descs
  /\ h # Second(h) /\ h # Third(h) /\ Second(h) # Third(h)
  /\ Own(h) \cap free = {}
  /\ desc[Third(h)].next = None
  /\ desc[h].addr = req[p]
  /\ desc[Second(h)].addr = req[p].block
  /\ desc[Third(h)].addr = [status |-> h]
  /\ info[h] = req[p].block

Chained ==
  /\ \A p \in Owners : Formatted(p)
  /\ \A p, q \in Owners : p # q => Own(head[p]) \cap Own(head[q]) = {}
  /\ \A d \in Descs \ free : \E p \in Owners : d \in Own(head[p])

(* How many chains there can be.                                            *)
Counted == IsFiniteSet(Owners) /\ Cardinality(free) + 3 * Cardinality(Owners) = NUM

(* The requests the device has and virtio_disk_intr has not seen finished.  *)
Pending == {p \in Procs : pc[p] = "wait" /\ busy[req[p].block]}

(* h is the chain of a pending request with this status.                    *)
InFlight(h, st) == \E p \in Pending : head[p] = h /\ status[h] \in st

(* The ring indices without their wrap: the avail ring is filled from S up  *)
(* to A, the used ring from U up to D. A pending request is in one of the   *)
(* rings or in the device.                                                  *)
Rings(S, A, U, D) ==
  /\ S <= A /\ U <= D
  /\ seen = S % IDX /\ availIdx = A % IDX /\ usedIdx = U % IDX /\ deviceIdx = D % IDX
  /\ IsFiniteSet(working)
  /\ (A - S) + Cardinality(working) + (D - U) = Cardinality(Pending)
  /\ \A n \in S..(A - 1) : InFlight(ring[n % RING], {"pending"}) /\ ring[n % RING] \notin working
  /\ \A h \in working : InFlight(h, {"pending"})
  /\ \A n \in U..(D - 1) : InFlight(usedRing[n % RING], {"ok", "error"})
  /\ \A m, n \in S..(A - 1) : ring[m % RING] = ring[n % RING] => m = n
  /\ \A m, n \in U..(D - 1) : usedRing[m % RING] = usedRing[n % RING] => m = n

(* A request that is about to be published, or whose wait is over.          *)
Edges ==
  \A p \in Procs :
    /\ pc[p] = "publish" => /\ ring[availIdx % RING] = head[p]
                            /\ status[head[p]] = "pending" /\ busy[req[p].block]
    /\ pc[p] = "wait" /\ ~ busy[req[p].block] => status[head[p]] = "ok"

(* SleepersMustWait, also while the lock is held.                           *)
Sleepers ==
  \A p \in Procs :
    /\ chan[p] = "free" => Cardinality(free) < 3
    /\ chan[p] \in Blocks => busy[chan[p]]

Raised == ~ panicked /\ usedIdx # deviceIdx => irq \/ lock = Intr

(* The inductive invariant.                                                 *)
VInv ==
  /\ TypeOK /\ Control /\ Chained /\ Counted /\ Edges /\ Sleepers /\ Raised
  /\ \E S, A, U, D \in Nat : Rings(S, A, U, D)

(* The ways a pass of the loop around alloc3_desc, and of the wait, ends.    *)
Formats(p, i, j, k) ==
  /\ lock = p /\ pc[p] = "alloc" /\ i < j /\ j < k /\ Format(p, i, j, k)
  /\ UNCHANGED <<disk, data, availIdx, usedRing, deviceIdx, usedIdx, seen, working, irq, req,
                 panicked, lock, chan>>

AllocFails(p) ==
  /\ lock = p /\ pc[p] = "alloc" /\ Cardinality(free) < 3
  /\ chan' = [IF free = {} THEN chan ELSE Wakeup(chan, "free") EXCEPT ![p] = "free"]
  /\ lock' = None
  /\ UNCHANGED <<disk, data, busy, free, desc, info, status, ring, availIdx, usedRing,
                 deviceIdx, usedIdx, seen, working, irq, pc, req, head, panicked>>

Sleeps(p) ==
  /\ lock = p /\ pc[p] = "wait" /\ busy[req[p].block]
  /\ chan' = [chan EXCEPT ![p] = req[p].block]
  /\ lock' = None
  /\ UNCHANGED <<disk, data, busy, free, desc, info, status, ring, availIdx, usedRing,
                 deviceIdx, usedIdx, seen, working, irq, pc, req, head, panicked>>

Returns(p) ==
  /\ lock = p /\ pc[p] = "wait" /\ ~ busy[req[p].block]
  /\ info' = [info EXCEPT ![head[p]] = None]
  /\ panicked' = (Chain(head[p]) \cap free # {})
  /\ free' = free \cup Chain(head[p])
  /\ desc' = [i \in Descs |-> IF i \in Chain(head[p]) THEN Unused ELSE desc[i]]
  /\ chan' = Wakeup(chan, "free")
  /\ pc' = [pc EXCEPT ![p] = "idle"]
  /\ req' = [req EXCEPT ![p] = None]
  /\ head' = [head EXCEPT ![p] = None]
  /\ lock' = None
  /\ UNCHANGED <<disk, data, busy, status, ring, availIdx, usedRing, deviceIdx, usedIdx, seen,
                 working, irq>>
-----------------------------------------------------------------------------
(* Arithmetic of the ring indices.                                          *)

(* What division and remainder are.                                         *)
LEMMA DivMod ==
  ASSUME NEW a \in Int, NEW N \in Nat \ {0}
  PROVE  a \div N \in Int /\ a % N \in 0..(N - 1) /\ a = N * (a \div N) + (a % N)
OBVIOUS

(* The remainder is determined by any such decomposition.                   *)
LEMMA ModUnique ==
  ASSUME NEW N \in Nat \ {0}, NEW q \in Int, NEW r \in 0..(N - 1)
  PROVE  (N * q + r) % N = r
OBVIOUS

(* Distributivity, and regrouping of a product.                             *)
LEMMA Products ==
  ASSUME NEW a \in Int, NEW b \in Int, NEW c \in Int
  PROVE  /\ a * (b + c) = a * b + a * c /\ (a * b) * c = a * (b * c)
         /\ a * b \in Int /\ b * c \in Int /\ a * c \in Int
OBVIOUS

(* Multiples of the modulus do not count.                                   *)
LEMMA ModAdd ==
  ASSUME NEW N \in Nat \ {0}, NEW u \in Int, NEW a \in Int
  PROVE  (a + N * u) % N = a % N
<1> DEFINE q == a \div N
           r == a % N
<1>1. q \in Int /\ r \in 0..(N - 1) /\ a = N * q + r
  BY DivMod, Zenon
<1> HIDE DEF q, r
<1>2. N * (q + u) = N * q + N * u /\ q + u \in Int /\ N * q \in Int /\ N * u \in Int
  BY <1>1, Products
<1>3. a + N * u = N * (q + u) + r
  BY <1>1, <1>2
<1>4. (N * (q + u) + r) % N = r
  BY <1>1, <1>2, ModUnique, Zenon
<1> QED  BY <1>3, <1>4, Zenon DEF r

(* An index that has wrapped counts on as if it had not.                    *)
LEMMA AddMod ==
  ASSUME NEW N \in Nat \ {0}, NEW a \in Nat, NEW d \in Nat
  PROVE  ((a % N) + d) % N = (a + d) % N
<1> DEFINE q == a \div N
           r == a % N
<1>1. q \in Int /\ r \in 0..(N - 1) /\ a = N * q + r
  BY DivMod
<1> HIDE DEF q, r
<1>2. N * q \in Int /\ r + d \in Int
  BY <1>1, Products
<1>3. a + d = (r + d) + N * q
  BY <1>1, <1>2
<1>4. ((r + d) + N * q) % N = (r + d) % N
  BY <1>1, <1>2, ModAdd, Zenon
<1> QED  BY <1>3, <1>4, Zenon DEF r

(* A place in a ring does not depend on the wrap of the index.              *)
LEMMA ModMod ==
  ASSUME NEW N \in Nat \ {0}, NEW M \in Nat \ {0}, M % N = 0, NEW a \in Nat
  PROVE  (a % M) % N = a % N
<1> DEFINE q == a \div M
           r == a % M
           u == M \div N
<1>1. q \in Int /\ r \in 0..(M - 1) /\ a = M * q + r
  BY DivMod
<1>2. u \in Int /\ M = N * u
  BY DivMod
<1> HIDE DEF q, r, u
<1>3. M * q = N * (u * q) /\ u * q \in Int /\ M * q \in Int
  BY <1>1, <1>2, Products
<1>4. a = r + N * (u * q) /\ r \in Int
  BY <1>1, <1>3
<1>5. (r + N * (u * q)) % N = r % N
  BY <1>3, <1>4, ModAdd, Zenon
<1> QED  BY <1>4, <1>5, Zenon DEF r

(* No multiple of N lies strictly between 0 and N.                          *)
LEMMA MulBound == ASSUME NEW N \in Nat \ {0}, NEW d \in Int, 0 < N * d, N * d < N PROVE FALSE
OBVIOUS

(* Indices less than a ring apart have different places.                    *)
LEMMA ModDistinct ==
  ASSUME NEW N \in Nat \ {0}, NEW a \in Nat, NEW b \in Nat, a < b, b < a + N
  PROVE  a % N # b % N
<1> SUFFICES ASSUME a % N = b % N PROVE FALSE
  BY Zenon
<1> DEFINE d == b \div N - a \div N
<1>1. d \in Int /\ b - a = N * d
  BY DivMod
<1> HIDE DEF d
<1>2. 0 < N * d /\ N * d < N
  BY <1>1
<1> QED  BY <1>1, <1>2, MulBound, Zenon

(* How far apart two wrapped indices are.                                   *)
LEMMA DistIs ==
  ASSUME NEW N \in Nat \ {0}, NEW a \in Nat, NEW b \in Nat, a <= b, b < a + N
  PROVE  ((b % N) + N - (a % N)) % N = b - a
<1> DEFINE q == a \div N
           r == a % N
           s == b \div N
           t == b % N
<1>1. q \in Int /\ r \in 0..(N - 1) /\ a = N * q + r
  BY DivMod
<1>2. s \in Int /\ t \in 0..(N - 1) /\ b = N * s + t
  BY DivMod
<1> HIDE DEF q, r, s, t
<1>3. q + 1 - s \in Int /\ N * q \in Int /\ N * s \in Int
  BY <1>1, <1>2, Products
<1>4. N * (q + 1 - s) = N * q + N - N * s
  BY <1>1, <1>2
<1>5. t + N - r = (b - a) + N * (q + 1 - s) /\ b - a \in 0..(N - 1)
  BY <1>1, <1>2, <1>3, <1>4
<1>6. ((b - a) + N * (q + 1 - s)) % N = (b - a) % N
  <2>1. b - a \in Int
    OBVIOUS
  <2> QED  BY <1>3, <2>1, ModAdd, Zenon
<1>7. (b - a) % N = b - a
  BY <1>5
<1> QED  BY <1>5, <1>6, <1>7, Zenon DEF r, t

(* The constants.                                                           *)
LEMMA Sizes ==
  /\ IDX \in Nat \ {0} /\ RING \in Nat \ {0} /\ NUM \in Nat \ {0} /\ IDX % RING = 0
  /\ NUM < 3 * IDX /\ NUM < 3 * (RING + 1)
BY VirtioConstants

(* idx += 1 on a 16-bit index.                                              *)
LEMMA IncIs == ASSUME NEW a \in Nat PROVE ((a % IDX) + 1) % IDX = (a + 1) % IDX
<1>1. 1 \in Nat
  BY Zenon
<1> QED  BY <1>1, Sizes, AddMod, Zenon

(* idx % NUM of a 16-bit index.                                             *)
LEMMA SlotIs == ASSUME NEW a \in Nat PROVE (a % IDX) % RING = a % RING
BY Sizes, ModMod, Zenon
-----------------------------------------------------------------------------
(* Chains and rings.                                                        *)

(* A set of naturals has a least element.                                   *)
LEMMA Least == ASSUME NEW T, T \subseteq Nat, T # {} PROVE \E x \in T : \A y \in T : x <= y
<1> DEFINE R == OpToRel(<, Nat)
<1>1. \A x, y \in Nat : <<y, x>> \in R <=> y < x
  BY Zenon DEF OpToRel
<1>2. IsWellFoundedOn(R, Nat)
  BY NatLessThanWellFounded, Zenon
<1> HIDE DEF R
<1>3. PICK x \in T : \A y \in T : ~ (<<y, x>> \in R)
  BY <1>2, WFMin, Zenon
<1>4. ASSUME NEW y \in T PROVE x <= y
  <2>1. x \in Nat /\ y \in Nat
    BY Zenon
  <2>2. ~ (y < x)
    BY <1>1, <1>3, <2>1, Zenon
  <2> QED  BY <2>1, <2>2
<1> QED  BY <1>4, Zenon

(* free_chain visits exactly the three descriptors of a chain.              *)
LEMMA ChainIs ==
  ASSUME NEW h, NEW j, NEW k, h # None, j # None, k # None, NUM >= 3,
         desc[h].next = j, desc[j].next = k, desc[k].next = None
  PROVE  Chain(h) = {h, j, k}
<1> DEFINE Grow(r) == r \cup ({desc[i].next : i \in r} \ {None})
           Is(f) == f = [n \in 0..NUM |-> IF n = 0 THEN {h} ELSE Grow(f[n - 1])]
           w == [n \in 0..NUM |-> IF n = 0 THEN {h} ELSE IF n = 1 THEN {h, j} ELSE {h, j, k}]
           reach == CHOOSE f : Is(f)
<1>0. NUM \in Nat /\ NUM \in 0..NUM
  BY Sizes
<1>1. Grow({h}) = {h, j} /\ Grow({h, j}) = {h, j, k} /\ Grow({h, j, k}) = {h, j, k}
  BY Zenon
<1> HIDE DEF Grow
<1>2. Is(w)
  <2>1. ASSUME NEW n \in 0..NUM PROVE w[n] = IF n = 0 THEN {h} ELSE Grow(w[n - 1])
    <3>1. CASE n = 0
      BY <3>1, Zenon
    <3>2. CASE n = 1
      BY <1>0, <1>1, <3>2
    <3>3. CASE n = 2
      <4>1. w[n] = {h, j, k} /\ w[n - 1] = {h, j}
        BY <1>0, <3>3
      <4> HIDE DEF w
      <4> QED  BY <1>1, <3>3, <4>1
    <3>4. CASE n > 2
      <4>1. n - 1 \in 0..NUM /\ n - 1 # 0 /\ n - 1 # 1
        BY <1>0, <3>4
      <4>2. w[n] = {h, j, k} /\ w[n - 1] = {h, j, k}
        BY <3>4, <4>1
      <4> HIDE DEF w
      <4> QED  BY <1>1, <3>4, <4>2
    <3>5. n = 0 \/ n = 1 \/ n = 2 \/ n > 2
      BY <1>0
    <3> QED  BY <3>1, <3>2, <3>3, <3>4, <3>5, Zenon
  <2> DEFINE v == [n \in 0..NUM |-> IF n = 0 THEN {h} ELSE Grow(w[n - 1])]
  <2>2. w = v
    BY <2>1, Zenon
  <2> QED  BY <2>2, Zenon
<1>3. Is(reach)
  <2> HIDE DEF Is, w, reach
  <2>1. \E f : Is(f)
    BY <1>2, Zenon
  <2> QED  BY <2>1, Zenon DEF reach
<1>4. Chain(h) = reach[NUM]
  BY Zenon DEF Chain, Grow
<1> HIDE DEF reach
<1>5. /\ \A n \in 0..NUM : reach[n] = IF n = 0 THEN {h} ELSE Grow(reach[n - 1])
      /\ \A n \in 0..NUM : w[n] = IF n = 0 THEN {h} ELSE Grow(w[n - 1])
  <2>1. ASSUME NEW f, Is(f), NEW n \in 0..NUM PROVE f[n] = IF n = 0 THEN {h} ELSE Grow(f[n - 1])
    BY <2>1, Zenon
  <2> HIDE DEF w, Is
  <2> QED  BY <2>1, <1>2, <1>3, Zenon
<1>6. \A n \in 0..NUM : reach[n] = w[n]
  <2> HIDE DEF w, Is
  <2> DEFINE Bad == {n \in 0..NUM : reach[n] # w[n]}
  <2>1. Bad = {}
    <3> SUFFICES ASSUME Bad # {} PROVE FALSE
      BY Zenon
    <3>1. PICK m \in Bad : \A n \in Bad : m <= n
      <4>1. Bad \subseteq Nat
        BY <1>0
      <4> HIDE DEF Bad
      <4> QED  BY <4>1, Least, Zenon
    <3>2. m # 0
      BY <1>5, Zenon
    <3>3. m - 1 \in 0..NUM /\ m - 1 < m /\ m \in 0..NUM
      BY <1>0, <3>2
    <3>4. reach[m - 1] = w[m - 1]
      BY <3>1, <3>3
    <3>5. reach[m] = w[m]
      BY <1>5, <3>2, <3>3, <3>4, Zenon
    <3> QED  BY <3>5, Zenon
  <2> QED  BY <2>1, Zenon
<1> QED  BY <1>0, <1>4, <1>6

(* Three elements less, three elements more.                                *)
LEMMA LessThree ==
  ASSUME NEW T, IsFiniteSet(T), NEW i \in T, NEW j \in T, NEW k \in T, i # j, i # k, j # k
  PROVE  /\ IsFiniteSet(T \ {i, j, k}) /\ Cardinality(T) \in Nat /\ Cardinality(T) >= 3
         /\ Cardinality(T \ {i, j, k}) = Cardinality(T) - 3
<1> DEFINE A == T \ {i}
           B == A \ {j}
           C == B \ {k}
<1>1. IsFiniteSet(A) /\ Cardinality(A) = Cardinality(T) - 1
  BY FS_RemoveElement, Zenon
<1>2. j \in A /\ k \in B /\ T \ {i, j, k} = C
  BY Zenon
<1> HIDE DEF A
<1>3. IsFiniteSet(B) /\ Cardinality(B) = Cardinality(A) - 1
  BY <1>1, <1>2, FS_RemoveElement, Zenon
<1> HIDE DEF B
<1>4. IsFiniteSet(C) /\ Cardinality(C) = Cardinality(B) - 1
  BY <1>2, <1>3, FS_RemoveElement, Zenon
<1> HIDE DEF C
<1>5. Cardinality(T) \in Nat /\ Cardinality(C) \in Nat
  BY <1>4, FS_CardinalityType, Zenon
<1>6. Cardinality(C) = Cardinality(T) - 3 /\ Cardinality(T) >= 3
  BY <1>1, <1>3, <1>4, <1>5
<1> QED  BY <1>2, <1>4, <1>5, <1>6, Zenon

LEMMA MoreThree ==
  ASSUME NEW T, IsFiniteSet(T), NEW i, NEW j, NEW k, {i, j, k} \cap T = {}, i # j, i # k, j # k
  PROVE  /\ IsFiniteSet(T \cup {i, j, k}) /\ Cardinality(T) \in Nat
         /\ Cardinality(T \cup {i, j, k}) = Cardinality(T) + 3
<1> DEFINE C == T \cup {i, j, k}
<1>1. IsFiniteSet(C)
  <2>1. C = ((T \cup {i}) \cup {j}) \cup {k}
    BY Zenon
  <2>2. IsFiniteSet(T \cup {i})
    BY FS_AddElement, Zenon
  <2>3. IsFiniteSet((T \cup {i}) \cup {j})
    BY <2>2, FS_AddElement, Zenon
  <2> QED  BY <2>1, <2>3, FS_AddElement, Zenon
<1>2. i \in C /\ j \in C /\ k \in C /\ C \ {i, j, k} = T
  BY Zenon
<1> HIDE DEF C
<1>3. Cardinality(T) = Cardinality(C) - 3 /\ Cardinality(C) \in Nat /\ Cardinality(C) >= 3
  BY <1>1, <1>2, LessThree, Zenon
<1> QED  BY <1>1, <1>3 DEF C

(* The free list and the requests that own a chain are few.                 *)
LEMMA Few ==
  ASSUME TypeOK, Control, Counted
  PROVE  /\ IsFiniteSet(free) /\ Cardinality(free) \in Nat
         /\ IsFiniteSet(Owners) /\ Cardinality(Owners) \in Nat
         /\ Cardinality(Owners) < IDX /\ Cardinality(Owners) <= RING
         /\ Pending \subseteq Owners
         /\ IsFiniteSet(Pending) /\ Cardinality(Pending) \in Nat
         /\ Cardinality(Pending) <= Cardinality(Owners)
         /\ Owners # {} => NUM >= 3
<1>1. IsFiniteSet(free) /\ IsFiniteSet(Owners)
  <2>1. IsFiniteSet(Descs)
    BY Sizes, FS_Interval DEF Descs
  <2>2. free \subseteq Descs
    BY Zenon DEF TypeOK
  <2> QED  BY <2>1, <2>2, FS_Subset, Zenon DEF Counted
<1>2. Cardinality(free) \in Nat /\ Cardinality(Owners) \in Nat
  BY <1>1, FS_CardinalityType, Zenon
<1>3. Pending \subseteq Owners
  BY Zenon DEF Pending, Owners, Control
<1>4. IsFiniteSet(Pending) /\ Cardinality(Pending) <= Cardinality(Owners)
  BY <1>1, <1>3, FS_Subset, Zenon
<1>5. Cardinality(Pending) \in Nat
  BY <1>4, FS_CardinalityType, Zenon
<1>6. Cardinality(Owners) < IDX /\ Cardinality(Owners) <= RING
  BY <1>2, Sizes DEF Counted
<1>7. Owners # {} => NUM >= 3
  <2>1. Owners # {} => Cardinality(Owners) # 0
    BY <1>1, FS_EmptySet, Zenon
  <2> QED  BY <1>2, <2>1, Sizes DEF Counted
<1> QED  BY <1>1, <1>2, <1>3, <1>4, <1>5, <1>6, <1>7, Zenon

(* The chain of a request, as free_chain finds it.                          *)
LEMMA OwnIsChain ==
  ASSUME TypeOK, Control, Chained, Counted, NEW p \in Owners
  PROVE  Chain(head[p]) = Own(head[p])
<1>1. NUM >= 3
  BY Few, Zenon
<1>2. Formatted(p) /\ head[p] # None
  BY Zenon DEF Chained, Owners
<1>3. None \notin Descs
  BY VirtioConstants, Zenon DEF Descs
<1>4. Second(head[p]) # None /\ Third(head[p]) # None /\ desc[Third(head[p])].next = None
  BY <1>2, <1>3, Zenon DEF Formatted
<1>5. desc[head[p]].next = Second(head[p]) /\ desc[Second(head[p])].next = Third(head[p])
  BY Zenon DEF Second, Third
<1> QED  BY <1>1, <1>2, <1>4, <1>5, ChainIs, Zenon DEF Own

(* A step that leaves the chains and their requests alone.                  *)
LEMMA KeepChains ==
  ASSUME Chained, Counted, UNCHANGED <<head, desc, free, info>>,
         \A p \in Owners : req'[p] = req[p]
  PROVE  Chained' /\ Counted'
<1>0. head' = head /\ desc' = desc /\ free' = free /\ info' = info
  BY Zenon
<1>1. Owners' = Owners
  BY ONLY <1>0, Zenon DEF Owners
<1>3. \A h : Second(h)' = Second(h) /\ Third(h)' = Third(h) /\ Own(h)' = Own(h)
  BY ONLY <1>0, Zenon DEF Own, Second, Third
<1>2. ASSUME NEW p \in Owners PROVE Formatted(p)'
  <2>1. Formatted(p) /\ req'[p] = req[p]
    BY Zenon DEF Chained
  <2> QED  BY ONLY <1>0, <1>3, <2>1, Zenon DEF Formatted
<1>4. Chained'
  BY <1>1, <1>2, <1>3, Zenon DEF Chained
<1> QED  BY <1>1, <1>4, Zenon DEF Counted

(* A step that leaves the rings and the pending requests alone.             *)
LEMMA KeepRings ==
  ASSUME NEW S \in Nat, NEW A \in Nat, NEW U \in Nat, NEW D \in Nat, Rings(S, A, U, D),
         UNCHANGED <<seen, availIdx, usedIdx, deviceIdx, working, usedRing>>,
         \A n \in S..(A - 1) : ring'[n % RING] = ring[n % RING],
         Pending' = Pending,
         \A p \in Pending : head'[p] = head[p] /\ status'[head[p]] = status[head[p]]
  PROVE  Rings(S, A, U, D)'
<1>1. \A h, st : InFlight(h, st) => InFlight(h, st)'
  BY Zenon DEF InFlight
<1> QED  BY <1>1, Zenon DEF Rings
-----------------------------------------------------------------------------
(* The steps.                                                               *)

(* The invariant, conjunct by conjunct.                                     *)
LEMMA Parts ==
  ASSUME VInv
  PROVE  TypeOK /\ Control /\ Chained /\ Counted /\ Edges /\ Sleepers /\ Raised
BY Zenon DEF VInv

(* Symbols that are told apart.                                             *)
LEMMA Symbols ==
  /\ Intr \notin Procs /\ Intr # None /\ None \notin Procs /\ None \notin Blocks
  /\ None \notin Descs /\ None \notin Requests
  /\ "free" \notin Blocks /\ "free" # None
BY VirtioConstants, Zenon DEF Descs, Requests

(* A call of virtio_disk_rw.                                                *)
LEMMA CallStep ==
  ASSUME VInv, NEW p \in Procs, NEW b \in Blocks, NEW w \in Kinds, NEW v \in Vals, Call(p, b, w, v)
  PROVE  VInv'
<1>1. PICK S, A, U, D \in Nat : Rings(S, A, U, D)
  BY Zenon DEF VInv
<1>2. /\ pc[p] = "idle" /\ lock = None
      /\ \A q \in Procs : req[q] # None => req[q].block # b
      /\ data' = IF w THEN [data EXCEPT ![b] = v] ELSE data
      /\ req' = [req EXCEPT ![p] = [write |-> w, block |-> b]]
      /\ pc' = [pc EXCEPT ![p] = "alloc"]
      /\ lock' = p
  BY Zenon DEF Call
<1>3. UNCHANGED <<disk, busy, free, desc, info, status, ring, availIdx, usedRing, deviceIdx,
                  usedIdx, seen, working, irq, chan, head, panicked>>
  BY Zenon DEF Call, chains, rings, device
<1>4. [write |-> w, block |-> b] \in Requests /\ [write |-> w, block |-> b] # None
  BY VirtioConstants, Symbols DEF Requests
<1>5. TypeOK'
  BY <1>2, <1>3, <1>4, Parts, Zenon DEF TypeOK
<1>6. head[p] = None /\ chan[p] = None
  BY <1>2, Parts DEF Control, TypeOK
<1>7. Control'
  BY <1>2, <1>3, <1>4, <1>6, Parts, Symbols DEF Control, TypeOK
<1>8. Chained' /\ Counted'
  <2>1. \A q \in Owners : req'[q] = req[q]
    BY <1>2, <1>6, Parts, Zenon DEF Owners, TypeOK
  <2> QED  BY <1>3, <2>1, Parts, KeepChains, Zenon
<1>9. Edges'
  BY <1>2, <1>3, Parts DEF Edges, TypeOK
<1>10. Sleepers' /\ Raised'
  BY <1>2, <1>3, Parts, Symbols, Zenon DEF Sleepers, Raised
<1>11. Rings(S, A, U, D)'
  <2>1. Pending' = Pending
    BY <1>2, <1>3, Parts, Zenon DEF Pending, TypeOK
  <2> QED  BY <1>1, <1>3, <2>1, KeepRings, Zenon
<1> QED  BY <1>5, <1>7, <1>8, <1>9, <1>10, <1>11, Zenon DEF VInv

(* sleep takes the lock again.                                              *)
LEMMA ReacquireStep ==
  ASSUME VInv, NEW p \in Procs, Reacquire(p)
  PROVE  VInv'
<1>1. PICK S, A, U, D \in Nat : Rings(S, A, U, D)
  BY Zenon DEF VInv
<1>2. pc[p] # "idle" /\ chan[p] = None /\ lock = None /\ lock' = p
  BY Zenon DEF Reacquire
<1>3. UNCHANGED <<disk, data, busy, free, desc, info, status, ring, availIdx, usedRing, deviceIdx,
                  usedIdx, seen, working, irq, pc, req, head, chan, panicked>>
  BY Zenon DEF Reacquire, buffers, chains, rings, device, procs
<1>4. TypeOK' /\ Control'
  BY <1>2, <1>3, Parts, Symbols, Zenon DEF TypeOK, Control
<1>5. Chained' /\ Counted'
  BY <1>3, Parts, KeepChains, Zenon
<1>6. Edges' /\ Sleepers' /\ Raised'
  BY <1>2, <1>3, Parts, Symbols, Zenon DEF Edges, Sleepers, Raised
<1>7. Rings(S, A, U, D)'
  <2>1. Pending' = Pending
    BY <1>3, Zenon DEF Pending
  <2> QED  BY <1>1, <1>3, <2>1, KeepRings, Zenon
<1> QED  BY <1>4, <1>5, <1>6, <1>7, Zenon DEF VInv

(* kill.                                                                    *)
LEMMA KillStep ==
  ASSUME VInv, NEW p \in Procs, Kill(p)
  PROVE  VInv'
<1>1. PICK S, A, U, D \in Nat : Rings(S, A, U, D)
  BY Zenon DEF VInv
<1>2. lock = None /\ chan' = [chan EXCEPT ![p] = None]
  BY Zenon DEF Kill
<1>3. UNCHANGED <<disk, data, busy, free, desc, info, status, ring, availIdx, usedRing, deviceIdx,
                  usedIdx, seen, working, irq, pc, req, head, lock, panicked>>
  BY Zenon DEF Kill, buffers, chains, rings, device, procs
<1>4. TypeOK' /\ Control'
  BY <1>2, <1>3, Parts, Symbols DEF TypeOK, Control
<1>5. Chained' /\ Counted'
  BY <1>3, Parts, KeepChains, Zenon
<1>6. Edges' /\ Sleepers' /\ Raised'
  BY <1>2, <1>3, Parts, Symbols DEF Edges, Sleepers, Raised, TypeOK
<1>7. Rings(S, A, U, D)'
  <2>1. Pending' = Pending
    BY <1>3, Zenon DEF Pending
  <2> QED  BY <1>1, <1>3, <2>1, KeepRings, Zenon
<1> QED  BY <1>4, <1>5, <1>6, <1>7, Zenon DEF VInv
(* alloc3_desc fails, and the process goes to sleep.                        *)
LEMMA AllocFailStep ==
  ASSUME VInv, NEW p \in Procs, AllocFails(p)
  PROVE  VInv'
<1>1. PICK S, A, U, D \in Nat : Rings(S, A, U, D)
  BY Zenon DEF VInv
<1>2. /\ lock = p /\ lock' = None /\ pc[p] = "alloc" /\ Cardinality(free) < 3
      /\ chan' = [IF free = {} THEN chan ELSE Wakeup(chan, "free") EXCEPT ![p] = "free"]
  BY Zenon DEF AllocFails
<1>3. UNCHANGED <<free, desc, info, head, pc, req, busy>>
  BY Zenon DEF AllocFails
<1>4. UNCHANGED <<disk, data, status, ring, availIdx, usedRing, deviceIdx, usedIdx, seen, working,
                  irq, panicked>>
  BY Zenon DEF AllocFails
<1>5. /\ chan' \in [Procs -> Blocks \cup {"free", None}]
      /\ \A q \in Procs : chan'[q] # chan[q] => chan'[q] = None \/ (q = p /\ chan'[q] = "free")
      /\ chan'[p] = "free"
  <2> DEFINE base == IF free = {} THEN chan ELSE Wakeup(chan, "free")
  <2>1. base \in [Procs -> Blocks \cup {"free", None}] /\ \A q \in Procs : base[q] # chan[q] => base[q] = None
    BY Parts, Zenon DEF TypeOK, Wakeup
  <2>2. chan' = [base EXCEPT ![p] = "free"]
    BY <1>2, Zenon
  <2> HIDE DEF base
  <2> QED  BY ONLY <2>1, <2>2, p \in Procs, Zenon
<1>6. TypeOK'
  BY <1>2, <1>3, <1>4, <1>5, Parts, Zenon DEF TypeOK
<1>7. Control'
  BY <1>2, <1>3, <1>5, Parts, Symbols DEF TypeOK, Control
<1>11. Sleepers'
  BY <1>2, <1>3, <1>5, Parts, Symbols, Zenon DEF TypeOK, Sleepers
<1>8. Chained' /\ Counted'
  BY <1>3, Parts, KeepChains, Zenon
<1>9. Edges' /\ Raised'
  BY <1>2, <1>3, <1>4, Parts, Symbols, Zenon DEF Edges, Raised
<1>10. Rings(S, A, U, D)'
  <2>1. Pending' = Pending
    BY <1>3, Zenon DEF Pending
  <2> QED  BY <1>1, <1>3, <1>4, <2>1, KeepRings, Zenon
<1> QED  BY <1>6, <1>7, <1>8, <1>9, <1>10, <1>11, Zenon DEF VInv

(* alloc3_desc succeeds: the chain that Format makes.                       *)
LEMMA FormatChains ==
  ASSUME VInv, NEW p \in Procs, NEW i \in free, NEW j \in free, NEW k \in free,
         Formats(p, i, j, k)
  PROVE  Chained' /\ Counted'
<1>0. i \in Descs /\ j \in Descs /\ k \in Descs /\ i # j /\ i # k /\ j # k /\ i # None
  BY Parts, Symbols DEF TypeOK, Descs, Formats
<1>1. /\ free' = free \ {i, j, k}
      /\ info' = [info EXCEPT ![i] = req[p].block]
      /\ head' = [head EXCEPT ![p] = i]
      /\ desc' = [desc EXCEPT ![i] = [addr |-> req[p], next |-> j],
                              ![j] = [addr |-> req[p].block, next |-> k],
                              ![k] = [addr |-> [status |-> i], next |-> None]]
  BY Zenon DEF Formats, Format
<1>9. pc[p] = "alloc" /\ req' = req
  BY Zenon DEF Formats
<1>2. /\ desc'[i] = [addr |-> req[p], next |-> j]
      /\ desc'[j] = [addr |-> req[p].block, next |-> k]
      /\ desc'[k] = [addr |-> [status |-> i], next |-> None]
      /\ \A d \in Descs \ {i, j, k} : desc'[d] = desc[d]
  BY <1>0, <1>1, Parts, Zenon DEF TypeOK
<1>3. /\ head'[p] = i /\ \A q \in Procs \ {p} : head'[q] = head[q]
      /\ info'[i] = req[p].block /\ \A d \in Descs \ {i} : info'[d] = info[d]
  BY <1>0, <1>1, Parts, Zenon DEF TypeOK
<1>4. p \notin Owners /\ Owners' = Owners \cup {p}
  BY <1>0, <1>3, <1>9, Parts DEF Owners, Control
<1>5. Own(i)' = {i, j, k} /\ Formatted(p)'
  <2>1. Second(i)' = j /\ Third(i)' = k
    BY <1>2 DEF Second, Third
  <2>2. Own(i)' = {i, j, k}
    BY <2>1, Zenon DEF Own
  <2>3. {j, k} \subseteq Descs /\ {i, j, k} \cap free' = {}
    BY ONLY <1>0, <1>1, Zenon
  <2>4. /\ desc'[k].next = None /\ desc'[i].addr = req'[p] /\ desc'[j].addr = req'[p].block
        /\ desc'[k].addr = [status |-> i] /\ info'[i] = req'[p].block
    BY ONLY <1>2, <1>3, <1>9
  <2> QED  BY ONLY <1>0, <1>3, <2>1, <2>2, <2>3, <2>4, Zenon DEF Formatted
<1>6. ASSUME NEW q \in Owners
      PROVE  q # p /\ head'[q] = head[q] /\ Own(head[q])' = Own(head[q]) /\ Formatted(q)'
             /\ Own(head[q]) \cap {i, j, k} = {}
  <2>1. q \in Procs /\ q # p /\ head'[q] = head[q]
    BY <1>3, <1>4, Zenon DEF Owners
  <2>2. Formatted(q) /\ head[q] \in Descs
    BY Parts, Zenon DEF Chained, Owners, TypeOK
  <2>3. Own(head[q]) \cap {i, j, k} = {} /\ Own(head[q]) \subseteq Descs
    BY <2>2, Zenon DEF Formatted, Own
  <2>4. /\ Second(head[q])' = Second(head[q]) /\ Third(head[q])' = Third(head[q])
        /\ Own(head[q])' = Own(head[q])
        /\ \A d \in Own(head[q]) : desc'[d] = desc[d] /\ info'[d] = info[d]
    <3>1. \A d \in Own(head[q]) : desc'[d] = desc[d] /\ info'[d] = info[d]
      BY <1>2, <1>3, <2>3, Zenon
    <3>2. head[q] \in Own(head[q]) /\ Second(head[q]) \in Own(head[q])
      BY Zenon DEF Own
    <3>3. Second(head[q])' = Second(head[q])
      BY ONLY <2>1, <3>1, <3>2, Zenon DEF Second
    <3>4. Third(head[q])' = Third(head[q])
      BY ONLY <2>1, <3>1, <3>2, Zenon DEF Second, Third
    <3> QED  BY <2>1, <3>1, <3>3, <3>4, Zenon DEF Own
  <2>5. Own(head[q]) \cap free' = {}
    BY <1>1, <2>2, Zenon DEF Formatted
  <2>6. Formatted(q)'
    <3>1. head[q] \in Own(head[q]) /\ Second(head[q]) \in Own(head[q]) /\ Third(head[q]) \in Own(head[q])
      BY Zenon DEF Own
    <3> QED  BY ONLY <2>1, <2>2, <2>4, <2>5, <3>1, <1>9, Zenon DEF Formatted
  <2> QED  BY <2>1, <2>3, <2>4, <2>6, Zenon
<1>7. Chained'
  <2>1. \A q \in Owners' : Formatted(q)'
    BY <1>4, <1>5, <1>6, Zenon
  <2>2. \A q, r \in Owners' : q # r => Own(head[q])' \cap Own(head[r])' = {}
    BY <1>3, <1>4, <1>5, <1>6, Parts DEF Chained
  <2>3. ASSUME NEW d \in Descs \ free' PROVE \E q \in Owners' : d \in Own(head[q])'
    <3>1. CASE d \in {i, j, k}
      BY <1>3, <1>4, <1>5, <3>1, Zenon
    <3>2. CASE d \notin {i, j, k}
      BY <1>1, <1>4, <1>6, <3>2, Parts DEF Chained
    <3> QED  BY <3>1, <3>2, Zenon
  <2> QED  BY <2>1, <2>2, <2>3, Zenon DEF Chained
<1>8. Counted'
  <2>1. /\ IsFiniteSet(free) /\ Cardinality(free) \in Nat
        /\ IsFiniteSet(Owners) /\ Cardinality(Owners) \in Nat
    BY Parts, Few, Zenon
  <2>2. Cardinality(free') = Cardinality(free) - 3
    BY <1>0, <1>1, <2>1, LessThree, Zenon
  <2>3. IsFiniteSet(Owners') /\ Cardinality(Owners') = Cardinality(Owners) + 1
    BY <1>4, <2>1, FS_AddElement, Zenon
  <2> QED  BY <2>1, <2>2, <2>3, Parts DEF Counted
<1> QED  BY <1>7, <1>8, Zenon
(* Different requests have different chains.                                *)
LEMMA HeadsDistinct ==
  ASSUME Chained, NEW p \in Owners, NEW q \in Owners, p # q
  PROVE  head[p] # head[q]
<1>1. head[p] \in Own(head[p]) /\ head[q] \in Own(head[q])
  BY Zenon DEF Own
<1> QED  BY <1>1, Zenon DEF Chained

(* A process that has called has a request.                                 *)
LEMMA Asked ==
  ASSUME TypeOK, Control, NEW p \in Procs, pc[p] # "idle"
  PROVE  req[p] \in Requests /\ req[p].block \in Blocks /\ req[p] # None
<1>1. req[p] \in Requests /\ req[p] # None
  BY Zenon DEF TypeOK, Control
<1> QED  BY <1>1, Zenon DEF Requests

(* alloc3_desc succeeds.                                                    *)
LEMMA FormatStep ==
  ASSUME VInv, NEW p \in Procs, NEW i \in free, NEW j \in free, NEW k \in free,
         Formats(p, i, j, k)
  PROVE  VInv'
<1>1. PICK S, A, U, D \in Nat : Rings(S, A, U, D)
  BY Zenon DEF VInv
<1>2. i \in Descs /\ j \in Descs /\ k \in Descs /\ i # j /\ i # k /\ j # k /\ i # None
  BY Parts, Symbols DEF TypeOK, Descs, Formats
<1>3. /\ free' = free \ {i, j, k}
      /\ desc' = [desc EXCEPT ![i] = [addr |-> req[p], next |-> j],
                              ![j] = [addr |-> req[p].block, next |-> k],
                              ![k] = [addr |-> [status |-> i], next |-> None]]
      /\ status' = [status EXCEPT ![i] = "pending"]
      /\ busy' = [busy EXCEPT ![req[p].block] = TRUE]
      /\ info' = [info EXCEPT ![i] = req[p].block]
      /\ ring' = [ring EXCEPT ![availIdx % RING] = i]
      /\ head' = [head EXCEPT ![p] = i]
      /\ pc' = [pc EXCEPT ![p] = "publish"]
  BY Zenon DEF Formats, Format
<1>17. lock = p /\ pc[p] = "alloc" /\ UNCHANGED <<req, chan, lock, panicked, availIdx>>
  BY Zenon DEF Formats
<1>18. UNCHANGED <<disk, data, usedRing, deviceIdx, usedIdx, seen, working, irq>>
  BY Zenon DEF Formats
<1>4. req[p] \in Requests /\ req[p].block \in Blocks /\ req[p] # None
  BY <1>17, Parts, Asked, Zenon
<1>5. TypeOK'
  <2>1. desc' \in [Descs -> [addr : Requests \cup [status : Descs] \cup Blocks \cup {None},
                             next : Descs \cup {None}]]
    BY <1>2, <1>3, <1>4, Parts, Zenon DEF TypeOK
  <2>2. /\ free' \subseteq Descs
        /\ status' \in [Descs -> {"ok", "pending", "error"}]
        /\ busy' \in [Blocks -> BOOLEAN] /\ info' \in [Descs -> Blocks \cup {None}]
        /\ ring' \in [0..(RING - 1) -> Descs] /\ head' \in [Procs -> Descs \cup {None}]
        /\ pc' \in [Procs -> {"idle", "alloc", "publish", "wait"}]
    BY <1>2, <1>3, <1>4, Parts, Zenon DEF TypeOK
  <2> QED  BY <1>17, <1>18, <2>1, <2>2, Parts, Zenon DEF TypeOK
<1>6. /\ head'[p] = i /\ pc'[p] = "publish" /\ busy'[req[p].block] /\ status'[i] = "pending"
      /\ \A q \in Procs \ {p} : head'[q] = head[q] /\ pc'[q] = pc[q]
      /\ \A b \in Blocks \ {req[p].block} : busy'[b] = busy[b]
      /\ \A h \in Descs \ {i} : status'[h] = status[h]
  BY <1>2, <1>3, <1>4, Parts, Zenon DEF TypeOK
<1>7. availIdx % RING = A % RING /\ A % RING \in 0..(RING - 1)
  <2>1. availIdx = A % IDX
    BY <1>1, Zenon DEF Rings
  <2>2. (A % IDX) % RING = A % RING
    BY SlotIs, Zenon
  <2>3. A % RING \in 0..(RING - 1)
    BY Sizes
  <2> QED  BY <2>1, <2>2, <2>3, Zenon
<1>8. /\ ring'[A % RING] = i
      /\ \A n \in 0..(RING - 1) : n # A % RING => ring'[n] = ring[n]
  BY <1>3, <1>7, Parts, Zenon DEF TypeOK
<1>9. Control'
  BY <1>2, <1>6, <1>17, Parts, Symbols DEF Control
<1>10. Chained' /\ Counted'
  BY FormatChains, Zenon
<1>11. ASSUME NEW q \in Owners
       PROVE  q \in Procs \ {p} /\ head[q] \in Descs \ {i} /\ req[q].block \in Blocks \ {req[p].block}
  <2>1. q \in Procs /\ q # p /\ head[q] \in Descs
    BY <1>17, Parts DEF Owners, Control, TypeOK
  <2>2. Formatted(q) /\ head[q] \in Own(head[q])
    BY Parts, Zenon DEF Chained, Own
  <2>3. head[q] # i
    BY <2>2, Zenon DEF Formatted
  <2>4. pc[q] # "idle"
    BY <2>1, Parts, Zenon DEF Owners, Control
  <2>5. req[q].block \in Blocks /\ req[q] # None
    BY <2>1, <2>4, Parts, Asked, Zenon
  <2> QED  BY <1>4, <2>1, <2>3, <2>5, Parts, Zenon DEF Control
<1>12. Edges'
  <2>1. /\ ring'[availIdx' % RING] = head'[p] /\ status'[head'[p]] = "pending"
        /\ busy'[req'[p].block] /\ pc'[p] # "wait"
    BY <1>6, <1>7, <1>8, <1>17, Zenon
  <2>2. ASSUME NEW q \in Procs \ {p}, pc[q] = "wait", ~ busy'[req[q].block]
        PROVE  status'[head'[q]] = "ok"
    <3>1. q \in Owners
      BY <2>2, Parts, Zenon DEF Owners, Control
    <3>2. ~ busy[req[q].block]
      BY <1>6, <1>11, <2>2, <3>1, Zenon
    <3>3. status[head[q]] = "ok"
      BY <2>2, <3>2, Parts, Zenon DEF Edges
    <3> QED  BY <1>6, <1>11, <3>1, <3>3
  <2>3. \A q \in Procs \ {p} : pc'[q] = pc[q] /\ pc[q] # "publish"
    BY <1>6, <1>17, Parts, Zenon DEF Control
  <2> QED  BY <1>17, <2>1, <2>2, <2>3 DEF Edges
<1>13. Cardinality(free) \in Nat /\ Cardinality(free) >= 3
  <2>1. IsFiniteSet(free)
    BY Parts, Few, Zenon
  <2> QED  BY <1>2, <2>1, LessThree, Zenon
<1>14. Sleepers'
  <2>1. \A q \in Procs : chan[q] # "free"
    BY <1>13, Parts DEF Sleepers
  <2>2. \A b \in Blocks : busy[b] => busy'[b]
    BY <1>6, Zenon
  <2> QED  BY <1>17, <2>1, <2>2, Parts, Zenon DEF Sleepers
<1>15. Raised'
  BY <1>17, <1>18, Parts, Zenon DEF Raised
<1>16. Rings(S, A, U, D)'
  <2>1. Pending \subseteq Owners /\ Cardinality(Pending) \in Nat
        /\ Cardinality(Pending) <= Cardinality(Owners) /\ Cardinality(Owners) \in Nat
    BY Parts, Few, Zenon
  <2>2. Pending' = Pending
    <3>1. p \notin Pending /\ p \notin Pending'
      BY <1>6, <1>17, Zenon DEF Pending
    <3>2. \A q \in Procs \ {p} : pc[q] = "wait" => q \in Owners
      BY Parts, Zenon DEF Owners, Control
    <3>3. \A q \in Procs \ {p} : q \in Pending <=> q \in Pending'
      BY <1>6, <1>11, <1>17, <3>2 DEF Pending
    <3> QED  BY <3>1, <3>3, Zenon DEF Pending
  <2>3. A - S < RING
    <3>1. Cardinality(Owners) < RING
      BY <1>13, <2>1, Sizes, Parts DEF Counted
    <3>2. Cardinality(working) \in Nat
      BY <1>1, FS_CardinalityType, Zenon DEF Rings
    <3> QED  BY <1>1, <2>1, <3>1, <3>2, Sizes DEF Rings
  <2>4. ASSUME NEW n \in S..(A - 1) PROVE ring'[n % RING] = ring[n % RING]
    <3>1. n \in Nat /\ n < A /\ A < n + RING
      BY <2>3, Sizes
    <3>2. n % RING # A % RING
      BY <3>1, Sizes, ModDistinct, Zenon
    <3>3. n % RING \in 0..(RING - 1)
      BY <3>1, Sizes
    <3> QED  BY <1>8, <3>2, <3>3, Zenon
  <2>5. \A q \in Pending : head'[q] = head[q] /\ status'[head[q]] = status[head[q]]
    BY <1>6, <1>11, <2>1, Zenon
  <2> QED  BY <1>1, <1>17, <1>18, <2>2, <2>4, <2>5, KeepRings, Zenon
<1> QED  BY <1>5, <1>9, <1>10, <1>12, <1>14, <1>15, <1>16, Zenon DEF VInv
(* avail->idx += 1.                                                         *)
LEMMA PublishStep ==
  ASSUME VInv, NEW p \in Procs, Publish(p)
  PROVE  VInv'
<1>1. PICK S, A, U, D \in Nat : Rings(S, A, U, D)
  BY Zenon DEF VInv
<1>2. /\ lock = p /\ pc[p] = "publish"
      /\ availIdx' = (availIdx + 1) % IDX
      /\ pc' = [pc EXCEPT ![p] = "wait"]
  BY Zenon DEF Publish, Inc
<1>3. UNCHANGED <<disk, data, busy, free, desc, info, status, ring, usedRing, deviceIdx,
                  usedIdx, seen, working, irq, lock, chan, req, head, panicked>>
  BY Zenon DEF Publish, buffers, chains, device
<1>4. pc'[p] = "wait" /\ \A q \in Procs \ {p} : pc'[q] = pc[q]
  BY <1>2, Parts, Zenon DEF TypeOK
<1>5. availIdx = A % IDX /\ availIdx' = (A + 1) % IDX /\ availIdx' \in 0..(IDX - 1)
  <2>1. availIdx = A % IDX
    BY <1>1, Zenon DEF Rings
  <2>2. (A + 1) % IDX \in 0..(IDX - 1)
    BY Sizes
  <2> QED  BY <1>2, <2>1, <2>2, IncIs, Zenon
<1>6. TypeOK'
  <2>1. TypeOK /\ pc' \in [Procs -> {"idle", "alloc", "publish", "wait"}]
    BY <1>2, Parts, Zenon DEF TypeOK
  <2> QED  BY ONLY <1>3, <1>5, <2>1, Zenon DEF TypeOK
<1>7. Control'
  BY <1>2, <1>3, <1>4, Parts DEF Control
<1>8. Chained' /\ Counted'
  BY <1>3, Parts, KeepChains, Zenon
<1>9. Edges'
  <2>1. busy[req[p].block]
    BY <1>2, Parts, Zenon DEF Edges
  <2>2. \A q \in Procs \ {p} : pc[q] # "publish"
    BY <1>2, Parts, Zenon DEF Control
  <2> QED  BY <1>3, <1>4, <2>1, <2>2, Parts, Zenon DEF Edges
<1>10. Sleepers' /\ Raised'
  BY <1>3, Parts, Zenon DEF Sleepers, Raised
<1>11. /\ ring[A % RING] = head[p] /\ status[head[p]] = "pending" /\ busy[req[p].block]
       /\ p \in Owners /\ p \notin Pending
  <2>1. availIdx % RING = A % RING
    BY <1>5, SlotIs, Zenon
  <2> QED  BY <1>2, <2>1, Parts, Zenon DEF Edges, Owners, Control, Pending
<1>12. Pending' = Pending \cup {p}
  BY <1>2, <1>3, <1>4, <1>11, Zenon DEF Pending
<1>13. \A h, st : InFlight(h, st) => InFlight(h, st)' /\ h # head[p]
  <2>1. \A q \in Pending : q \in Owners /\ q # p
    BY <1>11, Parts, Few, Zenon
  <2>2. \A q \in Pending : head[q] # head[p]
    BY <1>11, <2>1, Parts, HeadsDistinct, Zenon
  <2> QED  BY <1>3, <1>12, <2>2, Zenon DEF InFlight
<1>14. InFlight(head[p], {"pending"})'
  BY <1>3, <1>11, <1>12, Zenon DEF InFlight
<1>15. Rings(S, A + 1, U, D)'
  <2>1. S <= A + 1 /\ U <= D /\ A + 1 \in Nat
    BY <1>1 DEF Rings
  <2>2. seen' = S % IDX /\ availIdx' = (A + 1) % IDX /\ usedIdx' = U % IDX /\ deviceIdx' = D % IDX
    BY <1>1, <1>3, <1>5, Zenon DEF Rings
  <2>3. ((A + 1) - S) + Cardinality(working) + (D - U) = Cardinality(Pending')
    <3>1. IsFiniteSet(Pending) /\ Cardinality(Pending) \in Nat
      BY Parts, Few, Zenon
    <3>2. Cardinality(Pending') = Cardinality(Pending) + 1
      BY <1>11, <1>12, <3>1, FS_AddElement, Zenon
    <3>3. Cardinality(working) \in Nat
      BY <1>1, FS_CardinalityType, Zenon DEF Rings
    <3> QED  BY <1>1, <3>1, <3>2, <3>3 DEF Rings
  <2>4. ASSUME NEW n \in S..((A + 1) - 1)
        PROVE  InFlight(ring[n % RING], {"pending"})' /\ ring[n % RING] \notin working
    <3>1. CASE n = A
      <4>1. head[p] \notin working
        BY <1>1, <1>13, Zenon DEF Rings
      <4> QED  BY <1>3, <1>11, <1>14, <3>1, <4>1, Zenon
    <3>2. CASE n # A
      <4>1. n \in S..(A - 1)
        BY <3>2
      <4> QED  BY <1>1, <1>3, <1>13, <4>1, Zenon DEF Rings
    <3> QED  BY <3>1, <3>2, Zenon
  <2>5. \A m, n \in S..((A + 1) - 1) : ring[m % RING] = ring[n % RING] => m = n
    <3>1. \A n \in S..(A - 1) : ring[n % RING] # head[p]
      BY <1>1, <1>13, Zenon DEF Rings
    <3>2. \A n \in S..((A + 1) - 1) : n = A \/ n \in S..(A - 1)
      OBVIOUS
    <3> QED  BY <1>1, <1>11, <3>1, <3>2, Zenon DEF Rings
  <2>6. \A h \in working : InFlight(h, {"pending"})'
    BY <1>1, <1>13, Zenon DEF Rings
  <2>7. \A n \in U..(D - 1) : InFlight(usedRing[n % RING], {"ok", "error"})'
    BY <1>1, <1>3, <1>13, Zenon DEF Rings
  <2>8. /\ IsFiniteSet(working)
        /\ \A m, n \in U..(D - 1) : usedRing[m % RING] = usedRing[n % RING] => m = n
    BY <1>1, Zenon DEF Rings
  <2> QED  BY ONLY <1>3, <2>1, <2>2, <2>3, <2>4, <2>5, <2>6, <2>7, <2>8, Zenon DEF Rings
<1>16. A + 1 \in Nat
  OBVIOUS
<1> QED  BY <1>6, <1>7, <1>8, <1>9, <1>10, <1>15, <1>16, Zenon DEF VInv

(* virtio_disk_rw sleeps until its request is finished.                     *)
LEMMA SleepStep ==
  ASSUME VInv, NEW p \in Procs, Sleeps(p)
  PROVE  VInv'
<1>1. PICK S, A, U, D \in Nat : Rings(S, A, U, D)
  BY Zenon DEF VInv
<1>2. /\ lock = p /\ lock' = None /\ pc[p] = "wait" /\ busy[req[p].block]
      /\ chan' = [chan EXCEPT ![p] = req[p].block]
  BY Zenon DEF Sleeps
<1>3. UNCHANGED <<free, desc, info, head, pc, req, busy>>
  BY Zenon DEF Sleeps
<1>4. UNCHANGED <<disk, data, status, ring, availIdx, usedRing, deviceIdx, usedIdx, seen, working,
                  irq, panicked>>
  BY Zenon DEF Sleeps
<1>5. req[p].block \in Blocks
  BY <1>2, Parts, Asked, Zenon
<1>6. /\ chan' \in [Procs -> Blocks \cup {"free", None}]
      /\ chan'[p] = req[p].block /\ \A q \in Procs \ {p} : chan'[q] = chan[q]
  BY <1>2, <1>5, Parts, Zenon DEF TypeOK
<1>7. TypeOK'
  BY <1>2, <1>3, <1>4, <1>6, Parts, Zenon DEF TypeOK
<1>8. Control' /\ Sleepers'
  BY <1>2, <1>3, <1>5, <1>6, Parts, Symbols DEF Control, Sleepers
<1>9. Chained' /\ Counted'
  BY <1>3, Parts, KeepChains, Zenon
<1>10. Edges' /\ Raised'
  BY <1>2, <1>3, <1>4, Parts, Symbols, Zenon DEF Edges, Raised
<1>11. Rings(S, A, U, D)'
  <2>1. Pending' = Pending
    BY <1>3, Zenon DEF Pending
  <2> QED  BY <1>1, <1>3, <1>4, <2>1, KeepRings, Zenon
<1> QED  BY <1>7, <1>8, <1>9, <1>10, <1>11, Zenon DEF VInv

(* virtio_disk_rw frees its chain and returns.                              *)
LEMMA ReturnStep ==
  ASSUME VInv, ~ panicked, NEW p \in Procs, Returns(p)
  PROVE  VInv' /\ panicked' = FALSE
<1>1. PICK S, A, U, D \in Nat : Rings(S, A, U, D)
  BY Zenon DEF VInv
<1> DEFINE h == head[p]
<1>16. lock = p /\ lock' = None /\ pc[p] = "wait" /\ ~ busy[req[p].block]
  BY Zenon DEF Returns
<1>17. /\ info' = [info EXCEPT ![h] = None]
       /\ panicked' = (Chain(h) \cap free # {})
       /\ free' = free \cup Chain(h)
       /\ desc' = [i \in Descs |-> IF i \in Chain(h) THEN Unused ELSE desc[i]]
  BY Zenon DEF Returns
<1>18. /\ chan' = Wakeup(chan, "free")
       /\ pc' = [pc EXCEPT ![p] = "idle"]
       /\ req' = [req EXCEPT ![p] = None]
       /\ head' = [head EXCEPT ![p] = None]
  BY Zenon DEF Returns
<1>19. UNCHANGED <<busy, status, ring, availIdx, usedRing, deviceIdx, usedIdx, seen, working, irq>>
  BY Zenon DEF Returns
<1>2. p \in Owners /\ h \in Descs /\ Formatted(p) /\ Chain(h) = Own(h)
  <2>1. p \in Owners
    BY <1>16, Parts, Zenon DEF Owners, Control
  <2>2. h \in Descs /\ Formatted(p)
    BY <2>1, Parts, Zenon DEF Owners, TypeOK, Chained
  <2>3. Chain(h) = Own(h)
    BY <2>1, Parts, OwnIsChain, Zenon
  <2> QED  BY <2>1, <2>2, <2>3, Zenon
<1>3. Own(h) \cap free = {} /\ Own(h) \subseteq Descs
  BY <1>2, Zenon DEF Formatted, Own
<1>4. /\ free' = free \cup Own(h) /\ panicked' = FALSE
      /\ \A d \in Descs \ Own(h) : desc'[d] = desc[d] /\ info'[d] = info[d]
  <2>1. h \in Own(h)
    BY Zenon DEF Own
  <2> QED  BY <1>2, <1>3, <1>17, <2>1, Parts, Zenon DEF TypeOK
<1>5. /\ pc'[p] = "idle" /\ req'[p] = None /\ head'[p] = None
      /\ \A q \in Procs \ {p} : pc'[q] = pc[q] /\ req'[q] = req[q] /\ head'[q] = head[q]
      /\ \A q \in Procs : chan'[q] = IF chan[q] = "free" THEN None ELSE chan[q]
  BY <1>18, Parts, Zenon DEF TypeOK, Wakeup
<1>6. TypeOK'
  <2>1. /\ desc' \in [Descs -> [addr : Requests \cup [status : Descs] \cup Blocks \cup {None},
                                next : Descs \cup {None}]]
    BY <1>2, <1>17, Parts, Zenon DEF TypeOK, Unused
  <2>2. /\ free' \subseteq Descs /\ info' \in [Descs -> Blocks \cup {None}]
        /\ chan' \in [Procs -> Blocks \cup {"free", None}]
        /\ req' \in [Procs -> Requests \cup {None}] /\ head' \in [Procs -> Descs \cup {None}]
        /\ pc' \in [Procs -> {"idle", "alloc", "publish", "wait"}]
        /\ panicked' \in BOOLEAN
    BY <1>3, <1>4, <1>17, <1>18, Parts, Zenon DEF TypeOK, Wakeup
  <2>3. /\ TypeOK /\ lock' = None
        /\ UNCHANGED <<disk, data, busy, status, ring, availIdx, usedRing, deviceIdx, usedIdx,
                       seen, working, irq>>
    BY Parts, Zenon DEF Returns
  <2> HIDE DEF h
  <2> QED  BY ONLY <2>1, <2>2, <2>3, Zenon DEF TypeOK
<1>7. Control'
  <2>1. chan[p] = None
    BY <1>16, Parts, Zenon DEF Control
  <2> QED  BY <1>5, <1>16, <2>1, Parts, Symbols DEF Control
<1>8. Owners' = Owners \ {p}
  BY <1>5, Zenon DEF Owners
<1>9. ASSUME NEW q \in Owners, q # p
      PROVE  /\ head'[q] = head[q] /\ Own(head[q])' = Own(head[q]) /\ Formatted(q)'
             /\ Own(head[q]) \cap Own(h) = {}
  <2>1. q \in Procs /\ head'[q] = head[q] /\ req'[q] = req[q]
    BY <1>5, <1>9, Zenon DEF Owners
  <2>2. Formatted(q) /\ head[q] \in Descs
    BY Parts, Zenon DEF Chained, Owners, TypeOK
  <2>3. Own(head[q]) \cap Own(h) = {} /\ Own(head[q]) \subseteq Descs
    BY <1>2, <1>9, <2>2, Parts DEF Chained, Formatted, Own
  <2>4. /\ Second(head[q])' = Second(head[q]) /\ Third(head[q])' = Third(head[q])
        /\ Own(head[q])' = Own(head[q])
        /\ \A d \in Own(head[q]) : desc'[d] = desc[d] /\ info'[d] = info[d]
    <3>1. \A d \in Own(head[q]) : desc'[d] = desc[d] /\ info'[d] = info[d]
      BY <1>4, <2>3, Zenon
    <3>2. head[q] \in Own(head[q]) /\ Second(head[q]) \in Own(head[q])
      BY Zenon DEF Own
    <3>3. Second(head[q])' = Second(head[q])
      BY ONLY <2>1, <3>1, <3>2, Zenon DEF Second
    <3>4. Third(head[q])' = Third(head[q])
      BY ONLY <2>1, <3>1, <3>2 DEF Second, Third
    <3> QED  BY <2>1, <3>1, <3>3, <3>4, Zenon DEF Own
  <2>5. Own(head[q]) \cap free' = {}
    BY <1>4, <2>2, <2>3, Zenon DEF Formatted
  <2>6. Formatted(q)'
    <3>1. head[q] \in Own(head[q]) /\ Second(head[q]) \in Own(head[q]) /\ Third(head[q]) \in Own(head[q])
      BY Zenon DEF Own
    <3> QED  BY ONLY <2>1, <2>2, <2>4, <2>5, <3>1, Zenon DEF Formatted
  <2> QED  BY <2>1, <2>3, <2>4, <2>6, Zenon
<1>10. Chained'
  <2>1. \A q \in Owners' : Formatted(q)'
    BY <1>8, <1>9, Zenon
  <2>2. \A q, r \in Owners' : q # r => Own(head[q])' \cap Own(head[r])' = {}
    BY <1>8, <1>9, Parts, Zenon DEF Chained
  <2>3. ASSUME NEW d \in Descs \ free' PROVE \E q \in Owners' : d \in Own(head[q])'
    <3>1. d \in Descs \ free /\ d \notin Own(h)
      BY <1>4, Zenon
    <3>2. PICK q \in Owners : d \in Own(head[q])
      BY <3>1, Parts, Zenon DEF Chained
    <3> QED  BY <1>8, <1>9, <3>1, <3>2, Zenon
  <2> QED  BY <2>1, <2>2, <2>3, Zenon DEF Chained
<1>11. /\ IsFiniteSet(free) /\ Cardinality(free) \in Nat
       /\ IsFiniteSet(Owners) /\ Cardinality(Owners) \in Nat
       /\ Pending \subseteq Owners
  BY Parts, Few, Zenon
<1>12. Counted'
  <2>1. Cardinality(free') = Cardinality(free) + 3
    <3>1. h # Second(h) /\ h # Third(h) /\ Second(h) # Third(h)
      BY <1>2, Zenon DEF Formatted
    <3>2. {h, Second(h), Third(h)} \cap free = {} /\ free' = free \cup {h, Second(h), Third(h)}
      BY <1>3, <1>4, Zenon DEF Own
    <3> DEFINE j == Second(h)
               k == Third(h)
    <3> HIDE DEF h, j, k
    <3>3. h # j /\ h # k /\ j # k /\ {h, j, k} \cap free = {} /\ free' = free \cup {h, j, k}
      BY ONLY <3>1, <3>2, Zenon DEF j, k
    <3> QED  BY ONLY <1>11, <3>3, MoreThree, Zenon
  <2>2. IsFiniteSet(Owners') /\ Cardinality(Owners') = Cardinality(Owners) - 1
    BY <1>2, <1>8, <1>11, FS_RemoveElement, Zenon
  <2> QED  BY <1>11, <2>1, <2>2, Parts DEF Counted
<1>13. Edges' /\ Raised'
  <2>1. \A q \in Procs : pc[q] = "publish" => q = p
    BY <1>16, Parts, Zenon DEF Control
  <2>2. Edges'
    BY <1>5, <1>19, <2>1, Parts, Zenon DEF Edges
  <2> QED  BY <1>16, <1>19, <2>2, Parts, Symbols, Zenon DEF Raised
<1>14. Sleepers'
  BY <1>5, <1>19, Parts, Symbols DEF Sleepers
<1>15. Rings(S, A, U, D)'
  <2>1. p \notin Pending /\ Pending' = Pending
    BY <1>5, <1>16, <1>19, Zenon DEF Pending
  <2>2. \A q \in Pending : head'[q] = head[q]
    BY <1>5, <2>1, Zenon DEF Pending
  <2> QED  BY <1>1, <1>19, <2>1, <2>2, KeepRings, Zenon
<1> QED  BY <1>4, <1>6, <1>7, <1>10, <1>12, <1>13, <1>14, <1>15, Zenon DEF VInv

(* The steps of a process that calls, sleeps or runs in virtio_disk_rw.     *)
LEMMA DriverStep == ASSUME VInv, Driver PROVE VInv'
<1>1. ~ panicked
  BY Zenon DEF Driver
<1>2. PICK p \in Procs : Request(p) \/ Step(p) \/ Kill(p)
  BY Zenon DEF Driver
<1>3. CASE Request(p)
  BY <1>3, CallStep, Zenon DEF Request
<1>4. CASE Kill(p)
  BY <1>4, KillStep, Zenon
<1>5. CASE Reacquire(p)
  BY <1>5, ReacquireStep, Zenon
<1>6. CASE Alloc(p)
  <2>1. lock = p /\ pc[p] = "alloc"
    BY <1>6, Zenon DEF Alloc
  <2>2. UNCHANGED <<disk, data, availIdx, usedRing, deviceIdx, usedIdx, seen, working, irq, req,
                    panicked>>
    BY <1>6, Zenon DEF Alloc, device
  <2>3. CASE /\ \E i, j, k \in free : FirstFree(i, j, k) /\ Format(p, i, j, k)
             /\ UNCHANGED <<lock, chan>>
    <3>1. PICK i, j, k \in free : FirstFree(i, j, k) /\ Format(p, i, j, k)
      BY <2>3, Zenon
    <3>2. i < j /\ j < k
      BY <3>1, Zenon DEF FirstFree
    <3>3. Formats(p, i, j, k)
      BY <2>1, <2>2, <2>3, <3>1, <3>2, Zenon DEF Formats
    <3> QED  BY <3>1, <3>3, FormatStep, Zenon
  <2>4. CASE /\ Cardinality(free) < 3
             /\ chan' = [IF free = {} THEN chan ELSE Wakeup(chan, "free") EXCEPT ![p] = "free"]
             /\ lock' = None
             /\ UNCHANGED <<busy, chains, status, ring, procs>>
    <3>1. UNCHANGED <<busy, free, desc, info, status, ring, pc, req, head>>
      BY <2>4, Zenon DEF chains, procs
    <3>2. AllocFails(p)
      BY <2>1, <2>2, <2>4, <3>1, Zenon DEF AllocFails
    <3> QED  BY <3>2, AllocFailStep, Zenon
  <2> QED  BY <1>6, <2>3, <2>4, Zenon DEF Alloc
<1>7. CASE Publish(p)
  BY <1>7, PublishStep, Zenon
<1>8. CASE Wait(p)
  <2>1. /\ lock = p /\ pc[p] = "wait" /\ lock' = None
        /\ UNCHANGED <<disk, data, busy, status, ring, availIdx, usedRing, deviceIdx, usedIdx,
                       seen, working, irq>>
    BY <1>8, Zenon DEF Wait, buffers, rings, device
  <2>2. CASE MustWait(p)
    <3>1. /\ busy[req[p].block] /\ chan' = [chan EXCEPT ![p] = req[p].block]
          /\ UNCHANGED <<free, desc, info, pc, req, head, panicked>>
      BY <1>8, <2>2, Zenon DEF Wait, MustWait, chains, procs
    <3>2. Sleeps(p)
      BY <2>1, <3>1, Zenon DEF Sleeps
    <3> QED  BY <3>2, SleepStep, Zenon
  <2>3. CASE ~ MustWait(p)
    <3>1. /\ ~ busy[req[p].block]
          /\ info' = [info EXCEPT ![head[p]] = None]
          /\ panicked' = (Chain(head[p]) \cap free # {})
          /\ free' = free \cup Chain(head[p])
          /\ desc' = [i \in Descs |-> IF i \in Chain(head[p]) THEN Unused ELSE desc[i]]
          /\ chan' = Wakeup(chan, "free")
          /\ pc' = [pc EXCEPT ![p] = "idle"]
          /\ req' = [req EXCEPT ![p] = None]
          /\ head' = [head EXCEPT ![p] = None]
      BY <1>8, <2>3, Zenon DEF Wait, MustWait, FreeWakes
    <3>2. Returns(p)
      BY <2>1, <3>1, Zenon DEF Returns
    <3> QED  BY <1>1, <3>2, ReturnStep, Zenon
  <2> QED  BY <2>2, <2>3, Zenon
<1> QED  BY <1>2, <1>3, <1>4, <1>5, <1>6, <1>7, <1>8, Zenon DEF Step


(* virtio_disk_intr begins, ends, or panics.                                *)
LEMMA IntrEdgeStep ==
  ASSUME VInv, lock \in {None, Intr}, lock' \in {None, Intr}, panicked' \in BOOLEAN, irq' \in BOOLEAN,
         \/ lock' = Intr
         \/ panicked'
         \/ usedIdx = deviceIdx,
         UNCHANGED <<disk, data, busy, free, desc, info, status, ring, availIdx, usedRing,
                     deviceIdx, usedIdx, seen, working, pc, req, head, chan>>
  PROVE  VInv'
<1>1. PICK S, A, U, D \in Nat : Rings(S, A, U, D)
  BY Zenon DEF VInv
<1>2. lock \notin Procs /\ lock' \notin Procs
  BY Symbols, Zenon
<1>3. TypeOK'
  BY Parts, Zenon DEF TypeOK
<1>4. Control'
  BY <1>2, Parts, Zenon DEF Control
<1>5. Chained' /\ Counted'
  BY Parts, KeepChains, Zenon
<1>6. Edges' /\ Sleepers'
  BY Parts, Zenon DEF Edges, Sleepers
<1>7. Raised'
  BY Parts, Zenon DEF Raised
<1>8. Rings(S, A, U, D)'
  <2>1. Pending' = Pending
    BY Zenon DEF Pending
  <2> QED  BY <1>1, <2>1, KeepRings, Zenon
<1> QED  BY <1>3, <1>4, <1>5, <1>6, <1>7, <1>8, Zenon DEF VInv

(* virtio_disk_intr finds an entry of the used ring: it is of a request     *)
(* that waits.                                                              *)
LEMMA EntryIs ==
  ASSUME VInv, NEW S \in Nat, NEW A \in Nat, NEW U \in Nat, NEW D \in Nat, Rings(S, A, U, D),
         usedIdx # deviceIdx
  PROVE  /\ U < D
         /\ usedRing[UsedSlot] = usedRing[U % RING]
         /\ \E p \in Pending : /\ head[p] = usedRing[U % RING]
                               /\ status[usedRing[U % RING]] \in {"ok", "error"}
                               /\ info[usedRing[U % RING]] = req[p].block
<1>1. U < D
  BY DEF Rings
<1>2. UsedSlot = U % RING
  <2>1. usedIdx = U % IDX
    BY Zenon DEF Rings
  <2> QED  BY <2>1, SlotIs, Zenon DEF UsedSlot
<1>3. InFlight(usedRing[U % RING], {"ok", "error"})
  <2>1. U \in U..(D - 1)
    BY <1>1
  <2> QED  BY <2>1, Zenon DEF Rings
<1>4. PICK p \in Pending : head[p] = usedRing[U % RING] /\ status[usedRing[U % RING]] \in {"ok", "error"}
  BY <1>3, Zenon DEF InFlight
<1>5. p \in Owners
  BY <1>4, Parts, Few, Zenon
<1>6. info[head[p]] = req[p].block
  BY <1>5, Parts, Zenon DEF Chained, Formatted
<1> QED  BY <1>1, <1>2, <1>4, <1>6, Zenon

(* virtio_disk_intr ends the wait of a request.                             *)
LEMMA EntryStep ==
  ASSUME VInv, lock = Intr, usedIdx # deviceIdx, status[usedRing[UsedSlot]] = "ok",
         busy' = [busy EXCEPT ![info[usedRing[UsedSlot]]] = FALSE],
         chan' = Wakeup(chan, info[usedRing[UsedSlot]]),
         usedIdx' = Inc(usedIdx),
         UNCHANGED <<disk, data, free, desc, info, status, ring, availIdx, usedRing,
                     deviceIdx, seen, working, irq, lock, pc, req, head, panicked>>
  PROVE  VInv'
<1>1. PICK S, A, U, D \in Nat : Rings(S, A, U, D)
  BY Zenon DEF VInv
<1> DEFINE h == usedRing[U % RING]
<1>2. /\ U < D /\ usedRing[UsedSlot] = h
      /\ \E p \in Pending : head[p] = h /\ info[h] = req[p].block
  <2>1. /\ U < D /\ usedRing[UsedSlot] = usedRing[U % RING]
        /\ \E p \in Pending : /\ head[p] = usedRing[U % RING]
                              /\ status[usedRing[U % RING]] \in {"ok", "error"}
                              /\ info[usedRing[U % RING]] = req[p].block
    BY ONLY <1>1, VInv, usedIdx # deviceIdx, EntryIs, ZenonT(40)
  <2> QED  BY ONLY <2>1, Zenon DEF h
<1>3. PICK p \in Pending : head[p] = h /\ info[h] = req[p].block
  BY <1>2, Zenon
<1> DEFINE b == req[p].block
<1> HIDE DEF h
<1>4. p \in Procs /\ pc[p] = "wait" /\ p \in Owners /\ b \in Blocks /\ req[p] # None
  <2>1. p \in Procs /\ pc[p] = "wait" /\ p \in Owners
    BY Parts, Few, Zenon DEF Pending
  <2> QED  BY <2>1, Parts, Asked, Zenon
<1>5. /\ busy' = [busy EXCEPT ![b] = FALSE] /\ chan' = Wakeup(chan, b)
      /\ status[h] = "ok" /\ usedIdx' = (U + 1) % IDX /\ (U + 1) % IDX \in 0..(IDX - 1)
  <2>1. usedIdx' = ((U % IDX) + 1) % IDX
    BY <1>1, Zenon DEF Rings, Inc
  <2>2. (U + 1) % IDX \in 0..(IDX - 1)
    BY Sizes
  <2>3. ((U % IDX) + 1) % IDX = (U + 1) % IDX
    BY IncIs, Zenon
  <2> QED  BY <1>2, <1>3, <2>1, <2>2, <2>3, Zenon
<1>6. /\ busy'[b] = FALSE /\ \A c \in Blocks \ {b} : busy'[c] = busy[c]
      /\ \A q \in Procs : chan'[q] = IF chan[q] = b THEN None ELSE chan[q]
  BY <1>4, <1>5, Parts, Zenon DEF TypeOK, Wakeup
<1> HIDE DEF b
<1>7. TypeOK'
  <2>1. busy' \in [Blocks -> BOOLEAN]
    BY <1>4, <1>5, Parts, Zenon DEF TypeOK
  <2>2. chan' \in [Procs -> Blocks \cup {"free", None}]
    BY <1>5, Parts, Zenon DEF TypeOK, Wakeup
  <2> QED  BY <1>5, <2>1, <2>2, Parts DEF TypeOK
<1>8. Control'
  <2>1. \A q \in Procs : chan'[q] = chan[q] \/ chan'[q] = None
    BY <1>6, Zenon
  <2>2. lock' \notin Procs
    BY Symbols, Zenon
  <2> QED  BY <2>1, <2>2, Parts, Symbols DEF Control
<1>9. Chained' /\ Counted'
  BY Parts, KeepChains, Zenon
<1>10. \A q \in Procs \ {p} : req[q] # None => req[q].block # b /\ req[q].block \in Blocks
  <2>1. \A q \in Procs \ {p} : req[q] # None => req[q].block # b
    BY <1>4, Parts, Zenon DEF Control, b
  <2>2. \A q \in Procs : req[q] # None => req[q].block \in Blocks
    BY Parts, Zenon DEF TypeOK, Requests
  <2> QED  BY <2>1, <2>2, Zenon
<1>11. Edges'
  <2>1. ASSUME NEW q \in Procs, q # p, pc[q] \in {"publish", "wait"}
        PROVE  busy'[req[q].block] = busy[req[q].block]
    <3>1. req[q] # None
      BY <2>1, Parts, Zenon DEF Control
    <3> QED  BY <1>6, <1>10, <2>1, <3>1, Zenon
  <2>2. pc[p] # "publish" /\ status[head[p]] = "ok"
    BY <1>3, <1>4, <1>5, Zenon
  <2> QED  BY <2>1, <2>2, Parts, Zenon DEF Edges
<1>12. Sleepers'
  <2>1. ASSUME NEW q \in Procs, chan'[q] = "free" PROVE Cardinality(free) < 3
    <3>1. chan[q] = "free"
      BY <1>6, <2>1, Symbols, Zenon
    <3> QED  BY <3>1, Parts, Zenon DEF Sleepers
  <2>2. ASSUME NEW q \in Procs, chan'[q] \in Blocks PROVE busy'[chan'[q]]
    <3>1. chan'[q] = chan[q] /\ chan[q] \in Blocks \ {b}
      BY <1>6, <2>2, Symbols, Zenon
    <3>2. busy[chan[q]]
      BY <3>1, Parts, Zenon DEF Sleepers
    <3> QED  BY <1>6, <3>1, <3>2, Zenon
  <2> QED  BY <2>1, <2>2, Zenon DEF Sleepers
<1>13. Raised'
  BY Parts, Zenon DEF Raised
<1>14. Pending' = Pending \ {p}
  <2>1. p \notin Pending'
    BY <1>6, Zenon DEF Pending, b
  <2>2. ASSUME NEW q \in Procs, q # p PROVE q \in Pending' <=> q \in Pending
    <3>1. CASE pc[q] = "wait"
      <4>1. req[q] # None
        BY <3>1, Parts, Zenon DEF Control
      <4>2. busy'[req[q].block] = busy[req[q].block]
        BY <1>6, <1>10, <2>2, <4>1, Zenon
      <4> QED  BY <3>1, <4>2, Zenon DEF Pending
    <3>2. CASE pc[q] # "wait"
      BY <3>2, Zenon DEF Pending
    <3> QED  BY <3>1, <3>2, Zenon
  <2> QED  BY <2>1, <2>2, Zenon DEF Pending
<1>15. \A g, st : InFlight(g, st) /\ g # h => InFlight(g, st)'
  BY <1>3, <1>14, Zenon DEF InFlight
<1>16. Rings(S, A, U + 1, D)'
  <2>1. S <= A /\ U + 1 <= D
    BY <1>1, <1>2 DEF Rings
  <2>2. seen' = S % IDX /\ availIdx' = A % IDX /\ usedIdx' = (U + 1) % IDX /\ deviceIdx' = D % IDX
    BY <1>1, <1>5, Zenon DEF Rings
  <2>3. (A - S) + Cardinality(working) + (D - (U + 1)) = Cardinality(Pending')
    <3>1. IsFiniteSet(Pending) /\ Cardinality(Pending) \in Nat
      BY Parts, Few, Zenon
    <3>2. Cardinality(Pending') = Cardinality(Pending) - 1
      BY <1>3, <1>14, <3>1, FS_RemoveElement, Zenon
    <3>3. Cardinality(working) \in Nat
      BY <1>1, FS_CardinalityType, Zenon DEF Rings
    <3> QED  BY <1>1, <3>1, <3>2, <3>3 DEF Rings
  <2>4. \A g : InFlight(g, {"pending"}) => g # h
    BY <1>5, Zenon DEF InFlight
  <2>5. \A n \in S..(A - 1) : InFlight(ring[n % RING], {"pending"})' /\ ring[n % RING] \notin working
    BY <1>1, <1>15, <2>4, Zenon DEF Rings
  <2>6. \A g \in working : InFlight(g, {"pending"})'
    BY <1>1, <1>15, <2>4, Zenon DEF Rings
  <2>7. ASSUME NEW n \in (U + 1)..(D - 1) PROVE InFlight(usedRing[n % RING], {"ok", "error"})'
    <3>1. n \in U..(D - 1) /\ U \in U..(D - 1) /\ n # U
      BY <1>2
    <3>2. InFlight(usedRing[n % RING], {"ok", "error"}) /\ usedRing[n % RING] # h
      BY <1>1, <3>1, Zenon DEF Rings, h
    <3> QED  BY <1>15, <3>2, Zenon
  <2>8. /\ IsFiniteSet(working)
        /\ \A m, n \in S..(A - 1) : ring[m % RING] = ring[n % RING] => m = n
        /\ \A m, n \in (U + 1)..(D - 1) : usedRing[m % RING] = usedRing[n % RING] => m = n
    BY <1>1 DEF Rings
  <2>9. UNCHANGED <<working, ring, usedRing>>
    BY Zenon
  <2> QED  BY ONLY <2>1, <2>2, <2>3, <2>5, <2>6, <2>7, <2>8, <2>9, Zenon DEF Rings
<1>17. U + 1 \in Nat
  OBVIOUS
<1> QED  BY <1>7, <1>8, <1>9, <1>11, <1>12, <1>13, <1>16, <1>17, Zenon DEF VInv
(* The device takes a chain from the avail ring.                            *)
LEMMA FetchStep ==
  ASSUME VInv, Fetch
  PROVE  VInv'
<1>1. PICK S, A, U, D \in Nat : Rings(S, A, U, D)
  BY Zenon DEF VInv
<1> DEFINE h == ring[S % RING]
<1>2. S < A /\ S \in S..(A - 1)
  BY <1>1 DEF Rings, Fetch
<1>3. seen' = (S + 1) % IDX /\ (S + 1) % IDX \in 0..(IDX - 1) /\ working' = working \cup {h}
  <2>1. seen = S % IDX
    BY <1>1, Zenon DEF Rings
  <2>2. (S + 1) % IDX \in 0..(IDX - 1)
    BY Sizes
  <2>3. ((S % IDX) + 1) % IDX = (S + 1) % IDX /\ (S % IDX) % RING = S % RING
    BY IncIs, SlotIs, Zenon
  <2> QED  BY <2>1, <2>2, <2>3, Zenon DEF Fetch
<1>4. UNCHANGED <<disk, data, busy, free, desc, info, status, ring, availIdx, usedRing, deviceIdx,
                  usedIdx, irq, lock, pc, req, head, chan, panicked>>
  BY Zenon DEF Fetch, buffers, chains, rings, procs
<1>5. InFlight(h, {"pending"}) /\ h \notin working
  BY <1>1, <1>2, Zenon DEF Rings
<1> HIDE DEF h
<1>6. h \in Descs
  BY <1>5, Parts DEF InFlight, Pending, TypeOK, Control
<1>7. TypeOK'
  <2>1. working' \subseteq Descs
    BY <1>3, <1>6, Parts, Zenon DEF TypeOK
  <2> QED  BY <1>3, <1>4, <2>1, Parts DEF TypeOK
<1>8. Control'
  BY <1>4, Parts, Zenon DEF Control
<1>9. Chained' /\ Counted'
  BY <1>4, Parts, KeepChains, Zenon
<1>10. Edges' /\ Sleepers' /\ Raised'
  BY <1>4, Parts, Zenon DEF Edges, Sleepers, Raised
<1>11. Pending' = Pending /\ \A g, st : InFlight(g, st)' = InFlight(g, st)
  BY <1>4, Zenon DEF Pending, InFlight
<1>12. Rings(S + 1, A, U, D)'
  <2>1. S + 1 <= A /\ U <= D
    BY <1>1, <1>2 DEF Rings
  <2>2. seen' = (S + 1) % IDX /\ availIdx' = A % IDX /\ usedIdx' = U % IDX /\ deviceIdx' = D % IDX
    BY <1>1, <1>3, <1>4, Zenon DEF Rings
  <2>3. IsFiniteSet(working) /\ Cardinality(working) \in Nat
    BY <1>1, FS_CardinalityType, Zenon DEF Rings
  <2>4. IsFiniteSet(working') /\ Cardinality(working') = Cardinality(working) + 1
    BY <1>3, <1>5, <2>3, FS_AddElement, Zenon
  <2>5. (A - (S + 1)) + Cardinality(working') + (D - U) = Cardinality(Pending')
    <3>1. (A - S) + Cardinality(working) + (D - U) = Cardinality(Pending)
      BY <1>1, Zenon DEF Rings
    <3> QED  BY <1>11, <2>3, <2>4, <3>1
  <2>6. ASSUME NEW n \in (S + 1)..(A - 1)
        PROVE  InFlight(ring[n % RING], {"pending"}) /\ ring[n % RING] \notin working'
    <3>1. n \in S..(A - 1) /\ n # S
      OBVIOUS
    <3>2. InFlight(ring[n % RING], {"pending"}) /\ ring[n % RING] \notin working
      BY <1>1, <3>1, Zenon DEF Rings
    <3>3. ring[n % RING] # h
      BY <1>1, <1>2, <3>1, Zenon DEF Rings, h
    <3> QED  BY <1>3, <3>2, <3>3, Zenon
  <2>7. \A g \in working' : InFlight(g, {"pending"})
    BY <1>1, <1>3, <1>5, Zenon DEF Rings
  <2>8. /\ \A n \in U..(D - 1) : InFlight(usedRing[n % RING], {"ok", "error"})
        /\ \A m, n \in (S + 1)..(A - 1) : ring[m % RING] = ring[n % RING] => m = n
        /\ \A m, n \in U..(D - 1) : usedRing[m % RING] = usedRing[n % RING] => m = n
    BY <1>1 DEF Rings
  <2> QED  BY <1>4, <1>11, <2>1, <2>2, <2>4, <2>5, <2>6, <2>7, <2>8, Zenon DEF Rings
<1>13. S + 1 \in Nat
  OBVIOUS
<1> QED  BY <1>7, <1>8, <1>9, <1>10, <1>12, <1>13, Zenon DEF VInv

(* What the device reads in a chain it works on.                            *)
LEMMA ChainSays ==
  ASSUME VInv, NEW h \in working
  PROVE  \E p \in Pending :
           /\ p \in Owners /\ head[p] = h /\ status[h] = "pending"
           /\ desc[h].addr = req[p] /\ desc[desc[h].next].addr = req[p].block
           /\ desc[desc[desc[h].next].next].addr.status = h
<1>1. PICK S, A, U, D \in Nat : Rings(S, A, U, D)
  BY Zenon DEF VInv
<1>2. InFlight(h, {"pending"})
  BY <1>1, Zenon DEF Rings
<1>3. PICK p \in Pending : head[p] = h /\ status[h] = "pending"
  BY <1>2, Zenon DEF InFlight
<1>4. p \in Owners
  BY Parts, Few, Zenon
<1>5. Formatted(p)
  BY <1>4, Parts, Zenon DEF Chained
<1>6. desc[h].addr = req[p] /\ desc[desc[h].next].addr = req[p].block
  BY <1>3, <1>5, Zenon DEF Formatted, Second
<1>7. desc[desc[desc[h].next].next].addr = [status |-> h]
  BY <1>3, <1>5, Zenon DEF Formatted, Third
<1>8. desc[desc[desc[h].next].next].addr.status = h
  BY ONLY <1>7
<1> QED  BY <1>3, <1>4, <1>6, <1>8, Zenon

(* Whose chain the device finishes, and how.                                *)
LEMMA CompleteIs ==
  ASSUME VInv, NEW h \in Descs, Complete(h)
  PROVE  \E p \in Pending :
           /\ p \in Owners /\ head[p] = h /\ status[h] = "pending"
           /\ pc[p] = "wait" /\ req[p] \in Requests /\ req[p].block \in Blocks
           /\ \/ /\ disk' = IF req[p].write THEN [disk EXCEPT ![req[p].block] = data[req[p].block]]
                                            ELSE disk
                 /\ data' = IF req[p].write THEN data
                                            ELSE [data EXCEPT ![req[p].block] = disk[req[p].block]]
                 /\ status' = [status EXCEPT ![h] = "ok"]
              \/ /\ status' = [status EXCEPT ![h] = "error"]
                 /\ UNCHANGED <<disk, data>>
           /\ \A q \in Owners \ {p} : head[q] \in Descs \ {h} /\ status'[head[q]] = status[head[q]]
<1>0. status \in [Descs -> {"ok", "pending", "error"}]
  BY Parts, Zenon DEF TypeOK
<1>1. h \in working
  BY Zenon DEF Complete
<1>2. PICK p \in Pending :
        /\ p \in Owners /\ head[p] = h /\ status[h] = "pending"
        /\ desc[h].addr = req[p] /\ desc[desc[h].next].addr = req[p].block
        /\ desc[desc[desc[h].next].next].addr.status = h
  BY <1>1, ChainSays, Zenon
<1>3. pc[p] = "wait" /\ req[p] \in Requests /\ req[p].block \in Blocks
  <2>1. p \in Procs /\ pc[p] = "wait"
    BY Zenon DEF Pending
  <2> QED  BY <2>1, Parts, Asked, Zenon
<1>4. \/ /\ disk' = IF req[p].write THEN [disk EXCEPT ![req[p].block] = data[req[p].block]] ELSE disk
         /\ data' = IF req[p].write THEN data ELSE [data EXCEPT ![req[p].block] = disk[req[p].block]]
         /\ status' = [status EXCEPT ![h] = "ok"]
      \/ /\ status' = [status EXCEPT ![h] = "error"]
         /\ UNCHANGED <<disk, data>>
  BY <1>2, Zenon DEF Complete
<1>5. ASSUME NEW q \in Owners \ {p}
      PROVE  head[q] \in Descs \ {h} /\ status'[head[q]] = status[head[q]]
  <2>1. head[q] # h
    BY <1>2, Parts, HeadsDistinct, Zenon
  <2>2. head[q] \in Descs
    BY Parts, Zenon DEF Owners, TypeOK
  <2>3. status' = [status EXCEPT ![h] = "ok"] \/ status' = [status EXCEPT ![h] = "error"]
    BY ONLY <1>4, Zenon
  <2>4. \A g \in Descs \ {h} : status'[g] = status[g]
    BY ONLY <1>0, <2>3, Zenon
  <2> QED  BY <2>1, <2>2, <2>4, Zenon
<1> QED  BY ONLY <1>2, <1>3, <1>4, <1>5, Zenon

(* The device finishes a chain.                                             *)
LEMMA CompleteStep ==
  ASSUME VInv, NEW h \in Descs, Complete(h)
  PROVE  VInv'
<1>0. status \in [Descs -> {"ok", "pending", "error"}]
  BY Parts, Zenon DEF TypeOK
<1>1. PICK S, A, U, D \in Nat : Rings(S, A, U, D)
  BY Zenon DEF VInv
<1>2. h \in working
  BY Zenon DEF Complete
<1>3. PICK p \in Pending :
        /\ p \in Owners /\ head[p] = h /\ status[h] = "pending"
        /\ pc[p] = "wait" /\ req[p] \in Requests /\ req[p].block \in Blocks
        /\ \/ /\ disk' = IF req[p].write THEN [disk EXCEPT ![req[p].block] = data[req[p].block]]
                                         ELSE disk
              /\ data' = IF req[p].write THEN data
                                         ELSE [data EXCEPT ![req[p].block] = disk[req[p].block]]
              /\ status' = [status EXCEPT ![h] = "ok"]
           \/ /\ status' = [status EXCEPT ![h] = "error"]
              /\ UNCHANGED <<disk, data>>
        /\ \A q \in Owners \ {p} : head[q] \in Descs \ {h} /\ status'[head[q]] = status[head[q]]
  BY CompleteIs, Zenon
<1>4. p \in Procs
  BY Zenon DEF Pending
<1>5. status'[h] \in {"ok", "error"} /\ status' \in [Descs -> {"ok", "pending", "error"}]
  <2>1. status' = [status EXCEPT ![h] = "ok"] \/ status' = [status EXCEPT ![h] = "error"]
    BY ONLY <1>3, Zenon
  <2> QED  BY ONLY <1>0, <2>1, h \in Descs, Zenon
<1>6. /\ working' = working \ {h} /\ usedRing' = [usedRing EXCEPT ![deviceIdx % RING] = h]
      /\ deviceIdx' = (deviceIdx + 1) % IDX /\ irq' = TRUE
  BY Zenon DEF Complete
<1>7. UNCHANGED <<busy, free, desc, info, ring, availIdx, usedIdx, seen, lock, pc, req, head,
                  chan, panicked>>
  BY Zenon DEF Complete, chains, procs
<1>9. /\ deviceIdx' = (D + 1) % IDX /\ (D + 1) % IDX \in 0..(IDX - 1)
      /\ D % RING \in 0..(RING - 1) /\ usedRing'[D % RING] = h
      /\ \A n \in 0..(RING - 1) : n # D % RING => usedRing'[n] = usedRing[n]
  <2>1. deviceIdx = D % IDX
    BY <1>1, Zenon DEF Rings
  <2>2. (D + 1) % IDX \in 0..(IDX - 1) /\ D % RING \in 0..(RING - 1)
    BY Sizes
  <2>3. ((D % IDX) + 1) % IDX = (D + 1) % IDX /\ (D % IDX) % RING = D % RING
    BY IncIs, SlotIs, Zenon
  <2> QED  BY <1>6, <2>1, <2>2, <2>3, Parts, Zenon DEF TypeOK
<1>10. TypeOK'
  <2>1. disk' \in [Blocks -> Vals] /\ data' \in [Blocks -> Vals]
    BY <1>3, Parts DEF TypeOK
  <2>2. /\ usedRing' \in [0..(RING - 1) -> Descs] /\ working' \subseteq Descs
    BY <1>6, Parts, Zenon DEF TypeOK
  <2>3. TypeOK
    BY Parts, Zenon
  <2>4. deviceIdx' \in 0..(IDX - 1) /\ irq' \in BOOLEAN
    BY <1>6, <1>9, Zenon
  <2> QED  BY ONLY <1>5, <1>7, <2>1, <2>2, <2>3, <2>4, Zenon DEF TypeOK
<1>11. Control'
  BY <1>7, Parts, Zenon DEF Control
<1>12. Chained' /\ Counted'
  BY <1>7, Parts, KeepChains, Zenon
<1>14. Edges'
  <2>1. ASSUME NEW q \in Procs, pc[q] = "publish" \/ (pc[q] = "wait" /\ ~ busy[req[q].block])
        PROVE  status'[head[q]] = status[head[q]]
    <3>1. q \in Owners
      BY <2>1, Parts, Zenon DEF Owners, Control
    <3>2. q # p
      BY <1>3, <2>1, Zenon DEF Pending
    <3> QED  BY <1>3, <3>1, <3>2, Zenon
  <2> QED  BY <1>7, <2>1, Parts DEF Edges
<1>15. Sleepers' /\ Raised'
  BY <1>6, <1>7, Parts, Zenon DEF Sleepers, Raised
<1>16. Pending' = Pending
  BY <1>7, Zenon DEF Pending
<1>17. \A g, st : InFlight(g, st) /\ g # h => InFlight(g, st)'
  <2>1. \A q \in Pending : q \in Owners
    BY Parts, Few, Zenon
  <2>2. \A q \in Pending : head[q] # h => status'[head[q]] = status[head[q]]
    BY <1>3, <2>1, Zenon
  <2> QED  BY <1>7, <1>16, <2>2, Zenon DEF InFlight
<1>18. InFlight(h, {"ok", "error"})'
  BY <1>3, <1>5, <1>7, <1>16, Zenon DEF InFlight
<1>19. Rings(S, A, U, D + 1)'
  <2>1. S <= A /\ U <= D + 1
    BY <1>1 DEF Rings
  <2>2. seen' = S % IDX /\ availIdx' = A % IDX /\ usedIdx' = U % IDX /\ deviceIdx' = (D + 1) % IDX
    BY <1>1, <1>7, <1>9, Zenon DEF Rings
  <2>3. IsFiniteSet(working) /\ Cardinality(working) \in Nat
    BY <1>1, FS_CardinalityType, Zenon DEF Rings
  <2>4. /\ IsFiniteSet(working') /\ Cardinality(working') = Cardinality(working) - 1
        /\ Cardinality(working') \in Nat
    BY <1>2, <1>6, <2>3, FS_RemoveElement, FS_CardinalityType, Zenon
  <2>5. (A - S) + Cardinality(working') + ((D + 1) - U) = Cardinality(Pending')
    <3>1. (A - S) + Cardinality(working) + (D - U) = Cardinality(Pending)
      BY <1>1, Zenon DEF Rings
    <3> QED  BY <1>16, <2>3, <2>4, <3>1
  <2>6. \A n \in S..(A - 1) : InFlight(ring[n % RING], {"pending"})' /\ ring[n % RING] \notin working'
    <3>1. \A n \in S..(A - 1) : InFlight(ring[n % RING], {"pending"}) /\ ring[n % RING] \notin working
      BY <1>1, Zenon DEF Rings
    <3> QED  BY <1>2, <1>6, <1>7, <1>17, <3>1, Zenon
  <2>7. \A g \in working' : InFlight(g, {"pending"})'
    BY <1>1, <1>6, <1>17, Zenon DEF Rings
  <2>8. D - U < RING
    <3>1. /\ Cardinality(Pending) <= Cardinality(Owners) /\ Cardinality(Owners) <= RING
          /\ Cardinality(Pending) \in Nat /\ Cardinality(Owners) \in Nat
      BY Parts, Few, Zenon
    <3> QED  BY <1>1, <2>1, <2>3, <2>4, <2>5, <1>16, <3>1, Sizes, SMTT(20) DEF Rings
  <2>9. ASSUME NEW n \in U..(D - 1)
        PROVE  usedRing'[n % RING] = usedRing[n % RING] /\ usedRing[n % RING] # h
    <3>1. n \in Nat /\ n < D /\ D < n + RING
      BY <2>8, Sizes
    <3>2. n % RING # D % RING
      BY <3>1, Sizes, ModDistinct, Zenon
    <3>3. n % RING \in 0..(RING - 1)
      BY <3>1, Sizes
    <3>4. InFlight(usedRing[n % RING], {"ok", "error"})
      BY <1>1, Zenon DEF Rings
    <3>5. usedRing[n % RING] # h
      BY <1>3, <3>4, Zenon DEF InFlight
    <3> QED  BY <1>9, <3>2, <3>3, <3>5, Zenon
  <2>10. \A n \in U..((D + 1) - 1) : n = D \/ n \in U..(D - 1)
    OBVIOUS
  <2>11. ASSUME NEW n \in U..((D + 1) - 1) PROVE InFlight(usedRing[n % RING], {"ok", "error"})'
    <3>1. CASE n = D
      BY <1>9, <1>18, <3>1, Zenon
    <3>2. CASE n \in U..(D - 1)
      BY <1>1, <1>17, <2>9, <3>2, Zenon DEF Rings
    <3> QED  BY <2>10, <3>1, <3>2, Zenon
  <2>12. \A m, n \in U..((D + 1) - 1) : usedRing'[m % RING] = usedRing'[n % RING] => m = n
    BY <1>1, <1>9, <2>9, <2>10, Zenon DEF Rings
  <2>13. \A m, n \in S..(A - 1) : ring[m % RING] = ring[n % RING] => m = n
    BY <1>1, Zenon DEF Rings
  <2> QED  BY ONLY <1>7, <2>1, <2>2, <2>4, <2>5, <2>6, <2>7, <2>11, <2>12, <2>13, Zenon DEF Rings
<1>20. D + 1 \in Nat
  OBVIOUS
<1> QED  BY <1>10, <1>11, <1>12, <1>14, <1>15, <1>19, <1>20 DEF VInv
-----------------------------------------------------------------------------
(* After virtio_disk_init.                                                  *)
LEMMA InitVInv == ASSUME Init PROVE VInv
<1>1. TypeOK
  <2>1. 0 \in 0..(IDX - 1) /\ 0 \in Descs
    BY Sizes DEF Descs
  <2> QED  BY <2>1, Zenon DEF Init, TypeOK, Unused
<1>2. Control /\ Edges /\ Sleepers /\ Raised
  BY Symbols, Zenon DEF Init, Control, Edges, Sleepers, Raised
<1>3. Owners = {} /\ Pending = {} /\ working = {}
  BY Zenon DEF Init, Owners, Pending
<1>4. Chained
  BY <1>3, Zenon DEF Init, Chained
<1>5. IsFiniteSet({}) /\ Cardinality({}) = 0
  BY FS_EmptySet, Zenon
<1>6. Counted
  <2>1. Cardinality(free) = NUM
    BY Sizes, FS_Interval DEF Init, Descs
  <2> QED  BY <1>3, <1>5, <2>1, Sizes DEF Counted
<1>7. Rings(0, 0, 0, 0)
  <2>1. 0 % IDX = 0
    BY Sizes
  <2>2. seen = 0 /\ availIdx = 0 /\ usedIdx = 0 /\ deviceIdx = 0
    BY Zenon DEF Init
  <2>3. \A n \in 0..(0 - 1) : FALSE
    OBVIOUS
  <2> QED  BY <1>3, <1>5, <2>1, <2>2, <2>3 DEF Rings
<1> QED  BY <1>1, <1>2, <1>4, <1>6, <1>7, Zenon DEF VInv

(* The steps of virtio_disk_intr.                                           *)
LEMMA IntrSteps == ASSUME VInv, ~ panicked, IntrBegin \/ IntrStep PROVE VInv'
<1>1. panicked \in BOOLEAN /\ irq \in BOOLEAN
  BY Parts, Zenon DEF TypeOK
<1>2. CASE IntrBegin
  <2>1. /\ lock = None /\ lock' = Intr /\ irq' = FALSE
        /\ UNCHANGED <<disk, data, busy, free, desc, info, status, ring, availIdx, usedRing,
                       deviceIdx, usedIdx, seen, working, pc, req, head, chan, panicked>>
    BY <1>2, Zenon DEF IntrBegin, buffers, chains, rings, device, procs
  <2> QED  BY <1>1, <2>1, IntrEdgeStep, Zenon
<1>3. CASE IntrStep
  <2>1. /\ lock = Intr
        /\ UNCHANGED <<disk, data, free, desc, info, status, ring, availIdx, usedRing, deviceIdx,
                       seen, working, irq, pc, req, head>>
    BY <1>3, Zenon DEF IntrStep, chains, rings, device, procs
  <2>2. CASE usedIdx = deviceIdx
    <3>1. lock' = None /\ UNCHANGED <<busy, chan, usedIdx, panicked>>
      BY <1>3, <2>2, Zenon DEF IntrStep, IntrLoop, IntrEnd
    <3> QED  BY <1>1, <2>1, <2>2, <3>1, IntrEdgeStep, Zenon
  <2>3. CASE usedIdx # deviceIdx
    <3>1. IntrEntry /\ lock' = lock
      BY <1>3, <2>3, Zenon DEF IntrStep, IntrLoop
    <3>2. CASE status[usedRing[UsedSlot]] # "ok"
      <4>1. panicked' = TRUE /\ UNCHANGED <<busy, chan, usedIdx>>
        BY <3>1, <3>2, Zenon DEF IntrEntry
      <4> QED  BY <1>1, <2>1, <3>1, <4>1, IntrEdgeStep, Zenon
    <3>3. CASE status[usedRing[UsedSlot]] = "ok"
      <4>1. /\ busy' = [busy EXCEPT ![info[usedRing[UsedSlot]]] = FALSE]
            /\ chan' = Wakeup(chan, info[usedRing[UsedSlot]])
            /\ usedIdx' = Inc(usedIdx)
            /\ UNCHANGED panicked
        BY <3>1, <3>3, Zenon DEF IntrEntry
      <4> QED  BY <2>1, <2>3, <3>1, <3>3, <4>1, EntryStep, Zenon
    <3> QED  BY <3>2, <3>3, Zenon
  <2> QED  BY <2>2, <2>3, Zenon
<1> QED  BY <1>2, <1>3, Zenon

(* Nothing happens.                                                         *)
LEMMA StutterStep == ASSUME VInv, UNCHANGED vars PROVE VInv'
<1>1. PICK S, A, U, D \in Nat : Rings(S, A, U, D)
  BY Zenon DEF VInv
<1>2. UNCHANGED <<disk, data, busy, free, desc, info, status, ring, availIdx, usedRing, deviceIdx,
                  usedIdx, seen, working, irq, lock, pc, chan, req, head, panicked>>
  BY Zenon DEF vars
<1>3. TypeOK'
  BY <1>2, Parts, Zenon DEF TypeOK
<1>4. Control'
  <2>1. UNCHANGED <<head, pc, req, lock, chan>>
    BY <1>2, Zenon
  <2> QED  BY <2>1, Parts, Zenon DEF Control
<1>5. Chained' /\ Counted'
  <2>1. UNCHANGED <<head, desc, free, info, req>>
    BY <1>2, Zenon
  <2> QED  BY <2>1, Parts, KeepChains, Zenon
<1>6. Edges' /\ Sleepers' /\ Raised'
  BY <1>2, Parts, Zenon DEF Edges, Sleepers, Raised
<1>7. Rings(S, A, U, D)'
  <2>1. UNCHANGED <<seen, availIdx, usedIdx, deviceIdx, working, usedRing, ring, head, status>>
    BY <1>2, Zenon
  <2>2. UNCHANGED <<pc, busy, req>>
    BY <1>2, Zenon
  <2>3. Pending' = Pending
    BY <2>2, Zenon DEF Pending
  <2> QED  BY <1>1, <2>1, <2>3, KeepRings, Zenon
<1> QED  BY <1>3, <1>4, <1>5, <1>6, <1>7, Zenon DEF VInv

(* Every step of the driver, the device and the interrupt handler keeps the *)
(* chains apart, the ring indices in step with the requests, and every      *)
(* sleeper on a channel that will be woken.                                 *)
THEOREM DiskInvariance == Spec => []VInv
<1>1. Init => VInv
  BY InitVInv, Zenon
<1>2. VInv /\ [Next]_vars => VInv'
  <2> SUFFICES ASSUME VInv, [Next]_vars PROVE VInv'
    BY Zenon
  <2>1. CASE Driver
    BY <2>1, DriverStep, Zenon
  <2>2. CASE Device
    BY <2>2, FetchStep, CompleteStep, Zenon DEF Device
  <2>3. CASE ~ panicked /\ (IntrBegin \/ IntrStep)
    BY <2>3, IntrSteps, Zenon
  <2>4. CASE UNCHANGED vars
    BY <2>4, StutterStep, Zenon
  <2> QED  BY <2>1, <2>2, <2>3, <2>4, Zenon DEF Next
<1> QED  BY <1>1, <1>2, PTL DEF Spec
(* DescriptorsOwned: the free list and the chains of the requests split the *)
(* descriptors, and every chain has three.                                  *)
THEOREM DescriptorsSafe == Spec => []DescriptorsOwned
<1>1. ASSUME VInv PROVE DescriptorsOwned
  <2>1. TypeOK
    BY <1>1, Parts, Zenon
  <2>2. ASSUME NEW p \in Owners
        PROVE  /\ Chain(head[p]) = Own(head[p]) /\ Formatted(p) /\ head[p] \in Descs
               /\ Cardinality(Own(head[p])) = 3
    <3>1. Chain(head[p]) = Own(head[p])
      BY <1>1, Parts, OwnIsChain, Zenon
    <3>2. Formatted(p) /\ head[p] \in Descs
      BY <1>1, Parts, Zenon DEF Chained, Owners, TypeOK
    <3>3. Cardinality(Own(head[p])) = 3
      <4> DEFINE h == head[p]
                 j == Second(h)
                 k == Third(h)
      <4>1. h # j /\ h # k /\ j # k
        BY <3>2, Zenon DEF Formatted
      <4> DEFINE E == {}
      <4>0. IsFiniteSet({}) /\ Cardinality({}) = 0
        BY FS_EmptySet, Zenon
      <4>2. Own(head[p]) = E \cup {h, j, k} /\ {h, j, k} \cap E = {}
        BY Zenon DEF Own
      <4>3. IsFiniteSet(E) /\ Cardinality(E) = 0
        BY ONLY <4>0, Zenon
      <4> HIDE DEF h, j, k, E
      <4>4. Cardinality(E \cup {h, j, k}) = Cardinality(E) + 3
        BY ONLY <4>1, <4>2, <4>3, MoreThree, ZenonT(40)
      <4> QED  BY ONLY <4>2, <4>3, <4>4
    <3> QED  BY <3>1, <3>2, <3>3, Zenon
  <2>3. \A p \in Owners : Cardinality(Chain(head[p])) = 3 /\ Chain(head[p]) \cap free = {}
    BY <2>2, Zenon DEF Formatted
  <2>4. \A p, q \in Owners : p # q => Chain(head[p]) \cap Chain(head[q]) = {}
    BY <1>1, <2>2, Parts, Zenon DEF Chained
  <2>5. Descs = free \cup UNION {Chain(head[p]) : p \in Owners}
    <3>1. free \subseteq Descs
      BY <2>1, Zenon DEF TypeOK
    <3>2. ASSUME NEW p \in Owners PROVE Chain(head[p]) \subseteq Descs
      <4>1. Chain(head[p]) = Own(head[p]) /\ Formatted(p) /\ head[p] \in Descs
        BY <2>2, Zenon
      <4> QED  BY ONLY <4>1, Zenon DEF Formatted, Own
    <3>3. \A d \in Descs \ free : \E p \in Owners : d \in Chain(head[p])
      BY <1>1, <2>2, Parts DEF Chained
    <3> QED  BY <3>1, <3>2, <3>3, Zenon
  <2> QED  BY <2>1, <2>3, <2>4, <2>5, Zenon DEF DescriptorsOwned, Owners
<1> QED  BY <1>1, DiskInvariance, PTL

(* CompletionsKept: every finished chain that virtio_disk_intr has not seen *)
(* is of a request that waits, and the interrupt will come.                 *)
THEOREM CompletionsSafe == Spec => []CompletionsKept
<1>1. ASSUME VInv PROVE CompletionsKept
  <2>1. PICK S, A, U, D \in Nat : Rings(S, A, U, D)
    BY <1>1, Zenon DEF VInv
  <2>2. /\ usedIdx = U % IDX /\ deviceIdx = D % IDX /\ U <= D
        /\ \A m \in U..(D - 1) : InFlight(usedRing[m % RING], {"ok", "error"})
    BY <2>1, Zenon DEF Rings
  <2>3. D < U + IDX
    <3>1. /\ Cardinality(Pending) <= Cardinality(Owners) /\ Cardinality(Owners) < IDX
          /\ Cardinality(Pending) \in Nat /\ Cardinality(Owners) \in Nat
      BY <1>1, Parts, Few, Zenon
    <3>2. Cardinality(working) \in Nat
      BY <2>1, FS_CardinalityType, Zenon DEF Rings
    <3> QED  BY <2>1, <3>1, <3>2, Sizes DEF Rings
  <2>4. (deviceIdx + IDX - usedIdx) % IDX = D - U
    <3>1. ((D % IDX) + IDX - (U % IDX)) % IDX = D - U
      BY <2>2, <2>3, Sizes, DistIs, Zenon
    <3> QED  BY <2>2, <3>1, Zenon
  <2>5. ASSUME NEW n \in 0..(IDX - 1), n < (deviceIdx + IDX - usedIdx) % IDX,
               NEW id, id = usedRing[((usedIdx + n) % IDX) % RING]
        PROVE  /\ info[id] # None /\ busy[info[id]]
               /\ \E p \in Procs : pc[p] = "wait" /\ head[p] = id
    <3>1. n \in Nat /\ U + n \in Nat /\ U + n \in U..(D - 1)
      BY <2>4, <2>5
    <3>2. ((U % IDX) + n) % IDX = (U + n) % IDX
      BY <3>1, Sizes, AddMod, Zenon
    <3>3. ((U + n) % IDX) % RING = (U + n) % RING
      BY <3>1, SlotIs, Zenon
    <3>4. id = usedRing[(U + n) % RING]
      BY ONLY <2>2, <2>5, <3>2, <3>3, Zenon
    <3>5. PICK p \in Pending : head[p] = id
      BY <2>2, <3>1, <3>4, Zenon DEF InFlight
    <3>6. p \in Procs /\ pc[p] = "wait" /\ busy[req[p].block] /\ p \in Owners
      BY <1>1, Parts, Few, Zenon DEF Pending
    <3>7. info[id] = req[p].block
      BY <1>1, <3>5, <3>6, Parts, Zenon DEF Chained, Formatted
    <3>8. req[p].block \in Blocks
      BY <1>1, <3>6, Parts, Asked, Zenon
    <3> QED  BY <3>5, <3>6, <3>7, <3>8, Symbols, Zenon
  <2>6. ~ panicked /\ usedIdx # deviceIdx => irq \/ lock = Intr
    BY <1>1, Parts, Zenon DEF Raised
  <2> QED  BY <2>5, <2>6, Zenon DEF CompletionsKept
<1> QED  BY <1>1, DiskInvariance, PTL

(* SleepersMustWait: no wakeup of virtio_disk_rw is lost.                   *)
THEOREM NoLostWakeup == Spec => []SleepersMustWait
<1>1. VInv => SleepersMustWait
  BY Parts, Zenon DEF Sleepers, SleepersMustWait
<1> QED  BY <1>1, DiskInvariance, PTL
-----------------------------------------------------------------------------
(* The driver as a BlockDevice.                                             *)

(* What BlockDevice sees of a step that leaves the disk, the buffers and    *)
(* the requests alone, and of every process its phase.                      *)
LEMMA PhasesSame ==
  ASSUME UNCHANGED <<disk, data, req>>, \A q \in Procs : Phase(q)' = Phase(q)
  PROVE  UNCHANGED Promise!vars
<1>1. [q \in Procs |-> Phase(q)]' = [q \in Procs |-> Phase(q)]
  BY Zenon
<1> QED  BY <1>1, Zenon DEF Promise!vars

LEMMA InitImplements == ASSUME Init PROVE Promise!Init
BY Zenon DEF Init, Promise!Init, Phase

(* Steps that BlockDevice does not see.                                     *)
LEMMA QuietSteps ==
  ASSUME UNCHANGED <<disk, data, req, pc, head, status>>
  PROVE  UNCHANGED Promise!vars
<1>1. \A q \in Procs : Phase(q)' = Phase(q)
  BY Zenon DEF Phase
<1> QED  BY <1>1, PhasesSame, Zenon

(* The call is the start of a request.                                      *)
LEMMA CallImplements ==
  ASSUME VInv, NEW p \in Procs, Request(p)
  PROVE  Promise!Next
<1>1. PICK b \in Blocks, w \in Kinds, v \in Vals : Call(p, b, w, v)
  BY Zenon DEF Request
<1>2. /\ pc[p] = "idle" /\ w \in BOOLEAN
      /\ \A q \in Procs : req[q] # None => req[q].block # b
      /\ data' = IF w THEN [data EXCEPT ![b] = v] ELSE data
      /\ req' = [req EXCEPT ![p] = [write |-> w, block |-> b]]
      /\ pc' = [pc EXCEPT ![p] = "alloc"]
      /\ UNCHANGED <<disk, head, status>>
  BY <1>1, VirtioConstants, Zenon DEF Call
<1>3. pc'[p] = "alloc" /\ \A q \in Procs \ {p} : pc'[q] = pc[q]
  BY <1>2, Parts, Zenon DEF TypeOK
<1> DEFINE phase == [q \in Procs |-> Phase(q)]
<1>4. phase[p] = "idle" /\ phase' = [phase EXCEPT ![p] = "asked"]
  BY <1>2, <1>3, Zenon DEF Phase
<1>5. Promise!Start(p)
  BY <1>2, <1>4, Zenon DEF Promise!Start
<1> QED  BY <1>5, Zenon DEF Promise!Next

(* Formatting a chain changes nothing for who waits.                        *)
LEMMA FormatImplements ==
  ASSUME VInv, NEW p \in Procs, pc[p] = "alloc", NEW i \in free, NEW j, NEW k,
         Format(p, i, j, k), UNCHANGED <<disk, data, req>>
  PROVE  UNCHANGED Promise!vars
<1>1. i \in Descs
  BY Parts, Zenon DEF TypeOK
<1>2. /\ pc'[p] = "publish" /\ \A q \in Procs \ {p} : pc'[q] = pc[q] /\ head'[q] = head[q]
      /\ \A h \in Descs \ {i} : status'[h] = status[h]
  BY <1>1, Parts, Zenon DEF Format, TypeOK
<1>3. ASSUME NEW q \in Procs, pc[q] = "wait" PROVE head[q] \in Descs \ {i}
  <2>1. q \in Owners /\ head[q] \in Descs
    BY <1>3, Parts DEF Owners, Control, TypeOK
  <2>2. Formatted(q) /\ head[q] \in Own(head[q])
    BY <2>1, Parts, Zenon DEF Chained, Own
  <2> QED  BY <2>1, <2>2, Zenon DEF Formatted
<1>4. \A q \in Procs : Phase(q)' = Phase(q)
  BY <1>2, <1>3 DEF Phase
<1> QED  BY <1>4, PhasesSame, Zenon

LEMMA PublishImplements ==
  ASSUME VInv, NEW p \in Procs, Publish(p)
  PROVE  UNCHANGED Promise!vars
<1>1. /\ pc[p] = "publish" /\ pc' = [pc EXCEPT ![p] = "wait"]
      /\ UNCHANGED <<disk, data, req, head, status>>
  BY Zenon DEF Publish, buffers
<1>2. pc'[p] = "wait" /\ \A q \in Procs \ {p} : pc'[q] = pc[q]
  BY <1>1, Parts, Zenon DEF TypeOK
<1>3. status[head[p]] = "pending"
  BY <1>1, Parts, Zenon DEF Edges
<1>4. \A q \in Procs : Phase(q)' = Phase(q)
  BY <1>1, <1>2, <1>3, Zenon DEF Phase
<1> QED  BY <1>1, <1>4, PhasesSame, Zenon

(* The end of virtio_disk_rw returns a request that was served.             *)
LEMMA WaitImplements ==
  ASSUME VInv, NEW p \in Procs, Wait(p)
  PROVE  Promise!Next \/ UNCHANGED Promise!vars
<1>1. pc[p] = "wait" /\ UNCHANGED <<disk, data, status>>
  BY Zenon DEF Wait, buffers
<1>2. CASE MustWait(p)
  <2>1. UNCHANGED <<req, pc, head>>
    BY <1>2, Zenon DEF Wait, procs
  <2> QED  BY <1>1, <2>1, QuietSteps, Zenon
<1>3. CASE ~ MustWait(p)
  <2>1. /\ pc' = [pc EXCEPT ![p] = "idle"] /\ req' = [req EXCEPT ![p] = None]
        /\ head' = [head EXCEPT ![p] = None]
    BY <1>3, Zenon DEF Wait
  <2>2. /\ pc'[p] = "idle"
        /\ \A q \in Procs \ {p} : pc'[q] = pc[q] /\ head'[q] = head[q]
    BY <2>1, Parts, Zenon DEF TypeOK
  <2>3. status[head[p]] = "ok"
    BY <1>1, <1>3, Parts, Zenon DEF Edges, MustWait
  <2> DEFINE phase == [q \in Procs |-> Phase(q)]
  <2>4. Phase(p) = "done" /\ Phase(p)' = "idle" /\ \A q \in Procs \ {p} : Phase(q)' = Phase(q)
    BY <1>1, <2>2, <2>3, Zenon DEF Phase
  <2>5. phase[p] = "done" /\ phase' = [phase EXCEPT ![p] = "idle"]
    BY <2>4, Zenon
  <2>6. Promise!Return(p)
    BY <1>1, <2>1, <2>5, Zenon DEF Promise!Return
  <2> QED  BY <2>6, Zenon DEF Promise!Next
<1> QED  BY <1>2, <1>3, Zenon

(* The device serves a request that is waited for, in the right direction.  *)
LEMMA CompleteImplements ==
  ASSUME VInv, NEW h \in Descs, Complete(h)
  PROVE  Promise!Next \/ UNCHANGED Promise!vars
<1>1. PICK p \in Pending :
        /\ p \in Owners /\ head[p] = h /\ status[h] = "pending"
        /\ pc[p] = "wait" /\ req[p] \in Requests /\ req[p].block \in Blocks
        /\ \/ /\ disk' = IF req[p].write THEN [disk EXCEPT ![req[p].block] = data[req[p].block]]
                                         ELSE disk
              /\ data' = IF req[p].write THEN data
                                         ELSE [data EXCEPT ![req[p].block] = disk[req[p].block]]
              /\ status' = [status EXCEPT ![h] = "ok"]
           \/ /\ status' = [status EXCEPT ![h] = "error"]
              /\ UNCHANGED <<disk, data>>
        /\ \A q \in Owners \ {p} : head[q] \in Descs \ {h} /\ status'[head[q]] = status[head[q]]
  BY CompleteIs, Zenon
<1>2. p \in Procs /\ UNCHANGED <<req, pc, head>>
  BY Zenon DEF Pending, Complete, procs
<1>3. \A q \in Procs \ {p} : Phase(q)' = Phase(q)
  <2>1. \A q \in Procs \ {p} : pc[q] = "wait" => q \in Owners
    BY Parts, Zenon DEF Owners, Control
  <2> QED  BY <1>1, <1>2, <2>1, Zenon DEF Phase
<1>4. Phase(p) = "asked"
  BY <1>1, Zenon DEF Phase
<1>5. CASE /\ disk' = IF req[p].write THEN [disk EXCEPT ![req[p].block] = data[req[p].block]]
                                      ELSE disk
           /\ data' = IF req[p].write THEN data
                                      ELSE [data EXCEPT ![req[p].block] = disk[req[p].block]]
           /\ status' = [status EXCEPT ![h] = "ok"]
  <2>1. status'[h] = "ok"
    BY <1>5, Parts, Zenon DEF TypeOK
  <2>2. Phase(p)' = "done"
    BY <1>1, <1>2, <2>1, Zenon DEF Phase
  <2> DEFINE phase == [q \in Procs |-> Phase(q)]
  <2>3. phase[p] = "asked" /\ phase' = [phase EXCEPT ![p] = "done"]
    BY <1>2, <1>3, <1>4, <2>2, Zenon
  <2>4. IF req[p].write
          THEN disk' = [disk EXCEPT ![req[p].block] = data[req[p].block]] /\ UNCHANGED data
          ELSE data' = [data EXCEPT ![req[p].block] = disk[req[p].block]] /\ UNCHANGED disk
    BY ONLY <1>5, Zenon
  <2> HIDE DEF phase
  <2>5. Promise!Transfer(p)
    BY ONLY <1>2, <2>3, <2>4, Zenon DEF Promise!Transfer, phase
  <2> QED  BY <1>2, <2>5, Zenon DEF Promise!Next
<1>6. CASE status' = [status EXCEPT ![h] = "error"] /\ UNCHANGED <<disk, data>>
  <2>1. status'[h] = "error"
    BY <1>6, Parts, Zenon DEF TypeOK
  <2>2. Phase(p)' = Phase(p)
    BY <1>1, <1>2, <1>4, <2>1, Zenon DEF Phase
  <2> QED  BY <1>2, <1>3, <1>6, <2>2, PhasesSame, Zenon
<1> QED  BY <1>1, <1>5, <1>6, Zenon

(* ImplementsBlockDevice: virtio_disk_rw moves one block, once, between the *)
(* call and the return, whatever the order of the device's answers.         *)
THEOREM VirtioImplementsBlockDevice == Spec => ImplementsBlockDevice
<1>1. Init => Promise!Init
  BY InitImplements, Zenon
<1>2. VInv /\ [Next]_vars => [Promise!Next]_(Promise!vars)
  <2> SUFFICES ASSUME VInv, [Next]_vars PROVE Promise!Next \/ UNCHANGED Promise!vars
    BY Zenon
  <2>1. ASSUME Driver PROVE Promise!Next \/ UNCHANGED Promise!vars
    <3>1. PICK p \in Procs : Request(p) \/ Step(p) \/ Kill(p)
      BY <2>1, Zenon DEF Driver
    <3>2. CASE Request(p)
      BY <3>2, CallImplements, Zenon
    <3>3. CASE Kill(p) \/ Reacquire(p)
      <4>1. UNCHANGED <<disk, data, req, pc, head, status>>
        BY <3>3, Zenon DEF Kill, Reacquire, buffers, procs
      <4> QED  BY <4>1, QuietSteps, Zenon
    <3>4. CASE Alloc(p)
      <4>1. pc[p] = "alloc" /\ UNCHANGED <<disk, data, req>>
        BY <3>4, Zenon DEF Alloc
      <4>2. CASE \E i, j, k \in free : FirstFree(i, j, k) /\ Format(p, i, j, k)
        BY <4>1, <4>2, FormatImplements, Zenon
      <4>3. CASE UNCHANGED <<busy, chains, status, ring, procs>>
        <5>1. UNCHANGED <<pc, head, status>>
          BY <4>3, Zenon DEF procs
        <5> QED  BY <4>1, <5>1, QuietSteps, Zenon
      <4> QED  BY <3>4, <4>2, <4>3, Zenon DEF Alloc
    <3>5. CASE Publish(p)
      BY <3>5, PublishImplements, Zenon
    <3>6. CASE Wait(p)
      BY <3>6, WaitImplements, Zenon
    <3> QED  BY <3>1, <3>2, <3>3, <3>4, <3>5, <3>6, Zenon DEF Step
  <2>2. ASSUME Device PROVE Promise!Next \/ UNCHANGED Promise!vars
    <3>1. CASE Fetch
      <4>1. UNCHANGED <<disk, data, req, pc, head, status>>
        BY <3>1, Zenon DEF Fetch, buffers, procs
      <4> QED  BY <4>1, QuietSteps, Zenon
    <3>2. CASE \E h \in Descs : Complete(h)
      BY <3>2, CompleteImplements, Zenon
    <3> QED  BY <2>2, <3>1, <3>2, Zenon DEF Device
  <2>3. ASSUME IntrBegin \/ IntrStep PROVE UNCHANGED Promise!vars
    <3>1. UNCHANGED <<disk, data, req, pc, head, status>>
      BY <2>3, Zenon DEF IntrBegin, IntrStep, buffers, procs
    <3> QED  BY <3>1, QuietSteps, Zenon
  <2>4. ASSUME UNCHANGED vars PROVE UNCHANGED Promise!vars
    <3>1. UNCHANGED <<disk, data, req, pc, head, status>>
      BY <2>4, Zenon DEF vars
    <3> QED  BY <3>1, QuietSteps, Zenon
  <2> QED  BY <2>1, <2>2, <2>3, <2>4, Zenon DEF Next
<1> QED  BY <1>1, <1>2, DiskInvariance, PTL DEF Spec, ImplementsBlockDevice, Promise!Spec
=============================================================================
