----------------------------- MODULE BioProofs ------------------------------
(***************************************************************************)
(* Proofs about Bio for every finite set of processes and every number of  *)
(* buffers, blocks and values: a process finds in its buffer the block it  *)
(* asked for, the reference counts are exact, no wakeup is lost, and the   *)
(* buffers together with the disk are a BlockCache.                        *)
(***************************************************************************)
EXTENDS Bio, Integers, FiniteSetTheorems, WellFoundedInduction, TLAPS

Pcs == {"idle", "lock", "asleep", "read", "use", "write", "unref",
        "flush_lock", "flush_asleep", "flush_write", "flush_next"}

(* Where a process owns the lock of its buffer, and where it is the user.   *)
Owning == {"read", "use", "write", "flush_write"}
Using == {"use", "write"}
Flushing == {"flush_lock", "flush_asleep", "flush_write", "flush_next"}

(* TypeOK but for the bounds of the reference counts.                       *)
Types ==
  /\ lru \in [Bufs -> Bufs] /\ \A b \in Bufs : \E i \in Bufs : lru[i] = b
  /\ blockno \in [Bufs -> Blocks \cup {None}]
  /\ valid \in [Bufs -> BOOLEAN]
  /\ refcnt \in [Bufs -> Int]
  /\ data \in [Bufs -> Vals]
  /\ locked \in [Bufs -> Procs \cup {None}]
  /\ disk \in [Blocks -> Vals]
  /\ pinned \subseteq Blocks
  /\ pc \in [Procs -> Pcs]
  /\ buf \in [Procs -> Bufs \cup {None}]
  /\ want \in [Procs -> Blocks \cup {None}]
  /\ panicked \in BOOLEAN

(* A process inside a call has a buffer, which carries the block it wants.  *)
Holding ==
  \A p \in Procs :
    /\ pc[p] = "idle" <=> buf[p] = None
    /\ buf[p] # None => want[p] \in Blocks /\ blockno[buf[p]] = want[p]
    /\ pc[p] \in Using \cup Flushing => valid[buf[p]]
    /\ pc[p] = "read" => ~ valid[buf[p]]

(* Who owns the lock of a buffer is where the code says so.                 *)
Locking ==
  /\ \A p \in Procs : pc[p] \in Owning => locked[buf[p]] = p
  /\ \A p \in Procs, b \in Bufs : locked[b] = p => buf[p] = b /\ pc[p] \in Owning

(* A pinned block stays in the cache, and only blocks are valid.            *)
Caching ==
  /\ OneBuffer
  /\ \A k \in pinned : \E b \in Bufs : blockno[b] = k
  /\ \A b \in Bufs : valid[b] => blockno[b] \in Blocks

(* The inductive invariant.                                                 *)
BInv == Types /\ RefcntExact /\ Holding /\ Locking /\ SleepersMustWait /\ Caching

-----------------------------------------------------------------------------
(* Least and greatest elements.                                             *)

(* A set of naturals that is not empty has a least element.                 *)
LEMMA Least == ASSUME NEW T, T \subseteq Nat, T # {} PROVE \E x \in T : \A y \in T : x <= y
<1> DEFINE R == OpToRel(<, Nat)
<1>1. \A x, y \in Nat : <<y, x>> \in R <=> y < x
  BY DEF OpToRel
<1>2. IsWellFoundedOn(R, Nat)
  BY NatLessThanWellFounded, Zenon
<1> HIDE DEF R
<1>3. PICK x \in T : \A y \in T : ~ (<<y, x>> \in R)
  BY <1>2, WFMin, Zenon
<1>4. ASSUME NEW y \in T PROVE x <= y
  <2>1. x \in Nat /\ y \in Nat
    OBVIOUS
  <2>2. ~ (y < x)
    BY <1>1, <1>3, <2>1, Zenon
  <2> QED  BY <2>1, <2>2
<1> QED  BY <1>4

(* A set of buffer numbers that is not empty has a greatest element.        *)
LEMMA Greatest == ASSUME NEW T, T \subseteq Bufs, T # {} PROVE \E x \in T : \A y \in T : y <= x
<1> DEFINE M == {NBUF - i : i \in T}
<1>0. NBUF \in Nat
  BY BioConstants
<1>n. ASSUME NEW i \in T PROVE i \in Int /\ 1 <= i /\ i <= NBUF
  <2>1. i \in Bufs
    OBVIOUS
  <2> QED  BY <1>0, <2>1 DEF Bufs
<1>1. M \subseteq Nat /\ M # {}
  BY <1>0, <1>n
<1>2. PICK m \in M : \A y \in M : m <= y
  BY <1>1, Least, Zenon
<1>3. PICK x \in T : m = NBUF - x
  BY <1>2
<1>4. ASSUME NEW y \in T PROVE y <= x
  <2>1. NBUF - x <= NBUF - y
    BY <1>2, <1>3
  <2> QED  BY <1>0, <1>n, <2>1
<1> QED  BY <1>4

(* bget recycles a buffer without a reference.                              *)
LEMMA VictimFree ==
  ASSUME Types, Reusable # {}
  PROVE  Victim \in Bufs /\ refcnt[Victim] = 0
<1>1. \E i \in Reusable : \A j \in Reusable : j <= i
  BY Greatest, Zenon DEF Reusable
<1> DEFINE c == CHOOSE i \in Reusable : \A j \in Reusable : j <= i
<1>2. c \in Reusable
  BY <1>1
<1>3. Victim = lru[c]
  BY DEF Victim
<1> HIDE DEF c
<1> QED  BY <1>2, <1>3 DEF Reusable, Types

(* flush_all_blocks goes on with a valid buffer.                            *)
LEMMA FlushValid ==
  ASSUME Types, NEW at \in Nat \ {0}, ValidFrom(at) # {}
  PROVE  \E n \in Bufs : /\ n = lru[CHOOSE i \in ValidFrom(at) : \A j \in ValidFrom(at) : i <= j]
                         /\ valid[n]
<1>1. ValidFrom(at) \subseteq Bufs /\ \A j \in ValidFrom(at) : valid[lru[j]]
  BY BioConstants DEF ValidFrom, Bufs
<1>2. \E i \in ValidFrom(at) : \A j \in ValidFrom(at) : i <= j
  BY <1>1, Least DEF Bufs
<1> DEFINE c == CHOOSE i \in ValidFrom(at) : \A j \in ValidFrom(at) : i <= j
<1>3. c \in ValidFrom(at)
  BY <1>2
<1> HIDE DEF c
<1>4. lru[c] \in Bufs /\ valid[lru[c]]
  BY <1>1, <1>3 DEF Types
<1> QED  BY <1>4, Zenon DEF c

(* Every buffer has a place in the list.                                    *)
LEMMA PositionIs ==
  ASSUME Types, NEW b \in Bufs PROVE Position(b) \in Bufs /\ lru[Position(b)] = b
BY DEF Types, Position

(* Moving a buffer to the front keeps all buffers in the list.              *)
LEMMA MoveKeeps ==
  ASSUME Types, NEW b \in Bufs
  PROVE  /\ MoveToFront(b) \in [Bufs -> Bufs]
         /\ \A c \in Bufs : \E i \in Bufs : MoveToFront(b)[i] = c
<1> DEFINE at == Position(b)
<1>0. /\ NBUF \in Nat \ {0} /\ at \in Bufs /\ lru[at] = b /\ lru \in [Bufs -> Bufs]
      /\ MoveToFront(b) = [i \in Bufs |-> IF i = 1 THEN b ELSE IF i <= at THEN lru[i - 1] ELSE lru[i]]
  BY PositionIs, BioConstants DEF Types, MoveToFront
<1> HIDE DEF at
<1>n. \A i : i \in Bufs <=> i \in Int /\ 1 <= i /\ i <= NBUF
  BY <1>0 DEF Bufs
<1>1. MoveToFront(b) \in [Bufs -> Bufs]
  <2>1. \A i \in Bufs : i # 1 => i - 1 \in Bufs
    BY <1>0, <1>n
  <2> QED  BY <1>0, <2>1
<1>2. ASSUME NEW c \in Bufs PROVE \E i \in Bufs : MoveToFront(b)[i] = c
  <2>1. PICK j \in Bufs : lru[j] = c
    BY DEF Types
  <2>2. CASE j = at
    <3>1. 1 \in Bufs /\ MoveToFront(b)[1] = c
      BY <1>0, <1>n, <2>1, <2>2
    <3> QED  BY <3>1
  <2>3. CASE j < at
    <3>1. j + 1 \in Bufs /\ j + 1 # 1 /\ j + 1 <= at /\ (j + 1) - 1 = j
      BY <1>0, <1>n, <2>3
    <3>2. MoveToFront(b)[j + 1] = c
      BY <1>0, <2>1, <3>1
    <3> QED  BY <3>1, <3>2
  <2>4. CASE j > at
    <3>1. j # 1 /\ ~ (j <= at)
      BY <1>0, <1>n, <2>4
    <3>2. MoveToFront(b)[j] = c
      BY <1>0, <2>1, <3>1
    <3> QED  BY <3>2
  <2> QED  BY <1>0, <1>n, <2>2, <2>3, <2>4
<1> QED  BY <1>1, <1>2

-----------------------------------------------------------------------------
(* Counting references.                                                     *)

Users(f, b) == {q \in Procs : f[q] = b}
Pins(b) == IF blockno[b] \in pinned THEN 1 ELSE 0

(* The users of a buffer can be counted.                                    *)
LEMMA UsersCount ==
  ASSUME NEW f, NEW b
  PROVE  /\ IsFiniteSet(Users(f, b))
         /\ Cardinality(Users(f, b)) \in 0..Cardinality(Procs)
<1>1. Users(f, b) \subseteq Procs /\ IsFiniteSet(Procs)
  BY BioConstants DEF Users
<1> HIDE DEF Users
<1>2. /\ IsFiniteSet(Users(f, b)) /\ Cardinality(Users(f, b)) <= Cardinality(Procs)
  BY <1>1, FS_Subset
<1>3. Cardinality(Users(f, b)) \in Nat /\ Cardinality(Procs) \in Nat
  BY <1>1, <1>2, FS_CardinalityType
<1> QED  BY <1>2, <1>3

(* A process goes over from one buffer, or none, to another, or none.       *)
LEMMA UsersMove ==
  ASSUME NEW f, NEW g, NEW p \in Procs, NEW b, \A q \in Procs : q # p => g[q] = f[q]
  PROVE  /\ (g[p] = b <=> f[p] = b) => Cardinality(Users(g, b)) = Cardinality(Users(f, b))
         /\ g[p] = b /\ f[p] # b => Cardinality(Users(g, b)) = Cardinality(Users(f, b)) + 1
         /\ g[p] # b /\ f[p] = b => Cardinality(Users(g, b)) = Cardinality(Users(f, b)) - 1
<1> DEFINE U == Users(f, b)
           V == Users(g, b)
<1>0. IsFiniteSet(U)
  BY UsersCount
<1>1. CASE (g[p] = b) <=> (f[p] = b)
  <2>1. V = U
    BY <1>1 DEF Users
  <2> QED  BY <1>1, <2>1
<1>2. CASE g[p] = b /\ f[p] # b
  <2>1. V = U \cup {p} /\ p \notin U
    BY <1>2 DEF Users
  <2> HIDE DEF U, V
  <2>2. Cardinality(V) = Cardinality(U) + 1
    BY <1>0, <2>1, FS_AddElement, Zenon
  <2> QED  BY <1>2, <2>2 DEF U, V
<1>3. CASE g[p] # b /\ f[p] = b
  <2>1. V = U \ {p} /\ p \in U
    BY <1>3 DEF Users
  <2> HIDE DEF U, V
  <2>2. Cardinality(V) = Cardinality(U) - 1
    BY <1>0, <2>1, FS_RemoveElement
  <2> QED  BY <1>3, <2>2 DEF U, V
<1> QED  BY <1>1, <1>2, <1>3

(* The counts in the words of the lemmas.                                   *)
LEMMA ExactIs ==
  RefcntExact <=> \A b \in Bufs : refcnt[b] = Cardinality(Users(buf, b)) + Pins(b)
BY DEF RefcntExact, Users, Pins

(* Exact counts are within the bounds of TypeOK.                            *)
LEMMA TypesOK == Types /\ RefcntExact => TypeOK
<1> SUFFICES ASSUME Types, RefcntExact PROVE TypeOK
  OBVIOUS
<1>1. ASSUME NEW b \in Bufs PROVE refcnt[b] \in 0..(Cardinality(Procs) + 1)
  <2>1. Cardinality(Users(buf, b)) \in 0..Cardinality(Procs) /\ Cardinality(Procs) \in Nat
    BY UsersCount, BioConstants, FS_CardinalityType
  <2>2. Pins(b) \in 0..1
    BY DEF Pins
  <2>3. refcnt[b] = Cardinality(Users(buf, b)) + Pins(b)
    BY ExactIs
  <2> QED  BY <2>1, <2>2, <2>3
<1>2. refcnt \in [Bufs -> 0..(Cardinality(Procs) + 1)]
  BY <1>1 DEF Types
<1>3. Range(lru) = Bufs
  BY DEF Types, Range
<1> QED  BY <1>2, <1>3 DEF Types, TypeOK, Pcs

(* A buffer without a reference is not in use and not pinned.               *)
LEMMA Unreferenced ==
  ASSUME Types, RefcntExact, NEW b \in Bufs, refcnt[b] = 0
  PROVE  (\A p \in Procs : buf[p] # b) /\ blockno[b] \notin pinned
<1>1. IsFiniteSet(Users(buf, b)) /\ Cardinality(Users(buf, b)) \in Nat
  BY UsersCount, FS_CardinalityType
<1>2. Cardinality(Users(buf, b)) = 0 /\ Pins(b) = 0
  BY <1>1, ExactIs DEF Pins
<1>3. Users(buf, b) = {}
  BY <1>1, <1>2, FS_EmptySet
<1> QED  BY <1>2, <1>3 DEF Users, Pins

(* Nothing is counted differently.                                          *)
LEMMA RefsSame ==
  ASSUME RefcntExact, UNCHANGED <<refcnt, buf, blockno, pinned>> PROVE RefcntExact'
BY DEF RefcntExact

(* Process p goes over to buffer y, and the counts say so.                  *)
Moved(p, y) ==
  /\ buf' = [buf EXCEPT ![p] = y]
  /\ \A b \in Bufs : /\ Pins(b)' = Pins(b)
                     /\ y = b /\ buf[p] # b => refcnt'[b] = refcnt[b] + 1
                     /\ y # b /\ buf[p] = b => refcnt'[b] = refcnt[b] - 1
                     /\ (y = b <=> buf[p] = b) => refcnt'[b] = refcnt[b]

(* The counts follow a process from one buffer to another.                  *)
LEMMA RefsMove ==
  ASSUME Types, RefcntExact, NEW p \in Procs, NEW y \in Bufs \cup {None}, Moved(p, y)
  PROVE  RefcntExact'
<1>1. ASSUME NEW b \in Bufs PROVE refcnt'[b] = Cardinality(Users(buf', b)) + Pins(b)'
  <2>1. refcnt[b] = Cardinality(Users(buf, b)) + Pins(b)
    BY ExactIs
  <2>2. /\ (y = b <=> buf[p] = b) => Cardinality(Users(buf', b)) = Cardinality(Users(buf, b))
        /\ y = b /\ buf[p] # b => Cardinality(Users(buf', b)) = Cardinality(Users(buf, b)) + 1
        /\ y # b /\ buf[p] = b => Cardinality(Users(buf', b)) = Cardinality(Users(buf, b)) - 1
    <3>1. buf'[p] = y /\ \A q \in Procs : q # p => buf'[q] = buf[q]
      BY DEF Types, Moved
    <3> QED  BY ONLY <3>1, p \in Procs, UsersMove
  <2>3. Cardinality(Users(buf, b)) \in Nat /\ Pins(b) \in Nat
    BY UsersCount, FS_CardinalityType DEF Pins
  <2> QED  BY <2>1, <2>2, <2>3 DEF Moved
<1> QED  BY <1>1 DEF RefcntExact, Users, Pins

(* None is no process, buffer or block.                                     *)
LEMMA NoneIs == None \notin Procs /\ None \notin Bufs /\ None \notin Blocks
BY BioConstants DEF Bufs

-----------------------------------------------------------------------------
(* The invariant holds at the start and is kept by every step.              *)

(* binit.                                                                   *)
LEMMA InitInv == Init => BInv
<1> SUFFICES ASSUME Init PROVE BInv
  OBVIOUS
<1> USE NoneIs
<1>1. Types
  <2>0. NBUF \in Nat \ {0}
    BY BioConstants
  <2>1. lru \in [Bufs -> Bufs]
    BY <2>0 DEF Init, Bufs
  <2>2. ASSUME NEW b \in Bufs PROVE \E i \in Bufs : lru[i] = b
    <3>1. NBUF + 1 - b \in Bufs /\ NBUF + 1 - (NBUF + 1 - b) = b
      BY <2>0 DEF Bufs
    <3>2. lru[NBUF + 1 - b] = NBUF + 1 - (NBUF + 1 - b)
      BY <3>1 DEF Init
    <3> QED  BY <3>1, <3>2
  <2>3. /\ blockno \in [Bufs -> Blocks \cup {None}] /\ valid \in [Bufs -> BOOLEAN]
        /\ refcnt \in [Bufs -> Int] /\ data \in [Bufs -> Vals] /\ locked \in [Bufs -> Procs \cup {None}]
    BY DEF Init
  <2>4. /\ pc \in [Procs -> Pcs] /\ buf \in [Procs -> Bufs \cup {None}]
        /\ want \in [Procs -> Blocks \cup {None}]
    BY DEF Init, Pcs
  <2> QED  BY <2>1, <2>2, <2>3, <2>4, Zenon DEF Init, Types
<1>2. RefcntExact
  <2>1. ASSUME NEW b \in Bufs PROVE refcnt[b] = Cardinality(Users(buf, b)) + Pins(b)
    <3>1. Users(buf, b) = {}
      BY DEF Init, Users
    <3>2. Cardinality(Users(buf, b)) = 0
      BY <3>1, FS_EmptySet
    <3> QED  BY <3>2 DEF Init, Pins
  <2> QED  BY <2>1, ExactIs
<1>3. Holding /\ Locking /\ SleepersMustWait /\ Caching
  BY DEF Init, Holding, Locking, SleepersMustWait, Caching, OneBuffer, Owning, Using, Flushing
<1> QED  BY <1>1, <1>2, <1>3 DEF BInv

(* bget finds the block.                                                    *)
LEMMA HitStep ==
  ASSUME BInv, NEW p \in Procs, NEW k \in Blocks, NEW b \in Bufs, pc[p] = "idle", blockno[b] = k,
         refcnt' = [refcnt EXCEPT ![b] = @ + 1], buf' = [buf EXCEPT ![p] = b],
         want' = [want EXCEPT ![p] = k], pc' = [pc EXCEPT ![p] = "lock"],
         UNCHANGED <<blockno, valid, lru, data, locked, disk, pinned, panicked>>
  PROVE  BInv'
<1>0. Types /\ RefcntExact /\ Holding /\ Locking /\ SleepersMustWait /\ Caching
  BY DEF BInv
<1>n. buf[p] = None /\ None \notin Bufs
  BY <1>0, NoneIs DEF Holding
<1>1. Types'
  BY <1>0 DEF Types, Pcs
<1>2. RefcntExact'
  <2>1. Moved(p, b)
    BY <1>0, <1>n DEF Types, Pins, Moved
  <2> QED  BY <1>0, <2>1, RefsMove
<1>3. Holding'
  BY <1>0, <1>n DEF Types, Holding, Using, Flushing
<1>4. Locking'
  BY <1>0, <1>n DEF Types, Locking, Owning
<1>5. SleepersMustWait'
  BY <1>0 DEF Types, SleepersMustWait
<1>6. Caching'
  BY <1>0 DEF Caching, OneBuffer
<1> QED  BY <1>1, <1>2, <1>3, <1>4, <1>5, <1>6 DEF BInv

(* bget recycles a buffer.                                                  *)
LEMMA MissStep ==
  ASSUME BInv, NEW p \in Procs, NEW k \in Blocks, NEW b \in Bufs, pc[p] = "idle",
         refcnt[b] = 0, \A c \in Bufs : blockno[c] # k,
         blockno' = [blockno EXCEPT ![b] = k], valid' = [valid EXCEPT ![b] = FALSE],
         refcnt' = [refcnt EXCEPT ![b] = 1], buf' = [buf EXCEPT ![p] = b],
         want' = [want EXCEPT ![p] = k], pc' = [pc EXCEPT ![p] = "lock"],
         UNCHANGED <<lru, data, locked, disk, pinned, panicked>>
  PROVE  BInv'
<1>0. Types /\ RefcntExact /\ Holding /\ Locking /\ SleepersMustWait /\ Caching
  BY DEF BInv
<1>n. buf[p] = None /\ None \notin Bufs
  BY <1>0, NoneIs DEF Holding
<1>f. (\A q \in Procs : buf[q] # b) /\ blockno[b] \notin pinned /\ k \notin pinned
  BY <1>0, Unreferenced DEF Caching
<1>1. Types'
  BY <1>0 DEF Types, Pcs
<1>2. RefcntExact'
  <2>1. \A c \in Bufs : Pins(c)' = Pins(c)
    BY <1>0, <1>f DEF Pins, Types
  <2>2. Moved(p, b)
    BY <1>0, <1>n, <2>1 DEF Types, Moved
  <2> QED  BY <1>0, <2>2, RefsMove
<1>3. Holding'
  BY <1>0, <1>n, <1>f DEF Types, Holding, Using, Flushing
<1>4. Locking'
  BY <1>0, <1>n, <1>f DEF Types, Locking, Owning
<1>5. SleepersMustWait'
  BY <1>0 DEF Types, SleepersMustWait
<1>6. Caching'
  BY <1>0, <1>f DEF Types, Caching, OneBuffer
<1> QED  BY <1>1, <1>2, <1>3, <1>4, <1>5, <1>6 DEF BInv

(* The first critical section of bget.                                      *)
LEMMA BgetStep == ASSUME BInv, NEW p \in Procs, NEW k \in Blocks, Bget(p, k) PROVE BInv'
<1>1. CASE BgetHit(p, k)
  <2>1. PICK b \in Bufs : /\ blockno[b] = k
                          /\ refcnt' = [refcnt EXCEPT ![b] = @ + 1]
                          /\ buf' = [buf EXCEPT ![p] = b]
                          /\ UNCHANGED <<blockno, valid>>
    BY <1>1, Zenon DEF BgetHit, Cached
  <2> QED  BY <2>1, HitStep, Zenon DEF Bget, Goto
<1>2. CASE BgetMiss(p, k)
  <2>1. Victim \in Bufs /\ refcnt[Victim] = 0
    BY <1>2, VictimFree DEF BInv, BgetMiss
  <2>2. \A c \in Bufs : blockno[c] # k
    BY <1>2 DEF BgetMiss, Cached
  <2> DEFINE b == Victim
  <2>3. /\ blockno' = [blockno EXCEPT ![b] = k] /\ valid' = [valid EXCEPT ![b] = FALSE]
        /\ refcnt' = [refcnt EXCEPT ![b] = 1] /\ buf' = [buf EXCEPT ![p] = b]
    BY <1>2 DEF BgetMiss
  <2> HIDE DEF b
  <2> QED  BY <2>1, <2>2, <2>3, MissStep, Zenon DEF Bget, Goto, b
<1> QED  BY <1>1, <1>2 DEF Bget

(* acquiresleep, of bget and of flush_all_blocks.                           *)
LEMMA AcquireStep ==
  ASSUME BInv, NEW p \in Procs, NEW asleep, NEW owned, AcquireSleep(p, asleep, owned),
         \/ /\ pc[p] = "lock" /\ asleep = "asleep"
            /\ owned = IF valid[buf[p]] THEN "use" ELSE "read"
         \/ pc[p] = "flush_lock" /\ asleep = "flush_asleep" /\ owned = "flush_write",
         UNCHANGED <<lru, blockno, valid, refcnt, data, disk, pinned, buf, want, panicked>>
  PROVE  BInv'
<1>0. Types /\ RefcntExact /\ Holding /\ Locking /\ SleepersMustWait /\ Caching
  BY DEF BInv
<1>b. buf[p] \in Bufs
  BY <1>0 DEF Types, Holding
<1>2. RefcntExact'
  BY <1>0, RefsSame
<1>3. Caching'
  BY <1>0 DEF Caching, OneBuffer
<1>4. CASE locked[buf[p]] # None
  <2>1. pc' = [pc EXCEPT ![p] = asleep] /\ UNCHANGED locked
    BY <1>4 DEF AcquireSleep, Goto
  <2>2. Types'
    BY <1>0, <2>1 DEF Types, Pcs
  <2>3. Holding'
    BY <1>0, <2>1 DEF Types, Holding, Using, Flushing
  <2>4. Locking'
    BY <1>0, <2>1 DEF Types, Locking, Owning
  <2>5. SleepersMustWait'
    BY <1>0, <1>4, <2>1 DEF Types, SleepersMustWait
  <2> QED  BY <1>2, <1>3, <2>2, <2>3, <2>4, <2>5 DEF BInv
<1>5. CASE locked[buf[p]] = None
  <2>1. pc' = [pc EXCEPT ![p] = owned] /\ locked' = [locked EXCEPT ![buf[p]] = p]
    BY <1>5 DEF AcquireSleep, Goto
  <2>o. owned \in Owning
    BY DEF Owning
  <2>2. Types'
    BY <1>0, <2>1, Zenon DEF Types, Pcs
  <2>3. Holding'
    BY <1>0, <2>1 DEF Types, Holding, Using, Flushing
  <2>4. Locking'
    <3>1. \A q \in Procs : pc'[q] \in Owning => locked'[buf'[q]] = q
      BY <1>0, <1>b, <1>5, <2>1, NoneIs DEF Types, Locking
    <3>2. \A q \in Procs, b \in Bufs : locked'[b] = q => buf'[q] = b /\ pc'[q] \in Owning
      BY <1>0, <1>b, <2>1, <2>o DEF Types, Locking
    <3> QED  BY <3>1, <3>2 DEF Locking
  <2>5. SleepersMustWait'
    BY <1>0, <1>b, <2>1, NoneIs DEF Types, SleepersMustWait
  <2> QED  BY <1>2, <1>3, <2>2, <2>3, <2>4, <2>5 DEF BInv
<1> QED  BY <1>4, <1>5

(* bread has read the block.                                                *)
LEMMA ReadStep == ASSUME BInv, NEW p \in Procs, BreadDone(p) PROVE BInv'
<1>0. Types /\ RefcntExact /\ Holding /\ Locking /\ SleepersMustWait /\ Caching
  BY DEF BInv
<1>b. buf[p] \in Bufs /\ want[p] \in Blocks /\ blockno[buf[p]] = want[p] /\ pc[p] = "read"
  BY <1>0 DEF Types, Holding, BreadDone
<1>a. /\ data' = [data EXCEPT ![buf[p]] = disk[blockno[buf[p]]]]
      /\ valid' = [valid EXCEPT ![buf[p]] = TRUE] /\ pc' = [pc EXCEPT ![p] = "use"]
      /\ UNCHANGED <<lru, blockno, refcnt, locked, disk, pinned, buf, want, panicked>>
  BY DEF BreadDone, Goto
<1>1. Types'
  BY <1>0, <1>a, <1>b DEF Types, Pcs
<1>2. RefcntExact'
  BY <1>0, <1>a, RefsSame
<1>3. Holding'
  BY <1>0, <1>a, <1>b DEF Types, Holding, Using, Flushing, Locking, Owning
<1>4. Locking'
  BY <1>0, <1>a, <1>b DEF Types, Locking, Owning
<1>5. SleepersMustWait'
  BY <1>0, <1>a DEF Types, SleepersMustWait
<1>6. Caching'
  BY <1>0, <1>a, <1>b DEF Types, Caching, OneBuffer
<1> QED  BY <1>1, <1>2, <1>3, <1>4, <1>5, <1>6 DEF BInv

(* A caller stores into its buffer.                                         *)
LEMMA ModifyStep == ASSUME BInv, NEW p \in Procs, NEW v \in Vals, Modify(p, v) PROVE BInv'
<1>0. Types /\ RefcntExact /\ Holding /\ Locking /\ SleepersMustWait /\ Caching
  BY DEF BInv
<1>a. /\ pc[p] = "use" /\ data' = [data EXCEPT ![buf[p]] = v]
      /\ UNCHANGED <<lru, blockno, valid, refcnt, locked, disk, pinned, pc, buf, want, panicked>>
  BY DEF Modify
<1>1. Types'
  BY <1>0, <1>a, Zenon DEF Types
<1>2. RefcntExact'
  BY <1>0, <1>a, RefsSame
<1>3. Holding' /\ Locking' /\ SleepersMustWait' /\ Caching'
  BY <1>0, <1>a DEF Holding, Locking, SleepersMustWait, Caching, OneBuffer
<1> QED  BY <1>1, <1>2, <1>3 DEF BInv

(* bwrite, before and after the transfer.                                   *)
LEMMA WriteStep == ASSUME BInv, NEW p \in Procs, Bwrite(p) \/ BwriteDone(p) PROVE BInv'
<1>0. Types /\ RefcntExact /\ Holding /\ Locking /\ SleepersMustWait /\ Caching
  BY DEF BInv
<1>a. /\ \/ pc[p] = "use" /\ pc' = [pc EXCEPT ![p] = "write"] /\ disk' = disk
         \/ /\ pc[p] = "write" /\ pc' = [pc EXCEPT ![p] = "use"]
            /\ disk' = [disk EXCEPT ![blockno[buf[p]]] = data[buf[p]]]
      /\ UNCHANGED <<lru, blockno, valid, refcnt, data, locked, pinned, buf, want, panicked>>
  BY DEF Bwrite, BwriteDone, Goto, cache
<1>b. buf[p] \in Bufs /\ want[p] \in Blocks /\ blockno[buf[p]] = want[p]
  BY <1>0, <1>a DEF Types, Holding
<1>1. Types'
  BY <1>0, <1>a, <1>b DEF Types, Pcs
<1>2. RefcntExact'
  BY <1>0, <1>a, RefsSame
<1>3. Holding'
  BY <1>0, <1>a DEF Types, Holding, Using, Flushing
<1>4. Locking'
  BY <1>0, <1>a DEF Types, Locking, Owning
<1>5. SleepersMustWait'
  BY <1>0, <1>a DEF Types, SleepersMustWait
<1>6. Caching'
  BY <1>0, <1>a DEF Caching, OneBuffer
<1> QED  BY <1>1, <1>2, <1>3, <1>4, <1>5, <1>6 DEF BInv

(* bpin and bunpin.                                                         *)
LEMMA PinStep == ASSUME BInv, NEW p \in Procs, Bpin(p) \/ Bunpin(p) PROVE BInv'
<1>0. Types /\ RefcntExact /\ Holding /\ Locking /\ SleepersMustWait /\ Caching
  BY DEF BInv
<1>a. /\ pc[p] = "use"
      /\ \/ /\ want[p] \notin pinned /\ pinned' = pinned \cup {want[p]}
            /\ refcnt' = [refcnt EXCEPT ![buf[p]] = @ + 1]
         \/ /\ want[p] \in pinned /\ pinned' = pinned \ {want[p]}
            /\ refcnt' = [refcnt EXCEPT ![buf[p]] = @ - 1]
      /\ UNCHANGED <<lru, blockno, valid, data, locked, disk, pc, buf, want, panicked>>
  BY DEF Bpin, Bunpin
<1>b. /\ buf[p] \in Bufs /\ want[p] \in Blocks /\ blockno[buf[p]] = want[p]
      /\ \A c \in Bufs : c # buf[p] => blockno[c] # want[p]
  BY <1>0, <1>a, NoneIs DEF Types, Holding, Caching, OneBuffer
<1>1. Types'
  BY <1>0, <1>a, <1>b DEF Types
<1>2. RefcntExact'
  <2>1. ASSUME NEW c \in Bufs PROVE refcnt'[c] = Cardinality(Users(buf', c)) + Pins(c)'
    <3>1. /\ refcnt[c] = Cardinality(Users(buf, c)) + Pins(c)
          /\ Cardinality(Users(buf, c)) \in Nat /\ buf' = buf
      BY <1>0, <1>a, ExactIs, UsersCount, FS_CardinalityType
    <3>2. refcnt'[c] - refcnt[c] = Pins(c)' - Pins(c) /\ Pins(c)' \in Nat /\ Pins(c) \in Nat
      BY <1>0, <1>a, <1>b DEF Types, Pins
    <3>3. refcnt'[c] \in Int
      BY <1>1 DEF Types
    <3> QED  BY <3>1, <3>2, <3>3
  <2> QED  BY <2>1 DEF RefcntExact, Users, Pins
<1>3. Holding'
  BY <1>0, <1>a DEF Holding
<1>4. Locking'
  BY <1>0, <1>a DEF Locking
<1>5. SleepersMustWait'
  BY <1>0, <1>a DEF SleepersMustWait
<1>6. Caching'
  BY <1>0, <1>a, <1>b DEF Caching, OneBuffer
<1> QED  BY <1>1, <1>2, <1>3, <1>4, <1>5, <1>6 DEF BInv

(* releasesleep, of brelse and of flush_all_blocks.                         *)
LEMMA ReleaseStep ==
  ASSUME BInv, NEW p \in Procs, NEW l, ReleaseSleep(p, l),
         \/ pc[p] = "use" /\ l = "unref" /\ disk' = disk
         \/ /\ pc[p] = "flush_write" /\ l = "flush_next"
            /\ disk' = [disk EXCEPT ![blockno[buf[p]]] = data[buf[p]]],
         UNCHANGED <<lru, blockno, valid, refcnt, data, pinned, buf, want, panicked>>
  PROVE  BInv'
<1>0. Types /\ RefcntExact /\ Holding /\ Locking /\ SleepersMustWait /\ Caching
  BY DEF BInv
<1>b. /\ buf[p] \in Bufs /\ want[p] \in Blocks /\ blockno[buf[p]] = want[p] /\ locked[buf[p]] = p
      /\ \A c \in Bufs : c # buf[p] => blockno[c] # want[p]
  BY <1>0, NoneIs DEF Types, Holding, Caching, OneBuffer, Locking, Owning
<1>l. locked' = [locked EXCEPT ![buf[p]] = None]
  BY DEF ReleaseSleep
<1>p. pc'[p] = l /\ DOMAIN pc' = Procs /\ pc' = [q \in Procs |-> pc'[q]]
  BY DEF ReleaseSleep, Wake
<1>q. ASSUME NEW q \in Procs, q # p
      PROVE  \/ pc'[q] = pc[q] /\ (pc[q] \in {"asleep", "flush_asleep"} => buf[q] # buf[p])
             \/ pc[q] = "asleep" /\ pc'[q] = "lock"
             \/ pc[q] = "flush_asleep" /\ pc'[q] = "flush_lock"
  BY <1>q DEF ReleaseSleep, Wake
<1>1. Types'
  <2>1. \A q \in Procs : pc'[q] \in Pcs
    BY <1>0, <1>p, <1>q DEF Types, Pcs
  <2>2. pc' \in [Procs -> Pcs]
    BY <1>p, <2>1
  <2> QED  BY <1>0, <1>b, <1>l, <2>2 DEF Types
<1>2. RefcntExact'
  BY <1>0, RefsSame
<1>3. Holding'
  BY <1>0, <1>p, <1>q DEF Holding, Using, Flushing
<1>4. Locking'
  <2>1. ASSUME NEW q \in Procs, pc'[q] \in Owning PROVE locked'[buf'[q]] = q
    BY <1>0, <1>b, <1>l, <1>p, <1>q, <2>1 DEF Types, Locking, Owning
  <2>2. ASSUME NEW q \in Procs, NEW b \in Bufs, locked'[b] = q PROVE buf'[q] = b /\ pc'[q] \in Owning
    <3>1. b # buf[p] /\ locked[b] = q
      BY <1>0, <1>b, <1>l, <2>2, NoneIs DEF Types
    <3>2. buf[q] = b /\ pc[q] \in Owning /\ q # p
      BY <1>0, <3>1 DEF Locking
    <3> QED  BY <1>q, <3>2 DEF Owning
  <2> QED  BY <2>1, <2>2 DEF Locking
<1>5. SleepersMustWait'
  BY <1>0, <1>b, <1>l, <1>p, <1>q DEF Types, SleepersMustWait
<1>6. Caching'
  BY <1>0 DEF Caching, OneBuffer
<1> QED  BY <1>1, <1>2, <1>3, <1>4, <1>5, <1>6 DEF BInv

(* The second critical section of brelse.                                   *)
LEMMA UnrefStep == ASSUME BInv, NEW p \in Procs, BrelseUnref(p) PROVE BInv'
<1>0. Types /\ RefcntExact /\ Holding /\ Locking /\ SleepersMustWait /\ Caching
  BY DEF BInv
<1>a. /\ pc[p] = "unref" /\ refcnt' = [refcnt EXCEPT ![buf[p]] = @ - 1]
      /\ lru' = lru \/ lru' = MoveToFront(buf[p])
      /\ buf' = [buf EXCEPT ![p] = None] /\ want' = [want EXCEPT ![p] = None]
      /\ pc' = [pc EXCEPT ![p] = "idle"]
      /\ UNCHANGED <<blockno, valid, data, locked, disk, pinned, panicked>>
  BY DEF BrelseUnref, Goto
<1>b. buf[p] \in Bufs
  BY <1>0, <1>a DEF Types, Holding
<1>1. Types'
  <2>1. lru' \in [Bufs -> Bufs] /\ \A b \in Bufs : \E i \in Bufs : lru'[i] = b
    <3> DEFINE m == MoveToFront(buf[p])
    <3>1. m \in [Bufs -> Bufs] /\ \A b \in Bufs : \E i \in Bufs : m[i] = b
      BY <1>0, <1>b, MoveKeeps, Zenon
    <3>2. lru' = lru \/ lru' = m
      BY <1>a
    <3> HIDE DEF m
    <3>3. CASE lru' = lru
      BY <1>0, <3>3 DEF Types
    <3>4. CASE lru' = m
      BY <3>1, <3>4
    <3> QED  BY <3>2, <3>3, <3>4
  <2>2. refcnt' \in [Bufs -> Int] /\ pc' \in [Procs -> Pcs]
    BY <1>0, <1>a, <1>b DEF Types, Pcs
  <2>3. buf' \in [Procs -> Bufs \cup {None}] /\ want' \in [Procs -> Blocks \cup {None}]
    BY <1>0, <1>a DEF Types
  <2> QED  BY <1>0, <1>a, <2>1, <2>2, <2>3 DEF Types
<1>2. RefcntExact'
  <2>1. Moved(p, None)
    BY <1>0, <1>a, <1>b, NoneIs DEF Types, Pins, Moved
  <2> QED  BY <1>0, <2>1, RefsMove
<1>3. Holding'
  BY <1>0, <1>a DEF Types, Holding, Using, Flushing
<1>4. Locking'
  BY <1>0, <1>a DEF Types, Locking, Owning
<1>5. SleepersMustWait'
  BY <1>0, <1>a DEF Types, SleepersMustWait
<1>6. Caching'
  BY <1>0, <1>a DEF Caching, OneBuffer
<1> QED  BY <1>1, <1>2, <1>3, <1>4, <1>5, <1>6 DEF BInv

(* flush_all_blocks goes on to the next valid buffer, or ends.              *)
LEMMA FlushStep ==
  ASSUME BInv, NEW p \in Procs, NEW at \in Nat \ {0}, NEW drop, FlushTo(p, at, drop),
         \/ pc[p] = "idle" /\ drop = {}
         \/ pc[p] = "flush_next" /\ drop = {buf[p]},
         UNCHANGED <<lru, blockno, valid, data, locked, disk, pinned, panicked>>
  PROVE  BInv'
<1>0. Types /\ RefcntExact /\ Holding /\ Locking /\ SleepersMustWait /\ Caching
  BY DEF BInv
<1>d. ASSUME NEW c \in Bufs PROVE c \in drop <=> buf[p] = c
  <2>1. CASE pc[p] = "idle" /\ drop = {}
    <3>1. buf[p] = None
      BY <1>0, <2>1 DEF Holding
    <3> QED  BY <2>1, <3>1, NoneIs
  <2>2. CASE drop = {buf[p]}
    BY <2>2
  <2> QED  BY <2>1, <2>2
<1> DEFINE Goes(y, w, l) ==
             /\ Moved(p, y) /\ want' = [want EXCEPT ![p] = w] /\ pc' = [pc EXCEPT ![p] = l]
             /\ refcnt' \in [Bufs -> Int] /\ buf' = [buf EXCEPT ![p] = y]
             /\ \/ y = None /\ l = "idle"
                \/ y \in Bufs /\ l = "flush_lock" /\ valid[y] /\ w = blockno[y] /\ w \in Blocks
<1>y. PICK y \in Bufs \cup {None}, w \in Blocks \cup {None}, l \in {"idle", "flush_lock"} : Goes(y, w, l)
  <2>1. CASE ValidFrom(at) = {}
    <3>1. /\ refcnt' = [b \in Bufs |-> IF b \in drop THEN refcnt[b] - 1 ELSE refcnt[b]]
          /\ buf' = [buf EXCEPT ![p] = None] /\ want' = [want EXCEPT ![p] = None]
          /\ pc' = [pc EXCEPT ![p] = "idle"]
      BY <2>1 DEF FlushTo, Goto
    <3>2. refcnt' \in [Bufs -> Int]
      BY <1>0, <3>1 DEF Types
    <3>3. Moved(p, None)
      BY <1>0, <1>d, <3>1, NoneIs DEF Types, Pins, Moved
    <3>4. Goes(None, None, "idle")
      BY <3>1, <3>2, <3>3
    <3> HIDE DEF Goes
    <3> QED  BY <3>4
  <2>2. CASE ValidFrom(at) # {}
    <3>1. PICK n \in Bufs : /\ n = lru[CHOOSE i \in ValidFrom(at) : \A j \in ValidFrom(at) : i <= j]
                            /\ valid[n]
      BY <1>0, <2>2, FlushValid
    <3>2. /\ refcnt' = [b \in Bufs |-> refcnt[b] + (IF b = n THEN 1 ELSE 0)
                                                 - (IF b \in drop THEN 1 ELSE 0)]
          /\ buf' = [buf EXCEPT ![p] = n] /\ want' = [want EXCEPT ![p] = blockno[n]]
          /\ pc' = [pc EXCEPT ![p] = "flush_lock"]
      BY <2>2, <3>1, Zenon DEF FlushTo, Goto
    <3>3. refcnt' \in [Bufs -> Int]
      BY <1>0, <3>2 DEF Types
    <3>4. Moved(p, n)
      <4>1. ASSUME NEW c \in Bufs
            PROVE  /\ n = c /\ buf[p] # c => refcnt'[c] = refcnt[c] + 1
                   /\ n # c /\ buf[p] = c => refcnt'[c] = refcnt[c] - 1
                   /\ (n = c <=> buf[p] = c) => refcnt'[c] = refcnt[c]
        <5>1. refcnt[c] \in Int /\ (c \in drop <=> buf[p] = c)
          BY <1>0, <1>d DEF Types
        <5>2. refcnt'[c] = refcnt[c] + (IF c = n THEN 1 ELSE 0) - (IF c \in drop THEN 1 ELSE 0)
          BY ONLY <3>2, c \in Bufs
        <5> QED  BY <5>1, <5>2
      <4>2. \A c \in Bufs : Pins(c)' = Pins(c)
        BY Zenon DEF Pins
      <4> QED  BY <3>2, <4>1, <4>2 DEF Moved
    <3>5. blockno[n] \in Blocks
      BY <1>0, <3>1 DEF Caching
    <3>6. Goes(n, blockno[n], "flush_lock")
      BY <3>1, <3>2, <3>3, <3>4, <3>5
    <3> HIDE DEF Goes
    <3> QED  BY <3>5, <3>6
  <2> QED  BY <2>1, <2>2
<1>1. Types'
  BY <1>0, <1>y DEF Types, Pcs
<1>2. RefcntExact'
  BY <1>0, <1>y, RefsMove
<1>3. Holding'
  BY <1>0, <1>y, NoneIs DEF Types, Holding, Using, Flushing
<1>4. Locking'
  BY <1>0, <1>y DEF Types, Locking, Owning
<1>5. SleepersMustWait'
  BY <1>0, <1>y DEF Types, SleepersMustWait
<1>6. Caching'
  BY <1>0 DEF Caching, OneBuffer
<1> QED  BY <1>1, <1>2, <1>3, <1>4, <1>5, <1>6 DEF BInv

(* A step that changes nothing, or panics.                                  *)
LEMMA IdleStep ==
  ASSUME BInv, panicked' \in BOOLEAN,
         UNCHANGED <<lru, blockno, valid, refcnt, data, locked, disk, pinned, pc, buf, want>>
  PROVE  BInv'
<1>0. Types /\ RefcntExact /\ Holding /\ Locking /\ SleepersMustWait /\ Caching
  BY DEF BInv
<1>1. Types'
  BY <1>0 DEF Types
<1>2. RefcntExact'
  BY <1>0, RefsSame
<1>3. Holding'
  BY <1>0 DEF Holding
<1>4. Locking'
  BY <1>0 DEF Locking
<1>5. SleepersMustWait'
  BY <1>0 DEF SleepersMustWait
<1>6. Caching'
  BY <1>0 DEF Caching, OneBuffer
<1> QED  BY <1>1, <1>2, <1>3, <1>4, <1>5, <1>6 DEF BInv

(* Every step keeps the invariant.                                          *)
LEMMA StepInv == BInv /\ [Next]_vars => BInv'
<1> SUFFICES ASSUME BInv, [Next]_vars PROVE BInv'
  OBVIOUS
<1>1. CASE UNCHANGED vars
  <2>1. panicked \in BOOLEAN
    BY DEF BInv, Types
  <2> QED  BY <1>1, <2>1, IdleStep DEF vars
<1>2. ASSUME NEW p \in Procs, NEW k \in Blocks, BgetPanic(p, k) PROVE BInv'
  BY <1>2, IdleStep DEF BgetPanic, cache
<1>3. ASSUME NEW p \in Procs, BgetLock(p) \/ FlushLock(p) PROVE BInv'
  <2>1. CASE BgetLock(p)
    BY <2>1, AcquireStep DEF BgetLock
  <2>2. CASE FlushLock(p)
    BY <2>2, AcquireStep DEF FlushLock
  <2> QED  BY <1>3, <2>1, <2>2
<1>4. ASSUME NEW p \in Procs, Brelse(p) \/ FlushWrite(p) PROVE BInv'
  <2>1. CASE Brelse(p)
    BY <2>1, ReleaseStep DEF Brelse
  <2>2. CASE FlushWrite(p)
    BY <2>2, ReleaseStep, Zenon DEF FlushWrite
  <2> QED  BY <1>4, <2>1, <2>2
<1>5. ASSUME NEW p \in Procs, Flush(p) \/ FlushNext(p) PROVE BInv'
  <2>1. CASE Flush(p)
    <3>1. 1 \in Nat \ {0} /\ FlushTo(p, 1, {}) /\ pc[p] = "idle"
      BY <2>1 DEF Flush
    <3> QED  BY <2>1, <3>1, FlushStep DEF Flush
  <2>2. CASE FlushNext(p)
    <3>1. buf[p] \in Bufs
      BY <2>2 DEF FlushNext, BInv, Types, Holding
    <3>2. Position(buf[p]) + 1 \in Nat \ {0}
      BY <3>1, PositionIs DEF BInv, Bufs
    <3> QED  BY <2>2, <3>2, FlushStep DEF FlushNext
  <2> QED  BY <1>5, <2>1, <2>2
<1> QED  BY <1>1, <1>2, <1>3, <1>4, <1>5, BgetStep, ReadStep, ModifyStep, WriteStep, PinStep, UnrefStep
            DEF Next, Step

(* The invariant holds in every reachable state.                            *)
THEOREM Invariance == Spec => []BInv
BY InitInv, StepInv, PTL DEF Spec

(* bio.c:60-85. A process that slept for a buffer finds in it the block it  *)
(* asked for, and no block is ever in two buffers, for any number of        *)
(* processes and buffers.                                                   *)
THEOREM BlocksSafe == Spec => []SameBlock
<1>1. BInv => SameBlock
  BY TypesOK DEF BInv, SameBlock, Holding, Caching
<1> QED  BY <1>1, Invariance, PTL

(* bio.c:65, 80, 121, 138, 145, 158, 168. The reference counts are exact,   *)
(* so a buffer is recycled when, and only when, nobody uses or pins it.     *)
THEOREM RefcntsSafe == Spec => []RefcntExact
<1>1. BInv => RefcntExact
  BY DEF BInv
<1> QED  BY <1>1, Invariance, PTL

(* sleeplock.c:16-32. No process sleeps for the lock of a buffer that is    *)
(* free.                                                                    *)
THEOREM NoLostWakeup == Spec => []SleepersMustWait
<1>1. BInv => SleepersMustWait
  BY DEF BInv
<1> QED  BY <1>1, Invariance, PTL

-----------------------------------------------------------------------------
(* The buffers and the disk together are a BlockCache.                      *)

(* What the definitions of content and user mean under the invariant.       *)
Mapping ==
  /\ content = [k \in Blocks |-> content[k]]
  /\ \A k \in Blocks, b \in Bufs : blockno[b] = k /\ valid[b] => content[k] = data[b]
  /\ \A k \in Blocks : (\A b \in Bufs : ~ (blockno[b] = k /\ valid[b])) => content[k] = disk[k]
  /\ user = [k \in Blocks |-> user[k]]
  /\ \A k \in Blocks, p \in Procs : pc[p] \in Using /\ want[p] = k => user[k] = p
  /\ \A k \in Blocks : (\A p \in Procs : ~ (pc[p] \in Using /\ want[p] = k)) => user[k] = None

(* A block has one buffer, hence one user.                                  *)
LEMMA OneUser ==
  ASSUME BInv, NEW p \in Procs, NEW q \in Procs, pc[p] \in Using, pc[q] \in Using, want[p] = want[q]
  PROVE  p = q
<1>1. /\ buf[p] \in Bufs /\ buf[q] \in Bufs
      /\ blockno[buf[p]] = want[p] /\ blockno[buf[q]] = want[p] /\ want[p] \in Blocks
  BY DEF BInv, Types, Holding, Using
<1>2. buf[p] = buf[q]
  BY <1>1, NoneIs DEF BInv, Caching, OneBuffer
<1> QED  BY <1>2 DEF BInv, Locking, Using, Owning

(* The mapping in every state of the invariant.                             *)
LEMMA MappingIs == BInv => Mapping
<1> SUFFICES ASSUME BInv PROVE Mapping
  OBVIOUS
<1>1. content = [k \in Blocks |-> content[k]] /\ user = [k \in Blocks |-> user[k]]
  BY DEF content, user
<1>2. ASSUME NEW k \in Blocks, NEW b \in Bufs, blockno[b] = k, valid[b] PROVE content[k] = data[b]
  <2>1. \A c \in Bufs : blockno[c] = k /\ valid[c] => c = b
    BY <1>2, NoneIs DEF BInv, Caching, OneBuffer
  <2> DEFINE d == CHOOSE c \in Bufs : blockno[c] = k /\ valid[c]
  <2>2. d = b
    BY <1>2, <2>1
  <2>3. content[k] = data[d]
    BY <1>2 DEF content
  <2> QED  BY <2>2, <2>3, Zenon
<1>3. ASSUME NEW k \in Blocks, \A b \in Bufs : ~ (blockno[b] = k /\ valid[b])
      PROVE  content[k] = disk[k]
  BY <1>3 DEF content
<1>4. ASSUME NEW k \in Blocks, NEW p \in Procs, pc[p] \in Using, want[p] = k PROVE user[k] = p
  <2>1. \A q \in Procs : pc[q] \in Using /\ want[q] = k => q = p
    BY <1>4, OneUser
  <2> DEFINE d == CHOOSE q \in Procs : pc[q] \in Using /\ want[q] = k
  <2>2. d = p
    BY <1>4, <2>1
  <2>3. user[k] = d
    BY <1>4 DEF user, Using
  <2> QED  BY <2>2, <2>3
<1>5. ASSUME NEW k \in Blocks, \A p \in Procs : ~ (pc[p] \in Using /\ want[p] = k) PROVE user[k] = None
  BY <1>5 DEF user, Using
<1> QED  BY <1>1, <1>2, <1>3, <1>4, <1>5 DEF Mapping

(* The same after a step.                                                   *)
LEMMA MappingNext == BInv' => Mapping'
<1>1. (BInv => Mapping)'
  BY MappingIs, PTL
<1> QED  BY <1>1

(* A step that leaves the contents of buffers and disk alone.               *)
LEMMA SameContent == ASSUME UNCHANGED <<blockno, valid, data, disk>> PROVE content' = content
BY DEF content

(* A step after which the same processes use the same blocks.               *)
SameUsers ==
  \A q \in Procs : /\ pc'[q] \in Using <=> pc[q] \in Using
                   /\ pc[q] \in Using => want'[q] = want[q]

(* A step that changes nothing BlockCache shows.                            *)
Same == content' = content /\ user' = user /\ UNCHANGED <<disk, pinned>>

(* The users of the blocks stay the same.                                   *)
LEMMA SameUser ==
  ASSUME BInv, BInv', SameUsers
  PROVE  user' = user
<1>0. Mapping /\ Mapping'
  BY MappingIs, MappingNext
<1>1. ASSUME NEW k \in Blocks PROVE user'[k] = user[k]
  <2>1. CASE \E p \in Procs : pc[p] \in Using /\ want[p] = k
    BY <1>0, <2>1 DEF Mapping, SameUsers
  <2>2. CASE \A p \in Procs : ~ (pc[p] \in Using /\ want[p] = k)
    BY <1>0, <2>2 DEF Mapping, SameUsers
  <2> QED  BY <2>1, <2>2
<1>2. user = [k \in Blocks |-> user[k]] /\ user' = [k \in Blocks |-> user'[k]]
  BY <1>0 DEF Mapping
<1> QED  BY <1>1, <1>2

(* A process that owns the lock of its buffer becomes the user of its       *)
(* block, which had none.                                                   *)
LEMMA Becomes ==
  ASSUME BInv, BInv', NEW p \in Procs, pc[p] \notin Using \cup {"idle"}, pc'[p] \in Using,
         \A q \in Procs : q # p => pc'[q] = pc[q],
         UNCHANGED <<want, buf, disk, pinned>>, locked[buf[p]] \in {None, p}, content' = content
  PROVE  \E k \in Blocks : BC!Bread(p, k)
<1>0. Mapping /\ Mapping' /\ Types /\ Holding /\ Locking /\ Caching
  BY MappingIs, MappingNext DEF BInv
<1> DEFINE k == want[p]
<1>1. buf[p] \in Bufs /\ k \in Blocks /\ blockno[buf[p]] = k
  BY <1>0 DEF Types, Holding
<1>2. ASSUME NEW q \in Procs, pc[q] \in Using, want[q] = k PROVE FALSE
  <2>1. buf[q] \in Bufs /\ blockno[buf[q]] = k /\ q # p
    BY <1>0, <1>2 DEF Types, Holding, Using
  <2>2. buf[q] = buf[p]
    BY <1>0, <1>1, <2>1, NoneIs DEF Caching, OneBuffer
  <2>3. locked[buf[p]] = q
    BY <1>0, <1>2, <2>2 DEF Locking, Using, Owning
  <2> QED  BY <2>1, <2>3, NoneIs
<1>3. user[k] = None
  BY <1>0, <1>1, <1>2 DEF Mapping
<1>4. user'[k] = p
  BY <1>0, <1>1 DEF Mapping
<1>5. ASSUME NEW j \in Blocks, j # k PROVE user'[j] = user[j]
  <2>1. CASE \E q \in Procs : pc[q] \in Using /\ want[q] = j
    BY <1>0, <1>5, <2>1 DEF Mapping
  <2>2. CASE \A q \in Procs : ~ (pc[q] \in Using /\ want[q] = j)
    BY <1>0, <1>5, <2>2 DEF Mapping
  <2> QED  BY <2>1, <2>2
<1>6. user = [j \in Blocks |-> user[j]] /\ user' = [j \in Blocks |-> user'[j]]
  BY <1>0 DEF Mapping
<1>7. user' = [user EXCEPT ![k] = p]
  BY <1>1, <1>4, <1>5, <1>6
<1> QED  BY <1>1, <1>3, <1>7, Zenon DEF BC!Bread

(* brelse ends the use of a block.                                          *)
LEMMA Ends ==
  ASSUME BInv, BInv', NEW p \in Procs, Brelse(p)
  PROVE  \E k \in Blocks : BC!Brelse(p, k)
<1>0. Mapping /\ Mapping' /\ Types /\ Holding
  BY MappingIs, MappingNext DEF BInv
<1>a. pc[p] = "use" /\ UNCHANGED <<want, disk, pinned>> /\ content' = content
  BY SameContent DEF Brelse
<1>p. pc'[p] = "unref" /\ \A q \in Procs : q # p => (pc'[q] \in Using <=> pc[q] \in Using)
  BY DEF Brelse, ReleaseSleep, Wake, Using
<1> DEFINE k == want[p]
<1>1. k \in Blocks
  BY <1>0, <1>a DEF Types, Holding
<1>2. user[k] = p
  BY <1>0, <1>1, <1>a DEF Mapping, Using
<1>3. ASSUME NEW q \in Procs, pc'[q] \in Using, want'[q] = k PROVE FALSE
  <2>1. q # p /\ pc[q] \in Using /\ want[q] = k
    BY <1>a, <1>p, <1>3 DEF Using
  <2> QED  BY <1>a, <2>1, OneUser DEF Using
<1>4. user'[k] = None
  BY <1>0, <1>1, <1>3 DEF Mapping
<1>5. ASSUME NEW j \in Blocks, j # k PROVE user'[j] = user[j]
  <2>1. CASE \E q \in Procs : pc[q] \in Using /\ want[q] = j
    <3>1. PICK q \in Procs : pc[q] \in Using /\ want[q] = j
      BY <2>1
    <3>2. pc'[q] \in Using /\ want'[q] = j
      BY <1>a, <1>p, <1>5, <3>1
    <3> QED  BY <1>0, <3>1, <3>2 DEF Mapping
  <2>2. CASE \A q \in Procs : ~ (pc[q] \in Using /\ want[q] = j)
    <3>1. \A q \in Procs : ~ (pc'[q] \in Using /\ want'[q] = j)
      BY <1>a, <1>p, <2>2 DEF Using
    <3> QED  BY <1>0, <2>2, <3>1 DEF Mapping
  <2> QED  BY <2>1, <2>2
<1>6. user = [j \in Blocks |-> user[j]] /\ user' = [j \in Blocks |-> user'[j]]
  BY <1>0 DEF Mapping
<1>7. user' = [user EXCEPT ![k] = None]
  BY <1>1, <1>4, <1>5, <1>6
<1> QED  BY <1>1, <1>2, <1>7, <1>a, Zenon DEF BC!Brelse

(* Contents that agree block by block agree.                                *)
LEMMA ContentEqual ==
  ASSUME Mapping, Mapping', \A k \in Blocks : content'[k] = content[k] PROVE content' = content
BY DEF Mapping

(* Recycling a buffer forgets a block that nobody uses and that is not      *)
(* pinned.                                                                  *)
LEMMA BgetMaps ==
  ASSUME BInv, BInv', NEW p \in Procs, NEW k \in Blocks, Bget(p, k)
  PROVE  (\E j \in Blocks : BC!Forget(j)) \/ Same
<1>0. Mapping /\ Mapping' /\ Types /\ Holding /\ RefcntExact /\ Caching
  BY MappingIs, MappingNext DEF BInv
<1>a. /\ pc[p] = "idle" /\ pc' = [pc EXCEPT ![p] = "lock"] /\ want' = [want EXCEPT ![p] = k]
      /\ UNCHANGED <<data, disk, pinned>>
  BY DEF Bget, Goto
<1>u. user' = user
  <2>1. SameUsers
    BY <1>0, <1>a DEF Types, Using, SameUsers
  <2> QED  BY <2>1, SameUser
<1>1. CASE BgetHit(p, k)
  BY <1>1, <1>a, <1>u, SameContent DEF BgetHit, Same
<1>2. CASE BgetMiss(p, k)
  <2> DEFINE v == Victim
  <2>1. v \in Bufs /\ refcnt[v] = 0
    BY <1>0, <1>2, VictimFree DEF BgetMiss
  <2>2. blockno' = [blockno EXCEPT ![v] = k] /\ valid' = [valid EXCEPT ![v] = FALSE]
    BY <1>2 DEF BgetMiss
  <2> HIDE DEF v
  <2>3. (\A q \in Procs : buf[q] # v) /\ blockno[v] \notin pinned
    BY <1>0, <2>1, Unreferenced
  <2>4. ASSUME NEW j \in Blocks, valid[v] => blockno[v] # j PROVE content'[j] = content[j]
    <3>1. CASE \E b \in Bufs : blockno[b] = j /\ valid[b]
      <4>1. PICK b \in Bufs : blockno[b] = j /\ valid[b]
        BY <3>1
      <4>2. blockno'[b] = j /\ valid'[b] /\ data'[b] = data[b]
        BY <1>0, <1>a, <2>2, <2>4, <4>1 DEF Types
      <4> QED  BY <1>0, <4>1, <4>2 DEF Mapping
    <3>2. CASE \A b \in Bufs : ~ (blockno[b] = j /\ valid[b])
      <4>1. \A b \in Bufs : ~ (blockno'[b] = j /\ valid'[b])
        BY <1>0, <2>2, <3>2 DEF Types
      <4> QED  BY <1>0, <1>a, <3>2, <4>1 DEF Mapping
    <3> QED  BY <3>1, <3>2
  <2>5. CASE ~ valid[v]
    <3>1. content' = content
      BY <1>0, <2>4, <2>5, ContentEqual
    <3> QED  BY <1>a, <1>u, <3>1 DEF Same
  <2>6. CASE valid[v]
    <3> DEFINE j == blockno[v]
    <3>1. j \in Blocks
      BY <1>0, <2>1, <2>6 DEF Caching
    <3>2. user[j] = None
      <4>1. ASSUME NEW q \in Procs, pc[q] \in Using, want[q] = j PROVE FALSE
        <5>1. buf[q] \in Bufs /\ blockno[buf[q]] = j
          BY <1>0, <4>1 DEF Types, Holding, Using
        <5> QED  BY <1>0, <2>1, <2>3, <3>1, <5>1, NoneIs DEF Caching, OneBuffer
      <4> QED  BY <1>0, <3>1, <4>1 DEF Mapping
    <3>3. content'[j] = disk[j]
      <4>1. \A b \in Bufs : blockno[b] = j => b = v
        BY <1>0, <2>1, <3>1, NoneIs DEF Caching, OneBuffer
      <4>2. \A b \in Bufs : ~ (blockno'[b] = j /\ valid'[b])
        BY <1>0, <2>2, <4>1 DEF Types
      <4> QED  BY <1>0, <1>a, <3>1, <4>2 DEF Mapping
    <3>4. \A i \in Blocks : i # j => content'[i] = content[i]
      BY <2>4
    <3>5. content = [i \in Blocks |-> content[i]] /\ content' = [i \in Blocks |-> content'[i]]
      BY <1>0 DEF Mapping
    <3> HIDE DEF j
    <3>6. content' = [content EXCEPT ![j] = disk[j]]
      BY <3>1, <3>3, <3>4, <3>5
    <3>7. j \notin pinned
      BY <2>3 DEF j
    <3>8. BC!Forget(j)
      BY <1>a, <1>u, <3>2, <3>6, <3>7, Zenon DEF BC!Forget
    <3> QED  BY <3>1, <3>8
  <2> QED  BY <2>5, <2>6
<1> QED  BY <1>1, <1>2 DEF Bget

(* Reading a block into its buffer changes no content.                      *)
LEMMA ReadContent == ASSUME BInv, BInv', NEW p \in Procs, BreadDone(p) PROVE content' = content
<1>0. Mapping /\ Mapping' /\ Types /\ Holding /\ Caching
  BY MappingIs, MappingNext DEF BInv
<1>a. /\ data' = [data EXCEPT ![buf[p]] = disk[blockno[buf[p]]]]
      /\ valid' = [valid EXCEPT ![buf[p]] = TRUE] /\ UNCHANGED <<blockno, disk>>
  BY DEF BreadDone
<1>b. buf[p] \in Bufs /\ blockno[buf[p]] \in Blocks /\ ~ valid[buf[p]]
  BY <1>0 DEF Types, Holding, BreadDone
<1>1. \A c \in Bufs : blockno[c] = blockno[buf[p]] => c = buf[p]
  BY <1>0, <1>b, NoneIs DEF Caching, OneBuffer
<1>2. ASSUME NEW j \in Blocks PROVE content'[j] = content[j]
  <2>1. CASE j = blockno[buf[p]]
    <3>1. content[j] = disk[j]
      BY <1>0, <1>b, <1>1, <2>1 DEF Mapping
    <3>2. blockno'[buf[p]] = j /\ valid'[buf[p]] /\ data'[buf[p]] = disk[j]
      BY <1>0, <1>a, <1>b, <2>1 DEF Types
    <3> QED  BY <1>0, <1>b, <3>1, <3>2 DEF Mapping
  <2>2. CASE j # blockno[buf[p]]
    <3>1. CASE \E b \in Bufs : blockno[b] = j /\ valid[b]
      <4>1. PICK b \in Bufs : blockno[b] = j /\ valid[b]
        BY <3>1
      <4>2. blockno'[b] = j /\ valid'[b] /\ data'[b] = data[b]
        BY <1>0, <1>a, <2>2, <4>1 DEF Types
      <4> QED  BY <1>0, <4>1, <4>2 DEF Mapping
    <3>2. CASE \A b \in Bufs : ~ (blockno[b] = j /\ valid[b])
      <4>1. \A b \in Bufs : ~ (blockno'[b] = j /\ valid'[b])
        BY <1>0, <1>a, <2>2, <3>2 DEF Types
      <4> QED  BY <1>0, <1>a, <3>2, <4>1 DEF Mapping
    <3> QED  BY <3>1, <3>2
  <2> QED  BY <2>1, <2>2
<1> QED  BY <1>0, <1>2, ContentEqual

(* Writing a valid buffer to the disk changes no content.                   *)
LEMMA WriteContent ==
  ASSUME BInv, BInv', NEW p \in Procs, pc[p] \in {"write", "flush_write"},
         disk' = [disk EXCEPT ![blockno[buf[p]]] = data[buf[p]]], UNCHANGED <<blockno, valid, data>>
  PROVE  content' = content
<1>0. Mapping /\ Mapping' /\ Types /\ Holding
  BY MappingIs, MappingNext DEF BInv
<1>b. buf[p] \in Bufs /\ blockno[buf[p]] \in Blocks /\ valid[buf[p]]
  BY <1>0 DEF Types, Holding, Using, Flushing
<1>1. ASSUME NEW j \in Blocks PROVE content'[j] = content[j]
  <2>1. CASE \E b \in Bufs : blockno[b] = j /\ valid[b]
    BY <1>0, <2>1 DEF Mapping
  <2>2. CASE \A b \in Bufs : ~ (blockno[b] = j /\ valid[b])
    <3>1. disk'[j] = disk[j]
      BY <1>0, <1>b, <2>2 DEF Types
    <3> QED  BY <1>0, <2>2, <3>1 DEF Mapping
  <2> QED  BY <2>1, <2>2
<1> QED  BY <1>0, <1>1, ContentEqual

(* A store into a buffer changes the content of its block.                  *)
LEMMA ModifyMaps ==
  ASSUME BInv, BInv', NEW p \in Procs, NEW v \in Vals, Modify(p, v)
  PROVE  \E k \in Blocks : BC!Store(p, k)
<1>0. Mapping /\ Mapping' /\ Types /\ Holding /\ Caching
  BY MappingIs, MappingNext DEF BInv
<1>a. /\ pc[p] = "use" /\ data' = [data EXCEPT ![buf[p]] = v]
      /\ UNCHANGED <<blockno, valid, disk, pinned, pc, want>>
  BY DEF Modify
<1> DEFINE k == want[p]
<1>b. buf[p] \in Bufs /\ k \in Blocks /\ blockno[buf[p]] = k /\ valid[buf[p]]
  BY <1>0, <1>a DEF Types, Holding, Using
<1>1. user[k] = p
  BY <1>0, <1>a, <1>b DEF Mapping, Using
<1>2. user' = user
  BY <1>a, SameUser DEF SameUsers
<1>3. content'[k] = v
  <2>1. data'[buf[p]] = v /\ blockno'[buf[p]] = k /\ valid'[buf[p]]
    BY <1>0, <1>a, <1>b DEF Types
  <2> QED  BY <1>0, <1>b, <2>1 DEF Mapping
<1>4. ASSUME NEW j \in Blocks, j # k PROVE content'[j] = content[j]
  <2>1. CASE \E b \in Bufs : blockno[b] = j /\ valid[b]
    <3>1. PICK b \in Bufs : blockno[b] = j /\ valid[b]
      BY <2>1
    <3>2. data'[b] = data[b]
      BY <1>0, <1>a, <1>b, <1>4, <3>1 DEF Types
    <3> QED  BY <1>0, <1>a, <3>1, <3>2 DEF Mapping
  <2>2. CASE \A b \in Bufs : ~ (blockno[b] = j /\ valid[b])
    BY <1>0, <1>a, <2>2 DEF Mapping
  <2> QED  BY <2>1, <2>2
<1>5. content = [j \in Blocks |-> content[j]] /\ content' = [j \in Blocks |-> content'[j]]
  BY <1>0 DEF Mapping
<1>6. content' = [content EXCEPT ![k] = v]
  BY <1>b, <1>3, <1>4, <1>5
<1> QED  BY <1>1, <1>2, <1>6, <1>a, <1>b, Zenon DEF BC!Store

(* bwrite, bpin and bunpin by the user of a block.                          *)
LEMMA UserMaps ==
  ASSUME BInv, BInv', NEW p \in Procs, BwriteDone(p) \/ Bpin(p) \/ Bunpin(p)
  PROVE  \E k \in Blocks : BC!Bwrite(p, k) \/ BC!Bpin(p, k) \/ BC!Bunpin(p, k)
<1>0. Mapping /\ Types /\ Holding
  BY MappingIs DEF BInv
<1> DEFINE k == want[p]
<1>1. pc[p] \in Using /\ want' = want
  BY DEF BwriteDone, Bpin, Bunpin, Using
<1>2. buf[p] \in Bufs /\ k \in Blocks /\ blockno[buf[p]] = k /\ valid[buf[p]]
  BY <1>0, <1>1 DEF Types, Holding, Using
<1>3. user[k] = p /\ content[k] = data[buf[p]]
  BY <1>0, <1>1, <1>2 DEF Mapping
<1>4. user' = user
  <2>1. SameUsers
    BY <1>0 DEF BwriteDone, Bpin, Bunpin, Goto, Types, Using, SameUsers
  <2> QED  BY <2>1, SameUser
<1>5. CASE BwriteDone(p)
  <2>1. disk' = [disk EXCEPT ![k] = content[k]] /\ pinned' = pinned
    BY <1>2, <1>3, <1>5 DEF BwriteDone
  <2>2. content' = content
    BY <1>5, WriteContent, Zenon DEF BwriteDone, cache
  <2>3. BC!Bwrite(p, k)
    BY <1>3, <1>4, <2>1, <2>2, Zenon DEF BC!Bwrite
  <2> QED  BY <1>2, <2>3
<1>6. CASE Bpin(p) \/ Bunpin(p)
  <2>1. content' = content /\ disk' = disk
    BY <1>6, SameContent DEF Bpin, Bunpin
  <2>2. pinned' = pinned \cup {k} \/ pinned' = pinned \ {k}
    BY <1>6 DEF Bpin, Bunpin
  <2>3. BC!Bpin(p, k) \/ BC!Bunpin(p, k)
    BY <1>3, <1>4, <2>1, <2>2, Zenon DEF BC!Bpin, BC!Bunpin
  <2> QED  BY <1>2, <2>3
<1> QED  BY <1>5, <1>6

(* flush_all_blocks writes a block that nobody uses: it holds the lock.     *)
LEMMA FlushMaps ==
  ASSUME BInv, BInv', NEW p \in Procs, FlushWrite(p) PROVE \E k \in Blocks : BC!Flush(k)
<1>0. Mapping /\ Types /\ Holding /\ Locking /\ Caching
  BY MappingIs DEF BInv
<1>1. /\ pc[p] = "flush_write" /\ pc'[p] = "flush_next"
      /\ disk' = [disk EXCEPT ![blockno[buf[p]]] = data[buf[p]]] /\ UNCHANGED <<pinned, want>>
      /\ \A q \in Procs : q # p => (pc'[q] \in Using <=> pc[q] \in Using)
  BY DEF FlushWrite, ReleaseSleep, Wake, Using
<1> DEFINE k == want[p]
<1>2. buf[p] \in Bufs /\ k \in Blocks /\ blockno[buf[p]] = k /\ valid[buf[p]] /\ locked[buf[p]] = p
  BY <1>0, <1>1 DEF Types, Holding, Flushing, Locking, Owning
<1>3. user' = user
  <2>1. SameUsers
    BY <1>1 DEF Using, SameUsers
  <2> QED  BY <2>1, SameUser
<1>4. user[k] = None
  <2>1. ASSUME NEW q \in Procs, pc[q] \in Using, want[q] = k PROVE FALSE
    <3>1. buf[q] \in Bufs /\ blockno[buf[q]] = k /\ locked[buf[q]] = q /\ q # p
      BY <1>0, <1>1, <2>1 DEF Types, Holding, Using, Locking, Owning
    <3>2. buf[q] = buf[p]
      BY <1>0, <1>2, <3>1, NoneIs DEF Caching, OneBuffer
    <3> QED  BY <1>2, <3>1, <3>2
  <2> QED  BY <1>0, <1>2, <2>1 DEF Mapping
<1>5. disk' = [disk EXCEPT ![k] = content[k]]
  BY <1>0, <1>1, <1>2 DEF Mapping
<1>6. content' = content
  BY WriteContent, Zenon DEF FlushWrite
<1>7. BC!Flush(k)
  BY <1>1, <1>3, <1>4, <1>5, <1>6, Zenon DEF BC!Flush
<1> QED  BY <1>2, <1>7

(* Every step of the cache is a step of BlockCache or changes nothing it    *)
(* shows.                                                                   *)
LEMMA StepMaps == BInv /\ BInv' /\ [Next]_vars => [BC!Next]_(BC!vars)
<1> SUFFICES ASSUME BInv, BInv', [Next]_vars PROVE BC!Next \/ Same
  BY DEF BC!vars, Same
<1>0. Types /\ Holding /\ Locking
  BY DEF BInv
<1>1. CASE UNCHANGED vars
  BY <1>1, SameContent, SameUser DEF vars, SameUsers, Same
<1>2. ASSUME NEW p \in Procs, NEW k \in Blocks, Bget(p, k) PROVE BC!Next \/ Same
  BY <1>2, BgetMaps, Zenon DEF BC!Next
<1>3. ASSUME NEW p \in Procs, NEW k \in Blocks, BgetPanic(p, k) PROVE Same
  BY <1>3, SameContent, SameUser DEF BgetPanic, cache, SameUsers, Same
<1>4. ASSUME NEW p \in Procs, BgetLock(p) \/ FlushLock(p) PROVE BC!Next \/ Same
  <2>1. /\ pc[p] \in {"lock", "flush_lock"} /\ UNCHANGED <<want, buf, disk, pinned>>
        /\ content' = content /\ \E l \in Pcs : pc' = [pc EXCEPT ![p] = l]
    BY <1>4, SameContent, Zenon DEF BgetLock, FlushLock, AcquireSleep, Goto, Pcs
  <2>2. CASE pc'[p] \in Using
    <3>1. locked[buf[p]] = None
      BY <1>0, <1>4, <2>2 DEF BgetLock, FlushLock, AcquireSleep, Goto, Using, Types
    <3>2. \E k \in Blocks : BC!Bread(p, k)
      BY <1>0, <2>1, <2>2, <3>1, Becomes DEF Types, Using
    <3> QED  BY <3>2, Zenon DEF BC!Next
  <2>3. CASE pc'[p] \notin Using
    <3>1. SameUsers
      BY <1>0, <2>1, <2>3 DEF Types, Using, SameUsers
    <3> QED  BY <2>1, <3>1, SameUser DEF Same
  <2> QED  BY <2>2, <2>3
<1>5. ASSUME NEW p \in Procs, BreadDone(p) PROVE BC!Next
  <2>1. pc[p] = "read" /\ UNCHANGED <<want, buf, disk, pinned>> /\ pc' = [pc EXCEPT ![p] = "use"]
    BY <1>5 DEF BreadDone, Goto
  <2>2. locked[buf[p]] = p
    BY <1>0, <2>1 DEF Locking, Owning
  <2>3. \E k \in Blocks : BC!Bread(p, k)
    BY <1>0, <1>5, <2>1, <2>2, ReadContent, Becomes DEF Types, Using
  <2> QED  BY <2>3, Zenon DEF BC!Next
<1>6. ASSUME NEW p \in Procs, NEW v \in Vals, Modify(p, v) PROVE BC!Next
  BY <1>6, ModifyMaps, Zenon DEF BC!Next
<1>7. ASSUME NEW p \in Procs, Bwrite(p) PROVE Same
  <2>1. SameUsers
    BY <1>0, <1>7 DEF Bwrite, Goto, Types, Using, SameUsers
  <2> QED  BY <1>7, <2>1, SameContent, SameUser DEF Bwrite, cache, Same
<1>8. ASSUME NEW p \in Procs, BwriteDone(p) \/ Bpin(p) \/ Bunpin(p) PROVE BC!Next
  BY <1>8, UserMaps, Zenon DEF BC!Next
<1>9. ASSUME NEW p \in Procs, Brelse(p) PROVE BC!Next
  BY <1>9, Ends, Zenon DEF BC!Next
<1>10. ASSUME NEW p \in Procs, BrelseUnref(p) PROVE Same
  <2>1. SameUsers
    BY <1>0, <1>10 DEF BrelseUnref, Goto, Types, Using, SameUsers
  <2> QED  BY <1>10, <2>1, SameContent, SameUser DEF BrelseUnref, Same
<1>11. ASSUME NEW p \in Procs, Flush(p) \/ FlushNext(p) PROVE Same
  <2>1. content' = content /\ UNCHANGED <<disk, pinned>>
    BY <1>11, SameContent DEF Flush, FlushNext
  <2>2. /\ pc[p] \in {"idle", "flush_next"}
        /\ \E l \in {"idle", "flush_lock"} : pc' = [pc EXCEPT ![p] = l]
        /\ \E w : want' = [want EXCEPT ![p] = w]
    BY <1>11 DEF Flush, FlushNext, FlushTo, Goto
  <2>3. SameUsers
    BY <1>0, <2>2 DEF Types, Using, SameUsers
  <2> QED  BY <2>1, <2>3, SameUser DEF Same
<1>12. ASSUME NEW p \in Procs, FlushWrite(p) PROVE BC!Next
  BY <1>12, FlushMaps, Zenon DEF BC!Next
<1> QED  BY <1>1, <1>2, <1>3, <1>4, <1>5, <1>6, <1>7, <1>8, <1>9, <1>10, <1>11, <1>12 DEF Next, Step

(* bio.c:57-175. Buffers, recycling, pins and the disk together are a store *)
(* with one current content per block and one user at a time that forgets   *)
(* nothing that was written or is pinned, for any number of processes,      *)
(* buffers and blocks.                                                      *)
THEOREM BioImplementsBlockCache == Spec => ImplementsBlockCache
<1>1. Init => BC!Init
  <2> SUFFICES ASSUME Init PROVE BC!Init
    OBVIOUS
  <2>1. \A k \in Blocks : content[k] = disk[k]
    BY DEF Init, content
  <2>2. content \in [Blocks -> Vals]
    BY <2>1 DEF Init, content
  <2>3. user = [k \in Blocks |-> None]
    BY DEF Init, user
  <2>4. content = disk
    BY <2>1 DEF Init, content
  <2> QED  BY <2>2, <2>3, <2>4 DEF Init, BC!Init
<1>2. BInv /\ BInv' /\ [Next]_vars => [BC!Next]_(BC!vars)
  BY StepMaps
<1> QED  BY <1>1, <1>2, Invariance, PTL DEF Spec, ImplementsBlockCache, BC!Spec
=============================================================================
