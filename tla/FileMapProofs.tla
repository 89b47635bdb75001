---------------------------- MODULE FileMapProofs ---------------------------
(***************************************************************************)
(* Proofs about FileMap for every number of processes, inodes, open files  *)
(* and blocks and every geometry of the file system: the bitmap is exact,  *)
(* a file holds what was written to it, a write fits in its transaction,   *)
(* and no panic is reached.                                                *)
(***************************************************************************)
EXTENDS FileMap, TLAPS

Addrs == Blocks \cup {0}
Dinode == [size : 0..(MAXFILE * BSIZE), addrs : [0..NDIRECT -> Addrs]]
Cell == [bytes : [Bytes -> Procs \cup {0}], ptrs : [0..(NINDIRECT - 1) -> Addrs]]
Panics == {"", "freeing free block", "bmap: out of range", "log_write outside of trans"}
FsRec == [used : SUBSET Blocks, data : [Blocks -> Cell], mem : [Inodes -> Dinode],
          disk : [Inodes -> Dinode], ret : Addrs,
          log : SUBSET ({"bitmap", "block", "inode"} \X Nat), panic : Panics]

(* All pointers of an inode under one index: the direct ones, then the      *)
(* indirect block, then the pointers in it.                                 *)
Keys == 0..MAXFILE
Ind(s, i) == s.mem[i].addrs[NDIRECT]
At(s, i, k) ==
  IF k <= NDIRECT THEN s.mem[i].addrs[k]
  ELSE IF Ind(s, i) = 0 THEN 0 ELSE s.data[Ind(s, i)].ptrs[k - (NDIRECT + 1)]

(* The bitmap marks the blocks some pointer has, and no two pointers have   *)
(* the same.                                                                *)
MapOK(s) ==
  /\ s \in FsRec
  /\ \A b \in Blocks : b \in s.used <=> \E i \in Inodes, k \in Keys : At(s, i, k) = b
  /\ \A i, j \in Inodes : \A k, l \in Keys :
       At(s, i, k) # 0 /\ At(s, i, k) = At(s, j, l) => i = j /\ k = l

(* What bmap leaves alone.                                                  *)
Keeps(s, t, i) ==
  /\ MapOK(t) /\ s.used \subseteq t.used
  /\ \A j \in Inodes : \A l \in Keys : At(s, j, l) # 0 \/ j # i => At(t, j, l) = At(s, j, l)
  /\ \A c \in s.used : t.data[c].bytes = s.data[c].bytes
  /\ \A j \in Inodes : t.mem[j].size = s.mem[j].size /\ (j # i => t.mem[j] = s.mem[j])
  /\ t.disk = s.disk /\ t.panic = s.panic

-----------------------------------------------------------------------------
(* What is used of sets; the end of the module has the proof.               *)
OneToOne(f, S, T) ==
  /\ f \in [S -> T] /\ \A x, y \in S : f[x] = f[y] => x = y
  /\ \A y \in T : \E x \in S : f[x] = y
SetFacts ==
  /\ IsFiniteSet({}) /\ Cardinality({}) = 0
  /\ \A S : IsFiniteSet(S) => Cardinality(S) \in Nat
  /\ \A S, x : IsFiniteSet(S) =>
       /\ IsFiniteSet(S \cup {x})
       /\ Cardinality(S \cup {x}) = IF x \in S THEN Cardinality(S) ELSE Cardinality(S) + 1
  /\ \A S : \A T \in SUBSET S : IsFiniteSet(S) => IsFiniteSet(T) /\ Cardinality(T) <= Cardinality(S)
  /\ \A S, T : IsFiniteSet(S) /\ IsFiniteSet(T) =>
       Cardinality(S \cup T) = Cardinality(S) + Cardinality(T) - Cardinality(S \cap T)
  /\ \A a, b \in Int : IsFiniteSet(a..b)
  /\ \A S, T, f : IsFiniteSet(S) /\ OneToOne(f, S, T) => IsFiniteSet(T) /\ Cardinality(T) = Cardinality(S)
  /\ \A S \in SUBSET Nat : S # {} => \E x \in S : \A y \in S : x <= y

(* The empty set: the log before an operation.                              *)
LEMMA EmptySet == ASSUME SetFacts PROVE IsFiniteSet({}) /\ Cardinality({}) = 0
BY Zenon DEF SetFacts

(* The number of blocks in a log is a number.                               *)
LEMMA CardType == ASSUME SetFacts, NEW S, IsFiniteSet(S) PROVE Cardinality(S) \in Nat
BY Zenon DEF SetFacts

(* A log that is part of another is not larger.                             *)
LEMMA FiniteSubset ==
  ASSUME SetFacts, NEW S, IsFiniteSet(S), NEW T \in SUBSET S
  PROVE  IsFiniteSet(T) /\ Cardinality(T) <= Cardinality(S)
BY Zenon DEF SetFacts

(* The sizes.                                                               *)
LEMMA Sizes ==
  /\ NBLOCKS \in Nat \ {0} /\ BSIZE \in Nat \ {0} /\ NDIRECT \in Nat \ {0} /\ NINDIRECT \in Nat \ {0}
  /\ BPB \in Nat \ {0} /\ UINT \in Nat \ {0} /\ NINODES \in Nat \ {0} /\ NFILE \in Nat \ {0}
  /\ MAXFILE \in Nat \ {0} /\ MAXFILE * BSIZE \in Nat
  /\ 0 \notin Blocks /\ Blocks \subseteq Nat /\ 0 \notin Procs
  /\ Zeroed \in Cell /\ Empty \in Dinode
<1>1. /\ NBLOCKS \in Nat \ {0} /\ BSIZE \in Nat \ {0} /\ NDIRECT \in Nat \ {0} /\ NINDIRECT \in Nat \ {0}
      /\ BPB \in Nat \ {0} /\ UINT \in Nat \ {0} /\ NINODES \in Nat \ {0} /\ NFILE \in Nat \ {0}
  BY FileMapConstants
<1>2. MAXFILE \in Nat \ {0} /\ MAXFILE * BSIZE \in Nat
  BY <1>1 DEF MAXFILE
<1>3. 0 \notin Blocks /\ Blocks \subseteq Nat
  BY <1>1 DEF Blocks
<1>4. 0 \notin Procs
  BY FileMapConstants
<1>5. Zeroed \in Cell
  BY DEF Zeroed, Cell, Addrs
<1>6. Empty \in Dinode
  BY <1>2 DEF Empty, Dinode, Addrs
<1> QED  BY <1>1, <1>2, <1>3, <1>4, <1>5, <1>6, Zenon

(* The types of the fields.                                                 *)
LEMMA FsTypes ==
  ASSUME NEW s \in FsRec
  PROVE  /\ s.used \subseteq Blocks /\ s.data \in [Blocks -> Cell]
         /\ s.mem \in [Inodes -> Dinode] /\ s.disk \in [Inodes -> Dinode]
         /\ \A i \in Inodes : /\ s.mem[i].addrs \in [0..NDIRECT -> Addrs]
                             /\ s.mem[i].size \in 0..(MAXFILE * BSIZE)
         /\ \A b \in Blocks : /\ s.data[b].bytes \in [Bytes -> Procs \cup {0}]
                             /\ s.data[b].ptrs \in [0..(NINDIRECT - 1) -> Addrs]
<1>1. /\ s.used \subseteq Blocks /\ s.data \in [Blocks -> Cell]
      /\ s.mem \in [Inodes -> Dinode] /\ s.disk \in [Inodes -> Dinode]
  BY Zenon DEF FsRec
<1>2. \A i \in Inodes : s.mem[i] \in Dinode
  BY <1>1, Zenon
<1>3. \A b \in Blocks : s.data[b] \in Cell
  BY <1>1, Zenon
<1>4. \A d \in Dinode : d.addrs \in [0..NDIRECT -> Addrs] /\ d.size \in 0..(MAXFILE * BSIZE)
  BY Zenon DEF Dinode
<1>5. \A d \in Cell : /\ d.bytes \in [Bytes -> Procs \cup {0}]
                      /\ d.ptrs \in [0..(NINDIRECT - 1) -> Addrs]
  BY Zenon DEF Cell
<1> QED  BY <1>1, <1>2, <1>3, <1>4, <1>5, Zenon

-----------------------------------------------------------------------------
(* Pointers.                                                                *)

(* A pointer is 0 or a block of the disk, which the bitmap marks.           *)
LEMMA AtType ==
  ASSUME NEW s \in FsRec, NEW i \in Inodes, NEW k \in Keys
  PROVE  At(s, i, k) \in Addrs
<1>1. Ind(s, i) \in Addrs
  BY Sizes DEF Ind, FsRec, Dinode
<1>2. CASE k <= NDIRECT
  BY <1>2, Sizes DEF At, FsRec, Dinode, Keys
<1>3. CASE ~ (k <= NDIRECT) /\ Ind(s, i) # 0
  <2>1. k - (NDIRECT + 1) \in 0..(NINDIRECT - 1)
    BY <1>3, Sizes DEF Keys, MAXFILE
  <2>2. Ind(s, i) \in Blocks
    BY <1>1, <1>3, Zenon DEF Addrs
  <2>3. s.data[Ind(s, i)] \in Cell
    BY <2>2, Zenon DEF FsRec
  <2> QED  BY <1>3, <2>1, <2>3, Zenon DEF At, Cell
<1>4. CASE ~ (k <= NDIRECT) /\ Ind(s, i) = 0
  BY <1>4, Zenon DEF At, Addrs
<1> QED  BY <1>2, <1>3, <1>4, Zenon

(* A pointer that is not 0 has a block the bitmap marks.                    *)
LEMMA AtUsed ==
  ASSUME NEW s, MapOK(s), NEW i \in Inodes, NEW k \in Keys, At(s, i, k) # 0
  PROVE  At(s, i, k) \in s.used /\ At(s, i, k) \in Blocks
<1>1. At(s, i, k) \in Blocks
  BY AtType, Zenon DEF MapOK, Addrs
<1> QED  BY <1>1, Zenon DEF MapOK

(* The indirect block is a pointer too: the bitmap marks it.                *)
LEMMA IndFacts ==
  ASSUME NEW s, MapOK(s), NEW i \in Inodes
  PROVE  /\ Ind(s, i) \in Addrs /\ Ind(s, i) = At(s, i, NDIRECT) /\ NDIRECT \in Keys
         /\ \A b \in Blocks \ s.used : Ind(s, i) # b
<1>1. NDIRECT \in Keys /\ NDIRECT <= NDIRECT
  BY Sizes DEF Keys, MAXFILE
<1>2. Ind(s, i) = At(s, i, NDIRECT)
  BY <1>1, Zenon DEF At, Ind
<1>3. At(s, i, NDIRECT) \in Addrs
  BY <1>1, AtType, Zenon DEF MapOK
<1>4. At(s, i, NDIRECT) # 0 => At(s, i, NDIRECT) \in s.used
  BY <1>1, AtUsed, Zenon
<1>5. \A b \in Blocks \ s.used : At(s, i, NDIRECT) # b
  BY <1>4, Sizes, Zenon
<1> QED  BY <1>1, <1>2, <1>3, <1>5, Zenon

-----------------------------------------------------------------------------
(* bmap.                                                                    *)

Logged(b) == {BBLOCK(b), <<"block", b>>}

(* Where the pointer to block bn of a file is.                              *)
Key(bn) == IF bn < NDIRECT THEN bn ELSE bn + 1

(* What the indirect block of an operation adds to the log.                 *)
IndLog(s, i) == IF Ind(s, i) = 0 THEN {} ELSE Logged(Ind(s, i))

(* bmap returns the pointer, if need be a new one, or 0 if the disk is      *)
(* full, and adds little to the log.                                        *)
LEMMA Bmap ==
  ASSUME SetFacts
  PROVE  \A s : MapOK(s) /\ s.log = {} =>
           \A i \in Inodes, bn \in 0..(MAXFILE - 1) :
             LET t == bmap(s, i, bn) IN
             /\ Keeps(s, t, i) /\ t.ret = At(t, i, Key(bn))
             /\ At(s, i, Key(bn)) # 0 => t.log = {}
             /\ t.log \subseteq Logged(t.ret) \cup IndLog(t, i)
             /\ t.ret = 0 => t.log \subseteq IndLog(t, i)
<1> DEFINE Grows(s, t, i, k, b) ==
             /\ t \in FsRec /\ b \in Blocks \ s.used /\ At(s, i, k) = 0
             /\ t.used = s.used \cup {b}
             /\ \A j \in Inodes : \A l \in Keys : At(t, j, l) = IF j = i /\ l = k THEN b ELSE At(s, j, l)
             /\ \A c \in s.used : t.data[c].bytes = s.data[c].bytes
             /\ \A j \in Inodes : t.mem[j].size = s.mem[j].size /\ (j # i => t.mem[j] = s.mem[j])
             /\ t.disk = s.disk /\ t.panic = s.panic
           Ret(s, b) == [s EXCEPT !.ret = b]
           Took(s, b) == [s EXCEPT !.used = @ \cup {b}, !.data[b] = Zeroed, !.ret = b,
                                   !.log = @ \cup {BBLOCK(b), <<"block", b>>}]
           SetAddr(s, i, k, b) == [s EXCEPT !.mem[i].addrs[k] = b]
           SetPtr(s, c, k, b) == [s EXCEPT !.data[c].ptrs[k] = b, !.log = @ \cup {<<"block", c>>}]
<1> HIDE DEF Grows, Ret, Took, SetAddr, SetPtr
(* A set of block numbers has a least one.                                  *)
<1>SmallestNat. ASSUME NEW T, T \subseteq Nat, T # {} PROVE \E x \in T : \A y \in T : x <= y
  <2> USE <1>SmallestNat
  <2>1. T \in SUBSET Nat
    BY Zenon
  <2> QED  BY <2>1, Zenon DEF SetFacts
(* A function after one assignment.                                         *)
<1>ExceptIs.
      ASSUME NEW D, NEW R, NEW f \in [D -> R], NEW k \in D, NEW v, NEW g, g = [f EXCEPT ![k] = v]
      PROVE  \A l \in D : g[l] = IF l = k THEN v ELSE f[l]
  BY <1>ExceptIs, Zenon
(* balloc fails, or marks a free block and zeroes it.                       *)
<1>Balloc.
      ASSUME NEW s \in FsRec
      PROVE  \/ s.used = Blocks /\ balloc(s) = Ret(s, 0)
             \/ \E b \in Blocks \ s.used : balloc(s) = Took(s, b)
  <2> USE <1>Balloc
  <2>1. CASE s.used = Blocks
    BY <2>1, Zenon DEF balloc, Ret
  <2>2. CASE s.used # Blocks
    <3> DEFINE T == Blocks \ s.used
               b == CHOOSE c \in T : \A d \in T : c <= d
    <3>1. T \subseteq Nat /\ T # {}
      BY <2>2, Sizes, Zenon DEF FsRec
    <3>2. b \in T
      BY <3>1, <1>SmallestNat, Zenon
    <3> QED  BY <2>2, <3>2, Zenon DEF balloc, Took
  <2> QED  BY <2>1, <2>2, Zenon
(* A fresh block keeps the map exact.                                       *)
<1>GrowsKeeps.
      ASSUME NEW s, MapOK(s), NEW t, NEW i \in Inodes, NEW k \in Keys, NEW b, Grows(s, t, i, k, b)
      PROVE  Keeps(s, t, i)
  <2> USE <1>GrowsKeeps
  <2>0. /\ s \in FsRec
        /\ \A c \in Blocks : c \in s.used <=> \E j \in Inodes, l \in Keys : At(s, j, l) = c
        /\ \A j, m \in Inodes : \A l, n \in Keys :
             At(s, j, l) # 0 /\ At(s, j, l) = At(s, m, n) => j = m /\ l = n
    BY Zenon DEF MapOK
  <2>1. b \in Blocks \ s.used /\ b # 0
    BY Sizes, Zenon DEF Grows
  <2>2. ASSUME NEW j \in Inodes, NEW l \in Keys PROVE At(s, j, l) # b
    BY <2>0, <2>1, Zenon
  <2>3. \A j \in Inodes : \A l \in Keys : At(t, j, l) = IF j = i /\ l = k THEN b ELSE At(s, j, l)
    BY Zenon DEF Grows
  <2>4. MapOK(t)
    <3>1. ASSUME NEW c \in Blocks
          PROVE  c \in t.used <=> \E j \in Inodes, l \in Keys : At(t, j, l) = c
      <4>0. t.used = s.used \cup {b} /\ At(s, i, k) = 0 /\ c # 0
        BY Sizes, Zenon DEF Grows
      <4>1. CASE c = b
        BY <2>3, <4>0, <4>1, Zenon
      <4>2. CASE c # b
        <5>1. \A j \in Inodes : \A l \in Keys : At(t, j, l) = c <=> At(s, j, l) = c
          BY <2>3, <4>0, <4>2
        <5>2. c \in s.used <=> \E j \in Inodes, l \in Keys : At(s, j, l) = c
          BY <2>0, Zenon
        <5> QED  BY <4>0, <4>2, <5>1, <5>2, Zenon
      <4> QED  BY <4>1, <4>2, Zenon
    <3>2. ASSUME NEW j \in Inodes, NEW m \in Inodes, NEW l \in Keys, NEW n \in Keys,
                 At(t, j, l) # 0, At(t, j, l) = At(t, m, n)
          PROVE  j = m /\ l = n
      <4>1. At(t, j, l) = IF j = i /\ l = k THEN b ELSE At(s, j, l)
        BY <2>3, Zenon
      <4>2. At(t, m, n) = IF m = i /\ n = k THEN b ELSE At(s, m, n)
        BY <2>3, Zenon
      <4>3. At(s, j, l) # b /\ At(s, m, n) # b
        BY <2>2, Zenon
      <4>4. At(s, j, l) # 0 /\ At(s, j, l) = At(s, m, n) => j = m /\ l = n
        BY <2>0
      <4> QED  BY <3>2, <4>1, <4>2, <4>3, <4>4, Zenon
    <3>3. t \in FsRec
      BY Zenon DEF Grows
    <3> QED  BY <3>1, <3>2, <3>3 DEF MapOK
  <2>5. \A j \in Inodes : \A l \in Keys : At(s, j, l) # 0 \/ j # i => At(t, j, l) = At(s, j, l)
    BY Zenon DEF Grows
  <2> QED  BY <2>4, <2>5, Zenon DEF Keeps, Grows
(* Two steps of bmap.                                                       *)
<1>KeepsTrans.
      ASSUME NEW s, NEW t, NEW u, NEW i, Keeps(s, t, i), Keeps(t, u, i)
      PROVE  Keeps(s, u, i)
  <2> USE <1>KeepsTrans
  <2>1. \A c \in s.used : u.data[c].bytes = s.data[c].bytes
    BY Zenon DEF Keeps
  <2>2. \A j \in Inodes : u.mem[j].size = s.mem[j].size /\ (j # i => u.mem[j] = s.mem[j])
    BY Zenon DEF Keeps
  <2>3. \A j \in Inodes : \A l \in Keys : At(s, j, l) # 0 \/ j # i => At(u, j, l) = At(s, j, l)
    BY Zenon DEF Keeps
  <2> QED  BY <2>1, <2>2, <2>3, Zenon DEF Keeps
(* The results of a function are not part of the map.                       *)
<1>KeepsSame.
      ASSUME NEW s, MapOK(s), NEW t \in FsRec, NEW i,
             t.used = s.used, t.data = s.data, t.disk = s.disk, t.panic = s.panic,
             \A j \in Inodes : \A l \in Keys : At(t, j, l) = At(s, j, l),
             \A j \in Inodes : t.mem[j].size = s.mem[j].size /\ (j # i => t.mem[j] = s.mem[j])
      PROVE  Keeps(s, t, i)
  <2> USE <1>KeepsSame
  <2>1. MapOK(t)
    BY DEF MapOK
  <2> QED  BY <2>1, Zenon DEF Keeps
(* Fields of what balloc returns.                                           *)
<1>TookFields.
      ASSUME NEW s \in FsRec, NEW b \in Blocks
      PROVE  LET t == Took(s, b) IN
             /\ t \in FsRec /\ t.used = s.used \cup {b} /\ t.ret = b
             /\ t.data = [s.data EXCEPT ![b] = Zeroed]
             /\ t.log = s.log \cup {BBLOCK(b), <<"block", b>>}
             /\ t.mem = s.mem /\ t.disk = s.disk /\ t.panic = s.panic
  <2> USE <1>TookFields
  <2> SUFFICES ASSUME NEW t, t = Took(s, b)
               PROVE  /\ t \in FsRec /\ t.used = s.used \cup {b} /\ t.ret = b
                      /\ t.data = [s.data EXCEPT ![b] = Zeroed]
                      /\ t.log = s.log \cup {BBLOCK(b), <<"block", b>>}
                      /\ t.mem = s.mem /\ t.disk = s.disk /\ t.panic = s.panic
    BY Zenon
  <2>1. BBLOCK(b) \in {"bitmap", "block", "inode"} \X Nat /\ <<"block", b>> \in {"bitmap", "block", "inode"} \X Nat
    BY Sizes DEF BBLOCK
  <2>2. /\ t.used = s.used \cup {b} /\ t.ret = b /\ t.data = [s.data EXCEPT ![b] = Zeroed]
        /\ t.log = s.log \cup {BBLOCK(b), <<"block", b>>}
        /\ t.mem = s.mem /\ t.disk = s.disk /\ t.panic = s.panic
    BY DEF FsRec, Took
  <2>3. t = [used |-> t.used, data |-> t.data, mem |-> t.mem, disk |-> t.disk, ret |-> t.ret,
             log |-> t.log, panic |-> t.panic]
    BY Zenon DEF FsRec, Took
  <2>4. /\ t.used \in SUBSET Blocks /\ t.data \in [Blocks -> Cell] /\ t.ret \in Addrs
        /\ t.log \in SUBSET ({"bitmap", "block", "inode"} \X Nat)
        /\ t.mem \in [Inodes -> Dinode] /\ t.disk \in [Inodes -> Dinode] /\ t.panic \in Panics
    BY <2>1, <2>2, Sizes DEF FsRec, Addrs
  <2>5. t \in FsRec
    BY ONLY <2>3, <2>4 DEF FsRec
  <2> QED  BY <2>2, <2>5, Zenon
(* Fields after an assignment to ip->addrs[k], and to a pointer of a block. *)
<1>AddrFields.
      ASSUME NEW s \in FsRec, NEW i \in Inodes, NEW k \in 0..NDIRECT, NEW r \in Addrs
      PROVE  LET t == SetAddr(s, i, k, r) IN
             /\ t \in FsRec /\ t.used = s.used /\ t.data = s.data /\ t.disk = s.disk
             /\ t.panic = s.panic /\ t.ret = s.ret /\ t.log = s.log
             /\ t.mem[i].size = s.mem[i].size /\ t.mem[i].addrs = [s.mem[i].addrs EXCEPT ![k] = r]
             /\ \A j \in Inodes : j # i => t.mem[j] = s.mem[j]
  <2> USE <1>AddrFields
  <2> SUFFICES ASSUME NEW t, t = SetAddr(s, i, k, r)
               PROVE  /\ t \in FsRec /\ t.used = s.used /\ t.data = s.data /\ t.disk = s.disk
                      /\ t.panic = s.panic /\ t.ret = s.ret /\ t.log = s.log
                      /\ t.mem[i].size = s.mem[i].size /\ t.mem[i].addrs = [s.mem[i].addrs EXCEPT ![k] = r]
                      /\ \A j \in Inodes : j # i => t.mem[j] = s.mem[j]
    BY Zenon
  <2> DEFINE d == [s.mem[i] EXCEPT !.addrs[k] = r]
  <2>1. /\ t.used = s.used /\ t.data = s.data /\ t.disk = s.disk
        /\ t.panic = s.panic /\ t.ret = s.ret /\ t.log = s.log
        /\ t.mem = [s.mem EXCEPT ![i] = d]
    BY DEF FsRec, SetAddr
  <2>2. t = [used |-> t.used, data |-> t.data, mem |-> t.mem, disk |-> t.disk, ret |-> t.ret,
             log |-> t.log, panic |-> t.panic]
    BY Zenon DEF FsRec, SetAddr
  <2>3. s.mem \in [Inodes -> Dinode] /\ s.mem[i] \in Dinode
    BY Zenon DEF FsRec
  <2>4. d.size = s.mem[i].size /\ d.addrs = [s.mem[i].addrs EXCEPT ![k] = r] /\ d \in Dinode
    BY <2>3, Zenon DEF Dinode
  <2> HIDE DEF d
  <2>5. /\ t.mem \in [Inodes -> Dinode] /\ t.mem[i] = d
        /\ \A j \in Inodes : j # i => t.mem[j] = s.mem[j]
    BY <2>1, <2>3, <2>4, Zenon
  <2>6. t \in FsRec
    BY <2>1, <2>2, <2>5 DEF FsRec
  <2> QED  BY <2>1, <2>4, <2>5, <2>6, Zenon
(* Fields after a pointer in the indirect block is set.                     *)
<1>PtrFields.
      ASSUME NEW s \in FsRec, NEW c \in Blocks, NEW k \in 0..(NINDIRECT - 1), NEW r \in Addrs
      PROVE  LET t == SetPtr(s, c, k, r) IN
             /\ t \in FsRec /\ t.used = s.used /\ t.mem = s.mem /\ t.disk = s.disk
             /\ t.panic = s.panic /\ t.ret = s.ret /\ t.log = s.log \cup {<<"block", c>>}
             /\ t.data[c].bytes = s.data[c].bytes /\ t.data[c].ptrs = [s.data[c].ptrs EXCEPT ![k] = r]
             /\ \A d \in Blocks : d # c => t.data[d] = s.data[d]
  <2> USE <1>PtrFields
  <2> SUFFICES ASSUME NEW t, t = SetPtr(s, c, k, r)
               PROVE  /\ t \in FsRec /\ t.used = s.used /\ t.mem = s.mem /\ t.disk = s.disk
                      /\ t.panic = s.panic /\ t.ret = s.ret /\ t.log = s.log \cup {<<"block", c>>}
                      /\ t.data[c].bytes = s.data[c].bytes /\ t.data[c].ptrs = [s.data[c].ptrs EXCEPT ![k] = r]
                      /\ \A d \in Blocks : d # c => t.data[d] = s.data[d]
    BY Zenon
  <2> DEFINE d == [s.data[c] EXCEPT !.ptrs[k] = r]
  <2>1. /\ t.used = s.used /\ t.mem = s.mem /\ t.disk = s.disk
        /\ t.panic = s.panic /\ t.ret = s.ret /\ t.log = s.log \cup {<<"block", c>>}
        /\ t.data = [s.data EXCEPT ![c] = d]
    BY DEF FsRec, SetPtr
  <2>2. t = [used |-> t.used, data |-> t.data, mem |-> t.mem, disk |-> t.disk, ret |-> t.ret,
             log |-> t.log, panic |-> t.panic]
    BY Zenon DEF FsRec, SetPtr
  <2>3. s.data \in [Blocks -> Cell] /\ s.data[c] \in Cell
    BY Zenon DEF FsRec
  <2>4. d.bytes = s.data[c].bytes /\ d.ptrs = [s.data[c].ptrs EXCEPT ![k] = r] /\ d \in Cell
    BY <2>3, Zenon DEF Cell
  <2> HIDE DEF d
  <2>5. /\ t.data \in [Blocks -> Cell] /\ t.data[c] = d
        /\ \A e \in Blocks : e # c => t.data[e] = s.data[e]
    BY <2>1, <2>3, <2>4, Zenon
  <2>6. t.log \in SUBSET ({"bitmap", "block", "inode"} \X Nat)
    BY <2>1, Sizes DEF FsRec
  <2>7. t \in FsRec
    BY <2>1, <2>2, <2>5, <2>6 DEF FsRec
  <2> QED  BY <2>1, <2>4, <2>5, <2>7, Zenon
(* Fields after a return value is set.                                      *)
<1>RetFields.
      ASSUME NEW s \in FsRec, NEW r \in Addrs
      PROVE  LET t == Ret(s, r) IN
             /\ t \in FsRec /\ t.used = s.used /\ t.data = s.data /\ t.mem = s.mem
             /\ t.disk = s.disk /\ t.panic = s.panic /\ t.log = s.log /\ t.ret = r
  BY <1>RetFields DEF FsRec, Ret
(* A direct pointer, or the one to the indirect block.                      *)
<1>MapAddr.
      ASSUME NEW s, MapOK(s), NEW i \in Inodes, NEW k \in 0..NDIRECT
      PROVE  LET t == mapaddr(s, i, k) IN
             /\ Keeps(s, t, i) /\ t.ret = At(t, i, k)
             /\ At(s, i, k) # 0 \/ t.ret = 0 => t.log = s.log
             /\ t.log \subseteq s.log \cup Logged(t.ret)
  <2> USE <1>MapAddr
  <2> DEFINE t == mapaddr(s, i, k)
  <2>1. s \in FsRec /\ k \in Keys /\ k <= NDIRECT
    BY Sizes DEF Keys, MAXFILE, MapOK
  <2>2. \A u : At(u, i, k) = u.mem[i].addrs[k]
    BY <2>1, Zenon DEF At
  <2>3. At(s, i, k) \in Addrs
    BY <2>1, AtType, Zenon
  <2>4. CASE At(s, i, k) # 0
    <3>1. t = Ret(s, At(s, i, k))
      <4>1. s.mem[i].addrs[k] # 0 /\ At(s, i, k) = s.mem[i].addrs[k]
        BY <2>2, <2>4, Zenon
      <4>2. t = Ret(s, s.mem[i].addrs[k])
        BY <4>1, Zenon DEF mapaddr, Ret
      <4> QED  BY <4>1, <4>2, Zenon
    <3> HIDE DEF t
    <3>2. /\ t \in FsRec /\ t.used = s.used /\ t.data = s.data /\ t.mem = s.mem
          /\ t.disk = s.disk /\ t.panic = s.panic /\ t.log = s.log /\ t.ret = At(s, i, k)
      BY <2>1, <2>3, <3>1, <1>RetFields, Zenon
    <3>3. \A j \in Inodes : \A l \in Keys : At(t, j, l) = At(s, j, l)
      BY <3>2, Zenon DEF At, Ind
    <3>4. Keeps(s, t, i)
      BY <3>2, <3>3, <1>KeepsSame, Zenon
    <3> QED  BY <2>1, <3>2, <3>3, <3>4, Zenon DEF t
  <2>5. CASE At(s, i, k) = 0
    <3> DEFINE u == balloc(s)
    <3>1. t = SetAddr(u, i, k, u.ret)
      <4>1. s.mem[i].addrs[k] = 0
        BY <2>2, <2>5, Zenon
      <4> QED  BY <4>1, Zenon DEF mapaddr, SetAddr
    <3> HIDE DEF t, u
    <3>2. ASSUME u = Ret(s, 0)
          PROVE  Keeps(s, t, i) /\ t.ret = At(t, i, k) /\ t.ret = 0 /\ t.log = s.log
      <4>1. /\ u \in FsRec /\ u.used = s.used /\ u.data = s.data /\ u.mem = s.mem
            /\ u.disk = s.disk /\ u.panic = s.panic /\ u.log = s.log /\ u.ret = 0
        <5>1. 0 \in Addrs
          BY Zenon DEF Addrs
        <5> QED  BY <2>1, <3>2, <5>1, <1>RetFields, Zenon
      <4>2. /\ t \in FsRec /\ t.used = u.used /\ t.data = u.data /\ t.disk = u.disk
            /\ t.panic = u.panic /\ t.ret = u.ret /\ t.log = u.log
            /\ t.mem[i].size = u.mem[i].size /\ t.mem[i].addrs = [u.mem[i].addrs EXCEPT ![k] = 0]
            /\ \A j \in Inodes : j # i => t.mem[j] = u.mem[j]
        <5>1. 0 \in Addrs /\ t = SetAddr(u, i, k, 0) /\ u \in FsRec
          BY <3>1, <4>1, Zenon DEF Addrs
        <5> QED  BY <5>1, <1>AddrFields
      <4>3. t.mem[i].addrs = s.mem[i].addrs
        <5>1. s.mem[i].addrs \in [0..NDIRECT -> Addrs] /\ s.mem[i].addrs[k] = 0
          BY <2>1, <2>2, <2>5, FsTypes, Zenon
        <5> QED  BY ONLY <4>1, <4>2, <5>1, k \in 0..NDIRECT
      <4>4. \A j \in Inodes : t.mem[j].addrs = s.mem[j].addrs
        BY <4>1, <4>2, <4>3, Zenon
      <4>5. \A j \in Inodes : \A l \in Keys : At(t, j, l) = At(s, j, l)
        BY <4>1, <4>2, <4>4, Zenon DEF At, Ind
      <4>6. \A j \in Inodes : t.mem[j].size = s.mem[j].size /\ (j # i => t.mem[j] = s.mem[j])
        BY <4>1, <4>2, Zenon
      <4>7. Keeps(s, t, i)
        BY <4>1, <4>2, <4>5, <4>6, <1>KeepsSame, Zenon
      <4> QED  BY <2>1, <2>5, <4>1, <4>2, <4>5, <4>7, Zenon
    <3>3. ASSUME NEW b \in Blocks \ s.used, u = Took(s, b)
          PROVE  Keeps(s, t, i) /\ t.ret = At(t, i, k) /\ t.ret # 0 /\ t.log = s.log \cup Logged(t.ret)
      <4>1. /\ u \in FsRec /\ u.used = s.used \cup {b} /\ u.ret = b
            /\ u.data = [s.data EXCEPT ![b] = Zeroed]
            /\ u.log = s.log \cup {BBLOCK(b), <<"block", b>>}
            /\ u.mem = s.mem /\ u.disk = s.disk /\ u.panic = s.panic
        BY <2>1, <3>3, <1>TookFields, Zenon
      <4>2. /\ t \in FsRec /\ t.used = u.used /\ t.data = u.data /\ t.disk = u.disk
            /\ t.panic = u.panic /\ t.ret = u.ret /\ t.log = u.log
            /\ t.mem[i].size = u.mem[i].size /\ t.mem[i].addrs = [u.mem[i].addrs EXCEPT ![k] = b]
            /\ \A j \in Inodes : j # i => t.mem[j] = u.mem[j]
        <5>1. b \in Addrs /\ t = SetAddr(u, i, k, b) /\ u \in FsRec
          BY <3>1, <4>1, Zenon DEF Addrs
        <5> QED  BY <5>1, <1>AddrFields
      <4>3. t.data[b] = Zeroed /\ \A c \in Blocks \ {b} : t.data[c] = s.data[c]
        <5>1. s.data \in [Blocks -> Cell]
          BY <2>1, FsTypes, Zenon
        <5> QED  BY ONLY <4>1, <4>2, <5>1, b \in Blocks
      <4>4. \A j \in Inodes : \A l \in 0..NDIRECT :
              t.mem[j].addrs[l] = IF j = i /\ l = k THEN b ELSE s.mem[j].addrs[l]
        <5>1. s.mem[i].addrs \in [0..NDIRECT -> Addrs]
          BY <2>1, FsTypes, Zenon
        <5>2. \A l \in 0..NDIRECT : t.mem[i].addrs[l] = IF l = k THEN b ELSE s.mem[i].addrs[l]
          <6>1. t.mem[i].addrs = [s.mem[i].addrs EXCEPT ![k] = b]
            BY <4>1, <4>2, Zenon
          <6> QED  BY <5>1, <6>1, <1>ExceptIs, Zenon
        <5> QED  BY <4>1, <4>2, <5>2, ZenonT(60)
      <4>5. NDIRECT \in 0..NDIRECT
        BY Sizes
      <4>6. ASSUME NEW j \in Inodes, NEW l \in Keys
            PROVE  At(t, j, l) = IF j = i /\ l = k THEN b ELSE At(s, j, l)
        <5>1. Ind(s, j) # b /\ Ind(s, j) \in Addrs
          BY IndFacts, Zenon
        <5>2. Ind(t, j) = IF j = i /\ NDIRECT = k THEN b ELSE Ind(s, j)
          BY <4>4, <4>5, Zenon DEF Ind
        <5>3. CASE l <= NDIRECT
          <6>1. l \in 0..NDIRECT
            BY <5>3, Sizes DEF Keys
          <6> QED  BY <4>4, <5>3, <6>1, Zenon DEF At
        <5>4. CASE ~ (l <= NDIRECT) /\ ~ (j = i /\ NDIRECT = k)
          <6>1. Ind(t, j) = Ind(s, j)
            BY <5>2, <5>4, Zenon
          <6>2. Ind(s, j) # 0 => t.data[Ind(s, j)] = s.data[Ind(s, j)]
            BY <4>3, <5>1, Zenon DEF Addrs
          <6>3. l # k
            BY <2>1, <5>4, Zenon
          <6> QED  BY <5>4, <6>1, <6>2, <6>3, Zenon DEF At
        <5>5. CASE ~ (l <= NDIRECT) /\ j = i /\ NDIRECT = k
          <6>1. Ind(t, j) = b /\ Ind(s, j) = 0 /\ b # 0
            BY <2>2, <2>5, <5>2, <5>5, Sizes, Zenon DEF Ind
          <6>2. l - (NDIRECT + 1) \in 0..(NINDIRECT - 1) /\ l # k
            BY <5>5, Sizes DEF Keys, MAXFILE
          <6>3. Zeroed.ptrs[l - (NDIRECT + 1)] = 0
            BY <6>2 DEF Zeroed
          <6> QED  BY <4>3, <5>5, <6>1, <6>2, <6>3, Zenon DEF At
        <5> QED  BY <5>3, <5>4, <5>5, Zenon
      <4>7. \A c \in s.used : t.data[c].bytes = s.data[c].bytes
        BY <2>1, <4>3, Zenon DEF FsRec
      <4>8. \A j \in Inodes : t.mem[j].size = s.mem[j].size /\ (j # i => t.mem[j] = s.mem[j])
        BY <4>1, <4>2, Zenon
      <4>9. Grows(s, t, i, k, b)
        BY <2>5, <4>1, <4>2, <4>6, <4>7, <4>8, Zenon DEF Grows
      <4>10. Keeps(s, t, i)
        BY <2>1, <4>9, <1>GrowsKeeps, Zenon
      <4>11. At(t, i, k) = b /\ b # 0
        BY <2>1, <4>6, Sizes, Zenon
      <4> QED  BY <4>1, <4>2, <4>10, <4>11, Zenon DEF Logged
    <3>4. u = Ret(s, 0) \/ \E b \in Blocks \ s.used : u = Took(s, b)
      BY <2>1, <1>Balloc, Zenon DEF u
    <3> QED  BY <2>5, <3>2, <3>3, <3>4, Zenon DEF t
  <2> QED  BY <2>4, <2>5, Zenon
(* A pointer in the indirect block.                                         *)
<1>MapPtr.
      ASSUME NEW s, MapOK(s), NEW i \in Inodes, NEW c, c = Ind(s, i), c # 0,
             NEW k \in 0..(NINDIRECT - 1), NEW q, q = NDIRECT + 1 + k
      PROVE  LET t == mapptr(s, c, k) IN
             /\ Keeps(s, t, i) /\ t.ret = At(t, i, q)
             /\ At(s, i, q) # 0 \/ t.ret = 0 => t.log = s.log
             /\ t.log \subseteq s.log \cup Logged(t.ret) \cup {<<"block", c>>}
  <2> USE <1>MapPtr
  <2> DEFINE t == mapptr(s, c, k)
  <2>1. s \in FsRec /\ q \in Keys /\ ~ (q <= NDIRECT) /\ q - (NDIRECT + 1) = k
    BY Sizes DEF Keys, MAXFILE, MapOK
  <2>2. /\ c \in Blocks /\ NDIRECT \in Keys /\ c = At(s, i, NDIRECT) /\ c \in s.used
        /\ \A b \in Blocks \ s.used : c # b
    <3>1. c \in Addrs /\ NDIRECT \in Keys /\ c = At(s, i, NDIRECT) /\ \A b \in Blocks \ s.used : c # b
      BY IndFacts, Zenon
    <3> QED  BY <3>1, AtUsed, Zenon
  <2>3. \A u : Ind(u, i) = c => At(u, i, q) = u.data[c].ptrs[k]
    BY <2>1, Zenon DEF At
  <2>4. At(s, i, q) = s.data[c].ptrs[k] /\ At(s, i, q) \in Addrs
    BY <2>1, <2>3, AtType, Zenon
  <2>5. CASE At(s, i, q) # 0
    <3>1. t = Ret(s, At(s, i, q))
      <4>1. s.data[c].ptrs[k] # 0
        BY <2>4, <2>5, Zenon
      <4>2. t = Ret(s, s.data[c].ptrs[k])
        BY <4>1, Zenon DEF mapptr, Ret
      <4> QED  BY <2>4, <4>2, Zenon
    <3> HIDE DEF t
    <3>2. /\ t \in FsRec /\ t.used = s.used /\ t.data = s.data /\ t.mem = s.mem
          /\ t.disk = s.disk /\ t.panic = s.panic /\ t.log = s.log /\ t.ret = At(s, i, q)
      BY <2>1, <2>4, <3>1, <1>RetFields, Zenon
    <3>3. \A j \in Inodes : \A l \in Keys : At(t, j, l) = At(s, j, l)
      BY <3>2, Zenon DEF At, Ind
    <3>4. Keeps(s, t, i)
      BY <3>2, <3>3, <1>KeepsSame, Zenon
    <3> QED  BY <2>1, <3>2, <3>3, <3>4, Zenon DEF t
  <2>6. CASE At(s, i, q) = 0
    <3> DEFINE u == balloc(s)
    <3>1. t = IF u.ret = 0 THEN u ELSE SetPtr(u, c, k, u.ret)
      <4>1. s.data[c].ptrs[k] = 0
        BY <2>4, <2>6, Zenon
      <4> QED  BY <4>1, Zenon DEF mapptr, SetPtr
    <3> HIDE DEF t, u
    <3>2. ASSUME u = Ret(s, 0)
          PROVE  Keeps(s, t, i) /\ t.ret = At(t, i, q) /\ t.ret = 0 /\ t.log = s.log
      <4>1. /\ u \in FsRec /\ u.used = s.used /\ u.data = s.data /\ u.mem = s.mem
            /\ u.disk = s.disk /\ u.panic = s.panic /\ u.log = s.log /\ u.ret = 0
        <5>1. 0 \in Addrs
          BY Zenon DEF Addrs
        <5> QED  BY <2>1, <3>2, <5>1, <1>RetFields, Zenon
      <4>2. t = u
        BY <3>1, <4>1, Zenon
      <4>3. \A j \in Inodes : \A l \in Keys : At(t, j, l) = At(s, j, l)
        BY <4>1, <4>2, Zenon DEF At, Ind
      <4>4. Keeps(s, t, i)
        BY <4>1, <4>2, <4>3, <1>KeepsSame, Zenon
      <4> QED  BY <2>1, <2>6, <4>1, <4>2, <4>3, <4>4, Zenon
    <3>3. ASSUME NEW b \in Blocks \ s.used, u = Took(s, b)
          PROVE  /\ Keeps(s, t, i) /\ t.ret = At(t, i, q) /\ t.ret # 0
                 /\ t.log = s.log \cup Logged(t.ret) \cup {<<"block", c>>}
      <4>1. /\ u \in FsRec /\ u.used = s.used \cup {b} /\ u.ret = b
            /\ u.data = [s.data EXCEPT ![b] = Zeroed]
            /\ u.log = s.log \cup {BBLOCK(b), <<"block", b>>}
            /\ u.mem = s.mem /\ u.disk = s.disk /\ u.panic = s.panic
        BY <2>1, <3>3, <1>TookFields, Zenon
      <4>2. /\ t \in FsRec /\ t.used = u.used /\ t.mem = u.mem /\ t.disk = u.disk
            /\ t.panic = u.panic /\ t.ret = u.ret /\ t.log = u.log \cup {<<"block", c>>}
            /\ t.data[c].bytes = u.data[c].bytes /\ t.data[c].ptrs = [u.data[c].ptrs EXCEPT ![k] = b]
            /\ \A d \in Blocks : d # c => t.data[d] = u.data[d]
        <5>1. b \in Addrs /\ b # 0
          BY Sizes, Zenon DEF Addrs
        <5>2. t = SetPtr(u, c, k, b) /\ u \in FsRec
          BY <3>1, <4>1, <5>1, Zenon
        <5> QED  BY <2>2, <5>1, <5>2, <1>PtrFields
      <4>3. u.data[b] = Zeroed /\ \A d \in Blocks \ {b} : u.data[d] = s.data[d]
        <5>1. s.data \in [Blocks -> Cell]
          BY <2>1, FsTypes, Zenon
        <5> QED  BY ONLY <4>1, <5>1, b \in Blocks
      <4>4. \A l \in 0..(NINDIRECT - 1) : t.data[c].ptrs[l] = IF l = k THEN b ELSE s.data[c].ptrs[l]
        <5>1. u.data[c] = s.data[c] /\ s.data[c].ptrs \in [0..(NINDIRECT - 1) -> Addrs]
          BY <2>1, <2>2, <4>3, FsTypes, Zenon
        <5>2. t.data[c].ptrs = [s.data[c].ptrs EXCEPT ![k] = b]
          BY <4>2, <5>1, Zenon
        <5> QED  BY <5>1, <5>2, <1>ExceptIs, Zenon
      <4>5. \A d \in Blocks : d # c /\ d # b => t.data[d] = s.data[d]
        BY <4>2, <4>3, Zenon
      <4>6. ASSUME NEW j \in Inodes, NEW l \in Keys
            PROVE  At(t, j, l) = IF j = i /\ l = q THEN b ELSE At(s, j, l)
        <5>1. Ind(t, j) = Ind(s, j) /\ t.mem = s.mem
          BY <4>1, <4>2, Zenon DEF Ind
        <5>2. Ind(s, j) # b /\ Ind(s, j) \in Addrs /\ Ind(s, j) = At(s, j, NDIRECT)
          BY IndFacts, Zenon
        <5>3. CASE l <= NDIRECT
          <6>1. l # q
            BY <2>1, <5>3, Zenon
          <6> QED  BY <5>1, <5>3, <6>1, Zenon DEF At
        <5>4. CASE ~ (l <= NDIRECT) /\ j # i
          <6>1. Ind(s, j) # 0 => Ind(s, j) # c
            BY <2>2, <5>2, <5>4 DEF MapOK
          <6>2. Ind(s, j) # 0 => t.data[Ind(s, j)] = s.data[Ind(s, j)]
            BY <4>5, <5>2, <6>1, Zenon DEF Addrs
          <6> QED  BY <5>1, <5>4, <6>2, Zenon DEF At
        <5>5. CASE ~ (l <= NDIRECT) /\ j = i
          <6>1. l - (NDIRECT + 1) \in 0..(NINDIRECT - 1) /\ (l - (NDIRECT + 1) = k <=> l = q)
            BY <5>5, Sizes DEF Keys, MAXFILE
          <6>2. At(t, j, l) = t.data[c].ptrs[l - (NDIRECT + 1)]
            BY <5>1, <5>5, Zenon DEF At
          <6>3. At(s, j, l) = s.data[c].ptrs[l - (NDIRECT + 1)]
            BY <5>5, Zenon DEF At
          <6> QED  BY <4>4, <5>5, <6>1, <6>2, <6>3, Zenon
        <5> QED  BY <5>3, <5>4, <5>5, Zenon
      <4>7. \A d \in s.used : t.data[d].bytes = s.data[d].bytes
        <5>1. s.used \subseteq Blocks
          BY <2>1, FsTypes, Zenon
        <5>2. t.data[c].bytes = s.data[c].bytes
          BY <2>2, <4>2, <4>3, Zenon
        <5> QED  BY <4>5, <5>1, <5>2, Zenon
      <4>8. \A j \in Inodes : t.mem[j].size = s.mem[j].size /\ (j # i => t.mem[j] = s.mem[j])
        BY <4>1, <4>2, Zenon
      <4>9. Grows(s, t, i, q, b)
        BY <2>6, <4>1, <4>2, <4>6, <4>7, <4>8, Zenon DEF Grows
      <4>10. Keeps(s, t, i)
        BY <2>1, <4>9, <1>GrowsKeeps, Zenon
      <4>11. At(t, i, q) = b /\ b # 0
        BY <2>1, <4>6, Sizes, Zenon
      <4> QED  BY <4>1, <4>2, <4>10, <4>11, ZenonT(40) DEF Logged
    <3>4. u = Ret(s, 0) \/ \E b \in Blocks \ s.used : u = Took(s, b)
      BY <2>1, <1>Balloc, Zenon DEF u
    <3> QED  BY <2>6, <3>2, <3>3, <3>4, Zenon DEF t
  <2> QED  BY <2>5, <2>6, Zenon
<1> SUFFICES ASSUME NEW s, MapOK(s), s.log = {}, NEW i \in Inodes, NEW bn \in 0..(MAXFILE - 1)
             PROVE  LET t == bmap(s, i, bn) IN
                    /\ Keeps(s, t, i) /\ t.ret = At(t, i, Key(bn))
                    /\ At(s, i, Key(bn)) # 0 => t.log = {}
                    /\ t.log \subseteq Logged(t.ret) \cup IndLog(t, i)
                    /\ t.ret = 0 => t.log \subseteq IndLog(t, i)
  BY Zenon
<1>1. CASE bn < NDIRECT
  <2>1. bn \in 0..NDIRECT /\ Key(bn) = bn /\ bmap(s, i, bn) = mapaddr(s, i, bn)
    BY <1>1, Sizes DEF Key, bmap
  <2> DEFINE t == mapaddr(s, i, bn)
  <2>2. /\ Keeps(s, t, i) /\ t.ret = At(t, i, bn)
        /\ At(s, i, bn) # 0 \/ t.ret = 0 => t.log = s.log
        /\ t.log \subseteq s.log \cup Logged(t.ret)
    BY <2>1, <1>MapAddr, Zenon
  <2> HIDE DEF t
  <2> QED  BY <2>1, <2>2, Zenon DEF t
<1>2. CASE ~ (bn < NDIRECT)
  <2> DEFINE u == mapaddr(s, i, NDIRECT)
             t == bmap(s, i, bn)
             k == bn - NDIRECT
  <2>1. /\ NDIRECT \in 0..NDIRECT /\ Key(bn) = NDIRECT + 1 + k /\ k \in 0..(NINDIRECT - 1)
        /\ bn < MAXFILE /\ Key(bn) \in Keys /\ ~ (Key(bn) <= NDIRECT)
    BY <1>2, Sizes DEF Key, MAXFILE, Keys
  <2>2. /\ Keeps(s, u, i) /\ u.ret = At(u, i, NDIRECT)
        /\ At(s, i, NDIRECT) # 0 \/ u.ret = 0 => u.log = s.log
        /\ u.log \subseteq s.log \cup Logged(u.ret)
    BY <2>1, <1>MapAddr, Zenon
  <2>3. t = IF u.ret = 0 THEN u ELSE mapptr(u, u.ret, k)
    BY <1>2, <2>1, Zenon DEF bmap
  <2>4. MapOK(u) /\ u.ret = Ind(u, i) /\ Ind(s, i) = At(s, i, NDIRECT)
    BY <2>2, IndFacts, Zenon DEF Keeps
  <2> HIDE DEF t, u, k
  <2>5. At(s, i, Key(bn)) # 0 => Ind(s, i) # 0
    BY <2>1, Zenon DEF At
  <2>6. CASE u.ret = 0
    <3>1. At(u, i, Key(bn)) = 0
      BY <2>1, <2>4, <2>6, Zenon DEF At
    <3>2. t = u /\ t.log = {}
      BY <2>2, <2>3, <2>6, Zenon
    <3> QED  BY <2>2, <2>6, <3>1, <3>2, Zenon DEF t
  <2>7. CASE u.ret # 0
    <3>1. t = mapptr(u, Ind(u, i), k)
      BY <2>3, <2>4, <2>7, Zenon
    <3>2. /\ Keeps(u, t, i) /\ t.ret = At(t, i, Key(bn))
          /\ At(u, i, Key(bn)) # 0 \/ t.ret = 0 => t.log = u.log
          /\ t.log \subseteq u.log \cup Logged(t.ret) \cup {<<"block", Ind(u, i)>>}
      BY <2>1, <2>4, <2>7, <3>1, <1>MapPtr
    <3>3. Keeps(s, t, i)
      BY <2>2, <3>2, <1>KeepsTrans, Zenon
    <3>4. Ind(t, i) = Ind(u, i) /\ Ind(t, i) # 0
      <4>1. MapOK(t)
        BY <3>2, Zenon DEF Keeps
      <4>2. NDIRECT \in Keys /\ Ind(t, i) = At(t, i, NDIRECT) /\ Ind(u, i) = At(u, i, NDIRECT)
        BY <2>4, <4>1, IndFacts, Zenon
      <4> QED  BY <2>4, <2>7, <3>2, <4>2, Zenon DEF Keeps
    <3>5. u.log \subseteq IndLog(t, i) /\ {<<"block", Ind(u, i)>>} \subseteq IndLog(t, i)
      BY <2>2, <2>4, <3>4, Zenon DEF IndLog, Logged
    <3>6. At(s, i, Key(bn)) # 0 => At(u, i, Key(bn)) # 0 /\ u.log = {}
      BY <2>1, <2>2, <2>4, <2>5, Zenon DEF Keeps
    <3> QED  BY <3>2, <3>3, <3>5, <3>6, Zenon DEF t
  <2> QED  BY <2>6, <2>7, Zenon
<1> QED  BY <1>1, <1>2, Zenon
-----------------------------------------------------------------------------
(* Arithmetic of offsets and blocks.                                        *)

(* What division and remainder are.                                         *)
LEMMA DivMod ==
  ASSUME NEW a \in Nat, NEW N \in Nat \ {0}
  PROVE  a \div N \in Nat /\ a % N \in 0..(N - 1) /\ a = N * (a \div N) + (a % N)
OBVIOUS

(* Quotient and remainder are unique.                                       *)
LEMMA DivModUnique ==
  ASSUME NEW N \in Nat \ {0}, NEW q \in Nat, NEW r \in 0..(N - 1)
  PROVE  (N * q + r) \div N = q /\ (N * q + r) % N = r
OBVIOUS

(* Products grow with their factors.                                        *)
LEMMA MulLess ==
  ASSUME NEW N \in Nat \ {0}, NEW a \in Int, NEW b \in Int
  PROVE  N * a \in Int /\ N * b \in Int /\ (N * a < N * b <=> a < b)
OBVIOUS

(* Multiplication distributes.                                              *)
LEMMA MulAdd ==
  ASSUME NEW N \in Nat \ {0}, NEW a \in Int, NEW b \in Int
  PROVE  N * (a + b) = N * a + N * b /\ N * 1 = N /\ N * a \in Int /\ N * b \in Int
OBVIOUS

(* An offset below a number of blocks is in one of them.                    *)
LEMMA DivLess ==
  ASSUME NEW N \in Nat \ {0}, NEW M \in Nat, NEW x \in Nat, x < M * N
  PROVE  x \div N < M
<1> DEFINE q == x \div N
<1>1. q \in Nat /\ x % N \in 0..(N - 1) /\ x = N * q + (x % N)
  BY DivMod, Zenon
<1> HIDE DEF q
<1>2. N * q \in Int /\ M * N = N * M /\ N * M \in Int /\ (N * q < N * M <=> q < M)
  BY <1>1, MulLess
<1>3. N * q < N * M
  BY <1>1, <1>2
<1> QED  BY <1>2, <1>3, Zenon DEF q

(* The bytes of one block are those with the same quotient.                 *)
LEMMA SameBlock ==
  ASSUME NEW N \in Nat \ {0}, NEW o \in Nat, NEW m \in Nat, m <= N - (o % N), NEW x \in Nat
  PROVE  o <= x /\ x < o + m
           <=> x \div N = o \div N /\ o % N <= x % N /\ x % N < (o % N) + m
<1> DEFINE q == o \div N
           s == x \div N
           a == o % N
           b == x % N
<1>1. q \in Nat /\ a \in 0..(N - 1) /\ o = N * q + a
  BY DivMod, Zenon
<1>2. s \in Nat /\ b \in 0..(N - 1) /\ x = N * s + b
  BY DivMod, Zenon
<1>3. m <= N - a
  OBVIOUS
<1> HIDE DEF q, s, a, b
<1>4. N * q \in Int /\ N * s \in Int
  BY <1>1, <1>2
<1>5. CASE s = q
  BY <1>1, <1>2, <1>3, <1>4, <1>5 DEF q, s, a, b
<1>6. CASE s < q
  <2>1. s + 1 \in Int /\ (q < s + 1 <=> N * q < N * (s + 1)) /\ N * (s + 1) = N * s + N
    BY <1>1, <1>2, MulLess, MulAdd
  <2>2. ~ (q < s + 1)
    BY <1>1, <1>2, <1>6
  <2>3. x < o
    BY <1>1, <1>2, <1>4, <2>1, <2>2
  <2> QED  BY <1>1, <1>2, <1>6, <2>3 DEF q, s
<1>7. CASE q < s
  <2>1. q + 1 \in Int /\ (s < q + 1 <=> N * s < N * (q + 1)) /\ N * (q + 1) = N * q + N
    BY <1>1, <1>2, MulLess, MulAdd
  <2>2. ~ (s < q + 1)
    BY <1>1, <1>2, <1>7
  <2>3. o + m <= x
    BY <1>1, <1>2, <1>3, <1>4, <2>1, <2>2
  <2> QED  BY <1>1, <1>2, <1>7, <2>3 DEF q, s
<1> QED  BY <1>1, <1>2, <1>5, <1>6, <1>7

(* A write that fills its block goes on at the start of the next one.       *)
LEMMA NextBlock ==
  ASSUME NEW N \in Nat \ {0}, NEW o \in Nat, NEW m, m = N - (o % N)
  PROVE  m \in Nat /\ (o + m) % N = 0 /\ (o + m) \div N = (o \div N) + 1
<1> DEFINE q == o \div N
           a == o % N
<1>1. q \in Nat /\ a \in 0..(N - 1) /\ o = N * q + a
  BY DivMod, Zenon
<1>2. m = N - a
  OBVIOUS
<1> HIDE DEF q, a
<1>3. N * (q + 1) = N * q + N /\ N * q \in Int
  BY <1>1, MulAdd
<1>4. o + m = N * (q + 1) + 0 /\ q + 1 \in Nat /\ 0 \in 0..(N - 1)
  BY <1>1, <1>2, <1>3
<1>5. (N * (q + 1) + 0) \div N = q + 1 /\ (N * (q + 1) + 0) % N = 0
  BY <1>4, DivModUnique, Zenon
<1> QED  BY <1>1, <1>2, <1>4, <1>5 DEF q

-----------------------------------------------------------------------------
(* The inductive invariant.                                                 *)
Entries == {"bitmap", "block", "inode"} \X Nat
ThRec == [pc : {"idle", "chunk", "loop", "end"}, f : 0..NFILE, ip : Inodes, n : Nat, i : Nat,
          n1 : Nat, tot : Nat, off : Nat, log : SUBSET Entries]

Typed ==
  /\ lock \in [Inodes -> Procs \cup {0}] /\ off \in [Files -> 0..(MAXFILE * BSIZE)]
  /\ th \in [Procs -> ThRec] /\ content \in [Inodes -> Seq(SUBSET Procs)] /\ calls \in 0..MaxCalls
  /\ kept \in [Blocks -> SUBSET [Bytes -> Procs \cup {0}]]

Quiet == fs.ret = 0 /\ fs.log = {} /\ fs.panic = ""

(* The lock of an inode is held for the time of one writei.                 *)
Busy(p) == th[p].pc \in {"loop", "end"}
Locks ==
  /\ \A p \in Procs : Busy(p) => lock[th[p].ip] = p
  /\ \A i \in Inodes : lock[i] # 0 => \E p \in Procs : Busy(p) /\ th[p].ip = i

(* Where a write stands: its offset, the block it is in, what is left.      *)
Calling(p) ==
  LET t == th[p] IN
  /\ t.pc # "idle" => t.f \in Files /\ t.ip = Ip(t.f) /\ t.i < t.n
  /\ ~ Busy(p) => t.n1 = 0 /\ t.tot = 0 /\ t.log = {}
  /\ t.tot <= t.n1 /\ t.i + t.n1 <= t.n
  /\ Busy(p) => /\ t.off = off[t.f] + t.tot /\ off[t.f] <= fs.mem[t.ip].size
                /\ off[t.f] + t.n1 <= MAXFILE * BSIZE /\ t.n1 <= ChunkMax
  /\ t.pc = "loop" => t.tot < t.n1 /\ (t.tot = 0 \/ t.off % BSIZE = 0)

(* Byte x of a file is in V, also after its block is read from disk again.  *)
Holds(s, K, i, x, V) ==
  LET b == At(s, i, Key(x \div BSIZE)) IN
  /\ b # 0 /\ s.data[b].bytes[x % BSIZE] \in V
  /\ \A d \in K[b] : d[x % BSIZE] \in V

(* A file that nobody writes.                                               *)
Stored(i) ==
  /\ Len(content[i]) = fs.mem[i].size
  /\ lock[i] = 0 => /\ fs.disk[i] = fs.mem[i]
                    /\ \A x \in 0..(fs.mem[i].size - 1) : Holds(fs, kept, i, x, content[i][x + 1])

(* A file in the middle of a write: the bytes behind the offset are new,    *)
(* the others are old.                                                      *)
Writing(p) ==
  LET t == th[p]
      o == off[t.f]
  IN  Busy(p) =>
        /\ \A x \in o..(t.off - 1) : Holds(fs, kept, t.ip, x, {p})
        /\ \A x \in 0..(fs.mem[t.ip].size - 1) :
             ~ (o <= x /\ x < t.off) => Holds(fs, kept, t.ip, x, content[t.ip][x + 1])

(* Two log entries for each block behind the offset, one if it was there    *)
(* already because the write started in its middle.                         *)
Room == (MAXOPBLOCKS - 4) \div 2
LogSmall(p) ==
  LET t == th[p]
      o == off[t.f]
      logged == Cardinality(t.log \ IndLog(fs, t.ip))
  IN  Busy(p) =>
        /\ IsFiniteSet(t.log)
        /\ t.pc = "loop" =>
             logged <= 2 * ((t.off \div BSIZE) - (o \div BSIZE)) - (IF o % BSIZE # 0 /\ t.tot > 0 THEN 1 ELSE 0)
        /\ t.pc = "end" => logged <= 2 * Room + 1

FInv ==
  /\ MapOK(fs) /\ Typed /\ Quiet /\ Locks
  /\ \A p \in Procs : Calling(p) /\ Writing(p) /\ LogSmall(p)
  /\ \A i \in Inodes : Stored(i)
-----------------------------------------------------------------------------
(* What a step of one process leaves to the others.                         *)

(* The block of an offset has a pointer, one of its own.                    *)
LEMMA KeyIn ==
  ASSUME NEW x \in Nat, x < MAXFILE * BSIZE
  PROVE  x \div BSIZE \in 0..(MAXFILE - 1) /\ x % BSIZE \in Bytes
<1>1. BSIZE \in Nat \ {0} /\ MAXFILE \in Nat
  BY Sizes, Zenon
<1>2. x \div BSIZE \in Nat /\ x % BSIZE \in 0..(BSIZE - 1)
  BY <1>1, DivMod, Zenon
<1>3. x \div BSIZE < MAXFILE
  BY <1>1, DivLess, Zenon
<1> HIDE DEF MAXFILE
<1> QED  BY ONLY <1>1, <1>2, <1>3 DEF Bytes

(* Different blocks of a file have different pointers.                      *)
LEMMA KeyOwn ==
  ASSUME NEW b \in 0..(MAXFILE - 1)
  PROVE  Key(b) \in Keys /\ Key(b) # NDIRECT /\ \A c \in 0..(MAXFILE - 1) : Key(b) = Key(c) => b = c
BY Sizes DEF Key, Keys, MAXFILE

(* Inode i and the bytes of its blocks are the same.                        *)
SameFile(s, t, i) ==
  /\ t.mem[i] = s.mem[i] /\ t.disk[i] = s.disk[i]
  /\ \A l \in Keys : At(t, i, l) = At(s, i, l)
  /\ \A l \in Keys : At(s, i, l) # 0 => t.data[At(s, i, l)].bytes = s.data[At(s, i, l)].bytes

(* No block of inode i gets other bytes on disk.                            *)
KeptLess(s, K, L, i) == \A l \in Keys : At(s, i, l) # 0 => L[At(s, i, l)] \subseteq K[At(s, i, l)]

(* The bytes of a file that stays the same.                                 *)
LEMMA HoldsSame ==
  ASSUME NEW s, NEW K, NEW t, NEW L, NEW i, SameFile(s, t, i), KeptLess(s, K, L, i),
         NEW x \in Nat, x < MAXFILE * BSIZE, NEW v, Holds(s, K, i, x, v)
  PROVE  Holds(t, L, i, x, v)
<1>1. Key(x \div BSIZE) \in Keys
  BY KeyIn, KeyOwn, Zenon
<1> DEFINE b == At(s, i, Key(x \div BSIZE))
<1>2. b # 0 /\ s.data[b].bytes[x % BSIZE] \in v /\ \A d \in K[b] : d[x % BSIZE] \in v
  BY Zenon DEF Holds
<1>3. At(t, i, Key(x \div BSIZE)) = b /\ t.data[b].bytes = s.data[b].bytes /\ L[b] \subseteq K[b]
  BY <1>1, <1>2, Zenon DEF SameFile, KeptLess
<1> QED  BY <1>2, <1>3, Zenon DEF Holds

(* A process whose file and offset another step leaves alone.               *)
LEMMA Frame ==
  ASSUME Typed, fs \in FsRec, NEW q \in Procs, th'[q] = th[q],
         Busy(q) => /\ SameFile(fs, fs', th[q].ip) /\ KeptLess(fs, kept, kept', th[q].ip)
                    /\ content'[th[q].ip] = content[th[q].ip] /\ off'[th[q].f] = off[th[q].f],
         Calling(q), Writing(q), LogSmall(q)
  PROVE  Calling(q)' /\ Writing(q)' /\ LogSmall(q)'
<1> DEFINE t == th[q]
           o == off[t.f]
<1>0. t \in ThRec /\ t.off \in Nat /\ t.ip \in Inodes
  BY Zenon DEF Typed, ThRec
<1>1. th'[q] = t /\ (Busy(q)' <=> Busy(q))
  BY Zenon DEF Busy
<1>2. CASE ~ Busy(q)
  <2>1. Calling(q)'
    BY <1>1, <1>2, Zenon DEF Calling, Busy
  <2> QED  BY <1>1, <1>2, <2>1, Zenon DEF Writing, LogSmall
<1>3. CASE Busy(q)
  <2>1. off'[t.f] = o /\ fs'.mem[t.ip] = fs.mem[t.ip] /\ content'[t.ip] = content[t.ip]
        /\ SameFile(fs, fs', t.ip) /\ KeptLess(fs, kept, kept', t.ip)
    BY <1>3, Zenon DEF SameFile
  <2>2. Calling(q)'
    BY <1>1, <2>1, Zenon DEF Calling
  <2>3. LogSmall(q)'
    <3>1. IndLog(fs', t.ip) = IndLog(fs, t.ip)
      BY <2>1, Zenon DEF IndLog, Ind
    <3> QED  BY <1>1, <2>1, <3>1, Zenon DEF LogSmall
  <2>4. Writing(q)'
    <3>1. t.f \in Files /\ o \in Nat /\ o + t.n1 <= MAXFILE * BSIZE /\ t.off = o + t.tot /\ t.tot <= t.n1
      BY <1>3, Sizes DEF Calling, Busy, Typed
    <3>2. t.n1 \in Nat /\ t.tot \in Nat /\ MAXFILE * BSIZE \in Nat
      BY <1>0, Sizes, Zenon DEF ThRec
    <3>3. ASSUME NEW x \in o..(t.off - 1) PROVE Holds(fs', kept', t.ip, x, {q})
      <4>1. x \in Nat /\ x < MAXFILE * BSIZE
        BY ONLY <1>0, <3>1, <3>2, <3>3
      <4>2. Holds(fs, kept, t.ip, x, {q})
        BY <1>3, Zenon DEF Writing
      <4> QED  BY <2>1, <4>1, <4>2, HoldsSame, Zenon
    <3>4. ASSUME NEW x \in 0..(fs.mem[t.ip].size - 1), ~ (o <= x /\ x < t.off)
          PROVE  Holds(fs', kept', t.ip, x, content[t.ip][x + 1])
      <4>0. fs.mem[t.ip].size \in 0..(MAXFILE * BSIZE)
        BY <1>0, FsTypes, Zenon
      <4>1. x \in Nat /\ x < MAXFILE * BSIZE
        BY ONLY <3>2, <4>0, <3>4
      <4>2. Holds(fs, kept, t.ip, x, content[t.ip][x + 1])
        BY <1>3, <3>4, Zenon DEF Writing
      <4> DEFINE v == content[t.ip][x + 1]
      <4>3. Holds(fs, kept, t.ip, x, v)
        BY <4>2, Zenon
      <4> HIDE DEF v
      <4>4. Holds(fs', kept', t.ip, x, v)
        BY <2>1, <4>1, <4>3, HoldsSame, Zenon
      <4> QED  BY <4>4, Zenon DEF v
    <3> HIDE DEF t, o
    <3>5. th'[q].ip = t.ip /\ th'[q].off = t.off /\ off'[th'[q].f] = o /\ content'[th'[q].ip] = content[t.ip]
          /\ fs'.mem[th'[q].ip].size = fs.mem[t.ip].size
      BY <1>1, <2>1, Zenon
    <3> QED  BY <1>1, <3>3, <3>4, <3>5, Zenon DEF Writing
  <2> QED  BY <2>2, <2>3, <2>4, Zenon
<1> QED  BY <1>2, <1>3, Zenon

(* A file that a step leaves alone.                                         *)
LEMMA FrameStored ==
  ASSUME fs \in FsRec, NEW i \in Inodes, SameFile(fs, fs', i), KeptLess(fs, kept, kept', i),
         content'[i] = content[i], lock'[i] = 0 => lock[i] = 0, Stored(i)
  PROVE  Stored(i)'
<1>1. fs'.mem[i] = fs.mem[i] /\ fs'.disk[i] = fs.disk[i]
  BY Zenon DEF SameFile
<1>2. ASSUME lock[i] = 0, NEW x \in 0..(fs.mem[i].size - 1)
      PROVE  Holds(fs', kept', i, x, content[i][x + 1])
  <2>0. fs.mem[i].size \in 0..(MAXFILE * BSIZE) /\ MAXFILE * BSIZE \in Nat
    BY FsTypes, Sizes, Zenon
  <2>1. x \in Nat /\ x < MAXFILE * BSIZE
    BY ONLY <2>0, <1>2
  <2>2. Holds(fs, kept, i, x, content[i][x + 1])
    BY <1>2, Zenon DEF Stored
  <2> DEFINE v == content[i][x + 1]
  <2>3. Holds(fs, kept, i, x, v)
    BY <2>2, Zenon
  <2> HIDE DEF v
  <2>4. Holds(fs', kept', i, x, v)
    BY <2>1, <2>3, HoldsSame, Zenon
  <2> QED  BY <2>4, Zenon DEF v
<1> QED  BY <1>1, <1>2, Zenon DEF Stored

(* The part of the log that a chunk of a write may use.                     *)
LEMMA ChunkRoom ==
  /\ Room \in Nat \ {0} /\ 2 * Room + 4 <= MAXOPBLOCKS
  /\ ChunkMax = Room * BSIZE /\ ChunkMax \in Nat \ {0}
<1>1. MAXOPBLOCKS \in Nat /\ MAXOPBLOCKS >= 6 /\ BSIZE \in Nat \ {0}
  BY FileMapConstants, Sizes, Zenon
<1>2. Room \in Nat \ {0} /\ 2 * Room + 4 <= MAXOPBLOCKS
  BY ONLY <1>1 DEF Room
<1>3. MAXOPBLOCKS - 1 - 1 - 2 = MAXOPBLOCKS - 4
  BY ONLY <1>1
<1>4. ChunkMax = Room * BSIZE
  BY <1>3, Zenon DEF ChunkMax, Room
<1>5. Room * BSIZE \in Nat \ {0}
  BY ONLY <1>1, <1>2
<1> QED  BY <1>2, <1>4, <1>5, Zenon

(* Two writers have different inodes and different open files.              *)
LEMMA WritersApart ==
  ASSUME Locks, NEW p \in Procs, NEW q \in Procs, p # q, Busy(p), Busy(q), Calling(p), Calling(q)
  PROVE  th[q].ip # th[p].ip /\ th[q].f # th[p].f
<1>1. th[q].ip # th[p].ip
  BY Zenon DEF Locks
<1>2. th[q].ip = Ip(th[q].f) /\ th[p].ip = Ip(th[p].f)
  <2>1. th[q].pc # "idle" /\ th[p].pc # "idle"
    BY DEF Busy
  <2> QED  BY <2>1, Zenon DEF Calling
<1> QED  BY <1>1, <1>2, Zenon

(* A file whose lock is free has no writer.                                 *)
LEMMA FreeApart ==
  ASSUME Locks, NEW i, lock[i] = 0, NEW q \in Procs, Busy(q)
  PROVE  th[q].ip # i
BY Sizes, Zenon DEF Locks

(* A process between two calls.                                             *)
LEMMA IdleFields ==
  /\ Idle \in ThRec /\ Idle.pc = "idle" /\ Idle.tot = 0 /\ Idle.n1 = 0 /\ Idle.i = 0 /\ Idle.n = 0
  /\ Idle.log = {} /\ Idle.f \notin Files
<1>1. 0 \in Inodes /\ NFILE \in 0..NFILE /\ NFILE \notin Files
  BY Sizes DEF Inodes, Files
<1> QED  BY <1>1 DEF Idle, ThRec

(* An open file has an inode.                                               *)
LEMMA IpIn == ASSUME NEW f \in Files PROVE Ip(f) \in Inodes
BY Sizes DEF Ip, Files, Inodes

(* A file is the same as itself.                                            *)
LEMMA SameSelf == ASSUME NEW s, NEW i PROVE SameFile(s, s, i)
BY Zenon DEF SameFile

(* No block changed without log_write.                                      *)
LEMMA KeptSelf == ASSUME NEW s, NEW K, NEW L, L = K, NEW i PROVE KeptLess(s, K, L, i)
BY Zenon DEF KeptLess

(* bmap for one inode and the others.                                       *)
LEMMA KeepsOthers ==
  ASSUME NEW s, MapOK(s), NEW t, NEW i \in Inodes, Keeps(s, t, i), NEW j \in Inodes, j # i
  PROVE  SameFile(s, t, j)
<1>1. t.mem[j] = s.mem[j] /\ t.disk[j] = s.disk[j] /\ \A l \in Keys : At(t, j, l) = At(s, j, l)
  BY Zenon DEF Keeps
<1>2. ASSUME NEW l \in Keys, At(s, j, l) # 0
      PROVE  t.data[At(s, j, l)].bytes = s.data[At(s, j, l)].bytes
  BY <1>2, AtUsed, Zenon DEF Keeps
<1> QED  BY <1>1, <1>2, Zenon DEF SameFile

(* A step that takes and releases no lock.                                  *)
LEMMA LocksKept ==
  ASSUME Locks, lock' = lock,
         \A q \in Procs : (Busy(q)' <=> Busy(q)) /\ (Busy(q) => th'[q].ip = th[q].ip)
  PROVE  Locks'
<1>1. ASSUME NEW q \in Procs, Busy(q)' PROVE lock'[th'[q].ip] = q
  BY <1>1, Zenon DEF Locks
<1>2. ASSUME NEW i \in Inodes, lock'[i] # 0 PROVE \E q \in Procs : Busy(q)' /\ th'[q].ip = i
  BY <1>2, Zenon DEF Locks
<1> QED  BY <1>1, <1>2, Zenon DEF Locks

-----------------------------------------------------------------------------
(* The steps.                                                               *)

(* Nothing is allocated at first.                                           *)
LEMMA InitInv == ASSUME Init PROVE FInv
<1>0. /\ fs.used = {} /\ fs.data = [b \in Blocks |-> Zeroed] /\ fs.mem = [i \in Inodes |-> Empty]
      /\ fs.disk = [i \in Inodes |-> Empty] /\ fs.ret = 0 /\ fs.log = {} /\ fs.panic = ""
  BY Zenon DEF Init
<1>1. fs \in FsRec
  <2>1. fs = [used |-> fs.used, data |-> fs.data, mem |-> fs.mem, disk |-> fs.disk, ret |-> fs.ret,
              log |-> fs.log, panic |-> fs.panic]
    BY Zenon DEF Init
  <2>2. /\ fs.used \in SUBSET Blocks /\ fs.data \in [Blocks -> Cell] /\ fs.ret \in Addrs
        /\ fs.log \in SUBSET ({"bitmap", "block", "inode"} \X Nat)
        /\ fs.mem \in [Inodes -> Dinode] /\ fs.disk \in [Inodes -> Dinode] /\ fs.panic \in Panics
    <3>1. "" \in Panics /\ 0 \in Addrs
      BY Zenon DEF Addrs, Panics
    <3> QED  BY <1>0, <3>1, Sizes, Zenon
  <2> QED  BY ONLY <2>1, <2>2 DEF FsRec
<1>2. ASSUME NEW i \in Inodes, NEW k \in Keys PROVE At(fs, i, k) = 0
  <2>1. fs.mem[i] = Empty
    BY <1>0, Zenon
  <2>2. NDIRECT \in 0..NDIRECT /\ (k <= NDIRECT => k \in 0..NDIRECT)
    BY Sizes DEF Keys
  <2>3. \A l \in 0..NDIRECT : Empty.addrs[l] = 0
    BY Zenon DEF Empty
  <2> QED  BY <2>1, <2>2, <2>3, Zenon DEF At, Ind
<1>3. MapOK(fs)
  <2>1. \A b \in Blocks : b \in fs.used <=> \E i \in Inodes, k \in Keys : At(fs, i, k) = b
    <3>1. \A b \in Blocks : b # 0 /\ b \notin fs.used
      BY <1>0, Sizes, Zenon
    <3> QED  BY <1>2, <3>1, Zenon
  <2>2. \A i, j \in Inodes : \A k, l \in Keys :
          At(fs, i, k) # 0 /\ At(fs, i, k) = At(fs, j, l) => i = j /\ k = l
    BY <1>2, Zenon
  <2> QED  BY <1>1, <2>1, <2>2, Zenon DEF MapOK
<1>4. ASSUME NEW p \in Procs
      PROVE  /\ th[p].pc = "idle" /\ th[p].n = 0 /\ th[p].i = 0 /\ th[p].n1 = 0
             /\ th[p].tot = 0 /\ th[p].log = {}
  BY Zenon DEF Init, Idle
<1>5. ASSUME NEW p \in Procs PROVE ~ Busy(p)
  BY <1>4 DEF Busy
<1>6. Typed
  <2>1. Idle \in ThRec
    BY IdleFields, Zenon
  <2>2. 0 \in 0..(MAXFILE * BSIZE) /\ 0 \in 0..MaxCalls
    BY Sizes, FileMapConstants
  <2>3. <<>> \in Seq(SUBSET Procs)
    OBVIOUS
  <2>4. lock \in [Inodes -> Procs \cup {0}] /\ th \in [Procs -> ThRec]
    BY <2>1, Zenon DEF Init
  <2>5. off \in [Files -> 0..(MAXFILE * BSIZE)] /\ content \in [Inodes -> Seq(SUBSET Procs)] /\ calls \in 0..MaxCalls
    BY <2>2, <2>3, Zenon DEF Init
  <2>6. kept \in [Blocks -> SUBSET [Bytes -> Procs \cup {0}]]
    BY Zenon DEF Init
  <2> QED  BY <2>4, <2>5, <2>6, Zenon DEF Typed
<1>7. Quiet
  BY <1>0, Zenon DEF Quiet
<1>8. Locks
  BY <1>5, Zenon DEF Locks, Init
<1>9. ASSUME NEW p \in Procs PROVE Calling(p) /\ Writing(p) /\ LogSmall(p)
  <2>1. Calling(p)
    BY <1>4, <1>5 DEF Calling
  <2> QED  BY <1>5, <2>1, Zenon DEF Writing, LogSmall
<1>10. ASSUME NEW i \in Inodes PROVE Stored(i)
  <2>1. fs.mem[i] = Empty /\ fs.disk[i] = Empty /\ Empty.size = 0 /\ content[i] = <<>>
    BY <1>0, Zenon DEF Init, Empty
  <2>2. Len(<<>>) = 0 /\ \A x : x \notin 0..(0 - 1)
    OBVIOUS
  <2> QED  BY <2>1, <2>2, Zenon DEF Stored
<1> QED  BY <1>3, <1>6, <1>7, <1>8, <1>9, <1>10, Zenon DEF FInv

(* A call of write.                                                         *)
LEMMA WriteStep == ASSUME FInv, NEW p \in Procs, Write(p) PROVE FInv'
<1>0. MapOK(fs) /\ Typed /\ Quiet /\ Locks /\ fs \in FsRec
  BY Zenon DEF FInv, MapOK
<1>1. PICK f \in Files, n \in WriteCounts :
        /\ th[p].pc = "idle" /\ n > 0 /\ Called
        /\ th' = [th EXCEPT ![p] = [Idle EXCEPT !.pc = "chunk", !.f = f, !.ip = Ip(f), !.n = n]]
        /\ UNCHANGED <<fs, lock, off, kept, content>>
  BY Zenon DEF Write
<1> DEFINE u == [Idle EXCEPT !.pc = "chunk", !.f = f, !.ip = Ip(f), !.n = n]
<1>2. n \in Nat /\ n > 0 /\ f \in 0..NFILE /\ Ip(f) \in Inodes
  <2>1. Ip(f) \in Inodes
    BY IpIn, Zenon
  <2>2. n \in Nat /\ n > 0 /\ f \in 0..NFILE
    BY <1>1, Sizes, FileMapConstants DEF Files
  <2> QED  BY <2>1, <2>2, Zenon
<1>3. /\ Idle \in ThRec /\ Idle.pc = "idle" /\ Idle.tot = 0 /\ Idle.n1 = 0 /\ Idle.i = 0 /\ Idle.n = 0
      /\ Idle.log = {}
  BY IdleFields, Zenon
<1>4. /\ u.pc = "chunk" /\ u.f = f /\ u.ip = Ip(f) /\ u.n = n /\ u.i = 0 /\ u.n1 = 0 /\ u.tot = 0
      /\ u.log = {} /\ u \in ThRec
  <2> DEFINE Upd(a) == [a EXCEPT !.pc = "chunk", !.f = f, !.ip = Ip(f), !.n = n]
  <2>1. ASSUME NEW a \in ThRec
        PROVE  /\ Upd(a).pc = "chunk" /\ Upd(a).f = f /\ Upd(a).ip = Ip(f) /\ Upd(a).n = n
               /\ Upd(a).i = a.i /\ Upd(a).n1 = a.n1 /\ Upd(a).tot = a.tot /\ Upd(a).log = a.log
               /\ Upd(a) \in ThRec
    BY <1>2, Zenon DEF ThRec
  <2>2. u = Upd(Idle)
    OBVIOUS
  <2> HIDE DEF Upd
  <2> QED  BY <1>3, <2>1, <2>2, ZenonT(60)
<1> HIDE DEF u
<1>5. /\ th \in [Procs -> ThRec] /\ th' = [th EXCEPT ![p] = u]
      /\ th' \in [Procs -> ThRec] /\ th'[p] = u /\ \A q \in Procs \ {p} : th'[q] = th[q]
  BY <1>0, <1>1, <1>4, Zenon DEF Typed, u
<1>6. fs' = fs /\ lock' = lock /\ off' = off /\ kept' = kept /\ content' = content
  BY <1>1, Zenon
<1>7. calls' \in 0..MaxCalls
  BY <1>0, <1>1, FileMapConstants, SMTT(20) DEF Typed, Called
<1>8. ~ Busy(p) /\ ~ Busy(p)' /\ \A q \in Procs \ {p} : Busy(q)' <=> Busy(q)
  <2>1. "idle" \notin {"loop", "end"} /\ "chunk" \notin {"loop", "end"}
    OBVIOUS
  <2> QED  BY <1>1, <1>4, <1>5, <2>1, Zenon DEF Busy
<1>9. MapOK(fs)' /\ Quiet' /\ Typed'
  BY <1>0, <1>5, <1>6, <1>7, Zenon DEF Quiet, Typed
<1>10. Locks'
  BY <1>0, <1>5, <1>6, <1>8, LocksKept, Zenon
<1>11. ASSUME NEW q \in Procs PROVE Calling(q)' /\ Writing(q)' /\ LogSmall(q)'
  <2>1. CASE q = p
    <3>1. Calling(p)'
      <4>1. u.i < u.n /\ u.tot <= u.n1 /\ u.i + u.n1 <= u.n
        BY ONLY <1>2, <1>4
      <4>2. u.pc # "loop"
        BY ONLY <1>4
      <4> QED  BY <1>1, <1>4, <1>5, <1>8, <4>1, <4>2, Zenon DEF Calling
    <3> QED  BY <1>8, <2>1, <3>1, Zenon DEF Writing, LogSmall
  <2>2. CASE q # p
    <3>1. SameFile(fs, fs', th[q].ip) /\ KeptLess(fs, kept, kept', th[q].ip)
      BY <1>6, SameSelf, KeptSelf, Zenon
    <3>2. Calling(q) /\ Writing(q) /\ LogSmall(q) /\ th'[q] = th[q]
      BY <1>5, <2>2, Zenon DEF FInv
    <3> QED  BY <1>0, <1>6, <3>1, <3>2, Frame, Zenon
  <2> QED  BY <2>1, <2>2, Zenon
<1>12. ASSUME NEW i \in Inodes PROVE Stored(i)'
  BY <1>6, Zenon DEF FInv, Stored
<1> QED  BY <1>9, <1>10, <1>11, <1>12, Zenon DEF FInv

(* The start of a writei: its offset is in the file and the range it writes *)
(* is below the largest size.                                               *)
LEMMA ChunkStep == ASSUME SetFacts, FInv, NEW p \in Procs, Chunk(p) PROVE FInv'
<1> DEFINE t == th[p]
           n1 == Least(t.n - t.i, ChunkMax)
           o == off[t.f]
           u == [t EXCEPT !.pc = "loop", !.n1 = n1, !.tot = 0, !.off = o, !.log = {}]
<1>0. MapOK(fs) /\ Typed /\ Quiet /\ Locks /\ fs \in FsRec /\ Calling(p)
  BY Zenon DEF FInv, MapOK
<1>1. /\ t.pc = "chunk" /\ lock[t.ip] = 0
      /\ IF o > fs.mem[t.ip].size \/ o + n1 > MAXFILE * BSIZE
         THEN th' = [th EXCEPT ![p] = Idle] /\ UNCHANGED lock
         ELSE lock' = [lock EXCEPT ![t.ip] = p] /\ th' = [th EXCEPT ![p] = u]
  BY Zenon DEF Chunk
<1>2. fs' = fs /\ off' = off /\ kept' = kept /\ content' = content /\ calls' = calls
  BY Zenon DEF Chunk
<1>3. /\ t \in ThRec /\ th \in [Procs -> ThRec] /\ t.ip \in Inodes /\ t.n \in Nat /\ t.i \in Nat
      /\ lock \in [Inodes -> Procs \cup {0}] /\ off \in [Files -> 0..(MAXFILE * BSIZE)]
  BY <1>0, Zenon DEF Typed, ThRec
<1>4. ~ Busy(p)
  <2>1. "chunk" \notin {"loop", "end"}
    OBVIOUS
  <2> QED  BY <1>1, <2>1, Zenon DEF Busy
<1>5. t.f \in Files /\ t.ip = Ip(t.f) /\ t.i < t.n
  <2>1. "chunk" # "idle"
    OBVIOUS
  <2> QED  BY <1>0, <1>1, <2>1, Zenon DEF Calling
<1>6. MapOK(fs)' /\ Quiet'
  BY <1>0, <1>2, Zenon DEF Quiet
<1>7. ASSUME NEW q \in Procs, th'[q] = th[q] PROVE Calling(q)' /\ Writing(q)' /\ LogSmall(q)'
  <2>1. SameFile(fs, fs', th[q].ip) /\ KeptLess(fs, kept, kept', th[q].ip)
    BY <1>2, SameSelf, KeptSelf, Zenon
  <2>2. Calling(q) /\ Writing(q) /\ LogSmall(q)
    BY Zenon DEF FInv
  <2> QED  BY <1>0, <1>2, <1>7, <2>1, <2>2, Frame, Zenon
<1>8. CASE o > fs.mem[t.ip].size \/ o + n1 > MAXFILE * BSIZE
  <2>1. th' = [th EXCEPT ![p] = Idle] /\ lock' = lock
    BY <1>1, <1>8, Zenon
  <2>2. /\ Idle \in ThRec /\ Idle.pc = "idle" /\ Idle.tot = 0 /\ Idle.n1 = 0 /\ Idle.i = 0 /\ Idle.n = 0
        /\ Idle.log = {}
    BY IdleFields, Zenon
  <2>3. th' \in [Procs -> ThRec] /\ th'[p] = Idle /\ \A q \in Procs \ {p} : th'[q] = th[q]
    BY <1>3, <2>1, <2>2, Zenon
  <2>4. ~ Busy(p)' /\ \A q \in Procs \ {p} : Busy(q)' <=> Busy(q)
    <3>1. "idle" \notin {"loop", "end"}
      OBVIOUS
    <3> QED  BY <2>2, <2>3, <3>1, Zenon DEF Busy
  <2>5. Typed'
    BY <1>0, <1>2, <2>1, <2>3, Zenon DEF Typed
  <2>6. Locks'
    BY <1>0, <1>4, <2>1, <2>3, <2>4, LocksKept, Zenon
  <2>7. Calling(p)' /\ Writing(p)' /\ LogSmall(p)'
    <3>1. 0 <= 0 /\ 0 + 0 <= 0 /\ "idle" # "loop"
      OBVIOUS
    <3>2. Calling(p)'
      BY <2>2, <2>3, <2>4, <3>1, Zenon DEF Calling
    <3> QED  BY <2>4, <3>2, Zenon DEF Writing, LogSmall
  <2>8. ASSUME NEW i \in Inodes PROVE Stored(i)'
    BY <1>2, <2>1, Zenon DEF FInv, Stored
  <2> QED  BY <1>6, <1>7, <2>3, <2>5, <2>6, <2>7, <2>8, Zenon DEF FInv
<1>9. CASE ~ (o > fs.mem[t.ip].size \/ o + n1 > MAXFILE * BSIZE)
  <2>0. o \in Nat /\ o <= fs.mem[t.ip].size /\ o + n1 <= MAXFILE * BSIZE /\ n1 \in Nat \ {0}
        /\ n1 <= ChunkMax /\ t.i + n1 <= t.n
    <3>1. fs.mem[t.ip].size \in 0..(MAXFILE * BSIZE) /\ MAXFILE * BSIZE \in Nat /\ ChunkMax \in Nat \ {0}
      BY <1>0, <1>3, FsTypes, Sizes, ChunkRoom, Zenon
    <3>2. o \in 0..(MAXFILE * BSIZE)
      BY <1>3, <1>5, Zenon
    <3>3. n1 \in Nat \ {0} /\ n1 <= ChunkMax /\ t.i + n1 <= t.n
      BY ONLY <1>3, <1>5, <3>1 DEF Least
    <3> HIDE DEF n1
    <3> QED  BY ONLY <1>9, <3>1, <3>2, <3>3
  <2>1. th' = [th EXCEPT ![p] = u] /\ lock' = [lock EXCEPT ![t.ip] = p]
    BY <1>1, <1>9, Zenon
  <2> HIDE DEF n1, o
  <2>2. /\ u.pc = "loop" /\ u.f = t.f /\ u.ip = t.ip /\ u.n = t.n /\ u.i = t.i /\ u.n1 = n1 /\ u.tot = 0
        /\ u.off = o /\ u.log = {} /\ u \in ThRec
    <3> SUFFICES ASSUME NEW a \in ThRec, NEW v,
                        v = [a EXCEPT !.pc = "loop", !.n1 = n1, !.tot = 0, !.off = o, !.log = {}]
                 PROVE  /\ v.pc = "loop" /\ v.f = a.f /\ v.ip = a.ip /\ v.n = a.n /\ v.i = a.i
                        /\ v.n1 = n1 /\ v.tot = 0 /\ v.off = o /\ v.log = {} /\ v \in ThRec
      BY <1>3, ZenonT(60)
    <3> QED  BY <2>0, Zenon DEF ThRec
  <2> HIDE DEF u
  <2>3. th' \in [Procs -> ThRec] /\ th'[p] = u /\ \A q \in Procs \ {p} : th'[q] = th[q]
    BY <1>3, <2>1, <2>2, Zenon
  <2>4. Busy(p)' /\ \A q \in Procs \ {p} : Busy(q)' <=> Busy(q)
    BY <2>2, <2>3, Zenon DEF Busy
  <2>5. lock' \in [Inodes -> Procs \cup {0}] /\ \A i \in Inodes : lock'[i] = IF i = t.ip THEN p ELSE lock[i]
    BY <1>3, <2>1, Zenon
  <2>6. Typed'
    BY <1>0, <1>2, <2>3, <2>5, Zenon DEF Typed
  <2>7. Locks'
    <3>1. ASSUME NEW q \in Procs, Busy(q)' PROVE lock'[th'[q].ip] = q
      <4>1. CASE q = p
        BY <1>3, <2>2, <2>3, <2>5, <4>1, Zenon
      <4>2. CASE q # p
        <5>1. Busy(q) /\ th'[q] = th[q]
          BY <2>3, <2>4, <3>1, <4>2, Zenon
        <5>2. th[q].ip # t.ip /\ lock[th[q].ip] = q /\ th[q].ip \in Inodes
          BY <1>0, <1>1, <1>3, <5>1, FreeApart, Zenon DEF Locks, ThRec
        <5> QED  BY <2>5, <5>1, <5>2, Zenon
      <4> QED  BY <4>1, <4>2, Zenon
    <3>2. ASSUME NEW i \in Inodes, lock'[i] # 0 PROVE \E q \in Procs : Busy(q)' /\ th'[q].ip = i
      <4>1. CASE i = t.ip
        BY <2>2, <2>3, <2>4, <4>1, Zenon
      <4>2. CASE i # t.ip
        <5>1. lock[i] # 0
          BY <2>5, <3>2, <4>2, Zenon
        <5>2. PICK q \in Procs : Busy(q) /\ th[q].ip = i
          BY <1>0, <5>1, Zenon DEF Locks
        <5>3. q # p
          BY <1>4, <5>2, Zenon
        <5> QED  BY <2>3, <2>4, <5>2, <5>3, Zenon
      <4> QED  BY <4>1, <4>2, Zenon
    <3> QED  BY <3>1, <3>2, Zenon DEF Locks
  <2>8. Calling(p)'
    <3>1. u.tot <= u.n1 /\ u.i + u.n1 <= u.n /\ u.off = o + u.tot /\ u.tot < u.n1
      BY ONLY <1>3, <2>0, <2>2
    <3> QED  BY <1>2, <1>5, <2>0, <2>2, <2>3, <2>4, <3>1, Zenon DEF Calling, o
  <2>9. Writing(p)'
    <3>1. \A x : x \notin o..(o - 1)
      BY ONLY <2>0
    <3>2. \A x \in 0..(fs.mem[t.ip].size - 1) : Holds(fs, kept, t.ip, x, content[t.ip][x + 1])
      BY <1>1, <1>3, Zenon DEF FInv, Stored
    <3>3. off'[th'[p].f] = o /\ th'[p].ip = t.ip /\ th'[p].off = o
      BY <1>2, <2>2, <2>3, Zenon DEF o
    <3> QED  BY <1>2, <3>1, <3>2, <3>3, Zenon DEF Writing
  <2>10. LogSmall(p)'
    <3>1. ASSUME NEW S PROVE IsFiniteSet({}) /\ {} \ S = {} /\ Cardinality({}) = 0
      BY EmptySet, Zenon
    <3>2. 0 <= 2 * ((o \div BSIZE) - (o \div BSIZE)) - (IF o % BSIZE # 0 /\ 0 > 0 THEN 1 ELSE 0)
      <4>1. o \div BSIZE \in Nat
        BY <2>0, DivMod, Sizes, Zenon
      <4> QED  BY ONLY <4>1
    <3>3. /\ off'[th'[p].f] = o /\ th'[p].log = {} /\ th'[p].off = o /\ th'[p].tot = 0 /\ th'[p].pc = "loop"
          /\ "loop" # "end"
      BY <1>2, <2>2, <2>3, Zenon DEF o
    <3> QED  BY <3>1, <3>2, <3>3, Zenon DEF LogSmall
  <2>11. ASSUME NEW i \in Inodes PROVE Stored(i)'
    <3>1. lock'[i] = 0 => lock[i] = 0
      BY <2>5, Sizes, Zenon
    <3> QED  BY <1>2, <3>1, Zenon DEF FInv, Stored
  <2>12. ASSUME NEW q \in Procs PROVE Calling(q)' /\ Writing(q)' /\ LogSmall(q)'
    BY <1>7, <2>3, <2>8, <2>9, <2>10, Zenon
  <2> QED  BY <1>6, <2>6, <2>7, <2>11, <2>12, Zenon DEF FInv
<1> QED  BY <1>8, <1>9, Zenon

(* The end of a step: results are forgotten.                                *)
LEMMA SettledFields ==
  ASSUME NEW s \in FsRec
  PROVE  LET t == Settled(s) IN
         /\ t \in FsRec /\ t.used = s.used /\ t.data = s.data /\ t.mem = s.mem
         /\ t.disk = s.disk /\ t.panic = s.panic /\ t.log = {} /\ t.ret = 0
<1>1. 0 \in Addrs
  BY Zenon DEF Addrs
<1> QED  BY <1>1, Zenon DEF FsRec, Settled

(* Forgetting the results of functions changes no pointer.                  *)
LEMMA SettledMap ==
  ASSUME NEW s, MapOK(s)
  PROVE  MapOK(Settled(s)) /\ \A i, l : At(Settled(s), i, l) = At(s, i, l)
<1> DEFINE t == Settled(s)
<1>1. /\ t \in FsRec /\ t.used = s.used /\ t.data = s.data /\ t.mem = s.mem
      /\ t.disk = s.disk /\ t.panic = s.panic /\ t.log = {} /\ t.ret = 0
  BY SettledFields, Zenon DEF MapOK
<1> HIDE DEF t
<1>2. \A i, l : At(t, i, l) = At(s, i, l)
  BY <1>1, Zenon DEF At, Ind
<1>3. MapOK(t)
  BY <1>1, <1>2 DEF MapOK
<1> QED  BY <1>2, <1>3, Zenon DEF t

(* Block b with the bytes f.                                                *)
Put(s, b, f) == [s EXCEPT !.data[b].bytes = f]

(* Fields after the change.                                                 *)
LEMMA PutFields ==
  ASSUME NEW s \in FsRec, NEW b \in Blocks, NEW f \in [Bytes -> Procs \cup {0}]
  PROVE  LET t == Put(s, b, f) IN
         /\ t \in FsRec /\ t.used = s.used /\ t.mem = s.mem /\ t.disk = s.disk
         /\ t.panic = s.panic /\ t.ret = s.ret /\ t.log = s.log
         /\ t.data[b].ptrs = s.data[b].ptrs /\ t.data[b].bytes = f
         /\ \A e \in Blocks : e # b => t.data[e] = s.data[e]
<1> SUFFICES ASSUME NEW t, t = Put(s, b, f)
             PROVE  /\ t \in FsRec /\ t.used = s.used /\ t.mem = s.mem /\ t.disk = s.disk
                    /\ t.panic = s.panic /\ t.ret = s.ret /\ t.log = s.log
                    /\ t.data[b].ptrs = s.data[b].ptrs /\ t.data[b].bytes = f
                    /\ \A e \in Blocks : e # b => t.data[e] = s.data[e]
  BY Zenon
<1> DEFINE d == [s.data[b] EXCEPT !.bytes = f]
<1>0. s.data \in [Blocks -> Cell] /\ s.data[b] \in Cell
  BY FsTypes, Zenon
<1>1. /\ t.used = s.used /\ t.mem = s.mem /\ t.disk = s.disk
      /\ t.panic = s.panic /\ t.ret = s.ret /\ t.log = s.log
      /\ t.data = [s.data EXCEPT ![b] = d]
  BY DEF FsRec, Put
<1>2. t = [used |-> t.used, data |-> t.data, mem |-> t.mem, disk |-> t.disk, ret |-> t.ret,
           log |-> t.log, panic |-> t.panic]
  BY Zenon DEF FsRec, Put
<1>3. d.bytes = f /\ d.ptrs = s.data[b].ptrs /\ d \in Cell
  BY <1>0, Zenon DEF Cell
<1> HIDE DEF d
<1>4. /\ t.data \in [Blocks -> Cell] /\ t.data[b] = d
      /\ \A e \in Blocks : e # b => t.data[e] = s.data[e]
  BY <1>0, <1>1, <1>3, Zenon
<1>5. t \in FsRec
  BY <1>1, <1>2, <1>4 DEF FsRec
<1> QED  BY <1>1, <1>3, <1>4, <1>5, Zenon

(* It changes no pointer.                                                   *)
LEMMA PutMap ==
  ASSUME NEW s, MapOK(s), NEW b \in Blocks, NEW f \in [Bytes -> Procs \cup {0}]
  PROVE  MapOK(Put(s, b, f)) /\ \A i \in Inodes : \A l : At(Put(s, b, f), i, l) = At(s, i, l)
<1> DEFINE t == Put(s, b, f)
<1>0. s \in FsRec
  BY Zenon DEF MapOK
<1>1. /\ t \in FsRec /\ t.used = s.used /\ t.mem = s.mem
      /\ t.data[b].ptrs = s.data[b].ptrs
      /\ \A e \in Blocks : e # b => t.data[e] = s.data[e]
  BY <1>0, PutFields
<1> HIDE DEF t
<1>2. ASSUME NEW i \in Inodes, NEW l PROVE At(t, i, l) = At(s, i, l)
  <2>1. Ind(t, i) = Ind(s, i) /\ Ind(s, i) \in Addrs
    BY <1>1, IndFacts, Zenon DEF Ind
  <2>2. Ind(s, i) # 0 => t.data[Ind(s, i)].ptrs = s.data[Ind(s, i)].ptrs
    BY <1>1, <2>1, Zenon DEF Addrs
  <2> QED  BY <1>1, <2>1, <2>2, Zenon DEF At
<1>3. MapOK(t)
  BY <1>1, <1>2 DEF MapOK
<1> QED  BY <1>2, <1>3, Zenon DEF t

(* Elements added to a set.                                                 *)
LEMMA CardAdd ==
  ASSUME SetFacts, NEW S, IsFiniteSet(S), NEW a, NEW b
  PROVE  /\ IsFiniteSet(S \cup {a, b}) /\ Cardinality(S \cup {a, b}) <= Cardinality(S) + 2
         /\ IsFiniteSet(S \cup {a}) /\ Cardinality(S \cup {a}) <= Cardinality(S) + 1
         /\ Cardinality(S) \in Nat
<1>1. \A T : IsFiniteSet(T) => Cardinality(T) \in Nat
  BY CardType, Zenon
<1>2. ASSUME NEW T, IsFiniteSet(T), NEW c
      PROVE  IsFiniteSet(T \cup {c}) /\ Cardinality(T \cup {c}) <= Cardinality(T) + 1
  <2>1. /\ IsFiniteSet(T \cup {c})
        /\ Cardinality(T \cup {c}) = IF c \in T THEN Cardinality(T) ELSE Cardinality(T) + 1
    BY <1>2, Zenon DEF SetFacts
  <2> QED  BY <1>1, <1>2, <2>1
<1>3. IsFiniteSet(S \cup {a}) /\ Cardinality(S \cup {a}) <= Cardinality(S) + 1
  BY <1>2, Zenon
<1>4. /\ IsFiniteSet((S \cup {a}) \cup {b})
      /\ Cardinality((S \cup {a}) \cup {b}) <= Cardinality(S \cup {a}) + 1
  BY <1>2, <1>3, Zenon
<1>5. (S \cup {a}) \cup {b} = S \cup {a, b}
  BY Zenon
<1>6. Cardinality(S) \in Nat /\ Cardinality(S \cup {a}) \in Nat /\ Cardinality(S \cup {a, b}) \in Nat
  BY <1>1, <1>3, <1>4, <1>5, Zenon
<1>7. Cardinality(S \cup {a, b}) <= Cardinality(S) + 2
  <2>1. Cardinality(S \cup {a, b}) <= Cardinality(S \cup {a}) + 1
    BY <1>4, <1>5, Zenon
  <2> QED  BY ONLY <1>3, <1>6, <2>1
<1> QED  BY <1>3, <1>4, <1>5, <1>6, <1>7, Zenon

(* Where a block of a write is.                                             *)
LEMMA LoopFacts ==
  ASSUME FInv, NEW p \in Procs, th[p].pc = "loop"
  PROVE  LET t == th[p]
             o == off[t.f]
             m == Least(t.n1 - t.tot, BSIZE - (t.off % BSIZE))
         IN  /\ t \in ThRec /\ t.f \in Files /\ t.ip \in Inodes /\ Busy(p) /\ lock[t.ip] = p
             /\ {o, t.off, t.tot, t.n1, t.n, t.i} \subseteq Nat /\ t.off = o + t.tot /\ t.tot < t.n1
             /\ o + t.n1 <= MAXFILE * BSIZE /\ t.n1 <= ChunkMax /\ t.off < MAXFILE * BSIZE
             /\ o <= fs.mem[t.ip].size
             /\ t.off \div BSIZE \in 0..(MAXFILE - 1) /\ t.off % BSIZE \in 0..(BSIZE - 1)
             /\ m \in Nat \ {0} /\ m <= BSIZE - (t.off % BSIZE) /\ t.tot + m <= t.n1
             /\ t.tot + m # t.n1 => t.tot + m < t.n1 /\ m = BSIZE - (t.off % BSIZE)
<1> DEFINE t == th[p]
           o == off[t.f]
           r == t.off % BSIZE
           m == Least(t.n1 - t.tot, BSIZE - r)
<1>1. Typed /\ Locks /\ Calling(p) /\ "loop" # "idle"
  BY DEF FInv
<1>2. Busy(p)
  BY Zenon DEF Busy
<1>3. /\ t \in ThRec /\ t.f \in Files /\ t.ip \in Inodes /\ lock[t.ip] = p
      /\ t.off \in Nat /\ t.tot \in Nat /\ t.n1 \in Nat /\ t.n \in Nat /\ t.i \in Nat
  BY <1>1, <1>2, Zenon DEF Typed, ThRec, Calling, Locks
<1>4. o \in 0..(MAXFILE * BSIZE) /\ MAXFILE * BSIZE \in Nat /\ BSIZE \in Nat \ {0}
  BY <1>1, <1>3, Sizes, Zenon DEF Typed
<1>5. /\ t.off = o + t.tot /\ t.tot < t.n1 /\ o + t.n1 <= MAXFILE * BSIZE /\ t.n1 <= ChunkMax
      /\ o <= fs.mem[t.ip].size
  BY <1>1, <1>2, Zenon DEF Calling
<1> HIDE DEF o, t
<1>6. t.off < MAXFILE * BSIZE /\ o \in Nat
  BY ONLY <1>3, <1>4, <1>5
<1>7. t.off \div BSIZE \in 0..(MAXFILE - 1) /\ r \in 0..(BSIZE - 1)
  BY <1>3, <1>4, <1>6, KeyIn, DivMod, Zenon
<1> HIDE DEF r
<1>8. /\ m \in Nat \ {0} /\ m <= BSIZE - r /\ t.tot + m <= t.n1
      /\ t.tot + m # t.n1 => t.tot + m < t.n1 /\ m = BSIZE - r
  BY ONLY <1>3, <1>4, <1>5, <1>7 DEF Least
<1> HIDE DEF m
<1>9. {o, t.off, t.tot, t.n1, t.n, t.i} \subseteq Nat
  BY <1>3, <1>6, Zenon
<1> QED  BY <1>2, <1>3, <1>5, <1>6, <1>7, <1>8, <1>9, Zenon DEF t, o, r, m

(* The block in whose middle a write starts is there already.               *)
LEMMA FirstMapped ==
  ASSUME FInv, NEW p \in Procs, th[p].pc = "loop", th[p].tot = 0, off[th[p].f] % BSIZE # 0
  PROVE  At(fs, th[p].ip, Key(th[p].off \div BSIZE)) # 0
<1> DEFINE t == th[p]
           o == off[t.f]
           x == o - 1
<1>1. /\ t.ip \in Inodes /\ Busy(p) /\ {o, t.off, t.tot, t.n1, t.n, t.i} \subseteq Nat
      /\ t.off = o + t.tot /\ o <= fs.mem[t.ip].size
  BY LoopFacts, Zenon
<1>2. fs \in FsRec /\ Writing(p)
  BY Zenon DEF FInv, MapOK
<1>3. fs.mem[t.ip].size \in Nat /\ BSIZE \in Nat \ {0}
  BY <1>1, <1>2, FsTypes, Sizes
<1>4. t.tot = 0 /\ o % BSIZE # 0 /\ o \in Nat
  BY <1>1, Zenon
<1> HIDE DEF t, o
<1>5. t.off = o /\ o # 0 /\ x \in Nat /\ x < o /\ x \in 0..(fs.mem[t.ip].size - 1) /\ ~ (o <= x)
  <2>1. 0 % BSIZE = 0
    BY ONLY <1>3
  <2>2. o # 0
    BY <1>4, <2>1, Zenon
  <2> QED  BY ONLY <1>1, <1>3, <1>4, <2>2
<1>6. Holds(fs, kept, t.ip, x, content[t.ip][x + 1])
  BY <1>1, <1>2, <1>5, Zenon DEF Writing, t, o
<1>7. x \div BSIZE = o \div BSIZE
  <2> DEFINE q == o \div BSIZE
             r == o % BSIZE
  <2>1. q \in Nat /\ r \in 0..(BSIZE - 1) /\ o = BSIZE * q + r
    BY <1>3, <1>4, DivMod, Zenon
  <2>2. r # 0
    BY <1>4, Zenon
  <2> HIDE DEF q, r
  <2>3. r - 1 \in 0..(BSIZE - 1) /\ x = BSIZE * q + (r - 1)
    BY ONLY <1>3, <2>1, <2>2
  <2>4. (BSIZE * q + (r - 1)) \div BSIZE = q
    BY <1>3, <2>1, <2>3, DivModUnique, Zenon
  <2> QED  BY <2>3, <2>4, Zenon DEF q
<1> QED  BY <1>5, <1>6, <1>7, Zenon DEF Holds, t

(* How many blocks a chunk can meet.                                        *)
LEMMA RoomBound ==
  ASSUME NEW o \in Nat, NEW a \in Nat, NEW R \in Nat, NEW N \in Nat \ {0}, a < o + R * N
  PROVE  /\ (a \div N) - (o \div N) <= R
         /\ o % N = 0 => (a \div N) - (o \div N) <= R - 1
<1> DEFINE q == o \div N
           r == o % N
           b == a \div N
           c == a % N
<1>1. q \in Nat /\ r \in 0..(N - 1) /\ o = N * q + r
  BY DivMod, Zenon
<1>2. b \in Nat /\ c \in 0..(N - 1) /\ a = N * b + c
  BY DivMod, Zenon
<1> HIDE DEF q, r, b, c
<1>3. N * q \in Int /\ N * b \in Int /\ R * N \in Int
  BY <1>1, <1>2
<1>4. N * (q + R) = N * q + R * N /\ N * (q + (R + 1)) = N * q + (R * N + N)
  BY <1>1
<1>5. (N * b < N * (q + R) <=> b < q + R) /\ (N * b < N * (q + (R + 1)) <=> b < q + (R + 1))
  BY <1>1, <1>2, MulLess
<1>6. N * b < N * (q + (R + 1)) /\ (r = 0 => N * b < N * (q + R))
  BY <1>1, <1>2, <1>3, <1>4
<1>7. b < q + (R + 1) /\ (r = 0 => b < q + R)
  BY <1>5, <1>6, Zenon
<1>8. b - q <= R /\ (r = 0 => b - q <= R - 1)
  BY ONLY <1>1, <1>2, <1>7, R \in Nat
<1> QED  BY <1>8, Zenon DEF b, q, r

(* What one block adds to the log, apart from the indirect block's entries: *)
(* two entries, one if the block was there.                                 *)
LEMMA LogGrows ==
  ASSUME SetFacts, FInv, NEW p \in Procs, th[p].pc = "loop", NEW s,
         s = bmap(fs, th[p].ip, th[p].off \div BSIZE), NEW X, X \subseteq s.log \cup {<<"block", s.ret>>}
  PROVE  LET t == th[p]
             o == off[t.f]
             N == t.log \cup X
             c == Cardinality(N \ IndLog(s, t.ip))
             k == (t.off \div BSIZE) - (o \div BSIZE)
         IN  /\ IsFiniteSet(N) /\ c <= 2 * Room + 1
             /\ c <= 2 * (k + 1) - (IF o % BSIZE # 0 THEN 1 ELSE 0)
<1> DEFINE t == th[p]
           i == t.ip
           bn == t.off \div BSIZE
           o == off[t.f]
           N == t.log \cup X
           S == t.log \ IndLog(fs, i)
           c == Cardinality(N \ IndLog(s, i))
           k == bn - (o \div BSIZE)
<1>0. /\ i \in Inodes /\ Busy(p) /\ {o, t.off, t.tot, t.n1, t.n, t.i} \subseteq Nat
      /\ t.off = o + t.tot /\ t.tot < t.n1 /\ t.n1 <= ChunkMax /\ bn \in 0..(MAXFILE - 1)
  BY LoopFacts, Zenon
<1>1. MapOK(fs) /\ fs.log = {} /\ LogSmall(p)
  BY Zenon DEF FInv, Quiet
<1>2. /\ Keeps(fs, s, i) /\ s.ret = At(s, i, Key(bn))
      /\ At(fs, i, Key(bn)) # 0 => s.log = {}
      /\ s.log \subseteq Logged(s.ret) \cup IndLog(s, i)
  BY <1>0, <1>1, Bmap, Zenon
<1>3. IsFiniteSet(t.log)
  BY <1>0, <1>1, Zenon DEF LogSmall
<1>4. Cardinality(S) <= 2 * k - (IF o % BSIZE # 0 /\ t.tot > 0 THEN 1 ELSE 0)
  BY <1>0, <1>1, Zenon DEF LogSmall
<1>5. t.tot = 0 /\ o % BSIZE # 0 => At(fs, i, Key(bn)) # 0
  BY FirstMapped, Zenon
<1>6. o \in Nat /\ t.off \in Nat /\ t.tot \in Nat /\ t.n1 \in Nat /\ BSIZE \in Nat \ {0}
  BY <1>0, Sizes, Zenon
<1>7. k \in Int /\ k <= Room /\ (o % BSIZE = 0 => k <= Room - 1) /\ (t.tot = 0 => k = 0)
  <2> HIDE DEF t, o
  <2>1. Room \in Nat /\ ChunkMax = Room * BSIZE /\ Room * BSIZE \in Nat
    BY ChunkRoom, Zenon
  <2>2. t.off < o + Room * BSIZE
    BY ONLY <1>0, <1>6, <2>1
  <2>3. k <= Room /\ (o % BSIZE = 0 => k <= Room - 1)
    BY <1>6, <2>1, <2>2, RoomBound, Zenon
  <2>4. bn \in Nat /\ o \div BSIZE \in Nat
    BY <1>6, DivMod, Zenon
  <2>5. t.tot = 0 => bn = o \div BSIZE
    <3>1. t.tot = 0 => t.off = o
      BY ONLY <1>0, <1>6
    <3> QED  BY <3>1, Zenon
  <2> HIDE DEF bn
  <2>6. k \in Int /\ (t.tot = 0 => k = 0)
    BY ONLY <2>4, <2>5
  <2> QED  BY <2>3, <2>6, Zenon
<1> HIDE DEF t, i, bn, o, k
<1>8. IndLog(fs, i) \subseteq IndLog(s, i)
  <2>1. Ind(fs, i) = At(fs, i, NDIRECT) /\ NDIRECT \in Keys /\ Ind(s, i) = At(s, i, NDIRECT)
    BY <1>0, <1>1, <1>2, IndFacts, Zenon DEF Keeps
  <2>2. Ind(fs, i) # 0 => Ind(s, i) = Ind(fs, i)
    BY <1>0, <1>2, <2>1, Zenon DEF Keeps
  <2> QED  BY <2>2, Zenon DEF IndLog
<1>9. X \subseteq Logged(s.ret) \cup IndLog(s, i)
  BY <1>2, Zenon DEF Logged
<1>10. IsFiniteSet(S)
  BY <1>3, FiniteSubset, Zenon
<1>11. IsFiniteSet(N)
  <2>1. IsFiniteSet(t.log \cup Logged(s.ret))
    BY <1>3, CardAdd, Zenon DEF Logged
  <2>2. IsFiniteSet((t.log \cup Logged(s.ret)) \cup IndLog(s, i))
    <3>1. CASE Ind(s, i) = 0
      <4>1. (t.log \cup Logged(s.ret)) \cup IndLog(s, i) = t.log \cup Logged(s.ret)
        BY <3>1, Zenon DEF IndLog
      <4> QED  BY <2>1, <4>1, Zenon
    <3>2. CASE Ind(s, i) # 0
      <4>1. IndLog(s, i) = {BBLOCK(Ind(s, i)), <<"block", Ind(s, i)>>}
        BY <3>2, Zenon DEF IndLog, Logged
      <4> QED  BY ONLY SetFacts, <2>1, <4>1, CardAdd, ZenonT(60)
    <3> QED  BY <3>1, <3>2, Zenon
  <2>3. N \subseteq (t.log \cup Logged(s.ret)) \cup IndLog(s, i)
    BY <1>9, Zenon
  <2> HIDE DEF N
  <2> QED  BY <2>2, <2>3, FiniteSubset, Zenon
<1>12. c \in Nat /\ c <= Cardinality(S) + 2 /\ Cardinality(S) \in Nat
  <2>1. N \ IndLog(s, i) \subseteq S \cup {BBLOCK(s.ret), <<"block", s.ret>>}
    BY <1>8, <1>9, Zenon DEF Logged
  <2> HIDE DEF N, S
  <2>2. /\ IsFiniteSet(S \cup {BBLOCK(s.ret), <<"block", s.ret>>})
        /\ Cardinality(S \cup {BBLOCK(s.ret), <<"block", s.ret>>}) <= Cardinality(S) + 2
        /\ Cardinality(S) \in Nat
    BY <1>10, CardAdd, Zenon
  <2> DEFINE Z == N \ IndLog(s, i)
             T == S \cup {BBLOCK(s.ret), <<"block", s.ret>>}
  <2> HIDE DEF Z, T
  <2>3. IsFiniteSet(Z) /\ Cardinality(Z) <= Cardinality(T)
    <3>1. Z \subseteq T /\ IsFiniteSet(T)
      BY <2>1, <2>2, Zenon DEF Z, T
    <3> QED  BY ONLY SetFacts, <3>1, FiniteSubset, Zenon
  <2>4. c = Cardinality(Z) /\ Cardinality(Z) \in Nat /\ Cardinality(T) \in Nat
    BY <2>2, <2>3, CardType, Zenon DEF Z, T
  <2>5. Cardinality(T) <= Cardinality(S) + 2 /\ Cardinality(S) \in Nat
    BY <2>2, Zenon DEF T
  <2> HIDE DEF c
  <2> QED  BY ONLY <2>3, <2>4, <2>5
<1>13. At(fs, i, Key(bn)) # 0 => c <= Cardinality(S) + 1
  <2> SUFFICES ASSUME At(fs, i, Key(bn)) # 0 PROVE c <= Cardinality(S) + 1
    OBVIOUS
  <2>0. X \subseteq {<<"block", s.ret>>}
    BY <1>2, Zenon
  <2>1. N \ IndLog(s, i) \subseteq S \cup {<<"block", s.ret>>}
    BY <1>8, <2>0, Zenon
  <2> HIDE DEF N, S
  <2>2. /\ IsFiniteSet(S \cup {<<"block", s.ret>>})
        /\ Cardinality(S \cup {<<"block", s.ret>>}) <= Cardinality(S) + 1
    BY <1>10, CardAdd, Zenon
  <2>3. c <= Cardinality(S \cup {<<"block", s.ret>>})
    BY <2>1, <2>2, FiniteSubset, Zenon
  <2>4. Cardinality(S \cup {<<"block", s.ret>>}) \in Nat
    BY <2>2, CardType, Zenon
  <2> HIDE DEF c
  <2> QED  BY ONLY <1>12, <2>2, <2>3, <2>4, SMTT(20)
<1> HIDE DEF c, S
<1>14. /\ c <= 2 * Room + 1
       /\ c <= 2 * (k + 1) - (IF o % BSIZE # 0 THEN 1 ELSE 0)
  <2>0. Room \in Nat
    BY ChunkRoom, Zenon
  <2>1. CASE o % BSIZE = 0
    <3>1. Cardinality(S) <= 2 * k - 0
      BY <1>4, <2>1
    <3>2. c <= 2 * Room + 1 /\ c <= 2 * (k + 1) - 0
      BY ONLY <1>7, <1>12, <2>0, <2>1, <3>1
    <3> QED  BY <2>1, <3>2, Zenon
  <2>2. CASE o % BSIZE # 0 /\ t.tot = 0
    <3>1. Cardinality(S) <= 2 * k - 0
      BY <1>4, <2>2
    <3>2. c <= Cardinality(S) + 1
      BY <1>5, <1>13, <2>2, Zenon
    <3>3. c <= 2 * Room + 1 /\ c <= 2 * (k + 1) - 1
      BY ONLY <1>7, <1>12, <2>0, <2>2, <3>1, <3>2, SMTT(20)
    <3> QED  BY <2>2, <3>3, Zenon
  <2>3. CASE o % BSIZE # 0 /\ t.tot # 0
    <3>1. Cardinality(S) <= 2 * k - 1
      <4>1. t.tot > 0
        BY ONLY <1>6, <2>3
      <4> QED  BY <1>4, <2>3, <4>1
    <3>2. c <= 2 * Room + 1 /\ c <= 2 * (k + 1) - 1
      BY ONLY <1>7, <1>12, <2>0, <3>1
    <3> QED  BY <2>3, <3>2, Zenon
  <2> QED  BY <2>1, <2>2, <2>3, Zenon
<1> QED  BY <1>11, <1>14, Zenon DEF c, N, t, i, o, k, bn

(* What one block of a write does to the files: the positions in H of inode *)
(* i have what they had or v.                                               *)
Copied(s, K, w, L, i, H, v) ==
  /\ MapOK(w) /\ w.ret = 0 /\ w.log = {} /\ w.panic = s.panic /\ w.disk = s.disk
  /\ \A j \in Inodes : w.mem[j].size = s.mem[j].size
  /\ \A j \in Inodes : j # i => SameFile(s, w, j) /\ KeptLess(s, K, L, j)
  /\ \A x \in 0..(MAXFILE * BSIZE - 1) : x \in H =>
       \A a : Holds(s, K, i, x, a) => Holds(w, L, i, x, a \cup {v})
  /\ \A x \in 0..(MAXFILE * BSIZE - 1) : x \notin H =>
       \A a : Holds(s, K, i, x, a) => Holds(w, L, i, x, a)

(* When bmap fails.                                                         *)
LEMMA NoCopy ==
  ASSUME NEW s, MapOK(s), NEW i \in Inodes, NEW t, Keeps(s, t, i), NEW H, H = {}, NEW v,
         NEW K, NEW L, \A b \in Blocks : L[b] \subseteq K[b]
  PROVE  Copied(s, K, Settled(t), L, i, H, v) /\ Ind(Settled(t), i) = Ind(t, i)
<1> DEFINE w == Settled(t)
<1>1. MapOK(t) /\ t \in FsRec
  BY Zenon DEF Keeps, MapOK
<1>2. /\ w.used = t.used /\ w.data = t.data /\ w.mem = t.mem
      /\ w.disk = t.disk /\ w.panic = t.panic /\ w.log = {} /\ w.ret = 0
  BY <1>1, SettledFields, Zenon
<1>3. MapOK(w) /\ \A j, l : At(w, j, l) = At(t, j, l)
  BY <1>1, SettledMap, Zenon
<1> HIDE DEF w
<1>4. ASSUME NEW j \in Inodes, j # i PROVE SameFile(s, w, j) /\ KeptLess(s, K, L, j)
  <2>1. SameFile(s, t, j)
    BY <1>4, KeepsOthers, Zenon
  <2>2. SameFile(s, w, j)
    BY <1>2, <1>3, <2>1, Zenon DEF SameFile
  <2>3. \A l \in Keys : At(s, j, l) # 0 => At(s, j, l) \in Blocks
    BY AtUsed, Zenon
  <2> QED  BY <2>2, <2>3, Zenon DEF KeptLess
<1>5. \A j \in Inodes : w.mem[j].size = s.mem[j].size
  BY <1>2, Zenon DEF Keeps
<1>6. ASSUME NEW x \in 0..(MAXFILE * BSIZE - 1), NEW a, Holds(s, K, i, x, a) PROVE Holds(w, L, i, x, a)
  <2>0. x \in Nat /\ x < MAXFILE * BSIZE
    BY Sizes
  <2> DEFINE l == Key(x \div BSIZE)
             d == At(s, i, l)
  <2>1. l \in Keys
    BY <2>0, KeyIn, KeyOwn, Zenon
  <2>2. d # 0 /\ s.data[d].bytes[x % BSIZE] \in a /\ \A e \in K[d] : e[x % BSIZE] \in a
    BY <1>6, Zenon DEF Holds
  <2> HIDE DEF l
  <2>3. At(w, i, l) = d /\ d \in s.used /\ d \in Blocks
    BY <1>3, <2>1, <2>2, AtUsed, Zenon DEF Keeps
  <2> HIDE DEF d
  <2>4. w.data[d].bytes = s.data[d].bytes /\ L[d] \subseteq K[d]
    BY <1>2, <2>3, Zenon DEF Keeps
  <2> QED  BY <2>2, <2>3, <2>4, Zenon DEF Holds, l
<1>7. Ind(w, i) = Ind(t, i)
  BY <1>2, Zenon DEF Ind
<1>8. w.panic = s.panic /\ w.disk = s.disk
  BY <1>2, Zenon DEF Keeps
<1>9. Copied(s, K, w, L, i, H, v)
  BY <1>2, <1>3, <1>4, <1>5, <1>6, <1>8, Zenon DEF Copied
<1> QED  BY <1>7, <1>9, Zenon DEF w

(* The positions H are the bytes h of block bn.                             *)
InBlock(H, bn, h) ==
  \A x \in 0..(MAXFILE * BSIZE - 1) : x \in H <=> x \div BSIZE = bn /\ x % BSIZE \in h

(* The bytes of a block after v was copied to the places in h.              *)
Moved(t, h, v) == [k \in Bytes |-> IF k \in h THEN v ELSE t.data[t.ret].bytes[k]]

(* The disk may have the bytes from before the copy, and nothing else new.  *)
KeepsOld(t, K, L) ==
  /\ t.ret # 0
  /\ \A e \in Blocks : e # t.ret => L[e] \subseteq K[e]
  /\ \A d \in L[t.ret] : d \in K[t.ret] \/ d = t.data[t.ret].bytes

(* bmap left t for block bn of the file, and the copy goes there.           *)
CanCopy(s, i, bn, t, h, H, K, L, v, w) ==
  /\ i \in Inodes /\ bn \in 0..(MAXFILE - 1) /\ v \in Procs
  /\ w = Settled(Put(t, t.ret, Moved(t, h, v)))
  /\ MapOK(s) /\ Keeps(s, t, i) /\ t.ret = At(t, i, Key(bn))
  /\ InBlock(H, bn, h) /\ KeepsOld(t, K, L)

(* When bmap succeeds: the bytes of the block bn that h names are set. The  *)
(* disk has the bytes it had or those the block had. If it has none of its  *)
(* own, the positions are v.                                                *)
LEMMA Copy ==
  ASSUME NEW s, NEW i, NEW bn, NEW t, NEW h, NEW v, NEW H, NEW K, NEW L, NEW w,
         CanCopy(s, i, bn, t, h, H, K, L, v, w)
  PROVE  /\ Copied(s, K, w, L, i, H, v) /\ Ind(w, i) = Ind(t, i)
         /\ L[t.ret] = {} => \A x \in 0..(MAXFILE * BSIZE - 1) : x \in H => Holds(w, L, i, x, {v})
<1> DEFINE b == t.ret
           f == [k \in Bytes |-> IF k \in h THEN v ELSE t.data[b].bytes[k]]
           u == Put(t, b, f)
<1>a. MapOK(s) /\ Keeps(s, t, i) /\ t.ret = At(t, i, Key(bn)) /\ t.ret # 0 /\ InBlock(H, bn, h) /\ KeepsOld(t, K, L)
      /\ i \in Inodes /\ bn \in 0..(MAXFILE - 1) /\ v \in Procs /\ w = Settled(Put(t, t.ret, Moved(t, h, v)))
  BY Zenon DEF CanCopy, KeepsOld
<1> USE <1>a
<1>0. Key(bn) \in Keys /\ \A c \in 0..(MAXFILE - 1) : Key(bn) = Key(c) => bn = c
  BY KeyOwn, Zenon
<1>1. MapOK(t) /\ t \in FsRec /\ b \in Blocks /\ At(t, i, Key(bn)) = b
  <2>1. MapOK(t) /\ t \in FsRec
    BY Zenon DEF Keeps, MapOK
  <2>2. At(t, i, Key(bn)) = b /\ At(t, i, Key(bn)) # 0
    BY Zenon
  <2>3. At(t, i, Key(bn)) \in Blocks
    BY <1>0, <2>1, <2>2, AtUsed, ZenonT(60)
  <2> QED  BY <2>1, <2>2, <2>3, Zenon
<1>f. f \in [Bytes -> Procs \cup {0}] /\ \A k \in Bytes : f[k] = IF k \in h THEN v ELSE t.data[b].bytes[k]
  <2>1. t.data[b].bytes \in [Bytes -> Procs \cup {0}]
    BY <1>1, FsTypes, Zenon
  <2>2. \A k \in Bytes : (IF k \in h THEN v ELSE t.data[b].bytes[k]) \in Procs \cup {0}
    BY <2>1
  <2> QED  BY <2>2
<1>u. w = Settled(u)
  BY Zenon DEF Moved
<1> HIDE DEF f
<1>2. /\ u \in FsRec /\ u.used = t.used /\ u.mem = t.mem /\ u.disk = t.disk /\ u.panic = t.panic
      /\ u.data[b].bytes = f
      /\ \A e \in Blocks : e # b => u.data[e] = t.data[e]
  BY <1>1, <1>f, PutFields, SMTT(20)
<1>3. MapOK(u) /\ \A j \in Inodes : \A l : At(u, j, l) = At(t, j, l)
  BY <1>1, <1>f, PutMap
<1> HIDE DEF u
<1>4. /\ w.used = u.used /\ w.data = u.data /\ w.mem = u.mem
      /\ w.disk = u.disk /\ w.panic = u.panic /\ w.log = {} /\ w.ret = 0
  BY <1>2, <1>u, SettledFields, Zenon
<1>5. MapOK(w) /\ \A j, l : At(w, j, l) = At(u, j, l)
  <2>1. MapOK(Settled(u)) /\ \A j, l : At(Settled(u), j, l) = At(u, j, l)
    BY <1>3, SettledMap, Zenon
  <2> QED  BY <1>u, <2>1, Zenon
<1>l. /\ \A e \in Blocks : e # b => L[e] \subseteq K[e]
      /\ \A d \in L[b] : d \in K[b] \/ d = t.data[b].bytes
      /\ b # 0
  BY Zenon DEF KeepsOld
<1> HIDE DEF b
<1>6. ASSUME NEW e \in Blocks, e # b PROVE w.data[e] = t.data[e]
  BY <1>2, <1>4, <1>6, Zenon
<1>7. \A j \in Inodes : \A l : At(w, j, l) = At(t, j, l)
  BY <1>3, <1>5, Zenon
<1>8. ASSUME NEW j \in Inodes, NEW l \in Keys, At(t, j, l) = b PROVE j = i /\ l = Key(bn)
  BY <1>0, <1>1, <1>8, <1>l, SMTT(20) DEF MapOK
<1>9. ASSUME NEW j \in Inodes, j # i PROVE SameFile(s, w, j) /\ KeptLess(s, K, L, j)
  <2>1. SameFile(s, t, j)
    BY <1>9, KeepsOthers, Zenon
  <2>2. ASSUME NEW l \in Keys, At(s, j, l) # 0
        PROVE  /\ w.data[At(s, j, l)].bytes = s.data[At(s, j, l)].bytes
               /\ L[At(s, j, l)] \subseteq K[At(s, j, l)]
    <3>1. At(t, j, l) = At(s, j, l) /\ At(s, j, l) \in Blocks
      BY <2>1, <2>2, AtUsed, Zenon DEF SameFile
    <3>2. At(s, j, l) # b
      BY <1>8, <1>9, <3>1, Zenon
    <3> QED  BY <1>6, <1>l, <2>1, <2>2, <3>1, <3>2, Zenon DEF SameFile
  <2>3. w.mem[j] = s.mem[j] /\ w.disk[j] = s.disk[j] /\ \A l \in Keys : At(w, j, l) = At(s, j, l)
    BY <1>2, <1>4, <1>7, <2>1, Zenon DEF SameFile
  <2> QED  BY <2>2, <2>3, Zenon DEF SameFile, KeptLess
<1>10. \A j \in Inodes : w.mem[j].size = s.mem[j].size
  <2>1. w.mem = t.mem
    BY <1>2, <1>4, Zenon
  <2> QED  BY <2>1, Zenon DEF Keeps
<1>11. ASSUME NEW x \in 0..(MAXFILE * BSIZE - 1)
       PROVE  /\ x \in Nat /\ x < MAXFILE * BSIZE /\ x \div BSIZE \in 0..(MAXFILE - 1)
              /\ Key(x \div BSIZE) \in Keys /\ x % BSIZE \in Bytes
  <2>0. x \in Nat /\ x < MAXFILE * BSIZE
    BY Sizes
  <2> QED  BY <2>0, KeyIn, KeyOwn, Zenon
<1>12. ASSUME NEW x \in 0..(MAXFILE * BSIZE - 1), x \in H
       PROVE  At(w, i, Key(x \div BSIZE)) = b /\ w.data[b].bytes[x % BSIZE] = v
  <2>1. x \div BSIZE = bn /\ x % BSIZE \in h /\ x % BSIZE \in Bytes
    BY <1>11, <1>12, Zenon DEF InBlock
  <2> QED  BY <1>1, <1>2, <1>4, <1>7, <1>f, <2>1, Zenon
<1>13. ASSUME NEW x \in 0..(MAXFILE * BSIZE - 1), NEW a, Holds(s, K, i, x, a)
       PROVE  Holds(w, L, i, x, IF x \in H THEN a \cup {v} ELSE a)
  <2> DEFINE c == x \div BSIZE
             l == Key(c)
             d == At(s, i, l)
             y == x % BSIZE
  <2>1. l \in Keys /\ c \in 0..(MAXFILE - 1) /\ y \in Bytes
    BY <1>11, Zenon
  <2>2. d # 0 /\ s.data[d].bytes[y] \in a /\ \A e \in K[d] : e[y] \in a
    BY <1>13, Zenon DEF Holds
  <2>3. At(t, i, l) = d /\ d \in s.used /\ d \in Blocks
    BY <2>1, <2>2, AtUsed, Zenon DEF Keeps
  <2>4. t.data[d].bytes[y] \in a
    BY <2>2, <2>3, Zenon DEF Keeps
  <2>5. At(w, i, l) = d
    BY <1>7, <2>3, Zenon
  <2>6. x \in H <=> c = bn /\ y \in h
    BY <1>13, Zenon DEF InBlock
  <2>7. d = b => c = bn
    BY <1>0, <1>8, <2>1, <2>3, Zenon
  <2>8. c = bn => d = b
    BY <1>1, <2>3, Zenon
  <2> HIDE DEF c, d, y
  <2>9. /\ w.data[d].bytes[y] \in (IF x \in H THEN a \cup {v} ELSE a)
        /\ \A e \in L[d] : e[y] \in a
    <3>1. CASE d # b
      <4>1. x \notin H /\ w.data[d] = t.data[d] /\ L[d] \subseteq K[d]
        BY <1>6, <1>l, <2>3, <2>6, <2>8, <3>1, Zenon
      <4> QED  BY <2>2, <2>4, <4>1, Zenon
    <3>2. CASE d = b
      <4>1. w.data[d].bytes[y] = IF y \in h THEN v ELSE t.data[d].bytes[y]
        BY <1>2, <1>4, <1>f, <2>1, <3>2, Zenon
      <4>2. \A e \in L[d] : e[y] \in a
        BY <1>l, <2>2, <2>4, <3>2, Zenon
      <4>3. x \in H <=> y \in h
        BY <2>6, <2>7, <3>2, Zenon
      <4> QED  BY <2>4, <4>1, <4>2, <4>3, Zenon
    <3> QED  BY <3>1, <3>2, Zenon
  <2> DEFINE z == IF x \in H THEN a \cup {v} ELSE a
  <2>10. w.data[d].bytes[y] \in z /\ \A e \in L[d] : e[y] \in z
    BY <2>9, Zenon
  <2> HIDE DEF z
  <2>11. Holds(w, L, i, x, z)
    BY <2>2, <2>5, <2>10, Zenon DEF Holds, c, y
  <2> QED  BY <2>11, Zenon DEF z
<1>14. Ind(w, i) = Ind(t, i)
  BY <1>2, <1>4, Zenon DEF Ind
<1>15. w.panic = s.panic /\ w.disk = s.disk
  BY <1>2, <1>4, Zenon DEF Keeps
<1>16. ASSUME NEW x \in 0..(MAXFILE * BSIZE - 1), NEW a, Holds(s, K, i, x, a)
       PROVE  (x \in H => Holds(w, L, i, x, a \cup {v})) /\ (x \notin H => Holds(w, L, i, x, a))
  <2>1. CASE x \in H
    <3>1. (IF x \in H THEN a \cup {v} ELSE a) = a \cup {v}
      BY <2>1, Zenon
    <3> QED  BY <1>13, <1>16, <2>1, <3>1, Zenon
  <2>2. CASE x \notin H
    <3>1. (IF x \in H THEN a \cup {v} ELSE a) = a
      BY <2>2, Zenon
    <3> QED  BY <1>13, <1>16, <2>2, <3>1, Zenon
  <2> QED  BY <2>1, <2>2, Zenon
<1>17. Copied(s, K, w, L, i, H, v)
  BY <1>4, <1>5, <1>9, <1>10, <1>15, <1>16, Zenon DEF Copied
<1>18. ASSUME L[b] = {}, NEW x \in 0..(MAXFILE * BSIZE - 1), x \in H PROVE Holds(w, L, i, x, {v})
  BY <1>12, <1>18, <1>l, Zenon DEF Holds
<1> QED  BY <1>14, <1>17, <1>18, Zenon DEF b

(* One block of a write: k bytes are copied and the offset moves by m, k or *)
(* 0. What is behind the new offset is new, what a failed copy moved is old *)
(* or new, the rest is as before, and the other files are untouched.        *)
LEMMA BlockDone ==
  ASSUME FInv, NEW p \in Procs, th[p].pc = "loop", NEW k \in Nat, NEW m \in {0, k}, th[p].tot + k <= th[p].n1,
         Copied(fs, kept, fs', kept', th[p].ip, (th[p].off)..((th[p].off + k) - 1), p),
         m = k => \A x \in 0..(MAXFILE * BSIZE - 1) :
                    x \in (th[p].off)..((th[p].off + k) - 1) => Holds(fs', kept', th[p].ip, x, {p}),
         content' \in [Inodes -> Seq(SUBSET Procs)], \A j \in Inodes : j # th[p].ip => content'[j] = content[j],
         Len(content'[th[p].ip]) = Len(content[th[p].ip]),
         \A x \in 0..(fs.mem[th[p].ip].size - 1) :
           content'[th[p].ip][x + 1] = IF m # k /\ x \in (th[p].off)..((th[p].off + k) - 1)
                                      THEN content[th[p].ip][x + 1] \cup {p} ELSE content[th[p].ip][x + 1],
         kept' \in [Blocks -> SUBSET [Bytes -> Procs \cup {0}]],
         NEW u \in ThRec, th' = [th EXCEPT ![p] = u], UNCHANGED <<lock, off, calls>>,
         u.f = th[p].f, u.ip = th[p].ip, u.n = th[p].n, u.i = th[p].i, u.n1 = th[p].n1,
         u.tot = th[p].tot + m, u.off = th[p].off + m, u.tot <= u.n1, u.pc \in {"loop", "end"},
         u.pc = "loop" => u.tot < u.n1 /\ u.off % BSIZE = 0,
         LogSmall(p)'
  PROVE  FInv'
<1> DEFINE t == th[p]
           i == t.ip
           o == off[t.f]
           H == (t.off)..((t.off + k) - 1)
<1>m. m \in Nat
  OBVIOUS
<1>0. MapOK(fs) /\ Typed /\ Quiet /\ Locks /\ fs \in FsRec /\ Calling(p) /\ Writing(p)
  BY Zenon DEF FInv, MapOK
<1>1. /\ t.f \in Files /\ i \in Inodes /\ Busy(p) /\ lock[i] = p
      /\ {o, t.off, t.tot, t.n1, t.n, t.i} \subseteq Nat /\ t.off = o + t.tot
      /\ o + t.n1 <= MAXFILE * BSIZE /\ t.n1 <= ChunkMax /\ o <= fs.mem[i].size
  BY LoopFacts, Zenon
<1>2. Copied(fs, kept, fs', kept', i, H, p)
  BY Zenon
<1>3. lock' = lock /\ off' = off /\ calls' = calls
  BY Zenon
<1>4. th' \in [Procs -> ThRec] /\ th'[p] = u /\ \A q \in Procs \ {p} : th'[q] = th[q]
  BY <1>0, Zenon DEF Typed
<1>5. Busy(p)' /\ \A q \in Procs \ {p} : Busy(q)' <=> Busy(q)
  BY <1>4, Zenon DEF Busy
<1>6. MapOK(fs)' /\ Quiet'
  BY <1>0, <1>2, Zenon DEF Quiet, Copied
<1>7. Typed'
  BY <1>0, <1>3, <1>4, Zenon DEF Typed
<1>8. Locks'
  <2>1. \A q \in Procs : (Busy(q)' <=> Busy(q)) /\ (Busy(q) => th'[q].ip = th[q].ip)
    BY <1>1, <1>4, <1>5, Zenon
  <2> QED  BY <1>0, <1>3, <2>1, LocksKept, Zenon
<1>9. ASSUME NEW q \in Procs, q # p PROVE Calling(q)' /\ Writing(q)' /\ LogSmall(q)'
  <2>1. Calling(q) /\ Writing(q) /\ LogSmall(q) /\ th'[q] = th[q]
    BY <1>4, <1>9, Zenon DEF FInv
  <2>2. Busy(q) => /\ SameFile(fs, fs', th[q].ip) /\ KeptLess(fs, kept, kept', th[q].ip)
                   /\ content'[th[q].ip] = content[th[q].ip]
    <3>1. Busy(q) => th[q].ip # i
      BY <1>0, <1>1, <1>9, <2>1, WritersApart, Zenon
    <3>2. th[q].ip \in Inodes
      BY <1>0, Zenon DEF Typed, ThRec
    <3> QED  BY <1>2, <3>1, <3>2, Zenon DEF Copied
  <2> QED  BY <1>0, <1>3, <2>1, <2>2, Frame, Zenon
<1>10. ASSUME NEW j \in Inodes PROVE Stored(j)'
  <2>0. Stored(j)
    BY Zenon DEF FInv
  <2>1. CASE j # i
    <3>1. SameFile(fs, fs', j) /\ KeptLess(fs, kept, kept', j) /\ content'[j] = content[j]
      BY <1>2, <2>1, Zenon DEF Copied
    <3> QED  BY <1>0, <1>3, <2>0, <3>1, FrameStored, Zenon
  <2>2. CASE j = i
    <3>1. lock'[j] # 0 /\ fs'.mem[j].size = fs.mem[j].size /\ Len(content'[j]) = Len(content[j])
      <4>1. lock'[j] # 0
        <5>1. p # 0 /\ lock'[j] = p
          BY <1>1, <1>3, <2>2, FileMapConstants
        <5> QED  BY <5>1, Zenon
      <4>2. fs'.mem[j].size = fs.mem[j].size /\ Len(content'[j]) = Len(content[j])
        BY <1>2, <2>2, Zenon DEF Copied
      <4> QED  BY <4>1, <4>2, Zenon
    <3> QED  BY <1>3, <2>0, <3>1, Zenon DEF Stored
  <2> QED  BY <2>1, <2>2, Zenon
<1>11. /\ off'[th'[p].f] = o /\ th'[p].ip = i /\ th'[p].off = t.off + m
       /\ fs'.mem[i].size = fs.mem[i].size
  BY <1>1, <1>2, <1>3, <1>4, Zenon DEF Copied
<1>12. Calling(p)'
  <2>1. u.pc # "idle" /\ t.i < t.n /\ t.ip = Ip(t.f) /\ t.i + t.n1 <= t.n
    <3>1. "loop" # "idle" /\ u.pc # "idle"
      OBVIOUS
    <3> QED  BY <1>0, <3>1, Zenon DEF Calling
  <2>2. u.off = o + u.tot
    <3> HIDE DEF t, o
    <3>1. u.off = t.off + m /\ u.tot = t.tot + m
      BY Zenon DEF t
    <3> QED  BY ONLY <1>1, <1>m, <3>1
  <2> QED  BY <1>1, <1>4, <1>5, <1>11, <2>1, <2>2, Zenon DEF Calling
<1>13. Writing(p)'
  <2> HIDE DEF t, i, o
  <2>0. /\ o \in Nat /\ t.off \in Nat /\ t.tot \in Nat /\ t.n1 \in Nat /\ MAXFILE * BSIZE \in Nat
        /\ fs.mem[i].size \in 0..(MAXFILE * BSIZE)
    BY <1>0, <1>1, FsTypes, Sizes, Zenon
  <2>1. t.tot + k <= t.n1 /\ m \in {0, k} /\ k \in Nat
    BY Zenon DEF t
  <2>2. /\ \A x \in o..(t.off - 1) : Holds(fs, kept, i, x, {p})
        /\ \A x \in 0..(fs.mem[i].size - 1) :
             ~ (o <= x /\ x < t.off) => Holds(fs, kept, i, x, content[i][x + 1])
    BY <1>0, <1>1, Zenon DEF Writing, t, o, i
  <2>c. /\ m = k => \A x \in 0..(MAXFILE * BSIZE - 1) : x \in H => Holds(fs', kept', i, x, {p})
        /\ \A x \in 0..(fs.mem[i].size - 1) :
             content'[i][x + 1] = IF m # k /\ x \in H THEN content[i][x + 1] \cup {p} ELSE content[i][x + 1]
    BY Zenon DEF t, i
  <2>3. ASSUME NEW x \in o..((t.off + m) - 1) PROVE Holds(fs', kept', i, x, {p})
    <3>1. x \in 0..(MAXFILE * BSIZE - 1) /\ (x \notin H => x \in o..(t.off - 1)) /\ (x \in H => m = k)
      BY ONLY <1>1, <2>0, <2>1, <2>3, SMTT(20)
    <3>2. CASE x \in H
      BY <2>c, <3>1, <3>2, Zenon
    <3>3. CASE x \notin H
      <4>1. Holds(fs, kept, i, x, {p})
        BY <2>2, <3>1, <3>3, Zenon
      <4> HIDE DEF H
      <4> QED  BY <1>2, <3>1, <3>3, <4>1, Zenon DEF Copied
    <3> QED  BY <3>2, <3>3, Zenon
  <2>4. ASSUME NEW x \in 0..(fs.mem[i].size - 1), ~ (o <= x /\ x < t.off + m)
        PROVE  Holds(fs', kept', i, x, content'[i][x + 1])
    <3>1. x \in 0..(MAXFILE * BSIZE - 1) /\ ~ (o <= x /\ x < t.off) /\ (x \in H => m # k)
      BY ONLY <1>1, <2>0, <2>1, <2>4, SMTT(20)
    <3>2. Holds(fs, kept, i, x, content[i][x + 1])
      BY <2>2, <3>1, Zenon
    <3> HIDE DEF H
    <3>3. CASE x \in H
      <4>1. content'[i][x + 1] = content[i][x + 1] \cup {p}
        BY <2>c, <3>1, <3>3, Zenon
      <4>2. Holds(fs', kept', i, x, content[i][x + 1] \cup {p})
        BY <1>2, <3>1, <3>2, <3>3, Zenon DEF Copied
      <4> QED  BY <4>1, <4>2, Zenon
    <3>4. CASE x \notin H
      <4>1. content'[i][x + 1] = content[i][x + 1]
        BY <2>c, <3>4, Zenon
      <4>2. Holds(fs', kept', i, x, content[i][x + 1])
        BY <1>2, <3>1, <3>2, <3>4, Zenon DEF Copied
      <4> QED  BY <4>1, <4>2, Zenon
    <3> QED  BY <3>3, <3>4, Zenon
  <2> QED  BY <1>11, <2>3, <2>4, Zenon DEF Writing
<1>14. ASSUME NEW q \in Procs PROVE Calling(q)' /\ Writing(q)' /\ LogSmall(q)'
  BY <1>9, <1>12, <1>13, Zenon
<1> QED  BY <1>6, <1>7, <1>8, <1>10, <1>14, Zenon DEF FInv

(* What the disk has of the blocks after log_write of some.                 *)
LEMMA KeptIs ==
  ASSUME Typed, NEW L
  PROVE  /\ Kept(L) \in [Blocks -> SUBSET [Bytes -> Procs \cup {0}]]
         /\ \A b \in Blocks : Kept(L)[b] \subseteq kept[b] /\ (<<"block", b>> \in L => Kept(L)[b] = {})
<1>1. \A b \in Blocks : Kept(L)[b] = IF <<"block", b>> \in L THEN {} ELSE kept[b]
  BY Zenon DEF Kept
<1>2. kept \in [Blocks -> SUBSET [Bytes -> Procs \cup {0}]]
  BY Zenon DEF Typed
<1>3. \A b \in Blocks : Kept(L)[b] \in SUBSET [Bytes -> Procs \cup {0}]
  BY <1>1, <1>2, Zenon
<1>4. Kept(L) = [b \in Blocks |-> Kept(L)[b]]
  BY Zenon DEF Kept
<1>5. Kept(L) \in [Blocks -> SUBSET [Bytes -> Procs \cup {0}]]
  BY <1>3, <1>4, Zenon
<1> QED  BY <1>1, <1>5, Zenon

(* The history of a file after a copy that failed.                          *)
LEMMA TaintedIs ==
  ASSUME NEW c \in Seq(SUBSET Procs), NEW o \in Nat, NEW k \in Nat, NEW v \in Procs
  PROVE  LET d == Tainted(c, o, k, v)
         IN  /\ d \in Seq(SUBSET Procs) /\ Len(d) = Len(c)
             /\ \A x \in 1..Len(c) : d[x] = IF x > o /\ x <= o + k THEN c[x] \cup {v} ELSE c[x]
<1> DEFINE n == Len(c)
           E(x) == IF x > o /\ x <= o + k THEN c[x] \cup {v} ELSE c[x]
           d == [x \in 1..n |-> E(x)]
<1>1. d = Tainted(c, o, k, v)
  BY DEF Tainted
<1>2. n \in Nat
  OBVIOUS
<1>3. ASSUME NEW x \in 1..n PROVE E(x) \in SUBSET Procs
  <2>1. c[x] \in SUBSET Procs
    OBVIOUS
  <2> QED  BY <2>1, Zenon
<1> HIDE DEF n, E
<1>4. d \in [1..n -> SUBSET Procs] /\ \A x \in 1..n : d[x] = E(x)
  BY <1>3
<1> HIDE DEF d
<1>5. d \in Seq(SUBSET Procs) /\ DOMAIN d = 1..n
  BY <1>2, <1>4
<1>6. Len(d) = n
  BY <1>2, <1>5
<1> QED  BY <1>1, <1>4, <1>5, <1>6, Zenon DEF n, E

(* The positions of k bytes from o on.                                      *)
LEMMA Between == \A o, k, x \in Nat : x \in o..((o + k) - 1) <=> o <= x /\ x < o + k
  OBVIOUS

(* One block of writei's loop.                                              *)
LEMMA BlockStep == ASSUME SetFacts, FInv, NEW p \in Procs, NEW c \in 0..BSIZE, Block(p, c) PROVE FInv'
<1> DEFINE t == th[p]
           i == t.ip
           o == off[t.f]
           bn == t.off \div BSIZE
           r == t.off % BSIZE
           s == bmap(fs, i, bn)
           b == s.ret
           m == Least(t.n1 - t.tot, BSIZE - r)
           h == {k \in Bytes : k >= r /\ k < r + c}
           f == [k \in Bytes |-> IF k \in h THEN p ELSE s.data[b].bytes[k]]
           w == Put(s, b, f)
           L == s.log \cup {<<"block", b>>}
           K == Kept(s.log)
           H == (t.off)..((t.off + c) - 1)
           T == SUBSET [Bytes -> Procs \cup {0}]
           stop == [t EXCEPT !.pc = "end", !.log = @ \cup s.log]
           old == IF c = 0 \/ <<"block", b>> \in s.log \/ K[b] # {} THEN K[b] ELSE {s.data[b].bytes}
           pc == IF t.tot + m = t.n1 THEN "end" ELSE "loop"
           u == [t EXCEPT !.tot = @ + m, !.off = @ + m, !.log = @ \cup L, !.pc = pc]
<1>0. MapOK(fs) /\ Typed /\ Quiet /\ fs.log = {} /\ t.pc = "loop"
  BY Zenon DEF FInv, Quiet, Block
<1>1. /\ t \in ThRec /\ i \in Inodes /\ {o, t.off, t.tot, t.n1, t.n, t.i} \subseteq Nat
      /\ t.off = o + t.tot /\ t.tot < t.n1 /\ t.off < MAXFILE * BSIZE
      /\ bn \in 0..(MAXFILE - 1) /\ r \in 0..(BSIZE - 1)
      /\ m \in Nat \ {0} /\ m <= BSIZE - r /\ t.tot + m <= t.n1
      /\ t.tot + m # t.n1 => t.tot + m < t.n1 /\ m = BSIZE - r
  BY <1>0, LoopFacts, Zenon
<1>2. Keeps(fs, s, i) /\ b = At(s, i, Key(bn))
  BY <1>0, <1>1, Bmap, Zenon
<1>3. UNCHANGED <<lock, off, calls>>
  BY Zenon DEF Block
<1>4. t.off \in Nat /\ t.tot \in Nat /\ t.n1 \in Nat /\ o \in Nat /\ BSIZE \in Nat \ {0} /\ MAXFILE * BSIZE \in Nat
  BY <1>1, Sizes, Zenon
<1>5. ASSUME NEW X, X \subseteq L
      PROVE  /\ IsFiniteSet(t.log \cup X)
             /\ Cardinality((t.log \cup X) \ IndLog(s, i)) <= 2 * Room + 1
             /\ Cardinality((t.log \cup X) \ IndLog(s, i))
                  <= 2 * ((bn - (o \div BSIZE)) + 1) - (IF o % BSIZE # 0 THEN 1 ELSE 0)
  BY <1>0, <1>5, LogGrows, Zenon
<1>6. s \in FsRec
  BY <1>2, Zenon DEF Keeps, MapOK
<1>7. \/ b = 0 /\ c = 0 /\ fs' = Settled(s) /\ kept' = K /\ content' = content /\ th' = [th EXCEPT ![p] = stop]
      \/ /\ b # 0 /\ c < m /\ fs' = Settled(w) /\ kept' = [K EXCEPT ![b] = old]
         /\ content' = [content EXCEPT ![i] = Tainted(content[i], t.off, c, p)]
         /\ th' = [th EXCEPT ![p] = stop]
      \/ /\ b # 0 /\ c = m /\ fs' = Settled(w) /\ kept' = Kept(L) /\ content' = content
         /\ th' = [th EXCEPT ![p] = u]
  BY Zenon DEF Block, Put
<1>8. /\ th \in [Procs -> ThRec] /\ content \in [Inodes -> Seq(SUBSET Procs)] /\ c \in Nat
      /\ Len(content[i]) = fs.mem[i].size
  <2>1. c \in Nat
    BY <1>4
  <2>2. Stored(i)
    BY <1>1, Zenon DEF FInv
  <2> QED  BY <1>0, <2>1, <2>2, Zenon DEF Typed, Stored
<1>9. /\ K \in [Blocks -> T] /\ \A e \in Blocks : K[e] \subseteq kept[e]
      /\ Kept(L) \in [Blocks -> T] /\ \A e \in Blocks : Kept(L)[e] \subseteq kept[e]
      /\ b \in Blocks => Kept(L)[b] = {}
  BY <1>0, KeptIs, Zenon
<1>10. b # 0 => b \in Blocks /\ s.data[b].bytes \in [Bytes -> Procs \cup {0}]
  <2>1. Key(bn) \in Keys /\ MapOK(s)
    BY <1>1, <1>2, KeyOwn, Zenon DEF Keeps
  <2>2. b # 0 => b \in Blocks
    BY <1>1, <1>2, <2>1, AtUsed, Zenon
  <2> HIDE DEF s, b
  <2> QED  BY <1>6, <2>2, FsTypes, Zenon
<1> HIDE DEF K
<1>11. InBlock(H, bn, h) \/ ~ (c <= m)
  <2> SUFFICES ASSUME c <= m, NEW x \in 0..(MAXFILE * BSIZE - 1)
               PROVE  x \in H <=> x \div BSIZE = bn /\ x % BSIZE \in h
    BY Zenon DEF InBlock
  <2>0. x \in Nat /\ x < MAXFILE * BSIZE
    BY <1>4
  <2>1. x % BSIZE \in Bytes /\ x % BSIZE \in Nat
    BY <1>4, <2>0, KeyIn, DivMod
  <2>2. t.off <= x /\ x < t.off + c <=> x \div BSIZE = bn /\ r <= x % BSIZE /\ x % BSIZE < r + c
    <3>1. c <= BSIZE - r
      <4> HIDE DEF m, r
      <4> QED  BY ONLY <1>1, <1>4, <1>8, c <= m
    <3> QED  BY <1>4, <1>8, <2>0, <3>1, SameBlock, Zenon
  <2>3. x \in H <=> t.off <= x /\ x < t.off + c
    BY <1>4, <1>8, <2>0, Between, Zenon
  <2>4. x % BSIZE \in h <=> r <= x % BSIZE /\ x % BSIZE < r + c
    <3> HIDE DEF r
    <3> QED  BY <1>1, <2>1
  <2> QED  BY <2>2, <2>3, <2>4, Zenon
<1>12. ASSUME b # 0, c <= m, fs' = Settled(w), \A e \in Blocks : e # b => kept'[e] \subseteq kept[e],
              \A d \in kept'[b] : d \in kept[b] \/ d = s.data[b].bytes
       PROVE  /\ Copied(fs, kept, fs', kept', i, H, p) /\ Ind(fs', i) = Ind(s, i)
              /\ kept'[b] = {} => \A x \in 0..(MAXFILE * BSIZE - 1) : x \in H => Holds(fs', kept', i, x, {p})
  <2> DEFINE z == Settled(w)
  <2>1. MapOK(fs) /\ i \in Inodes /\ bn \in 0..(MAXFILE - 1) /\ InBlock(H, bn, h)
    BY <1>0, <1>1, <1>11, <1>12, Zenon
  <2> HIDE DEF H, h, s, bn, i
  <2>0. s.ret = At(s, i, Key(bn)) /\ s.ret # 0 /\ Keeps(fs, s, i)
    BY <1>2, <1>12, Zenon
  <2>5. z = Settled(Put(s, s.ret, Moved(s, h, p)))
    BY Zenon DEF Moved
  <2> HIDE DEF z
  <2>2. CanCopy(fs, i, bn, s, h, H, kept, kept', p, z)
    BY <1>12, <2>0, <2>1, <2>5, Zenon DEF KeepsOld, CanCopy
  <2>3. fs' = z
    BY <1>12, Zenon DEF z
  <2> HIDE DEF b
  <2>4. /\ Copied(fs, kept, z, kept', i, H, p) /\ Ind(z, i) = Ind(s, i)
        /\ kept'[s.ret] = {} => \A x \in 0..(MAXFILE * BSIZE - 1) : x \in H => Holds(z, kept', i, x, {p})
    BY ONLY <2>2, Copy, Zenon
  <2> QED  BY ONLY <2>3, <2>4, Zenon DEF b
<1> HIDE DEF s, w, f
<1>13. /\ stop \in ThRec /\ stop.f = t.f /\ stop.ip = i /\ stop.n = t.n /\ stop.i = t.i /\ stop.n1 = t.n1
       /\ stop.tot = t.tot /\ stop.off = t.off /\ stop.pc = "end" /\ stop.log = t.log \cup s.log
  <2> SUFFICES ASSUME NEW a \in ThRec, NEW v, v = [a EXCEPT !.pc = "end", !.log = @ \cup s.log]
               PROVE  /\ v \in ThRec /\ v.f = a.f /\ v.ip = a.ip /\ v.n = a.n /\ v.i = a.i /\ v.n1 = a.n1
                      /\ v.tot = a.tot /\ v.off = a.off /\ v.pc = "end" /\ v.log = a.log \cup s.log
    BY <1>1, ZenonT(60)
  <2>1. s.log \in SUBSET Entries
    BY <1>6, Zenon DEF FsRec, Entries
  <2>2. a.log \cup s.log \in SUBSET Entries
    BY <2>1, Zenon DEF ThRec
  <2> QED  BY <2>2, Zenon DEF ThRec
<1> HIDE DEF stop, u
<1>14. ASSUME th' = [th EXCEPT ![p] = stop], Ind(fs', i) = Ind(s, i) PROVE LogSmall(p)'
  <2>1. th'[p] = stop
    BY <1>8, <1>14, Zenon
  <2>2. IndLog(fs', i) = IndLog(s, i)
    BY <1>14, Zenon DEF IndLog
  <2>3. IsFiniteSet(stop.log) /\ Cardinality(stop.log \ IndLog(fs', i)) <= 2 * Room + 1
    BY <1>5, <1>13, <2>2, Zenon
  <2>4. "end" # "loop"
    OBVIOUS
  <2> QED  BY <1>13, <2>1, <2>3, <2>4, Zenon DEF LogSmall
<1>15. /\ stop.pc \in {"loop", "end"} /\ stop.pc # "loop" /\ stop.tot = t.tot + 0 /\ stop.off = t.off + 0
       /\ stop.tot <= stop.n1 /\ 0 \in {0, c} /\ 0 \in Nat
  <2> HIDE DEF t
  <2> QED  BY ONLY <1>1, <1>4, <1>13
<1>16. CASE b = 0 /\ c = 0 /\ fs' = Settled(s) /\ kept' = K /\ content' = content /\ th' = [th EXCEPT ![p] = stop]
  <2>1. H = {} /\ t.tot + c <= t.n1
    <3> HIDE DEF t
    <3> QED  BY ONLY <1>1, <1>4, <1>16
  <2>2. Copied(fs, kept, fs', kept', i, H, p) /\ Ind(fs', i) = Ind(s, i)
    BY <1>0, <1>1, <1>2, <1>9, <1>16, <2>1, NoCopy, Zenon
  <2>3. LogSmall(p)'
    BY <1>14, <1>16, <2>2, Zenon
  <2>4. \A x \in 0..(fs.mem[i].size - 1) :
          content'[i][x + 1] = IF 0 # c /\ x \in H THEN content[i][x + 1] \cup {p} ELSE content[i][x + 1]
    BY <1>16, Zenon
  <2>5. \A x \in 0..(MAXFILE * BSIZE - 1) : x \in H => Holds(fs', kept', i, x, {p})
    BY <2>1, Zenon
  <2>6. content' \in [Inodes -> Seq(SUBSET Procs)] /\ kept' \in [Blocks -> T]
    BY <1>8, <1>9, <1>16, Zenon
  <2> HIDE DEF b, K
  <2> QED  BY <1>0, <1>3, <1>8, <1>13, <1>15, <1>16, <2>1, <2>2, <2>3, <2>4, <2>5, <2>6, BlockDone, Zenon
<1>17. CASE /\ b # 0 /\ c < m /\ fs' = Settled(w) /\ kept' = [K EXCEPT ![b] = old]
            /\ content' = [content EXCEPT ![i] = Tainted(content[i], t.off, c, p)]
            /\ th' = [th EXCEPT ![p] = stop]
  <2> DEFINE D == Tainted(content[i], t.off, c, p)
  <2>1. c <= m /\ t.tot + c <= t.n1
    <3>1. c < m /\ c \in Nat /\ m \in Nat /\ t.tot \in Nat /\ t.n1 \in Nat /\ t.tot + m <= t.n1
      BY <1>1, <1>4, <1>8, <1>17, Zenon
    <3> HIDE DEF t, m
    <3> QED  BY ONLY <3>1
  <2>2. old \in T /\ \A d \in old : d \in kept[b] \/ d = s.data[b].bytes
    <3>1. old = K[b] \/ old = {s.data[b].bytes}
      BY Zenon
    <3> HIDE DEF old
    <3> QED  BY <1>9, <1>10, <1>17, <3>1, Zenon
  <2> HIDE DEF old
  <2>3. kept' \in [Blocks -> T] /\ kept'[b] = old /\ \A e \in Blocks : e # b => kept'[e] \subseteq kept[e]
    BY <1>9, <1>10, <1>17, <2>2, Zenon
  <2>4. Copied(fs, kept, fs', kept', i, H, p) /\ Ind(fs', i) = Ind(s, i)
    BY <1>12, <1>17, <2>1, <2>2, <2>3, Zenon
  <2>5. LogSmall(p)'
    BY <1>14, <1>17, <2>4, Zenon
  <2>6. /\ D \in Seq(SUBSET Procs) /\ Len(D) = Len(content[i])
        /\ \A x \in 1..Len(content[i]) :
              D[x] = IF x > t.off /\ x <= t.off + c THEN content[i][x] \cup {p} ELSE content[i][x]
    <3>1. content[i] \in Seq(SUBSET Procs) /\ t.off \in Nat /\ c \in Nat
      BY <1>1, <1>4, <1>8, Zenon
    <3> HIDE DEF i, t
    <3> QED  BY ONLY <3>1, p \in Procs, TaintedIs, Zenon
  <2> HIDE DEF D
  <2>7. /\ content' \in [Inodes -> Seq(SUBSET Procs)] /\ content'[i] = D
        /\ \A j \in Inodes : j # i => content'[j] = content[j]
    BY <1>1, <1>8, <1>17, <2>6, Zenon DEF D
  <2>8. ASSUME NEW x \in 0..(fs.mem[i].size - 1)
        PROVE  content'[i][x + 1] = IF 0 # c /\ x \in H THEN content[i][x + 1] \cup {p} ELSE content[i][x + 1]
    <3>0. fs.mem[i].size \in Nat
      <4>1. fs.mem[i].size \in 0..(MAXFILE * BSIZE)
        BY <1>0, <1>1, FsTypes, Zenon DEF MapOK
      <4> HIDE DEF i
      <4> QED  BY ONLY <1>4, <4>1
    <3>1. x \in Nat /\ x + 1 \in 1..Len(content[i])
      <4> DEFINE N == fs.mem[i].size
      <4>1. Len(content[i]) = N /\ N \in Nat /\ x \in 0..(N - 1)
        BY <1>8, <3>0, Zenon
      <4> HIDE DEF N
      <4>2. x \in Nat /\ x + 1 \in 1..N
        BY ONLY <4>1
      <4> QED  BY <4>1, <4>2, Zenon
    <3>2. (x + 1 > t.off /\ x + 1 <= t.off + c) <=> (0 # c /\ x \in H)
      <4> HIDE DEF t
      <4> QED  BY ONLY <1>4, <1>8, <3>1, SMTT(20)
    <3> HIDE DEF H
    <3> QED  BY <2>6, <2>7, <3>1, <3>2, Zenon
  <2>9. ASSUME 0 = c, NEW x \in 0..(MAXFILE * BSIZE - 1), x \in H PROVE Holds(fs', kept', i, x, {p})
    <3>1. H = {}
      <4> HIDE DEF t
      <4> QED  BY ONLY <1>4, <2>9
    <3> QED  BY <2>9, <3>1, Zenon
  <2>10. Len(content'[i]) = Len(content[i])
    BY <2>6, <2>7, Zenon
  <2> HIDE DEF b, K
  <2> QED  BY <1>0, <1>3, <1>8, <1>13, <1>15, <1>17, <2>1, <2>3, <2>4, <2>5, <2>7, <2>8, <2>9, <2>10, BlockDone, Zenon
<1>18. CASE /\ b # 0 /\ c = m /\ fs' = Settled(w) /\ kept' = Kept(L) /\ content' = content
            /\ th' = [th EXCEPT ![p] = u]
  <2>1. c <= m /\ t.tot + c <= t.n1
    <3> HIDE DEF t, m
    <3> QED  BY ONLY <1>1, <1>4, <1>8, <1>18
  <2>2. kept' \in [Blocks -> T] /\ kept'[b] = {} /\ \A e \in Blocks : e # b => kept'[e] \subseteq kept[e]
    BY <1>9, <1>10, <1>18, Zenon
  <2>3. L \in SUBSET Entries
    <3>1. s.log \in SUBSET Entries
      BY <1>6, Zenon DEF FsRec, Entries
    <3>2. <<"block", b>> \in Entries
      <4>1. b \in Nat
        BY <1>10, <1>18, Sizes
      <4> QED  BY <4>1, Zenon DEF Entries
    <3> QED  BY <3>1, <3>2, Zenon
  <2>4. /\ Copied(fs, kept, fs', kept', i, H, p) /\ Ind(fs', i) = Ind(s, i)
        /\ \A x \in 0..(MAXFILE * BSIZE - 1) : x \in H => Holds(fs', kept', i, x, {p})
    BY <1>12, <1>18, <2>1, <2>2, Zenon
  <2> HIDE DEF m, h, pc, L
  <2>5. /\ u \in ThRec /\ u.f = t.f /\ u.ip = i /\ u.n = t.n /\ u.i = t.i /\ u.n1 = t.n1
        /\ u.tot = t.tot + m /\ u.off = t.off + m /\ u.pc = pc /\ u.log = t.log \cup L
    <3> USE DEF u
    <3>1. t.tot + m \in Nat /\ t.off + m \in Nat /\ pc \in {"idle", "chunk", "loop", "end"}
      <4>1. t.tot + m \in Nat /\ t.off + m \in Nat
        <5> HIDE DEF t
        <5> QED  BY ONLY <1>1, <1>4
      <4> QED  BY <4>1, Zenon DEF pc
    <3> SUFFICES ASSUME NEW a \in ThRec, a.tot + m \in Nat, a.off + m \in Nat, NEW v,
                        v = [a EXCEPT !.tot = @ + m, !.off = @ + m, !.log = @ \cup L, !.pc = pc]
                 PROVE  /\ v \in ThRec /\ v.f = a.f /\ v.ip = a.ip /\ v.n = a.n /\ v.i = a.i /\ v.n1 = a.n1
                        /\ v.tot = a.tot + m /\ v.off = a.off + m /\ v.pc = pc /\ v.log = a.log \cup L
      BY <1>1, <3>1, Zenon
    <3>3. a.log \cup L \in SUBSET Entries
      BY <2>3, Zenon DEF ThRec
    <3> QED  BY <3>1, <3>3, Zenon DEF ThRec
  <2>6. th \in [Procs -> ThRec] /\ th'[p] = u
    BY <1>8, <1>18, <2>5, Zenon
  <2>7. pc \in {"loop", "end"} /\ (pc = "loop" => t.tot + m # t.n1)
    BY DEF pc
  <2>8. u.tot <= u.n1 /\ (u.pc = "loop" => u.tot < u.n1)
    BY <1>1, <2>5, <2>7, Zenon
  <2>9. pc = "loop" => (t.off + m) % BSIZE = 0 /\ (t.off + m) \div BSIZE = bn + 1
    BY <1>1, <1>4, <2>7, NextBlock, Zenon
  <2>10. LogSmall(p)'
    <3>1. IndLog(fs', i) = IndLog(s, i)
      BY <2>4, Zenon DEF IndLog
    <3>2. /\ IsFiniteSet(u.log) /\ Cardinality(u.log \ IndLog(fs', i)) <= 2 * Room + 1
          /\ Cardinality(u.log \ IndLog(fs', i))
               <= 2 * ((bn - (o \div BSIZE)) + 1) - (IF o % BSIZE # 0 THEN 1 ELSE 0)
      BY <1>5, <2>5, <3>1, Zenon
    <3>3. u.pc = "loop" => (u.off \div BSIZE) - (o \div BSIZE) = (bn - (o \div BSIZE)) + 1
      <4>1. bn \in Nat /\ o \div BSIZE \in Nat
        BY <1>4, DivMod, Zenon
      <4>2. u.pc = "loop" => u.off \div BSIZE = bn + 1
        BY <2>5, <2>9, Zenon
      <4> HIDE DEF bn, o
      <4> QED  BY ONLY <4>1, <4>2
    <3>4. u.tot > 0
      <4> HIDE DEF t
      <4> QED  BY ONLY <1>1, <1>4, <2>5
    <3>5. off'[th'[p].f] = o /\ th'[p].ip = i
      BY <1>3, <2>5, <2>6, Zenon
    <3>6. u.pc = "loop" => Cardinality(u.log \ IndLog(fs', i))
            <= 2 * ((u.off \div BSIZE) - (o \div BSIZE)) - (IF o % BSIZE # 0 /\ u.tot > 0 THEN 1 ELSE 0)
      BY <3>2, <3>3, <3>4, Zenon
    <3> QED  BY <2>6, <3>2, <3>5, <3>6, Zenon DEF LogSmall
  <2>11. u.pc = "loop" => u.tot < u.n1 /\ u.off % BSIZE = 0
    BY <2>5, <2>8, <2>9, Zenon
  <2>12. u.pc \in {"loop", "end"} /\ m \in {0, c} /\ u.tot = t.tot + m /\ u.off = t.off + m
    BY <1>18, <2>5, <2>7, Zenon
  <2>13. \A x \in 0..(fs.mem[i].size - 1) :
           content'[i][x + 1] = IF m # c /\ x \in H THEN content[i][x + 1] \cup {p} ELSE content[i][x + 1]
    BY <1>18, Zenon
  <2>14. content' \in [Inodes -> Seq(SUBSET Procs)]
    BY <1>8, <1>18, Zenon
  <2> HIDE DEF b
  <2> QED  BY <1>0, <1>3, <1>8, <1>18, <2>1, <2>2, <2>4, <2>5, <2>8, <2>10, <2>11, <2>12, <2>13, <2>14, BlockDone, Zenon
<1> QED  BY <1>7, <1>16, <1>17, <1>18, Zenon

(* Fields after an assignment to ip->size, after iupdate, and after both.   *)
SetLen(s, i, v) == [s EXCEPT !.mem[i].size = v]

(* Fields after the size is set.                                            *)
LEMMA LenFields ==
  ASSUME NEW s \in FsRec, NEW i \in Inodes, NEW v \in 0..(MAXFILE * BSIZE)
  PROVE  LET t == SetLen(s, i, v) IN
         /\ t \in FsRec /\ t.used = s.used /\ t.data = s.data /\ t.disk = s.disk /\ t.panic = s.panic
         /\ t.mem[i].size = v /\ t.mem[i].addrs = s.mem[i].addrs
         /\ \A j \in Inodes : j # i => t.mem[j] = s.mem[j]
<1> SUFFICES ASSUME NEW t, t = SetLen(s, i, v)
             PROVE  /\ t \in FsRec /\ t.used = s.used /\ t.data = s.data /\ t.disk = s.disk
                    /\ t.panic = s.panic /\ t.mem[i].size = v /\ t.mem[i].addrs = s.mem[i].addrs
                    /\ \A j \in Inodes : j # i => t.mem[j] = s.mem[j]
  BY Zenon
<1> DEFINE d == [s.mem[i] EXCEPT !.size = v]
<1>1. /\ t.used = s.used /\ t.data = s.data /\ t.disk = s.disk
      /\ t.panic = s.panic /\ t.ret = s.ret /\ t.log = s.log
      /\ t.mem = [s.mem EXCEPT ![i] = d]
  BY DEF FsRec, SetLen
<1>2. t = [used |-> t.used, data |-> t.data, mem |-> t.mem, disk |-> t.disk, ret |-> t.ret,
           log |-> t.log, panic |-> t.panic]
  BY Zenon DEF FsRec, SetLen
<1>3. s.mem \in [Inodes -> Dinode] /\ s.mem[i] \in Dinode
  BY Zenon DEF FsRec
<1>4. d.size = v /\ d.addrs = s.mem[i].addrs /\ d \in Dinode
  BY <1>3, Zenon DEF Dinode
<1> HIDE DEF d
<1>5. /\ t.mem \in [Inodes -> Dinode] /\ t.mem[i] = d
      /\ \A j \in Inodes : j # i => t.mem[j] = s.mem[j]
  BY <1>1, <1>3, <1>4, Zenon
<1>6. t \in FsRec
  BY <1>1, <1>2, <1>5 DEF FsRec
<1> QED  BY <1>1, <1>4, <1>5, <1>6, Zenon

(* Fields after iupdate.                                                    *)
LEMMA IupdateFields ==
  ASSUME NEW s \in FsRec, NEW i \in Inodes
  PROVE  LET t == iupdate(s, i) IN
         /\ t \in FsRec /\ t.used = s.used /\ t.data = s.data /\ t.mem = s.mem /\ t.panic = s.panic
         /\ t.disk[i] = s.mem[i] /\ \A j \in Inodes : j # i => t.disk[j] = s.disk[j]
<1> SUFFICES ASSUME NEW t, t = iupdate(s, i)
             PROVE  /\ t \in FsRec /\ t.used = s.used /\ t.data = s.data /\ t.mem = s.mem
                    /\ t.panic = s.panic /\ t.disk[i] = s.mem[i]
                    /\ \A j \in Inodes : j # i => t.disk[j] = s.disk[j]
  BY Zenon
<1>1. /\ t.used = s.used /\ t.data = s.data /\ t.mem = s.mem
      /\ t.panic = s.panic /\ t.ret = s.ret /\ t.log = s.log \cup {<<"inode", i>>}
      /\ t.disk = [s.disk EXCEPT ![i] = s.mem[i]]
  BY DEF FsRec, iupdate
<1>2. t = [used |-> t.used, data |-> t.data, mem |-> t.mem, disk |-> t.disk, ret |-> t.ret,
           log |-> t.log, panic |-> t.panic]
  BY Zenon DEF FsRec, iupdate
<1>3. s.disk \in [Inodes -> Dinode] /\ s.mem[i] \in Dinode
  BY FsTypes, Zenon
<1>4. /\ t.disk \in [Inodes -> Dinode] /\ t.disk[i] = s.mem[i]
      /\ \A j \in Inodes : j # i => t.disk[j] = s.disk[j]
  BY <1>1, <1>3, Zenon
<1>5. t.log \in SUBSET ({"bitmap", "block", "inode"} \X Nat)
  <2>1. i \in Nat
    BY Sizes DEF Inodes
  <2> QED  BY <1>1, <2>1 DEF FsRec
<1>6. t \in FsRec
  BY <1>1, <1>2, <1>4, <1>5 DEF FsRec
<1> QED  BY <1>1, <1>4, <1>6, Zenon

(* Fields after the size is set and the inode is written.                   *)
LEMMA SizeFields ==
  ASSUME NEW s \in FsRec, NEW i \in Inodes, NEW o \in 0..(MAXFILE * BSIZE), NEW w,
         w = Settled(SetSize(s, i, o))
  PROVE  /\ w \in FsRec /\ w.used = s.used /\ w.data = s.data /\ w.panic = s.panic /\ w.ret = 0 /\ w.log = {}
         /\ w.mem[i].addrs = s.mem[i].addrs
         /\ w.mem[i].size = IF o > s.mem[i].size THEN o ELSE s.mem[i].size
         /\ w.disk[i] = w.mem[i]
         /\ \A j \in Inodes : j # i => w.mem[j] = s.mem[j] /\ w.disk[j] = s.disk[j]
<1> DEFINE v == IF o > s.mem[i].size THEN o ELSE s.mem[i].size
           a == SetLen(s, i, v)
           b == iupdate(a, i)
<1>1. v \in 0..(MAXFILE * BSIZE)
  BY FsTypes, Zenon
<1>2. SetSize(s, i, o) = b
  BY Zenon DEF SetSize, SetLen
<1> HIDE DEF v
<1>3. /\ a \in FsRec /\ a.used = s.used /\ a.data = s.data /\ a.disk = s.disk /\ a.panic = s.panic
      /\ a.mem[i].size = v /\ a.mem[i].addrs = s.mem[i].addrs
      /\ \A j \in Inodes : j # i => a.mem[j] = s.mem[j]
  BY <1>1, LenFields
<1> HIDE DEF a
<1>4. /\ b \in FsRec /\ b.used = a.used /\ b.data = a.data /\ b.mem = a.mem /\ b.panic = a.panic
      /\ b.disk[i] = a.mem[i] /\ \A j \in Inodes : j # i => b.disk[j] = a.disk[j]
  BY <1>3, IupdateFields
<1> HIDE DEF b
<1>5. /\ w \in FsRec /\ w.used = b.used /\ w.data = b.data /\ w.mem = b.mem
      /\ w.disk = b.disk /\ w.panic = b.panic /\ w.log = {} /\ w.ret = 0
  BY <1>2, <1>4, SettledFields, Zenon
<1>6. w.used = s.used /\ w.data = s.data /\ w.panic = s.panic /\ w.mem = a.mem
  BY <1>3, <1>4, <1>5, Zenon
<1>7. w.mem[i].addrs = s.mem[i].addrs /\ w.mem[i].size = v /\ w.disk[i] = w.mem[i]
  BY <1>3, <1>4, <1>5, <1>6, Zenon
<1>8. \A j \in Inodes : j # i => w.mem[j] = s.mem[j] /\ w.disk[j] = s.disk[j]
  BY <1>3, <1>4, <1>5, <1>6, Zenon
<1> QED  BY <1>5, <1>6, <1>7, <1>8, Zenon DEF v

(* A new size changes no pointer and no byte.                               *)
LEMMA SizeMap ==
  ASSUME NEW s, MapOK(s), NEW i \in Inodes, NEW o \in 0..(MAXFILE * BSIZE), NEW w,
         w = Settled(SetSize(s, i, o))
  PROVE  /\ MapOK(w) /\ \A j \in Inodes : \A l : At(w, j, l) = At(s, j, l)
         /\ \A j \in Inodes : j # i => SameFile(s, w, j)
         /\ \A K, x, a : Holds(s, K, i, x, a) => Holds(w, K, i, x, a)
<1>0. s \in FsRec
  BY Zenon DEF MapOK
<1>1. /\ w \in FsRec /\ w.used = s.used /\ w.data = s.data /\ w.mem[i].addrs = s.mem[i].addrs
      /\ \A j \in Inodes : j # i => w.mem[j] = s.mem[j] /\ w.disk[j] = s.disk[j]
  BY <1>0, SizeFields
<1>2. ASSUME NEW j \in Inodes, NEW l PROVE At(w, j, l) = At(s, j, l)
  <2>1. w.mem[j].addrs = s.mem[j].addrs
    BY <1>1, Zenon
  <2> QED  BY <1>1, <2>1, Zenon DEF At, Ind
<1>3. MapOK(w)
  BY <1>1, <1>2 DEF MapOK
<1>4. \A j \in Inodes : j # i => SameFile(s, w, j)
  BY <1>1, <1>2, Zenon DEF SameFile
<1>5. \A K, x, a : Holds(s, K, i, x, a) => Holds(w, K, i, x, a)
  BY <1>1, <1>2, Zenon DEF Holds
<1> QED  BY <1>2, <1>3, <1>4, <1>5, Zenon

(* The history of a file after a write.                                     *)
LEMMA WrittenIs ==
  ASSUME NEW c \in Seq(SUBSET Procs), NEW o \in Nat, NEW m \in Nat, o <= Len(c), NEW v \in SUBSET Procs
  PROVE  LET d == Written(c, o, m, v)
             n == IF o + m > Len(c) THEN o + m ELSE Len(c)
         IN  /\ d \in Seq(SUBSET Procs) /\ Len(d) = n
             /\ \A k \in 1..n : d[k] = IF k > o /\ k <= o + m THEN v ELSE c[k]
<1> DEFINE n == IF o + m > Len(c) THEN o + m ELSE Len(c)
           E(k) == IF k > o /\ k <= o + m THEN v ELSE c[k]
           d == [k \in 1..n |-> E(k)]
<1>1. d = Written(c, o, m, v)
  BY DEF Written
<1>2. n \in Nat
  OBVIOUS
<1>3. ASSUME NEW k \in 1..n PROVE E(k) \in SUBSET Procs
  <2>1. CASE k > o /\ k <= o + m
    BY <2>1
  <2>2. CASE ~ (k > o /\ k <= o + m)
    <3>0. Len(c) \in Nat
      OBVIOUS
    <3>1. k \in 1..Len(c)
      BY <2>2, <3>0
    <3> QED  BY <2>2, <3>1
  <2> QED  BY <2>1, <2>2
<1> HIDE DEF n, E
<1>4. d \in [1..n -> SUBSET Procs] /\ \A k \in 1..n : d[k] = E(k)
  BY <1>3
<1> HIDE DEF d
<1>5. d \in Seq(SUBSET Procs) /\ DOMAIN d = 1..n
  BY <1>2, <1>4
<1>6. Len(d) = n
  BY <1>2, <1>5
<1> QED  BY <1>1, <1>4, <1>5, <1>6, Zenon DEF n, E

(* The end of a writei: the new bytes become part of the file.              *)
LEMMA EndStep == ASSUME FInv, NEW p \in Procs, End(p) PROVE FInv'
<1> DEFINE t == th[p]
           i == t.ip
           o == off[t.f]
           C == content[i]
           D == Written(C, t.off - t.tot, t.tot, {p})
           next == [t EXCEPT !.pc = "chunk", !.i = @ + t.tot, !.n1 = 0, !.tot = 0, !.off = 0, !.log = {}]
           u == IF Continue(t) THEN next ELSE Idle
<1>0. MapOK(fs) /\ Typed /\ Quiet /\ Locks /\ fs \in FsRec /\ Calling(p) /\ Writing(p)
  BY Zenon DEF FInv, MapOK
<1>1. /\ t.pc = "end" /\ fs' = Settled(SetSize(fs, i, t.off)) /\ off' = [off EXCEPT ![t.f] = @ + t.tot]
      /\ lock' = [lock EXCEPT ![i] = 0] /\ th' = [th EXCEPT ![p] = u]
      /\ content' = [content EXCEPT ![i] = D] /\ calls' = calls /\ kept' = kept
  BY Zenon DEF End
<1>2. Busy(p)
  BY <1>1, Zenon DEF Busy
<1>3. /\ th \in [Procs -> ThRec] /\ lock \in [Inodes -> Procs \cup {0}] /\ calls \in 0..MaxCalls
      /\ off \in [Files -> 0..(MAXFILE * BSIZE)] /\ content \in [Inodes -> Seq(SUBSET Procs)]
      /\ t \in ThRec /\ i \in Inodes /\ C \in Seq(SUBSET Procs)
      /\ t.off \in Nat /\ t.tot \in Nat /\ t.n1 \in Nat /\ t.n \in Nat /\ t.i \in Nat
  BY <1>0, Zenon DEF Typed, ThRec
<1>4. t.f \in Files /\ i = Ip(t.f) /\ t.i < t.n
  <2>1. "end" # "idle"
    OBVIOUS
  <2> QED  BY <1>0, <1>1, <2>1, Zenon DEF Calling
<1>5. /\ t.off = o + t.tot /\ o <= fs.mem[i].size /\ o + t.n1 <= MAXFILE * BSIZE /\ t.tot <= t.n1
      /\ t.i + t.n1 <= t.n
  BY <1>0, <1>2, Zenon DEF Calling
<1>6. /\ o \in 0..(MAXFILE * BSIZE) /\ MAXFILE * BSIZE \in Nat /\ Len(C) = fs.mem[i].size
      /\ fs.mem[i].size \in 0..(MAXFILE * BSIZE) /\ fs.mem[i].size \in Nat
  <2>1. Stored(i)
    BY <1>3, Zenon DEF FInv
  <2>2. /\ o \in 0..(MAXFILE * BSIZE) /\ MAXFILE * BSIZE \in Nat /\ Len(C) = fs.mem[i].size
        /\ fs.mem[i].size \in 0..(MAXFILE * BSIZE)
    BY <1>0, <1>3, <1>4, <2>1, Sizes, FsTypes, Zenon DEF Stored
  <2>3. \A N \in Nat : \A n \in 0..N : n \in Nat
    OBVIOUS
  <2> QED  BY <2>2, <2>3, Zenon
<1>7. t.off \in 0..(MAXFILE * BSIZE) /\ t.off - t.tot = o /\ o \in Nat /\ o + t.tot \in 0..(MAXFILE * BSIZE)
  <2> HIDE DEF t, o
  <2> QED  BY ONLY <1>3, <1>5, <1>6, SMTT(20)
<1> DEFINE size == IF t.off > fs.mem[i].size THEN t.off ELSE fs.mem[i].size
<1>8. /\ fs'.panic = fs.panic /\ fs'.ret = 0 /\ fs'.log = {} /\ fs'.mem[i].size = size
      /\ fs'.disk[i] = fs'.mem[i]
  BY <1>0, <1>1, <1>3, <1>7, SizeFields, SMTT(40)
<1>9. /\ MapOK(fs') /\ \A j \in Inodes : j # i => SameFile(fs, fs', j)
      /\ \A x, a : Holds(fs, kept, i, x, a) => Holds(fs', kept', i, x, a)
  <2>1. /\ MapOK(fs') /\ \A j \in Inodes : j # i => SameFile(fs, fs', j)
        /\ \A x, a : Holds(fs, kept, i, x, a) => Holds(fs', kept, i, x, a)
    BY <1>0, <1>1, <1>3, <1>7, SizeMap, SMTT(20)
  <2> QED  BY <1>1, <2>1, Zenon
<1>10. /\ D \in Seq(SUBSET Procs) /\ Len(D) = size
       /\ \A k \in 1..size : D[k] = IF k > o /\ k <= t.off THEN {p} ELSE C[k]
  <2>1. /\ Written(C, o, t.tot, {p}) \in Seq(SUBSET Procs)
        /\ Len(Written(C, o, t.tot, {p})) = IF o + t.tot > Len(C) THEN o + t.tot ELSE Len(C)
        /\ \A k \in 1..(IF o + t.tot > Len(C) THEN o + t.tot ELSE Len(C)) :
              Written(C, o, t.tot, {p})[k] = IF k > o /\ k <= o + t.tot THEN {p} ELSE C[k]
    <3>1. o <= Len(C)
      BY <1>5, <1>6, Zenon
    <3>2. C \in Seq(SUBSET Procs) /\ t.tot \in Nat /\ o \in Nat
      BY <1>3, <1>7, Zenon
    <3>3. {p} \in SUBSET Procs
      BY Zenon
    <3> HIDE DEF C, t, o
    <3> QED  BY ONLY <3>1, <3>2, <3>3, WrittenIs, Zenon
  <2> HIDE DEF C, t, i, o
  <2> QED  BY <1>5, <1>6, <1>7, <2>1, Zenon
<1>11. /\ u \in ThRec /\ u.pc \in {"idle", "chunk"} /\ u.n1 = 0 /\ u.tot = 0 /\ u.log = {}
       /\ u.i <= u.n /\ u.i \in Nat /\ u.n \in Nat
       /\ u.pc # "idle" => u.f \in Files /\ u.ip = Ip(u.f) /\ u.i < u.n
  <2>1. CASE Continue(t)
    <3>0. t.i + t.tot \in Nat
      <4> HIDE DEF t
      <4> QED  BY ONLY <1>3
    <3>1. /\ next \in ThRec /\ next.pc = "chunk" /\ next.n1 = 0 /\ next.tot = 0 /\ next.log = {}
          /\ next.i = t.i + t.tot /\ next.n = t.n /\ next.f = t.f /\ next.ip = i
      <4> SUFFICES ASSUME NEW a \in ThRec, a.i + a.tot \in Nat, NEW v,
                          v = [a EXCEPT !.pc = "chunk", !.i = @ + a.tot, !.n1 = 0, !.tot = 0, !.off = 0,
                                        !.log = {}]
                   PROVE  /\ v \in ThRec /\ v.pc = "chunk" /\ v.n1 = 0 /\ v.tot = 0 /\ v.log = {}
                          /\ v.i = a.i + a.tot /\ v.n = a.n /\ v.f = a.f /\ v.ip = a.ip
        BY <1>3, <3>0, Zenon
      <4>1. 0 \in Nat /\ {} \in SUBSET Entries
        OBVIOUS
      <4> QED  BY <4>1, Zenon DEF ThRec
    <3> HIDE DEF next
    <3>2. t.i + t.tot < t.n /\ u = next
      BY <2>1, Zenon DEF Continue
    <3>3. next.i < next.n /\ next.i <= next.n /\ next.i \in Nat /\ next.n \in Nat
      <4> HIDE DEF t
      <4> QED  BY ONLY <1>3, <3>0, <3>1, <3>2, SMTT(20)
    <3> HIDE DEF u
    <3> QED  BY <1>4, <3>1, <3>2, <3>3, Zenon
  <2>2. CASE ~ Continue(t)
    <3>1. u = Idle
      BY <2>2, Zenon
    <3>2. 0 \in Nat /\ 0 <= 0
      OBVIOUS
    <3> HIDE DEF u
    <3> QED  BY <3>1, <3>2, IdleFields, Zenon
  <2> QED  BY <2>1, <2>2, Zenon
<1> HIDE DEF u, D, size, next
<1>12. th' \in [Procs -> ThRec] /\ th'[p] = u /\ \A q \in Procs \ {p} : th'[q] = th[q]
  BY <1>1, <1>3, <1>11, Zenon
<1>13. ~ Busy(p)' /\ \A q \in Procs \ {p} : Busy(q)' <=> Busy(q)
  <2>1. u.pc \notin {"loop", "end"}
    BY ONLY <1>11
  <2> QED  BY <1>12, <2>1, Zenon DEF Busy
<1>14. /\ lock' \in [Inodes -> Procs \cup {0}] /\ lock'[i] = 0
       /\ \A j \in Inodes : j # i => lock'[j] = lock[j]
  BY <1>1, <1>3, Zenon
<1>15. /\ off' \in [Files -> 0..(MAXFILE * BSIZE)] /\ \A f \in Files : f # t.f => off'[f] = off[f]
  BY <1>1, <1>3, <1>4, <1>7, Zenon
<1>16. /\ content' \in [Inodes -> Seq(SUBSET Procs)] /\ content'[i] = D
       /\ \A j \in Inodes : j # i => content'[j] = content[j]
  BY <1>1, <1>3, <1>10, Zenon
<1>17. MapOK(fs)' /\ Quiet' /\ Typed'
  BY <1>0, <1>1, <1>3, <1>8, <1>9, <1>12, <1>14, <1>15, <1>16, Zenon DEF Quiet, Typed
<1>18. Locks'
  <2>1. ASSUME NEW q \in Procs, Busy(q)' PROVE lock'[th'[q].ip] = q
    <3>1. q # p
      BY <1>13, <2>1, Zenon
    <3>2. Busy(q) /\ th'[q] = th[q] /\ Calling(q) /\ lock[th[q].ip] = q /\ th[q].ip \in Inodes
      BY <1>0, <1>3, <1>12, <1>13, <2>1, <3>1, Zenon DEF FInv, Locks, ThRec
    <3>3. th[q].ip # i
      BY <1>0, <1>2, <3>1, <3>2, WritersApart, Zenon
    <3> QED  BY <1>14, <3>2, <3>3, Zenon
  <2>2. ASSUME NEW j \in Inodes, lock'[j] # 0 PROVE \E q \in Procs : Busy(q)' /\ th'[q].ip = j
    <3>1. j # i /\ lock[j] # 0
      BY <1>14, <2>2, Zenon
    <3>2. PICK q \in Procs : Busy(q) /\ th[q].ip = j
      BY <1>0, <3>1, Zenon DEF Locks
    <3>3. q # p
      BY <3>1, <3>2, Zenon
    <3> QED  BY <1>12, <1>13, <3>2, <3>3, Zenon
  <2> QED  BY <2>1, <2>2, Zenon DEF Locks
<1>19. ASSUME NEW q \in Procs PROVE Calling(q)' /\ Writing(q)' /\ LogSmall(q)'
  <2>1. CASE q = p
    <3>1. u.tot <= u.n1 /\ u.i + u.n1 <= u.n /\ u.pc # "loop"
      BY ONLY <1>11
    <3>2. Calling(p)'
      BY <1>11, <1>12, <1>13, <3>1, Zenon DEF Calling
    <3> QED  BY <1>13, <2>1, <3>2, Zenon DEF Writing, LogSmall
  <2>2. CASE q # p
    <3>1. Calling(q) /\ Writing(q) /\ LogSmall(q) /\ th'[q] = th[q] /\ th[q].ip \in Inodes
      BY <1>3, <1>12, <2>2, Zenon DEF FInv, ThRec
    <3>2. ASSUME Busy(q)
          PROVE  /\ SameFile(fs, fs', th[q].ip) /\ KeptLess(fs, kept, kept', th[q].ip)
                 /\ content'[th[q].ip] = content[th[q].ip]
                 /\ off'[th[q].f] = off[th[q].f]
      <4>1. th[q].ip # i /\ th[q].f # t.f
        BY <1>0, <1>2, <2>2, <3>1, <3>2, WritersApart, Zenon
      <4>2. th[q].f \in Files
        <5>1. th[q].pc # "idle"
          BY <3>2 DEF Busy
        <5> QED  BY <3>1, <5>1, Zenon DEF Calling
      <4> QED  BY <1>1, <1>9, <1>15, <1>16, <3>1, <4>1, <4>2, KeptSelf, Zenon
    <3> QED  BY <1>0, <3>1, <3>2, Frame, Zenon
  <2> QED  BY <2>1, <2>2, Zenon
<1>20. ASSUME NEW j \in Inodes PROVE Stored(j)'
  <2>1. CASE j # i
    <3>1. Stored(j) /\ SameFile(fs, fs', j) /\ content'[j] = content[j] /\ lock'[j] = lock[j]
          /\ KeptLess(fs, kept, kept', j)
      BY <1>1, <1>9, <1>14, <1>16, <2>1, KeptSelf, Zenon DEF FInv
    <3> QED  BY <1>0, <3>1, FrameStored, Zenon
  <2>2. CASE j = i
    <3>1. ASSUME NEW x \in 0..(size - 1) PROVE Holds(fs', kept', i, x, D[x + 1])
      <4>0. /\ \A y \in o..(t.off - 1) : Holds(fs, kept, i, y, {p})
            /\ \A y \in 0..(fs.mem[i].size - 1) :
                 ~ (o <= y /\ y < t.off) => Holds(fs, kept, i, y, C[y + 1])
        BY <1>0, <1>2, Zenon DEF Writing
      <4> HIDE DEF t, i, o, C
      <4>1. size \in Nat /\ x + 1 \in 1..size /\ x \in Nat
        <5>1. size \in Nat
          BY <1>3, <1>6, Zenon DEF size
        <5> QED  BY ONLY <3>1, <5>1
      <4>2. D[x + 1] = IF x + 1 > o /\ x + 1 <= t.off THEN {p} ELSE C[x + 1]
        BY <1>10, <4>1, Zenon
      <4>3. CASE o <= x /\ x < t.off
        <5>1. x \in o..(t.off - 1) /\ x + 1 > o /\ x + 1 <= t.off
          BY ONLY <1>3, <1>7, <4>1, <4>3, SMTT(20)
        <5> QED  BY <1>9, <4>0, <4>2, <5>1, Zenon
      <4>4. CASE ~ (o <= x /\ x < t.off)
        <5>0. x < size
          BY ONLY <3>1, <4>1
        <5>1. x \in 0..(fs.mem[i].size - 1) /\ ~ (x + 1 > o /\ x + 1 <= t.off)
          <6> DEFINE z == fs.mem[i].size
                     a == t.off
          <6>1. size = a \/ size = z
            BY Zenon DEF size
          <6>2. z \in Nat /\ a \in Nat /\ o \in Nat /\ o <= z /\ ~ (o <= x /\ x < a)
            BY <1>3, <1>5, <1>6, <1>7, <4>4, Zenon
          <6> HIDE DEF z, a
          <6>3. x \in 0..(z - 1) /\ ~ (x + 1 > o /\ x + 1 <= a)
            BY ONLY <4>1, <5>0, <6>1, <6>2, SMTT(20)
          <6> QED  BY <6>3, Zenon DEF z, a
        <5> QED  BY <1>9, <4>0, <4>2, <4>4, <5>1, Zenon
      <4> QED  BY <4>3, <4>4, Zenon
    <3> QED  BY <1>8, <1>10, <1>16, <2>2, <3>1, Zenon DEF Stored
  <2> QED  BY <2>1, <2>2, Zenon
<1> QED  BY <1>17, <1>18, <1>19, <1>20, Zenon DEF FInv

(* A step that moves the offset of an open file which no writer uses, and   *)
(* leaves the files as they are or changes one that is not locked.          *)
LEMMA OffsetMoved ==
  ASSUME FInv, NEW f \in Files, lock[Ip(f)] = 0, NEW v \in 0..(MAXFILE * BSIZE),
         off' = [off EXCEPT ![f] = v], lock' = lock, th' = th, kept' = kept, calls' \in 0..MaxCalls,
         MapOK(fs)', Quiet', content' \in [Inodes -> Seq(SUBSET Procs)], Stored(Ip(f))',
         \A j \in Inodes : j # Ip(f) => SameFile(fs, fs', j) /\ content'[j] = content[j]
  PROVE  FInv'
<1>0. MapOK(fs) /\ Typed /\ Quiet /\ Locks /\ fs \in FsRec
  BY Zenon DEF FInv, MapOK
<1>1. /\ off \in [Files -> 0..(MAXFILE * BSIZE)] /\ off' \in [Files -> 0..(MAXFILE * BSIZE)]
      /\ \A g \in Files : g # f => off'[g] = off[g]
  BY <1>0, Zenon DEF Typed
<1>2. Typed'
  BY <1>0, <1>1, Zenon DEF Typed
<1>3. Locks'
  BY <1>0, Zenon DEF Locks, Busy
<1>4. ASSUME NEW q \in Procs PROVE Calling(q)' /\ Writing(q)' /\ LogSmall(q)'
  <2>1. Calling(q) /\ Writing(q) /\ LogSmall(q) /\ th'[q] = th[q] /\ th[q].ip \in Inodes
    BY <1>0, Zenon DEF FInv, Typed, ThRec
  <2>2. ASSUME Busy(q)
        PROVE  /\ SameFile(fs, fs', th[q].ip) /\ KeptLess(fs, kept, kept', th[q].ip) /\ content'[th[q].ip] = content[th[q].ip]
               /\ off'[th[q].f] = off[th[q].f]
    <3>1. th[q].pc # "idle"
      BY <2>2 DEF Busy
    <3>2. th[q].f \in Files /\ th[q].ip = Ip(th[q].f)
      BY <2>1, <3>1, Zenon DEF Calling
    <3>3. th[q].ip # Ip(f)
      BY <1>0, <2>2, FreeApart, Zenon
    <3> QED  BY <1>1, <2>1, <3>2, <3>3, KeptSelf, Zenon
  <2> QED  BY <1>0, <2>1, <2>2, Frame, Zenon
<1>5. ASSUME NEW j \in Inodes PROVE Stored(j)'
  <2>1. CASE j = Ip(f)
    BY <2>1, Zenon
  <2>2. CASE j # Ip(f)
    <3>1. Stored(j) /\ SameFile(fs, fs', j) /\ content'[j] = content[j] /\ lock'[j] = lock[j]
          /\ KeptLess(fs, kept, kept', j)
      BY <2>2, KeptSelf, Zenon DEF FInv
    <3> QED  BY <1>0, <3>1, FrameStored, Zenon
  <2> QED  BY <2>1, <2>2, Zenon
<1> QED  BY <1>2, <1>3, <1>4, <1>5, Zenon DEF FInv

(* Every block below the size of a file that nobody writes is there.        *)
LEMMA NoHole ==
  ASSUME FInv, NEW i \in Inodes, lock[i] = 0, NEW bn \in Nat, BSIZE * bn < fs.mem[i].size
  PROVE  Mapped(fs, i, bn)
<1>0. fs \in FsRec /\ Stored(i)
  BY Zenon DEF FInv, MapOK
<1>1. /\ BSIZE \in Nat \ {0} /\ NDIRECT \in Nat \ {0} /\ NINDIRECT \in Nat \ {0} /\ MAXFILE \in Nat
      /\ fs.mem[i].size \in 0..(MAXFILE * BSIZE) /\ MAXFILE * BSIZE \in Nat
  BY <1>0, FsTypes, Sizes, Zenon
<1> DEFINE x == BSIZE * bn
           z == fs.mem[i].size
           M == MAXFILE * BSIZE
<1>2. x \in Nat /\ x < z /\ z \in 0..M /\ M \in Nat
  BY <1>1
<1>3. x \div BSIZE = bn
  <2>1. 0 \in 0..(BSIZE - 1) /\ x = BSIZE * bn + 0
    BY <1>1, <1>2
  <2> QED  BY <1>1, <2>1, DivModUnique, Zenon
<1> HIDE DEF x, z, M
<1>4. x \in 0..(z - 1) /\ x < M
  BY ONLY <1>2
<1>5. Holds(fs, kept, i, x, content[i][x + 1])
  BY <1>0, <1>4, Zenon DEF Stored, z
<1>6. At(fs, i, Key(bn)) # 0
  BY <1>3, <1>5, Zenon DEF Holds
<1>7. bn < MAXFILE
  <2>1. x \div BSIZE \in 0..(MAXFILE - 1)
    BY <1>2, <1>4, KeyIn, Zenon DEF M
  <2> QED  BY ONLY <1>1, <1>3, <2>1
<1>8. CASE bn < NDIRECT
  <2>1. Key(bn) = bn /\ bn <= NDIRECT
    BY <1>1, <1>8 DEF Key
  <2> QED  BY <1>6, <1>8, <2>1, Zenon DEF At, Mapped
<1>9. CASE ~ (bn < NDIRECT)
  <2>1. Key(bn) = bn + 1 /\ ~ (bn + 1 <= NDIRECT) /\ (bn + 1) - (NDIRECT + 1) = bn - NDIRECT
    BY <1>1, <1>9 DEF Key
  <2>2. Ind(fs, i) # 0 /\ fs.data[Ind(fs, i)].ptrs[bn - NDIRECT] # 0
    BY <1>6, <2>1, Zenon DEF At
  <2>3. Ind(fs, i) \in Indirect(fs, i)
    BY <2>2, Zenon DEF Indirect, Ind
  <2> QED  BY <1>7, <1>9, <2>2, <2>3, Zenon DEF Mapped
<1> QED  BY <1>8, <1>9, Zenon

(* A read stays inside the file.                                            *)
LEMMA ReadIn ==
  ASSUME NEW o \in Nat, NEW n \in Nat, NEW z \in Nat
  PROVE  LET r == readlen(o, n, z) IN r = 0 \/ (r \in Nat /\ r > 0 /\ o + r <= z)
BY DEF readlen

(* A read meets no hole: bmap allocates nothing outside of a transaction.   *)
LEMMA ReadStep == ASSUME FInv, NEW p \in Procs, Read(p) PROVE FInv'
<1>0. MapOK(fs) /\ Typed /\ Quiet /\ fs \in FsRec
  BY Zenon DEF FInv, MapOK
<1>1. PICK f \in Files, n \in ReadCounts :
        LET r == readlen(off[f], n, fs.mem[Ip(f)].size)
            last == (off[f] + r - 1) \div BSIZE
        IN  /\ lock[Ip(f)] = 0 /\ Called
            /\ fs' = IF r > 0 /\ \E bn \in (off[f] \div BSIZE)..last : ~Mapped(fs, Ip(f), bn)
                     THEN [fs EXCEPT !.panic = "log_write outside of trans"] ELSE fs
            /\ off' = [off EXCEPT ![f] = @ + r]
            /\ UNCHANGED <<lock, th, kept, content>>
  BY Zenon DEF Read
<1> DEFINE i == Ip(f)
           o == off[f]
           z == fs.mem[i].size
           r == readlen(o, n, z)
           last == (o + r - 1) \div BSIZE
<1>2. i \in Inodes
  BY IpIn, Zenon
<1>3. /\ BSIZE \in Nat \ {0} /\ MAXFILE * BSIZE \in Nat /\ z \in 0..(MAXFILE * BSIZE)
      /\ o \in 0..(MAXFILE * BSIZE) /\ off \in [Files -> 0..(MAXFILE * BSIZE)]
  BY <1>0, <1>2, FsTypes, Sizes, Zenon DEF Typed
<1>4. n \in Nat /\ o \in Nat /\ z \in Nat
  <2>1. n \in Nat
    BY FileMapConstants
  <2>2. \A N \in Nat : \A k \in 0..N : k \in Nat
    OBVIOUS
  <2> QED  BY <1>3, <2>1, <2>2, Zenon
<1> HIDE DEF i, o, z
<1>5. r = 0 \/ (r \in Nat /\ r > 0 /\ o + r <= z)
  BY <1>4, ReadIn, Zenon
<1>6. ASSUME r > 0, NEW bn \in (o \div BSIZE)..last PROVE Mapped(fs, i, bn)
  <2> DEFINE y == o + r - 1
             q == y \div BSIZE
  <2> HIDE DEF r
  <2>1. y \in Nat /\ y < z
    BY ONLY <1>4, <1>5, <1>6
  <2> HIDE DEF y
  <2>2. o \div BSIZE \in Nat
    BY <1>3, <1>4, DivMod, Zenon
  <2>3. q \in Nat /\ y % BSIZE \in 0..(BSIZE - 1) /\ y = BSIZE * q + (y % BSIZE)
    BY <1>3, <2>1, DivMod, Zenon
  <2>4. last = q
    BY Zenon DEF y
  <2> HIDE DEF q, last
  <2>5. bn \in Nat /\ bn <= q
    BY ONLY <1>6, <2>2, <2>3, <2>4, SMTT(20)
  <2>6. BSIZE * bn \in Int /\ BSIZE * q \in Int /\ (BSIZE * q < BSIZE * bn <=> q < bn)
    BY <1>3, <2>3, <2>5, MulLess, SMTT(20)
  <2>7. BSIZE * bn < z
    BY ONLY <1>3, <1>4, <2>1, <2>3, <2>5, <2>6, SMTT(20)
  <2>8. lock[i] = 0
    BY <1>1, Zenon DEF i
  <2> QED  BY <1>2, <2>5, <2>7, <2>8, NoHole, Zenon DEF z
<1>7. fs' = fs
  <2>1. ~ (r > 0 /\ \E bn \in (o \div BSIZE)..last : ~Mapped(fs, i, bn))
    BY <1>6, Zenon
  <2>2. fs' = IF r > 0 /\ \E bn \in (o \div BSIZE)..last : ~Mapped(fs, i, bn)
              THEN [fs EXCEPT !.panic = "log_write outside of trans"] ELSE fs
    BY <1>1, Zenon DEF i, o, z
  <2> QED  BY <2>1, <2>2, Zenon
<1>8. /\ lock[Ip(f)] = 0 /\ off' = [off EXCEPT ![f] = o + r] /\ lock' = lock /\ th' = th /\ content' = content
      /\ Called /\ kept' = kept
  BY <1>1, Zenon DEF i, o, z
<1>9. o + r \in 0..(MAXFILE * BSIZE)
  <2> HIDE DEF r
  <2> QED  BY ONLY <1>3, <1>4, <1>5, SMTT(20)
<1>10. calls' \in 0..MaxCalls
  BY <1>0, <1>8, FileMapConstants DEF Typed, Called
<1>11. MapOK(fs)' /\ Quiet' /\ content' \in [Inodes -> Seq(SUBSET Procs)]
  BY <1>0, <1>7, <1>8, Zenon DEF Quiet, Typed
<1>12. Stored(Ip(f))'
  BY <1>2, <1>7, <1>8, Zenon DEF FInv, Stored, i
<1>13. \A j \in Inodes : j # Ip(f) => SameFile(fs, fs', j) /\ content'[j] = content[j]
  BY <1>7, <1>8, SameSelf, Zenon
<1> HIDE DEF r
<1> QED  BY <1>8, <1>9, <1>10, <1>11, <1>12, <1>13, OffsetMoved, Zenon

(* The blocks of a file are those its pointers have.                        *)
Reached(s, i) == Direct(s, i) \cup Pointed(s, i) \cup Indirect(s, i)

(* The blocks itrunc frees are those the pointers have.                     *)
LEMMA ReachedIs ==
  ASSUME NEW s, NEW i, NEW b
  PROVE  b \in Reached(s, i) <=> b # 0 /\ \E k \in Keys : At(s, i, k) = b
<1> DEFINE P(c) == {s.data[c].ptrs[l] : l \in 0..(NINDIRECT - 1)}
           U == UNION {P(c) : c \in Indirect(s, i)}
<1>0. NDIRECT \in Nat \ {0} /\ NINDIRECT \in Nat \ {0} /\ Pointed(s, i) = U \ {0}
  <2>1. Pointed(s, i) = U \ {0}
    BY DEF Pointed
  <2> QED  BY <2>1, Sizes, Zenon
<1> HIDE DEF U
<1>1. ASSUME b \in Direct(s, i) PROVE b # 0 /\ \E k \in Keys : At(s, i, k) = b
  <2>1. PICK k \in 0..(NDIRECT - 1) : s.mem[i].addrs[k] = b
    BY <1>1, Zenon DEF Direct
  <2>2. k \in Keys /\ k <= NDIRECT
    BY <1>0 DEF Keys, MAXFILE
  <2> QED  BY <1>1, <2>1, <2>2, Zenon DEF At, Direct
<1>2. ASSUME b \in Indirect(s, i) PROVE b # 0 /\ \E k \in Keys : At(s, i, k) = b
  <2>1. NDIRECT \in Keys /\ NDIRECT <= NDIRECT
    BY <1>0 DEF Keys, MAXFILE
  <2> QED  BY <1>2, <2>1, Zenon DEF At, Indirect
<1>3. ASSUME b \in Pointed(s, i) PROVE b # 0 /\ \E k \in Keys : At(s, i, k) = b
  <2>0. b \in U /\ b # 0
    BY <1>0, <1>3, Zenon
  <2>1. PICK c \in Indirect(s, i) : b \in P(c)
    <3> HIDE DEF P
    <3> QED  BY <2>0, Zenon DEF U
  <2>2. PICK k \in 0..(NINDIRECT - 1) : s.data[c].ptrs[k] = b
    BY <2>1, Zenon
  <2> DEFINE l == NDIRECT + 1 + k
  <2>3. l \in Keys /\ ~ (l <= NDIRECT) /\ l - (NDIRECT + 1) = k
    BY <1>0 DEF Keys, MAXFILE
  <2> HIDE DEF l
  <2>4. c = Ind(s, i) /\ c # 0
    BY Zenon DEF Indirect, Ind
  <2>5. At(s, i, l) = b
    <3>1. s.data[Ind(s, i)].ptrs[l - (NDIRECT + 1)] = b /\ Ind(s, i) # 0
      BY <2>2, <2>3, <2>4, Zenon
    <3> QED  BY <2>3, <3>1, Zenon DEF At
  <2> QED  BY <2>0, <2>3, <2>5, Zenon
<1>4. ASSUME b # 0, NEW k \in Keys, At(s, i, k) = b PROVE b \in Reached(s, i)
  <2>1. CASE k <= NDIRECT
    <3>1. k = NDIRECT \/ k \in 0..(NDIRECT - 1)
      BY <1>0, <2>1 DEF Keys
    <3>2. s.mem[i].addrs[k] = b
      BY <1>4, <2>1, Zenon DEF At
    <3> QED  BY <1>4, <3>1, <3>2, Zenon DEF Reached, Direct, Indirect
  <2>2. CASE ~ (k <= NDIRECT)
    <3>1. k - (NDIRECT + 1) \in 0..(NINDIRECT - 1)
      BY <1>0, <2>2 DEF Keys, MAXFILE
    <3>2. Ind(s, i) # 0 /\ s.data[Ind(s, i)].ptrs[k - (NDIRECT + 1)] = b
      BY <1>4, <2>2, Zenon DEF At
    <3>3. Ind(s, i) \in Indirect(s, i)
      BY <3>2, Zenon DEF Indirect, Ind
    <3>4. b \in Pointed(s, i)
      <4>1. b \in P(Ind(s, i))
        BY <3>1, <3>2, Zenon
      <4>2. P(Ind(s, i)) \in {P(c) : c \in Indirect(s, i)}
        BY <3>3, Zenon
      <4>3. b \in U
        BY <4>1, <4>2, Zenon DEF U
      <4> QED  BY <1>0, <1>4, <4>3, Zenon
    <3> QED  BY <3>4, Zenon DEF Reached
  <2> QED  BY <2>1, <2>2, Zenon
<1> QED  BY <1>1, <1>2, <1>3, <1>4, Zenon DEF Reached

(* Fields after bfree, and after ip->addrs and ip->size are cleared.        *)
LEMMA BfreeFields ==
  ASSUME NEW s \in FsRec, NEW B, B \subseteq s.used
  PROVE  LET t == bfree(s, B) IN
         /\ t \in FsRec /\ t.used = s.used \ B /\ t.data = s.data /\ t.mem = s.mem /\ t.disk = s.disk
         /\ t.panic = s.panic
<1> SUFFICES ASSUME NEW t, t = bfree(s, B)
             PROVE  /\ t \in FsRec /\ t.used = s.used \ B /\ t.data = s.data /\ t.mem = s.mem
                    /\ t.disk = s.disk /\ t.panic = s.panic
  BY Zenon
<1> DEFINE L == {BBLOCK(b) : b \in B}
<1>1. /\ t.used = s.used \ B /\ t.data = s.data /\ t.mem = s.mem /\ t.disk = s.disk /\ t.ret = s.ret
      /\ t.panic = (IF B \subseteq s.used THEN s.panic ELSE "freeing free block")
      /\ t.log = s.log \cup L
  <2> HIDE DEF L
  <2>1. t = [s EXCEPT !.used = @ \ B, !.log = @ \cup L,
                      !.panic = IF B \subseteq s.used THEN @ ELSE "freeing free block"]
    BY Zenon DEF bfree, L
  <2> QED  BY <2>1, Zenon DEF FsRec
<1>2. t = [used |-> t.used, data |-> t.data, mem |-> t.mem, disk |-> t.disk, ret |-> t.ret,
           log |-> t.log, panic |-> t.panic]
  BY Zenon DEF FsRec, bfree
<1>3. t.panic = s.panic
  BY <1>1, Zenon
<1>4. L \subseteq ({"bitmap", "block", "inode"} \X Nat)
  <2>1. \A b \in B : b \in Nat
    BY FsTypes, Sizes, Zenon
  <2>2. \A b \in Nat : BBLOCK(b) \in {"bitmap", "block", "inode"} \X Nat
    BY Sizes DEF BBLOCK
  <2> QED  BY <2>1, <2>2, Zenon
<1> HIDE DEF L
<1>5. t.log \in SUBSET ({"bitmap", "block", "inode"} \X Nat) /\ t.used \in SUBSET Blocks
  BY <1>1, <1>4, Zenon DEF FsRec
<1>6. t \in FsRec
  BY <1>1, <1>2, <1>3, <1>5, SMTT(20) DEF FsRec
<1> QED  BY <1>1, <1>3, <1>6, Zenon

Clear(s, i) == [s EXCEPT !.mem[i] = Empty]

(* Fields after ip->addrs and ip->size are cleared.                         *)
LEMMA ClearFields ==
  ASSUME NEW s \in FsRec, NEW i \in Inodes
  PROVE  LET t == Clear(s, i) IN
         /\ t \in FsRec /\ t.used = s.used /\ t.data = s.data /\ t.disk = s.disk /\ t.panic = s.panic
         /\ t.mem[i] = Empty /\ \A j \in Inodes : j # i => t.mem[j] = s.mem[j]
<1> SUFFICES ASSUME NEW t, t = Clear(s, i)
             PROVE  /\ t \in FsRec /\ t.used = s.used /\ t.data = s.data /\ t.disk = s.disk
                    /\ t.panic = s.panic
                    /\ t.mem[i] = Empty /\ \A j \in Inodes : j # i => t.mem[j] = s.mem[j]
  BY Zenon
<1>1. /\ t.used = s.used /\ t.data = s.data /\ t.disk = s.disk
      /\ t.panic = s.panic /\ t.ret = s.ret /\ t.log = s.log
      /\ t.mem = [s.mem EXCEPT ![i] = Empty]
  BY Zenon DEF FsRec, Clear
<1>2. t = [used |-> t.used, data |-> t.data, mem |-> t.mem, disk |-> t.disk, ret |-> t.ret,
           log |-> t.log, panic |-> t.panic]
  BY Zenon DEF FsRec, Clear
<1>3. s.mem \in [Inodes -> Dinode] /\ Empty \in Dinode
  BY FsTypes, Sizes, Zenon
<1>4. /\ t.mem \in [Inodes -> Dinode] /\ t.mem[i] = Empty
      /\ \A j \in Inodes : j # i => t.mem[j] = s.mem[j]
  BY <1>1, <1>3, Zenon
<1>5. t \in FsRec
  BY <1>1, <1>2, <1>4, SMTT(20) DEF FsRec
<1> QED  BY <1>1, <1>4, <1>5, Zenon

(* itrunc gives back every block of the file, and no other: it frees no     *)
(* free block and the other files keep theirs.                              *)
LEMMA Trunc ==
  ASSUME NEW s, MapOK(s), NEW i \in Inodes, NEW w, w = Settled(itrunc(s, i))
  PROVE  /\ MapOK(w) /\ w.panic = s.panic /\ w.ret = 0 /\ w.log = {}
         /\ w.mem[i] = Empty /\ w.disk[i] = Empty
         /\ \A j \in Inodes : j # i => SameFile(s, w, j)
<1> DEFINE B == Reached(s, i)
           a == bfree(s, B)
           b == Clear(a, i)
           c == iupdate(b, i)
<1>0. s \in FsRec
  BY Zenon DEF MapOK
<1>1. itrunc(s, i) = c
  BY Zenon DEF itrunc, Clear, Reached
<1>2. B \subseteq s.used
  <2>1. ASSUME NEW e \in B PROVE e \in s.used
    <3>1. PICK k \in Keys : e # 0 /\ At(s, i, k) = e
      BY ReachedIs, Zenon
    <3>2. At(s, i, k) \in s.used
      BY <3>1, AtUsed, Zenon
    <3> QED  BY <3>1, <3>2, Zenon
  <2> QED  BY <2>1, Zenon
<1> HIDE DEF B
<1>3. /\ a \in FsRec /\ a.used = s.used \ B /\ a.data = s.data /\ a.mem = s.mem /\ a.disk = s.disk
      /\ a.panic = s.panic
  BY <1>0, <1>2, BfreeFields, Zenon
<1> HIDE DEF a
<1>4. /\ b \in FsRec /\ b.used = a.used /\ b.data = a.data /\ b.disk = a.disk /\ b.panic = a.panic
      /\ b.mem[i] = Empty /\ \A j \in Inodes : j # i => b.mem[j] = a.mem[j]
  BY <1>3, ClearFields, Zenon
<1> HIDE DEF b
<1>5. /\ c \in FsRec /\ c.used = b.used /\ c.data = b.data /\ c.mem = b.mem /\ c.panic = b.panic
      /\ c.disk[i] = b.mem[i] /\ \A j \in Inodes : j # i => c.disk[j] = b.disk[j]
  BY <1>4, IupdateFields
<1> HIDE DEF c
<1>6. /\ w \in FsRec /\ w.used = c.used /\ w.data = c.data /\ w.mem = c.mem
      /\ w.disk = c.disk /\ w.panic = c.panic /\ w.log = {} /\ w.ret = 0
  BY <1>1, <1>5, SettledFields, Zenon
<1>7. w.used = s.used \ B /\ w.data = s.data /\ w.mem = b.mem /\ w.panic = s.panic
  BY <1>3, <1>4, <1>5, <1>6, Zenon
<1>8. w.mem[i] = Empty /\ w.disk[i] = Empty
  BY <1>4, <1>5, <1>6, <1>7, Zenon
<1>9. ASSUME NEW j \in Inodes, j # i PROVE w.mem[j] = s.mem[j] /\ w.disk[j] = s.disk[j]
  <2>1. w.mem[j] = s.mem[j]
    BY <1>3, <1>4, <1>7, <1>9, Zenon
  <2>2. w.disk[j] = b.disk[j] /\ b.disk = s.disk
    BY <1>3, <1>4, <1>5, <1>6, <1>9, Zenon
  <2> QED  BY <2>1, <2>2, Zenon
<1>10. ASSUME NEW l \in Keys PROVE At(w, i, l) = 0
  <2>1. NDIRECT \in 0..NDIRECT /\ (l <= NDIRECT => l \in 0..NDIRECT)
    BY Sizes DEF Keys
  <2>2. \A k \in 0..NDIRECT : Empty.addrs[k] = 0
    BY Zenon DEF Empty
  <2> QED  BY <1>8, <2>1, <2>2, Zenon DEF At, Ind
<1>11. ASSUME NEW j \in Inodes, j # i, NEW l PROVE At(w, j, l) = At(s, j, l)
  <2>1. w.mem[j] = s.mem[j]
    BY <1>9, <1>11, Zenon
  <2> QED  BY <1>7, <2>1, Zenon DEF At, Ind
<1>12. ASSUME NEW e \in Blocks PROVE e \in w.used <=> \E j \in Inodes, l \in Keys : At(w, j, l) = e
  <2>0. e # 0 /\ (e \in s.used <=> \E j \in Inodes, l \in Keys : At(s, j, l) = e)
    <3>1. e # 0
      BY Sizes, Zenon
    <3> QED  BY <3>1, Zenon DEF MapOK
  <2>1. e \in B <=> \E l \in Keys : At(s, i, l) = e
    <3>1. e \in Reached(s, i) <=> e # 0 /\ \E l \in Keys : At(s, i, l) = e
      BY ReachedIs
    <3> QED  BY <2>0, <3>1, Zenon DEF B
  <2>2. ASSUME e \in w.used PROVE \E j \in Inodes, l \in Keys : At(w, j, l) = e
    <3>1. PICK j \in Inodes, l \in Keys : At(s, j, l) = e
      BY <1>7, <2>0, <2>2, Zenon
    <3>2. j # i
      BY <1>7, <2>1, <2>2, <3>1, Zenon
    <3> QED  BY <1>11, <3>1, <3>2, Zenon
  <2>3. ASSUME NEW j \in Inodes, NEW l \in Keys, At(w, j, l) = e PROVE e \in w.used
    <3>1. j # i
      BY <1>10, <2>0, <2>3, Zenon
    <3>2. At(s, j, l) = e
      BY <1>11, <2>3, <3>1, Zenon
    <3>3. e \notin B
      <4>1. ASSUME NEW k \in Keys, At(s, i, k) = e PROVE FALSE
        BY <2>0, <3>1, <3>2, <4>1, SMTT(20) DEF MapOK
      <4> QED  BY <2>1, <4>1, Zenon
    <3> QED  BY <1>7, <2>0, <3>2, <3>3, Zenon
  <2> QED  BY <2>2, <2>3, Zenon
<1>13. ASSUME NEW j \in Inodes, NEW k \in Inodes, NEW l \in Keys, NEW m \in Keys,
              At(w, j, l) # 0, At(w, j, l) = At(w, k, m)
       PROVE  j = k /\ l = m
  <2>1. j # i /\ k # i
    BY <1>10, <1>13, Zenon
  <2>2. At(w, j, l) = At(s, j, l) /\ At(w, k, m) = At(s, k, m)
    BY <1>11, <2>1, Zenon
  <2>3. At(s, j, l) # 0 /\ At(s, j, l) = At(s, k, m)
    BY ONLY <1>13, <2>2, Zenon
  <2>4. \A x, y \in Inodes : \A g, n \in Keys : At(s, x, g) # 0 /\ At(s, x, g) = At(s, y, n) => x = y /\ g = n
    BY Zenon DEF MapOK
  <2> QED  BY ONLY <2>3, <2>4, j \in Inodes, k \in Inodes, l \in Keys, m \in Keys, SMTT(20)
<1>14. MapOK(w)
  BY <1>6, <1>12, <1>13, SMTT(20) DEF MapOK
<1>15. \A j \in Inodes : j # i => SameFile(s, w, j)
  BY <1>7, <1>9, <1>11, Zenon DEF SameFile
<1> QED  BY <1>6, <1>7, <1>8, <1>14, <1>15, Zenon

(* sys_open, with or without O_TRUNC.                                       *)
LEMMA OpenStep == ASSUME FInv, NEW p \in Procs, Open(p) PROVE FInv'
<1>0. MapOK(fs) /\ Typed /\ Quiet /\ fs \in FsRec
  BY Zenon DEF FInv, MapOK
<1>1. PICK f \in Files, trunc \in BOOLEAN :
        /\ lock[Ip(f)] = 0 /\ Called
        /\ fs' = IF trunc THEN Settled(itrunc(fs, Ip(f))) ELSE fs
        /\ content' = IF trunc THEN [content EXCEPT ![Ip(f)] = <<>>] ELSE content
        /\ off' = [off EXCEPT ![f] = 0]
        /\ UNCHANGED <<lock, th, kept>>
  BY Zenon DEF Open
<1> DEFINE i == Ip(f)
<1>2. i \in Inodes /\ content \in [Inodes -> Seq(SUBSET Procs)] /\ <<>> \in Seq(SUBSET Procs)
  <2>1. <<>> \in Seq(SUBSET Procs)
    OBVIOUS
  <2> QED  BY <1>0, <2>1, IpIn, Zenon DEF Typed
<1>3. 0 \in 0..(MAXFILE * BSIZE)
  <2>1. MAXFILE * BSIZE \in Nat
    BY Sizes, Zenon
  <2> QED  BY <2>1
<1>4. calls' \in 0..MaxCalls
  BY <1>0, <1>1, FileMapConstants DEF Typed, Called
<1>5. lock' = lock /\ th' = th /\ kept' = kept /\ lock[i] = 0 /\ off' = [off EXCEPT ![f] = 0]
  BY <1>1, Zenon
<1>6. /\ MapOK(fs)' /\ Quiet' /\ content' \in [Inodes -> Seq(SUBSET Procs)] /\ Stored(i)'
      /\ \A j \in Inodes : j # i => SameFile(fs, fs', j) /\ content'[j] = content[j]
  <2>1. CASE trunc
    <3>1. fs' = Settled(itrunc(fs, i)) /\ content' = [content EXCEPT ![i] = <<>>]
      BY <1>1, <2>1, ZenonT(60)
    <3> HIDE DEF i
    <3>2. /\ MapOK(fs') /\ fs'.panic = fs.panic /\ fs'.ret = 0 /\ fs'.log = {}
          /\ fs'.mem[i] = Empty /\ fs'.disk[i] = Empty
          /\ \A j \in Inodes : j # i => SameFile(fs, fs', j)
      BY <1>0, <1>2, <3>1, Trunc, SMTT(20)
    <3>3. /\ content' \in [Inodes -> Seq(SUBSET Procs)] /\ content'[i] = <<>>
          /\ \A j \in Inodes : j # i => content'[j] = content[j]
      BY <1>2, <3>1, Zenon
    <3>4. Stored(i)'
      <4>1. Empty.size = 0
        BY Zenon DEF Empty
      <4>2. Len(<<>>) = 0 /\ \A x : x \notin 0..(0 - 1)
        OBVIOUS
      <4> QED  BY <3>2, <3>3, <4>1, <4>2, Zenon DEF Stored
    <3>5. Quiet'
      BY <1>0, <3>2, Zenon DEF Quiet
    <3> QED  BY <3>2, <3>3, <3>4, <3>5, Zenon
  <2>2. CASE ~ trunc
    <3>1. fs' = fs /\ content' = content
      BY <1>1, <2>2, Zenon
    <3>2. Stored(i)'
      BY <1>2, <1>5, <3>1, Zenon DEF FInv, Stored
    <3>3. MapOK(fs)' /\ Quiet'
      BY <1>0, <3>1, Zenon DEF Quiet
    <3> QED  BY <1>2, <3>1, <3>2, <3>3, SameSelf, Zenon
  <2> QED  BY <2>1, <2>2, Zenon
<1> QED  BY <1>3, <1>4, <1>5, <1>6, OffsetMoved, Zenon

(* bget takes the buffer of a block that was changed without log_write.     *)
LEMMA RecycleStep == ASSUME FInv, NEW b \in Blocks, NEW d \in kept[b], Recycle(b, d) PROVE FInv'
<1>0. MapOK(fs) /\ Typed /\ Quiet /\ Locks /\ fs \in FsRec
  BY Zenon DEF FInv, MapOK
<1>1. /\ fs' = Put(fs, b, d) /\ kept' = [kept EXCEPT ![b] = {}]
      /\ lock' = lock /\ off' = off /\ th' = th /\ content' = content /\ calls' = calls
  BY Zenon DEF Recycle, Put
<1>2. kept \in [Blocks -> SUBSET [Bytes -> Procs \cup {0}]] /\ d \in [Bytes -> Procs \cup {0}]
  BY <1>0, Zenon DEF Typed
<1>3. /\ kept' \in [Blocks -> SUBSET [Bytes -> Procs \cup {0}]] /\ kept'[b] = {}
      /\ \A e \in Blocks : e # b => kept'[e] = kept[e]
  BY <1>1, <1>2, Zenon
<1>4. /\ fs'.used = fs.used /\ fs'.mem = fs.mem /\ fs'.disk = fs.disk /\ fs'.panic = fs.panic
      /\ fs'.ret = fs.ret /\ fs'.log = fs.log /\ fs'.data[b].bytes = d
      /\ \A e \in Blocks : e # b => fs'.data[e] = fs.data[e]
  BY <1>0, <1>1, <1>2, PutFields, SMTT(20)
<1>5. MapOK(fs') /\ \A i \in Inodes : \A l : At(fs', i, l) = At(fs, i, l)
  BY <1>0, <1>1, <1>2, PutMap
<1>6. ASSUME NEW i \in Inodes, NEW x \in Nat, x < MAXFILE * BSIZE, NEW v, Holds(fs, kept, i, x, v)
      PROVE  Holds(fs', kept', i, x, v)
  <2> DEFINE l == Key(x \div BSIZE)
             e == At(fs, i, l)
  <2>1. l \in Keys
    BY <1>6, KeyIn, KeyOwn, Zenon
  <2>2. e # 0 /\ fs.data[e].bytes[x % BSIZE] \in v /\ \A k \in kept[e] : k[x % BSIZE] \in v
    BY <1>6, Zenon DEF Holds
  <2>3. e \in Blocks /\ At(fs', i, l) = e
    BY <1>0, <1>5, <2>1, <2>2, AtUsed, Zenon
  <2> HIDE DEF l, e
  <2>4. fs'.data[e].bytes[x % BSIZE] \in v /\ \A k \in kept'[e] : k[x % BSIZE] \in v
    BY <1>3, <1>4, <2>2, <2>3, Zenon
  <2> QED  BY <2>2, <2>3, <2>4, Zenon DEF Holds, l
<1>7. Typed' /\ Quiet' /\ Locks' /\ MapOK(fs)'
  <2>1. \A q \in Procs : (Busy(q)' <=> Busy(q)) /\ th'[q].ip = th[q].ip
    BY <1>1, Zenon DEF Busy
  <2>2. Locks'
    BY <1>0, <1>1, <2>1, LocksKept, Zenon
  <2>3. Typed'
    BY <1>0, <1>1, <1>3, Zenon DEF Typed
  <2>4. Quiet' /\ MapOK(fs)'
    BY <1>0, <1>4, <1>5, Zenon DEF Quiet
  <2> QED  BY <2>2, <2>3, <2>4, Zenon
<1>8. ASSUME NEW i \in Inodes, NEW x \in 0..(fs.mem[i].size - 1) PROVE x \in Nat /\ x < MAXFILE * BSIZE
  <2> DEFINE z == fs.mem[i].size
             M == MAXFILE * BSIZE
  <2>1. z \in 0..M /\ M \in Nat /\ x \in 0..(z - 1)
    BY <1>0, FsTypes, Sizes, Zenon
  <2> HIDE DEF z, M
  <2>2. x \in Nat /\ x < M
    BY ONLY <2>1
  <2> QED  BY <2>2, Zenon DEF M
<1>9. ASSUME NEW q \in Procs PROVE Calling(q)' /\ Writing(q)' /\ LogSmall(q)'
  <2> DEFINE t == th[q]
             o == off[t.f]
  <2>0. Calling(q) /\ Writing(q) /\ LogSmall(q) /\ t \in ThRec /\ t.ip \in Inodes /\ (Busy(q)' <=> Busy(q))
    BY <1>0, <1>1, Zenon DEF FInv, Typed, ThRec, Busy
  <2>1. Calling(q)'
    BY <1>1, <1>4, <2>0, Zenon DEF Calling
  <2>2. LogSmall(q)'
    <3>1. IndLog(fs', t.ip) = IndLog(fs, t.ip)
      BY <1>4, Zenon DEF IndLog, Ind
    <3> QED  BY <1>1, <2>0, <3>1, Zenon DEF LogSmall
  <2>3. ASSUME Busy(q), NEW x \in o..(t.off - 1) PROVE Holds(fs', kept', t.ip, x, {q})
    <3>1. /\ t.f \in Files /\ t.off = o + t.tot /\ o + t.n1 <= MAXFILE * BSIZE /\ t.tot <= t.n1
          /\ o \in 0..(MAXFILE * BSIZE) /\ MAXFILE * BSIZE \in Nat /\ t.tot \in Nat /\ t.n1 \in Nat
      <4>1. t.pc # "idle"
        BY <2>3 DEF Busy
      <4>2. t.f \in Files /\ t.off = o + t.tot /\ o + t.n1 <= MAXFILE * BSIZE /\ t.tot <= t.n1
        BY <2>0, <2>3, <4>1, Zenon DEF Calling
      <4> QED  BY <1>0, <2>0, <4>2, Sizes, Zenon DEF Typed, ThRec
    <3>2. Holds(fs, kept, t.ip, x, {q})
      BY <2>0, <2>3, Zenon DEF Writing
    <3>3. x \in Nat /\ x < MAXFILE * BSIZE
      <4> DEFINE M == MAXFILE * BSIZE
      <4> HIDE DEF t, o, M
      <4>1. M \in Nat /\ o \in 0..M /\ t.off = o + t.tot /\ o + t.n1 <= M /\ t.tot <= t.n1
            /\ t.tot \in Nat /\ t.n1 \in Nat
        BY <3>1, Zenon DEF M
      <4>2. x \in Nat /\ x < M
        BY ONLY <2>3, <4>1
      <4> QED  BY <4>2, Zenon DEF M
    <3> QED  BY <1>6, <2>0, <3>2, <3>3, Zenon
  <2>4. ASSUME Busy(q), NEW x \in 0..(fs.mem[t.ip].size - 1), ~ (o <= x /\ x < t.off)
        PROVE  Holds(fs', kept', t.ip, x, content[t.ip][x + 1])
    <3>1. Holds(fs, kept, t.ip, x, content[t.ip][x + 1])
      BY <2>0, <2>4, Zenon DEF Writing
    <3> QED  BY <1>6, <1>8, <2>0, <3>1, Zenon
  <2>5. Writing(q)'
    BY <1>1, <1>4, <2>0, <2>3, <2>4, Zenon DEF Writing
  <2> QED  BY <2>1, <2>2, <2>5, Zenon
<1>10. ASSUME NEW i \in Inodes PROVE Stored(i)'
  <2>0. Stored(i)
    BY Zenon DEF FInv
  <2>1. ASSUME lock[i] = 0, NEW x \in 0..(fs.mem[i].size - 1) PROVE Holds(fs', kept', i, x, content[i][x + 1])
    <3>1. Holds(fs, kept, i, x, content[i][x + 1])
      BY <2>0, <2>1, Zenon DEF Stored
    <3> QED  BY <1>6, <1>8, <3>1, Zenon
  <2> QED  BY <1>1, <1>4, <2>0, <2>1, Zenon DEF Stored
<1> QED  BY <1>7, <1>9, <1>10, Zenon DEF FInv

-----------------------------------------------------------------------------
(* A step that changes nothing.                                             *)
LEMMA StutterStep == ASSUME FInv, UNCHANGED vars PROVE FInv'
<1>1. fs' = fs /\ lock' = lock /\ off' = off /\ th' = th /\ content' = content /\ calls' = calls
      /\ kept' = kept
  BY Zenon DEF vars
<1>2. MapOK(fs)' /\ Typed' /\ Quiet' /\ Locks'
  BY <1>1, Zenon DEF FInv, Typed, Quiet, Locks, Busy
<1>3. ASSUME NEW p \in Procs PROVE Calling(p)' /\ Writing(p)' /\ LogSmall(p)'
  BY <1>1, Zenon DEF FInv, Calling, Busy, Writing, LogSmall
<1>4. ASSUME NEW i \in Inodes PROVE Stored(i)'
  BY <1>1, Zenon DEF FInv, Stored
<1> QED  BY <1>2, <1>3, <1>4, Zenon DEF FInv

(* One block in the log.                                                    *)
LEMMA OneElement == ASSUME SetFacts, NEW x PROVE Cardinality({x}) = 1
<1>1. PICK S : S = {}
  BY Zenon
<1>2. Cardinality(S \cup {x}) = IF x \in S THEN Cardinality(S) ELSE Cardinality(S) + 1
  BY <1>1, EmptySet, Zenon DEF SetFacts
<1>3. Cardinality(S) = 0 /\ x \notin S /\ S \cup {x} = {x}
  BY <1>1, EmptySet, Zenon
<1> QED  BY ONLY <1>2, <1>3

(* The log of a write: the entries of its blocks, those of the indirect     *)
(* block, and the inode.                                                    *)
LEMMA LogFits ==
  ASSUME SetFacts, FInv, NEW p \in Procs
  PROVE  Cardinality(th[p].log \cup {<<"inode", th[p].ip>>}) <= MAXOPBLOCKS
<1> DEFINE t == th[p]
           o == off[t.f]
           L == t.log
           J == IndLog(fs, t.ip)
           S == L \ J
           e == <<"inode", t.ip>>
<1>1. Room \in Nat /\ 2 * Room + 4 <= MAXOPBLOCKS /\ MAXOPBLOCKS \in Nat
  BY ChunkRoom, FileMapConstants, Zenon
<1>2. Calling(p) /\ LogSmall(p)
  BY Zenon DEF FInv
<1>3. CASE ~ Busy(p)
  <2>1. L = {}
    BY <1>2, <1>3, Zenon DEF Calling
  <2>2. L \cup {e} = {e}
    BY <2>1, Zenon
  <2>3. Cardinality(L \cup {e}) = 1
    BY <2>2, OneElement, Zenon
  <2> HIDE DEF L, e
  <2>4. Cardinality(L \cup {e}) <= MAXOPBLOCKS
    BY ONLY <1>1, <2>3
  <2> QED  BY <2>4, Zenon DEF L, e
<1>4. CASE Busy(p)
  <2>1. IsFiniteSet(L) /\ (t.pc = "end" => Cardinality(S) <= 2 * Room + 1)
    BY <1>2, <1>4, Zenon DEF LogSmall
  <2>2. IsFiniteSet(S) /\ Cardinality(S) \in Nat
    BY <2>1, FiniteSubset, CardType, Zenon
  <2>3. ASSUME t.pc = "loop" PROVE Cardinality(S) <= 2 * Room + 1
    <3> DEFINE k == (t.off \div BSIZE) - (o \div BSIZE)
               d == IF o % BSIZE # 0 /\ t.tot > 0 THEN 1 ELSE 0
    <3>1. Cardinality(S) <= 2 * k - d
      BY <1>2, <1>4, <2>3, Zenon DEF LogSmall
    <3>2. /\ {o, t.off, t.tot, t.n1, t.n, t.i} \subseteq Nat /\ t.off = o + t.tot /\ t.tot < t.n1
          /\ t.n1 <= ChunkMax
      BY <2>3, LoopFacts, Zenon
    <3>3. o \in Nat /\ t.off \in Nat /\ t.tot \in Nat /\ t.n1 \in Nat /\ BSIZE \in Nat \ {0}
      BY <3>2, Sizes, Zenon
    <3>4. ChunkMax = Room * BSIZE /\ ChunkMax \in Nat
      BY ChunkRoom, Zenon
    <3> HIDE DEF t, o, S
    <3>5. t.off < o + ChunkMax
      BY ONLY <3>2, <3>3, <3>4
    <3>6. k <= Room
      BY <1>1, <3>3, <3>4, <3>5, RoomBound, Zenon
    <3>7. d \in {0, 1} /\ k \in Int
      <4>1. t.off \div BSIZE \in Nat /\ o \div BSIZE \in Nat
        BY <3>3, DivMod, Zenon
      <4> QED  BY ONLY <4>1
    <3> HIDE DEF k, d
    <3> QED  BY ONLY <1>1, <2>2, <3>1, <3>6, <3>7, SMTT(20)
  <2>4. Cardinality(S) <= 2 * Room + 1
    BY <1>4, <2>1, <2>3, Zenon DEF Busy
  <2>5. \E a, b : J \subseteq {a, b}
    <3>1. J = {} \/ J = {BBLOCK(Ind(fs, t.ip)), <<"block", Ind(fs, t.ip)>>}
      BY Zenon DEF IndLog, Logged
    <3> HIDE DEF J
    <3> QED  BY <3>1, Zenon
  <2>6. PICK a, b : J \subseteq {a, b}
    BY <2>5, Zenon
  <2> DEFINE U == S \cup {a, b}
             V == U \cup {e}
  <2>7. IsFiniteSet(U) /\ Cardinality(U) <= Cardinality(S) + 2
    BY <2>2, CardAdd, Zenon
  <2> HIDE DEF U
  <2>8. IsFiniteSet(V) /\ Cardinality(V) <= Cardinality(U) + 1 /\ Cardinality(U) \in Nat
    BY <2>7, CardAdd, Zenon
  <2>9. L \cup {e} \in SUBSET V
    BY <2>6, Zenon DEF U
  <2>10. Cardinality(L \cup {e}) <= Cardinality(V) /\ Cardinality(L \cup {e}) \in Nat /\ Cardinality(V) \in Nat
    BY <2>8, <2>9, FiniteSubset, CardType, Zenon
  <2> HIDE DEF L, e, V, S
  <2>11. Cardinality(L \cup {e}) <= MAXOPBLOCKS
    BY ONLY <1>1, <2>2, <2>4, <2>7, <2>8, <2>10, SMTT(20)
  <2> QED  BY <2>11, Zenon DEF L, e
<1> QED  BY <1>3, <1>4, Zenon

(* The pointer that readi follows.                                          *)
LEMMA BlockIs ==
  ASSUME NEW i, NEW bn \in 0..(MAXFILE - 1), At(fs, i, Key(bn)) # 0
  PROVE  BlockOf(i, bn) = At(fs, i, Key(bn))
<1>1. NDIRECT \in Nat /\ bn \in Nat
  BY Sizes
<1>2. CASE bn < NDIRECT
  <2>1. Key(bn) = bn /\ bn <= NDIRECT
    BY <1>1, <1>2 DEF Key
  <2> QED  BY <1>2, <2>1, Zenon DEF At, BlockOf
<1>3. CASE ~ (bn < NDIRECT)
  <2>1. Key(bn) = bn + 1 /\ ~ (bn + 1 <= NDIRECT) /\ (bn + 1) - (NDIRECT + 1) = bn - NDIRECT
    BY <1>1, <1>3 DEF Key
  <2>2. At(fs, i, Key(bn)) = fs.data[Ind(fs, i)].ptrs[bn - NDIRECT]
    BY <2>1, Zenon DEF At
  <2> QED  BY <1>3, <2>2, Zenon DEF BlockOf, Ind
<1> QED  BY <1>2, <1>3, Zenon

(* Where nobody writes, a file is what was written.                         *)
LEMMA ContentsAre ==
  ASSUME FInv, NEW i \in Inodes, lock[i] = 0
  PROVE  /\ fs.disk[i] = fs.mem[i] /\ Len(content[i]) = fs.mem[i].size
         /\ \A k \in 1..fs.mem[i].size : Contents(i)[k] \in content[i][k]
<1> DEFINE z == fs.mem[i].size
           c == content[i]
           M == MAXFILE * BSIZE
           E(k) == fs.data[BlockOf(i, (k - 1) \div BSIZE)].bytes[(k - 1) % BSIZE]
<1>1. fs \in FsRec /\ Stored(i)
  BY Zenon DEF FInv, MapOK
<1>2. z \in 0..M /\ M \in Nat
  BY <1>1, FsTypes, Sizes, Zenon
<1>3. /\ Len(c) = z /\ fs.disk[i] = fs.mem[i]
      /\ \A x \in 0..(z - 1) : Holds(fs, kept, i, x, c[x + 1])
  BY <1>1, Zenon DEF Stored
<1>4. ASSUME NEW k \in 1..z PROVE E(k) \in c[k]
  <2> DEFINE x == k - 1
             bn == x \div BSIZE
  <2> HIDE DEF z, M
  <2>1. x \in Nat /\ x < M /\ x \in 0..(z - 1) /\ x + 1 = k
    BY ONLY <1>2, k \in 1..z
  <2> HIDE DEF x
  <2>2. Holds(fs, kept, i, x, c[k])
    BY <1>3, <2>1, Zenon
  <2>3. bn \in 0..(MAXFILE - 1)
    BY <2>1, KeyIn, Zenon DEF M
  <2>4. At(fs, i, Key(bn)) # 0 /\ fs.data[At(fs, i, Key(bn))].bytes[x % BSIZE] \in c[k]
    BY <2>2, Zenon DEF Holds
  <2> HIDE DEF bn, c
  <2>5. fs.data[BlockOf(i, bn)].bytes[x % BSIZE] \in c[k]
    BY <2>3, <2>4, BlockIs, Zenon
  <2> QED  BY <2>5, Zenon DEF bn, x
<1>5. Contents(i) = [k \in 1..z |-> E(k)]
  BY Zenon DEF Contents
<1> HIDE DEF E, z, c
<1>6. \A k \in 1..z : Contents(i)[k] \in c[k]
  BY <1>4, <1>5, Zenon
<1> QED  BY <1>3, <1>6, Zenon DEF c, z

(* The blocks of an inode are its direct and its indirect ones.             *)
LEMMA FiniteUnion ==
  ASSUME SetFacts, NEW S, NEW T, IsFiniteSet(S), IsFiniteSet(T)
  PROVE  Cardinality(S \cup T) = Cardinality(S) + Cardinality(T) - Cardinality(S \cap T)
BY Zenon DEF SetFacts

(* A bijection from a finite set.                                           *)
LEMMA SameCard ==
  ASSUME SetFacts, NEW S, NEW T, IsFiniteSet(S), NEW f \in [S -> T],
         \A x, y \in S : f[x] = f[y] => x = y, \A y \in T : \E x \in S : f[x] = y
  PROVE  IsFiniteSet(T) /\ Cardinality(T) = Cardinality(S)
<1>1. OneToOne(f, S, T)
  BY Zenon DEF OneToOne
<1> QED  BY <1>1, Zenon DEF SetFacts

(* No two pointers have the same block.                                     *)
LEMMA OnePointer ==
  ASSUME NEW s, MapOK(s), NEW i \in Inodes, NEW j \in Inodes, NEW k \in Keys, NEW l \in Keys,
         At(s, i, k) # 0, At(s, i, k) = At(s, j, l)
  PROVE  i = j /\ k = l
BY SMT DEF MapOK

(* The blocks of inode i are as many as its pointers that are not 0: those  *)
(* in addrs and those in the indirect block.                                *)
LEMMA OwnedCount ==
  ASSUME SetFacts, MapOK(fs), NEW i \in Inodes
  PROVE  Cardinality(Owned(i))
           = Cardinality({k \in 0..NDIRECT : fs.mem[i].addrs[k] # 0})
             + Cardinality({x \in Indirect(fs, i) \X (0..(NINDIRECT - 1)) : fs.data[x[1]].ptrs[x[2]] # 0})
<1> DEFINE K == {k \in Keys : At(fs, i, k) # 0}
           A == {k \in 0..NDIRECT : fs.mem[i].addrs[k] # 0}
           C == K \ A
           B == {x \in Indirect(fs, i) \X (0..(NINDIRECT - 1)) : fs.data[x[1]].ptrs[x[2]] # 0}
           f == [k \in K |-> At(fs, i, k)]
           g == [k \in C |-> <<Ind(fs, i), k - (NDIRECT + 1)>>]
<1>1. NDIRECT \in Nat /\ NINDIRECT \in Nat \ {0} /\ MAXFILE \in Nat
  BY Sizes, Zenon
<1>2. IsFiniteSet(K) /\ IsFiniteSet(A) /\ IsFiniteSet(C)
  <2>1. IsFiniteSet(Keys)
    <3>1. 0 \in Int /\ MAXFILE \in Int
      BY <1>1
    <3> QED  BY <3>1, Zenon DEF SetFacts, Keys
  <2>2. IsFiniteSet(0..NDIRECT)
    <3>1. 0 \in Int /\ NDIRECT \in Int
      BY <1>1
    <3> QED  BY <3>1, Zenon DEF SetFacts
  <2>3. K \in SUBSET Keys /\ A \in SUBSET (0..NDIRECT)
    BY Zenon
  <2>4. IsFiniteSet(K) /\ IsFiniteSet(A)
    BY <2>1, <2>2, <2>3, FiniteSubset, ZenonT(60)
  <2> HIDE DEF K, A
  <2> QED  BY <2>4, FiniteSubset, Zenon
<1>3. /\ \A k \in 0..NDIRECT : k \in Keys /\ k <= NDIRECT
      /\ \A k \in Keys : ~ (k <= NDIRECT) => k - (NDIRECT + 1) \in 0..(NINDIRECT - 1)
      /\ \A k \in Keys : k <= NDIRECT => k \in 0..NDIRECT
      /\ \A j \in 0..(NINDIRECT - 1) : /\ j + (NDIRECT + 1) \in Keys /\ ~ (j + (NDIRECT + 1) <= NDIRECT)
                                       /\ (j + (NDIRECT + 1)) - (NDIRECT + 1) = j
      /\ \A k, l \in Keys : k - (NDIRECT + 1) = l - (NDIRECT + 1) => k = l
  BY <1>1 DEF Keys, MAXFILE
<1>4. A \subseteq K /\ \A k \in C : k \in Keys /\ ~ (k <= NDIRECT) /\ At(fs, i, k) # 0
  <2>1. ASSUME NEW k \in A PROVE k \in K
    BY <1>3, Zenon DEF At
  <2>2. ASSUME NEW k \in C PROVE k \in Keys /\ ~ (k <= NDIRECT) /\ At(fs, i, k) # 0
    BY <1>3, Zenon DEF At
  <2> QED  BY <2>1, <2>2, Zenon
<1>5. Cardinality(Owned(i)) = Cardinality(K)
  <2>1. \A b : b \in Owned(i) <=> b # 0 /\ \E k \in Keys : At(fs, i, k) = b
    BY ReachedIs, Zenon DEF Owned, Reached
  <2>2. f \in [K -> Owned(i)]
    BY <2>1, Zenon
  <2>3. ASSUME NEW k \in K, NEW l \in K, f[k] = f[l] PROVE k = l
    <3>1. At(fs, i, k) # 0 /\ At(fs, i, k) = At(fs, i, l) /\ k \in Keys /\ l \in Keys
      BY <2>3, Zenon
    <3> QED  BY <3>1, OnePointer, Zenon
  <2>4. \A b \in Owned(i) : \E k \in K : f[k] = b
    BY <2>1, Zenon
  <2> HIDE DEF f, K
  <2> QED  BY <1>2, <2>2, <2>3, <2>4, SameCard, Zenon
<1>6. Cardinality(B) = Cardinality(C)
  <2>1. ASSUME NEW k \in C PROVE g[k] \in B
    <3>1. k \in Keys /\ ~ (k <= NDIRECT) /\ At(fs, i, k) # 0 /\ k - (NDIRECT + 1) \in 0..(NINDIRECT - 1)
      BY <1>3, <1>4, Zenon
    <3>2. Ind(fs, i) # 0 /\ fs.data[Ind(fs, i)].ptrs[k - (NDIRECT + 1)] # 0
      BY <3>1, Zenon DEF At
    <3>3. Ind(fs, i) \in Indirect(fs, i)
      BY <3>2, Zenon DEF Indirect, Ind
    <3> DEFINE x == <<Ind(fs, i), k - (NDIRECT + 1)>>
    <3>4. x \in Indirect(fs, i) \X (0..(NINDIRECT - 1)) /\ x[1] = Ind(fs, i) /\ x[2] = k - (NDIRECT + 1)
      BY <3>1, <3>3
    <3>5. g[k] = x
      BY Zenon
    <3> HIDE DEF x, g
    <3> QED  BY <3>2, <3>4, <3>5, Zenon
  <2>2. g \in [C -> B]
    <3>1. g = [k \in C |-> g[k]]
      BY Zenon
    <3> HIDE DEF g, B, C
    <3> QED  BY <2>1, <3>1, Zenon
  <2>3. ASSUME NEW k \in C, NEW l \in C, g[k] = g[l] PROVE k = l
    <3>1. <<Ind(fs, i), k - (NDIRECT + 1)>> = <<Ind(fs, i), l - (NDIRECT + 1)>>
      BY <2>3, Zenon
    <3>2. k - (NDIRECT + 1) = l - (NDIRECT + 1)
      BY ONLY <3>1
    <3> QED  BY <1>3, <1>4, <3>2, Zenon
  <2>4. ASSUME NEW x \in B PROVE \E k \in C : g[k] = x
    <3>1. PICK b \in Indirect(fs, i), j \in 0..(NINDIRECT - 1) : x = <<b, j>>
      BY SMT
    <3>2. x[1] = b /\ x[2] = j /\ fs.data[x[1]].ptrs[x[2]] # 0
      BY <3>1
    <3>3. b = Ind(fs, i) /\ b # 0
      BY Zenon DEF Indirect, Ind
    <3> DEFINE k == j + (NDIRECT + 1)
    <3>4. k \in Keys /\ ~ (k <= NDIRECT) /\ k - (NDIRECT + 1) = j
      BY <1>3, Zenon
    <3> HIDE DEF k
    <3>5. At(fs, i, k) = fs.data[Ind(fs, i)].ptrs[j] /\ Ind(fs, i) # 0
      BY <3>3, <3>4, Zenon DEF At
    <3>6. k \in K
      BY <3>2, <3>3, <3>4, <3>5, Zenon
    <3>7. k \notin A
      BY <1>3, <3>4, Zenon
    <3>8. k \in C
      BY <3>6, <3>7, Zenon
    <3>9. g[k] = <<b, j>>
      BY <3>3, <3>4, <3>8, Zenon
    <3> QED  BY <3>1, <3>8, <3>9, ZenonT(60)
  <2> HIDE DEF g, B, C
  <2> QED  BY <1>2, <2>2, <2>3, <2>4, SameCard, Zenon
<1>7. Cardinality(K) = Cardinality(A) + Cardinality(C)
  <2>1. K = A \cup C /\ A \cap C = {}
    BY <1>4, Zenon
  <2>2. Cardinality(A \cup C) = Cardinality(A) + Cardinality(C) - Cardinality(A \cap C)
    BY <1>2, FiniteUnion, Zenon
  <2>3. Cardinality(A \cap C) = 0
    BY <2>1, EmptySet, Zenon
  <2>4. Cardinality(A) \in Nat /\ Cardinality(C) \in Nat
    BY <1>2, CardType, Zenon
  <2> HIDE DEF A, C
  <2>5. Cardinality(A \cup C) = Cardinality(A) + Cardinality(C)
    BY ONLY <2>2, <2>3, <2>4
  <2> HIDE DEF K
  <2> QED  BY <2>1, <2>5, Zenon
<1> HIDE DEF K, C
<1> QED  BY <1>5, <1>6, <1>7, Zenon

(* The types of TypeOK follow from those of the invariant.                  *)
LEMMA TypesOK == ASSUME FInv PROVE TypeOK
<1>1. fs \in FsRec /\ Typed
  BY Zenon DEF FInv, MapOK
<1>2. FsType
  <2>1. /\ fs.used \subseteq Blocks /\ fs.data \in [Blocks -> Cell]
        /\ fs.mem \in [Inodes -> Dinode] /\ fs.disk \in [Inodes -> Dinode]
    BY <1>1, FsTypes, Zenon
  <2> QED  BY <2>1, Zenon DEF FsType, Cell, Dinode, Addrs
<1>3. ASSUME NEW p \in Procs
      PROVE  /\ th[p].pc \in {"idle", "chunk", "loop", "end"}
             /\ th[p].tot <= th[p].n1 /\ th[p].i + th[p].n1 <= th[p].n
  <2>1. Calling(p) /\ th[p] \in ThRec
    BY <1>1, Zenon DEF FInv, Typed
  <2>2. th[p].pc \in {"idle", "chunk", "loop", "end"}
    BY <2>1, Zenon DEF ThRec
  <2> QED  BY <2>1, <2>2, Zenon DEF Calling
<1> QED  BY <1>1, <1>2, <1>3, Zenon DEF TypeOK, Typed

(* The map of pointers and the bitmap.                                      *)
LEMMA BitmapIs == ASSUME SetFacts, FInv PROVE BitmapExact
<1>1. MapOK(fs) /\ fs \in FsRec /\ fs.used \subseteq Blocks
  BY FsTypes, Zenon DEF FInv, MapOK
<1>2. \A i : \A b : b \in Owned(i) <=> b # 0 /\ \E k \in Keys : At(fs, i, k) = b
  BY ReachedIs, Zenon DEF Owned, Reached
<1>3. fs.used = UNION {Owned(i) : i \in Inodes}
  <2>1. ASSUME NEW b \in fs.used PROVE \E i \in Inodes : b \in Owned(i)
    <3>1. b \in Blocks /\ b # 0
      BY <1>1, Sizes, Zenon
    <3>2. PICK i \in Inodes, k \in Keys : At(fs, i, k) = b
      BY <1>1, <3>1, Zenon DEF MapOK
    <3> QED  BY <1>2, <3>1, <3>2, Zenon
  <2>2. ASSUME NEW i \in Inodes, NEW b \in Owned(i) PROVE b \in fs.used
    BY <1>1, <1>2, AtUsed, Zenon
  <2> QED  BY <2>1, <2>2, Zenon
<1>4. ASSUME NEW i \in Inodes, NEW j \in Inodes, i # j PROVE Owned(i) \cap Owned(j) = {}
  <2>1. ASSUME NEW b \in Owned(i), b \in Owned(j) PROVE FALSE
    <3>1. PICK k \in Keys : At(fs, i, k) = b /\ b # 0
      BY <1>2, Zenon
    <3>2. PICK l \in Keys : At(fs, j, l) = b
      BY <1>2, <2>1, Zenon
    <3>3. At(fs, i, k) # 0 /\ At(fs, i, k) = At(fs, j, l)
      BY <3>1, <3>2, Zenon
    <3>4. i = j
      BY ONLY <1>1, <3>3, OnePointer, i \in Inodes, j \in Inodes, k \in Keys, l \in Keys, SMTT(20)
    <3> QED  BY ONLY <1>4, <3>4, Zenon
  <2> QED  BY <2>1, Zenon
<1>5. TypeOK
  BY TypesOK, Zenon
<1>6. \A i \in Inodes : Cardinality(Owned(i))
        = Cardinality({k \in 0..NDIRECT : fs.mem[i].addrs[k] # 0})
          + Cardinality({x \in Indirect(fs, i) \X (0..(NINDIRECT - 1)) : fs.data[x[1]].ptrs[x[2]] # 0})
  BY <1>1, OwnedCount, Zenon
<1> QED  BY <1>3, <1>4, <1>5, <1>6, Zenon DEF BitmapExact

-----------------------------------------------------------------------------
(* The facts about sets.                                                    *)
INSTANCE FiniteSetTheorems

(* The facts about sets that the lemmas assume hold.                        *)
LEMMA SetFactsHold == SetFacts
<1>1. IsFiniteSet({}) /\ Cardinality({}) = 0
  BY FS_EmptySet, Zenon
<1>2. \A S : IsFiniteSet(S) => Cardinality(S) \in Nat
  BY FS_CardinalityType, Zenon
<1>3. \A S, x : IsFiniteSet(S) =>
        /\ IsFiniteSet(S \cup {x})
        /\ Cardinality(S \cup {x}) = IF x \in S THEN Cardinality(S) ELSE Cardinality(S) + 1
  BY FS_AddElement, Zenon
<1>4. \A S : \A T \in SUBSET S : IsFiniteSet(S) => IsFiniteSet(T) /\ Cardinality(T) <= Cardinality(S)
  BY FS_Subset, Zenon
<1>5. \A S, T : IsFiniteSet(S) /\ IsFiniteSet(T) =>
        Cardinality(S \cup T) = Cardinality(S) + Cardinality(T) - Cardinality(S \cap T)
  BY FS_Union, Zenon
<1>6. \A a, b \in Int : IsFiniteSet(a..b)
  BY FS_Interval, Zenon
<1>7. \A S, T, f : IsFiniteSet(S) /\ OneToOne(f, S, T) => IsFiniteSet(T) /\ Cardinality(T) = Cardinality(S)
  <2> SUFFICES ASSUME NEW S, NEW T, NEW f, IsFiniteSet(S), OneToOne(f, S, T)
               PROVE  IsFiniteSet(T) /\ Cardinality(T) = Cardinality(S)
    BY Zenon
  <2>1. f \in [S -> T] /\ DOMAIN f = S
    BY Zenon DEF OneToOne
  <2>2. f \in Surjection(S, T)
    BY <2>1, Zenon DEF Surjection, OneToOne
  <2>3. f \in Injection(S, T)
    BY <2>1, Zenon DEF Injection, IsInjective, OneToOne
  <2> QED  BY <2>2, <2>3, FS_Surjection, Zenon
<1>8. \A S \in SUBSET Nat : S # {} => \E x \in S : \A y \in S : x <= y
  <2> SUFFICES ASSUME NEW S \in SUBSET Nat, S # {} PROVE \E x \in S : \A y \in S : x <= y
    BY Zenon
  <2>1. PICK R : R = OpToRel(<, Nat)
    BY Zenon
  <2>2. IsWellFoundedOn(R, Nat)
    BY <2>1, NatLessThanWellFounded, Zenon
  <2>3. S \subseteq Nat
    BY Zenon
  <2>4. PICK x \in S : \A y \in S : ~(<<y, x>> \in R)
    BY <2>2, <2>3, WFMin, Zenon
  <2>5. \A y \in S : ~(y < x)
    BY <2>1, <2>4 DEF OpToRel
  <2>6. \A y \in S : x <= y
    BY <2>3, <2>5
  <2> QED  BY <2>6, Zenon
<1> QED  BY <1>1, <1>2, <1>3, <1>4, <1>5, <1>6, <1>7, <1>8, Zenon DEF SetFacts

(* FInv is an invariant.                                                    *)
THEOREM FileInvariance == Spec => []FInv
<1>1. Init => FInv
  BY InitInv, Zenon
<1>2. SetFacts
  BY SetFactsHold, Zenon
<1>3. FInv /\ [Next]_vars => FInv'
  <2> SUFFICES ASSUME FInv, [Next]_vars PROVE FInv'
    OBVIOUS
  <2>1. ASSUME NEW p \in Procs, Write(p) \/ Step(p) \/ Read(p) \/ Open(p) PROVE FInv'
    BY <1>2, <2>1, WriteStep, ChunkStep, EndStep, BlockStep, ReadStep, OpenStep, Zenon DEF Step
  <2>2. ASSUME NEW b \in Blocks, NEW d \in kept[b], Recycle(b, d) PROVE FInv'
    BY <2>2, RecycleStep, Zenon
  <2> QED  BY <2>1, <2>2, StutterStep, Zenon DEF Next
<1> QED  BY <1>1, <1>3, PTL DEF Spec
-----------------------------------------------------------------------------
(* BitmapExact, for every disk, every geometry of an inode and every number *)
(* of writers: the bitmap of balloc and bfree marks exactly the blocks that *)
(* bmap's pointers reach, each reached once, whatever fails in the middle.  *)
THEOREM BitmapSafe == Spec => []BitmapExact
<1>1. FInv => BitmapExact
  BY SetFactsHold, BitmapIs, Zenon
<1> QED  BY <1>1, FileInvariance, PTL

(* ContentsExact: what readi finds in a file that nobody writes is what the *)
(* completed calls of filewrite and the truncations left, short writes and  *)
(* writes that start and end inside a block included. Only the bytes that a *)
(* failed either_copyin had moved may be old or new, as the cache keeps or  *)
(* recycles their block. The inode on disk is the one in memory.            *)
THEOREM ContentsSafe == Spec => []ContentsExact
<1>1. FInv => ContentsExact
  BY ContentsAre, Zenon DEF ContentsExact
<1> QED  BY <1>1, FileInvariance, PTL

(* OpFitsLog: the chunk size of filewrite keeps every writei within the     *)
(* MAXOPBLOCKS blocks its transaction reserved.                             *)
THEOREM WritesFitLog == Spec => []OpFitsLog
<1>1. FInv => OpFitsLog
  BY SetFactsHold, LogFits, Zenon DEF OpFitsLog
<1> QED  BY <1>1, FileInvariance, PTL

(* NoPanic: bfree frees no free block, bmap is in range, and readi meets no *)
(* hole, so that it never allocates outside of a transaction.               *)
THEOREM PanicFree == Spec => []NoPanic
<1>1. FInv => NoPanic
  BY Zenon DEF FInv, Quiet, NoPanic
<1> QED  BY <1>1, FileInvariance, PTL
=============================================================================
