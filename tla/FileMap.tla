------------------------------- MODULE FileMap ------------------------------
(***************************************************************************)
(* The contents of files: the block bitmap, bmap, itrunc, readi and writei *)
(* of kernel/fs/fs.c under fileread and filewrite of kernel/fs/file.c.     *)
(* Several processes write, read and truncate files whose blocks come from *)
(* one small disk. A step of a write is one block of writei's loop: while  *)
(* it holds the lock of its inode, writes to other inodes take blocks too. *)
(* A copy from the user may fail half way: writei then releases the buffer *)
(* without log_write, and the cache keeps or forgets the bytes it got.     *)
(***************************************************************************)
EXTENDS Integers, FiniteSets, Sequences

CONSTANTS
  Procs,           \* a process writes its number as every byte
  NINODES, NFILE,  \* inodes, and open files (struct file)
  WriteCounts, ReadCounts,   \* arguments n of write and read
  NBLOCKS,         \* data blocks on disk
  BSIZE, NDIRECT, NINDIRECT, MAXOPBLOCKS,
  BPB,             \* bits of a bitmap block
  UINT,            \* 2^32
  MaxCalls         \* bound on the number of calls

ASSUME FileMapConstants ==
  /\ {NINODES, NFILE, NBLOCKS, BSIZE, NDIRECT, NINDIRECT, BPB, UINT} \subseteq Nat \ {0}
  /\ MAXOPBLOCKS \in Nat /\ MAXOPBLOCKS >= 6 /\ MaxCalls \in Nat
  /\ WriteCounts \cup ReadCounts \subseteq 0..(UINT - 1)
  /\ Procs \subseteq Nat \ {0}

VARIABLES
  fs,              \* disk and inodes, see FsType
  lock,            \* holder of each inode's lock
  off,             \* offset of each open file
  th,              \* what each process does
  kept,            \* the bytes on disk of a block changed without log_write
  content,         \* history: what each byte of a file may be after the calls
  calls

vars == <<fs, lock, off, th, kept, content, calls>>

Blocks == 1..NBLOCKS
Inodes == 0..(NINODES - 1)
Files == 0..(NFILE - 1)          \* all processes share them
Ip(f) == f % NINODES             \* f->ip
MAXFILE == NDIRECT + NINDIRECT
Bytes == 0..(BSIZE - 1)
Empty == [size |-> 0, addrs |-> [n \in 0..NDIRECT |-> 0]]
Zeroed == [bytes |-> [k \in Bytes |-> 0], ptrs |-> [k \in 0..(NINDIRECT - 1) |-> 0]]

(* used: bits of the bitmap; data: a block read as bytes and as pointers;   *)
(* mem, disk: the inodes in memory and on disk; ret: what the function      *)
(* returned; log: the blocks it gave to log_write; panic: a panic's message *)
FsType ==
  /\ fs.used \subseteq Blocks
  /\ fs.data \in [Blocks -> [bytes : [Bytes -> Procs \cup {0}],
                             ptrs : [0..(NINDIRECT - 1) -> Blocks \cup {0}]]]
  /\ {fs.mem, fs.disk} \subseteq [Inodes -> [size : 0..(MAXFILE * BSIZE),
                                            addrs : [0..NDIRECT -> Blocks \cup {0}]]]

Idle == [pc |-> "idle", f |-> NFILE, ip |-> 0, n |-> 0, i |-> 0,
         n1 |-> 0, tot |-> 0, off |-> 0, log |-> {}]

TypeOK ==
  /\ FsType
  /\ lock \in [Inodes -> Procs \cup {0}]
  /\ off \in [Files -> 0..(MAXFILE * BSIZE)]
  /\ \A b \in Blocks : kept[b] \subseteq [Bytes -> Procs \cup {0}]
  /\ \A p \in Procs : /\ th[p].pc \in {"idle", "chunk", "loop", "end"}
                      /\ th[p].tot <= th[p].n1 /\ th[p].i + th[p].n1 <= th[p].n
  /\ calls \in 0..MaxCalls

Init ==
  /\ fs = [used |-> {}, data |-> [b \in Blocks |-> Zeroed], mem |-> [i \in Inodes |-> Empty],
           disk |-> [i \in Inodes |-> Empty], ret |-> 0, log |-> {}, panic |-> ""]
  /\ lock = [i \in Inodes |-> 0]
  /\ off = [f \in Files |-> 0]
  /\ th = [p \in Procs |-> Idle]
  /\ kept = [b \in Blocks |-> {}]
  /\ content = [i \in Inodes |-> <<>>]
  /\ calls = 0

-----------------------------------------------------------------------------
(* Block allocation                                                         *)
-----------------------------------------------------------------------------
BBLOCK(b) == <<"bitmap", b \div BPB>>

(* Fault: no bzero.                                                         *)
balloc_NoZero(s) ==
  IF s.used = Blocks THEN [s EXCEPT !.ret = 0]
  ELSE LET b == CHOOSE c \in Blocks \ s.used : \A d \in Blocks \ s.used : c <= d
       IN  [s EXCEPT !.used = @ \cup {b}, !.ret = b, !.log = @ \cup {BBLOCK(b)}]

(* The first free block, zeroed; 0 if there is none.                        *)
balloc(s) ==
  IF s.used = Blocks THEN [s EXCEPT !.ret = 0]
  ELSE LET b == CHOOSE c \in Blocks \ s.used : \A d \in Blocks \ s.used : c <= d
       IN  [s EXCEPT !.used = @ \cup {b}, !.data[b] = Zeroed, !.ret = b,
                     !.log = @ \cup {BBLOCK(b), <<"block", b>>}]

bfree(s, B) ==
  [s EXCEPT !.used = @ \ B, !.log = @ \cup {BBLOCK(b) : b \in B},
            !.panic = IF B \subseteq s.used THEN @ ELSE "freeing free block"]

-----------------------------------------------------------------------------
(* bmap: entry k of addrs, and through the indirect block                   *)
-----------------------------------------------------------------------------
mapaddr(s, i, k) ==
  LET addr == s.mem[i].addrs[k]
      t == balloc(s)
  IN  IF addr # 0 THEN [s EXCEPT !.ret = addr]
      ELSE [t EXCEPT !.mem[i].addrs[k] = t.ret]

mapptr(s, ind, k) ==
  LET addr == s.data[ind].ptrs[k]
      t == balloc(s)
  IN  IF addr # 0 THEN [s EXCEPT !.ret = addr]
      ELSE IF t.ret = 0 THEN t
      ELSE [t EXCEPT !.data[ind].ptrs[k] = t.ret, !.log = @ \cup {<<"block", ind>>}]

bmap(s, i, bn) ==
  IF bn < NDIRECT THEN mapaddr(s, i, bn)
  ELSE IF bn < MAXFILE
    THEN LET t == mapaddr(s, i, NDIRECT)
         IN  IF t.ret = 0 THEN t ELSE mapptr(t, t.ret, bn - NDIRECT)
  ELSE [s EXCEPT !.panic = "bmap: out of range"]

iupdate(s, i) == [s EXCEPT !.disk[i] = s.mem[i], !.log = @ \cup {<<"inode", i>>}]

(* The blocks reached through the inode in memory.                          *)
Direct(s, i) == {s.mem[i].addrs[k] : k \in 0..(NDIRECT - 1)} \ {0}
Indirect(s, i) == {s.mem[i].addrs[NDIRECT]} \ {0}
Pointed(s, i) ==
  (UNION {{s.data[b].ptrs[k] : k \in 0..(NINDIRECT - 1)} : b \in Indirect(s, i)}) \ {0}

itrunc(s, i) ==
  iupdate([bfree(s, Direct(s, i) \cup Pointed(s, i) \cup Indirect(s, i)) EXCEPT !.mem[i] = Empty], i)

(* Between steps the results of functions are forgotten.                    *)
Settled(s) == [s EXCEPT !.ret = 0, !.log = {}]

-----------------------------------------------------------------------------
(* filewrite: a loop of transactions, each with one writei                  *)
-----------------------------------------------------------------------------
Least(a, b) == IF a <= b THEN a ELSE b

(* Fault: no room for blocks touched at both ends of an unaligned chunk.    *)
ChunkMax_NoSlop == ((MAXOPBLOCKS - 1 - 1) \div 2) * BSIZE

ChunkMax == ((MAXOPBLOCKS - 1 - 1 - 2) \div 2) * BSIZE

Called == calls < MaxCalls /\ calls' = calls + 1

(* A negative n is not below 0 as an int: the loop is not entered.          *)
Write(p) ==
  \E f \in Files, n \in WriteCounts :
    /\ th[p].pc = "idle" /\ n < UINT \div 2 /\ n > 0 /\ Called
    /\ th' = [th EXCEPT ![p] = [Idle EXCEPT !.pc = "chunk", !.f = f, !.ip = Ip(f), !.n = n]]
    /\ UNCHANGED <<fs, lock, off, kept, content>>

(* begin_op, ilock and the tests of writei.                                 *)
Chunk(p) ==
  LET t == th[p]
      n1 == Least(t.n - t.i, ChunkMax)
  IN  /\ t.pc = "chunk" /\ lock[t.ip] = 0
      /\ IF off[t.f] > fs.mem[t.ip].size \/ off[t.f] + n1 > MAXFILE * BSIZE
         THEN th' = [th EXCEPT ![p] = Idle] /\ UNCHANGED lock
         ELSE /\ lock' = [lock EXCEPT ![t.ip] = p]
              /\ th' = [th EXCEPT ![p] = [t EXCEPT !.pc = "loop", !.n1 = n1, !.tot = 0,
                                                   !.off = off[t.f], !.log = {}]]
      /\ UNCHANGED <<fs, off, kept, content, calls>>

(* What the disk has of each block after log_write of the blocks in L.      *)
Kept(L) == [b \in Blocks |-> IF <<"block", b>> \in L THEN {} ELSE kept[b]]

(* What a copy of v that failed after k bytes at position o makes of a      *)
(* file: these bytes are old or new.                                        *)
Tainted(c, o, k, v) ==
  [x \in 1..Len(c) |-> IF x > o /\ x <= o + k THEN c[x] \cup {v} ELSE c[x]]

(* One block: bmap finds no space; or either_copyin moves c of m bytes and  *)
(* fails, and the buffer is released without log_write; or it moves all.    *)
Block(p, c) ==
  LET t == th[p]
      m == Least(t.n1 - t.tot, BSIZE - (t.off % BSIZE))
      here == {k \in Bytes : k >= t.off % BSIZE /\ k < (t.off % BSIZE) + c}
  IN  /\ t.pc = "loop"
      /\ UNCHANGED <<lock, off, calls>>
      /\ \E s \in {bmap(fs, t.ip, t.off \div BSIZE)} :
           LET b == s.ret
               w == [s EXCEPT !.data[b].bytes = [k \in Bytes |-> IF k \in here THEN p ELSE @[k]]]
               L == s.log \cup {<<"block", b>>}
               K == Kept(s.log)
           IN  \/ /\ b = 0 /\ c = 0
                  /\ fs' = Settled(s) /\ kept' = K /\ content' = content
                  /\ th' = [th EXCEPT ![p] = [t EXCEPT !.pc = "end", !.log = @ \cup s.log]]
               \/ /\ b # 0 /\ c < m
                  /\ fs' = Settled(w)
                  /\ kept' = [K EXCEPT ![b] = IF c = 0 \/ <<"block", b>> \in s.log \/ @ # {} THEN @
                                              ELSE {s.data[b].bytes}]
                  /\ content' = [content EXCEPT ![t.ip] = Tainted(@, t.off, c, p)]
                  /\ th' = [th EXCEPT ![p] = [t EXCEPT !.pc = "end", !.log = @ \cup s.log]]
               \/ /\ b # 0 /\ c = m
                  /\ fs' = Settled(w) /\ kept' = Kept(L) /\ content' = content
                  /\ th' = [th EXCEPT ![p] =
                              [t EXCEPT !.tot = @ + m, !.off = @ + m, !.log = @ \cup L,
                                        !.pc = IF t.tot + m = t.n1 THEN "end" ELSE "loop"]]

(* bget takes the buffer of a released, unpinned block for another one: the *)
(* next bread finds what the disk has.                                      *)
Recycle(b, d) ==
  /\ d \in kept[b]
  /\ fs' = [fs EXCEPT !.data[b].bytes = d]
  /\ kept' = [kept EXCEPT ![b] = {}]
  /\ UNCHANGED <<lock, off, th, content, calls>>

(* Fault: the size is set also when the write ends inside the file.         *)
SetSize_Shrinks(s, i, o) == iupdate([s EXCEPT !.mem[i].size = o], i)

SetSize(s, i, o) == iupdate([s EXCEPT !.mem[i].size = IF o > @ THEN o ELSE @], i)

(* Fault: a short write is tried again.                                     *)
Continue_Retries(t) == t.i + t.tot < t.n

(* Does filewrite go on with another chunk?                                 *)
Continue(t) == t.tot = t.n1 /\ t.i + t.tot < t.n

(* What a write of m bytes at position o makes of a file, v the set of what *)
(* each may be.                                                             *)
Written(c, o, m, v) ==
  [k \in 1..(IF o + m > Len(c) THEN o + m ELSE Len(c)) |-> IF k > o /\ k <= o + m THEN v ELSE c[k]]

(* The end of writei, f->off += r, iunlock and end_op.                      *)
End(p) ==
  LET t == th[p]
      s == SetSize(fs, t.ip, t.off)
  IN  /\ t.pc = "end"
      /\ fs' = Settled(s)
      /\ off' = [off EXCEPT ![t.f] = @ + t.tot]
      /\ lock' = [lock EXCEPT ![t.ip] = 0]
      /\ th' = [th EXCEPT ![p] = IF Continue(t)
                                 THEN [t EXCEPT !.pc = "chunk", !.i = @ + t.tot, !.n1 = 0, !.tot = 0,
                                                !.off = 0, !.log = {}]
                                 ELSE Idle]
      /\ content' = [content EXCEPT ![t.ip] = Written(@, t.off - t.tot, t.tot, {p})]
      /\ UNCHANGED <<kept, calls>>

-----------------------------------------------------------------------------
(* fileread: readi's test and clipping in 32 bits, then bmap of every block *)
(* of the range. fileread has no transaction: an allocation by bmap would   *)
(* be a log_write outside of one.                                           *)
-----------------------------------------------------------------------------
(* Fault: the test ignores wrap-around.                                     *)
readlen_NoWrapTest(o, n, size) ==
  IF o > size THEN 0 ELSE IF (o + n) % UINT > size THEN size - o ELSE n

readlen(o, n, size) ==
  IF o > size \/ (o + n) % UINT < o THEN 0 ELSE IF o + n > size THEN size - o ELSE n

Mapped(s, i, bn) ==
  IF bn < NDIRECT THEN s.mem[i].addrs[bn] # 0
  ELSE \E b \in Indirect(s, i) : bn < MAXFILE /\ s.data[b].ptrs[bn - NDIRECT] # 0

Read(p) ==
  \E f \in Files, n \in ReadCounts :
    LET r == readlen(off[f], n, fs.mem[Ip(f)].size)
        last == (off[f] + r - 1) \div BSIZE
    IN  /\ th[p].pc = "idle" /\ lock[Ip(f)] = 0 /\ Called
        /\ fs' = IF r > 0 /\ \E bn \in (off[f] \div BSIZE)..last : ~Mapped(fs, Ip(f), bn)
                 THEN [fs EXCEPT !.panic = "log_write outside of trans"] ELSE fs
        /\ off' = [off EXCEPT ![f] = @ + r]
        /\ UNCHANGED <<lock, th, kept, content>>

(* sys_open: a struct file that no write uses is closed and opened again;   *)
(* O_TRUNC empties the file and leaves the offsets of the others.           *)
Open(p) ==
  \E f \in Files, trunc \in BOOLEAN :
    /\ th[p].pc = "idle" /\ lock[Ip(f)] = 0 /\ Called
    /\ \A q \in Procs : th[q].f # f
    /\ fs' = IF trunc THEN Settled(itrunc(fs, Ip(f))) ELSE fs
    /\ content' = IF trunc THEN [content EXCEPT ![Ip(f)] = <<>>] ELSE content
    /\ off' = [off EXCEPT ![f] = 0]
    /\ UNCHANGED <<lock, th, kept>>

Step(p) == Chunk(p) \/ End(p) \/ \E c \in 0..BSIZE : Block(p, c)

Next ==
  /\ fs.panic = ""
  /\ \/ \E p \in Procs : Write(p) \/ Step(p) \/ Read(p) \/ Open(p)
     \/ \E b \in Blocks : \E d \in kept[b] : Recycle(b, d)

Spec == Init /\ [][Next]_vars

(* A process inside a call is scheduled again.                              *)
FairSpec == Spec /\ \A p \in Procs : WF_vars(fs.panic = "" /\ Step(p))

-----------------------------------------------------------------------------
Owned(i) == Direct(fs, i) \cup Indirect(fs, i) \cup Pointed(fs, i)
(* The bitmap marks exactly the blocks that some inode points to, and no    *)
(* block is pointed to twice: balloc's failures in the middle of bmap and   *)
(* writei leak nothing, and itrunc gives back all.                          *)
BitmapExact ==
  /\ TypeOK
  /\ fs.used = UNION {Owned(i) : i \in Inodes}
  /\ \A i, j \in Inodes : i # j => Owned(i) \cap Owned(j) = {}
  /\ \A i \in Inodes : Cardinality(Owned(i))
       = Cardinality({k \in 0..NDIRECT : fs.mem[i].addrs[k] # 0})
         + Cardinality({x \in Indirect(fs, i) \X (0..(NINDIRECT - 1)) : fs.data[x[1]].ptrs[x[2]] # 0})

BlockOf(i, bn) ==
  IF bn < NDIRECT THEN fs.mem[i].addrs[bn]
  ELSE fs.data[fs.mem[i].addrs[NDIRECT]].ptrs[bn - NDIRECT]
Contents(i) ==
  [k \in 1..fs.mem[i].size |-> fs.data[BlockOf(i, (k - 1) \div BSIZE)].bytes[(k - 1) % BSIZE]]

(* What readi would return is what the completed writes and truncations     *)
(* left, whichever process made them and wherever a write fell short. Only  *)
(* a byte that a failed copy had moved may be old or new, until a write     *)
(* covers it: the write returns less than it changed. And the inode on disk *)
(* is the same, for "the loop above might have called bmap() and added a    *)
(* new block to ip->addrs[]" (fs.c:502-504).                                *)
ContentsExact ==
  \A i \in Inodes : lock[i] = 0 =>
    /\ fs.disk[i] = fs.mem[i] /\ Len(content[i]) = fs.mem[i].size
    /\ \A k \in 1..fs.mem[i].size : Contents(i)[k] \in content[i][k]

(* "write a few blocks at a time to avoid exceeding the maximum log         *)
(* transaction size": no writei logs more than MAXOPBLOCKS blocks, its      *)
(* inode's included, also when every block has its own bitmap block.        *)
OpFitsLog ==
  \A p \in Procs : Cardinality(th[p].log \cup {<<"inode", th[p].ip>>}) <= MAXOPBLOCKS

(* The panics of bfree and bmap never happen, and readi meets no hole, so   *)
(* that fileread, which opens no transaction, allocates nothing.            *)
NoPanic == fs.panic = ""

(* A write returns, also when the disk is full.                             *)
WriteReturns == \A p \in Procs : th[p].pc # "idle" ~> th[p].pc = "idle"
=============================================================================
