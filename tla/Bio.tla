-------------------------------- MODULE Bio ---------------------------------
(***************************************************************************)
(* The buffer cache of kernel/fs/bio.c with the sleep locks of             *)
(* kernel/sync/sleeplock.c: NBUF buffers in a list ordered by use, a       *)
(* reference count per buffer that keeps it from being recycled, and a     *)
(* lock per buffer that may be slept for after bcache.lock is dropped. An  *)
(* action is one critical section, or one transfer of virtio_disk_rw.      *)
(***************************************************************************)
EXTENDS Naturals, FiniteSets, Functions

CONSTANTS
  Procs, Blocks, Vals,
  NBUF,           \* buffers
  PinLimit,       \* the most blocks the log pins at a time
  None

ASSUME BioConstants ==
  /\ NBUF \in Nat \ {0} /\ PinLimit \in Nat /\ IsFiniteSet(Procs)
  /\ None \notin Procs \cup Blocks \cup (1..NBUF) /\ Vals # {}

VARIABLES
  lru,            \* bcache.head.next .. bcache.head.prev
  blockno, valid, refcnt, data,   \* struct buf
  locked,         \* b->lock: its holder
  disk,
  pinned,         \* blocks with a bpin and no bunpin yet
  pc, buf,        \* what a process does next, and its local b
  want,           \* the block it asked for
  panicked

cache == <<lru, blockno, valid, refcnt, data, locked>>
vars == <<lru, blockno, valid, refcnt, data, locked, disk, pinned, pc, buf, want, panicked>>

Bufs == 1..NBUF

TypeOK ==
  /\ lru \in [Bufs -> Bufs] /\ Range(lru) = Bufs
  /\ blockno \in [Bufs -> Blocks \cup {None}]
  /\ valid \in [Bufs -> BOOLEAN]
  /\ refcnt \in [Bufs -> 0..(Cardinality(Procs) + 1)]
  /\ data \in [Bufs -> Vals]
  /\ locked \in [Bufs -> Procs \cup {None}]
  /\ disk \in [Blocks -> Vals]
  /\ pinned \subseteq Blocks
  /\ pc \in [Procs -> {"idle", "lock", "asleep", "read", "use", "write", "unref",
                       "flush_lock", "flush_asleep", "flush_write", "flush_next"}]
  /\ buf \in [Procs -> Bufs \cup {None}]
  /\ want \in [Procs -> Blocks \cup {None}]
  /\ panicked \in BOOLEAN

(* binit: every buffer goes to the front of the list.                       *)
Init ==
  /\ lru = [i \in Bufs |-> NBUF + 1 - i]
  /\ blockno = [b \in Bufs |-> None]
  /\ valid = [b \in Bufs |-> FALSE]
  /\ refcnt = [b \in Bufs |-> 0]
  /\ data \in {[b \in Bufs |-> v] : v \in Vals}
  /\ locked = [b \in Bufs |-> None]
  /\ disk \in [Blocks -> Vals]
  /\ pinned = {}
  /\ pc = [p \in Procs |-> "idle"]
  /\ buf = [p \in Procs |-> None]
  /\ want = [p \in Procs |-> None]
  /\ panicked = FALSE

Goto(p, l) == pc' = [pc EXCEPT ![p] = l]

-----------------------------------------------------------------------------
(* Fault: a buffer that is still being read is not found.                   *)
Cached_OnlyValid(k) == {b \in Bufs : blockno[b] = k /\ valid[b]}

(* bget, first critical section: a hit takes a reference, a miss recycles   *)
(* the least recently used buffer without one, or panics.                   *)
Cached(k) == {b \in Bufs : blockno[b] = k}
Reusable == {i \in Bufs : refcnt[lru[i]] = 0}
Victim == lru[CHOOSE i \in Reusable : \A j \in Reusable : j <= i]

BgetHit(p, k) ==
  \E b \in Cached(k) :
    /\ refcnt' = [refcnt EXCEPT ![b] = @ + 1]
    /\ buf' = [buf EXCEPT ![p] = b]
    /\ UNCHANGED <<blockno, valid>>

(* Fault: a recycled buffer keeps its valid flag.                           *)
BgetMiss_KeepsValid(p, k) ==
  /\ Cached(k) = {} /\ Reusable # {}
  /\ blockno' = [blockno EXCEPT ![Victim] = k]
  /\ refcnt' = [refcnt EXCEPT ![Victim] = 1]
  /\ buf' = [buf EXCEPT ![p] = Victim]
  /\ UNCHANGED valid

BgetMiss(p, k) ==
  /\ Cached(k) = {} /\ Reusable # {}
  /\ blockno' = [blockno EXCEPT ![Victim] = k]
  /\ valid' = [valid EXCEPT ![Victim] = FALSE]
  /\ refcnt' = [refcnt EXCEPT ![Victim] = 1]
  /\ buf' = [buf EXCEPT ![p] = Victim]

Bget(p, k) ==
  /\ pc[p] = "idle"
  /\ BgetHit(p, k) \/ BgetMiss(p, k)
  /\ want' = [want EXCEPT ![p] = k]
  /\ Goto(p, "lock")
  /\ UNCHANGED <<lru, data, locked, disk, pinned, panicked>>

BgetPanic(p, k) ==
  /\ pc[p] = "idle" /\ Cached(k) = {} /\ Reusable = {}
  /\ panicked' = TRUE
  /\ UNCHANGED <<cache, disk, pinned, pc, buf, want>>

(* acquiresleep: test and sleep are one critical section of lk->lk.         *)
AcquireSleep(p, asleep, owned) ==
  IF locked[buf[p]] # None
  THEN Goto(p, asleep) /\ UNCHANGED locked
  ELSE locked' = [locked EXCEPT ![buf[p]] = p] /\ Goto(p, owned)

(* wakeup(lk), to be conjoined with a step of p to l.                       *)
Wake(p, l) ==
  pc' = [q \in Procs |->
           IF q = p THEN l
           ELSE IF buf[q] # buf[p] THEN pc[q]
           ELSE IF pc[q] = "asleep" THEN "lock"
           ELSE IF pc[q] = "flush_asleep" THEN "flush_lock" ELSE pc[q]]

(* Fault: releasesleep does not call wakeup.                                *)
ReleaseSleep_NoWakeup(p, l) ==
  /\ locked' = [locked EXCEPT ![buf[p]] = None]
  /\ Goto(p, l)

ReleaseSleep(p, l) ==
  /\ locked' = [locked EXCEPT ![buf[p]] = None]
  /\ Wake(p, l)

(* bget returns the locked buffer, bread tests b->valid.                    *)
BgetLock(p) ==
  /\ pc[p] = "lock"
  /\ AcquireSleep(p, "asleep", IF valid[buf[p]] THEN "use" ELSE "read")
  /\ UNCHANGED <<lru, blockno, valid, refcnt, data, disk, pinned, buf, want, panicked>>

BreadDone(p) ==
  LET b == buf[p] IN
  /\ pc[p] = "read"
  /\ data' = [data EXCEPT ![b] = disk[blockno[b]]]
  /\ valid' = [valid EXCEPT ![b] = TRUE]
  /\ Goto(p, "use")
  /\ UNCHANGED <<lru, blockno, refcnt, locked, disk, pinned, buf, want, panicked>>

-----------------------------------------------------------------------------
(* The callers store into b->data. bpin and bunpin are called by the log,   *)
(* which pins a block once and holds its buffer when it does (log_write,    *)
(* install_trans). Nothing makes a caller write or pin what it stored.      *)
-----------------------------------------------------------------------------
Modify(p, v) ==
  /\ pc[p] = "use"
  /\ data' = [data EXCEPT ![buf[p]] = v]
  /\ UNCHANGED <<lru, blockno, valid, refcnt, locked, disk, pinned, pc, buf, want, panicked>>

Bwrite(p) ==
  /\ pc[p] = "use"
  /\ Goto(p, "write")
  /\ UNCHANGED <<cache, disk, pinned, buf, want, panicked>>

BwriteDone(p) ==
  /\ pc[p] = "write"
  /\ disk' = [disk EXCEPT ![blockno[buf[p]]] = data[buf[p]]]
  /\ Goto(p, "use")
  /\ UNCHANGED <<cache, pinned, buf, want, panicked>>

Bpin(p) ==
  /\ pc[p] = "use" /\ want[p] \notin pinned /\ Cardinality(pinned) < PinLimit
  /\ refcnt' = [refcnt EXCEPT ![buf[p]] = @ + 1]
  /\ pinned' = pinned \cup {want[p]}
  /\ UNCHANGED <<lru, blockno, valid, data, locked, disk, pc, buf, want, panicked>>

(* Fault: bunpin keeps the reference.                                       *)
Bunpin_KeepsRef(p) ==
  /\ pc[p] = "use" /\ want[p] \in pinned
  /\ pinned' = pinned \ {want[p]}
  /\ UNCHANGED <<cache, disk, pc, buf, want, panicked>>

Bunpin(p) ==
  /\ pc[p] = "use" /\ want[p] \in pinned
  /\ refcnt' = [refcnt EXCEPT ![buf[p]] = @ - 1]
  /\ pinned' = pinned \ {want[p]}
  /\ UNCHANGED <<lru, blockno, valid, data, locked, disk, pc, buf, want, panicked>>

Brelse(p) ==
  /\ pc[p] = "use"
  /\ ReleaseSleep(p, "unref")
  /\ UNCHANGED <<lru, blockno, valid, refcnt, data, disk, pinned, buf, want, panicked>>

Position(b) == CHOOSE i \in Bufs : lru[i] = b

(* brelse moves a buffer nobody uses any more to the head of the list.      *)
MoveToFront(b) ==
  [i \in Bufs |-> IF i = 1 THEN b ELSE IF i <= Position(b) THEN lru[i - 1] ELSE lru[i]]

BrelseUnref(p) ==
  LET b == buf[p] IN
  /\ pc[p] = "unref"
  /\ refcnt' = [refcnt EXCEPT ![b] = @ - 1]
  /\ lru' = IF refcnt[b] = 1 THEN MoveToFront(b) ELSE lru
  /\ buf' = [buf EXCEPT ![p] = None]
  /\ want' = [want EXCEPT ![p] = None]
  /\ Goto(p, "idle")
  /\ UNCHANGED <<blockno, valid, data, locked, disk, pinned, panicked>>

-----------------------------------------------------------------------------
(* flush_all_blocks: the search for the next valid buffer goes on from the  *)
(* place b has in the list now. p holds a reference to b in between.        *)
-----------------------------------------------------------------------------
ValidFrom(i) == {j \in i..NBUF : valid[lru[j]]}

(* drop: the reference to the buffer just written; at: where to go on.      *)
FlushTo(p, at, drop) ==
  IF ValidFrom(at) = {}
  THEN /\ refcnt' = [b \in Bufs |-> IF b \in drop THEN refcnt[b] - 1 ELSE refcnt[b]]
       /\ buf' = [buf EXCEPT ![p] = None]
       /\ want' = [want EXCEPT ![p] = None]
       /\ Goto(p, "idle")
  ELSE LET n == lru[CHOOSE i \in ValidFrom(at) : \A j \in ValidFrom(at) : i <= j] IN
       /\ refcnt' = [b \in Bufs |-> refcnt[b] + (IF b = n THEN 1 ELSE 0)
                                              - (IF b \in drop THEN 1 ELSE 0)]
       /\ buf' = [buf EXCEPT ![p] = n]
       /\ want' = [want EXCEPT ![p] = blockno[n]]
       /\ Goto(p, "flush_lock")

Flush(p) ==
  /\ pc[p] = "idle"
  /\ FlushTo(p, 1, {})
  /\ UNCHANGED <<lru, blockno, valid, data, locked, disk, pinned, panicked>>

FlushLock(p) ==
  /\ pc[p] = "flush_lock"
  /\ AcquireSleep(p, "flush_asleep", "flush_write")
  /\ UNCHANGED <<lru, blockno, valid, refcnt, data, disk, pinned, buf, want, panicked>>

FlushWrite(p) ==
  LET b == buf[p] IN
  /\ pc[p] = "flush_write"
  /\ disk' = [disk EXCEPT ![blockno[b]] = data[b]]
  /\ ReleaseSleep(p, "flush_next")
  /\ UNCHANGED <<lru, blockno, valid, refcnt, data, pinned, buf, want, panicked>>

FlushNext(p) ==
  /\ pc[p] = "flush_next"
  /\ FlushTo(p, Position(buf[p]) + 1, {buf[p]})
  /\ UNCHANGED <<lru, blockno, valid, data, locked, disk, pinned, panicked>>

Step(p) ==
  \/ \E k \in Blocks : Bget(p, k) \/ BgetPanic(p, k)
  \/ BgetLock(p) \/ BreadDone(p)
  \/ \E v \in Vals : Modify(p, v)
  \/ Bwrite(p) \/ BwriteDone(p) \/ Bpin(p) \/ Bunpin(p) \/ Brelse(p) \/ BrelseUnref(p)
  \/ Flush(p) \/ FlushLock(p) \/ FlushWrite(p) \/ FlushNext(p)

Next == ~panicked /\ \E p \in Procs : Step(p)

Spec == Init /\ [][Next]_vars

-----------------------------------------------------------------------------
(* A block has at most one buffer, else two processes would change          *)
(* different copies of it.                                                  *)
OneBuffer == \A b, c \in Bufs : blockno[b] = blockno[c] /\ b # c => blockno[b] = None

(* bget drops bcache.lock before it sleeps for the buffer: whoever has a    *)
(* reference, asleep or not, finds in the buffer the block it asked for,    *)
(* and this is the only buffer of the block.                                *)
SameBlock ==
  /\ TypeOK /\ OneBuffer
  /\ \A p \in Procs : buf[p] # None => blockno[buf[p]] = want[p]

(* The reference count is the number of processes between bget and brelse,  *)
(* or in flush_all_blocks, that use the buffer, plus one for a pin.         *)
RefcntExact ==
  \A b \in Bufs :
    refcnt[b] = Cardinality({p \in Procs : buf[p] = b})
                + (IF blockno[b] \in pinned THEN 1 ELSE 0)

(* A process sleeps for a buffer only while another holds its lock: the     *)
(* wakeup of releasesleep is not lost.                                      *)
SleepersMustWait ==
  \A p \in Procs : pc[p] \in {"asleep", "flush_asleep"} => locked[buf[p]] # None

(* bio.c:7-14 and 72-85. Together the buffers and the disk are a store with *)
(* one current content per block and one user at a time: recycling a buffer *)
(* never brings back an old content of a block that was written or is       *)
(* pinned, and never touches one that somebody uses.                        *)
content == [k \in Blocks |->
              IF \E b \in Bufs : blockno[b] = k /\ valid[b]
              THEN data[CHOOSE b \in Bufs : blockno[b] = k /\ valid[b]] ELSE disk[k]]
user == [k \in Blocks |->
           IF \E p \in Procs : pc[p] \in {"use", "write"} /\ want[p] = k
           THEN CHOOSE p \in Procs : pc[p] \in {"use", "write"} /\ want[p] = k ELSE None]
BC == INSTANCE BlockCache
ImplementsBlockCache == BC!Spec
=============================================================================
