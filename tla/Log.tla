-------------------------------- MODULE Log ---------------------------------
(***************************************************************************)
(* The redo log of kernel/fs/log.c together with what it needs of the      *)
(* buffer cache (kernel/fs/bio.c) and of the disk: concurrent FS           *)
(* operations, group commit, power failures at every instant (also during  *)
(* recovery), and the recovery that initlog runs at boot.                  *)
(*                                                                         *)
(* One action is one critical section of logbuf.lock or one disk write.    *)
(* bread returns the cached buffer when there is one; an unreferenced      *)
(* buffer may be recycled at any time (Evict), so a modified block lives   *)
(* until its commit only because log_write pins it.                        *)
(***************************************************************************)
EXTENDS Naturals, Sequences, FiniteSets

CONSTANTS
  Procs,        \* processes making FS system calls
  Blocks,       \* home blocks of the file system
  Vals,         \* block contents
  LOGBLOCKS,    \* capacity of the log, kernel/include/param.h:10
  MAXOPBLOCKS,  \* distinct blocks one FS operation may write, param.h:9
  Torn,         \* contents of a block whose two-sector write was cut short
  None          \* no buffer, no cached contents

ASSUME LogConstants ==
  /\ IsFiniteSet(Procs)
  /\ MAXOPBLOCKS \in Nat \ {0}
  /\ LOGBLOCKS \in Nat
  /\ MAXOPBLOCKS <= LOGBLOCKS
  /\ Torn \notin Vals
  /\ None \notin Vals \cup {Torn}
  /\ None \notin Blocks

VARIABLES
  home,         \* disk: contents of the home blocks
  hdr,          \* disk: the log header, as the sequence block[0..n-1]
  slot,         \* disk: contents of the log's data blocks
  cache,        \* contents of the cached buffer of a block, or None
  pin,          \* references log_write holds on a buffer
  lh,           \* logbuf.lh
  outstanding,  \* logbuf.outstanding
  committing,   \* logbuf.committing
  boot,         \* what the machine is doing
  pc,           \* where each process is in begin_op/end_op/commit
  buf,          \* the buffer whose sleep-lock a process holds
  wrote,        \* blocks the current operation of a process has logged
  tail          \* the loop index of write_log and install_trans

disk == <<home, hdr, slot>>
vars == <<home, hdr, slot, cache, pin, lh, outstanding, committing,
          boot, pc, buf, wrote, tail>>

BlocksIn(s) == {s[i] : i \in 1..Len(s)}

PCs == {"idle", "asleep", "woken", "op", "buf",
        "commit", "write_log", "write_head", "install", "clear", "committed"}

TypeOK ==
  /\ home \in [Blocks -> Vals \cup {Torn}]
  /\ hdr \in Seq(Blocks)
  /\ slot \in [1..LOGBLOCKS -> Vals \cup {Torn}]
  /\ cache \in [Blocks -> Vals \cup {None}]
  /\ pin \in [Blocks -> Nat]
  /\ lh \in Seq(Blocks)
  /\ outstanding \in Nat
  /\ committing \in BOOLEAN
  /\ boot \in {"read_head", "install", "clear", "up", "panic"}
  /\ pc \in [Procs -> PCs]
  /\ buf \in [Procs -> Blocks \cup {None}]
  /\ wrote \in [Procs -> SUBSET Blocks]
  /\ tail \in 1..(LOGBLOCKS + 1)

(* A machine at its first power-on: memory is empty, the disk was made by   *)
(* mkfs and carries an empty log whose data blocks hold anything.           *)
Init ==
  /\ home \in [Blocks -> Vals]
  /\ hdr = <<>>
  /\ slot = [i \in 1..LOGBLOCKS |-> Torn]
  /\ cache = [b \in Blocks |-> None]
  /\ pin = [b \in Blocks |-> 0]
  /\ lh = <<>>
  /\ outstanding = 0
  /\ committing = FALSE
  /\ boot = "read_head"
  /\ pc = [p \in Procs |-> "idle"]
  /\ buf = [p \in Procs |-> None]
  /\ wrote = [p \in Procs |-> {}]
  /\ tail = 1

-----------------------------------------------------------------------------
(* The buffer cache, as the log uses it.                                    *)

Locked(b) == \E p \in Procs : buf[p] = b

Contents(b) == IF cache[b] = None THEN home[b] ELSE cache[b]

(* bread by an operation: the buffer comes back locked and filled.          *)
Bread(p, b) ==
  /\ boot = "up"
  /\ pc[p] = "op"
  /\ ~ Locked(b)
  /\ cache' = [cache EXCEPT ![b] = Contents(b)]
  /\ buf' = [buf EXCEPT ![p] = b]
  /\ pc' = [pc EXCEPT ![p] = "buf"]
  /\ UNCHANGED <<disk, pin, lh, outstanding, committing, boot, wrote, tail>>

Brelse(p) ==
  /\ boot = "up"
  /\ pc[p] = "buf"
  /\ buf' = [buf EXCEPT ![p] = None]
  /\ pc' = [pc EXCEPT ![p] = "op"]
  /\ UNCHANGED <<disk, cache, pin, lh, outstanding, committing, boot, wrote, tail>>

(* bread and brelse by a reader outside any transaction (fileread).         *)
ReadFill(b) ==
  /\ boot = "up"
  /\ cache[b] = None
  /\ cache' = [cache EXCEPT ![b] = home[b]]
  /\ UNCHANGED <<disk, pin, lh, outstanding, committing, boot, pc, buf, wrote, tail>>

(* bget takes an unreferenced buffer for another block.                     *)
Evict(b) ==
  /\ boot = "up"
  /\ cache[b] # None
  /\ pin[b] = 0
  /\ ~ Locked(b)
  /\ cache' = [cache EXCEPT ![b] = None]
  /\ UNCHANGED <<disk, pin, lh, outstanding, committing, boot, pc, buf, wrote, tail>>

-----------------------------------------------------------------------------
(* Transactions.                                                            *)

(* wakeup(&logbuf), applied to the program counters.                        *)
Wakeup(f) == [q \in Procs |-> IF f[q] = "asleep" THEN "woken" ELSE f[q]]

(* Fault: the operation that asks is not counted.                           *)
MustWaitShort ==
  \/ committing
  \/ Len(lh) + outstanding * MAXOPBLOCKS > LOGBLOCKS

MustWait ==
  \/ committing
  \/ Len(lh) + (outstanding + 1) * MAXOPBLOCKS > LOGBLOCKS

BeginOp(p) ==
  /\ boot = "up"
  /\ pc[p] \in {"idle", "woken"}
  /\ \/ /\ MustWait
        /\ pc' = [pc EXCEPT ![p] = "asleep"]
        /\ UNCHANGED <<outstanding, wrote>>
     \/ /\ ~ MustWait
        /\ outstanding' = outstanding + 1
        /\ wrote' = [wrote EXCEPT ![p] = {}]
        /\ pc' = [pc EXCEPT ![p] = "op"]
  /\ UNCHANGED <<disk, cache, pin, lh, committing, boot, buf, tail>>

Panic ==
  /\ boot' = "panic"
  /\ UNCHANGED <<disk, cache, pin, lh, outstanding, committing, pc, buf, wrote, tail>>

(* The holder of a buffer stores v in it and calls log_write. An operation  *)
(* keeps to its budget of MAXOPBLOCKS distinct blocks. The capacity test    *)
(* comes before the search for the block, so it also refuses a block that   *)
(* would have been absorbed.                                                *)
LogWrite(p, v) ==
  LET b == buf[p] IN
  /\ boot = "up"
  /\ pc[p] = "buf"
  /\ Cardinality(wrote[p] \cup {b}) <= MAXOPBLOCKS
  /\ \/ /\ Len(lh) >= LOGBLOCKS \/ outstanding < 1
        /\ Panic
     \/ /\ Len(lh) < LOGBLOCKS /\ outstanding >= 1
        /\ cache' = [cache EXCEPT ![b] = v]
        /\ wrote' = [wrote EXCEPT ![p] = @ \cup {b}]
        /\ IF b \in BlocksIn(lh)
             THEN UNCHANGED <<lh, pin>>
             ELSE /\ lh' = Append(lh, b)
                  /\ pin' = [pin EXCEPT ![b] = @ + 1]
        /\ UNCHANGED <<disk, outstanding, committing, boot, pc, buf, tail>>

(* Fault: end_op wakes nobody when other operations are in progress.        *)
EndOp_NoWakeup(p) ==
  /\ boot = "up"
  /\ pc[p] = "op"
  /\ outstanding' = outstanding - 1
  /\ boot' = IF committing THEN "panic" ELSE boot
  /\ committing' = (committing \/ outstanding = 1)
  /\ pc' = [pc EXCEPT ![p] = IF outstanding = 1 THEN "commit" ELSE "idle"]
  /\ wrote' = [wrote EXCEPT ![p] = {}]
  /\ UNCHANGED <<disk, cache, pin, lh, buf, tail>>

EndOp(p) ==
  /\ boot = "up"
  /\ pc[p] = "op"
  /\ outstanding' = outstanding - 1
  /\ boot' = IF committing THEN "panic" ELSE boot
  /\ IF outstanding = 1
       THEN /\ committing' = TRUE
            /\ pc' = [pc EXCEPT ![p] = "commit"]
       ELSE /\ pc' = Wakeup([pc EXCEPT ![p] = "idle"])
            /\ UNCHANGED committing
  /\ wrote' = [wrote EXCEPT ![p] = {}]
  /\ UNCHANGED <<disk, cache, pin, lh, buf, tail>>

-----------------------------------------------------------------------------
(* commit, one disk write per step.                                         *)

(* Fault: a transaction of one block is not committed.                      *)
HasUpdatesOffByOne == Len(lh) > 1

HasUpdates == Len(lh) > 0

(* Fault: the header is written before the log blocks.                      *)
CommitHeadFirst(p) ==
  /\ boot = "up"
  /\ pc[p] = "commit"
  /\ pc' = [pc EXCEPT ![p] = IF HasUpdates THEN "write_head" ELSE "committed"]
  /\ tail' = 1
  /\ UNCHANGED <<disk, cache, pin, lh, outstanding, committing, boot, buf, wrote>>

Commit(p) ==
  /\ boot = "up"
  /\ pc[p] = "commit"
  /\ pc' = [pc EXCEPT ![p] = IF HasUpdates THEN "write_log" ELSE "committed"]
  /\ tail' = 1
  /\ UNCHANGED <<disk, cache, pin, lh, outstanding, committing, boot, buf, wrote>>

Advance(p, here, next) ==
  /\ tail' = IF tail = Len(lh) THEN 1 ELSE tail + 1
  /\ pc' = [pc EXCEPT ![p] = IF tail = Len(lh) THEN next ELSE here]

WriteLog(p) ==
  LET b == lh[tail] IN
  /\ boot = "up"
  /\ pc[p] = "write_log"
  /\ ~ Locked(b)
  /\ cache' = [cache EXCEPT ![b] = Contents(b)]
  /\ slot' = [slot EXCEPT ![tail] = Contents(b)]
  /\ Advance(p, "write_log", "write_head")
  /\ UNCHANGED <<home, hdr, pin, lh, outstanding, committing, boot, buf, wrote>>

WriteHead(p) ==
  /\ boot = "up"
  /\ pc[p] = "write_head"
  /\ hdr' = lh
  /\ pc' = [pc EXCEPT ![p] = "install"]
  /\ UNCHANGED <<home, slot, cache, pin, lh, outstanding, committing, boot, buf, wrote, tail>>

(* One iteration of install_trans: log block to cached home block to disk.  *)
InstallTrans(b) ==
  /\ home' = [home EXCEPT ![b] = slot[tail]]
  /\ cache' = [cache EXCEPT ![b] = slot[tail]]

(* Fault: install_trans(1) after a commit, the buffers stay pinned.         *)
BunpinMissing(b) == UNCHANGED pin

Bunpin(b) == pin' = [pin EXCEPT ![b] = @ - 1]

Install(p) ==
  LET b == lh[tail] IN
  /\ boot = "up"
  /\ pc[p] = "install"
  /\ ~ Locked(b)
  /\ InstallTrans(b)
  /\ Bunpin(b)
  /\ Advance(p, "install", "clear")
  /\ UNCHANGED <<hdr, slot, lh, outstanding, committing, boot, buf, wrote>>

(* logbuf.lh.n = 0; write_head().                                           *)
ClearHead ==
  /\ lh' = <<>>
  /\ hdr' = <<>>

Erase(p) ==
  /\ boot = "up"
  /\ pc[p] = "clear"
  /\ ClearHead
  /\ pc' = [pc EXCEPT ![p] = "committed"]
  /\ UNCHANGED <<home, slot, cache, pin, outstanding, committing, boot, buf, wrote, tail>>

Committed(p) ==
  /\ boot = "up"
  /\ pc[p] = "committed"
  /\ committing' = FALSE
  /\ pc' = Wakeup([pc EXCEPT ![p] = "idle"])
  /\ UNCHANGED <<disk, cache, pin, lh, outstanding, boot, buf, wrote, tail>>

-----------------------------------------------------------------------------
(* Power failure and recovery.                                              *)

(* The block write that is in flight, if any, may be cut between its two    *)
(* sectors. The header fits in one sector and is written whole or not.      *)
Crash ==
  /\ \/ UNCHANGED <<home, slot>>
     \/ /\ boot = "install" \/ \E p \in Procs : boot = "up" /\ pc[p] = "install"
        /\ home' = [home EXCEPT ![lh[tail]] = Torn]
        /\ UNCHANGED slot
     \/ /\ boot = "up" /\ \E p \in Procs : pc[p] = "write_log"
        /\ slot' = [slot EXCEPT ![tail] = Torn]
        /\ UNCHANGED home
  /\ cache' = [b \in Blocks |-> None]
  /\ pin' = [b \in Blocks |-> 0]
  /\ lh' = <<>>
  /\ outstanding' = 0
  /\ committing' = FALSE
  /\ boot' = "read_head"
  /\ pc' = [p \in Procs |-> "idle"]
  /\ buf' = [p \in Procs |-> None]
  /\ wrote' = [p \in Procs |-> {}]
  /\ tail' = 1
  /\ UNCHANGED hdr

(* read_head: the header on disk decides what recovery does.                *)
ReadHead ==
  /\ boot = "read_head"
  /\ lh' = hdr
  /\ boot' = IF hdr = <<>> THEN "clear" ELSE "install"
  /\ tail' = 1
  /\ UNCHANGED <<disk, cache, pin, outstanding, committing, pc, buf, wrote>>

RecoverInstall ==
  /\ boot = "install"
  /\ InstallTrans(lh[tail])
  /\ tail' = IF tail = Len(lh) THEN 1 ELSE tail + 1
  /\ boot' = IF tail = Len(lh) THEN "clear" ELSE "install"
  /\ UNCHANGED <<hdr, slot, pin, lh, outstanding, committing, pc, buf, wrote>>

RecoverClear ==
  /\ boot = "clear"
  /\ ClearHead
  /\ boot' = "up"
  /\ UNCHANGED <<home, slot, cache, pin, outstanding, committing, pc, buf, wrote, tail>>

Step(p) ==
  \/ BeginOp(p)
  \/ \E b \in Blocks : Bread(p, b)
  \/ Brelse(p)
  \/ \E v \in Vals : LogWrite(p, v)
  \/ EndOp(p)
  \/ Commit(p)
  \/ WriteLog(p)
  \/ WriteHead(p)
  \/ Install(p)
  \/ Erase(p)
  \/ Committed(p)

Next ==
  \/ \E p \in Procs : Step(p)
  \/ \E b \in Blocks : ReadFill(b) \/ Evict(b)
  \/ Crash
  \/ ReadHead
  \/ RecoverInstall
  \/ RecoverClear

Spec == Init /\ [][Next]_vars

(* Every step of a process is taken as long as it can be: scheduler() scans *)
(* the whole process table. A system call releases the buffers it takes and *)
(* does not stay in its transaction for ever.                               *)
FairSpec ==
  /\ Spec
  /\ \A p \in Procs : WF_vars(Step(p)) /\ WF_vars(Brelse(p)) /\ SF_vars(EndOp(p))
  /\ WF_vars(ReadHead \/ RecoverInstall \/ RecoverClear)

-----------------------------------------------------------------------------
(* Properties.                                                              *)

InOp(p) == pc[p] \in {"op", "buf"}

Active == {p \in Procs : boot = "up" /\ InOp(p)}

(* What a crash now would leave on disk once recovery has run.              *)
Durable ==
  [b \in Blocks |-> IF b \in BlocksIn(hdr)
                      THEN slot[CHOOSE i \in 1..Len(hdr) : hdr[i] = b]
                      ELSE home[b]]

(* What FS operations read; nobody reads before recovery is over.           *)
View == IF boot = "up" THEN [b \in Blocks |-> Contents(b)] ELSE Durable

Atomic == INSTANCE AtomicDisk WITH
            view <- View, durable <- Durable, active <- Active

(* log.c:9-15 and 94-96. The log implements an atomic disk: what survives a *)
(* crash changes in a single step (write_head), to the contents all         *)
(* finished operations have produced, and only while none is in progress;   *)
(* a torn write, a crash in the middle of install_trans or a crash of the   *)
(* recovery itself never shows.                                             *)
AtomicSpec == Atomic!Spec

(* log.c:138-165. Once no operation is in progress and no commit is running *)
(* there is nothing left to lose: all that operations wrote is durable.     *)
QuiescentDurable ==
  boot = "up" /\ outstanding = 0 /\ ~ committing => View = Durable

(* Index of the first block of the log that is not installed yet.           *)
FirstUninstalled ==
  IF \E p \in Procs : pc[p] = "install" THEN tail
  ELSE IF \E p \in Procs : pc[p] = "clear" THEN Len(lh) + 1
  ELSE 1

(* log.c:216-219 against 75-76. A buffer carries the pin of log_write from  *)
(* the moment its block enters the log until it has been installed, exactly *)
(* one however often the block is absorbed, and none afterwards.            *)
PinnedUntilInstalled ==
  boot = "up" =>
    \A b \in Blocks :
      pin[b] = IF \E i \in FirstUninstalled..Len(lh) : lh[i] = b THEN 1 ELSE 0

(* Log slots begin_op has promised to operations that have not used them.   *)
Reserved ==
  {t \in Procs \X (1..MAXOPBLOCKS) :
     InOp(t[1]) /\ Cardinality(wrote[t[1]]) < t[2]}

(* log.c:123-126. The blocks in the log and the blocks that running         *)
(* operations may still add fit in the log together, with absorption,       *)
(* operations that overlap and operations that start while others run.      *)
ReservationHolds == Len(lh) + Cardinality(Reserved) <= LOGBLOCKS

(* log.c:21, 149-152 and 162. A process asleep in begin_op is woken: by the *)
(* commit it waits for, or, since others may overlap their operations for   *)
(* ever so that no commit happens, by an end_op that gives its reservation  *)
(* back; unless the kernel has panicked.                                    *)
SleeperWoken ==
  \A p \in Procs : pc[p] = "asleep" ~> pc[p] # "asleep" \/ boot = "panic"
=============================================================================
