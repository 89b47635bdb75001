------------------------------ MODULE LogProofs -----------------------------
(***************************************************************************)
(* Machine-checked proofs about Log, for any number of processes and       *)
(* blocks, any log capacity and any operation budget.                      *)
(***************************************************************************)
EXTENDS Log, FiniteSetTheorems, TLAPS

CommitPCs == {"commit", "write_log", "write_head", "install", "clear", "committed"}

(* Commits exclude operations and each other, and the loop index of a       *)
(* commit or of a recovery points into the log.                             *)
IControl ==
  /\ \A p \in Procs : pc[p] \in CommitPCs => committing
  /\ \A p, q \in Procs : pc[p] \in CommitPCs /\ pc[q] \in CommitPCs => p = q
  /\ \A p \in Procs : InOp(p) => ~ committing
  /\ \A p \in Procs : pc[p] = "buf" => buf[p] \in Blocks
  /\ boot \notin {"up", "panic"} => \A p \in Procs : pc[p] = "idle"
  /\ \A p \in Procs : pc[p] \in {"write_log", "write_head", "install"} =>
                        tail \in 1..Len(lh)
  /\ \A p \in Procs : pc[p] = "write_head" => tail = 1
  /\ boot = "install" => tail \in 1..Len(lh)

(* The log header on disk is empty except between the two write_head calls  *)
(* of a commit and until recovery has erased it; its log blocks are intact. *)
IDisk ==
  /\ \A i \in 1..Len(hdr) : slot[i] \in Vals
  /\ boot \in {"install", "clear"} => hdr = lh
  /\ \A p \in Procs : pc[p] \in {"install", "clear"} => hdr = lh
  /\ boot = "up" =>
       hdr = <<>> \/ \E p \in Procs : pc[p] \in {"install", "clear"}
  /\ \A p \in Procs : pc[p] = "write_log" =>
       \A i \in 1..(tail - 1) : slot[i] \in Vals
  /\ \A p \in Procs : pc[p] = "write_head" =>
       \A i \in 1..Len(lh) : slot[i] \in Vals

(* A torn home block is one the header on disk still covers.                *)
ITorn ==
  \A b \in Blocks : home[b] = Torn =>
    \/ boot = "read_head" /\ b \in BlocksIn(hdr)
    \/ boot = "install" /\ \E i \in tail..Len(lh) : lh[i] = b

Distinct(s) == \A i, j \in 1..Len(s) : s[i] = s[j] => i = j

(* A block is logged once, and pinned until it is installed.                *)
IPin ==
  /\ Distinct(lh) /\ Distinct(hdr)
  /\ PinnedUntilInstalled
  /\ boot \notin {"up", "panic"} => pin = [b \in Blocks |-> 0]

Ops == {p \in Procs : InOp(p)}

(* The log slots operations have used and may still use.                    *)
IBudget ==
  /\ outstanding = Cardinality(Ops)
  /\ Len(hdr) <= LOGBLOCKS
  /\ \A p \in Procs : InOp(p) =>
       /\ IsFiniteSet(wrote[p])
       /\ wrote[p] \subseteq BlocksIn(lh)
       /\ Cardinality(wrote[p]) <= MAXOPBLOCKS
  /\ ReservationHolds

IInv == TypeOK /\ IControl /\ IDisk /\ ITorn /\ IPin /\ IBudget

-----------------------------------------------------------------------------

(* outstanding = 1 tells end_op that no other operation is in progress.     *)
LEMMA LastOp ==
  ASSUME IInv, outstanding = 1, NEW p \in Procs, InOp(p)
  PROVE  \A q \in Procs : InOp(q) => q = p
<1>1. IsFiniteSet(Ops)
  BY LogConstants, FS_Subset, Zenon DEF Ops
<1>2. Cardinality(Ops) = 1
  BY Zenon DEF IInv, IBudget
<1>3. PICK x : Ops = {x}
  BY <1>1, <1>2, FS_Singleton, Zenon
<1>4. QED
  BY <1>3 DEF Ops

(* outstanding counts every operation in progress, so end_op does not       *)
(* underflow it.                                                            *)
LEMMA OpCounted ==
  ASSUME IInv, NEW p \in Procs, InOp(p)
  PROVE  outstanding >= 1
<1>1. IsFiniteSet(Ops) /\ p \in Ops
  BY LogConstants, FS_Subset, Zenon DEF Ops
<1>2. Cardinality(Ops) # 0
  BY <1>1, FS_EmptySet, Zenon
<1>3. QED
  BY <1>2 DEF IInv, IBudget, TypeOK

(* The log never holds more blocks than its disk area.                      *)
LEMMA LogFits ==
  ASSUME IInv
  PROVE  IsFiniteSet(Reserved) /\ Cardinality(Reserved) \in Nat /\ Len(lh) <= LOGBLOCKS
<1>1. IsFiniteSet(Procs \X (1..MAXOPBLOCKS))
  <2>1. IsFiniteSet(1..MAXOPBLOCKS)
    BY LogConstants, FS_Interval
  <2>2. QED
    BY <2>1, LogConstants, FS_Product, Zenon
<1>2. IsFiniteSet(Reserved)
  BY <1>1, FS_Subset, Zenon DEF Reserved
<1>3. Cardinality(Reserved) \in Nat
  BY <1>2, FS_CardinalityType, Zenon
<1>4. QED
  BY <1>2, <1>3, LogConstants DEF IInv, IBudget, ReservationHolds, TypeOK

(* The loop index of write_log and install_trans is the index of a block of *)
(* the log and of its place on disk.                                        *)
LEMMA TailInLog ==
  ASSUME IInv, boot = "install" \/ \E p \in Procs : pc[p] \in {"write_log", "install"}
  PROVE  tail \in 1..LOGBLOCKS /\ tail \in 1..Len(lh) /\ lh[tail] \in Blocks
<1>1. tail \in 1..Len(lh)
  BY Zenon DEF IInv, IControl
<1>2. Len(lh) <= LOGBLOCKS
  BY LogFits, Zenon
<1>3. lh \in Seq(Blocks) /\ Len(lh) \in Nat
  BY DEF IInv, TypeOK
<1>4. tail \in 1..LOGBLOCKS
  BY ONLY <1>1, <1>2, <1>3, LogConstants
<1>5. lh[tail] \in Blocks
  BY ONLY <1>1, <1>3
<1>6. QED
  BY <1>1, <1>4, <1>5, Zenon

(* One more pass of such a loop keeps the index in range.                   *)
LEMMA TailAdvances ==
  ASSUME tail \in 1..LOGBLOCKS, tail' = IF tail = Len(lh) THEN 1 ELSE tail + 1
  PROVE  tail' \in 1..(LOGBLOCKS + 1)
BY ONLY tail \in 1..LOGBLOCKS, tail' = IF tail = Len(lh) THEN 1 ELSE tail + 1, LogConstants

(* Once recovery is over no home block and no buffer is torn.               *)
LEMMA NotTorn ==
  ASSUME IInv, boot = "up"
  PROVE  \A b \in Blocks : home[b] \in Vals /\ Contents(b) \in Vals
BY Zenon DEF IInv, ITorn, TypeOK, Contents

(* The control structure of begin_op, end_op and commit is preserved.       *)
LEMMA ControlStep == IInv /\ [Next]_vars => IControl'
<1> SUFFICES ASSUME IInv, [Next]_vars PROVE IControl'
  BY Zenon
<1> USE LogConstants DEF IInv, IControl, InOp, CommitPCs, disk, PCs, TypeOK
<1>1. ASSUME NEW p \in Procs, BeginOp(p) PROVE IControl'
  <2>1. MustWait \/ ~ committing
    BY Zenon DEF MustWait
  <2>2. CASE MustWait
    BY <1>1, <2>2 DEF BeginOp
  <2>3. CASE ~ MustWait
    BY <1>1, <2>1, <2>3 DEF BeginOp
  <2>4. QED
    BY <2>2, <2>3, Zenon
<1>2. ASSUME NEW p \in Procs, NEW b \in Blocks, Bread(p, b) PROVE IControl'
  BY <1>2 DEF Bread
<1>3. ASSUME NEW p \in Procs, Brelse(p) PROVE IControl'
  BY <1>3 DEF Brelse
<1>4. ASSUME NEW p \in Procs, NEW v \in Vals, LogWrite(p, v) PROVE IControl'
  BY <1>4 DEF LogWrite, Panic
<1>5. ASSUME NEW p \in Procs, EndOp(p) PROVE IControl'
  <2>1. InOp(p)
    BY <1>5, Zenon DEF EndOp
  <2>2. outstanding = 1 => \A q \in Procs : InOp(q) => q = p
    BY <2>1, LastOp, Zenon
  <2>3. CASE outstanding = 1
    BY <1>5, <2>1, <2>2, <2>3 DEF EndOp
  <2>4. CASE outstanding # 1
    <3>1. \A q \in Procs : pc'[q] = pc[q] \/ pc'[q] \in {"idle", "woken"}
      BY <1>5, <2>4 DEF EndOp, Wakeup
    <3>2. /\ ~ committing /\ ~ committing'
          /\ boot = "up" /\ boot' = boot
          /\ UNCHANGED <<buf, lh, tail>>
      BY <1>5, <2>1, <2>4, Zenon DEF EndOp
    <3>3. QED
      BY <3>1, <3>2, Zenon
  <2>5. QED
    BY <2>3, <2>4, Zenon
<1>6. ASSUME NEW p \in Procs, Commit(p) PROVE IControl'
  BY <1>6 DEF Commit, HasUpdates
<1>7. ASSUME NEW p \in Procs, WriteLog(p) PROVE IControl'
  BY <1>7 DEF WriteLog, Advance
<1>8. ASSUME NEW p \in Procs, WriteHead(p) PROVE IControl'
  BY <1>8 DEF WriteHead
<1>9. ASSUME NEW p \in Procs, Install(p) PROVE IControl'
  BY <1>9 DEF Install, Advance, InstallTrans
<1>10. ASSUME NEW p \in Procs, Erase(p) PROVE IControl'
  BY <1>10 DEF Erase, ClearHead
<1>11. ASSUME NEW p \in Procs, Committed(p) PROVE IControl'
  BY <1>11 DEF Committed, Wakeup
<1>12. ASSUME NEW b \in Blocks, ReadFill(b) \/ Evict(b) PROVE IControl'
  BY <1>12 DEF ReadFill, Evict
<1>13. CASE Crash
  BY <1>13, Zenon DEF Crash
<1>14. CASE ReadHead
  BY <1>14 DEF ReadHead
<1>15. CASE RecoverInstall
  BY <1>15 DEF RecoverInstall, InstallTrans
<1>16. CASE RecoverClear
  BY <1>16, Zenon DEF RecoverClear, ClearHead
<1>17. CASE UNCHANGED vars
  BY <1>17, Zenon DEF vars
<1>18. QED
  BY <1>1, <1>2, <1>3, <1>4, <1>5, <1>6, <1>7, <1>8, <1>9, <1>10, <1>11, <1>12, <1>13, <1>14,
     <1>15, <1>16, <1>17, Zenon DEF Next, Step

(* The header on disk covers intact log blocks and nothing else.             *)
LEMMA DiskStep == IInv /\ [Next]_vars => IDisk'
<1> SUFFICES ASSUME IInv, [Next]_vars PROVE IDisk'
  BY Zenon
<1> USE LogConstants DEF IInv, IDisk, IControl, CommitPCs, InOp, disk, PCs, TypeOK
<1>1. ASSUME NEW p \in Procs, BeginOp(p) PROVE IDisk'
  <2>1. \A q \in Procs : pc'[q] = pc[q] \/
          {pc[q], pc'[q]} \subseteq {"idle", "woken", "asleep", "op", "commit"}
    BY <1>1 DEF BeginOp
  <2>2. UNCHANGED <<hdr, slot, lh, tail>> /\ boot = "up" /\ boot' = "up"
    BY <1>1, Zenon DEF BeginOp
  <2>3. QED
    BY <2>1, <2>2, Zenon
<1>2. ASSUME NEW p \in Procs, NEW b \in Blocks, Bread(p, b) PROVE IDisk'
  BY <1>2 DEF Bread
<1>3. ASSUME NEW p \in Procs, Brelse(p) PROVE IDisk'
  BY <1>3, Zenon DEF Brelse
<1>4. ASSUME NEW p \in Procs, NEW v \in Vals, LogWrite(p, v) PROVE IDisk'
  BY <1>4, Zenon DEF LogWrite, Panic
<1>5. ASSUME NEW p \in Procs, EndOp(p) PROVE IDisk'
  <2>1. \A q \in Procs : pc'[q] = pc[q] \/
          {pc[q], pc'[q]} \subseteq {"idle", "woken", "asleep", "op", "commit"}
    BY <1>5 DEF EndOp, Wakeup
  <2>2. UNCHANGED <<hdr, slot, lh, tail>> /\ boot = "up" /\ boot' = "up"
    BY <1>5, Zenon DEF EndOp
  <2>3. QED
    BY <2>1, <2>2, Zenon
<1>6. ASSUME NEW p \in Procs, Commit(p) PROVE IDisk'
  BY <1>6 DEF Commit, HasUpdates
<1>7. ASSUME NEW p \in Procs, WriteLog(p) PROVE IDisk'
  <2>1. tail \in 1..LOGBLOCKS /\ lh[tail] \in Blocks
    BY <1>7, LogFits DEF WriteLog
  <2>2. slot' = [slot EXCEPT ![tail] = Contents(lh[tail])] /\ slot'[tail] \in Vals
    BY <1>7, <2>1, NotTorn, Zenon DEF WriteLog
  <2>3. hdr = <<>> /\ hdr' = <<>> /\ lh' = lh /\ boot = "up" /\ boot' = "up"
    BY <1>7, Zenon DEF WriteLog
  <2>4. /\ \A q \in Procs \ {p} : pc'[q] = pc[q] /\ pc[q] \notin CommitPCs
        /\ pc'[p] = IF tail = Len(lh) THEN "write_head" ELSE "write_log"
        /\ tail' = IF tail = Len(lh) THEN 1 ELSE tail + 1
    BY <1>7, Zenon DEF WriteLog, Advance
  <2>5. \A i \in 1..tail : slot'[i] \in Vals
    BY <1>7, <2>1, <2>2 DEF WriteLog
  <2>6. \A q \in Procs : pc'[q] = "write_log" =>
          \A i \in 1..(tail' - 1) : slot'[i] \in Vals
    BY <2>1, <2>4, <2>5
  <2>7. \A q \in Procs : pc'[q] = "write_head" =>
          \A i \in 1..Len(lh') : slot'[i] \in Vals
    BY <2>1, <2>3, <2>4, <2>5, Zenon
  <2>8. \A q \in Procs : pc'[q] \notin {"install", "clear"}
    BY <2>4, Zenon
  <2>9. QED
    BY <2>3, <2>6, <2>7, <2>8
<1>8. ASSUME NEW p \in Procs, WriteHead(p) PROVE IDisk'
  BY <1>8, Zenon DEF WriteHead
<1>9. ASSUME NEW p \in Procs, Install(p) PROVE IDisk'
  BY <1>9, Zenon DEF Install, Advance, InstallTrans, Bunpin
<1>10. ASSUME NEW p \in Procs, Erase(p) PROVE IDisk'
  BY <1>10 DEF Erase, ClearHead
<1>11. ASSUME NEW p \in Procs, Committed(p) PROVE IDisk'
  BY <1>11 DEF Committed, Wakeup
<1>12. ASSUME NEW b \in Blocks, ReadFill(b) \/ Evict(b) PROVE IDisk'
  BY <1>12, Zenon DEF ReadFill, Evict
<1>13. CASE Crash
  BY <1>13 DEF Crash
<1>14. CASE ReadHead
  BY <1>14, Zenon DEF ReadHead
<1>15. CASE RecoverInstall
  BY <1>15, Zenon DEF RecoverInstall, InstallTrans
<1>16. CASE RecoverClear
  BY <1>16 DEF RecoverClear, ClearHead
<1>17. CASE UNCHANGED vars
  BY <1>17, Zenon DEF vars
<1>18. QED
  BY <1>1, <1>2, <1>3, <1>4, <1>5, <1>6, <1>7, <1>8, <1>9, <1>10, <1>11, <1>12, <1>13, <1>14,
     <1>15, <1>16, <1>17, Zenon DEF Next, Step

(* A power failure tears only what recovery will write again.               *)
LEMMA TornStep == IInv /\ [Next]_vars => ITorn'
<1> SUFFICES ASSUME IInv, [Next]_vars PROVE ITorn'
  BY Zenon
<1> USE LogConstants DEF IInv, ITorn, IDisk, IControl, CommitPCs, InOp, disk, PCs, TypeOK, BlocksIn
<1>1. ASSUME NEW p \in Procs, BeginOp(p) PROVE ITorn'
  BY <1>1, Zenon DEF BeginOp
<1>2. ASSUME NEW p \in Procs, NEW b \in Blocks, Bread(p, b) PROVE ITorn'
  BY <1>2, Zenon DEF Bread
<1>3. ASSUME NEW p \in Procs, Brelse(p) PROVE ITorn'
  BY <1>3, Zenon DEF Brelse
<1>4. ASSUME NEW p \in Procs, NEW v \in Vals, LogWrite(p, v) PROVE ITorn'
  BY <1>4, Zenon DEF LogWrite, Panic
<1>5. ASSUME NEW p \in Procs, EndOp(p) PROVE ITorn'
  BY <1>5, Zenon DEF EndOp, Wakeup
<1>6. ASSUME NEW p \in Procs, Commit(p) PROVE ITorn'
  BY <1>6, Zenon DEF Commit, HasUpdates
<1>7. ASSUME NEW p \in Procs, WriteLog(p) PROVE ITorn'
  BY <1>7, Zenon DEF WriteLog, Advance
<1>8. ASSUME NEW p \in Procs, WriteHead(p) PROVE ITorn'
  BY <1>8, Zenon DEF WriteHead
<1>9. ASSUME NEW p \in Procs, Install(p) PROVE ITorn'
  BY <1>9 DEF Install, Advance, InstallTrans, Bunpin
<1>10. ASSUME NEW p \in Procs, Erase(p) PROVE ITorn'
  BY <1>10, Zenon DEF Erase, ClearHead
<1>11. ASSUME NEW p \in Procs, Committed(p) PROVE ITorn'
  BY <1>11, Zenon DEF Committed, Wakeup
<1>12. ASSUME NEW b \in Blocks, ReadFill(b) \/ Evict(b) PROVE ITorn'
  BY <1>12, Zenon DEF ReadFill, Evict
<1>13. CASE Crash
  BY <1>13 DEF Crash
<1>14. CASE ReadHead
  BY <1>14 DEF ReadHead
<1>15. CASE RecoverInstall
  BY <1>15 DEF RecoverInstall, InstallTrans
<1>16. CASE RecoverClear
  BY <1>16, Zenon DEF RecoverClear, ClearHead
<1>17. CASE UNCHANGED vars
  BY <1>17 DEF vars
<1>18. QED
  BY <1>1, <1>2, <1>3, <1>4, <1>5, <1>6, <1>7, <1>8, <1>9, <1>10, <1>11, <1>12, <1>13, <1>14,
     <1>15, <1>16, <1>17, Zenon DEF Next, Step

(* What Append does, element by element.                                    *)
LEMMA AppendFacts ==
  ASSUME NEW S, NEW s \in Seq(S), NEW e \in S
  PROVE  /\ Append(s, e) \in Seq(S)
         /\ Len(s) \in Nat
         /\ Len(Append(s, e)) = Len(s) + 1
         /\ \A i \in 1..Len(s) : Append(s, e)[i] = s[i]
         /\ Append(s, e)[Len(s) + 1] = e
OBVIOUS

(* Steps that leave the log alone leave the pins right.                     *)
LEMMA PinUnchanged ==
  ASSUME IInv,
         UNCHANGED <<lh, hdr, pin>>,
         boot' = boot \/ (boot = "up" /\ boot' = "panic"),
         boot' = "up" => FirstUninstalled' = FirstUninstalled
  PROVE  IPin'
BY Zenon DEF IInv, IPin, Distinct, PinnedUntilInstalled

(* log_write pins a block once and install_trans unpins it once.            *)
LEMMA PinStep == IInv /\ [Next]_vars => IPin'
<1> SUFFICES ASSUME IInv, [Next]_vars PROVE IPin'
  BY Zenon
<1> USE DEF disk
<1>1. ASSUME NEW p \in Procs, BeginOp(p) PROVE IPin'
  <2>1. \A q \in Procs : pc'[q] = pc[q] \/ {pc[q], pc'[q]} \cap {"install", "clear"} = {}
    BY <1>1, Zenon DEF IInv, TypeOK, BeginOp
  <2>2. FirstUninstalled' = FirstUninstalled
    BY <1>1, <2>1, Zenon DEF FirstUninstalled, BeginOp
  <2>3. QED
    BY <1>1, <2>2, PinUnchanged, Zenon DEF BeginOp
<1>2. ASSUME NEW p \in Procs, NEW b \in Blocks, Bread(p, b) PROVE IPin'
  <2>1. \A q \in Procs : pc'[q] = pc[q] \/ {pc[q], pc'[q]} \cap {"install", "clear"} = {}
    BY <1>2, Zenon DEF IInv, TypeOK, Bread
  <2>2. FirstUninstalled' = FirstUninstalled
    BY <1>2, <2>1, Zenon DEF FirstUninstalled, Bread
  <2>3. QED
    BY <1>2, <2>2, PinUnchanged, Zenon DEF Bread
<1>3. ASSUME NEW p \in Procs, Brelse(p) PROVE IPin'
  <2>1. \A q \in Procs : pc'[q] = pc[q] \/ {pc[q], pc'[q]} \cap {"install", "clear"} = {}
    BY <1>3, Zenon DEF IInv, TypeOK, Brelse
  <2>2. FirstUninstalled' = FirstUninstalled
    BY <1>3, <2>1, Zenon DEF FirstUninstalled, Brelse
  <2>3. QED
    BY <1>3, <2>2, PinUnchanged, Zenon DEF Brelse
<1>4. ASSUME NEW p \in Procs, NEW v \in Vals, LogWrite(p, v) PROVE IPin'
  <2>1. CASE Panic
    BY <1>4, <2>1, PinUnchanged, Zenon DEF FirstUninstalled, LogWrite, Panic
  <2>2. CASE ~ Panic /\ buf[p] \in BlocksIn(lh)
    BY <1>4, <2>2, PinUnchanged, Zenon DEF FirstUninstalled, LogWrite
  <2>3. CASE ~ Panic /\ buf[p] \notin BlocksIn(lh)
    <3>1. buf[p] \in Blocks /\ \A q \in Procs : pc[q] \notin {"install", "clear"}
      BY <1>4, Zenon DEF LogWrite, IInv, IControl, InOp, CommitPCs
    <3>2. lh' = Append(lh, buf[p]) /\ pin' = [pin EXCEPT ![buf[p]] = @ + 1]
      BY <1>4, <2>3, Zenon DEF LogWrite
    <3>3. UNCHANGED <<pc, hdr, boot, tail>> /\ boot = "up"
      BY <1>4, <2>3, Zenon DEF LogWrite
    <3>4. /\ Len(lh) \in Nat /\ Len(lh') = Len(lh) + 1
          /\ \A i \in 1..Len(lh) : lh'[i] = lh[i] /\ lh[i] # buf[p]
          /\ lh'[Len(lh) + 1] = buf[p]
      <4>1. lh \in Seq(Blocks) /\ \A i \in 1..Len(lh) : lh[i] # buf[p]
        BY <2>3, Zenon DEF IInv, TypeOK, BlocksIn
      <4>2. QED
        BY <3>1, <3>2, <4>1, AppendFacts
    <3>5. Distinct(lh')
      BY <3>4 DEF IInv, IPin, Distinct
    <3>6. FirstUninstalled = 1 /\ FirstUninstalled' = 1
      BY <3>1, <3>3, Zenon DEF FirstUninstalled
    <3>7. PinnedUntilInstalled'
      <4> SUFFICES ASSUME NEW b \in Blocks
                   PROVE  pin'[b] = IF \E i \in 1..Len(lh') : lh'[i] = b THEN 1 ELSE 0
        BY <3>6, Zenon DEF PinnedUntilInstalled
      <4>1. pin[b] = IF \E i \in 1..Len(lh) : lh[i] = b THEN 1 ELSE 0
        BY <3>3, <3>6, Zenon DEF IInv, IPin, PinnedUntilInstalled
      <4>2. pin'[b] = IF b = buf[p] THEN pin[b] + 1 ELSE pin[b]
        BY <3>2, Zenon DEF IInv, TypeOK
      <4>3. CASE b = buf[p]
        BY <3>4, <4>1, <4>2, <4>3
      <4>4. CASE b # buf[p]
        BY <3>4, <4>1, <4>2, <4>4
      <4>5. QED
        BY <4>3, <4>4, Zenon
    <3>8. QED
      BY <3>3, <3>5, <3>7, Zenon DEF IInv, IPin, Distinct
  <2>4. QED
    BY <2>1, <2>2, <2>3, Zenon
<1>5. ASSUME NEW p \in Procs, EndOp(p) PROVE IPin'
  <2>1. \A q \in Procs : pc'[q] = pc[q] \/ {pc[q], pc'[q]} \cap {"install", "clear"} = {}
    BY <1>5, Zenon DEF IInv, TypeOK, EndOp, Wakeup
  <2>2. FirstUninstalled' = FirstUninstalled
    BY <1>5, <2>1, Zenon DEF FirstUninstalled, EndOp, Wakeup
  <2>3. QED
    BY <1>5, <2>2, PinUnchanged, Zenon DEF EndOp, Wakeup
<1>6. ASSUME NEW p \in Procs, Commit(p) PROVE IPin'
  <2>1. \A q \in Procs : {pc[q], pc'[q]} \cap {"install", "clear"} = {}
    BY <1>6, Zenon DEF IInv, TypeOK, IControl, CommitPCs, Commit, HasUpdates
  <2>2. FirstUninstalled' = FirstUninstalled
    BY <1>6, <2>1, Zenon DEF FirstUninstalled, Commit
  <2>3. QED
    BY <1>6, <2>2, PinUnchanged, Zenon DEF Commit
<1>7. ASSUME NEW p \in Procs, WriteLog(p) PROVE IPin'
  <2>1. \A q \in Procs : {pc[q], pc'[q]} \cap {"install", "clear"} = {}
    BY <1>7, Zenon DEF IInv, TypeOK, WriteLog, Advance, IControl, CommitPCs
  <2>2. FirstUninstalled' = FirstUninstalled
    BY <1>7, <2>1, Zenon DEF FirstUninstalled, WriteLog, Advance, IControl, CommitPCs
  <2>3. QED
    BY <1>7, <2>2, PinUnchanged, Zenon DEF IInv, TypeOK, WriteLog, Advance, IControl, CommitPCs
<1>8. ASSUME NEW p \in Procs, WriteHead(p) PROVE IPin'
  <2>1. /\ \A q \in Procs : pc[q] \notin {"install", "clear"}
        /\ pc'[p] = "install" /\ tail = 1
    BY <1>8, Zenon DEF IInv, TypeOK, WriteHead, IControl, CommitPCs
  <2>2. QED
    BY <1>8, <2>1 DEF IInv, WriteHead, IPin, Distinct, FirstUninstalled, PinnedUntilInstalled
<1>9. ASSUME NEW p \in Procs, Install(p) PROVE IPin'
  <2>1. tail \in 1..Len(lh) /\ lh[tail] \in Blocks /\ boot = "up"
    BY <1>9 DEF IInv, TypeOK, Install, IControl
  <2>2. FirstUninstalled = tail /\ FirstUninstalled' = tail + 1
    <3>1. \A q \in Procs : q # p => pc[q] \notin {"install", "clear"} /\ pc'[q] = pc[q]
      BY <1>9, Zenon DEF IInv, TypeOK, Install, Advance, IControl, CommitPCs
    <3>2. /\ pc[p] = "install" /\ lh' = lh
          /\ pc'[p] = IF tail = Len(lh) THEN "clear" ELSE "install"
          /\ tail' = IF tail = Len(lh) THEN 1 ELSE tail + 1
      BY <1>9, Zenon DEF IInv, TypeOK, Install, Advance
    <3>3. QED
      BY <2>1, <3>1, <3>2, Zenon DEF FirstUninstalled
  <2>3. pin' = [pin EXCEPT ![lh[tail]] = @ - 1] /\ UNCHANGED <<lh, hdr, boot>>
    BY <1>9, Zenon DEF Install, Bunpin
  <2>4. PinnedUntilInstalled'
    BY <2>1, <2>2, <2>3 DEF IInv, TypeOK, IPin, Distinct, PinnedUntilInstalled
  <2>5. QED
    BY <2>1, <2>3, <2>4, Zenon DEF IInv, IPin, Distinct
<1>10. ASSUME NEW p \in Procs, Erase(p) PROVE IPin'
  <2>1. FirstUninstalled = Len(lh) + 1 /\ lh' = <<>> /\ hdr' = <<>>
    BY <1>10, Zenon DEF IInv, TypeOK, FirstUninstalled, Erase, ClearHead, IControl, CommitPCs
  <2>2. \A b \in Blocks : pin'[b] = 0
    BY <1>10, <2>1 DEF IInv, TypeOK, Erase, IPin, PinnedUntilInstalled
  <2>3. QED
    BY <1>10, <2>1, <2>2 DEF IInv, Erase, IPin, Distinct, FirstUninstalled, PinnedUntilInstalled
<1>11. ASSUME NEW p \in Procs, Committed(p) PROVE IPin'
  <2>1. \A q \in Procs : pc'[q] = pc[q] \/ {pc[q], pc'[q]} \cap {"install", "clear"} = {}
    BY <1>11, Zenon DEF IInv, TypeOK, Committed, Wakeup
  <2>2. FirstUninstalled' = FirstUninstalled
    BY <1>11, <2>1, Zenon DEF FirstUninstalled, Committed, Wakeup
  <2>3. QED
    BY <1>11, <2>2, PinUnchanged, Zenon DEF Committed, Wakeup
<1>12. ASSUME NEW b \in Blocks, ReadFill(b) \/ Evict(b) PROVE IPin'
  BY <1>12, PinUnchanged, Zenon DEF FirstUninstalled, ReadFill, Evict
<1>13. CASE Crash
  BY <1>13 DEF IInv, Crash, IPin, Distinct, PinnedUntilInstalled
<1>14. CASE ReadHead
  BY <1>14, Zenon DEF IInv, ReadHead, IPin, Distinct, PinnedUntilInstalled
<1>15. CASE RecoverInstall
  BY <1>15, Zenon DEF IInv, RecoverInstall, IPin, Distinct, PinnedUntilInstalled
<1>16. CASE RecoverClear
  <2>1. lh' = <<>> /\ hdr' = <<>> /\ pin' = [b \in Blocks |-> 0] /\ boot' = "up"
    BY <1>16, Zenon DEF IInv, RecoverClear, ClearHead, IPin
  <2>2. FirstUninstalled' = 1
    BY <1>16, Zenon DEF IInv, IControl, RecoverClear, FirstUninstalled
  <2>3. QED
    BY <2>1, <2>2 DEF IPin, Distinct, PinnedUntilInstalled
<1>17. CASE UNCHANGED vars
  BY <1>17, PinUnchanged, Zenon DEF FirstUninstalled, vars
<1>18. QED
  BY <1>1, <1>2, <1>3, <1>4, <1>5, <1>6, <1>7, <1>8, <1>9, <1>10, <1>11, <1>12, <1>13, <1>14,
     <1>15, <1>16, <1>17, Zenon DEF Next, Step

(* Every variable keeps its type; no buffer ever holds a torn block.         *)
LEMMA TypeStep == IInv /\ [Next]_vars => TypeOK'
<1> SUFFICES ASSUME IInv, [Next]_vars PROVE TypeOK'
  BY Zenon
<1> USE LogConstants DEF IInv, disk, PCs, TypeOK
<1>1. ASSUME NEW p \in Procs, BeginOp(p) PROVE TypeOK'
  <2>1. wrote' \in [Procs -> SUBSET Blocks]
    BY <1>1, Zenon DEF BeginOp
  <2>2. pc' \in [Procs -> PCs]
    BY <1>1, Zenon DEF BeginOp
  <2>3. outstanding' \in Nat
    BY <1>1 DEF BeginOp
  <2>4. QED
    BY <1>1, <2>1, <2>2, <2>3, Zenon DEF BeginOp
<1>2. ASSUME NEW p \in Procs, NEW b \in Blocks, Bread(p, b) PROVE TypeOK'
  <2>1. Contents(b) \in Vals
    BY <1>2, NotTorn, Zenon DEF Bread
  <2>2. cache' \in [Blocks -> Vals \cup {None}]
    BY <1>2, <2>1, Zenon DEF Bread
  <2>3. buf' \in [Procs -> Blocks \cup {None}]
    BY <1>2, <2>1, Zenon DEF Bread
  <2>4. pc' \in [Procs -> PCs]
    BY <1>2, <2>1, Zenon DEF Bread
  <2>5. QED
    BY <1>2, <2>2, <2>3, <2>4, Zenon DEF Bread
<1>3. ASSUME NEW p \in Procs, Brelse(p) PROVE TypeOK'
  BY <1>3, Zenon DEF Brelse
<1>4. ASSUME NEW p \in Procs, NEW v \in Vals, LogWrite(p, v) PROVE TypeOK'
  <2>1. buf[p] \in Blocks
    BY <1>4, Zenon DEF LogWrite, IControl
  <2>2. CASE Panic
    BY <1>4, <2>2, Zenon DEF LogWrite, Panic
  <2>3. CASE ~ Panic
    <3>1. cache' \in [Blocks -> Vals \cup {None}]
      <4>1. cache' = [cache EXCEPT ![buf[p]] = v] /\ cache \in [Blocks -> Vals \cup {None}]
        BY <1>4, <2>3, Zenon DEF LogWrite
      <4>2. QED
        BY ONLY <1>4, <2>1, <4>1, Zenon
    <3>2. wrote' = [wrote EXCEPT ![p] = @ \cup {buf[p]}]
      BY <1>4, <2>3, Zenon DEF LogWrite
    <3>3. wrote' \in [Procs -> SUBSET Blocks]
      BY <2>1, <3>2, Zenon
    <3>4. lh' = lh \/ lh' = Append(lh, buf[p])
      BY <1>4, <2>3, Zenon DEF LogWrite
    <3>5. lh' \in Seq(Blocks)
      <4>1. lh \in Seq(Blocks)
        BY Zenon
      <4>2. QED
        BY ONLY <2>1, <3>4, <4>1, AppendFacts, Zenon
    <3>6. pin' \in [Blocks -> Nat]
      <4>1. pin' = pin \/ pin' = [pin EXCEPT ![buf[p]] = @ + 1]
        BY <1>4, <2>3, Zenon DEF LogWrite
      <4>2. pin \in [Blocks -> Nat]
        BY Zenon
      <4>3. QED
        BY ONLY <2>1, <4>1, <4>2
    <3>7. QED
      BY <1>4, <2>3, <3>1, <3>3, <3>5, <3>6, Zenon DEF LogWrite
  <2>4. QED
    BY <2>2, <2>3, Zenon
<1>5. ASSUME NEW p \in Procs, EndOp(p) PROVE TypeOK'
  <2>1. outstanding >= 1
    BY <1>5, OpCounted, Zenon DEF EndOp, InOp
  <2>2. wrote' \in [Procs -> SUBSET Blocks]
    BY <1>5, <2>1, Zenon DEF EndOp
  <2>3. pc' \in [Procs -> PCs]
    <3>1. /\ pc \in [Procs -> PCs]
          /\ \/ pc' = [pc EXCEPT ![p] = "commit"]
             \/ pc' = Wakeup([pc EXCEPT ![p] = "idle"])
      BY <1>5, Zenon DEF EndOp
    <3>2. QED
      BY ONLY <1>5, <3>1, Zenon DEF Wakeup, PCs
  <2>4. outstanding' \in Nat
    BY <1>5, <2>1 DEF EndOp
  <2>5. committing' \in BOOLEAN
    BY <1>5, <2>1, Zenon DEF EndOp
  <2>6. boot' \in {"up", "panic"}
    BY <1>5, <2>1, Zenon DEF EndOp
  <2>7. QED
    BY <1>5, <2>2, <2>3, <2>4, <2>5, <2>6, Zenon DEF EndOp
<1>6. ASSUME NEW p \in Procs, Commit(p) PROVE TypeOK'
  BY <1>6 DEF Commit, HasUpdates
<1>7. ASSUME NEW p \in Procs, WriteLog(p) PROVE TypeOK'
  <2>1. tail \in 1..LOGBLOCKS /\ tail \in 1..Len(lh) /\ lh[tail] \in Blocks
    BY <1>7, TailInLog, Zenon DEF WriteLog
  <2>2. Contents(lh[tail]) \in Vals
    BY <1>7, <2>1, NotTorn, Zenon DEF WriteLog
  <2>3. cache' \in [Blocks -> Vals \cup {None}]
    BY <1>7, <2>1, <2>2, Zenon DEF WriteLog
  <2>4. slot' \in [1..LOGBLOCKS -> Vals \cup {Torn}]
    BY <1>7, <2>1, <2>2, Zenon DEF WriteLog
  <2>5. tail' \in 1..(LOGBLOCKS + 1)
    BY <1>7, <2>1, TailAdvances, Zenon DEF WriteLog, Advance
  <2>6. pc' \in [Procs -> PCs]
    BY <1>7, <2>1, <2>2, Zenon DEF WriteLog, Advance
  <2>7. QED
    BY <1>7, <2>3, <2>4, <2>5, <2>6, Zenon DEF WriteLog
<1>8. ASSUME NEW p \in Procs, WriteHead(p) PROVE TypeOK'
  BY <1>8, Zenon DEF WriteHead
<1>9. ASSUME NEW p \in Procs, Install(p) PROVE TypeOK'
  <2>1. tail \in 1..LOGBLOCKS /\ tail \in 1..Len(lh) /\ lh[tail] \in Blocks
    BY <1>9, TailInLog, Zenon DEF Install
  <2>2. slot[tail] \in Vals
    BY <1>9, <2>1, Zenon DEF Install, IDisk
  <2>3. pin[lh[tail]] >= 1
    <3>1. FirstUninstalled = tail
      BY <1>9, Zenon DEF Install, FirstUninstalled
    <3>2. \E i \in tail..Len(lh) : lh[i] = lh[tail]
      BY <2>1
    <3>3. QED
      <4>1. \A b \in Blocks :
              pin[b] = IF \E i \in tail..Len(lh) : lh[i] = b THEN 1 ELSE 0
        BY <1>9, <3>1, Zenon DEF Install, IPin, PinnedUntilInstalled
      <4>2. QED
        BY ONLY <2>1, <3>2, <4>1
  <2>4. home' \in [Blocks -> Vals \cup {Torn}]
    BY <1>9, <2>1, <2>2, <2>3, Zenon DEF Install, InstallTrans
  <2>5. cache' \in [Blocks -> Vals \cup {None}]
    BY <1>9, <2>1, <2>2, <2>3, Zenon DEF Install, InstallTrans
  <2>6. pin' \in [Blocks -> Nat]
    <3>1. pin' = [pin EXCEPT ![lh[tail]] = @ - 1] /\ pin \in [Blocks -> Nat]
      BY <1>9, Zenon DEF Install, Bunpin
    <3>2. QED
      BY ONLY <2>1, <2>3, <3>1
  <2>7. tail' \in 1..(LOGBLOCKS + 1)
    BY <1>9, <2>1, TailAdvances, Zenon DEF Install, Advance
  <2>8. pc' \in [Procs -> PCs]
    BY <1>9, <2>1, <2>2, <2>3, Zenon DEF Install, Advance
  <2>9. QED
    BY <1>9, <2>4, <2>5, <2>6, <2>7, <2>8, Zenon DEF Install, InstallTrans
<1>10. ASSUME NEW p \in Procs, Erase(p) PROVE TypeOK'
  BY <1>10 DEF Erase, ClearHead
<1>11. ASSUME NEW p \in Procs, Committed(p) PROVE TypeOK'
  BY <1>11, Zenon DEF Committed, Wakeup
<1>12. ASSUME NEW b \in Blocks, ReadFill(b) \/ Evict(b) PROVE TypeOK'
  <2>1. boot = "up"
    BY <1>12, Zenon DEF ReadFill, Evict
  <2>2. home[b] \in Vals
    BY <1>12, <2>1, NotTorn, Zenon
  <2>3. cache' \in [Blocks -> Vals \cup {None}]
    BY <1>12, <2>1, <2>2, Zenon DEF ReadFill, Evict
  <2>4. QED
    BY <1>12, <2>3, ZenonT(40) DEF ReadFill, Evict
<1>13. CASE Crash
  <2>1. home' \in [Blocks -> Vals \cup {Torn}]
    BY <1>13, Zenon DEF Crash
  <2>2. slot' \in [1..LOGBLOCKS -> Vals \cup {Torn}]
    BY <1>13, Zenon DEF Crash
  <2>3. cache' \in [Blocks -> Vals \cup {None}]
    BY <1>13, Zenon DEF Crash
  <2>4. pin' \in [Blocks -> Nat]
    BY <1>13, Zenon DEF Crash
  <2>5. wrote' \in [Procs -> SUBSET Blocks]
    BY <1>13, Zenon DEF Crash
  <2>6. lh' \in Seq(Blocks) /\ hdr' \in Seq(Blocks)
    BY <1>13 DEF Crash
  <2>7. pc' \in [Procs -> PCs] /\ buf' \in [Procs -> Blocks \cup {None}]
    BY <1>13, Zenon DEF Crash
  <2>8. committing' \in BOOLEAN
    BY <1>13, Zenon DEF Crash
  <2>9. outstanding' \in Nat /\ tail' \in 1..(LOGBLOCKS + 1)
    <3>1. outstanding' = 0 /\ tail' = 1
      BY <1>13, Zenon DEF Crash
    <3>2. QED
      BY ONLY <3>1, LogConstants
  <2>10. boot' \in {"read_head", "install", "clear", "up", "panic"}
    BY <1>13, Zenon DEF Crash
  <2>11. QED
    BY ONLY <2>1, <2>2, <2>3, <2>4, <2>5, <2>6, <2>7, <2>8, <2>9, <2>10, Zenon DEF TypeOK
<1>14. CASE ReadHead
  BY <1>14 DEF ReadHead
<1>15. CASE RecoverInstall
  <2>1. tail \in 1..LOGBLOCKS /\ tail \in 1..Len(lh) /\ lh[tail] \in Blocks
    BY <1>15, TailInLog, Zenon DEF RecoverInstall
  <2>2. slot[tail] \in Vals
    BY <1>15, <2>1, Zenon DEF RecoverInstall, IDisk
  <2>3. home' \in [Blocks -> Vals \cup {Torn}]
    BY <1>15, <2>1, <2>2, Zenon DEF RecoverInstall, InstallTrans
  <2>4. cache' \in [Blocks -> Vals \cup {None}]
    BY <1>15, <2>1, <2>2, Zenon DEF RecoverInstall, InstallTrans
  <2>5. tail' \in 1..(LOGBLOCKS + 1)
    BY <1>15, <2>1, TailAdvances, Zenon DEF RecoverInstall
  <2>6. QED
    BY <1>15, <2>3, <2>4, <2>5, Zenon DEF RecoverInstall, InstallTrans
<1>16. CASE RecoverClear
  BY <1>16 DEF RecoverClear, ClearHead
<1>17. CASE UNCHANGED vars
  BY <1>17, Zenon DEF vars
<1>18. QED
  BY <1>1, <1>2, <1>3, <1>4, <1>5, <1>6, <1>7, <1>8, <1>9, <1>10, <1>11, <1>12, <1>13, <1>14,
     <1>15, <1>16, <1>17, Zenon DEF Next, Step

-----------------------------------------------------------------------------
(* The reservation argument.                                                *)

(* begin_op: the operations in progress hold at most MAXOPBLOCKS unused     *)
(* slots each, so the test of log.c:123 leaves room for one more.           *)
LEMMA BeginReserves ==
  ASSUME IInv, NEW p \in Procs, BeginOp(p), ~ MustWait
  PROVE  ReservationHolds'
<1> DEFINE R == 1..MAXOPBLOCKS
<1>1. IsFiniteSet(R) /\ Cardinality(R) = MAXOPBLOCKS
  BY LogConstants, FS_Interval
<1>2. IsFiniteSet(Ops) /\ IsFiniteSet({p}) /\ Cardinality({p}) = 1
  BY LogConstants, FS_Subset, FS_Singleton, Zenon DEF Ops
<1>3. /\ IsFiniteSet(Ops \X R) /\ Cardinality(Ops \X R) = outstanding * MAXOPBLOCKS
      /\ IsFiniteSet({p} \X R) /\ Cardinality({p} \X R) = 1 * MAXOPBLOCKS
  <2>1. outstanding = Cardinality(Ops)
    BY Zenon DEF IInv, IBudget
  <2>2. IsFiniteSet(Ops \X R) /\ Cardinality(Ops \X R) = Cardinality(Ops) * Cardinality(R)
    BY ONLY <1>1, <1>2, FS_Product, Zenon
  <2>3. IsFiniteSet({p} \X R) /\ Cardinality({p} \X R) = Cardinality({p}) * Cardinality(R)
    BY ONLY <1>1, <1>2, FS_Product, Zenon
  <2>4. QED
    BY <1>1, <1>2, <2>1, <2>2, <2>3, Zenon
<1>4. /\ IsFiniteSet((Ops \X R) \cup ({p} \X R))
      /\ Cardinality((Ops \X R) \cup ({p} \X R)) =
           Cardinality(Ops \X R) + Cardinality({p} \X R)
             - Cardinality((Ops \X R) \cap ({p} \X R))
  BY <1>3, FS_Union, Zenon
<1>5. Cardinality((Ops \X R) \cap ({p} \X R)) \in Nat
  BY <1>3, FS_Subset, FS_CardinalityType, Zenon
<1>6. Reserved' \subseteq (Ops \X R) \cup ({p} \X R)
  BY Zenon DEF BeginOp, Reserved, Ops, InOp, IInv, TypeOK
<1>7. /\ Cardinality(Reserved') \in Nat
      /\ Cardinality(Reserved') <= Cardinality((Ops \X R) \cup ({p} \X R))
  BY <1>4, <1>6, FS_Subset, FS_CardinalityType, Zenon
<1>8. Cardinality(Reserved') <= outstanding * MAXOPBLOCKS + MAXOPBLOCKS
  <2>1. outstanding * MAXOPBLOCKS \in Nat /\ MAXOPBLOCKS \in Nat
    BY LogConstants DEF IInv, TypeOK
  <2>2. QED
    BY <1>3, <1>4, <1>5, <1>7, <2>1
<1>9. Len(lh) + (outstanding * MAXOPBLOCKS + MAXOPBLOCKS) <= LOGBLOCKS
  <2>1. (outstanding + 1) * MAXOPBLOCKS = outstanding * MAXOPBLOCKS + MAXOPBLOCKS
    BY LogConstants DEF IInv, TypeOK
  <2>2. Len(lh) \in Nat /\ outstanding * MAXOPBLOCKS \in Nat
    BY LogConstants DEF IInv, TypeOK
  <2>3. QED
    BY <2>1, <2>2, LogConstants DEF MustWait
<1>10. lh' = lh /\ Len(lh) \in Nat /\ outstanding * MAXOPBLOCKS \in Nat
  BY LogConstants DEF BeginOp, IInv, TypeOK
<1>11. QED
  BY <1>7, <1>8, <1>9, <1>10, LogConstants DEF ReservationHolds

(* Steps that only return reserved slots, or none, and do not grow the log. *)
LEMMA FewerReserved ==
  ASSUME IInv, Reserved' \subseteq Reserved, Len(lh') \in Nat, Len(lh') <= Len(lh)
  PROVE  ReservationHolds'
<1>1. IsFiniteSet(Reserved) /\ Cardinality(Reserved) \in Nat
  BY LogFits, Zenon
<1>2. Cardinality(Reserved') \in Nat /\ Cardinality(Reserved') <= Cardinality(Reserved)
  BY <1>1, FS_Subset, FS_CardinalityType, Zenon
<1>3. Len(lh) + Cardinality(Reserved) <= LOGBLOCKS /\ Len(lh) \in Nat
  BY DEF IInv, IBudget, ReservationHolds, TypeOK
<1>4. QED
  BY <1>1, <1>2, <1>3, LogConstants DEF ReservationHolds

(* log_write: a block that enters the log uses up a slot of its operation;  *)
(* an absorbed one takes none.                                              *)
LEMMA LogWriteReserves ==
  ASSUME IInv, NEW p \in Procs, NEW v \in Vals, LogWrite(p, v), ~ Panic
  PROVE  /\ IsFiniteSet(wrote'[p])
         /\ Cardinality(wrote'[p]) <= MAXOPBLOCKS
         /\ wrote'[p] \subseteq BlocksIn(lh')
         /\ BlocksIn(lh) \subseteq BlocksIn(lh')
         /\ ReservationHolds'
<1> DEFINE b == buf[p]
           k == Cardinality(wrote[p])
<1>1. pc[p] = "buf" /\ InOp(p) /\ b \in Blocks
  BY Zenon DEF LogWrite, InOp, IInv, IControl
<1>2. IsFiniteSet(wrote[p]) /\ wrote[p] \subseteq BlocksIn(lh) /\ k \in Nat
  BY <1>1, FS_CardinalityType, Zenon DEF IInv, IBudget
<1>3. wrote' = [wrote EXCEPT ![p] = wrote[p] \cup {b}] /\ pc' = pc
  BY Zenon DEF LogWrite
<1>4. wrote'[p] = wrote[p] \cup {b} /\ \A q \in Procs : q # p => wrote'[q] = wrote[q]
  BY <1>3, Zenon DEF IInv, TypeOK
<1>5. /\ IsFiniteSet(wrote'[p])
      /\ Cardinality(wrote'[p]) = IF b \in wrote[p] THEN k ELSE k + 1
      /\ Cardinality(wrote'[p]) <= MAXOPBLOCKS
  <2>1. Cardinality(wrote[p] \cup {b}) <= MAXOPBLOCKS
    BY Zenon DEF LogWrite
  <2>2. /\ IsFiniteSet(wrote[p] \cup {b})
        /\ Cardinality(wrote[p] \cup {b}) = IF b \in wrote[p] THEN k ELSE k + 1
    BY <1>2, FS_AddElement, Zenon
  <2>3. QED
    BY <1>4, <2>1, <2>2, Zenon
<1>6. CASE b \in BlocksIn(lh)
  <2>1. lh' = lh
    BY <1>6, Zenon DEF LogWrite
  <2>2. Reserved' \subseteq Reserved
    <3> SUFFICES ASSUME NEW t \in Reserved' PROVE t \in Reserved
      BY Zenon
    <3>1. /\ t \in Procs \X (1..MAXOPBLOCKS) /\ t[1] \in Procs /\ t[2] \in Nat
          /\ InOp(t[1]) /\ Cardinality(wrote'[t[1]]) < t[2]
      BY <1>3, LogConstants DEF Reserved, InOp
    <3>2. Cardinality(wrote[t[1]]) < t[2]
      <4>1. CASE t[1] = p
        <5>1. Cardinality(wrote'[p]) = k \/ Cardinality(wrote'[p]) = k + 1
          BY ONLY <1>5, Zenon
        <5>2. Cardinality(wrote'[p]) < t[2] /\ t[2] \in Nat
          BY ONLY <3>1, <4>1, Zenon
        <5>3. k < t[2]
          BY ONLY <1>2, <5>1, <5>2
        <5>4. QED
          BY <4>1, <5>3, Zenon
      <4>2. CASE t[1] # p
        BY ONLY <1>4, <3>1, <4>2, Zenon
      <4>3. QED
        BY <4>1, <4>2, Zenon
    <3>3. QED
      BY <3>1, <3>2, Zenon DEF Reserved
  <2>3. Len(lh) \in Nat
    BY DEF IInv, TypeOK
  <2>4. Len(lh') \in Nat /\ Len(lh') <= Len(lh)
    BY ONLY <2>1, <2>3
  <2>5. ReservationHolds'
    BY <2>2, <2>4, FewerReserved, Zenon
  <2>6. BlocksIn(lh') = BlocksIn(lh)
    BY <2>1, Zenon
  <2>7. wrote'[p] \subseteq BlocksIn(lh')
    BY ONLY <1>2, <1>4, <1>6, <2>6, Zenon
  <2>8. QED
    BY <1>5, <2>5, <2>6, <2>7, Zenon
<1>7. CASE b \notin BlocksIn(lh)
  <2>1. lh' = Append(lh, b) /\ lh \in Seq(Blocks)
    BY <1>7, Zenon DEF LogWrite, IInv, TypeOK
  <2>2. /\ Len(lh) \in Nat /\ Len(lh') = Len(lh) + 1
        /\ BlocksIn(lh') = BlocksIn(lh) \cup {b}
    <3>1. /\ Len(lh) \in Nat /\ Len(lh') = Len(lh) + 1
          /\ \A i \in 1..Len(lh) : lh'[i] = lh[i]
          /\ lh'[Len(lh) + 1] = b
      BY <1>1, <2>1, AppendFacts
    <3>2. QED
      BY <3>1 DEF BlocksIn
  <2>3. Cardinality(wrote'[p]) = k + 1
    BY <1>2, <1>5, <1>7, Zenon
  <2>4. <<p, k + 1>> \in Reserved
    BY <1>1, <1>2, <1>5, <2>3, LogConstants DEF Reserved
  <2>5. Reserved' \subseteq Reserved \ {<<p, k + 1>>}
    <3> SUFFICES ASSUME NEW t \in Reserved' PROVE t \in Reserved /\ t # <<p, k + 1>>
      BY Zenon
    <3>1. /\ t \in Procs \X (1..MAXOPBLOCKS) /\ t[1] \in Procs /\ t[2] \in Nat
          /\ InOp(t[1]) /\ Cardinality(wrote'[t[1]]) < t[2]
      BY <1>3, LogConstants DEF Reserved, InOp
    <3>2. Cardinality(wrote[t[1]]) < t[2] /\ t # <<p, k + 1>>
      <4>1. CASE t[1] = p
        BY ONLY <1>2, <2>3, <3>1, <4>1
      <4>2. CASE t[1] # p
        BY ONLY <1>4, <3>1, <4>2
      <4>3. QED
        BY <4>1, <4>2, Zenon
    <3>3. QED
      BY <3>1, <3>2, Zenon DEF Reserved
  <2>6. IsFiniteSet(Reserved) /\ Cardinality(Reserved) \in Nat
    BY LogFits, Zenon
  <2>7. /\ IsFiniteSet(Reserved \ {<<p, k + 1>>})
        /\ Cardinality(Reserved \ {<<p, k + 1>>}) = Cardinality(Reserved) - 1
    BY <2>4, <2>6, FS_RemoveElement, Zenon
  <2>8. Cardinality(Reserved') \in Nat /\ Cardinality(Reserved') <= Cardinality(Reserved) - 1
    <3>1. IsFiniteSet(Reserved') /\ Cardinality(Reserved') <= Cardinality(Reserved \ {<<p, k + 1>>})
      BY <2>5, <2>7, FS_Subset, Zenon
    <3>2. Cardinality(Reserved') \in Nat
      BY <3>1, FS_CardinalityType, Zenon
    <3>3. QED
      BY <2>7, <3>1, <3>2, Zenon
  <2>9. Len(lh) + Cardinality(Reserved) <= LOGBLOCKS
    BY Zenon DEF IInv, IBudget, ReservationHolds
  <2>10. ReservationHolds'
    BY <2>2, <2>6, <2>8, <2>9, LogConstants DEF ReservationHolds
  <2>11. QED
    BY <1>2, <1>4, <1>5, <2>2, <2>10, Zenon
<1>8. QED
  BY <1>6, <1>7, Zenon

(* Steps that concern neither the operations nor the log.                   *)
LEMMA BudgetUnchanged ==
  ASSUME IInv, UNCHANGED <<outstanding, wrote, lh, hdr>>,
         \A q \in Procs : InOp(q)' <=> InOp(q)
  PROVE  IBudget'
<1>1. Ops' = Ops
  BY Zenon DEF Ops
<1>2. Reserved' = Reserved
  BY Zenon DEF Reserved
<1>3. QED
  BY <1>1, <1>2, Zenon DEF IInv, IBudget, ReservationHolds

(* When no operation is in progress nothing is reserved.                    *)
LEMMA NothingReserved ==
  ASSUME \A q \in Procs : ~ InOp(q)
  PROVE  Ops = {} /\ Reserved = {} /\ Cardinality(Ops) = 0 /\ Cardinality(Reserved) = 0
<1>1. Ops = {} /\ Reserved = {}
  BY Zenon DEF Ops, Reserved
<1>2. QED
  BY <1>1, FS_EmptySet, Zenon

(* The same, of the next state.                                             *)
LEMMA IdleBudget ==
  ASSUME \A q \in Procs : ~ InOp(q)', outstanding' = 0,
         Len(lh') \in Nat, Len(lh') <= LOGBLOCKS, Len(hdr') <= LOGBLOCKS
  PROVE  IBudget'
<1>1. Ops' = {} /\ Reserved' = {}
  BY Zenon DEF Ops, Reserved
<1>2. Cardinality(Ops') = 0 /\ Cardinality(Reserved') = 0
  BY <1>1, FS_EmptySet, Zenon
<1>3. ReservationHolds'
  BY <1>2 DEF ReservationHolds
<1>4. QED
  BY <1>2, <1>3, Zenon DEF IBudget

(* The counter, the budgets and the reservation are preserved.              *)
LEMMA BudgetStep == IInv /\ [Next]_vars => IBudget'
<1> SUFFICES ASSUME IInv, [Next]_vars PROVE IBudget'
  BY Zenon
<1> USE DEF disk
<1>1. ASSUME NEW p \in Procs, BeginOp(p) PROVE IBudget'
  <2>1. CASE MustWait
    <3>1. \A q \in Procs : InOp(q)' <=> InOp(q)
      BY <1>1, <2>1, Zenon DEF BeginOp, InOp, IInv, TypeOK
    <3>2. QED
      BY <1>1, <2>1, <3>1, BudgetUnchanged, Zenon DEF BeginOp
  <2>2. CASE ~ MustWait
    <3>1. ~ InOp(p) /\ InOp(p)' /\ \A q \in Procs : q # p => (InOp(q)' <=> InOp(q))
      BY <1>1, <2>2, Zenon DEF BeginOp, InOp, IInv, TypeOK
    <3>2. Ops' = Ops \cup {p} /\ p \notin Ops
      BY <3>1, Zenon DEF Ops
    <3>3. IsFiniteSet(Ops)
      BY LogConstants, FS_Subset, Zenon DEF Ops
    <3>4. Cardinality(Ops') = outstanding + 1
      BY <3>2, <3>3, FS_AddElement, Zenon DEF IInv, IBudget
    <3>5. /\ outstanding' = outstanding + 1 /\ UNCHANGED <<lh, hdr>>
          /\ wrote'[p] = {} /\ \A q \in Procs : q # p => wrote'[q] = wrote[q]
      BY <1>1, <2>2, Zenon DEF BeginOp, IInv, TypeOK
    <3>6. ReservationHolds'
      BY <1>1, <2>2, BeginReserves, Zenon
    <3>7. \A q \in Procs : InOp(q)' =>
            /\ IsFiniteSet(wrote'[q])
            /\ wrote'[q] \subseteq BlocksIn(lh')
            /\ Cardinality(wrote'[q]) <= MAXOPBLOCKS
      <4>1. IsFiniteSet({}) /\ Cardinality({}) <= MAXOPBLOCKS
        BY FS_EmptySet, LogConstants
      <4>2. QED
        BY <3>1, <3>5, <4>1, Zenon DEF IInv, IBudget
    <3>8. QED
      <4>1. outstanding' = Cardinality(Ops')
        BY <3>4, <3>5, Zenon
      <4>2. Len(hdr') <= LOGBLOCKS
        BY <3>5, Zenon DEF IInv, IBudget
      <4>3. QED
        BY <3>6, <3>7, <4>1, <4>2, Zenon DEF IBudget
  <2>3. QED
    BY <2>1, <2>2, Zenon
<1>2. ASSUME NEW p \in Procs, NEW b \in Blocks, Bread(p, b) PROVE IBudget'
  <2>1. \A q \in Procs : InOp(q)' <=> InOp(q)
    BY <1>2, Zenon DEF Bread, InOp, IInv, TypeOK
  <2>2. QED
    BY <1>2, <2>1, BudgetUnchanged, Zenon DEF Bread
<1>3. ASSUME NEW p \in Procs, Brelse(p) PROVE IBudget'
  <2>1. \A q \in Procs : InOp(q)' <=> InOp(q)
    BY <1>3, Zenon DEF Brelse, InOp, IInv, TypeOK
  <2>2. QED
    BY <1>3, <2>1, BudgetUnchanged, Zenon DEF Brelse
<1>4. ASSUME NEW p \in Procs, NEW v \in Vals, LogWrite(p, v) PROVE IBudget'
  <2>1. pc' = pc /\ UNCHANGED <<outstanding, hdr>>
    BY <1>4, Zenon DEF LogWrite, Panic
  <2>2. \A q \in Procs : InOp(q)' <=> InOp(q)
    BY <2>1, Zenon DEF InOp
  <2>3. CASE Panic
    BY <2>2, <2>3, BudgetUnchanged, Zenon DEF Panic
  <2>4. CASE ~ Panic
    <3>1. \A q \in Procs : q # p => wrote'[q] = wrote[q]
      BY <1>4, <2>4, Zenon DEF LogWrite, IInv, TypeOK
    <3>2. /\ IsFiniteSet(wrote'[p])
          /\ Cardinality(wrote'[p]) <= MAXOPBLOCKS
          /\ wrote'[p] \subseteq BlocksIn(lh')
          /\ BlocksIn(lh) \subseteq BlocksIn(lh')
          /\ ReservationHolds'
      BY <1>4, <2>4, LogWriteReserves, Zenon
    <3>3. Ops' = Ops
      BY <2>2, Zenon DEF Ops
    <3>4. \A q \in Procs : InOp(q)' =>
            /\ IsFiniteSet(wrote'[q])
            /\ wrote'[q] \subseteq BlocksIn(lh')
            /\ Cardinality(wrote'[q]) <= MAXOPBLOCKS
      BY <2>2, <3>1, <3>2, Zenon DEF IInv, IBudget
    <3>5. QED
      BY <2>1, <3>2, <3>3, <3>4, Zenon DEF IInv, IBudget
  <2>5. QED
    BY <2>3, <2>4, Zenon
<1>5. ASSUME NEW p \in Procs, EndOp(p) PROVE IBudget'
  <2>1. InOp(p) /\ ~ InOp(p)' /\ \A q \in Procs : q # p => (InOp(q)' <=> InOp(q))
    BY <1>5, Zenon DEF EndOp, Wakeup, InOp, IInv, TypeOK
  <2>2. /\ outstanding' = outstanding - 1 /\ UNCHANGED <<lh, hdr>>
        /\ \A q \in Procs : q # p => wrote'[q] = wrote[q]
    BY <1>5, Zenon DEF EndOp, IInv, TypeOK
  <2>3. Ops' = Ops \ {p} /\ p \in Ops
    BY <2>1, Zenon DEF Ops
  <2>4. IsFiniteSet(Ops)
    BY LogConstants, FS_Subset, Zenon DEF Ops
  <2>5. Cardinality(Ops') = outstanding - 1
    BY <2>3, <2>4, FS_RemoveElement, Zenon DEF IInv, IBudget
  <2>6. Reserved' \subseteq Reserved
    BY <2>1, <2>2, Zenon DEF Reserved
  <2>7. ReservationHolds'
    <3>1. Len(lh') \in Nat /\ Len(lh') <= Len(lh)
      BY <2>2 DEF IInv, TypeOK
    <3>2. QED
      BY <2>6, <3>1, FewerReserved, Zenon
  <2>8. QED
    BY <2>1, <2>2, <2>5, <2>7, Zenon DEF IInv, IBudget
<1>6. ASSUME NEW p \in Procs, Commit(p) \/ WriteLog(p) \/ Install(p) \/ Committed(p)
      PROVE  IBudget'
  <2>1. \A q \in Procs : InOp(q)' <=> InOp(q)
    BY <1>6, Zenon DEF Commit, HasUpdates, WriteLog, Install, Advance, Committed, Wakeup,
                InOp, IInv, TypeOK
  <2>2. QED
    BY <1>6, <2>1, BudgetUnchanged, Zenon DEF Commit, WriteLog, Install, Committed
<1>7. ASSUME NEW p \in Procs, WriteHead(p) \/ Erase(p) PROVE IBudget'
  <2>1. /\ \A q \in Procs : ~ InOp(q) /\ ~ InOp(q)'
        /\ outstanding' = outstanding
    BY <1>7, Zenon DEF WriteHead, Erase, InOp, IInv, TypeOK, IControl, CommitPCs
  <2>2. outstanding = 0
    BY <2>1, NothingReserved, Zenon DEF IInv, IBudget
  <2>3. Len(lh) \in Nat /\ Len(lh) <= LOGBLOCKS /\ Len(<<>>) = 0
    BY LogFits DEF IInv, TypeOK
  <2>4. /\ Len(lh') \in Nat /\ Len(lh') <= LOGBLOCKS
        /\ Len(hdr') <= LOGBLOCKS
    BY <1>7, <2>3, LogConstants DEF WriteHead, Erase, ClearHead
  <2>5. QED
    BY <2>1, <2>2, <2>4, IdleBudget, Zenon
<1>8. ASSUME NEW b \in Blocks, ReadFill(b) \/ Evict(b) PROVE IBudget'
  BY <1>8, BudgetUnchanged, Zenon DEF ReadFill, Evict, InOp
<1>9. CASE Crash
  <2>1. \A q \in Procs : ~ InOp(q)'
    BY <1>9, Zenon DEF Crash, InOp
  <2>2. /\ outstanding' = 0 /\ Len(lh') = 0
        /\ Len(hdr') <= LOGBLOCKS
    BY <1>9, Zenon DEF Crash, IInv, IBudget
  <2>3. QED
    BY <2>1, <2>2, IdleBudget, LogConstants
<1>10. CASE ReadHead \/ RecoverClear
  <2>1. /\ \A q \in Procs : ~ InOp(q) /\ ~ InOp(q)'
        /\ outstanding' = outstanding
    BY <1>10, Zenon DEF ReadHead, RecoverClear, InOp, IInv, IControl
  <2>2. outstanding = 0
    BY <2>1, NothingReserved, Zenon DEF IInv, IBudget
  <2>3. Len(hdr) \in Nat /\ Len(hdr) <= LOGBLOCKS /\ Len(<<>>) = 0
    BY DEF IInv, TypeOK, IBudget
  <2>4. /\ Len(lh') \in Nat /\ Len(lh') <= LOGBLOCKS
        /\ Len(hdr') <= LOGBLOCKS
    BY <1>10, <2>3, LogConstants DEF ReadHead, RecoverClear, ClearHead
  <2>5. QED
    BY <2>1, <2>2, <2>4, IdleBudget, Zenon
<1>11. CASE RecoverInstall
  BY <1>11, BudgetUnchanged, Zenon DEF RecoverInstall, InOp
<1>12. CASE UNCHANGED vars
  BY <1>12, BudgetUnchanged, Zenon DEF vars, InOp
<1>13. QED
  BY <1>1, <1>2, <1>3, <1>4, <1>5, <1>6, <1>7, <1>8, <1>9, <1>10, <1>11, <1>12, Zenon
  DEF Next, Step

-----------------------------------------------------------------------------

(* A kernel that boots from a fresh disk satisfies the invariant.           *)
LEMMA InitInv == Init => IInv
<1> SUFFICES ASSUME Init PROVE IInv
  BY Zenon
<1>1. TypeOK
  <2>1. /\ home \in [Blocks -> Vals \cup {Torn}]
        /\ slot \in [1..LOGBLOCKS -> Vals \cup {Torn}]
        /\ cache \in [Blocks -> Vals \cup {None}]
    BY Zenon DEF Init
  <2>2. pin \in [Blocks -> Nat] /\ outstanding \in Nat /\ tail \in 1..(LOGBLOCKS + 1)
    BY LogConstants DEF Init
  <2>3. hdr \in Seq(Blocks) /\ lh \in Seq(Blocks)
    BY DEF Init
  <2>4. committing \in BOOLEAN
    BY Zenon DEF Init
  <2>5. boot \in {"read_head", "install", "clear", "up", "panic"}
    BY Zenon DEF Init
  <2>6. pc \in [Procs -> PCs] /\ buf \in [Procs -> Blocks \cup {None}]
    BY Zenon DEF Init, PCs
  <2>7. wrote \in [Procs -> SUBSET Blocks]
    BY Zenon DEF Init
  <2>8. QED
    BY <2>1, <2>2, <2>3, <2>4, <2>5, <2>6, <2>7, Zenon DEF TypeOK
<1>2. \A q \in Procs : pc[q] = "idle"
  BY Zenon DEF Init
<1>3. IControl
  BY <1>2, Zenon DEF Init, IControl, InOp, CommitPCs
<1>4. IDisk
  BY <1>2 DEF Init, IDisk
<1>5. ITorn
  BY LogConstants, Zenon DEF Init, ITorn
<1>6. IPin
  BY <1>2 DEF Init, IPin, Distinct, PinnedUntilInstalled
<1>7. IBudget
  <2>1. \A q \in Procs : ~ InOp(q)
    BY <1>2, Zenon DEF InOp
  <2>2. Cardinality(Ops) = 0 /\ Cardinality(Reserved) = 0
    BY <2>1, NothingReserved, Zenon
  <2>3. QED
    BY <2>1, <2>2, LogConstants DEF Init, IBudget, ReservationHolds
<1>8. QED
  BY <1>1, <1>3, <1>4, <1>5, <1>6, <1>7, Zenon DEF IInv

(* The inductive invariant of the log holds in every reachable state.       *)
THEOREM Invariance == Spec => []IInv
<1>1. Init => IInv
  BY InitInv, Zenon
<1>2. IInv /\ [Next]_vars => IInv'
  BY TypeStep, ControlStep, DiskStep, TornStep, PinStep, BudgetStep, Zenon DEF IInv
<1>3. QED
  BY <1>1, <1>2, PTL DEF Spec

(* Type correctness. In particular no buffer ever holds a torn block, and   *)
(* the indices of write_log and install_trans stay inside the log.          *)
THEOREM TypeCorrect == Spec => []TypeOK
<1>1. IInv => TypeOK
  BY Zenon DEF IInv
<1>2. QED
  BY <1>1, Invariance, PTL

(* log.c:123-126. begin_op never promises more log slots than there are.    *)
THEOREM ReservationSafe == Spec => []ReservationHolds
<1>1. IInv => ReservationHolds
  BY Zenon DEF IInv, IBudget
<1>2. QED
  BY <1>1, Invariance, PTL

(* log.c:216-219 and 75-76. Exactly the blocks that still have to be        *)
(* installed are pinned, each once.                                         *)
THEOREM PinsSafe == Spec => []PinnedUntilInstalled
<1>1. IInv => PinnedUntilInstalled
  BY Zenon DEF IInv, IPin
<1>2. QED
  BY <1>1, Invariance, PTL
=============================================================================
