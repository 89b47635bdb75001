----------------------------- MODULE LogRefines -----------------------------
(***************************************************************************)
(* Machine-checked proofs about what the log keeps on disk: whatever was   *)
(* committed is there when the log is quiet, and each commit is one        *)
(* atomic step of AtomicDisk, crashes and recovery included.               *)
(***************************************************************************)
EXTENDS LogProofs

(* What is in the log, in the cache and on disk.                            *)

(* A buffer without a pin is a copy of its home block, and a pinned block   *)
(* has its buffer.                                                          *)
ICache ==
  /\ boot # "panic" =>
       \A b \in Blocks : cache[b] = None \/ pin[b] # 0 \/ cache[b] = home[b]
  /\ boot = "up" => \A b \in Blocks : pin[b] # 0 => cache[b] # None

(* The log blocks written so far are copies of the buffers; the blocks      *)
(* installed so far are copies of the log blocks.                           *)
ICopies ==
  /\ \A p \in Procs : pc[p] = "write_log" =>
       \A i \in 1..(tail - 1) : slot[i] = cache[lh[i]]
  /\ \A p \in Procs : pc[p] = "write_head" =>
       \A i \in 1..Len(lh) : slot[i] = cache[lh[i]]
  /\ \A p \in Procs : pc[p] = "install" =>
       \A i \in 1..Len(lh) : IF i < tail THEN slot[i] = home[lh[i]] ELSE slot[i] = cache[lh[i]]
  /\ (boot = "clear" \/ \E p \in Procs : pc[p] = "clear") =>
       \A i \in 1..Len(lh) : slot[i] = home[lh[i]]
  /\ boot = "install" => \A i \in 1..(tail - 1) : slot[i] = home[lh[i]]

(* The log is empty while nobody uses it.                                   *)
IEmpty ==
  /\ boot = "up" /\ outstanding = 0 /\ ~ committing => lh = <<>>
  /\ \A p \in Procs : pc[p] = "committed" => lh = <<>>

DInv == IInv /\ ICache /\ ICopies /\ IEmpty

-----------------------------------------------------------------------------

(* Blocks that a commit has still to copy or to install are pinned.         *)
LEMMA StillPinned ==
  ASSUME IInv, boot = "up", NEW p \in Procs, NEW i \in 1..Len(lh),
         pc[p] \in {"commit", "write_log", "write_head"} \/ (pc[p] = "install" /\ i >= tail)
  PROVE  lh[i] \in Blocks /\ pin[lh[i]] = 1
<1>1. lh[i] \in Blocks /\ Len(lh) \in Nat /\ tail \in Nat
  BY LogConstants DEF IInv, TypeOK
<1>2. i \in FirstUninstalled..Len(lh)
  BY <1>1 DEF IInv, IControl, CommitPCs, FirstUninstalled
<1> QED  BY <1>1, <1>2, Zenon DEF IInv, IPin, PinnedUntilInstalled

(* bread fills, brelse and bget give up, and install_trans updates a buffer *)
(* without losing what only the buffer has.                                 *)
LEMMA CacheStep == DInv /\ [Next]_vars => ICache'
<1> SUFFICES ASSUME DInv, [Next]_vars PROVE ICache'
  BY Zenon
<1> USE LogConstants DEF DInv, IInv, TypeOK, IControl, CommitPCs, InOp, disk, PCs, ICache, Contents
<1>1. ASSUME NEW p \in Procs, BeginOp(p) PROVE ICache'
  BY <1>1, Zenon DEF BeginOp
<1>2. ASSUME NEW p \in Procs, NEW b \in Blocks, Bread(p, b) PROVE ICache'
  BY <1>2, Zenon DEF Bread
<1>3. ASSUME NEW p \in Procs, Brelse(p) PROVE ICache'
  BY <1>3, Zenon DEF Brelse
<1>4. ASSUME NEW p \in Procs, NEW v \in Vals, LogWrite(p, v) PROVE ICache'
  <2>1. CASE boot' = "panic"
    BY <1>4, <2>1, Zenon DEF LogWrite, Panic
  <2>2. CASE boot' # "panic"
    <3>1. /\ boot = "up" /\ boot' = "up" /\ buf[p] \in Blocks /\ home' = home
          /\ cache' = [cache EXCEPT ![buf[p]] = v]
      BY <1>4, <2>2, Zenon DEF LogWrite, Panic
    <3>2. /\ \A c \in Blocks : c # buf[p] => pin'[c] = pin[c]
          /\ pin'[buf[p]] # 0
      <4>1. CASE buf[p] \in BlocksIn(lh)
        <5>1. pin' = pin
          BY <1>4, <2>2, <4>1, Zenon DEF LogWrite, Panic
        <5>2. \A q \in Procs : pc[q] \notin CommitPCs
          BY <1>4, Zenon DEF LogWrite
        <5>3. PICK i \in 1..Len(lh) : lh[i] = buf[p]
          BY <4>1, Zenon DEF BlocksIn
        <5>4. FirstUninstalled = 1
          BY <5>2, Zenon DEF FirstUninstalled
        <5>5. pin[buf[p]] = 1
          BY <3>1, <5>3, <5>4 DEF IPin, PinnedUntilInstalled
        <5> QED  BY <5>1, <5>5
      <4>2. CASE buf[p] \notin BlocksIn(lh)
        BY <1>4, <2>2, <4>2 DEF LogWrite, Panic
      <4> QED  BY <4>1, <4>2, Zenon
    <3>3. \A c \in Blocks : c # buf[p] => cache'[c] = cache[c]
      BY <3>1, Zenon
    <3>4. cache'[buf[p]] = v /\ v # None
      BY <3>1, Zenon
    <3> QED  BY <3>1, <3>2, <3>3, <3>4, Zenon
  <2> QED  BY <2>1, <2>2, Zenon
<1>5. ASSUME NEW p \in Procs, EndOp(p) PROVE ICache'
  BY <1>5, Zenon DEF EndOp, Wakeup
<1>6. ASSUME NEW p \in Procs, Commit(p) PROVE ICache'
  BY <1>6, Zenon DEF Commit, HasUpdates
<1>7. ASSUME NEW p \in Procs, WriteLog(p) PROVE ICache'
  BY <1>7, Zenon DEF WriteLog, Advance
<1>8. ASSUME NEW p \in Procs, WriteHead(p) PROVE ICache'
  BY <1>8, Zenon DEF WriteHead
<1>9. ASSUME NEW p \in Procs, Install(p) PROVE ICache'
  <2>1. /\ tail \in 1..LOGBLOCKS /\ tail \in 1..Len(lh) /\ lh[tail] \in Blocks
    BY <1>9, TailInLog, Zenon DEF Install
  <2>2. slot[tail] \in Vals
    BY <1>9, <2>1, Zenon DEF Install, IDisk
  <2>3. /\ home' = [home EXCEPT ![lh[tail]] = slot[tail]]
        /\ cache' = [cache EXCEPT ![lh[tail]] = slot[tail]]
        /\ pin' = [pin EXCEPT ![lh[tail]] = pin[lh[tail]] - 1] /\ boot = "up" /\ boot' = "up"
    BY <1>9, Zenon DEF Install, InstallTrans, Bunpin
  <2> QED  BY <2>1, <2>2, <2>3, Zenon
<1>10. ASSUME NEW p \in Procs, Erase(p) PROVE ICache'
  BY <1>10, Zenon DEF Erase, ClearHead
<1>11. ASSUME NEW p \in Procs, Committed(p) PROVE ICache'
  BY <1>11, Zenon DEF Committed, Wakeup
<1>12. ASSUME NEW b \in Blocks, ReadFill(b) \/ Evict(b) PROVE ICache'
  <2>1. CASE ReadFill(b)
    BY <2>1, NotTorn, Zenon DEF ReadFill
  <2>2. CASE Evict(b)
    BY <2>2, Zenon DEF Evict
  <2> QED  BY <1>12, <2>1, <2>2, Zenon
<1>13. CASE Crash
  BY <1>13, Zenon DEF Crash
<1>14. CASE ReadHead
  BY <1>14, Zenon DEF ReadHead
<1>15. CASE RecoverInstall
  BY <1>15, Zenon DEF RecoverInstall, InstallTrans
<1>16. CASE RecoverClear
  BY <1>16 DEF RecoverClear, ClearHead, IPin
<1>17. CASE UNCHANGED vars
  BY <1>17, Zenon DEF vars
<1>18. QED
  BY <1>1, <1>2, <1>3, <1>4, <1>5, <1>6, <1>7, <1>8, <1>9, <1>10, <1>11, <1>12, <1>13, <1>14,
     <1>15, <1>16, <1>17, Zenon DEF Next, Step

(* Nobody changes a buffer while the log copies it.                         *)
LEMMA CopiesStep == DInv /\ [Next]_vars => ICopies'
<1> SUFFICES ASSUME DInv, [Next]_vars PROVE ICopies'
  BY Zenon
<1> USE LogConstants DEF DInv, IInv, TypeOK, IControl, CommitPCs, InOp, disk, PCs, ICopies, ICache, Contents
<1>0. ICopies /\ Len(lh) \in Nat /\ tail \in Nat
  BY DEF DInv
<1>19. home \in [Blocks -> Vals \cup {Torn}] /\ cache \in [Blocks -> Vals \cup {None}]
  BY Zenon
<1>1. ASSUME NEW p \in Procs, BeginOp(p) PROVE ICopies'
  <2>1. \A q \in Procs : \A l \in {"write_log", "write_head", "install", "clear"} :
          pc'[q] = l <=> pc[q] = l
    BY <1>1 DEF BeginOp
  <2>2. UNCHANGED <<home, slot, cache, lh, tail>> /\ boot = "up" /\ boot' = "up"
    BY <1>1, Zenon DEF BeginOp
  <2> QED  BY ONLY <1>0, <2>1, <2>2, Zenon DEF ICopies
<1>2. ASSUME NEW p \in Procs, NEW b \in Blocks, Bread(p, b) PROVE ICopies'
  BY <1>2 DEF Bread
<1>3. ASSUME NEW p \in Procs, Brelse(p) PROVE ICopies'
  BY <1>3 DEF Brelse
<1>4. ASSUME NEW p \in Procs, NEW v \in Vals, LogWrite(p, v) PROVE ICopies'
  BY <1>4, Zenon DEF LogWrite, Panic
<1>5. ASSUME NEW p \in Procs, EndOp(p) PROVE ICopies'
  <2>1. \A q \in Procs : \A l \in {"write_log", "write_head", "install", "clear"} :
          pc'[q] = l <=> pc[q] = l
    BY <1>5 DEF EndOp, Wakeup
  <2>2. UNCHANGED <<home, slot, cache, lh, tail>> /\ boot = "up" /\ boot' = "up"
    BY <1>5, Zenon DEF EndOp
  <2> QED  BY ONLY <1>0, <2>1, <2>2, Zenon DEF ICopies
<1>6. ASSUME NEW p \in Procs, Commit(p) PROVE ICopies'
  BY <1>6 DEF Commit, HasUpdates
<1>7. ASSUME NEW p \in Procs, WriteLog(p) PROVE ICopies'
  <2>1. /\ tail \in 1..LOGBLOCKS /\ tail \in 1..Len(lh) /\ lh[tail] \in Blocks
    BY <1>7, TailInLog, Zenon DEF WriteLog
  <2>2. /\ slot' = [slot EXCEPT ![tail] = Contents(lh[tail])]
        /\ cache' = [cache EXCEPT ![lh[tail]] = Contents(lh[tail])]
        /\ UNCHANGED <<home, lh>> /\ boot = "up" /\ boot' = "up"
    BY <1>7, Zenon DEF WriteLog
  <2>3. \A i \in 1..tail : slot'[i] = cache'[lh[i]]
    <3> SUFFICES ASSUME NEW i \in 1..tail PROVE slot'[i] = cache'[lh[i]]
      BY Zenon
    <3>1. CASE i = tail
      BY <2>1, <2>2, <3>1
    <3>2. CASE i # tail
      <4>1. i \in 1..(tail - 1) /\ i \in 1..Len(lh) /\ i \in 1..LOGBLOCKS
        BY ONLY <1>0, <2>1, <3>2, i \in 1..tail, LogConstants
      <4>2. slot[i] = cache[lh[i]]
        BY <1>7, <4>1, Zenon DEF WriteLog
      <4>3. lh[i] # lh[tail] /\ lh[i] \in Blocks
        BY <2>1, <3>2, <4>1 DEF IPin, Distinct
      <4> QED  BY <2>2, <3>2, <4>1, <4>2, <4>3
    <3> QED  BY <3>1, <3>2, Zenon
  <2>4. /\ \A q \in Procs \ {p} : pc'[q] = pc[q] /\ pc[q] \notin CommitPCs
        /\ pc'[p] = IF tail = Len(lh) THEN "write_head" ELSE "write_log"
        /\ tail' = IF tail = Len(lh) THEN 1 ELSE tail + 1
    BY <1>7 DEF WriteLog, Advance
  <2>5. \A q \in Procs : pc'[q] = "write_log" => \A i \in 1..(tail' - 1) : slot'[i] = cache'[lh'[i]]
    BY ONLY <1>0, <2>1, <2>2, <2>3, <2>4 DEF CommitPCs
  <2>6. \A q \in Procs : pc'[q] = "write_head" => \A i \in 1..Len(lh') : slot'[i] = cache'[lh'[i]]
    BY ONLY <1>0, <2>1, <2>2, <2>3, <2>4 DEF CommitPCs
  <2>7. \A q \in Procs : pc'[q] \notin {"install", "clear"}
    BY ONLY <2>4, Zenon DEF CommitPCs
  <2> QED  BY ONLY <2>2, <2>5, <2>6, <2>7, Zenon DEF ICopies
<1>8. ASSUME NEW p \in Procs, WriteHead(p) PROVE ICopies'
  <2>1. /\ \A q \in Procs \ {p} : pc'[q] = pc[q] /\ pc[q] \notin CommitPCs
        /\ pc'[p] = "install" /\ tail = 1 /\ boot = "up"
        /\ UNCHANGED <<home, slot, cache, lh, tail, boot>>
    BY <1>8, Zenon DEF WriteHead
  <2>2. \A i \in 1..Len(lh) : slot[i] = cache[lh[i]] /\ ~ (i < tail)
    BY <1>8, <2>1 DEF WriteHead
  <2> QED  BY ONLY <2>1, <2>2, Zenon DEF ICopies, CommitPCs
<1>9. ASSUME NEW p \in Procs, Install(p) PROVE ICopies'
  <2>1. /\ tail \in 1..LOGBLOCKS /\ tail \in 1..Len(lh) /\ lh[tail] \in Blocks
    BY <1>9, TailInLog, Zenon DEF Install
  <2>2. /\ home' = [home EXCEPT ![lh[tail]] = slot[tail]]
        /\ cache' = [cache EXCEPT ![lh[tail]] = slot[tail]]
        /\ UNCHANGED <<slot, lh>> /\ boot = "up" /\ boot' = "up"
    BY <1>9, Zenon DEF Install, InstallTrans
  <2>3. \A i \in 1..Len(lh) : IF i <= tail THEN slot[i] = home'[lh[i]] ELSE slot[i] = cache'[lh[i]]
    <3> SUFFICES ASSUME NEW i \in 1..Len(lh)
                 PROVE  IF i <= tail THEN slot[i] = home'[lh[i]] ELSE slot[i] = cache'[lh[i]]
      BY Zenon
    <3>1. CASE i = tail
      BY <2>1, <2>2, <3>1
    <3>2. CASE i # tail
      <4>1. IF i < tail THEN slot[i] = home[lh[i]] ELSE slot[i] = cache[lh[i]]
        BY <1>9, Zenon DEF Install
      <4>2. lh[i] # lh[tail] /\ lh[i] \in Blocks
        BY <2>1, <3>2 DEF IPin, Distinct
      <4>3. home'[lh[i]] = home[lh[i]] /\ cache'[lh[i]] = cache[lh[i]]
        BY ONLY <1>19, <2>1, <2>2, <4>2
      <4>4. i <= tail <=> i < tail
        BY ONLY <1>0, <3>2, i \in 1..Len(lh)
      <4> QED  BY ONLY <4>1, <4>3, <4>4
    <3> QED  BY <3>1, <3>2, Zenon
  <2>4. /\ \A q \in Procs \ {p} : pc'[q] = pc[q] /\ pc[q] \notin CommitPCs
        /\ pc'[p] = IF tail = Len(lh) THEN "clear" ELSE "install"
        /\ tail' = IF tail = Len(lh) THEN 1 ELSE tail + 1
    BY <1>9, Zenon DEF Install, Advance
  <2>5. \A q \in Procs : pc'[q] \notin {"write_log", "write_head"}
    BY ONLY <2>4, Zenon DEF CommitPCs
  <2>6. ASSUME NEW q \in Procs, pc'[q] = "install", NEW i \in 1..Len(lh')
        PROVE  IF i < tail' THEN slot'[i] = home'[lh'[i]] ELSE slot'[i] = cache'[lh'[i]]
    <3>1. q = p /\ tail # Len(lh)
      BY ONLY <2>4, <2>6, Zenon DEF CommitPCs
    <3>2. i \in 1..Len(lh) /\ (i < tail' <=> i <= tail)
      BY ONLY <1>0, <2>2, <2>4, <3>1, i \in 1..Len(lh')
    <3> QED  BY ONLY <2>2, <2>3, <3>2
  <2>7. (\E q \in Procs : pc'[q] = "clear") => \A i \in 1..Len(lh') : slot'[i] = home'[lh'[i]]
    BY ONLY <1>0, <2>1, <2>2, <2>3, <2>4 DEF CommitPCs
  <2> QED  BY ONLY <2>2, <2>5, <2>6, <2>7, Zenon DEF ICopies
<1>10. ASSUME NEW p \in Procs, Erase(p) PROVE ICopies'
  BY <1>10 DEF Erase, ClearHead
<1>11. ASSUME NEW p \in Procs, Committed(p) PROVE ICopies'
  BY <1>11 DEF Committed, Wakeup
<1>12. ASSUME NEW b \in Blocks, ReadFill(b) \/ Evict(b) PROVE ICopies'
  <2>1. /\ boot = "up" /\ UNCHANGED <<home, slot, lh, tail, boot, pc>>
        /\ \A c \in Blocks : pin[c] # 0 => cache'[c] = cache[c]
    BY <1>12 DEF ReadFill, Evict
  <2>2. \A q \in Procs : \A i \in 1..Len(lh) :
          pc[q] \in {"write_log", "write_head"} \/ (pc[q] = "install" /\ i >= tail)
            => cache'[lh[i]] = cache[lh[i]]
    BY <2>1, StillPinned
  <2>3. \A q \in Procs : \A i \in 1..(tail - 1) : pc[q] = "write_log" => i \in 1..Len(lh)
    OBVIOUS
  <2>4. \A i \in 1..Len(lh) : i < tail \/ i >= tail
    BY ONLY <1>0
  <2> QED  BY ONLY <1>0, <2>1, <2>2, <2>3, <2>4 DEF ICopies
<1>13. CASE Crash
  BY <1>13, Zenon DEF Crash
<1>14. CASE ReadHead
  BY <1>14 DEF ReadHead
<1>15. CASE RecoverInstall
  <2>1. /\ tail \in 1..LOGBLOCKS /\ tail \in 1..Len(lh) /\ lh[tail] \in Blocks
    BY <1>15, TailInLog, Zenon DEF RecoverInstall
  <2>2. /\ home' = [home EXCEPT ![lh[tail]] = slot[tail]]
        /\ UNCHANGED <<slot, lh, pc>> /\ boot = "install"
        /\ boot' = IF tail = Len(lh) THEN "clear" ELSE "install"
        /\ tail' = IF tail = Len(lh) THEN 1 ELSE tail + 1
    BY <1>15, Zenon DEF RecoverInstall, InstallTrans
  <2>3. \A i \in 1..tail : slot[i] = home'[lh[i]]
    <3> SUFFICES ASSUME NEW i \in 1..tail PROVE slot[i] = home'[lh[i]]
      BY Zenon
    <3>1. CASE i = tail
      BY <2>1, <2>2, <3>1, Zenon
    <3>2. CASE i # tail
      <4>1. i \in 1..(tail - 1) /\ i \in 1..Len(lh)
        BY <2>1, <3>2
      <4>2. slot[i] = home[lh[i]]
        BY <2>2, <4>1, Zenon
      <4>3. lh[i] # lh[tail] /\ lh[i] \in Blocks
        BY <2>1, <3>2, <4>1 DEF IPin, Distinct
      <4> QED  BY <2>2, <4>2, <4>3, Zenon
    <3> QED  BY <3>1, <3>2, Zenon
  <2> QED  BY <2>1, <2>2, <2>3
<1>16. CASE RecoverClear
  BY <1>16, Zenon DEF RecoverClear, ClearHead
<1>17. CASE UNCHANGED vars
  BY <1>17 DEF vars
<1>18. QED
  BY <1>1, <1>2, <1>3, <1>4, <1>5, <1>6, <1>7, <1>8, <1>9, <1>10, <1>11, <1>12, <1>13, <1>14,
     <1>15, <1>16, <1>17, Zenon DEF Next, Step

(* The last operation commits, and a commit empties the log.                *)
LEMMA EmptyStep == DInv /\ [Next]_vars => IEmpty'
<1> SUFFICES ASSUME DInv, [Next]_vars PROVE IEmpty'
  BY Zenon
<1> USE LogConstants DEF DInv, IInv, TypeOK, IControl, CommitPCs, InOp, disk, PCs, IEmpty
<1>1. ASSUME NEW p \in Procs, BeginOp(p) PROVE IEmpty'
  BY <1>1 DEF BeginOp
<1>2. ASSUME NEW p \in Procs, NEW b \in Blocks, Bread(p, b) PROVE IEmpty'
  BY <1>2, Zenon DEF Bread
<1>3. ASSUME NEW p \in Procs, Brelse(p) PROVE IEmpty'
  BY <1>3, Zenon DEF Brelse
<1>4. ASSUME NEW p \in Procs, NEW v \in Vals, LogWrite(p, v) PROVE IEmpty'
  BY <1>4 DEF LogWrite, Panic
<1>5. ASSUME NEW p \in Procs, EndOp(p) PROVE IEmpty'
  <2>1. outstanding >= 1 /\ ~ committing
    BY <1>5, OpCounted, Zenon DEF EndOp
  <2>2. outstanding' = 0 => committing'
    BY <1>5, <2>1 DEF EndOp
  <2>3. \A q \in Procs : pc'[q] # "committed"
    BY <1>5, <2>1, Zenon DEF EndOp, Wakeup
  <2> QED  BY <2>2, <2>3, Zenon
<1>6. ASSUME NEW p \in Procs, Commit(p) PROVE IEmpty'
  BY <1>6 DEF Commit, HasUpdates
<1>7. ASSUME NEW p \in Procs, WriteLog(p) PROVE IEmpty'
  BY <1>7, Zenon DEF WriteLog, Advance
<1>8. ASSUME NEW p \in Procs, WriteHead(p) PROVE IEmpty'
  BY <1>8, Zenon DEF WriteHead
<1>9. ASSUME NEW p \in Procs, Install(p) PROVE IEmpty'
  BY <1>9, Zenon DEF Install, Advance, InstallTrans, Bunpin
<1>10. ASSUME NEW p \in Procs, Erase(p) PROVE IEmpty'
  BY <1>10, Zenon DEF Erase, ClearHead
<1>11. ASSUME NEW p \in Procs, Committed(p) PROVE IEmpty'
  BY <1>11, Zenon DEF Committed, Wakeup
<1>12. ASSUME NEW b \in Blocks, ReadFill(b) \/ Evict(b) PROVE IEmpty'
  BY <1>12, Zenon DEF ReadFill, Evict
<1>13. CASE Crash
  BY <1>13, Zenon DEF Crash
<1>14. CASE ReadHead
  BY <1>14, Zenon DEF ReadHead
<1>15. CASE RecoverInstall
  BY <1>15, Zenon DEF RecoverInstall, InstallTrans
<1>16. CASE RecoverClear
  BY <1>16, Zenon DEF RecoverClear, ClearHead
<1>17. CASE UNCHANGED vars
  BY <1>17, Zenon DEF vars
<1>18. QED
  BY <1>1, <1>2, <1>3, <1>4, <1>5, <1>6, <1>7, <1>8, <1>9, <1>10, <1>11, <1>12, <1>13, <1>14,
     <1>15, <1>16, <1>17, Zenon DEF Next, Step

(* The invariant extended to the data holds in every reachable state.       *)
THEOREM DataInvariance == Spec => []DInv
<1>1. Init => DInv
  <2>1. Init => IInv
    BY InitInv, Zenon
  <2>2. Init => ICache /\ ICopies /\ IEmpty
    BY Zenon DEF Init, ICache, ICopies, IEmpty
  <2> QED  BY <2>1, <2>2, Zenon DEF DInv
<1>2. DInv /\ [Next]_vars => DInv'
  BY TypeStep, ControlStep, DiskStep, TornStep, PinStep, BudgetStep,
     CacheStep, CopiesStep, EmptyStep, Zenon DEF DInv, IInv
<1> QED  BY <1>1, <1>2, PTL DEF Spec

-----------------------------------------------------------------------------
(* The log as an atomic disk.                                               *)

(* With the header empty what is on disk is durable.                        *)
LEMMA DurableHome == hdr = <<>> => Durable = [b \in Blocks |-> home[b]]
BY DEF Durable, BlocksIn

(* The same of the state after a step.                                      *)
LEMMA DurableHomeNext == hdr' = <<>> => Durable' = [b \in Blocks |-> home'[b]]
<1>1. (hdr = <<>> => Durable = [b \in Blocks |-> home[b]])'
  BY DurableHome, PTL
<1> QED  BY <1>1, Zenon

(* A logged block comes from its only place in the log.                     *)
LEMMA DurableLogged ==
  Distinct(hdr) => \A i \in 1..Len(hdr) : hdr[i] \in Blocks => Durable[hdr[i]] = slot[i]
<1> SUFFICES ASSUME Distinct(hdr), NEW i \in 1..Len(hdr), hdr[i] \in Blocks
             PROVE  Durable[hdr[i]] = slot[i]
  BY Zenon
<1>1. (CHOOSE j \in 1..Len(hdr) : hdr[j] = hdr[i]) = i
  BY Zenon DEF Distinct
<1> QED  BY <1>1, Zenon DEF Durable, BlocksIn

(* The same of the state after a step.                                      *)
LEMMA DurableLoggedNext ==
  Distinct(hdr') => \A i \in 1..Len(hdr') : hdr'[i] \in Blocks => Durable'[hdr'[i]] = slot'[i]
<1>1. (Distinct(hdr) => \A i \in 1..Len(hdr) : hdr[i] \in Blocks => Durable[hdr[i]] = slot[i])'
  BY DurableLogged, PTL
<1> QED  BY <1>1, Zenon DEF Distinct

(* Without pins a reader sees the home blocks.                              *)
LEMMA ViewHome ==
  DInv /\ boot = "up" /\ lh = <<>> => View = [b \in Blocks |-> home[b]]
<1> SUFFICES ASSUME DInv, boot = "up", lh = <<>> PROVE View = [b \in Blocks |-> home[b]]
  BY Zenon
<1>1. \A b \in Blocks : pin[b] = 0
  <2>1. Len(lh) = 0 /\ \A p \in Procs : pc[p] # "install"
    BY DEF DInv, IInv, IControl
  <2>2. FirstUninstalled = 1
    BY <2>1 DEF FirstUninstalled
  <2> QED  BY <2>1, <2>2 DEF DInv, IInv, IPin, PinnedUntilInstalled
<1>2. \A b \in Blocks : Contents(b) = home[b]
  BY <1>1, Zenon DEF DInv, ICache, Contents
<1> QED  BY <1>2, Zenon DEF View

(* log.c:138-165. When no operation and no commit is in progress, all that  *)
(* was written survives a crash.                                            *)
THEOREM QuiescenceSafe == Spec => []QuiescentDurable
<1>1. ASSUME DInv PROVE QuiescentDurable
  <2> SUFFICES ASSUME boot = "up", outstanding = 0, ~ committing PROVE View = Durable
    BY Zenon DEF QuiescentDurable
  <2>1. lh = <<>> /\ hdr = <<>>
    BY <1>1, Zenon DEF DInv, IInv, IEmpty, IDisk, IControl, CommitPCs
  <2> QED  BY <1>1, <2>1, ViewHome, DurableHome, Zenon
<1> QED  BY <1>1, DataInvariance, PTL
(* The processes between begin_op and end_op stay the same.                 *)
SameOps == boot = "up" /\ boot' = "up" /\ \A q \in Procs : InOp(q)' <=> InOp(q)

(* Nobody begins or ends an operation.                                      *)
LEMMA SameActive == ASSUME SameOps PROVE Active' = Active
BY Zenon DEF Active, SameOps

(* Steps that do not touch the disk leave what is durable.                  *)
LEMMA SameDurable == ASSUME UNCHANGED disk PROVE Durable' = Durable
BY DEF Durable, disk

(* Every operation still sees the same.                                     *)
LEMMA SameView ==
  ASSUME boot = "up", boot' = "up", \A b \in Blocks : Contents(b)' = Contents(b)
  PROVE  View' = View
BY Zenon DEF View

(* A step on the log area while the header is empty changes nothing that    *)
(* recovery would look at, nor does install_trans, which copies a block the *)
(* header covers.                                                           *)
LEMMA DurableKept ==
  ASSUME DInv, UNCHANGED hdr,
         \A i \in 1..Len(hdr) : slot'[i] = slot[i],
         \A b \in Blocks : b \notin BlocksIn(hdr) => home'[b] = home[b]
  PROVE  Durable' = Durable
<1>1. ASSUME NEW b \in Blocks, b \in BlocksIn(hdr)
      PROVE  (CHOOSE i \in 1..Len(hdr) : hdr[i] = b) \in 1..Len(hdr)
  BY <1>1, Zenon DEF BlocksIn
<1> QED  BY <1>1 DEF Durable, BlocksIn

(* A commit runs while no operation is in progress.                         *)
LEMMA CommitAlone ==
  ASSUME DInv, NEW p \in Procs, pc[p] \in CommitPCs
  PROVE  Active = {} /\ \A q \in Procs \ {p} : pc[q] \notin CommitPCs
BY Zenon DEF DInv, IInv, IControl, Active

(* What the buffer cache does for operations and readers is not visible.    *)
LEMMA FillSteps ==
  ASSUME DInv, DInv', NEW b \in Blocks,
         ReadFill(b) \/ Evict(b) \/ \E p \in Procs : Bread(p, b)
  PROVE  [Atomic!Next]_(Atomic!vars)
<1> USE DEF disk
<1>0. TypeOK /\ None \notin Vals
  BY LogConstants, Zenon DEF DInv, IInv
<1>1. /\ boot = "up" /\ UNCHANGED <<home, hdr, slot, boot>>
      /\ cache' = [cache EXCEPT ![b] = Contents(b)] \/ cache' = [cache EXCEPT ![b] = None]
  BY Zenon DEF Bread, ReadFill, Evict, Contents
<1>2. \A c \in Blocks : c # b => Contents(c)' = Contents(c)
  BY <1>0, <1>1, Zenon DEF Contents, TypeOK
<1>3. Contents(b)' = Contents(b)
  <2>1. Contents(b) \in Vals
    BY <1>1, NotTorn, Zenon DEF DInv
  <2>2. CASE ReadFill(b) \/ \E p \in Procs : Bread(p, b)
    BY <1>0, <2>1, <2>2, Zenon DEF Bread, ReadFill, Contents, TypeOK
  <2>3. CASE Evict(b)
    <3>1. cache[b] = home[b]
      BY <2>3, Zenon DEF Evict, DInv, ICache
    <3> QED  BY <1>0, <2>3, <3>1, Zenon DEF Evict, Contents, TypeOK
  <2> QED  BY <2>2, <2>3, Zenon
<1>4. View' = View /\ Durable' = Durable
  BY <1>1, <1>2, <1>3, SameView, SameDurable, Zenon
<1>5. SameOps
  BY <1>0, Zenon DEF Bread, ReadFill, Evict, SameOps, InOp, TypeOK
<1> QED  BY <1>4, <1>5, SameActive, Zenon DEF Atomic!vars

(* The steps of begin_op, of the buffer cache and of end_op.                *)
LEMMA OpSteps ==
  ASSUME DInv, DInv', NEW p \in Procs,
         \/ BeginOp(p) \/ Brelse(p) \/ EndOp(p)
         \/ \E b \in Blocks : Bread(p, b)
         \/ \E v \in Vals : LogWrite(p, v)
  PROVE  [Atomic!Next]_(Atomic!vars)
<1> USE DEF disk
<1>0. TypeOK /\ None \notin Vals
  BY LogConstants, Zenon DEF DInv, IInv
<1>1. CASE BeginOp(p)
  <2>1. View' = View /\ Durable' = Durable
    BY <1>1, SameView, SameDurable, Zenon DEF BeginOp, Contents
  <2>2. CASE pc' = [pc EXCEPT ![p] = "asleep"]
    <3>1. SameOps
      BY <1>0, <1>1, <2>2, Zenon DEF BeginOp, SameOps, InOp, TypeOK
    <3> QED  BY <2>1, <3>1, SameActive, Zenon DEF Atomic!vars
  <2>3. CASE pc' = [pc EXCEPT ![p] = "op"]
    <3>1. p \notin Active /\ Active' = Active \cup {p}
      BY <1>0, <1>1, <2>3, Zenon DEF BeginOp, Active, InOp, TypeOK
    <3>2. Atomic!Begin(p)
      BY <2>1, <3>1, Zenon DEF Atomic!Begin
    <3> QED  BY <3>2, Zenon DEF Atomic!Next
  <2> QED  BY <1>1, <2>2, <2>3, Zenon DEF BeginOp
<1>2. CASE Brelse(p)
  <2>1. View' = View /\ Durable' = Durable
    BY <1>2, SameView, SameDurable, Zenon DEF Brelse, Contents
  <2>2. SameOps
    BY <1>0, <1>2, Zenon DEF Brelse, SameOps, InOp, TypeOK
  <2> QED  BY <2>1, <2>2, SameActive, Zenon DEF Atomic!vars
<1>3. CASE EndOp(p)
  <2>1. ~ committing /\ boot = "up" /\ boot' = "up"
    BY <1>3, Zenon DEF EndOp, DInv, IInv, IControl, InOp
  <2>2. View' = View /\ Durable' = Durable
    BY <1>3, <2>1, SameView, SameDurable, Zenon DEF EndOp, Contents
  <2>3. /\ InOp(p) /\ ~ InOp(p)'
        /\ \A q \in Procs \ {p} : InOp(q)' <=> InOp(q)
    BY <1>0, <1>3, Zenon DEF EndOp, InOp, Wakeup, TypeOK
  <2>4. p \in Active /\ Active' = Active \ {p}
    BY <2>1, <2>3, Zenon DEF Active
  <2>5. Atomic!End(p)
    BY <2>2, <2>4, Zenon DEF Atomic!End
  <2> QED  BY <2>5, Zenon DEF Atomic!Next
<1>4. CASE \E b \in Blocks : Bread(p, b)
  BY <1>4, FillSteps, Zenon
<1>5. ASSUME NEW v \in Vals, LogWrite(p, v)
      PROVE  [Atomic!Next]_(Atomic!vars)
  <2>1. boot = "up" /\ UNCHANGED <<home, hdr, slot>> /\ Durable' = Durable
    BY <1>5, SameDurable, Zenon DEF LogWrite, Panic
  <2>2. CASE Panic
    <3>1. View' = Durable' /\ Active' = {}
      BY <2>2, Zenon DEF Panic, View, Active
    <3>2. Atomic!Crash
      BY <2>1, <3>1, Zenon DEF Atomic!Crash
    <3> QED  BY <3>2, Zenon DEF Atomic!Next
  <2>3. CASE ~ Panic
    <3>1. /\ cache' = [cache EXCEPT ![buf[p]] = v] /\ boot' = "up" /\ UNCHANGED pc
          /\ pc[p] = "buf"
      BY <1>5, <2>3, <2>1, Zenon DEF LogWrite
    <3>2. buf[p] \in Blocks
      BY <3>1, Zenon DEF DInv, IInv, IControl
    <3>3. p \in Active /\ Active' = Active
      BY <2>1, <3>1, Zenon DEF Active, InOp
    <3>4. View' = [View EXCEPT ![buf[p]] = v]
      <4>1. \A c \in Blocks : Contents(c)' = IF c = buf[p] THEN v ELSE Contents(c)
        BY <1>0, <2>1, <3>1, <3>2, Zenon DEF Contents, TypeOK
      <4> QED  BY <2>1, <3>1, <3>2, <4>1, Zenon DEF View
    <3>5. Atomic!Write(p, buf[p], v)
      BY <2>1, <3>3, <3>4, Zenon DEF Atomic!Write
    <3> QED  BY <3>2, <3>5, Zenon DEF Atomic!Next
  <2> QED  BY <2>2, <2>3, Zenon
<1> QED  BY <1>1, <1>2, <1>3, <1>4, <1>5, Zenon

(* The steps of commit: only write_head changes what is durable.            *)
LEMMA CommitSteps ==
  ASSUME DInv, DInv', NEW p \in Procs,
         \/ Commit(p) \/ WriteLog(p) \/ WriteHead(p) \/ Install(p) \/ Erase(p) \/ Committed(p)
  PROVE  [Atomic!Next]_(Atomic!vars)
<1> USE DEF disk
<1>0. TypeOK /\ None \notin Vals /\ Distinct(lh) /\ Distinct(hdr)
  BY LogConstants, Zenon DEF DInv, IInv, IPin
<1>1. boot = "up" /\ boot' = "up" /\ pc[p] \in CommitPCs
  BY Zenon DEF Commit, WriteLog, WriteHead, Install, Erase, Committed, CommitPCs
<1>2. Active = {}
  BY <1>1, CommitAlone, Zenon
<1>3. Active' = {}
  <2>1. \A q \in Procs : ~ InOp(q)
    BY <1>1, Zenon DEF DInv, IInv, IControl
  <2>2. \A q \in Procs : ~ InOp(q)'
    BY <1>0, <2>1, Zenon DEF Commit, WriteLog, WriteHead, Install, Erase, Committed, Advance,
       Wakeup,
                      InOp, TypeOK
  <2> QED  BY <2>2, Zenon DEF Active
<1>4. CASE Commit(p) \/ Committed(p)
  <2>1. View' = View /\ Durable' = Durable
    BY <1>1, <1>4, SameView, SameDurable, Zenon DEF Commit, Committed, Contents
  <2> QED  BY <1>2, <1>3, <2>1, Zenon DEF Atomic!vars
<1>5. CASE WriteLog(p)
  <2>1. tail \in 1..Len(lh) /\ lh[tail] \in Blocks
    BY <1>5, TailInLog, Zenon DEF WriteLog, DInv
  <2>2. hdr = <<>> /\ UNCHANGED <<home, hdr>>
    BY <1>1, <1>5, CommitAlone, Zenon DEF WriteLog, DInv, IInv, IDisk, CommitPCs
  <2>3. Durable' = Durable
    BY <2>2, DurableHome, DurableHomeNext, Zenon
  <2>4. \A c \in Blocks : Contents(c)' = Contents(c)
    <3>1. cache' = [cache EXCEPT ![lh[tail]] = Contents(lh[tail])]
      BY <1>5, Zenon DEF WriteLog
    <3>2. Contents(lh[tail]) # None
      BY <1>0, <1>1, <2>1, NotTorn, Zenon DEF DInv
    <3> QED  BY <1>0, <2>1, <2>2, <3>1, <3>2, Zenon DEF Contents, TypeOK
  <2> QED  BY <1>1, <1>2, <1>3, <2>3, <2>4, SameView, Zenon DEF Atomic!vars
<1>6. CASE WriteHead(p)
  <2>1. /\ UNCHANGED <<home, slot, cache, lh>> /\ hdr' = lh /\ pc[p] = "write_head"
    BY <1>6, Zenon DEF WriteHead
  <2>2. View' = View
    BY <1>1, <2>1, SameView, Zenon DEF Contents
  <2>3. ASSUME NEW b \in Blocks PROVE Durable'[b] = Contents(b)
    <3>1. CASE b \in BlocksIn(lh)
      <4>1. PICK i \in 1..Len(lh) : lh[i] = b
        BY <3>1, Zenon DEF BlocksIn
      <4>2. Durable'[b] = slot[i]
        BY <1>0, <2>1, <4>1, DurableLoggedNext, Zenon
      <4>3. slot[i] = cache[b]
        BY <2>1, <4>1, Zenon DEF DInv, ICopies
      <4>4. cache[b] # None
        BY <1>1, <2>1, <4>1, StillPinned DEF DInv, ICache
      <4> QED  BY <4>2, <4>3, <4>4, Zenon DEF Contents
    <3>2. CASE b \notin BlocksIn(lh)
      <4>1. pin[b] = 0
        <5>1. FirstUninstalled = 1
          BY <1>1, <2>1, CommitAlone, Zenon DEF FirstUninstalled, CommitPCs
        <5> QED  BY <1>1, <3>2, <5>1, Zenon DEF DInv, IInv, IPin, PinnedUntilInstalled, BlocksIn
      <4>2. Contents(b) = home[b]
        BY <1>1, <4>1, Zenon DEF DInv, ICache, Contents
      <4> QED  BY <2>1, <3>2, <4>2, Zenon DEF Durable
    <3> QED  BY <3>1, <3>2, Zenon
  <2>4. Durable' = View
    BY <1>1, <2>3, Zenon DEF Durable, View
  <2>5. Atomic!Commit
    BY <1>2, <1>3, <2>2, <2>4, Zenon DEF Atomic!Commit
  <2> QED  BY <2>5, Zenon DEF Atomic!Next
<1>7. CASE Install(p)
  <2>1. tail \in 1..Len(lh) /\ lh[tail] \in Blocks
    BY <1>7, TailInLog, Zenon DEF Install, DInv
  <2>2. hdr = lh /\ UNCHANGED <<hdr, slot>> /\ pc[p] = "install"
    BY <1>7, Zenon DEF Install, DInv, IInv, IDisk
  <2>3. /\ home' = [home EXCEPT ![lh[tail]] = slot[tail]]
        /\ cache' = [cache EXCEPT ![lh[tail]] = slot[tail]]
    BY <1>7, Zenon DEF Install, InstallTrans
  <2>4. Durable' = Durable
    <3>1. \A b \in Blocks : b \notin BlocksIn(hdr) => home'[b] = home[b]
      BY <1>0, <2>1, <2>2, <2>3, Zenon DEF BlocksIn, TypeOK
    <3> QED  BY <2>2, <3>1, DurableKept, Zenon
  <2>5. slot[tail] = cache[lh[tail]]
    BY <1>0, <2>1, <2>2 DEF DInv, ICopies, TypeOK
  <2>6. cache[lh[tail]] # None
    BY <1>0, <1>1, <2>1, <2>2, StillPinned DEF DInv, ICache, TypeOK
  <2>7. \A c \in Blocks : Contents(c)' = Contents(c)
    BY <1>0, <2>1, <2>3, <2>5, <2>6, Zenon DEF Contents, TypeOK
  <2> QED  BY <1>1, <1>2, <1>3, <2>4, <2>7, SameView, Zenon DEF Atomic!vars
<1>8. CASE Erase(p)
  <2>1. /\ hdr = lh /\ hdr' = <<>> /\ UNCHANGED <<home, slot, cache>> /\ pc[p] = "clear"
    BY <1>8, Zenon DEF Erase, ClearHead, DInv, IInv, IDisk
  <2>2. ASSUME NEW b \in Blocks PROVE Durable[b] = home[b]
    <3>1. CASE b \in BlocksIn(hdr)
      <4>1. PICK i \in 1..Len(hdr) : hdr[i] = b
        BY <3>1, Zenon DEF BlocksIn
      <4> QED  BY <1>0, <2>1, <4>1, DurableLogged, Zenon DEF DInv, ICopies
    <3>2. CASE b \notin BlocksIn(hdr)
      BY <3>2, Zenon DEF Durable
    <3> QED  BY <3>1, <3>2, Zenon
  <2>3. Durable' = Durable
    BY <2>1, <2>2, DurableHomeNext, Zenon DEF Durable
  <2>4. View' = View
    BY <1>1, <2>1, SameView, Zenon DEF Contents
  <2> QED  BY <1>2, <1>3, <2>3, <2>4, Zenon DEF Atomic!vars
<1> QED  BY <1>4, <1>5, <1>6, <1>7, <1>8, Zenon

(* A power failure, whatever it tears, and the steps of the recovery.       *)
LEMMA RecoverySteps ==
  ASSUME DInv, DInv', Crash \/ ReadHead \/ RecoverInstall \/ RecoverClear
  PROVE  [Atomic!Next]_(Atomic!vars)
<1> USE DEF disk
<1>0. TypeOK /\ Distinct(lh) /\ Distinct(hdr)
  BY LogConstants, Zenon DEF DInv, IInv, IPin
<1>1. CASE Crash
  <2>1. boot' = "read_head" /\ UNCHANGED hdr
    BY <1>1, Zenon DEF Crash
  <2>2. \A b \in Blocks : b \notin BlocksIn(hdr) => home'[b] = home[b]
    <3>1. CASE UNCHANGED home
      BY <3>1, Zenon
    <3>2. CASE /\ boot = "install" \/ \E p \in Procs : boot = "up" /\ pc[p] = "install"
               /\ home' = [home EXCEPT ![lh[tail]] = Torn]
      <4>1. tail \in 1..Len(lh) /\ hdr = lh
        BY <3>2, TailInLog, Zenon DEF DInv, IInv, IDisk
      <4> QED  BY <1>0, <3>2, <4>1, Zenon DEF BlocksIn, TypeOK
    <3> QED  BY <1>1, <3>1, <3>2, Zenon DEF Crash
  <2>3. \A i \in 1..Len(hdr) : slot'[i] = slot[i]
    <3>1. CASE UNCHANGED slot
      BY <3>1, Zenon
    <3>2. CASE boot = "up" /\ \E p \in Procs : pc[p] = "write_log"
      <4>1. hdr = <<>>
        BY <3>2, CommitAlone, Zenon DEF DInv, IInv, IDisk, CommitPCs
      <4> QED  BY <4>1
    <3> QED  BY <1>1, <3>1, <3>2, Zenon DEF Crash
  <2>4. Durable' = Durable
    BY <2>1, <2>2, <2>3, DurableKept, Zenon
  <2>5. View' = Durable' /\ Active' = {}
    BY <2>1, Zenon DEF View, Active
  <2>6. Atomic!Crash
    BY <2>4, <2>5, Zenon DEF Atomic!Crash
  <2> QED  BY <2>6, Zenon DEF Atomic!Next
<1>2. CASE ReadHead
  <2>1. boot # "up" /\ boot' # "up" /\ Durable' = Durable
    BY <1>2, SameDurable, Zenon DEF ReadHead
  <2> QED  BY <2>1, Zenon DEF View, Active, Atomic!vars
<1>3. CASE RecoverInstall
  <2>1. tail \in 1..Len(lh) /\ lh[tail] \in Blocks
    BY <1>3, TailInLog, Zenon DEF RecoverInstall, DInv
  <2>2. /\ hdr = lh /\ UNCHANGED <<hdr, slot>> /\ boot # "up" /\ boot' # "up"
        /\ home' = [home EXCEPT ![lh[tail]] = slot[tail]]
    BY <1>3, Zenon DEF RecoverInstall, InstallTrans, DInv, IInv, IDisk
  <2>3. \A b \in Blocks : b \notin BlocksIn(hdr) => home'[b] = home[b]
    BY <1>0, <2>1, <2>2, Zenon DEF BlocksIn, TypeOK
  <2>4. Durable' = Durable
    BY <2>2, <2>3, DurableKept, Zenon
  <2> QED  BY <2>2, <2>4, Zenon DEF View, Active, Atomic!vars
<1>4. CASE RecoverClear
  <2>1. /\ hdr = lh /\ hdr' = <<>> /\ lh' = <<>> /\ UNCHANGED <<home, slot, cache>>
        /\ boot = "clear" /\ boot' = "up" /\ UNCHANGED pc
    BY <1>4, Zenon DEF RecoverClear, ClearHead, DInv, IInv, IDisk
  <2>2. ASSUME NEW b \in Blocks PROVE Durable[b] = home[b]
    <3>1. CASE b \in BlocksIn(hdr)
      <4>1. PICK i \in 1..Len(hdr) : hdr[i] = b
        BY <3>1, Zenon DEF BlocksIn
      <4> QED  BY <1>0, <2>1, <4>1, DurableLogged DEF DInv, ICopies
    <3>2. CASE b \notin BlocksIn(hdr)
      BY <3>2, Zenon DEF Durable
    <3> QED  BY <3>1, <3>2, Zenon
  <2>3. Durable' = Durable
    BY <2>1, <2>2, DurableHomeNext, Zenon DEF Durable
  <2>4. View' = Durable'
    <3>1. (DInv /\ boot = "up" /\ lh = <<>> => View = [b \in Blocks |-> home[b]])'
      BY ViewHome, PTL
    <3> QED  BY <2>1, <3>1, DurableHomeNext, Zenon
  <2>5. View = Durable
    BY <2>1, Zenon DEF View
  <2>6. Active = {} /\ Active' = {}
    BY <2>1, Zenon DEF Active, InOp, DInv, IInv, IControl
  <2> QED  BY <2>3, <2>4, <2>5, <2>6, Zenon DEF Atomic!vars
<1> QED  BY <1>1, <1>2, <1>3, <1>4, Zenon

(* log.c:9-15, 94-96. The log, with its cache, its commits and its          *)
(* recovery, is an atomic disk: for any number of processes and blocks a    *)
(* group of operations survives a crash entirely or not at all.             *)
THEOREM LogImplementsAtomicDisk == Spec => AtomicSpec
<1>1. Init => Atomic!Init
  <2> SUFFICES ASSUME Init PROVE Atomic!Init
    BY Zenon
  <2>1. Durable = home /\ View = Durable /\ Active = {}
    BY DurableHome, Zenon DEF Init, View, Active
  <2> QED  BY <2>1, Zenon DEF Init, Atomic!Init
<1>2. DInv /\ DInv' /\ [Next]_vars => [Atomic!Next]_(Atomic!vars)
  <2> SUFFICES ASSUME DInv, DInv', [Next]_vars PROVE [Atomic!Next]_(Atomic!vars)
    BY Zenon
  <2>1. CASE \E p \in Procs : Step(p)
    BY <2>1, OpSteps, CommitSteps, Zenon DEF Step
  <2>2. CASE \E b \in Blocks : ReadFill(b) \/ Evict(b)
    BY <2>2, FillSteps, Zenon
  <2>3. CASE Crash \/ ReadHead \/ RecoverInstall \/ RecoverClear
    BY <2>3, RecoverySteps, Zenon
  <2>4. CASE UNCHANGED vars
    <3>1. View' = View /\ Durable' = Durable /\ Active' = Active
      BY <2>4 DEF vars, View, Durable, Active, InOp, Contents
    <3> QED  BY <3>1, Zenon DEF Atomic!vars
  <2> QED  BY <2>1, <2>2, <2>3, <2>4, Zenon DEF Next
<1>3. Spec => []DInv
  BY DataInvariance, Zenon
<1> QED  BY <1>1, <1>2, <1>3, PTL DEF Spec, AtomicSpec, Atomic!Spec
=============================================================================
