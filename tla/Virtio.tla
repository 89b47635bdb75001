------------------------------- MODULE Virtio -------------------------------
(***************************************************************************)
(* The disk driver of kernel/driver/virtio_disk.c and the device it talks  *)
(* to. The device runs beside the CPU: it takes chains from the avail ring *)
(* and finishes them in any order. vdisk_lock is held, with interrupts     *)
(* off, from the acquire to sleep or return; the lock has a variable of    *)
(* its own because the device does not respect it. A descriptor shows what *)
(* its addr points to: a request header, a buffer, or a status byte.       *)
(* Callers hold the sleep-lock of their buffer, so no two of them ask for  *)
(* the same block.                                                         *)
(***************************************************************************)
EXTENDS Naturals, FiniteSets

CONSTANTS
  Procs,    \* processes that call virtio_disk_rw
  Blocks,   \* blocks of the disk; each has one buffer
  Vals,     \* contents of a block
  Kinds,    \* values of the argument write: BOOLEAN, or one of them
  NUM,      \* number of descriptors, kernel/driver/virtio.h:58
  RING,     \* length of the two rings, NUM in the code
  IDX,      \* 2^16 in the code: where the ring indices wrap
  Intr,     \* holder of vdisk_lock while virtio_disk_intr runs
  None

ASSUME VirtioConstants ==
  /\ Kinds \subseteq BOOLEAN
  /\ NUM \in Nat \ {0}
  /\ RING \in Nat \ {0}
  /\ IDX \in Nat /\ IDX % RING = 0
  /\ NUM < 3 * IDX /\ NUM < 3 * (RING + 1)
  /\ Intr \notin Procs
  /\ None \notin Procs \cup Blocks \cup {Intr} \cup 0..(NUM - 1)
  /\ None \notin [write : BOOLEAN, block : Blocks]
  /\ "free" \notin Blocks \cup {None}

VARIABLES
  disk,                         \* contents of the blocks on the device
  data, busy,                   \* b->data and b->disk of the buffers
  free, desc, info, status,     \* free descriptors, desc, info[].b, info[].status
  ring, availIdx,               \* disk.avail
  usedRing, deviceIdx,          \* disk.used
  usedIdx,                      \* disk.used_idx
  seen, working,                \* device: next avail entry, chains in progress
  irq,                          \* device: interrupt raised
  lock,                         \* holder of vdisk_lock
  pc, chan, req, head,          \* of each process; head is idx[0]
  panicked

buffers == <<data, busy>>
chains == <<free, desc, info>>
rings == <<ring, availIdx, usedRing, deviceIdx>>
device == <<seen, working>>
procs == <<pc, req, head>>
vars == <<disk, data, busy, free, desc, info, status, ring, availIdx, usedRing,
          deviceIdx, usedIdx, seen, working, irq, lock, pc, chan, req, head, panicked>>

Descs == 0..(NUM - 1)
Requests == [write : BOOLEAN, block : Blocks]
Unused == [addr |-> None, next |-> None]

TypeOK ==
  /\ disk \in [Blocks -> Vals] /\ data \in [Blocks -> Vals]
  /\ busy \in [Blocks -> BOOLEAN]
  /\ free \subseteq Descs
  /\ desc \in [Descs -> [addr : Requests \cup [status : Descs] \cup Blocks \cup {None},
                         next : Descs \cup {None}]]
  /\ info \in [Descs -> Blocks \cup {None}]
  /\ status \in [Descs -> {"ok", "pending", "error"}]
  /\ ring \in [0..(RING - 1) -> Descs] /\ usedRing \in [0..(RING - 1) -> Descs]
  /\ {availIdx, deviceIdx, usedIdx, seen} \subseteq 0..(IDX - 1)
  /\ working \subseteq Descs
  /\ irq \in BOOLEAN
  /\ lock \in Procs \cup {Intr, None}
  /\ pc \in [Procs -> {"idle", "alloc", "publish", "wait"}]
  /\ chan \in [Procs -> Blocks \cup {"free", None}]
  /\ req \in [Procs -> Requests \cup {None}]
  /\ head \in [Procs -> Descs \cup {None}]
  /\ panicked \in BOOLEAN

(* After virtio_disk_init, which zeroes the rings and the descriptors.      *)
Init ==
  /\ disk \in [Blocks -> Vals] /\ data \in [Blocks -> Vals]
  /\ busy = [b \in Blocks |-> FALSE]
  /\ free = Descs
  /\ desc = [i \in Descs |-> Unused]
  /\ info = [i \in Descs |-> None]
  /\ status = [i \in Descs |-> "ok"]
  /\ ring = [i \in 0..(RING - 1) |-> 0] /\ usedRing = [i \in 0..(RING - 1) |-> 0]
  /\ availIdx = 0 /\ deviceIdx = 0 /\ usedIdx = 0 /\ seen = 0
  /\ working = {}
  /\ irq = FALSE
  /\ lock = None
  /\ pc = [p \in Procs |-> "idle"]
  /\ chan = [p \in Procs |-> None]
  /\ req = [p \in Procs |-> None]
  /\ head = [p \in Procs |-> None]
  /\ panicked = FALSE

-----------------------------------------------------------------------------
(* The driver.                                                              *)

Inc(i) == (i + 1) % IDX

(* wakeup(c), applied to the channels ch.                                   *)
Wakeup(ch, c) == [p \in Procs |-> IF ch[p] = c THEN None ELSE ch[p]]

(* virtio_disk_rw up to the acquire. A writer has stored v in its buffer.   *)
Call(p, b, w, v) ==
  /\ pc[p] = "idle" /\ lock = None
  /\ \A q \in Procs : req[q] # None => req[q].block # b
  /\ data' = IF w THEN [data EXCEPT ![b] = v] ELSE data
  /\ req' = [req EXCEPT ![p] = [write |-> w, block |-> b]]
  /\ pc' = [pc EXCEPT ![p] = "alloc"]
  /\ lock' = p
  /\ UNCHANGED <<disk, busy, chains, status, rings, usedIdx, device, irq, chan, head, panicked>>

(* sleep returns and takes vdisk_lock again.                                *)
Reacquire(p) ==
  /\ pc[p] # "idle" /\ chan[p] = None /\ lock = None
  /\ lock' = p
  /\ UNCHANGED <<disk, buffers, chains, status, rings, usedIdx, device, irq, procs, chan, panicked>>

(* alloc_desc takes the first free descriptor, three times.                 *)
FirstFree(i, j, k) ==
  /\ {i, j, k} \subseteq free /\ i < j /\ j < k
  /\ \A d \in free : d <= k => d \in {i, j, k}

(* Format the three descriptors and fill the slot of the avail ring.        *)
Format(p, i, j, k) ==
  LET b == req[p].block IN
  /\ free' = free \ {i, j, k}
  /\ desc' = [desc EXCEPT ![i] = [addr |-> req[p], next |-> j],
                          ![j] = [addr |-> b, next |-> k],
                          ![k] = [addr |-> [status |-> i], next |-> None]]
  /\ status' = [status EXCEPT ![i] = "pending"]
  /\ busy' = [busy EXCEPT ![b] = TRUE]
  /\ info' = [info EXCEPT ![i] = b]
  /\ ring' = [ring EXCEPT ![availIdx % RING] = i]
  /\ head' = [head EXCEPT ![p] = i]
  /\ pc' = [pc EXCEPT ![p] = "publish"]

(* One pass of the loop around alloc3_desc. When it fails it frees what it  *)
(* took, which wakes the other sleepers, and goes to sleep itself.          *)
Alloc(p) ==
  /\ lock = p /\ pc[p] = "alloc"
  /\ \/ /\ \E i, j, k \in free : FirstFree(i, j, k) /\ Format(p, i, j, k)
        /\ UNCHANGED <<lock, chan>>
     \/ /\ Cardinality(free) < 3
        /\ chan' = [IF free = {} THEN chan ELSE Wakeup(chan, "free") EXCEPT ![p] = "free"]
        /\ lock' = None
        /\ UNCHANGED <<busy, chains, status, ring, procs>>
  /\ UNCHANGED <<disk, data, availIdx, usedRing, deviceIdx, usedIdx, device, irq, req, panicked>>

(* avail->idx += 1, and the notification.                                   *)
Publish(p) ==
  /\ lock = p /\ pc[p] = "publish"
  /\ availIdx' = Inc(availIdx)
  /\ pc' = [pc EXCEPT ![p] = "wait"]
  /\ UNCHANGED <<disk, buffers, chains, status, ring, usedRing, deviceIdx, usedIdx, device,
                 irq, lock, chan, req, head, panicked>>

(* Fault: free_chain looks at the flags after free_desc has zeroed them.    *)
ChainCutOff(h) == {h}

(* The descriptors free_chain visits.                                       *)
Chain(h) ==
  LET reach[n \in 0..NUM] ==
        IF n = 0 THEN {h}
        ELSE LET r == reach[n - 1] IN r \cup ({desc[i].next : i \in r} \ {None})
  IN  reach[NUM]

(* Fault: free_desc wakes nobody.                                           *)
FreeWakesNobody == chan

FreeWakes == Wakeup(chan, "free")

(* Fault: virtio_disk_rw returns without waiting for b->disk.               *)
MustWaitNot(p) == FALSE

MustWait(p) == busy[req[p].block]

(* One pass of the wait for virtio_disk_intr, or the end of virtio_disk_rw. *)
Wait(p) ==
  /\ lock = p /\ pc[p] = "wait"
  /\ lock' = None
  /\ \/ /\ MustWait(p)
        /\ chan' = [chan EXCEPT ![p] = req[p].block]
        /\ UNCHANGED <<chains, procs, panicked>>
     \/ /\ ~ MustWait(p)
        /\ info' = [info EXCEPT ![head[p]] = None]
        /\ panicked' = (Chain(head[p]) \cap free # {})
        /\ free' = free \cup Chain(head[p])
        /\ desc' = [i \in Descs |-> IF i \in Chain(head[p]) THEN Unused ELSE desc[i]]
        /\ chan' = FreeWakes
        /\ pc' = [pc EXCEPT ![p] = "idle"]
        /\ req' = [req EXCEPT ![p] = None]
        /\ head' = [head EXCEPT ![p] = None]
  /\ UNCHANGED <<disk, buffers, status, rings, usedIdx, device, irq>>

(* kill makes a sleeping process runnable before its time.                  *)
Kill(p) ==
  /\ lock = None /\ chan[p] # None
  /\ chan' = [chan EXCEPT ![p] = None]
  /\ UNCHANGED <<disk, buffers, chains, status, rings, usedIdx, device, irq, lock, procs, panicked>>

(* virtio_disk_intr: the acquire and the acknowledgement.                   *)
IntrBegin ==
  /\ irq /\ lock = None
  /\ lock' = Intr
  /\ irq' = FALSE
  /\ UNCHANGED <<disk, buffers, chains, status, rings, usedIdx, device, procs, chan, panicked>>

IntrEnd ==
  /\ lock' = None
  /\ UNCHANGED <<busy, chan, usedIdx, panicked>>

(* Fault: used_idx is incremented before the entry is read.                 *)
UsedSlotNext == (usedIdx + 1) % RING

(* The used ring entry the driver looks at.                                 *)
UsedSlot == usedIdx % RING

IntrEntry ==
  LET id == usedRing[UsedSlot] IN
  \/ /\ status[id] # "ok"
     /\ panicked' = TRUE
     /\ UNCHANGED <<busy, chan, usedIdx>>
  \/ /\ status[id] = "ok"
     /\ busy' = [busy EXCEPT ![info[id]] = FALSE]
     /\ chan' = Wakeup(chan, info[id])
     /\ usedIdx' = Inc(usedIdx)
     /\ UNCHANGED panicked

(* Fault: the indices are compared by order, as if they did not wrap.       *)
IntrLoopLess ==
  \/ /\ usedIdx < deviceIdx
     /\ IntrEntry
     /\ UNCHANGED lock
  \/ /\ usedIdx >= deviceIdx
     /\ IntrEnd

(* One pass of the loop of virtio_disk_intr.                                *)
IntrLoop ==
  \/ /\ usedIdx # deviceIdx
     /\ IntrEntry
     /\ UNCHANGED lock
  \/ /\ usedIdx = deviceIdx
     /\ IntrEnd

IntrStep ==
  /\ lock = Intr
  /\ IntrLoop
  /\ UNCHANGED <<disk, data, chains, status, rings, device, irq, procs>>

(* devintr as it stands in kernel/trap/trap.c: the PLIC is served, the call *)
(* of virtio_disk_intr is commented out, and the device keeps its line up.  *)
Devintr ==
  /\ irq /\ lock = None
  /\ UNCHANGED vars

-----------------------------------------------------------------------------
(* The device.                                                              *)

Fetch ==
  /\ seen # availIdx
  /\ working' = working \cup {ring[seen % RING]}
  /\ seen' = (seen + 1) % IDX
  /\ UNCHANGED <<disk, buffers, chains, status, rings, usedIdx, irq, lock, procs, chan, panicked>>

(* Serve a chain, or report an error in its status byte.                    *)
Complete(h) ==
  LET r == desc[h].addr
      b == desc[desc[h].next].addr
      s == desc[desc[desc[h].next].next].addr.status
  IN
  /\ h \in working
  /\ \/ /\ disk' = IF r.write THEN [disk EXCEPT ![r.block] = data[b]] ELSE disk
        /\ data' = IF r.write THEN data ELSE [data EXCEPT ![b] = disk[r.block]]
        /\ status' = [status EXCEPT ![s] = "ok"]
     \/ /\ status' = [status EXCEPT ![s] = "error"]
        /\ UNCHANGED <<disk, data>>
  /\ working' = working \ {h}
  /\ usedRing' = [usedRing EXCEPT ![deviceIdx % RING] = h]
  /\ deviceIdx' = (deviceIdx + 1) % IDX
  /\ irq' = TRUE
  /\ UNCHANGED <<busy, chains, ring, availIdx, usedIdx, seen, lock, procs, chan, panicked>>

Step(p) == Reacquire(p) \/ Alloc(p) \/ Publish(p) \/ Wait(p)

Request(p) == \E b \in Blocks, w \in Kinds, v \in Vals : Call(p, b, w, v)

(* After a panic the CPU stops; the device is of no interest any more.      *)
Driver == ~ panicked /\ \E p \in Procs : Request(p) \/ Step(p) \/ Kill(p)

Device == ~ panicked /\ (Fetch \/ \E h \in Descs : Complete(h))

Next == Driver \/ Device \/ (~ panicked /\ (IntrBegin \/ IntrStep))

Spec == Init /\ [][Next]_vars

(* The device serves every chain it is given. The scheduler runs every      *)
(* runnable process, and vdisk_lock is free again and again because nobody  *)
(* keeps it across sleep: strong fairness of taking it.                     *)
Fairness ==
  /\ \A p \in Procs : WF_vars(~ panicked /\ Step(p)) /\ SF_vars(~ panicked /\ Reacquire(p))
  /\ WF_vars(~ panicked /\ Fetch)
  /\ \A h \in Descs : WF_vars(~ panicked /\ Complete(h))

FairSpec == Spec /\ Fairness /\ SF_vars(~ panicked /\ IntrBegin) /\ WF_vars(~ panicked /\ IntrStep)

(* The driver as the kernel uses it: devintr in place of virtio_disk_intr.  *)
WiredNext == Driver \/ Device \/ (~ panicked /\ Devintr)

WiredSpec == Init /\ [][WiredNext]_vars /\ Fairness

-----------------------------------------------------------------------------
(* Properties.                                                              *)

Phase(p) ==
  IF pc[p] = "idle" THEN "idle"
  ELSE IF pc[p] = "wait" /\ status[head[p]] = "ok" THEN "done"
  ELSE "asked"

Promise == INSTANCE BlockDevice WITH phase <- [p \in Procs |-> Phase(p)]

(* virtio_disk.c:208-283. virtio_disk_rw returns after its block has been   *)
(* moved, once, in the right direction and from or to the right buffer,     *)
(* whatever the order in which the device answers, however often the        *)
(* process is woken, and across the wrap of the 16-bit indices.             *)
ImplementsBlockDevice == Promise!Spec

(* virtio_disk.c:156-206, 279-280. A descriptor is free or belongs to the   *)
(* chain of exactly one request; a chain has three descriptors, and they    *)
(* stay as they are until the request returns. None leaks. The ring indices *)
(* and all else keep their types.                                           *)
DescriptorsOwned ==
  LET Owners == {p \in Procs : head[p] # None} IN
  /\ TypeOK
  /\ \A p \in Owners : Cardinality(Chain(head[p])) = 3 /\ Chain(head[p]) \cap free = {}
  /\ \A p, q \in Owners : p # q => Chain(head[p]) \cap Chain(head[q]) = {}
  /\ Descs = free \cup UNION {Chain(head[p]) : p \in Owners}

(* virtio_disk.c:275-277, 288-312. Every entry of the used ring that the    *)
(* driver has not looked at yet belongs to a request that still waits with  *)
(* its buffer recorded, so virtio_disk_intr never follows a null pointer    *)
(* and never ends the wait of a later request. And it is not forgotten: its *)
(* interrupt is raised or the handler is in its loop, although the handler  *)
(* acknowledges before it loops and the device may add entries in between.  *)
CompletionsKept ==
  /\ \A n \in 0..(IDX - 1) :
       n < (deviceIdx + IDX - usedIdx) % IDX =>
         LET id == usedRing[((usedIdx + n) % IDX) % RING] IN
         /\ info[id] # None /\ busy[info[id]]
         /\ \E p \in Procs : pc[p] = "wait" /\ head[p] = id
  /\ ~ panicked /\ usedIdx # deviceIdx => irq \/ lock = Intr

(* virtio_disk.c:178, 223, 276, 310. No lost wakeup: while nobody holds     *)
(* vdisk_lock, who sleeps for descriptors could not have three of them, and *)
(* who sleeps for the disk has a request that is not finished.              *)
SleepersMustWait ==
  lock = None =>
    \A p \in Procs :
      /\ chan[p] = "free" => Cardinality(free) < 3
      /\ chan[p] \in Blocks => busy[chan[p]]

(* virtio_disk.c:274-277 "Wait for virtio_disk_intr() to say request has    *)
(* finished.", and 153 "plic.c and trap.c arrange for interrupts from       *)
(* VIRTIO0_IRQ.": a request that was handed to the device returns, unless   *)
(* the device reports an error and the driver panics.                       *)
SubmittedReturns ==
  \A p \in Procs : (pc[p] = "wait") ~> (pc[p] = "idle" \/ panicked)
=============================================================================
