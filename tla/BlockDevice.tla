----------------------------- MODULE BlockDevice ----------------------------
(***************************************************************************)
(* What virtio_disk_rw promises its callers: a request moves one block     *)
(* between the disk and its buffer exactly once, at a single instant       *)
(* between the call and the return.                                        *)
(***************************************************************************)
CONSTANTS Procs, Blocks, Vals, None

VARIABLES disk, data, req, phase

vars == <<disk, data, req, phase>>

Init ==
  /\ disk \in [Blocks -> Vals]
  /\ data \in [Blocks -> Vals]
  /\ req = [p \in Procs |-> None]
  /\ phase = [p \in Procs |-> "idle"]

(* The caller holds the buffer of the block, and has stored v if it writes. *)
Start(p) ==
  /\ phase[p] = "idle"
  /\ \E b \in Blocks, w \in BOOLEAN, v \in Vals :
       /\ \A q \in Procs : req[q] # None => req[q].block # b
       /\ data' = IF w THEN [data EXCEPT ![b] = v] ELSE data
       /\ req' = [req EXCEPT ![p] = [write |-> w, block |-> b]]
  /\ phase' = [phase EXCEPT ![p] = "asked"]
  /\ UNCHANGED disk

Transfer(p) ==
  LET b == req[p].block IN
  /\ phase[p] = "asked"
  /\ IF req[p].write
       THEN disk' = [disk EXCEPT ![b] = data[b]] /\ UNCHANGED data
       ELSE data' = [data EXCEPT ![b] = disk[b]] /\ UNCHANGED disk
  /\ phase' = [phase EXCEPT ![p] = "done"]
  /\ UNCHANGED req

Return(p) ==
  /\ phase[p] = "done"
  /\ phase' = [phase EXCEPT ![p] = "idle"]
  /\ req' = [req EXCEPT ![p] = None]
  /\ UNCHANGED <<disk, data>>

Next == \E p \in Procs : Start(p) \/ Transfer(p) \/ Return(p)

Spec == Init /\ [][Next]_vars
=============================================================================
