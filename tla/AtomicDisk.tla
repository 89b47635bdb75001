----------------------------- MODULE AtomicDisk -----------------------------
(***************************************************************************)
(* What the log of kernel/fs/log.c promises to the file system above it:   *)
(* a group of begin_op/end_op operations reaches the disk entirely or not  *)
(* at all, whatever the instant of a crash.                                *)
(*                                                                         *)
(*   view     the contents every FS operation sees through the cache       *)
(*   durable  the contents a crash at this instant leaves after recovery   *)
(*   active   the processes between begin_op and end_op                    *)
(***************************************************************************)
CONSTANTS Procs, Blocks, Vals

VARIABLES view, durable, active

vars == <<view, durable, active>>

Init ==
  /\ view \in [Blocks -> Vals]
  /\ durable = view
  /\ active = {}

Begin(p) ==
  /\ p \notin active
  /\ active' = active \cup {p}
  /\ UNCHANGED <<view, durable>>

Write(p, b, v) ==
  /\ p \in active
  /\ view' = [view EXCEPT ![b] = v]
  /\ UNCHANGED <<durable, active>>

End(p) ==
  /\ p \in active
  /\ active' = active \ {p}
  /\ UNCHANGED <<view, durable>>

(* The only step that changes what survives a crash: no operation is        *)
(* half done, and everything written so far becomes durable at once.        *)
Commit ==
  /\ active = {}
  /\ durable' = view
  /\ UNCHANGED <<view, active>>

Crash ==
  /\ view' = durable
  /\ active' = {}
  /\ UNCHANGED durable

Next ==
  \/ \E p \in Procs : Begin(p) \/ End(p)
  \/ \E p \in Procs, b \in Blocks, v \in Vals : Write(p, b, v)
  \/ Commit
  \/ Crash

Spec == Init /\ [][Next]_vars
=============================================================================
