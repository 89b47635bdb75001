----------------------------- MODULE BlockCache -----------------------------
(***************************************************************************)
(* What the buffer cache promises its callers: every block has one current *)
(* content, which a process sees and changes only while it is the block's  *)
(* only user. What a user wrote to the disk or pinned stays; a change that *)
(* was neither may be forgotten once nobody uses the block. Buffers, their *)
(* number and the order in which they are recycled are not visible.        *)
(***************************************************************************)
CONSTANTS Procs, Blocks, Vals, None

VARIABLES
  content,        \* what the next user of a block sees
  disk,           \* what is written
  pinned,         \* blocks whose content must not be forgotten
  user            \* the process between bread and brelse

vars == <<content, disk, pinned, user>>

Init ==
  /\ content \in [Blocks -> Vals]
  /\ disk = content
  /\ pinned = {}
  /\ user = [k \in Blocks |-> None]

Bread(p, k) ==
  /\ user[k] = None
  /\ user' = [user EXCEPT ![k] = p]
  /\ UNCHANGED <<content, disk, pinned>>

Store(p, k) ==
  /\ user[k] = p
  /\ \E v \in Vals : content' = [content EXCEPT ![k] = v]
  /\ UNCHANGED <<disk, pinned, user>>

Bwrite(p, k) ==
  /\ user[k] = p
  /\ disk' = [disk EXCEPT ![k] = content[k]]
  /\ UNCHANGED <<content, pinned, user>>

Bpin(p, k) ==
  /\ user[k] = p
  /\ pinned' = pinned \cup {k}
  /\ UNCHANGED <<content, disk, user>>

Bunpin(p, k) ==
  /\ user[k] = p
  /\ pinned' = pinned \ {k}
  /\ UNCHANGED <<content, disk, user>>

Brelse(p, k) ==
  /\ user[k] = p
  /\ user' = [user EXCEPT ![k] = None]
  /\ UNCHANGED <<content, disk, pinned>>

(* flush_all_blocks writes a block that nobody uses.                        *)
Flush(k) ==
  /\ user[k] = None
  /\ disk' = [disk EXCEPT ![k] = content[k]]
  /\ UNCHANGED <<content, pinned, user>>

Forget(k) ==
  /\ user[k] = None /\ k \notin pinned
  /\ content' = [content EXCEPT ![k] = disk[k]]
  /\ UNCHANGED <<disk, pinned, user>>

Next ==
  \E k \in Blocks :
    \/ Flush(k) \/ Forget(k)
    \/ \E p \in Procs :
         Bread(p, k) \/ Store(p, k) \/ Bwrite(p, k) \/ Bpin(p, k) \/ Bunpin(p, k) \/ Brelse(p, k)

Spec == Init /\ [][Next]_vars
=============================================================================
