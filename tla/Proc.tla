-------------------------------- MODULE Proc --------------------------------
(***************************************************************************)
(* Process life cycle and scheduling of kernel/proc/proc.c on the one CPU  *)
(* the kernel is configured for (NCPU = 1): fork, exit, wait, kill, sleep, *)
(* wakeup, yield and scheduler, with the timer interrupt of                *)
(* kernel/trap/trap.c. While a spinlock is held interrupts are off, so     *)
(* nothing else runs: an action is what a process does between two points  *)
(* at which the timer can preempt it.                                      *)
(***************************************************************************)
EXTENDS Naturals

CONSTANTS
  NPROC,          \* size of the process table
  MaxPid,         \* bound: fork stops when nextpid reaches it
  None,           \* null pointer
  Panic           \* in place of the running process: the kernel has halted

ASSUME ProcConstants ==
  /\ NPROC \in Nat \ {0}
  /\ MaxPid \in Nat \ {0}
  /\ None \notin Nat /\ Panic \notin Nat /\ None # Panic

VARIABLES
  state, chan, killed, pid, parent,  \* struct proc
  nextpid,
  cpu,            \* cpus[0].proc
  idx,            \* the slot at which the loop of scheduler() goes on
  pc,             \* what the process does when it next runs
  child           \* np of a fork in progress

table == <<state, chan, killed, pid, parent>>
vars == <<state, chan, killed, pid, parent, nextpid, cpu, idx, pc, child>>

Slots == 0..(NPROC - 1)
initproc == 0

States == {"UNUSED", "USED", "SLEEPING", "RUNNABLE", "RUNNING", "ZOMBIE"}

TypeOK ==
  /\ state \in [Slots -> States]
  /\ chan \in [Slots -> Slots \cup {None}]
  /\ killed \in [Slots -> BOOLEAN]
  /\ pid \in [Slots -> 0..MaxPid]
  /\ parent \in [Slots -> Slots \cup {None}]
  /\ nextpid \in 1..(MaxPid + 1)
  /\ cpu \in Slots \cup {None, Panic}
  /\ idx \in Slots
  /\ pc \in [Slots -> {"user", "wait", "link_child", "start_child"}]
  /\ child \in [Slots -> Slots \cup {None}]

(* procinit and userinit have run, scheduler() is about to.                 *)
Init ==
  /\ state = [p \in Slots |-> IF p = initproc THEN "RUNNABLE" ELSE "UNUSED"]
  /\ chan = [p \in Slots |-> None]
  /\ killed = [p \in Slots |-> FALSE]
  /\ pid = [p \in Slots |-> IF p = initproc THEN 1 ELSE 0]
  /\ parent = [p \in Slots |-> None]
  /\ nextpid = 2
  /\ cpu = None
  /\ idx = 0
  /\ pc = [p \in Slots |-> "user"]
  /\ child = [p \in Slots |-> None]

-----------------------------------------------------------------------------
(* Scheduling.                                                              *)

(* Fault: after a process ran, the scan starts again at the first slot.     *)
NextIdxRestart(p) == IF state[p] = "RUNNABLE" THEN 0 ELSE (p + 1) % NPROC

NextIdx(p) == (p + 1) % NPROC

(* One pass of the loop of scheduler(): run the slot if it is runnable. A   *)
(* process that was asleep leaves sleep() with its chan cleared before it   *)
(* can be interrupted.                                                      *)
Schedule ==
  /\ cpu = None
  /\ idx' = NextIdx(idx)
  /\ IF state[idx] = "RUNNABLE"
       THEN /\ state' = [state EXCEPT ![idx] = "RUNNING"]
            /\ cpu' = idx
            /\ chan' = [chan EXCEPT ![idx] = None]
       ELSE UNCHANGED <<state, cpu, chan>>
  /\ UNCHANGED <<killed, pid, parent, nextpid, pc, child>>

(* The timer interrupt makes the running process yield.                     *)
Yield(p) ==
  /\ cpu = p
  /\ state' = [state EXCEPT ![p] = "RUNNABLE"]
  /\ cpu' = None
  /\ UNCHANGED <<chan, killed, pid, parent, nextpid, idx, pc, child>>

(* Fault: only the first sleeper of the table is looked at.                 *)
WakeupFirst(st, c) ==
  [p \in Slots |-> IF st[p] = "SLEEPING" /\ chan[p] = c /\ \A q \in 0..(p - 1) : st[q] # "SLEEPING"
                   THEN "RUNNABLE" ELSE st[p]]

(* wakeup(c) in the table st.                                               *)
Wakeup(st, c) == [p \in Slots |-> IF st[p] = "SLEEPING" /\ chan[p] = c THEN "RUNNABLE" ELSE st[p]]

-----------------------------------------------------------------------------
(* System calls of the running process.                                     *)

(* A system call starts: usertrap lets a process that is not killed pass.   *)
Enter(p) == cpu = p /\ pc[p] = "user" /\ ~ killed[p]

FirstUnused(np) == state[np] = "UNUSED" /\ \A q \in 0..(np - 1) : state[q] # "UNUSED"

(* fork up to the release of np->lock. killed is not set by allocproc, and  *)
(* a failed allocation after allocpid is undone by freeproc.                *)
Fork(p) ==
  /\ Enter(p)
  /\ nextpid <= MaxPid
  /\ \E np \in Slots :
       /\ FirstUnused(np)
       /\ nextpid' = nextpid + 1
       /\ \/ /\ state' = [state EXCEPT ![np] = "USED"]
             /\ pid' = [pid EXCEPT ![np] = nextpid]
             /\ pc' = [pc EXCEPT ![p] = "link_child", ![np] = "user"]
             /\ child' = [child EXCEPT ![p] = np]
             /\ UNCHANGED killed
          \/ /\ killed' = [killed EXCEPT ![np] = FALSE]
             /\ UNCHANGED <<state, pid, pc, child>>
  /\ UNCHANGED <<chan, parent, cpu, idx>>

LinkChild(p) ==
  /\ cpu = p /\ pc[p] = "link_child"
  /\ parent' = [parent EXCEPT ![child[p]] = p]
  /\ pc' = [pc EXCEPT ![p] = "start_child"]
  /\ UNCHANGED <<state, chan, killed, pid, nextpid, cpu, idx, child>>

StartChild(p) ==
  /\ cpu = p /\ pc[p] = "start_child"
  /\ state' = [state EXCEPT ![child[p]] = "RUNNABLE"]
  /\ pc' = [pc EXCEPT ![p] = "user"]
  /\ child' = [child EXCEPT ![p] = None]
  /\ UNCHANGED <<chan, killed, pid, parent, nextpid, cpu, idx>>

(* Fault: reparent hands over no zombies.                                   *)
ReparentLiving(p) == [q \in Slots |-> IF parent[q] = p /\ state[q] # "ZOMBIE" THEN initproc ELSE parent[q]]

Reparent(p) == [q \in Slots |-> IF parent[q] = p THEN initproc ELSE parent[q]]

(* The states after the wakeup(initproc) of reparent.                       *)
ReparentWakes(p) ==
  IF \E q \in Slots : parent[q] = p THEN Wakeup(state, initproc) ELSE state

(* exit, called by the process or by usertrap for a killed one.             *)
Exit(p) ==
  /\ cpu = p /\ pc[p] = "user"
  /\ \/ /\ p = initproc
        /\ cpu' = Panic
        /\ UNCHANGED <<state, parent>>
     \/ /\ p # initproc
        /\ parent' = Reparent(p)
        /\ state' = [Wakeup(ReparentWakes(p), parent'[p]) EXCEPT ![p] = "ZOMBIE"]
        /\ cpu' = None
  /\ UNCHANGED <<chan, killed, pid, nextpid, idx, pc, child>>

Children(p) == {q \in Slots : parent[q] = p}
Zombies(p) == {q \in Children(p) : state[q] = "ZOMBIE"}

(* Fault: the slot keeps its parent when it is freed.                       *)
ParentAfterFreeStale(q) == parent[q]

ParentAfterFree(q) == None

(* The scan of wait reaps the first zombie child; copyout of its status may *)
(* fail, and then wait returns -1 and leaves the zombie.                    *)
Reap(p) ==
  \E q \in Zombies(p) :
    /\ \A r \in Zombies(p) : q <= r
    /\ \/ /\ state' = [state EXCEPT ![q] = "UNUSED"]
          /\ chan' = [chan EXCEPT ![q] = None]
          /\ killed' = [killed EXCEPT ![q] = FALSE]
          /\ pid' = [pid EXCEPT ![q] = 0]
          /\ parent' = [parent EXCEPT ![q] = ParentAfterFree(q)]
       \/ UNCHANGED table
    /\ pc' = [pc EXCEPT ![p] = "user"]
    /\ UNCHANGED cpu

(* Fault: wait does not look at the kill flag.                              *)
GivesUpNoKill(p) == Children(p) = {}

GivesUp(p) == Children(p) = {} \/ killed[p]

(* One pass of the loop of wait, under wait_lock.                           *)
Wait(p) ==
  /\ Enter(p) \/ (cpu = p /\ pc[p] = "wait")
  /\ \/ Reap(p)
     \/ /\ Zombies(p) = {} /\ GivesUp(p)
        /\ pc' = [pc EXCEPT ![p] = "user"]
        /\ UNCHANGED <<table, cpu>>
     \/ /\ Zombies(p) = {} /\ ~ GivesUp(p)
        /\ state' = [state EXCEPT ![p] = "SLEEPING"]
        /\ chan' = [chan EXCEPT ![p] = p]
        /\ cpu' = None
        /\ pc' = [pc EXCEPT ![p] = "wait"]
        /\ UNCHANGED <<killed, pid, parent>>
  /\ UNCHANGED <<nextpid, idx, child>>

(* kill(n): the first slot with that pid, in use or not.                    *)
Kill(p, n) ==
  /\ Enter(p)
  /\ \E q \in Slots :
       /\ pid[q] = n /\ \A r \in 0..(q - 1) : pid[r] # n
       /\ killed' = [killed EXCEPT ![q] = TRUE]
       /\ state' = IF state[q] = "SLEEPING" THEN [state EXCEPT ![q] = "RUNNABLE"] ELSE state
  /\ UNCHANGED <<chan, pid, parent, nextpid, cpu, idx, pc, child>>

Next ==
  \/ Schedule
  \/ \E p \in Slots :
       \/ Yield(p)
       \/ Exit(p)
       \/ Wait(p)
       \/ Fork(p)
       \/ LinkChild(p)
       \/ StartChild(p)
       \/ \E n \in 0..MaxPid : Kill(p, n)

Spec == Init /\ [][Next]_vars

(* clockintr programs the next timer interrupt, so the scheduler gets the   *)
(* CPU again and again (weak fairness of Schedule and Yield), and a process *)
(* in the kernel completes its step in some of the time slices it is given  *)
(* (strong fairness). Nothing is assumed of what user code calls.           *)
FairSpec ==
  /\ Spec
  /\ WF_vars(Schedule)
  /\ \A p \in Slots :
       /\ WF_vars(Yield(p))
       /\ SF_vars(pc[p] = "wait" /\ Wait(p))
       /\ SF_vars(LinkChild(p))
       /\ SF_vars(StartChild(p))

-----------------------------------------------------------------------------
(* Properties.                                                              *)

(* proc.c:413-429 and 440-476. No lost wakeup between exit and wait: a      *)
(* process asleep in wait has a child, none of its children is a zombie,    *)
(* and it has not been killed.                                              *)
WaitersMustWait ==
  \A p \in Slots : state[p] = "SLEEPING" =>
    Children(p) # {} /\ Zombies(p) = {} /\ ~ killed[p]

(* proc.c:377-388. Every process that has started, init excepted, has a     *)
(* parent that is neither a zombie nor a freed slot, so somebody can still  *)
(* wait for it.                                                             *)
ParentCanWait ==
  \A p \in Slots \ {initproc} :
    /\ state[p] \in {"SLEEPING", "RUNNABLE", "RUNNING", "ZOMBIE"} => parent[p] # None
    /\ parent[p] # None => state[parent[p]] \notin {"UNUSED", "ZOMBIE"}

(* proc.c:135-144, 204-219. Processes in the table have different pids, and *)
(* a free slot has no pid and is nobody's child.                            *)
PidsUnique ==
  \A p, q \in Slots :
    /\ p # q /\ state[p] # "UNUSED" /\ state[q] # "UNUSED" => pid[p] # pid[q]
    /\ state[p] = "UNUSED" <=> pid[p] = 0
    /\ state[p] = "UNUSED" => parent[p] = None

(* proc.c:487-520. The round-robin scan of scheduler() starves no process:  *)
(* a runnable one eventually runs, unless the kernel panics.                *)
RunnableRuns ==
  \A p \in Slots : (state[p] = "RUNNABLE") ~> (state[p] = "RUNNING" \/ cpu = Panic)

(* proc.c:435-478, 603-623. wait returns when a child is a zombie or the    *)
(* waiting process is killed.                                               *)
WaitReturns ==
  \A p \in Slots :
    (pc[p] = "wait" /\ (Zombies(p) # {} \/ killed[p])) ~> (pc[p] # "wait" \/ cpu = Panic)
=============================================================================
