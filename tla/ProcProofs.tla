----------------------------- MODULE ProcProofs -----------------------------
(***************************************************************************)
(* Proofs of the safety properties of Proc for every size of the process   *)
(* table and every bound on the pids.                                      *)
(***************************************************************************)
EXTENDS Proc, TLAPS

Forks == {"link_child", "start_child"}

(* The process on the CPU is in state RUNNING.                              *)
CpuRuns == \A p \in Slots : cpu = p => state[p] = "RUNNING"

(* A process inside fork is not asleep, and its child is USED: out of the   *)
(* scheduler's and everybody's reach. parent is set by LinkChild.           *)
ForkHasChild ==
  \A p \in Slots : pc[p] \in Forks =>
    /\ child[p] \in Slots
    /\ state[child[p]] = "USED"
    /\ state[p] \in {"RUNNING", "RUNNABLE"}
    /\ pc[p] = "link_child" => parent[child[p]] = None
    /\ pc[p] = "start_child" => parent[child[p]] = p

(* Two forks in progress have different children.                           *)
ForksDisjoint ==
  \A p, q \in Slots : p # q /\ pc[p] \in Forks /\ pc[q] \in Forks => child[p] # child[q]

(* Only wait sleeps here, and it sleeps on the process itself.              *)
AsleepInWait == \A p \in Slots : state[p] = "SLEEPING" => pc[p] = "wait" /\ chan[p] = p

(* init is always there to wait for orphans and is nobody's child.          *)
InitLives ==
  /\ state[initproc] \in {"SLEEPING", "RUNNABLE", "RUNNING"}
  /\ parent[initproc] = None

PidsOld == \A p \in Slots : pid[p] < nextpid

(* The inductive invariant.                                                 *)
ProcInv ==
  /\ TypeOK
  /\ CpuRuns /\ ForkHasChild /\ ForksDisjoint /\ AsleepInWait /\ InitLives /\ PidsOld
  /\ WaitersMustWait /\ ParentCanWait /\ PidsUnique

-----------------------------------------------------------------------------

(* Slots are numbers: init is one, None and Panic are none, and the next    *)
(* index of the scheduler's scan is one.                                    *)
LEMMA SlotFacts ==
  /\ initproc \in Slots
  /\ None \notin Slots /\ Panic \notin Slots /\ None # Panic
  /\ \A p \in Slots : NextIdx(p) \in Slots
<1>1. initproc \in Slots
  BY ProcConstants DEF initproc, Slots
<1>2. None \notin Slots /\ Panic \notin Slots /\ None # Panic
  <2>1. Slots \subseteq Nat
    BY ProcConstants DEF Slots
  <2> QED  BY <2>1, ProcConstants
<1>3. ASSUME NEW p \in Slots PROVE NextIdx(p) \in Slots
  BY ProcConstants DEF NextIdx, Slots
<1> QED  BY <1>1, <1>2, <1>3

(* The table after userinit satisfies the invariant.                        *)
LEMMA InitInv == Init => ProcInv
<1> SUFFICES ASSUME Init PROVE ProcInv
  OBVIOUS
<1> USE SlotFacts
<1>1. TypeOK
  <2>1. 1 \in 0..MaxPid /\ 0 \in 0..MaxPid /\ 2 \in 1..(MaxPid + 1)
    BY ProcConstants
  <2>2. 0 \in Slots
    BY DEF initproc
  <2> QED  BY <2>1, <2>2 DEF Init, TypeOK, States
<1>2. CpuRuns /\ ForkHasChild /\ ForksDisjoint /\ AsleepInWait /\ InitLives
  BY DEF Init, CpuRuns, ForkHasChild, ForksDisjoint, Forks, AsleepInWait, InitLives
<1>3. PidsOld
  BY DEF Init, PidsOld
<1>4. WaitersMustWait /\ ParentCanWait /\ PidsUnique
  BY DEF Init, WaitersMustWait, ParentCanWait, PidsUnique
<1> QED  BY <1>1, <1>2, <1>3, <1>4 DEF ProcInv

(* scheduler() runs only RUNNABLE slots, so none that sleeps or is in fork. *)
LEMMA ScheduleStep == ASSUME ProcInv, Schedule PROVE ProcInv'
<1> USE SlotFacts
<1>0. PICK i \in Slots : i = idx
  BY DEF ProcInv, TypeOK
<1>1. TypeOK'
  BY <1>0 DEF ProcInv, TypeOK, Schedule, States
<1>2. CpuRuns' /\ AsleepInWait' /\ InitLives' /\ PidsOld'
  BY <1>0 DEF ProcInv, TypeOK, Schedule, CpuRuns, AsleepInWait, InitLives, PidsOld
<1>3. ForkHasChild' /\ ForksDisjoint'
  BY <1>0 DEF ProcInv, TypeOK, Schedule, ForkHasChild, ForksDisjoint, Forks
<1>4. WaitersMustWait'
  BY <1>0 DEF ProcInv, TypeOK, Schedule, WaitersMustWait, Children, Zombies
<1>5. ParentCanWait' /\ PidsUnique'
  BY <1>0 DEF ProcInv, TypeOK, Schedule, ParentCanWait, PidsUnique
<1> QED  BY <1>1, <1>2, <1>3, <1>4, <1>5 DEF ProcInv

(* yield makes the running process RUNNABLE and changes nothing else.       *)
LEMMA YieldStep == ASSUME ProcInv, NEW p \in Slots, Yield(p) PROVE ProcInv'
<1> USE SlotFacts
<1>0. state[p] = "RUNNING"
  BY DEF ProcInv, Yield, CpuRuns
<1>1. TypeOK'
  BY DEF ProcInv, TypeOK, Yield, States
<1>2. CpuRuns' /\ AsleepInWait' /\ InitLives' /\ PidsOld'
  BY <1>0 DEF ProcInv, TypeOK, Yield, CpuRuns, AsleepInWait, InitLives, PidsOld
<1>3. ForkHasChild' /\ ForksDisjoint'
  BY <1>0 DEF ProcInv, TypeOK, Yield, ForkHasChild, ForksDisjoint, Forks
<1>4. WaitersMustWait'
  BY <1>0 DEF ProcInv, TypeOK, Yield, WaitersMustWait, Children, Zombies
<1>5. ParentCanWait' /\ PidsUnique'
  BY <1>0 DEF ProcInv, TypeOK, Yield, ParentCanWait, PidsUnique
<1> QED  BY <1>1, <1>2, <1>3, <1>4, <1>5 DEF ProcInv

(* fork: the new child comes from a free slot, which is nobody's parent or  *)
(* child, and gets a pid nobody has.                                        *)
LEMMA ForkStep == ASSUME ProcInv, NEW p \in Slots, Fork(p) PROVE ProcInv'
<1> USE SlotFacts
<1>0. state[p] = "RUNNING" /\ pc[p] = "user"
  BY DEF ProcInv, Fork, Enter, CpuRuns
<1>1. PICK np \in Slots :
        /\ state[np] = "UNUSED"
        /\ nextpid' = nextpid + 1
        /\ \/ /\ state' = [state EXCEPT ![np] = "USED"]
              /\ pid' = [pid EXCEPT ![np] = nextpid]
              /\ pc' = [pc EXCEPT ![p] = "link_child", ![np] = "user"]
              /\ child' = [child EXCEPT ![p] = np]
              /\ UNCHANGED killed
           \/ /\ killed' = [killed EXCEPT ![np] = FALSE]
              /\ UNCHANGED <<state, pid, pc, child>>
  BY DEF Fork, FirstUnused
<1>2. UNCHANGED <<chan, parent, cpu, idx>> /\ nextpid <= MaxPid
  BY DEF Fork
<1>3. p # np /\ np # initproc /\ pid[np] = 0 /\ parent[np] = None
  BY <1>0, <1>1 DEF ProcInv, InitLives, PidsUnique
<1>4. nextpid \in 1..MaxPid /\ nextpid' \in 1..(MaxPid + 1)
  BY <1>1, <1>2, ProcConstants DEF ProcInv, TypeOK
<1>5. nextpid \in 0..MaxPid /\ nextpid # 0
  BY <1>4, ProcConstants
<1>6. TypeOK'
  <2>1. (state \in [Slots -> States])' /\ (killed \in [Slots -> BOOLEAN])'
    BY <1>1 DEF ProcInv, TypeOK, States
  <2>2. (pid \in [Slots -> 0..MaxPid])'
    BY <1>1, <1>5 DEF ProcInv, TypeOK
  <2>3. /\ (pc \in [Slots -> {"user", "wait", "link_child", "start_child"}])'
        /\ (child \in [Slots -> Slots \cup {None}])'
    BY <1>1 DEF ProcInv, TypeOK
  <2> QED  BY <1>2, <1>4, <2>1, <2>2, <2>3 DEF ProcInv, TypeOK
<1>7. CpuRuns' /\ AsleepInWait' /\ InitLives'
  BY <1>0, <1>1, <1>2, <1>3 DEF ProcInv, TypeOK, CpuRuns, AsleepInWait, InitLives
<1>8. PidsOld'
  <2>1. \A q \in Slots : pid[q] \in 0..MaxPid /\ pid[q] < nextpid
    BY DEF ProcInv, TypeOK, PidsOld
  <2>2. nextpid < nextpid + 1 /\ \A q \in Slots : pid[q] < nextpid + 1
    BY <2>1, <1>4, ProcConstants
  <2> QED  BY <1>1, <2>2 DEF ProcInv, TypeOK, PidsOld
<1>9. ForkHasChild' /\ ForksDisjoint'
  BY <1>0, <1>1, <1>2, <1>3 DEF ProcInv, TypeOK, ForkHasChild, ForksDisjoint, Forks
<1>10. WaitersMustWait'
  BY <1>1, <1>2, <1>3 DEF ProcInv, TypeOK, WaitersMustWait, Children, Zombies
<1>11. ParentCanWait'
  BY <1>1, <1>2, <1>3 DEF ProcInv, TypeOK, ParentCanWait
<1>12. PidsUnique'
  <2>1. \A q \in Slots : pid[q] # nextpid
    BY <1>4, ProcConstants DEF ProcInv, TypeOK, PidsOld
  <2> QED  BY <1>1, <1>2, <1>3, <1>5, <2>1 DEF ProcInv, TypeOK, PidsUnique
<1> QED  BY <1>6, <1>7, <1>8, <1>9, <1>10, <1>11, <1>12 DEF ProcInv

(* np->parent = p: p runs, so it can wait for the child.                    *)
LEMMA LinkChildStep == ASSUME ProcInv, NEW p \in Slots, LinkChild(p) PROVE ProcInv'
<1> USE SlotFacts
<1>0. PICK c \in Slots : c = child[p] /\ state[c] = "USED" /\ parent[c] = None
  BY DEF ProcInv, LinkChild, ForkHasChild, Forks
<1>1. state[p] = "RUNNING" /\ pc[p] = "link_child" /\ c # p /\ c # initproc
  BY <1>0 DEF ProcInv, LinkChild, CpuRuns, InitLives
<1>2. TypeOK'
  BY <1>0 DEF ProcInv, TypeOK, LinkChild
<1>3. CpuRuns' /\ AsleepInWait' /\ InitLives' /\ PidsOld'
  BY <1>0, <1>1 DEF ProcInv, TypeOK, LinkChild, CpuRuns, AsleepInWait, InitLives, PidsOld
<1>4. ForkHasChild' /\ ForksDisjoint'
  BY <1>0, <1>1 DEF ProcInv, TypeOK, LinkChild, ForkHasChild, ForksDisjoint, Forks
<1>5. WaitersMustWait'
  BY <1>0, <1>1 DEF ProcInv, TypeOK, LinkChild, WaitersMustWait, Children, Zombies
<1>6. ParentCanWait' /\ PidsUnique'
  BY <1>0, <1>1 DEF ProcInv, TypeOK, LinkChild, ParentCanWait, PidsUnique
<1> QED  BY <1>2, <1>3, <1>4, <1>5, <1>6 DEF ProcInv

(* np->state = RUNNABLE comes after the child has its parent.               *)
LEMMA StartChildStep == ASSUME ProcInv, NEW p \in Slots, StartChild(p) PROVE ProcInv'
<1> USE SlotFacts
<1>0. PICK c \in Slots : c = child[p] /\ state[c] = "USED" /\ parent[c] = p
  BY DEF ProcInv, StartChild, ForkHasChild, Forks
<1>1. state[p] = "RUNNING" /\ pc[p] = "start_child" /\ c # p /\ c # initproc
  BY <1>0 DEF ProcInv, StartChild, CpuRuns, InitLives
<1>2. TypeOK'
  BY <1>0 DEF ProcInv, TypeOK, StartChild, States
<1>3. CpuRuns' /\ AsleepInWait' /\ InitLives' /\ PidsOld'
  BY <1>0, <1>1 DEF ProcInv, TypeOK, StartChild, CpuRuns, AsleepInWait, InitLives, PidsOld
<1>4. pc[c] \notin Forks
  BY <1>0 DEF ProcInv, ForkHasChild
<1>5. ForkHasChild' /\ ForksDisjoint'
  BY <1>0, <1>1, <1>4 DEF ProcInv, TypeOK, StartChild, ForkHasChild, ForksDisjoint, Forks
<1>6. WaitersMustWait'
  BY <1>0, <1>1 DEF ProcInv, TypeOK, StartChild, WaitersMustWait, Children, Zombies
<1>7. ParentCanWait' /\ PidsUnique'
  BY <1>0, <1>1 DEF ProcInv, TypeOK, StartChild, ParentCanWait, PidsUnique
<1> QED  BY <1>2, <1>3, <1>5, <1>6, <1>7 DEF ProcInv

(* What exit does to the states: sleepers are woken, p becomes a zombie,    *)
(* and whoever still sleeps is neither the new parent of p nor, if p had    *)
(* children, init.                                                          *)
LEMMA ExitStates ==
  ASSUME ProcInv, NEW p \in Slots, p # initproc, cpu = p, Exit(p)
  PROVE  /\ state' \in [Slots -> States] /\ state'[p] = "ZOMBIE"
         /\ \A q \in Slots : q # p =>
              state'[q] = state[q] \/ (state[q] = "SLEEPING" /\ state'[q] = "RUNNABLE")
         /\ \A q \in Slots : state'[q] = "SLEEPING" =>
              /\ state[q] = "SLEEPING" /\ q # p /\ q # parent'[p]
              /\ q = initproc => \A r \in Slots : parent[r] # p
<1> USE SlotFacts
<1> DEFINE W1 == ReparentWakes(p)
           W2 == Wakeup(W1, parent'[p])
<1>1. state' = [W2 EXCEPT ![p] = "ZOMBIE"]
  BY DEF Exit
<1>2. W1 \in [Slots -> States]
  BY DEF ReparentWakes, Wakeup, ProcInv, TypeOK, States
<1>3. W2 \in [Slots -> States]
  BY <1>2 DEF Wakeup, States
<1>4. \A q \in Slots : /\ W1[q] = state[q] \/ (state[q] = "SLEEPING" /\ W1[q] = "RUNNABLE")
                       /\ W1[q] = "SLEEPING" /\ q = initproc => \A r \in Slots : parent[r] # p
  BY DEF ReparentWakes, Wakeup, ProcInv, TypeOK, AsleepInWait
<1>5. \A q \in Slots : /\ W2[q] = W1[q] \/ (W1[q] = "SLEEPING" /\ W2[q] = "RUNNABLE")
                       /\ W2[q] = "SLEEPING" => W1[q] = "SLEEPING" /\ chan[q] # parent'[p]
  BY DEF Wakeup
<1>6. \A q \in Slots : state[q] = "SLEEPING" => chan[q] = q
  BY DEF ProcInv, AsleepInWait
<1> HIDE DEF W1, W2
<1>7. state' \in [Slots -> States] /\ state'[p] = "ZOMBIE" /\ \A q \in Slots : q # p => state'[q] = W2[q]
  BY <1>1, <1>3 DEF States
<1> QED  BY <1>4, <1>5, <1>6, <1>7

(* exit leaves no child behind and no sleeping parent beside a zombie.      *)
LEMMA ExitStep == ASSUME ProcInv, NEW p \in Slots, Exit(p) PROVE ProcInv'
<1> USE SlotFacts
<1>1. CASE p = initproc
  <2>1. cpu' = Panic /\ UNCHANGED <<state, chan, killed, pid, parent, nextpid, idx, pc, child>>
    BY <1>1 DEF Exit
  <2>2. TypeOK' /\ CpuRuns'
    BY <2>1 DEF ProcInv, TypeOK, CpuRuns
  <2>3. ForkHasChild' /\ ForksDisjoint' /\ AsleepInWait' /\ InitLives' /\ PidsOld'
    BY <2>1 DEF ProcInv, ForkHasChild, ForksDisjoint, AsleepInWait, InitLives, PidsOld
  <2>4. WaitersMustWait' /\ ParentCanWait' /\ PidsUnique'
    BY <2>1 DEF ProcInv, WaitersMustWait, Children, Zombies, ParentCanWait, PidsUnique
  <2> QED  BY <2>2, <2>3, <2>4 DEF ProcInv
<1>2. CASE p # initproc
  <2>1. cpu = p /\ cpu' = None /\ parent' = Reparent(p) /\ pc[p] = "user" /\ state[p] = "RUNNING"
    BY <1>2 DEF Exit, ProcInv, CpuRuns
  <2>2. UNCHANGED <<chan, killed, pid, nextpid, idx, pc, child>>
    BY DEF Exit
  <2>3. /\ state' \in [Slots -> States] /\ state'[p] = "ZOMBIE"
        /\ \A q \in Slots : q # p =>
             state'[q] = state[q] \/ (state[q] = "SLEEPING" /\ state'[q] = "RUNNABLE")
        /\ \A q \in Slots : state'[q] = "SLEEPING" =>
             /\ state[q] = "SLEEPING" /\ q # p /\ q # parent'[p]
             /\ q = initproc => \A r \in Slots : parent[r] # p
    BY <1>2, <2>1, ExitStates
  <2>4. /\ parent' \in [Slots -> Slots \cup {None}]
        /\ \A q \in Slots : parent'[q] = IF parent[q] = p THEN initproc ELSE parent[q]
    BY <2>1 DEF Reparent, ProcInv, TypeOK
  <2>5. TypeOK'
    BY <2>1, <2>2, <2>3, <2>4 DEF ProcInv, TypeOK
  <2>6. CpuRuns' /\ AsleepInWait' /\ PidsOld'
    BY <2>1, <2>2, <2>3 DEF ProcInv, CpuRuns, AsleepInWait, PidsOld
  <2>7. InitLives'
    BY <1>2, <2>3, <2>4 DEF ProcInv, InitLives
  <2>8. ForkHasChild' /\ ForksDisjoint'
    BY <2>1, <2>2, <2>3, <2>4 DEF ProcInv, ForkHasChild, ForksDisjoint, Forks
  <2>9. WaitersMustWait'
    BY <1>2, <2>2, <2>3, <2>4 DEF ProcInv, WaitersMustWait, Children, Zombies
  <2>10. ParentCanWait'
    <3>1. state'[initproc] \notin {"UNUSED", "ZOMBIE"}
      BY <2>7 DEF InitLives
    <3>2. \A q \in Slots : parent[q] \in Slots \cup {None}
      BY DEF ProcInv, TypeOK
    <3> QED  BY <1>2, <2>1, <2>3, <2>4, <3>1, <3>2 DEF ProcInv, ParentCanWait
  <2>11. PidsUnique'
    BY <2>1, <2>2, <2>3, <2>4 DEF ProcInv, PidsUnique
  <2> QED  BY <2>5, <2>6, <2>7, <2>8, <2>9, <2>10, <2>11 DEF ProcInv
<1> QED  BY <1>1, <1>2

(* wait without a change of the table.                                      *)
LEMMA WaitReturnStep ==
  ASSUME ProcInv, NEW p \in Slots, cpu = p, pc[p] \notin Forks,
         pc' = [pc EXCEPT ![p] = "user"],
         UNCHANGED <<state, chan, killed, pid, parent, nextpid, cpu, idx, child>>
  PROVE  ProcInv'
<1>0. state[p] = "RUNNING"
  BY DEF ProcInv, CpuRuns
<1>1. TypeOK'
  BY DEF ProcInv, TypeOK
<1>2. CpuRuns' /\ AsleepInWait' /\ InitLives' /\ PidsOld'
  BY <1>0 DEF ProcInv, TypeOK, CpuRuns, AsleepInWait, InitLives, PidsOld
<1>3. ForkHasChild' /\ ForksDisjoint'
  BY DEF ProcInv, TypeOK, ForkHasChild, ForksDisjoint, Forks
<1>4. WaitersMustWait' /\ ParentCanWait' /\ PidsUnique'
  BY DEF ProcInv, WaitersMustWait, Children, Zombies, ParentCanWait, PidsUnique
<1> QED  BY <1>1, <1>2, <1>3, <1>4 DEF ProcInv

(* wait frees the slot of a zombie child.                                   *)
LEMMA FreeStep ==
  ASSUME ProcInv, NEW p \in Slots, cpu = p, pc[p] \notin Forks,
         NEW q \in Slots, parent[q] = p, state[q] = "ZOMBIE",
         state' = [state EXCEPT ![q] = "UNUSED"],
         chan' = [chan EXCEPT ![q] = None],
         killed' = [killed EXCEPT ![q] = FALSE],
         pid' = [pid EXCEPT ![q] = 0],
         parent' = [parent EXCEPT ![q] = None],
         pc' = [pc EXCEPT ![p] = "user"],
         UNCHANGED <<nextpid, cpu, idx, child>>
  PROVE  ProcInv'
<1> USE SlotFacts
<1>0. state[p] = "RUNNING" /\ q # p /\ q # initproc
  BY DEF ProcInv, CpuRuns, InitLives
<1>1. 0 \in 0..MaxPid /\ 0 < nextpid
  BY ProcConstants DEF ProcInv, TypeOK
<1>2. TypeOK'
  BY <1>1 DEF ProcInv, TypeOK, States
<1>3. CpuRuns' /\ AsleepInWait' /\ InitLives'
  BY <1>0 DEF ProcInv, TypeOK, CpuRuns, AsleepInWait, InitLives
<1>4. PidsOld'
  BY <1>1 DEF ProcInv, TypeOK, PidsOld
<1>5. ForkHasChild' /\ ForksDisjoint'
  BY <1>0 DEF ProcInv, TypeOK, ForkHasChild, ForksDisjoint, Forks
<1>6. WaitersMustWait'
  BY <1>0 DEF ProcInv, TypeOK, WaitersMustWait, Children, Zombies
<1>7. ParentCanWait'
  BY <1>0 DEF ProcInv, TypeOK, ParentCanWait
<1>8. PidsUnique'
  BY <1>0 DEF ProcInv, TypeOK, PidsUnique
<1> QED  BY <1>2, <1>3, <1>4, <1>5, <1>6, <1>7, <1>8 DEF ProcInv

(* wait goes to sleep.                                                      *)
LEMMA WaitSleepStep ==
  ASSUME ProcInv, NEW p \in Slots, cpu = p, pc[p] \notin Forks,
         Zombies(p) = {}, ~ GivesUp(p),
         state' = [state EXCEPT ![p] = "SLEEPING"],
         chan' = [chan EXCEPT ![p] = p],
         cpu' = None,
         pc' = [pc EXCEPT ![p] = "wait"],
         UNCHANGED <<killed, pid, parent, nextpid, idx, child>>
  PROVE  ProcInv'
<1> USE SlotFacts
<1>0. state[p] = "RUNNING"
  BY DEF ProcInv, CpuRuns
<1>1. TypeOK'
  BY DEF ProcInv, TypeOK, States
<1>2. CpuRuns' /\ AsleepInWait' /\ InitLives' /\ PidsOld'
  BY <1>0 DEF ProcInv, TypeOK, CpuRuns, AsleepInWait, InitLives, PidsOld
<1>3. ForkHasChild' /\ ForksDisjoint'
  BY <1>0 DEF ProcInv, TypeOK, ForkHasChild, ForksDisjoint, Forks
<1>4. WaitersMustWait'
  BY <1>0 DEF ProcInv, TypeOK, WaitersMustWait, Children, Zombies, GivesUp
<1>5. ParentCanWait' /\ PidsUnique'
  BY <1>0 DEF ProcInv, TypeOK, ParentCanWait, PidsUnique
<1> QED  BY <1>1, <1>2, <1>3, <1>4, <1>5 DEF ProcInv

(* One pass of the loop of wait.                                            *)
LEMMA WaitStep == ASSUME ProcInv, NEW p \in Slots, Wait(p) PROVE ProcInv'
<1>1. cpu = p /\ pc[p] \notin Forks /\ UNCHANGED <<nextpid, idx, child>>
  BY DEF Wait, Enter, Forks
<1>2. CASE Reap(p)
  <2>1. PICK q \in Slots :
          /\ parent[q] = p /\ state[q] = "ZOMBIE"
          /\ \/ /\ state' = [state EXCEPT ![q] = "UNUSED"]
                /\ chan' = [chan EXCEPT ![q] = None]
                /\ killed' = [killed EXCEPT ![q] = FALSE]
                /\ pid' = [pid EXCEPT ![q] = 0]
                /\ parent' = [parent EXCEPT ![q] = None]
             \/ UNCHANGED table
          /\ pc' = [pc EXCEPT ![p] = "user"]
          /\ UNCHANGED cpu
    BY <1>2 DEF Reap, Zombies, Children, ParentAfterFree
  <2>2. CASE UNCHANGED table
    BY <1>1, <2>1, <2>2, WaitReturnStep DEF table
  <2>3. CASE ~ UNCHANGED table
    BY <1>1, <2>1, <2>3, FreeStep
  <2> QED  BY <2>2, <2>3
<1>3. CASE pc' = [pc EXCEPT ![p] = "user"] /\ UNCHANGED <<table, cpu>>
  BY <1>1, <1>3, WaitReturnStep DEF table
<1>4. CASE /\ Zombies(p) = {} /\ ~ GivesUp(p)
           /\ state' = [state EXCEPT ![p] = "SLEEPING"]
           /\ chan' = [chan EXCEPT ![p] = p]
           /\ cpu' = None
           /\ pc' = [pc EXCEPT ![p] = "wait"]
           /\ UNCHANGED <<killed, pid, parent>>
  BY <1>1, <1>4, WaitSleepStep
<1> QED  BY <1>2, <1>3, <1>4 DEF Wait

(* kill wakes a sleeper it marks; of other slots it changes only the flag.  *)
LEMMA KillStep == ASSUME ProcInv, NEW p \in Slots, NEW n \in 0..MaxPid, Kill(p, n) PROVE ProcInv'
<1> USE SlotFacts
<1>0. PICK q \in Slots :
        /\ killed' = [killed EXCEPT ![q] = TRUE]
        /\ state' = IF state[q] = "SLEEPING" THEN [state EXCEPT ![q] = "RUNNABLE"] ELSE state
  BY DEF Kill
<1>1. UNCHANGED <<chan, pid, parent, nextpid, cpu, idx, pc, child>>
  BY DEF Kill
<1>2. TypeOK'
  BY <1>0, <1>1 DEF ProcInv, TypeOK, States
<1>3. CpuRuns' /\ AsleepInWait' /\ InitLives' /\ PidsOld'
  BY <1>0, <1>1 DEF ProcInv, TypeOK, CpuRuns, AsleepInWait, InitLives, PidsOld
<1>4. ForkHasChild' /\ ForksDisjoint'
  BY <1>0, <1>1 DEF ProcInv, TypeOK, ForkHasChild, ForksDisjoint, Forks
<1>5. WaitersMustWait'
  BY <1>0, <1>1 DEF ProcInv, TypeOK, WaitersMustWait, Children, Zombies
<1>6. ParentCanWait' /\ PidsUnique'
  BY <1>0, <1>1 DEF ProcInv, TypeOK, ParentCanWait, PidsUnique
<1> QED  BY <1>2, <1>3, <1>4, <1>5, <1>6 DEF ProcInv

-----------------------------------------------------------------------------

(* The invariant is inductive: one lemma per action.                        *)
THEOREM Invariance == Spec => []ProcInv
<1>1. Init => ProcInv
  BY InitInv
<1>2. ProcInv /\ [Next]_vars => ProcInv'
  <2> SUFFICES ASSUME ProcInv, [Next]_vars PROVE ProcInv'
    OBVIOUS
  <2>1. CASE Schedule
    BY <2>1, ScheduleStep
  <2>2. ASSUME NEW p \in Slots, Yield(p) PROVE ProcInv'
    BY <2>2, YieldStep
  <2>3. ASSUME NEW p \in Slots, Exit(p) PROVE ProcInv'
    BY <2>3, ExitStep
  <2>4. ASSUME NEW p \in Slots, Wait(p) PROVE ProcInv'
    BY <2>4, WaitStep
  <2>5. ASSUME NEW p \in Slots, Fork(p) PROVE ProcInv'
    BY <2>5, ForkStep
  <2>6. ASSUME NEW p \in Slots, LinkChild(p) PROVE ProcInv'
    BY <2>6, LinkChildStep
  <2>7. ASSUME NEW p \in Slots, StartChild(p) PROVE ProcInv'
    BY <2>7, StartChildStep
  <2>8. ASSUME NEW p \in Slots, NEW n \in 0..MaxPid, Kill(p, n) PROVE ProcInv'
    BY <2>8, KillStep
  <2>9. CASE UNCHANGED vars
    BY <2>9 DEF vars, ProcInv, TypeOK, CpuRuns, ForkHasChild, ForksDisjoint, AsleepInWait, InitLives,
                PidsOld, WaitersMustWait, Children, Zombies, ParentCanWait, PidsUnique
  <2> QED  BY <2>1, <2>2, <2>3, <2>4, <2>5, <2>6, <2>7, <2>8, <2>9 DEF Next
<1> QED  BY <1>1, <1>2, PTL DEF Spec

(* Every variable of the process table keeps its type; in particular the    *)
(* scan of scheduler() stays inside the table.                              *)
THEOREM ProcTypes == Spec => []TypeOK
BY Invariance, PTL DEF ProcInv

(* No wakeup between exit, reparent and wait is lost, in a table of any     *)
(* size: who sleeps in wait has a child, none is a zombie, and no kill is   *)
(* pending.                                                                 *)
THEOREM WaitersSafe == Spec => []WaitersMustWait
BY Invariance, PTL DEF ProcInv

(* Every started process but init has a parent that can still wait for it,  *)
(* through any sequence of forks, exits and reparentings.                   *)
THEOREM ParentsSafe == Spec => []ParentCanWait
BY Invariance, PTL DEF ProcInv

(* Pids identify the processes of the table, and freed slots carry neither  *)
(* a pid nor a parent.                                                      *)
THEOREM PidsSafe == Spec => []PidsUnique
BY Invariance, PTL DEF ProcInv
=============================================================================
