-------------------------------- MODULE Pipe --------------------------------
(***************************************************************************)
(* One pipe of kernel/ipc/pipe.c with its reading and writing processes.   *)
(* pi->lock is held from the acquire of a call to its return or to sleep,  *)
(* and with one CPU nobody else runs meanwhile; the model still steps      *)
(* through the loops byte by byte. Every reader (writer) holds a reference *)
(* to the read (write) end until it closes its descriptor; fileclose calls *)
(* pipeclose for the last one. The uint counters nread and nwrite wrap     *)
(* modulo UINT.                                                            *)
(***************************************************************************)
EXTENDS Naturals, Sequences

CONSTANTS
  Readers, Writers,  \* processes with a descriptor of the read, write end
  Bytes,
  PIPESIZE,          \* kernel/ipc/pipe.h
  UINT,              \* 2^32 in the code
  MaxN,              \* largest n passed to piperead and pipewrite
  None

ASSUME PipeConstants ==
  /\ PIPESIZE \in Nat \ {0}
  /\ UINT \in Nat /\ UINT > PIPESIZE /\ UINT % PIPESIZE = 0
  /\ MaxN \in Nat
  /\ Readers \cap Writers = {}
  /\ None \notin Readers \cup Writers \cup Bytes \cup {"nread", "nwrite"}

VARIABLES
  data, nread, nwrite,    \* struct pipe
  readopen, writeopen,
  freed,                  \* pipeclose has freed the page of the pipe
  lock,                   \* holder of pi->lock
  pc,                     \* where a process is in pipe.c
  i, n,                   \* bytes moved, bytes asked for
  chan,                   \* channel a process sleeps on
  killed,
  holds                   \* processes that have not closed their descriptor

pipe == <<data, nread, nwrite>>
vars == <<data, nread, nwrite, readopen, writeopen, freed, lock, pc, i, n, chan, killed, holds>>

Procs == Readers \cup Writers

TypeOK ==
  /\ data \in [0..(PIPESIZE - 1) -> Bytes \cup {None}]
  /\ nread \in 0..(UINT - 1) /\ nwrite \in 0..(UINT - 1)
  /\ readopen \in BOOLEAN /\ writeopen \in BOOLEAN /\ freed \in BOOLEAN
  /\ lock \in Procs \cup {None}
  /\ pc \in [Procs -> {"idle", "write", "read_wait", "read_copy"}]
  /\ i \in [Procs -> 0..MaxN] /\ n \in [Procs -> 0..MaxN]
  /\ chan \in [Procs -> {"nread", "nwrite", None}]
  /\ killed \in [Procs -> BOOLEAN]
  /\ holds \subseteq Procs

(* After pipealloc, whose page holds arbitrary bytes (None).                *)
Init ==
  /\ data = [k \in 0..(PIPESIZE - 1) |-> None]
  /\ nread = 0 /\ nwrite = 0
  /\ readopen = TRUE /\ writeopen = TRUE /\ freed = FALSE
  /\ lock = None
  /\ pc = [p \in Procs |-> "idle"]
  /\ i = [p \in Procs |-> 0] /\ n = [p \in Procs |-> 0]
  /\ chan = [p \in Procs |-> None]
  /\ killed = [p \in Procs |-> FALSE]
  /\ holds = Procs

-----------------------------------------------------------------------------

Empty == nread = nwrite

(* Fault: the sum is not computed in uint, so it never wraps.               *)
FullNoWrap == nwrite = nread + PIPESIZE

Full == nwrite = (nread + PIPESIZE) % UINT

(* Fault: wakeup does nothing for writers.                                  *)
WakeupReadersOnly(c) == [p \in Procs |-> IF chan[p] = c /\ c = "nread" THEN None ELSE chan[p]]

(* wakeup(c): the channels after every sleeper on c became runnable.        *)
Wakeup(c) == [p \in Procs |-> IF chan[p] = c THEN None ELSE chan[p]]

(* sleep(&pi->c, &pi->lock), with a preceding wakeup that left channels ch. *)
Sleep(p, c, ch) ==
  /\ chan' = [ch EXCEPT ![p] = c]
  /\ lock' = None

Return(p) ==
  /\ lock' = None
  /\ pc' = [pc EXCEPT ![p] = "idle"]
  /\ i' = [i EXCEPT ![p] = 0]
  /\ n' = [n EXCEPT ![p] = 0]

Call(p, m, first) ==
  /\ p \in holds /\ pc[p] = "idle" /\ lock = None
  /\ lock' = p
  /\ pc' = [pc EXCEPT ![p] = first]
  /\ n' = [n EXCEPT ![p] = m]
  /\ UNCHANGED <<pipe, readopen, writeopen, freed, i, chan, killed, holds>>

PipeWrite(p, m) == p \in Writers /\ Call(p, m, "write")
PipeRead(p, m) == p \in Readers /\ Call(p, m, "read_wait")

(* sleep returns and takes pi->lock again.                                  *)
Reacquire(p) ==
  /\ pc[p] # "idle" /\ chan[p] = None /\ lock = None
  /\ lock' = p
  /\ UNCHANGED <<pipe, readopen, writeopen, freed, pc, i, n, chan, killed, holds>>

(* The wakeup and release at the end of pipewrite.                          *)
WriteEnd(p) ==
  /\ chan' = Wakeup("nread")
  /\ Return(p)
  /\ UNCHANGED pipe

More(p) == i[p] < n[p]

(* One pass of the loop of pipewrite, or its end. copyin may fail.          *)
WriteStep(p) ==
  /\ lock = p /\ pc[p] = "write"
  /\ \/ /\ More(p)
        /\ ~ readopen \/ killed[p]
        /\ Return(p)
        /\ UNCHANGED <<pipe, chan>>
     \/ /\ More(p) /\ readopen /\ ~ killed[p] /\ Full
        /\ Sleep(p, "nwrite", Wakeup("nread"))
        /\ UNCHANGED <<pipe, pc, i, n>>
     \/ /\ More(p) /\ readopen /\ ~ killed[p] /\ ~ Full
        /\ \/ /\ \E b \in Bytes : data' = [data EXCEPT ![nwrite % PIPESIZE] = b]
              /\ nwrite' = (nwrite + 1) % UINT
              /\ i' = [i EXCEPT ![p] = @ + 1]
              /\ UNCHANGED <<nread, lock, pc, n, chan>>
           \/ WriteEnd(p)
     \/ /\ ~ More(p)
        /\ WriteEnd(p)
  /\ UNCHANGED <<readopen, writeopen, freed, killed, holds>>

(* Fault: a reader does not look at writeopen before it sleeps.             *)
MustWaitForever(p) == Empty

(* piperead waits for bytes while some writer may still bring them.         *)
MustWait(p) == Empty /\ writeopen

ReadWait(p) ==
  /\ lock = p /\ pc[p] = "read_wait"
  /\ \/ /\ MustWait(p) /\ killed[p]
        /\ Return(p)
        /\ UNCHANGED chan
     \/ /\ MustWait(p) /\ ~ killed[p]
        /\ Sleep(p, "nread", chan)
        /\ UNCHANGED <<pc, i, n>>
     \/ /\ ~ MustWait(p)
        /\ pc' = [pc EXCEPT ![p] = "read_copy"]
        /\ UNCHANGED <<lock, i, n, chan>>
  /\ UNCHANGED <<pipe, readopen, writeopen, freed, killed, holds>>

(* One pass of the copy loop of piperead, or its end. nread advances before *)
(* copyout, which may fail.                                                 *)
ReadCopy(p) ==
  /\ lock = p /\ pc[p] = "read_copy"
  /\ \/ /\ More(p) /\ ~ Empty
        /\ nread' = (nread + 1) % UINT
        /\ \/ /\ i' = [i EXCEPT ![p] = @ + 1]
              /\ UNCHANGED <<lock, pc, n, chan>>
           \/ chan' = Wakeup("nwrite") /\ Return(p)
     \/ /\ ~ More(p) \/ Empty
        /\ chan' = Wakeup("nwrite") /\ Return(p)
        /\ UNCHANGED nread
  /\ UNCHANGED <<data, nwrite, readopen, writeopen, freed, killed, holds>>

(* Fault: the page is freed when the first of the two ends is closed.       *)
FreesEither(ro, wo) == ~ ro \/ ~ wo

Frees(ro, wo) == ~ ro /\ ~ wo

(* fileclose, which for the last reference to an end calls pipeclose.       *)
Close(p) ==
  /\ p \in holds /\ pc[p] = "idle" /\ lock = None
  /\ holds' = holds \ {p}
  /\ readopen' = (readopen /\ holds' \cap Readers # {})
  /\ writeopen' = (writeopen /\ holds' \cap Writers # {})
  /\ chan' = IF writeopen' # writeopen THEN Wakeup("nread")
             ELSE IF readopen' # readopen THEN Wakeup("nwrite")
             ELSE chan
  /\ freed' = Frees(readopen', writeopen')
  /\ UNCHANGED <<pipe, lock, pc, i, n, killed>>

(* kill by another process, which runs only when pi->lock is free.          *)
Kill(p) ==
  /\ lock = None /\ ~ killed[p]
  /\ killed' = [killed EXCEPT ![p] = TRUE]
  /\ chan' = [chan EXCEPT ![p] = None]
  /\ UNCHANGED <<pipe, readopen, writeopen, freed, lock, pc, i, n, holds>>

Step(p) == Reacquire(p) \/ WriteStep(p) \/ ReadWait(p) \/ ReadCopy(p)

Next ==
  \E p \in Procs :
    \/ \E m \in 0..MaxN : PipeWrite(p, m) \/ PipeRead(p, m)
    \/ Step(p)
    \/ Close(p)
    \/ Kill(p)

Spec == Init /\ [][Next]_vars

(* The scheduler runs every runnable process again and again, and pi->lock  *)
(* is a spinlock that no process holds across sleep: strong fairness of the *)
(* acquire, weak fairness of the steps under the lock.                      *)
FairSpec == Spec /\ \A p \in Procs : WF_vars(Step(p)) /\ SF_vars(Reacquire(p))

-----------------------------------------------------------------------------
(* Properties.                                                              *)

Count == (nwrite + UINT - nread) % UINT

(* pipe.c:74-83, 97-110. The circular buffer and its wrapping counters are  *)
(* a first-in first-out queue of at most PIPESIZE bytes: no byte is lost,   *)
(* repeated, reordered or read before it was written, also when the uint    *)
(* counters wrap.                                                           *)
Queue == INSTANCE ByteQueue WITH
  queue <- [k \in 1..Count |-> data[(nread + k - 1) % PIPESIZE]]

ImplementsByteQueue == Queue!Spec

(* pipe.c:74-77, 97-103. No lost wakeup: whenever pi->lock is free, a       *)
(* sleeping writer has a full pipe, an open read end and no kill pending; a *)
(* sleeping reader has an empty pipe, an open write end and no kill         *)
(* pending. In particular a reader and a writer never wait for each other.  *)
SleepersMustWait ==
  lock = None =>
    \A p \in Procs :
      /\ chan[p] = "nwrite" => Full /\ readopen /\ ~ killed[p]
      /\ chan[p] = "nread" => Empty /\ writeopen /\ ~ killed[p]

(* pipe.c:57-59. The page of the pipe is not freed while a process still    *)
(* holds a descriptor, inside a call or between two calls; until then its   *)
(* fields keep their types, the loop indices of both calls included.        *)
NoUseAfterFree == TypeOK /\ (freed => holds = {} /\ lock = None)

(* pipe.c:91-114. A read returns once there is a byte, end of file, or a    *)
(* kill (with one reader: another could take the byte first).               *)
ReadReturns ==
  \A p \in Readers :
    (pc[p] = "read_wait" /\ (~ Empty \/ ~ writeopen \/ killed[p])) ~> (pc[p] = "idle")

(* pipe.c:70-73. A blocked write returns once all readers have closed or    *)
(* the writer is killed.                                                    *)
WriteReturns ==
  \A p \in Writers :
    (pc[p] = "write" /\ (~ readopen \/ killed[p])) ~> (pc[p] = "idle")
=============================================================================
