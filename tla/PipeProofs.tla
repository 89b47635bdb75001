----------------------------- MODULE PipeProofs -----------------------------
(***************************************************************************)
(* Proofs about Pipe for every set of readers and writers, every buffer    *)
(* size and every width of the counters that is a multiple of it: no       *)
(* wakeup is lost, the page outlives its users, and the circular buffer is *)
(* a first-in first-out queue.                                             *)
(***************************************************************************)
EXTENDS Pipe, Integers, SequenceTheorems, TLAPS

(* A process inside a call has not closed its descriptor, and is a reader   *)
(* or a writer as the call says.                                            *)
Inside ==
  \A p \in Procs :
    /\ pc[p] # "idle" => p \in holds
    /\ pc[p] = "write" => p \in Writers
    /\ pc[p] \in {"read_wait", "read_copy"} => p \in Readers
    /\ lock = p => pc[p] # "idle" /\ chan[p] = None
    /\ chan[p] = "nwrite" => pc[p] = "write"
    /\ chan[p] = "nread" => pc[p] = "read_wait"

(* An end is marked closed only when nobody has a descriptor of it.         *)
Ends ==
  /\ ~ readopen => holds \cap Readers = {}
  /\ ~ writeopen => holds \cap Writers = {}
  /\ freed => ~ readopen /\ ~ writeopen

(* SleepersMustWait while pi->lock is held: the reason to sleep may be gone *)
(* if the holder is on its way to the wakeup. pipewrite returns without it  *)
(* when the read end is closed or the writer killed; neither changes while  *)
(* the lock is held.                                                        *)
Waiters ==
  \A q \in Procs :
    /\ chan[q] = "nwrite" =>
         /\ readopen /\ ~ killed[q]
         /\ Full \/ \E p \in Procs : lock = p /\ pc[p] = "read_copy"
    /\ chan[q] = "nread" =>
         /\ writeopen /\ ~ killed[q]
         /\ Empty \/ \E p \in Procs : lock = p /\ pc[p] = "write" /\ readopen /\ ~ killed[p]

Bounded == Count <= PIPESIZE

(* The inductive invariant.                                                 *)
PipeInv == TypeOK /\ Inside /\ Ends /\ Waiters /\ Bounded

-----------------------------------------------------------------------------
(* Arithmetic of the counters.                                              *)

(* What division and remainder are.                                         *)
LEMMA DivMod ==
  ASSUME NEW a \in Int, NEW P \in Nat \ {0}
  PROVE  a \div P \in Int /\ a % P \in 0..(P - 1) /\ a = P * (a \div P) + (a % P)
OBVIOUS

(* A counter below its width is not changed by the remainder.               *)
LEMMA ModSmall == ASSUME NEW P \in Nat \ {0}, NEW a \in 0..(P - 1) PROVE a % P = a
OBVIOUS

(* One that passed its width wraps once.                                    *)
LEMMA ModWrap == ASSUME NEW P \in Nat \ {0}, NEW a \in P..(2 * P - 1) PROVE a % P = a - P
OBVIOUS

(* No multiple of P lies strictly between 0 and P.                          *)
LEMMA MulBound == ASSUME NEW P \in Nat \ {0}, NEW d \in Int, 0 < P * d, P * d < P PROVE FALSE
OBVIOUS

(* The remainder is determined by any such decomposition.                   *)
LEMMA ModUnique ==
  ASSUME NEW P \in Nat \ {0}, NEW q \in Int, NEW r \in 0..(P - 1)
  PROVE  (P * q + r) % P = r
OBVIOUS

(* Distributivity.                                                          *)
LEMMA Distribute ==
  ASSUME NEW P \in Int, NEW q \in Int, NEW u \in Int
  PROVE  P * (q + u) = P * q + P * u
OBVIOUS

(* The width is a multiple of the buffer size, so wrapping a counter does   *)
(* not change its place in the buffer.                                      *)
LEMMA ModAdd ==
  ASSUME NEW P \in Nat \ {0}, NEW U \in Nat, U % P = 0, NEW a \in Nat
  PROVE  (a + U) % P = a % P
<1> DEFINE q == a \div P
           u == U \div P
           r == a % P
<1>1. q \in Int /\ u \in Int /\ r \in 0..(P - 1) /\ a = P * q + r /\ U = P * u
  BY DivMod
<1> HIDE DEF q, u, r
<1>2. P * (q + u) = P * q + P * u /\ q + u \in Int
  BY <1>1, Distribute
<1>3. P * q \in Int /\ P * u \in Int
  BY <1>1
<1>4. a + U = P * (q + u) + r
  BY <1>1, <1>2, <1>3
<1>5. (P * (q + u) + r) % P = r
  BY <1>1, <1>2, ModUnique
<1> QED  BY <1>4, <1>5 DEF r

(* Counters less than a buffer apart have different places.                 *)
LEMMA ModDistinct ==
  ASSUME NEW P \in Nat \ {0}, NEW a \in Nat, NEW b \in Nat, a < b, b < a + P
  PROVE  a % P # b % P
<1> SUFFICES ASSUME a % P = b % P PROVE FALSE
  OBVIOUS
<1> DEFINE d == b \div P - a \div P
<1>1. d \in Int /\ b - a = P * d
  BY DivMod
<1> HIDE DEF d
<1>2. 0 < P * d /\ P * d < P
  BY <1>1
<1> QED  BY <1>1, <1>2, MulBound

(* The number of bytes in the pipe, as a difference that wraps once.        *)
LEMMA CountIs ==
  ASSUME NEW r \in 0..(UINT - 1), NEW w \in 0..(UINT - 1)
  PROVE  /\ (w + UINT - r) % UINT \in 0..(UINT - 1)
         /\ (w + UINT - r) % UINT = IF w >= r THEN w - r ELSE w + UINT - r
<1>1. UINT \in Nat \ {0}
  BY PipeConstants
<1>2. CASE w >= r
  <2>1. w + UINT - r \in UINT..(2 * UINT - 1)
    BY <1>1, <1>2
  <2> QED  BY <1>1, <1>2, <2>1, ModWrap
<1>3. CASE ~ (w >= r)
  <2>1. w + UINT - r \in 0..(UINT - 1)
    BY <1>1, <1>3
  <2> QED  BY <1>1, <1>3, <2>1, ModSmall
<1> QED  BY <1>2, <1>3

(* c++ on a uint counter.                                                   *)
LEMMA IncIs ==
  ASSUME NEW c \in 0..(UINT - 1)
  PROVE  /\ (c + 1) % UINT \in 0..(UINT - 1)
         /\ (c + 1) % UINT = IF c + 1 = UINT THEN 0 ELSE c + 1
<1>1. UINT \in Nat \ {0, 1}
  BY PipeConstants
<1>2. CASE c + 1 = UINT
  <2>1. c + 1 \in UINT..(2 * UINT - 1)
    BY <1>1, <1>2
  <2> QED  BY <1>1, <1>2, <2>1, ModWrap
<1>3. CASE c + 1 # UINT
  <2>1. c + 1 \in 0..(UINT - 1)
    BY <1>1, <1>3
  <2> QED  BY <1>1, <1>3, <2>1, ModSmall
<1> QED  BY <1>2, <1>3

(* The tests for an empty and a full pipe mean what they say.               *)
LEMMA Tests ==
  ASSUME TypeOK
  PROVE  /\ Count \in 0..(UINT - 1)
         /\ Count = IF nwrite >= nread THEN nwrite - nread ELSE nwrite + UINT - nread
         /\ Empty <=> Count = 0
         /\ Full <=> Count = PIPESIZE
<1>1. nread \in 0..(UINT - 1) /\ nwrite \in 0..(UINT - 1)
  BY DEF TypeOK
<1>2. UINT \in Nat \ {0} /\ PIPESIZE \in Nat \ {0} /\ PIPESIZE < UINT
  BY PipeConstants
<1>3. /\ Count \in 0..(UINT - 1)
      /\ Count = IF nwrite >= nread THEN nwrite - nread ELSE nwrite + UINT - nread
  BY <1>1, CountIs DEF Count
<1>4. Empty <=> Count = 0
  BY <1>1, <1>2, <1>3 DEF Empty
<1>5. (nread + PIPESIZE) % UINT = IF nread + PIPESIZE < UINT THEN nread + PIPESIZE ELSE nread + PIPESIZE - UINT
  <2>1. CASE nread + PIPESIZE < UINT
    <3>1. nread + PIPESIZE \in 0..(UINT - 1)
      BY <1>1, <1>2, <2>1
    <3> QED  BY <1>2, <2>1, <3>1, ModSmall
  <2>2. CASE ~ (nread + PIPESIZE < UINT)
    <3>1. nread + PIPESIZE \in UINT..(2 * UINT - 1)
      BY <1>1, <1>2, <2>2
    <3>2. PICK a \in UINT..(2 * UINT - 1) : a = nread + PIPESIZE
      BY <3>1
    <3>3. a % UINT = a - UINT
      BY <1>2, ModWrap
    <3>4. (nread + PIPESIZE) % UINT = nread + PIPESIZE - UINT
      <4>1. (nread + PIPESIZE) % UINT = a % UINT
        BY ONLY <3>2, Zenon
      <4>2. nread + PIPESIZE - UINT = a - UINT
        BY <1>1, <1>2, <3>2
      <4> QED  BY ONLY <3>3, <4>1, <4>2, Zenon
    <3> QED  BY <2>2, <3>4
  <2> QED  BY <2>1, <2>2
<1>6. Full <=> Count = PIPESIZE
  BY <1>1, <1>2, <1>3, <1>5 DEF Full
<1> QED  BY <1>3, <1>4, <1>6

(* data[nwrite++ % PIPESIZE] = ch adds a byte.                              *)
LEMMA CountWrite ==
  ASSUME TypeOK, Count < PIPESIZE, nread' = nread, nwrite' = (nwrite + 1) % UINT
  PROVE  Count' = Count + 1 /\ nwrite' \in 0..(UINT - 1)
<1>1. nread \in 0..(UINT - 1) /\ nwrite \in 0..(UINT - 1)
  BY DEF TypeOK
<1>2. UINT \in Nat \ {0} /\ PIPESIZE \in Nat \ {0} /\ PIPESIZE < UINT
  BY PipeConstants
<1>3. nwrite' \in 0..(UINT - 1) /\ nwrite' = IF nwrite + 1 = UINT THEN 0 ELSE nwrite + 1
  BY <1>1, IncIs
<1>4. Count' = IF nwrite' >= nread THEN nwrite' - nread ELSE nwrite' + UINT - nread
  BY <1>1, <1>3, CountIs DEF Count
<1>5. Count = IF nwrite >= nread THEN nwrite - nread ELSE nwrite + UINT - nread
  BY Tests
<1> QED  BY <1>1, <1>2, <1>3, <1>4, <1>5

(* data[nread++ % PIPESIZE] takes one.                                      *)
LEMMA CountRead ==
  ASSUME TypeOK, Count > 0, nwrite' = nwrite, nread' = (nread + 1) % UINT
  PROVE  Count' = Count - 1 /\ nread' \in 0..(UINT - 1)
<1>1. nread \in 0..(UINT - 1) /\ nwrite \in 0..(UINT - 1)
  BY DEF TypeOK
<1>2. UINT \in Nat \ {0}
  BY PipeConstants
<1>3. nread' \in 0..(UINT - 1) /\ nread' = IF nread + 1 = UINT THEN 0 ELSE nread + 1
  BY <1>1, IncIs
<1>4. Count' = IF nwrite >= nread' THEN nwrite - nread' ELSE nwrite + UINT - nread'
  BY <1>1, <1>3, CountIs DEF Count
<1>5. Count = IF nwrite >= nread THEN nwrite - nread ELSE nwrite + UINT - nread
  BY Tests
<1> QED  BY <1>1, <1>2, <1>3, <1>4, <1>5

-----------------------------------------------------------------------------
(* The invariant.                                                           *)

(* Facts about the constants.                                               *)
LEMMA Names ==
  /\ None # "nread" /\ None # "nwrite" /\ None \notin Procs
  /\ \A p \in Procs : ~ (p \in Readers /\ p \in Writers)
  /\ Procs = Readers \cup Writers
BY PipeConstants DEF Procs

(* After pipealloc.                                                         *)
LEMMA InitInv == Init => PipeInv
<1> SUFFICES ASSUME Init PROVE PipeInv
  OBVIOUS
<1> USE Names
<1>1. TypeOK
  <2>1. 0 \in 0..(UINT - 1) /\ 0 \in 0..MaxN
    BY PipeConstants
  <2> QED  BY <2>1 DEF Init, TypeOK
<1>2. Inside /\ Ends /\ Waiters
  BY DEF Init, Inside, Ends, Waiters
<1>3. Bounded
  BY <1>1, Tests, PipeConstants DEF Bounded, Init, Empty
<1> QED  BY <1>1, <1>2, <1>3 DEF PipeInv

(* A step that leaves the counters alone leaves the tests alone.            *)
LEMMA SamePipe ==
  ASSUME UNCHANGED <<nread, nwrite>>
  PROVE  (Full' <=> Full) /\ (Empty' <=> Empty) /\ (Bounded' <=> Bounded)
BY DEF Full, Empty, Bounded, Count

(* A call starts.                                                           *)
LEMMA CallStep ==
  ASSUME PipeInv, NEW p \in Procs, NEW m \in 0..MaxN, PipeWrite(p, m) \/ PipeRead(p, m)
  PROVE  PipeInv'
<1> USE Names
<1>1. /\ p \in holds /\ pc[p] = "idle" /\ lock = None /\ lock' = p /\ n' = [n EXCEPT ![p] = m]
      /\ UNCHANGED <<data, nread, nwrite, readopen, writeopen, freed, i, chan, killed, holds>>
      /\ \/ p \in Writers /\ pc' = [pc EXCEPT ![p] = "write"]
         \/ p \in Readers /\ pc' = [pc EXCEPT ![p] = "read_wait"]
  BY DEF PipeWrite, PipeRead, Call, pipe
<1>2. TypeOK'
  <2> HIDE Names
  <2>0. pc \in [Procs -> {"idle", "write", "read_wait", "read_copy"}] /\ n \in [Procs -> 0..MaxN]
    BY DEF PipeInv, TypeOK
  <2>1. pc' \in [Procs -> {"idle", "write", "read_wait", "read_copy"}]
    <3>1. CASE pc' = [pc EXCEPT ![p] = "write"]
      BY ONLY <2>0, <3>1
    <3>2. CASE pc' = [pc EXCEPT ![p] = "read_wait"]
      BY ONLY <2>0, <3>2
    <3> QED  BY <1>1, <3>1, <3>2
  <2>2. n' \in [Procs -> 0..MaxN]
    BY ONLY <1>1, <2>0, m \in 0..MaxN
  <2>3. lock' \in Procs \cup {None}
    BY <1>1
  <2> QED  BY <1>1, <2>1, <2>2, <2>3 DEF PipeInv, TypeOK
<1>3. Inside'
  BY <1>1 DEF PipeInv, TypeOK, Inside
<1>4. Ends'
  BY <1>1 DEF PipeInv, Ends
<1>5. Waiters' /\ Bounded'
  BY <1>1, SamePipe DEF PipeInv, TypeOK, Waiters
<1> QED  BY <1>2, <1>3, <1>4, <1>5 DEF PipeInv

(* sleep returns.                                                           *)
LEMMA ReacquireStep == ASSUME PipeInv, NEW p \in Procs, Reacquire(p) PROVE PipeInv'
<1> USE Names
<1>1. TypeOK' /\ Inside' /\ Ends'
  BY DEF PipeInv, TypeOK, Inside, Ends, Reacquire, pipe
<1>2. Waiters' /\ Bounded'
  BY SamePipe DEF PipeInv, TypeOK, Waiters, Reacquire, pipe
<1> QED  BY <1>1, <1>2 DEF PipeInv

(* kill.                                                                    *)
LEMMA KillStep == ASSUME PipeInv, NEW p \in Procs, Kill(p) PROVE PipeInv'
<1> USE Names
<1>1. TypeOK' /\ Inside' /\ Ends'
  BY DEF PipeInv, TypeOK, Inside, Ends, Kill, pipe
<1>2. Waiters' /\ Bounded'
  BY SamePipe DEF PipeInv, TypeOK, Waiters, Kill, pipe
<1> QED  BY <1>1, <1>2 DEF PipeInv

(* What the return of a call and a wakeup do to Inside, Ends and the types. *)
LEMMA ReturnStep ==
  ASSUME PipeInv, NEW p \in Procs, lock = p, Return(p),
         chan' \in [Procs -> {"nread", "nwrite", None}],
         \A q \in Procs : chan'[q] \in {chan[q], None},
         UNCHANGED <<data, nread, nwrite, readopen, writeopen, freed, killed, holds>>
  PROVE  TypeOK' /\ Inside' /\ Ends' /\ Bounded'
<1> USE Names
<1>1. 0 \in 0..MaxN
  BY PipeConstants
<1>2. TypeOK'
  BY <1>1 DEF PipeInv, TypeOK, Return
<1>3. chan[p] = None
  BY DEF PipeInv, Inside
<1>4. Inside'
  BY <1>3 DEF PipeInv, TypeOK, Inside, Return
<1>5. Ends' /\ Bounded'
  BY SamePipe DEF PipeInv, Ends
<1> QED  BY <1>2, <1>4, <1>5

(* wakeup(c) clears the channel of the sleepers on c.                       *)
LEMMA WakeupIs ==
  ASSUME TypeOK, NEW c \in {"nread", "nwrite"}
  PROVE  /\ Wakeup(c) \in [Procs -> {"nread", "nwrite", None}]
         /\ \A q \in Procs : Wakeup(c)[q] = IF chan[q] = c THEN None ELSE chan[q]
BY DEF TypeOK, Wakeup

(* The end of pipewrite: sleeping readers are woken, and there are sleeping *)
(* writers only if the pipe is full.                                        *)
LEMMA WriteEndStep ==
  ASSUME PipeInv, NEW p \in Procs, lock = p, pc[p] = "write", WriteEnd(p),
         UNCHANGED <<readopen, writeopen, freed, killed, holds>>
  PROVE  PipeInv'
<1> USE Names
<1>0. chan' = Wakeup("nread") /\ Return(p) /\ UNCHANGED <<data, nread, nwrite>>
  BY DEF WriteEnd, pipe
<1>1. /\ chan' \in [Procs -> {"nread", "nwrite", None}]
      /\ \A q \in Procs : chan'[q] = IF chan[q] = "nread" THEN None ELSE chan[q]
  BY <1>0, WakeupIs DEF PipeInv
<1>2. TypeOK' /\ Inside' /\ Ends' /\ Bounded'
  BY <1>0, <1>1, ReturnStep
<1>3. Waiters'
  BY <1>0, <1>1, SamePipe DEF PipeInv, Waiters
<1> QED  BY <1>2, <1>3 DEF PipeInv

(* pipewrite.                                                               *)
LEMMA WriteStepInv == ASSUME PipeInv, NEW p \in Procs, WriteStep(p) PROVE PipeInv'
<1> USE Names
<1>0. /\ lock = p /\ pc[p] = "write" /\ chan[p] = None /\ p \in Writers
      /\ UNCHANGED <<readopen, writeopen, freed, killed, holds>>
  BY DEF PipeInv, Inside, WriteStep
<1>1. ASSUME ~ readopen \/ killed[p], Return(p), UNCHANGED <<pipe, chan>> PROVE PipeInv'
  <2>1. TypeOK' /\ Inside' /\ Ends' /\ Bounded'
    BY <1>0, <1>1, ReturnStep DEF PipeInv, TypeOK, pipe
  <2>2. Waiters'
    BY <1>0, <1>1, SamePipe DEF PipeInv, TypeOK, Waiters, pipe
  <2> QED  BY <2>1, <2>2 DEF PipeInv
<1>2. ASSUME readopen, ~ killed[p], Full, Sleep(p, "nwrite", Wakeup("nread")),
             UNCHANGED <<pipe, pc, i, n>>
      PROVE  PipeInv'
  <2>1. lock' = None /\ chan' = [Wakeup("nread") EXCEPT ![p] = "nwrite"]
    BY <1>2 DEF Sleep
  <2>2. /\ chan' \in [Procs -> {"nread", "nwrite", None}]
        /\ \A q \in Procs : chan'[q] = IF q = p THEN "nwrite" ELSE IF chan[q] = "nread" THEN None ELSE chan[q]
    BY <2>1, WakeupIs DEF PipeInv
  <2>3. TypeOK' /\ Ends'
    BY <1>0, <1>2, <2>1, <2>2 DEF PipeInv, TypeOK, Ends, pipe
  <2>4. Inside'
    BY <1>0, <1>2, <2>1, <2>2 DEF PipeInv, Inside
  <2>5. Waiters' /\ Bounded'
    BY <1>0, <1>2, <2>1, <2>2, SamePipe DEF PipeInv, Waiters, pipe
  <2> QED  BY <2>3, <2>4, <2>5 DEF PipeInv
<1>3. ASSUME More(p), readopen, ~ killed[p], ~ Full, NEW b \in Bytes,
             data' = [data EXCEPT ![nwrite % PIPESIZE] = b],
             nwrite' = (nwrite + 1) % UINT,
             i' = [i EXCEPT ![p] = @ + 1],
             UNCHANGED <<nread, lock, pc, n, chan>>
      PROVE  PipeInv'
  <2>1. Count < PIPESIZE
    BY <1>3, Tests, PipeConstants DEF PipeInv, Bounded
  <2>2. Count' = Count + 1 /\ nwrite' \in 0..(UINT - 1)
    BY <1>3, <2>1, CountWrite DEF PipeInv
  <2>3. Bounded'
    BY <2>1, <2>2, Tests, PipeConstants DEF PipeInv, Bounded
  <2>4. i[p] + 1 \in 0..MaxN
    BY <1>3, PipeConstants DEF PipeInv, TypeOK, More
  <2>5. nwrite % PIPESIZE \in 0..(PIPESIZE - 1)
    BY PipeConstants, DivMod DEF PipeInv, TypeOK
  <2>6. TypeOK'
    BY <1>0, <1>3, <2>2, <2>4, <2>5 DEF PipeInv, TypeOK
  <2>7. Inside' /\ Ends'
    BY <1>0, <1>3 DEF PipeInv, Inside, Ends
  <2>8. \A q \in Procs : chan[q] # "nwrite"
    BY <1>0, <1>3 DEF PipeInv, Waiters
  <2>9. Waiters'
    BY <1>0, <1>3, <2>8 DEF PipeInv, Waiters
  <2> QED  BY <2>3, <2>6, <2>7, <2>9 DEF PipeInv
<1>4. ASSUME WriteEnd(p) PROVE PipeInv'
  BY <1>0, <1>4, WriteEndStep
<1> QED  BY <1>1, <1>2, <1>3, <1>4 DEF WriteStep

(* The loop of piperead that waits.                                         *)
LEMMA ReadWaitStep == ASSUME PipeInv, NEW p \in Procs, ReadWait(p) PROVE PipeInv'
<1> USE Names
<1>0. /\ lock = p /\ pc[p] = "read_wait" /\ chan[p] = None /\ p \in Readers
      /\ UNCHANGED <<data, nread, nwrite, readopen, writeopen, freed, killed, holds>>
  BY DEF PipeInv, Inside, ReadWait, pipe
<1>1. ASSUME Return(p), UNCHANGED chan PROVE PipeInv'
  <2>1. TypeOK' /\ Inside' /\ Ends' /\ Bounded'
    BY <1>0, <1>1, ReturnStep DEF PipeInv, TypeOK
  <2>2. Waiters'
    BY <1>0, <1>1, SamePipe DEF PipeInv, Waiters
  <2> QED  BY <2>1, <2>2 DEF PipeInv
<1>2. ASSUME MustWait(p), ~ killed[p], Sleep(p, "nread", chan), UNCHANGED <<pc, i, n>> PROVE PipeInv'
  <2>1. lock' = None /\ chan' = [chan EXCEPT ![p] = "nread"]
    BY <1>2 DEF Sleep
  <2>2. TypeOK' /\ Ends'
    BY <1>0, <1>2, <2>1 DEF PipeInv, TypeOK, Ends
  <2>3. Inside'
    BY <1>0, <1>2, <2>1 DEF PipeInv, TypeOK, Inside
  <2>4. Waiters' /\ Bounded'
    BY <1>0, <1>2, <2>1, SamePipe DEF PipeInv, TypeOK, Waiters, MustWait
  <2> QED  BY <2>2, <2>3, <2>4 DEF PipeInv
<1>3. ASSUME pc' = [pc EXCEPT ![p] = "read_copy"], UNCHANGED <<lock, i, n, chan>> PROVE PipeInv'
  <2>1. TypeOK' /\ Ends'
    BY <1>0, <1>3 DEF PipeInv, TypeOK, Ends
  <2>2. Inside'
    BY <1>0, <1>3 DEF PipeInv, TypeOK, Inside
  <2>3. Waiters' /\ Bounded'
    BY <1>0, <1>3, SamePipe DEF PipeInv, TypeOK, Waiters
  <2> QED  BY <2>1, <2>2, <2>3 DEF PipeInv
<1> QED  BY <1>1, <1>2, <1>3 DEF ReadWait

(* The loop of piperead that copies.                                        *)
LEMMA ReadCopyStep == ASSUME PipeInv, NEW p \in Procs, ReadCopy(p) PROVE PipeInv'
<1> USE Names
<1>0. /\ lock = p /\ pc[p] = "read_copy" /\ chan[p] = None /\ p \in Readers
      /\ UNCHANGED <<data, nwrite, readopen, writeopen, freed, killed, holds>>
  BY DEF PipeInv, Inside, ReadCopy
<1>1. ASSUME ~ Empty, nread' = (nread + 1) % UINT
      PROVE  Bounded' /\ nread' \in 0..(UINT - 1) /\ \A q \in Procs : chan[q] # "nread"
  <2>1. Count > 0
    BY <1>1, Tests, PipeConstants DEF PipeInv
  <2>2. Count' = Count - 1 /\ nread' \in 0..(UINT - 1)
    BY <1>0, <1>1, <2>1, CountRead DEF PipeInv
  <2>3. Bounded'
    BY <2>1, <2>2, Tests, PipeConstants DEF PipeInv, Bounded
  <2>4. \A q \in Procs : chan[q] # "nread"
    BY <1>0, <1>1 DEF PipeInv, Waiters
  <2> QED  BY <2>2, <2>3, <2>4
<1>2. ASSUME More(p), ~ Empty, nread' = (nread + 1) % UINT,
             i' = [i EXCEPT ![p] = @ + 1], UNCHANGED <<lock, pc, n, chan>>
      PROVE  PipeInv'
  <2>1. i[p] + 1 \in 0..MaxN
    BY <1>2, PipeConstants DEF PipeInv, TypeOK, More
  <2>2. TypeOK'
    BY <1>0, <1>1, <1>2, <2>1 DEF PipeInv, TypeOK
  <2>3. Inside' /\ Ends'
    BY <1>0, <1>2 DEF PipeInv, Inside, Ends
  <2>4. Waiters'
    BY <1>0, <1>1, <1>2 DEF PipeInv, Waiters
  <2> QED  BY <1>1, <1>2, <2>2, <2>3, <2>4 DEF PipeInv
<1>3. ASSUME chan' = Wakeup("nwrite"), Return(p),
             \/ ~ Empty /\ nread' = (nread + 1) % UINT
             \/ UNCHANGED nread
      PROVE  PipeInv'
  <2>1. /\ chan' \in [Procs -> {"nread", "nwrite", None}]
        /\ \A q \in Procs : chan'[q] = IF chan[q] = "nwrite" THEN None ELSE chan[q]
    BY <1>3, WakeupIs DEF PipeInv
  <2>2. 0 \in 0..MaxN
    BY PipeConstants
  <2>3. TypeOK'
    BY <1>0, <1>1, <1>3, <2>1, <2>2 DEF PipeInv, TypeOK, Return
  <2>4. Inside' /\ Ends'
    BY <1>0, <1>3, <2>1 DEF PipeInv, TypeOK, Inside, Ends, Return
  <2>5. Bounded'
    BY <1>0, <1>1, <1>3, SamePipe DEF PipeInv
  <2>6. \A q \in Procs : chan'[q] = "nread" => Empty /\ UNCHANGED nread
    BY <1>0, <1>1, <1>3, <2>1 DEF PipeInv, Waiters
  <2>7. Waiters'
    BY <1>0, <2>1, <2>6 DEF PipeInv, Waiters, Empty
  <2> QED  BY <2>3, <2>4, <2>5, <2>7 DEF PipeInv
<1> QED  BY <1>2, <1>3 DEF ReadCopy

(* fileclose and pipeclose. A sleeper has its descriptor, so an end that is *)
(* closed now has sleepers only on the other side, and those are woken.     *)
LEMMA CloseStep == ASSUME PipeInv, NEW p \in Procs, Close(p) PROVE PipeInv'
<1> USE Names
<1>0. /\ p \in holds /\ pc[p] = "idle" /\ lock = None /\ lock' = None
      /\ UNCHANGED <<data, nread, nwrite, pc, i, n, killed>>
      /\ holds' = holds \ {p}
      /\ readopen' = (readopen /\ holds' \cap Readers # {})
      /\ writeopen' = (writeopen /\ holds' \cap Writers # {})
      /\ freed' = (~ readopen' /\ ~ writeopen')
  BY DEF Close, pipe, Frees
<1>1. chan' = IF writeopen' # writeopen THEN Wakeup("nread")
              ELSE IF readopen' # readopen THEN Wakeup("nwrite") ELSE chan
  BY DEF Close
<1>2. /\ chan' \in [Procs -> {"nread", "nwrite", None}]
      /\ \A q \in Procs : chan'[q] \in {chan[q], None}
      /\ writeopen' # writeopen => \A q \in Procs : chan'[q] # "nread"
      /\ writeopen' = writeopen /\ readopen' # readopen => \A q \in Procs : chan'[q] # "nwrite"
  BY <1>1, WakeupIs DEF PipeInv, TypeOK
<1>3. TypeOK'
  BY <1>0, <1>2 DEF PipeInv, TypeOK
<1>4. Ends'
  BY <1>0 DEF PipeInv, TypeOK, Ends
<1>5. Inside'
  BY <1>0, <1>2 DEF PipeInv, TypeOK, Inside
<1>6. writeopen' # writeopen => \A q \in Procs : chan'[q] # "nwrite"
  <2> SUFFICES ASSUME writeopen' # writeopen, NEW q \in Procs, chan'[q] = "nwrite" PROVE FALSE
    OBVIOUS
  <2>1. holds' \cap Writers = {}
    BY <1>0 DEF PipeInv, TypeOK
  <2>2. pc'[q] = "write" /\ q \in Writers /\ q \in holds'
    BY <1>5 DEF Inside
  <2> QED  BY <2>1, <2>2
<1>7. Waiters' /\ Bounded'
  BY <1>0, <1>2, <1>6, SamePipe DEF PipeInv, TypeOK, Waiters
<1> QED  BY <1>3, <1>4, <1>5, <1>7 DEF PipeInv

(* The invariant is inductive.                                              *)
THEOREM Invariance == Spec => []PipeInv
<1>1. PipeInv /\ [Next]_vars => PipeInv'
  <2> SUFFICES ASSUME PipeInv, [Next]_vars PROVE PipeInv'
    OBVIOUS
  <2>1. ASSUME NEW p \in Procs, NEW m \in 0..MaxN, PipeWrite(p, m) \/ PipeRead(p, m) PROVE PipeInv'
    BY <2>1, CallStep
  <2>2. ASSUME NEW p \in Procs, Step(p) PROVE PipeInv'
    BY <2>2, ReacquireStep, WriteStepInv, ReadWaitStep, ReadCopyStep DEF Step
  <2>3. ASSUME NEW p \in Procs, Close(p) PROVE PipeInv'
    BY <2>3, CloseStep
  <2>4. ASSUME NEW p \in Procs, Kill(p) PROVE PipeInv'
    BY <2>4, KillStep
  <2>5. CASE UNCHANGED vars
    BY <2>5 DEF vars, PipeInv, TypeOK, Inside, Ends, Waiters, Bounded, Count, Full, Empty
  <2> QED  BY <2>1, <2>2, <2>3, <2>4, <2>5 DEF Next
<1> QED  BY InitInv, <1>1, PTL DEF Spec

(* pipe.c:74-77, 97-103: no wakeup is lost, for any number of readers and   *)
(* writers.                                                                 *)
THEOREM NoLostWakeup == Spec => []SleepersMustWait
<1>1. PipeInv => SleepersMustWait
  BY Names DEF PipeInv, Waiters, SleepersMustWait
<1> QED  BY <1>1, Invariance, PTL

(* pipe.c:57-59: pipeclose frees the page only when no process can use it.  *)
THEOREM PageOutlivesUsers == Spec => []NoUseAfterFree
<1>1. PipeInv => NoUseAfterFree
  <2> SUFFICES ASSUME PipeInv PROVE NoUseAfterFree
    OBVIOUS
  <2>1. TypeOK
    BY DEF PipeInv
  <2>2. freed => holds = {}
    BY Names DEF PipeInv, TypeOK, Ends
  <2>3. freed => lock = None
    BY <2>2 DEF PipeInv, TypeOK, Inside
  <2> QED  BY <2>1, <2>2, <2>3 DEF NoUseAfterFree
<1> QED  BY <1>1, Invariance, PTL

-----------------------------------------------------------------------------
(* The circular buffer is a queue.                                          *)

Cell(r, k) == (r + k - 1) % PIPESIZE
Contents == [k \in 1..Count |-> data[Cell(nread, k)]]

(* The contents are a sequence as long as the difference of the counters.   *)
LEMMA ContentsSeq ==
  TypeOK => /\ Contents \in Seq(Bytes \cup {None})
            /\ Len(Contents) = Count
            /\ Count \in Nat
            /\ \A k \in 1..Count : Cell(nread, k) \in 0..(PIPESIZE - 1)
<1> SUFFICES ASSUME TypeOK
             PROVE  /\ Contents \in Seq(Bytes \cup {None})
                    /\ Len(Contents) = Count
                    /\ Count \in Nat
                    /\ \A k \in 1..Count : Cell(nread, k) \in 0..(PIPESIZE - 1)
  OBVIOUS
<1>1. Count \in Nat
  BY Tests, PipeConstants
<1>2. ASSUME NEW k \in 1..Count PROVE Cell(nread, k) \in 0..(PIPESIZE - 1)
  <2>1. nread + k - 1 \in Int
    BY <1>1, PipeConstants DEF TypeOK
  <2> QED  BY <2>1, DivMod, PipeConstants DEF Cell
<1>3. \A k \in 1..Count : data[Cell(nread, k)] \in Bytes \cup {None}
  BY <1>2 DEF TypeOK
<1> QED  BY <1>1, <1>2, <1>3 DEF Contents

(* The same after a step.                                                   *)
LEMMA ContentsSeqNext ==
  TypeOK' => /\ Contents' \in Seq(Bytes \cup {None})
             /\ Len(Contents') = Count'
             /\ Count' \in Nat
<1>1. (TypeOK => /\ Contents \in Seq(Bytes \cup {None})
                 /\ Len(Contents) = Count
                 /\ Count \in Nat
                 /\ \A k \in 1..Count : Cell(nread, k) \in 0..(PIPESIZE - 1))'
  BY ContentsSeq, PTL
<1> QED  BY <1>1

(* The writer's cell comes behind those in use, also when a counter wrapped *)
(* in between, and is none of them.                                         *)
LEMMA WriterCell ==
  ASSUME TypeOK, Count < PIPESIZE
  PROVE  /\ Cell(nread, Count + 1) = nwrite % PIPESIZE
         /\ \A k \in 1..Count : Cell(nread, k) # nwrite % PIPESIZE
<1>0. /\ nread \in Nat /\ nwrite \in Nat /\ Count \in Nat /\ UINT \in Nat /\ PIPESIZE \in Nat \ {0}
      /\ UINT % PIPESIZE = 0
  BY ContentsSeq, PipeConstants DEF TypeOK
<1>1. nread + Count = nwrite \/ nread + Count = nwrite + UINT
  BY <1>0, Tests
<1>2. (nread + Count) % PIPESIZE = nwrite % PIPESIZE
  <2>1. (nwrite + UINT) % PIPESIZE = nwrite % PIPESIZE
    BY <1>0, ModAdd
  <2> QED  BY ONLY <1>1, <2>1, Zenon
<1>3. nread + (Count + 1) - 1 = nread + Count
  BY <1>0
<1>4. ASSUME NEW k \in 1..Count PROVE Cell(nread, k) # nwrite % PIPESIZE
  <2>1. /\ nread + k - 1 \in Nat /\ nread + Count \in Nat
        /\ nread + k - 1 < nread + Count /\ nread + Count < nread + k - 1 + PIPESIZE
    BY <1>0
  <2>2. (nread + k - 1) % PIPESIZE # (nread + Count) % PIPESIZE
    BY <1>0, <2>1, ModDistinct
  <2> QED  BY <1>2, <2>2 DEF Cell
<1> QED  BY <1>2, <1>3, <1>4 DEF Cell

(* A pass of pipewrite's loop appends the byte.                             *)
LEMMA PutMaps ==
  ASSUME TypeOK, TypeOK', Count < PIPESIZE, NEW b \in Bytes,
         data' = [data EXCEPT ![nwrite % PIPESIZE] = b],
         nwrite' = (nwrite + 1) % UINT, nread' = nread
  PROVE  Contents' = Append(Contents, b)
<1> DEFINE S == Bytes \cup {None}
<1>1. Count' = Count + 1 /\ Count \in Nat
  BY CountWrite, ContentsSeq
<1>2. /\ Contents \in Seq(S) /\ Len(Contents) = Count
      /\ Contents' \in Seq(S) /\ Len(Contents') = Count + 1
  BY <1>1, ContentsSeq, ContentsSeqNext
<1>3. /\ Append(Contents, b) \in Seq(S) /\ Len(Append(Contents, b)) = Count + 1
      /\ \A k \in 1..Count : Append(Contents, b)[k] = Contents[k]
      /\ Append(Contents, b)[Count + 1] = b
  BY <1>2, AppendProperties
<1>4. \A k \in 1..(Count + 1) : Contents'[k] = data'[Cell(nread, k)]
  BY <1>1 DEF Contents, Cell
<1>5. ASSUME NEW k \in 1..(Count + 1) PROVE Contents'[k] = Append(Contents, b)[k]
  <2>1. CASE k = Count + 1
    <3>1. nwrite % PIPESIZE \in 0..(PIPESIZE - 1)
      BY DivMod, PipeConstants DEF TypeOK
    <3> QED  BY <1>3, <1>4, <2>1, <3>1, WriterCell DEF TypeOK
  <2>2. CASE k # Count + 1
    <3>1. k \in 1..Count
      BY <1>1, <2>2
    <3>2. Contents'[k] = data[Cell(nread, k)]
      BY <1>4, <3>1, WriterCell, ContentsSeq DEF TypeOK
    <3>3. Contents[k] = data[Cell(nread, k)]
      BY <3>1 DEF Contents
    <3> QED  BY <1>3, <3>1, <3>2, <3>3
  <2> QED  BY <2>1, <2>2
<1> HIDE DEF S
<1> QED  BY <1>2, <1>3, <1>5, SeqEqual

(* A pass of piperead's loop removes the first byte.                        *)
LEMMA GetMaps ==
  ASSUME TypeOK, TypeOK', Count > 0,
         nread' = (nread + 1) % UINT, nwrite' = nwrite, data' = data
  PROVE  Contents # <<>> /\ Contents' = Tail(Contents)
<1> DEFINE S == Bytes \cup {None}
<1>0. /\ nread \in 0..(UINT - 1) /\ UINT \in Nat /\ PIPESIZE \in Nat \ {0} /\ UINT % PIPESIZE = 0
  BY PipeConstants DEF TypeOK
<1>1. Count' = Count - 1 /\ Count \in Nat
  BY CountRead, ContentsSeq
<1>2. /\ Contents \in Seq(S) /\ Len(Contents) = Count /\ Contents # <<>>
      /\ Contents' \in Seq(S) /\ Len(Contents') = Count - 1
  BY <1>1, ContentsSeq, ContentsSeqNext
<1>3. /\ Tail(Contents) \in Seq(S) /\ Len(Tail(Contents)) = Count - 1
      /\ \A k \in 1..(Count - 1) : Tail(Contents)[k] = Contents[k + 1]
  BY <1>2, HeadTailProperties
<1>4. ASSUME NEW k \in 1..(Count - 1) PROVE Cell(nread', k) = Cell(nread, k + 1)
  <2>1. nread' = IF nread + 1 = UINT THEN 0 ELSE nread + 1
    BY <1>0, IncIs
  <2>2. CASE nread + 1 # UINT
    <3>1. nread' + k - 1 = nread + (k + 1) - 1
      BY <1>0, <1>1, <2>1, <2>2
    <3> QED  BY <3>1 DEF Cell
  <2>3. CASE nread + 1 = UINT
    <3>1. k - 1 \in Nat /\ nread' + k - 1 = k - 1 /\ nread + (k + 1) - 1 = (k - 1) + UINT
      BY <1>0, <1>1, <2>1, <2>3
    <3>2. ((k - 1) + UINT) % PIPESIZE = (k - 1) % PIPESIZE
      BY <1>0, <3>1, ModAdd
    <3> QED  BY <3>1, <3>2 DEF Cell
  <2> QED  BY <2>2, <2>3
<1>5. ASSUME NEW k \in 1..(Count - 1) PROVE Contents'[k] = Tail(Contents)[k]
  <2>1. Contents'[k] = data[Cell(nread', k)]
    BY <1>1 DEF Contents, Cell
  <2>2. Contents[k + 1] = data[Cell(nread, k + 1)]
    BY <1>1 DEF Contents
  <2> QED  BY <1>3, <1>4, <2>1, <2>2
<1> HIDE DEF S
<1> QED  BY <1>2, <1>3, <1>5, SeqEqual

(* Nothing else touches the buffer.                                         *)
LEMMA StepMaps ==
  ASSUME PipeInv, PipeInv', [Next]_vars
  PROVE  [Queue!Put \/ Queue!Get]_Contents
<1>0. TypeOK /\ TypeOK'
  BY DEF PipeInv
<1>1. UNCHANGED <<data, nread, nwrite>> => UNCHANGED Contents
  BY DEF Contents, Count, Cell
<1>2. ASSUME NEW p \in Procs, WriteStep(p) PROVE [Queue!Put \/ Queue!Get]_Contents
  <2>1. ASSUME ~ Full, NEW b \in Bytes, data' = [data EXCEPT ![nwrite % PIPESIZE] = b],
               nwrite' = (nwrite + 1) % UINT, nread' = nread
        PROVE  Queue!Put
    <3>1. Count < PIPESIZE
      BY <2>1, Tests, PipeConstants DEF PipeInv, Bounded
    <3>2. Contents' = Append(Contents, b) /\ Len(Contents) < PIPESIZE
      BY <1>0, <2>1, <3>1, PutMaps, ContentsSeq
    <3> QED  BY <3>2 DEF Queue!Put, Contents, Cell
  <2> QED  BY <1>1, <1>2, <2>1 DEF WriteStep, WriteEnd, pipe
<1>3. ASSUME NEW p \in Procs, ReadCopy(p) PROVE [Queue!Put \/ Queue!Get]_Contents
  <2>1. ASSUME ~ Empty, nread' = (nread + 1) % UINT, nwrite' = nwrite, data' = data PROVE Queue!Get
    <3>1. Count > 0
      BY <1>0, <2>1, Tests, PipeConstants
    <3>2. Contents # <<>> /\ Contents' = Tail(Contents)
      BY <1>0, <2>1, <3>1, GetMaps
    <3> QED  BY <3>2 DEF Queue!Get, Contents, Cell
  <2> QED  BY <1>1, <1>3, <2>1 DEF ReadCopy
<1>4. ASSUME NEW p \in Procs,
             \/ \E m \in 0..MaxN : PipeWrite(p, m) \/ PipeRead(p, m)
             \/ Reacquire(p) \/ ReadWait(p) \/ Close(p) \/ Kill(p)
      PROVE  UNCHANGED Contents
  BY <1>1, <1>4 DEF PipeWrite, PipeRead, Call, Reacquire, ReadWait, Close, Kill, pipe
<1>5. CASE UNCHANGED vars
  BY <1>1, <1>5 DEF vars
<1> QED  BY <1>2, <1>3, <1>4, <1>5 DEF Next, Step

(* pipe.c:74-83, 97-110: the circular buffer with its wrapping counters is  *)
(* a first-in first-out queue, for every buffer size and every width of the *)
(* counters that is a multiple of it.                                       *)
THEOREM PipeImplementsByteQueue == Spec => ImplementsByteQueue
<1>1. Init => Queue!Init
  <2> SUFFICES ASSUME Init PROVE Contents = <<>>
    BY DEF Queue!Init, Contents, Cell
  <2>1. PipeInv
    BY InitInv
  <2>2. Count = 0
    BY <2>1, Tests DEF PipeInv, Init, Empty
  <2> QED  BY <2>2 DEF Contents
<1>2. PipeInv /\ PipeInv' /\ [Next]_vars => [Queue!Put \/ Queue!Get]_Contents
  BY StepMaps
<1> QED  BY <1>1, <1>2, Invariance, PTL DEF Spec, ImplementsByteQueue, Queue!Spec, Contents, Cell
=============================================================================
