------------------------------- MODULE Sysfile ------------------------------
(***************************************************************************)
(* The system calls of kernel/trap/sysfile.c that change the name space,   *)
(* run by several processes, with the open files of kernel/fs/file.c. A    *)
(* step ends where the code drops a lock that another process may take, or *)
(* has to wait for one. Paths are absolute: nothing in the kernel sets     *)
(* p->cwd, which a relative path would dereference.                        *)
(***************************************************************************)
EXTENDS Inode, Sequences

CONSTANTS
  Paths,          \* the paths processes use: sequences of names and ".."
  Ops,            \* the system calls they make
  Images,         \* file systems to start from
  MaxCalls,       \* bound on the calls other than close
  NFILE, NOFILE   \* sizes of ftable and of ofile

VARIABLES
  fs,             \* see Inode
  th,             \* what each process does, see ThType
  ftable,         \* ref and ip of each struct file
  ofile,          \* descriptor table of each process
  calls,          \* number of calls made
  stray           \* history: ".." has led to an inode without links

vars == <<fs, th, ftable, ofile, calls, stray>>

Files == 1..NFILE
Fds == 0..(NOFILE - 1)

(* pc: the place in the system call op; to: the second path of link; rest:  *)
(* what namex has still to walk from inode cur; dp, ip, name: local values; *)
(* put: inodes to iput, after an iunlock if the flag is set, before pc is   *)
(* reached; stage: the place in iput.                                       *)
ThType ==
  [pc : {"idle", "walk", "unlink", "unlink_ip", "unlink_end", "create", "create_new",
         "create_found", "created", "open", "link", "link_to", "link_bad"},
   op : Ops \cup {None}, to : Paths \cup {None}, rest : Seq(Elements),
   cur : Inums \cup {None}, dp : Inums \cup {None}, ip : Inums \cup {None},
   name : Elements \cup {None}, put : Seq(Inums \X BOOLEAN), stage : {"test", "free", "unlock", "drop"}]

TypeOK ==
  /\ FsType(fs)
  /\ th \in [Procs -> ThType]
  /\ ftable \in [Files -> [ref : Nat, ip : Inums \cup {None}]]
  /\ ofile \in [Procs -> [Fds -> Files \cup {None}]]
  /\ calls \in 0..MaxCalls
  /\ stray \in BOOLEAN

Idle == [pc |-> "idle", op |-> None, to |-> None, rest |-> <<>>, cur |-> None,
         dp |-> None, ip |-> None, name |-> None, put |-> <<>>, stage |-> "test"]

Init ==
  /\ fs \in Images
  /\ th = [p \in Procs |-> Idle]
  /\ ftable = [f \in Files |-> [ref |-> 0, ip |-> None]]
  /\ ofile = [p \in Procs |-> [d \in Fds |-> None]]
  /\ calls = 0
  /\ stray = FALSE

(* An iunlock that comes next belongs to the step. A panic stops it.        *)
Go(p, f, t) ==
  LET unlock == t.put # <<>> /\ Head(t.put)[2] /\ f.panic = ""
  IN  /\ fs' = IF unlock THEN iunlock(f, Head(t.put)[1]) ELSE f
      /\ th' = IF f.panic # "" THEN th
                ELSE [th EXCEPT ![p] = IF unlock THEN [t EXCEPT !.put[1][2] = FALSE] ELSE t]

At(p, l) == th[p].pc = l /\ th[p].put = <<>>
iput(i) == <<<<i, FALSE>>>>
iunlockput(i) == <<<<i, TRUE>>>>
Return(puts) == [Idle EXCEPT !.put = puts]
NoFiles == UNCHANGED <<ftable, ofile, calls, stray>>

(* dirlookup has found inode i under name.                                  *)
Found(name, i) ==
  /\ stray' = (stray \/ (name = ".." /\ i # 0 /\ fs.disk[i].nlink = 0))
  /\ UNCHANGED <<ftable, ofile, calls>>

-----------------------------------------------------------------------------
(* iunlockput and iput                                                      *)
-----------------------------------------------------------------------------
Iput(p) ==
  LET t == th[p]
      i == Head(t.put)[1]
      done == [t EXCEPT !.put = Tail(@), !.stage = "test"]
  IN  /\ t.put # <<>>
      /\ IF t.stage = "test"
           THEN IF MustFree(fs, i)
                THEN Go(p, iput_lock(fs, p, i), [t EXCEPT !.stage = "free"])
                ELSE Go(p, iput_drop(fs, i), done)
         ELSE IF t.stage = "free" THEN Go(p, iput_free(fs, i), [t EXCEPT !.stage = "unlock"])
         ELSE IF t.stage = "unlock" THEN Go(p, iput_unlock(fs, i), [t EXCEPT !.stage = "drop"])
         ELSE Go(p, iput_drop(fs, i), done)
      /\ NoFiles

-----------------------------------------------------------------------------
(* namex: the operations that want the parent directory stop one level      *)
(* early, with the parent unlocked.                                         *)
-----------------------------------------------------------------------------
WantsParent(t) == t.op \in {"unlink", "creat", "mkdir", "mknod"} \/ (t.op = "link" /\ t.ip # None)

After(t) == CASE t.op = "unlink" -> "unlink"
              [] t.op = "open" -> "open"
              [] t.op = "link" -> IF t.ip = None THEN "link" ELSE "link_to"
              [] OTHER -> "create"

(* Fault: the error return of namex forgets iunlockput.                     *)
NotFound_NoPut(t, puts) == Return(<<>>)

(* What a failed lookup leads to.                                           *)
NotFound(t, puts) ==
  IF t.op = "link" /\ t.ip # None
  THEN [t EXCEPT !.pc = "link_bad", !.put = puts, !.cur = None, !.rest = <<>>]
  ELSE Return(puts)

(* namex is at inode i.                                                     *)
Reach(t, i, rest, puts) ==
  IF rest # <<>> THEN [t EXCEPT !.pc = "walk", !.cur = i, !.rest = rest, !.put = puts]
  ELSE IF WantsParent(t) THEN NotFound(t, puts \o iput(i))
  ELSE [t EXCEPT !.pc = After(t), !.ip = i, !.cur = None, !.rest = <<>>, !.put = puts]

Begin(p, f, t, path) == Go(p, iget(f, ROOTINO), Reach(t, ROOTINO, path, <<>>))

Call(p) ==
  \E op \in Ops, path \in Paths, to \in Paths \cup {None} :
    /\ At(p, "idle") /\ ((op = "link") <=> (to # None))
    /\ Begin(p, fs, [Idle EXCEPT !.op = op, !.to = to], path)
    /\ calls < MaxCalls /\ calls' = calls + 1
    /\ UNCHANGED <<ftable, ofile, stray>>

Walk(p) ==
  LET t == th[p]
      f == ilock(fs, p, t.cur)
      name == Head(t.rest)
      last == WantsParent(t) /\ Len(t.rest) = 1
      next == IF last THEN 0 ELSE f.dir[t.cur][name]
  IN  /\ At(p, "walk") /\ fs.lock[t.cur] = None
      /\ IF f.itab[t.cur].type # "dir" THEN Go(p, f, NotFound(t, iunlockput(t.cur)))
         ELSE IF last
           THEN Go(p, iunlock(f, t.cur),
                   [t EXCEPT !.pc = After(t), !.dp = t.cur, !.name = name, !.cur = None, !.rest = <<>>])
         ELSE IF next = 0 THEN Go(p, f, NotFound(t, iunlockput(t.cur)))
         ELSE Go(p, iget(f, next), Reach(t, next, Tail(t.rest), iunlockput(t.cur)))
      /\ Found(name, next)

-----------------------------------------------------------------------------
(* sys_unlink                                                               *)
-----------------------------------------------------------------------------
Unlink(p) ==
  LET t == th[p]
      f == ilock(fs, p, t.dp)
      i == f.dir[t.dp][t.name]
  IN  /\ At(p, "unlink") /\ fs.lock[t.dp] = None
      /\ IF t.name = ".." THEN Go(p, f, Return(iunlockput(t.dp)))
         ELSE IF i = 0 THEN Go(p, isdir(f, t.dp), Return(iunlockput(t.dp)))
         ELSE Go(p, iget(isdir(f, t.dp), i), [t EXCEPT !.pc = "unlink_ip", !.ip = i])
      /\ NoFiles

UnlinkIp(p) ==
  LET t == th[p]
      f == ilock(fs, p, t.ip)
      g == clearentry(f, t.dp, t.name)
      dir == f.itab[t.ip].type = "dir"
  IN  /\ At(p, "unlink_ip") /\ fs.lock[t.ip] = None
      /\ IF f.itab[t.ip].nlink < 1
           THEN Go(p, IF f.panic = "" THEN [f EXCEPT !.panic = "unlink: nlink < 1"] ELSE f, t)
         ELSE IF dir /\ ~isdirempty(f, t.ip)
           THEN Go(p, f, Return(iunlockput(t.ip) \o iunlockput(t.dp)))
         ELSE Go(p, IF dir THEN setlink(g, t.dp, g.itab[t.dp].nlink - 1) ELSE g,
                 [t EXCEPT !.pc = "unlink_end", !.put = iunlockput(t.dp), !.dp = None])
      /\ NoFiles

UnlinkEnd(p) ==
  LET t == th[p] IN
  /\ At(p, "unlink_end")
  /\ Go(p, setlink(fs, t.ip, fs.itab[t.ip].nlink - 1), Return(iunlockput(t.ip)))
  /\ NoFiles

-----------------------------------------------------------------------------
(* create, for open with O_CREATE (creat), mkdir and mknod                  *)
-----------------------------------------------------------------------------
(* create returns ip locked to sys_open, which goes on, or to sys_mkdir and *)
(* sys_mknod, which put it.                                                 *)
Got(t, puts) ==
  IF t.op \in {"open", "creat"} THEN [t EXCEPT !.pc = "created", !.put = puts, !.dp = None]
  ELSE Return(puts \o iunlockput(t.ip))

Least(S) == CHOOSE x \in S : \A y \in S : x <= y
TypeOf(op) == CASE op = "mkdir" -> "dir" [] op = "mknod" -> "device" [] OTHER -> "file"

(* Fault: the directory stays locked while the existing inode is locked.    *)
Create_KeepsParent(p) ==
  LET t == th[p]
      f == ilock(fs, p, t.dp)
      i == f.dir[t.dp][t.name]
  IN  /\ At(p, "create") /\ fs.lock[t.dp] = None /\ i # 0
      /\ Go(p, iget(f, i), [t EXCEPT !.pc = "create_found", !.ip = i])
      /\ Found(t.name, i)

Create(p) ==
  LET t == th[p]
      f == isdir(ilock(fs, p, t.dp), t.dp)
      i == f.dir[t.dp][t.name]
      n == Least(FreeInums(f))
  IN  /\ At(p, "create") /\ fs.lock[t.dp] = None
      /\ IF i # 0
           THEN Go(p, iget(f, i),
                   [t EXCEPT !.pc = "create_found", !.ip = i, !.put = iunlockput(t.dp), !.dp = None])
         ELSE IF FreeInums(f) = {} THEN Go(p, f, Return(iunlockput(t.dp)))
         ELSE Go(p, ialloc(f, n, TypeOf(t.op)), [t EXCEPT !.pc = "create_new", !.ip = n])
      /\ Found(t.name, i)

(* The disk may be full when "." and ".." are written (dots) and when the   *)
(* entry is (space). A stray may have found the new directory first: then   *)
(* "." and ".." may come behind other entries, and dirlink fails if there   *)
(* is a "..".                                                               *)
CreateNew(p, dots, space) ==
  LET t == th[p]
      mkdir == t.op = "mkdir"
      f == setlink(ilock(fs, p, t.ip), t.ip, 1)
      old == fs.dir[t.ip][".."]
      puts == iunlockput(t.ip) \o iunlockput(t.dp)
  IN  /\ At(p, "create_new") /\ fs.lock[t.ip] = None
      /\ \E skew \in {FALSE, \E name \in Names : fs.dir[t.ip][name] # 0} :
           LET g == IF mkdir /\ dots THEN adddots(f, t.ip, t.dp, skew) ELSE f
               h == addentry(g, t.dp, t.name, t.ip)
           IN  IF mkdir /\ dots /\ old # 0
                 THEN Go(p, iget(setlink(f, t.ip, 0), old), Return(iput(old) \o puts))
               ELSE IF ~space \/ (mkdir /\ ~dots) THEN Go(p, setlink(g, t.ip, 0), Return(puts))
               ELSE Go(p, IF mkdir THEN setlink(h, t.dp, h.itab[t.dp].nlink + 1) ELSE h,
                       Got(t, iunlockput(t.dp)))
      /\ NoFiles

CreateFound(p) ==
  LET t == th[p]
      f == ilock(fs, p, t.ip)
  IN  /\ At(p, "create_found") /\ fs.lock[t.ip] = None
      /\ Go(p, f, IF t.op = "creat" /\ f.itab[t.ip].type \in {"file", "device"}
                  THEN Got(t, <<>>) ELSE Return(iunlockput(t.ip)))
      /\ NoFiles

-----------------------------------------------------------------------------
(* sys_open, from the point where ip is locked; sys_dup and sys_close       *)
-----------------------------------------------------------------------------
FreeFds(p) == {d \in Fds : ofile[p][d] = None}
FreeFiles == {f \in Files : ftable[f].ref = 0}

Open(p) ==
  /\ At(p, "open") /\ fs.lock[th[p].ip] = None
  /\ \E readonly \in BOOLEAN :
       LET f == ilock(fs, p, th[p].ip)
       IN  Go(p, f, IF f.itab[th[p].ip].type = "dir" /\ ~readonly
                    THEN Return(iunlockput(th[p].ip)) ELSE Got(th[p], <<>>))
  /\ NoFiles

(* The major number of a device is tested first, then come filealloc and    *)
(* fdalloc; without a descriptor the file is closed again.                  *)
Created(p, major) ==
  LET t == th[p] IN
  /\ At(p, "created")
  /\ IF (fs.itab[t.ip].type = "device" => major) /\ FreeFiles # {} /\ FreeFds(p) # {}
     THEN /\ ftable' = [ftable EXCEPT ![Least(FreeFiles)] = [ref |-> 1, ip |-> t.ip]]
          /\ ofile' = [ofile EXCEPT ![p][Least(FreeFds(p))] = Least(FreeFiles)]
          /\ Go(p, iunlock(fs, t.ip), Idle) /\ UNCHANGED <<calls, stray>>
     ELSE Go(p, fs, Return(iunlockput(t.ip))) /\ NoFiles

Dup(p) ==
  \E d \in Fds :
    /\ At(p, "idle") /\ ofile[p][d] # None /\ FreeFds(p) # {}
    /\ ofile' = [ofile EXCEPT ![p][Least(FreeFds(p))] = ofile[p][d]]
    /\ ftable' = [ftable EXCEPT ![ofile[p][d]].ref = @ + 1]
    /\ calls < MaxCalls /\ calls' = calls + 1
    /\ UNCHANGED <<fs, th, stray>>

Close(p) ==
  \E d \in Fds :
    LET f == ofile[p][d]
        last == ftable[f].ref = 1
    IN  /\ At(p, "idle") /\ f # None
        /\ ofile' = [ofile EXCEPT ![p][d] = None]
        /\ ftable' = [ftable EXCEPT ![f] = IF last THEN [ref |-> 0, ip |-> None]
                                           ELSE [@ EXCEPT !.ref = @ - 1]]
        /\ UNCHANGED <<calls, stray>>
        /\ Go(p, fs, IF last THEN Return(iput(ftable[f].ip)) ELSE Idle)

-----------------------------------------------------------------------------
(* sys_link: the count is raised before the entry exists                    *)
-----------------------------------------------------------------------------
Link(p) ==
  LET t == th[p]
      f == ilock(fs, p, t.ip)
      g == iunlock(setlink(f, t.ip, f.itab[t.ip].nlink + 1), t.ip)
  IN  /\ At(p, "link") /\ fs.lock[t.ip] = None
      /\ IF f.panic # "" \/ f.itab[t.ip].type = "dir" THEN Go(p, f, Return(iunlockput(t.ip)))
         ELSE Begin(p, g, t, t.to)
      /\ NoFiles

LinkTo(p, space) ==
  LET t == th[p]
      f == isdir(ilock(fs, p, t.dp), t.dp)
      old == f.dir[t.dp][t.name]
      bad == [t EXCEPT !.pc = "link_bad", !.dp = None]
  IN  /\ At(p, "link_to") /\ fs.lock[t.dp] = None
      /\ IF old # 0 THEN Go(p, iget(f, old), [bad EXCEPT !.put = iput(old) \o iunlockput(t.dp)])
         ELSE IF ~space THEN Go(p, f, [bad EXCEPT !.put = iunlockput(t.dp)])
         ELSE Go(p, addentry(f, t.dp, t.name, t.ip), Return(iunlockput(t.dp) \o iput(t.ip)))
      /\ Found(t.name, old)

LinkBad(p) ==
  LET t == th[p]
      f == ilock(fs, p, t.ip)
  IN  /\ At(p, "link_bad") /\ fs.lock[t.ip] = None
      /\ Go(p, setlink(f, t.ip, f.itab[t.ip].nlink - 1), Return(iunlockput(t.ip)))
      /\ NoFiles

Step(p) ==
  \/ Call(p) \/ Iput(p) \/ Walk(p)
  \/ Unlink(p) \/ UnlinkIp(p) \/ UnlinkEnd(p)
  \/ Create(p) \/ CreateFound(p) \/ Open(p) \/ Dup(p) \/ Close(p)
  \/ Link(p) \/ LinkBad(p)
  \/ \E dots, space \in BOOLEAN : CreateNew(p, dots, space)
  \/ \E space \in BOOLEAN : LinkTo(p, space)
  \/ \E major \in BOOLEAN : Created(p, major)

Next == fs.panic = "" /\ \E p \in Procs : Step(p)

Spec == Init /\ [][Next]_vars

-----------------------------------------------------------------------------
Running == fs.panic = ""

(* The pointers to the table entry of an inode: local variables, inodes     *)
(* still to be put (never more than three), and open files.                 *)
Locals(i) == {x \in Procs \X {"cur", "dp", "ip"} : th[x[1]][x[2]] = i}
Puts(i) == {x \in Procs \X (1..3) : x[2] <= Len(th[x[1]].put) /\ th[x[1]].put[x[2]][1] = i}
OpenFiles(i) == {f \in Files : ftable[f].ip = i}

(* ip->ref counts the pointers to the table entry, on every path through    *)
(* the system calls: none is lost or dropped twice by an error path. So     *)
(* does f->ref the descriptors of an open file.                             *)
Descriptors(f) == {x \in Procs \X Fds : ofile[x[1]][x[2]] = f}
RefExact ==
  /\ TypeOK
  /\ Running => \A i \in Inums :
       fs.itab[i].ref = Cardinality(Locals(i)) + Cardinality(Puts(i)) + Cardinality(OpenFiles(i))
  /\ \A f \in Files : ftable[f].ref = Cardinality(Descriptors(f))

(* nlink is at least the number of entries that name the inode and of       *)
(* directories it names, and what an entry names is allocated: sys_link     *)
(* raises nlink before the entry appears, sys_unlink removes the entry      *)
(* before nlink falls, and iput frees only what no entry names. When ".."   *)
(* has led out of a removed directory to an inode without links, which      *)
(* create may be about to set up, nlink = 1 there may undo another's count. *)
Entries(i) == {x \in Inums \X Names : fs.dir[x[1]][x[2]] = i}
Subdirs(i) == {name \in Names : fs.dir[i][name] # 0 /\ fs.disk[fs.dir[i][name]].type = "dir"}
LinksCoverEntries ==
  ~stray => \A i \in Inums :
    /\ Cardinality(Entries(i)) + Cardinality(Subdirs(i)) <= fs.disk[i].nlink
    /\ Entries(i) # {} => fs.disk[i].type # "free"

(* "iput() frees if the reference and link counts have fallen to zero": no  *)
(* allocated inode is left without links and references.                    *)
FreedWhenUnused ==
  Running => \A i \in Inums : fs.itab[i].ref = 0 /\ fs.disk[i].type # "free" => fs.disk[i].nlink > 0

(* iput holds ip->lock and has freed the inode, but valid is still set.     *)
Freeing(i) ==
  \E p \in Procs : fs.lock[i] = p /\ th[p].stage = "unlock" /\ Head(th[p].put)[1] = i

(* fs.c:331-336 against 198-205. A table entry that is valid agrees with    *)
(* the disk, so that what the next holder of ip->lock finds is true. The    *)
(* one exception is behind the lock: once iput has freed the dinode ialloc, *)
(* which does not take ip->lock, may give it a type before ip->valid = 0;   *)
(* an entry nobody has locked is never stale.                               *)
CacheCoherent ==
  Running => \A i \in Inums : fs.itab[i].valid /\ ~Freeing(i) =>
    fs.itab[i].type = fs.disk[i].type /\ fs.itab[i].nlink = fs.disk[i].nlink

(* "ip->ref == 1 means no other process can have ip locked, so this         *)
(* acquiresleep() won't block (or deadlock)", and dirlookup is called for   *)
(* directories only: these assertions hold. The one of ilock, "ilock: no    *)
(* type", and the test of nlink in sys_unlink hold too, except that ".."    *)
(* may lead out of a removed directory to a parent that was removed and     *)
(* freed after it.                                                          *)
AssertionsHold ==
  /\ fs.panic \notin {"sched locks", "dirlookup not DIR"}
  /\ ~stray => fs.panic \notin {"ilock: no type", "unlink: nlink < 1"}

(* The lock a process waits for.                                            *)
Wanted(p) ==
  LET t == th[p]
  IN  IF t.put # <<>> THEN None
      ELSE IF t.pc = "walk" THEN t.cur
      ELSE IF t.pc \in {"unlink", "create", "link_to"} THEN t.dp
      ELSE IF t.pc \in {"unlink_ip", "create_new", "create_found", "open", "link", "link_bad"} THEN t.ip
      ELSE None
Blocker(p) == IF Wanted(p) = None THEN None ELSE fs.lock[Wanted(p)]

(* Locks are taken from the parent to the child: in no set of processes     *)
(* does everyone wait for a lock that one of them holds.                    *)
NoDeadlock ==
  Running => \A S \in SUBSET Procs : S # {} => \E p \in S : Blocker(p) \notin S
=============================================================================
