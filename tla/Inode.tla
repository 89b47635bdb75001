-------------------------------- MODULE Inode -------------------------------
(***************************************************************************)
(* Inodes on disk and in the table of kernel/fs/fs.c, and directories, as  *)
(* functions on a file system state f that the system calls of Sysfile are *)
(* built from. File contents other than directories are left out (module   *)
(* FileMap), and so is the log: every change of an inode is followed by    *)
(* iupdate before its lock is dropped.                                     *)
(***************************************************************************)
EXTENDS Integers, FiniteSets

CONSTANTS
  Procs, None,
  Names,          \* names of directory entries
  NINODES,        \* inodes on disk (sb.ninodes - 1)
  NINODE          \* entries of the inode table

ASSUME InodeConstants ==
  /\ NINODES \in Nat \ {0} /\ NINODE \in Nat \ {0}
  /\ IsFiniteSet(Procs)
  /\ None \notin Procs \cup (1..NINODES) /\ ".." \notin Names

Inums == 1..NINODES
ROOTINO == 1
Types == {"free", "dir", "file", "device"}
Elements == Names \cup {".."}

(* disk: type and nlink of each dinode; dir: the inode number of each entry *)
(* of a directory, except ".", 0 if there is none; skew: "." and ".." are   *)
(* not the first two entries; itab: the table entry of an inode (Unread(0)  *)
(* if it has none), which iget finds or creates in one critical section;    *)
(* lock: the holder of ip->lock; panic: the message of a panic.             *)
FsType(f) ==
  f \in [disk : [Inums -> [type : Types, nlink : Int]],
         dir : [Inums -> [Elements -> Inums \cup {0}]],
         skew : [Inums -> BOOLEAN],
         itab : [Inums -> [ref : Nat, valid : BOOLEAN, type : Types, nlink : Int]],
         lock : [Inums -> Procs \cup {None}],
         panic : {"", "iget: no inodes", "ilock: no type", "dirlookup not DIR",
                  "unlink: nlink < 1", "sched locks"}]

Unread(ref) == [ref |-> ref, valid |-> FALSE, type |-> "free", nlink |-> 0]
NoEntries == [name \in Elements |-> 0]

(* A disk as mkfs leaves it, with the given directories, and an empty table; *)
(* a directory has a link from its parent and one from each subdirectory.   *)
Mounted(type, dir) ==
  [disk |-> [i \in Inums |->
      [type |-> type[i],
       nlink |-> IF type[i] = "free" THEN 0
                 ELSE 1 + Cardinality({d \in Inums \ {ROOTINO} : type[d] = "dir" /\ dir[d][".."] = i})]],
   dir |-> dir,
   skew |-> [i \in Inums |-> FALSE],
   itab |-> [i \in Inums |-> Unread(0)],
   lock |-> [i \in Inums |-> None],
   panic |-> ""]

InTable(f) == {i \in Inums : f.itab[i].ref > 0}

idup(f, i) == [f EXCEPT !.itab[i].ref = @ + 1]

iget(f, i) ==
  IF i \in InTable(f) THEN idup(f, i)
  ELSE IF Cardinality(InTable(f)) >= NINODE THEN [f EXCEPT !.panic = "iget: no inodes"]
  ELSE [f EXCEPT !.itab[i] = Unread(1)]

(* To be called when the lock is free: ilock waits for it.                  *)
ilock(f, p, i) ==
  LET g == [f EXCEPT !.lock[i] = p]
      d == f.disk[i]
  IN  IF f.itab[i].valid THEN g
      ELSE [g EXCEPT !.itab[i] = [ref |-> @.ref, valid |-> TRUE, type |-> d.type, nlink |-> d.nlink],
                     !.panic = IF d.type = "free" THEN "ilock: no type" ELSE @]

iunlock(f, i) == [f EXCEPT !.lock[i] = None]

(* ip->nlink = n and iupdate.                                               *)
setlink(f, i, n) ==
  [f EXCEPT !.itab[i].nlink = n, !.disk[i] = [type |-> f.itab[i].type, nlink |-> n]]

FreeInums(f) == {i \in Inums : f.disk[i].type = "free"}

(* The first free dinode gets the type; it is referenced but not locked.    *)
ialloc(f, i, type) == iget([f EXCEPT !.disk[i] = [type |-> type, nlink |-> 0]], i)

(* The test of dirlookup.                                                   *)
isdir(f, d) ==
  IF f.itab[d].type # "dir" /\ f.panic = "" THEN [f EXCEPT !.panic = "dirlookup not DIR"] ELSE f

(* writei of a directory entry, and of a cleared one; the first entries of  *)
(* a new directory.                                                         *)
addentry(f, d, name, i) == [f EXCEPT !.dir[d][name] = i]
clearentry(f, d, name) == [f EXCEPT !.dir[d][name] = 0]
adddots(f, d, parent, skew) == [f EXCEPT !.dir[d][".."] = parent, !.skew[d] = skew]

(* isdirempty skips two entries, whatever they are.                         *)
isdirempty(f, d) == ~f.skew[d] /\ \A name \in Names : f.dir[d][name] = 0

(* Faults: free the inode whatever its links, whatever its references.      *)
MustFree_Linked(f, i) == f.itab[i].ref = 1 /\ f.itab[i].valid
MustFree_Shared(f, i) == f.itab[i].valid /\ f.itab[i].nlink = 0

(* iput, first critical section: is the inode to be freed?                  *)
MustFree(f, i) == f.itab[i].ref = 1 /\ f.itab[i].valid /\ f.itab[i].nlink = 0

(* acquiresleep with itable.lock held: sleeping here would be a panic.      *)
iput_lock(f, p, i) ==
  IF f.lock[i] # None THEN [f EXCEPT !.panic = "sched locks"] ELSE [f EXCEPT !.lock[i] = p]

(* itrunc, ip->type = 0 and iupdate; ip->lock is held, but ialloc does not  *)
(* ask for it and may take the dinode from here on.                         *)
iput_free(f, i) ==
  [f EXCEPT !.dir[i] = NoEntries, !.skew[i] = FALSE, !.itab[i].type = "free",
            !.disk[i] = [type |-> "free", nlink |-> f.itab[i].nlink]]

(* Fault: valid stays set.                                                  *)
iput_unlock_StaysValid(f, i) == iunlock(f, i)

(* ip->valid = 0 and releasesleep                                           *)
iput_unlock(f, i) == iunlock([f EXCEPT !.itab[i] = Unread(@.ref)], i)

(* ip->ref--; an entry without references belongs to no inode.              *)
iput_drop(f, i) ==
  [f EXCEPT !.itab[i] = IF @.ref = 1 THEN Unread(0) ELSE [@ EXCEPT !.ref = @ - 1]]
=============================================================================
