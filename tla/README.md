# A TLA+ model of WHU-OSLab

WHU-OSLab is a RISC-V teaching kernel derived from xv6. This directory holds
TLA+ specifications translated from its source, TLC configurations that check
them on small instances, and TLAPS proofs for every value of the constants.
`PROJECT.json` maps every definition to the lines it models.

`kernel/main.c` runs one lab test after boot; it starts neither the file system
nor `userinit`. The models therefore treat the source files as the library they are:
any sequence of calls their interfaces
allow. The kernel is configured for one CPU (`NCPU` is 1 in `param.h`). While a
spinlock is held interrupts are off, so a critical section is atomic and one
action models one critical section; between two of them the timer interrupt can
switch to another process.

## The system and its parts

| Part | Source | State | Operations | What is hard |
|---|---|---|---|---|
| Write-ahead log | `fs/log.c` | log header in memory and on disk, log blocks, `outstanding`, `committing` | `begin_op`, `log_write`, `end_op`, `commit`, recovery | crashes between disk writes, group commit, log space |
| Buffer cache | `fs/bio.c` | NBUF buffers in LRU order, `refcnt`, `valid`, sleep-locks | `bread`, `bwrite`, `brelse`, `bpin`, `bunpin` | recycling races, pins against eviction, exhaustion |
| Disk driver | `driver/virtio_disk.c` | descriptors, avail and used rings, `used_idx` | `virtio_disk_rw`, `virtio_disk_intr` | device concurrency, 16-bit counters, descriptor exhaustion, wakeups |
| Page allocator | `mm/kalloc.c` | page pool, ordered free list | `alloc_page`, `alloc_pages`, `free_page` | two locks, pages between the two structures |
| Virtual memory | `mm/vm.c` | page tables | `map_page`, `unmap_page`, `uvmalloc`, `uvmdealloc`, `copy_pagetable` | failure half way, unaligned sizes |
| Processes | `proc/proc.c`, `trap/trap.c` | process table, `nextpid`, the CPU | `fork`, `exit`, `wait`, `kill`, `sleep`, `wakeup`, `yield`, `scheduler` | lost wakeups, orphans, reuse of slots, starvation |
| Pipes | `ipc/pipe.c` | circular buffer with `uint` counters, open ends | `pipewrite`, `piperead`, `pipeclose` | lost wakeups, wrapping counters, freeing |
| Inodes and directories | `fs/fs.c` | inode cache, bitmap, block maps, directories | `iget`, `iput`, `ilock`, `bmap`, `itrunc`, `dirlink`, `namex` | unlink against open files, lock order |
| Files and descriptors | `fs/file.c`, `trap/sysfile.c` | file table, `ofile` | `open`, `dup`, `close`, `link`, `unlink`, `pipe` | reference counts, failure half way |
| Locks | `sync/*.c` | `locked`, `noff`, `intena` | `acquire`, `release`, `acquiresleep`, `releasesleep` | nesting, interrupts, wakeups |
| Timer | `trap/trap.c`, `trap/sysproc.c` | `ticks` | `clockintr`, `sys_sleep` | wrapping counter |

The file system sits on the log, the log on the buffer cache, the buffer cache on
the disk driver, and all of them on `sleep`, `wakeup` and the sleep-locks. Pipes,
page tables and processes take their memory from the page allocator.

## Modules

* `AtomicDisk` — what the log promises: FS operations change a volatile view of
  the disk; a crash puts the view back to what is durable; what is durable changes
  in one step, to the view, and only while no operation is in progress.
* `Log` — `log.c` with what it uses of `bio.c`. The disk is the home blocks, the
  header and the log blocks; memory is the cached buffers, their pins, the
  in-memory header and the counters. A process goes through `begin_op`, `bread`,
  `log_write`, `brelse`, `end_op`, and as the last one through the writes of
  `commit`, one disk write per step. `Crash` may happen in any state, tears the
  block write in flight, and is followed by the steps of `recover_from_log`, which
  may crash too. `View` and `Durable` are the refinement mapping to `AtomicDisk`.
* `PageAlloc` — what the allocator promises: a set of free pages from which each
  call takes one page or n consecutive ones in a single step.
* `Kalloc` — `kalloc.c`. `pool` is `page_cache.buf[0..n-1]` and `freelist` the
  nodes of `kmem.freelist`. `alloc_page` and `free_page` are two critical sections
  each, hence two actions each.
* `ByteQueue` — what a pipe promises: a bounded first-in first-out queue.
* `Pipe` — `pipe.c` with its readers and writers, byte by byte; `copyin` and
  `copyout` may fail; `kill` and `fileclose` happen between calls. Giving up the
  last reference in `fileclose` and the `pipeclose` that follows are one step: after
  the first, nobody can use that end, and only the second touches the pipe.
* `Proc` — the life cycle of processes and `scheduler()`. An action is what a
  process does between two points at which it can be preempted; `fork` is three
  actions because it drops its locks twice.
* `BlockDevice` — what `virtio_disk_rw` promises: one block moves once, in one step,
  between the call and the return.
* `Virtio` — `virtio_disk.c` and, beside it, a device that fetches chains from the avail
  ring, finishes them in any order and may report errors. The device does not respect
  `vdisk_lock`, so a critical section is not atomic here: the lock is a variable, and
  filling the ring slot, incrementing `avail->idx`, and each pass of the interrupt loop are
  steps of their own. `WiredSpec` has `devintr` as it stands in `trap.c`, where the call of
  `virtio_disk_intr` is commented out; `Spec` has the interrupt handler.
* `Vm` — the user page tables of `vm.c` and the operations of `proc.c` that build, copy,
  resize and free them. An address space is its set of table pages (`mem.tab`) and its
  valid leaf entries (`mem.pte`), both with the frames they name, so that a frame in two
  places or freed twice is visible. The functions of `vm.c` are operators from memory to
  memory with the code's order of allocations and its undo paths; `growproc`, `fork`, the
  freeing in `wait`, the user copies and the page fault handler are the actions. `Init`
  starts from machines of every size up to `NFRAMES`, so every `alloc_page` is in some
  behaviour the one that fails.
* `BlockCache` — what the buffer cache promises: one content per block, in use by at most one
  process at a time. What was written to the disk or pinned stays; a change that was
  neither may be forgotten (`Forget`) once nobody uses the block.
* `Bio` — `bio.c` and the sleep-locks of `sleeplock.c`: `NBUF` buffers in LRU order with
  `refcnt`, `valid` and the lock, more blocks than buffers, pins as the log takes them, and
  `flush_all_blocks` (which no code of the repository calls). The guards of `Bpin` and `Bunpin` and
  the bound `PinLimit` are how `log.c` uses them, not tests of `bio.c`. One action per critical
  section or transfer. The refinement mapping takes
  a block's content from its valid buffer, and from the disk when there is none; recycling a buffer
  that was changed and neither written nor pinned is `Forget`.
* `Inode` — the inode table, dinodes and directories of `fs.c` as functions on a file system
  state: `iget`, `idup`, `ilock`, `iunlock`, `ialloc`, `dirlookup`, `dirlink`, and `iput` in its
  parts. `iupdate` of the freed dinode and `ip->valid = 0` are separate (`iput_free`, `iput_unlock`),
  because `ialloc`, which takes no lock of the inode, can come between them.
* `Sysfile` — `open` (with and without `O_CREATE`), `mkdir`, `mknod`, `link`, `unlink`, `dup` and
  `close` of `sysfile.c` and `file.c`, run by several processes over `Inode`. A step ends where
  the code drops a lock or must wait for one. `put` is the list of inodes a call has still to
  release, so `iput`, with the window between its truncation and its `ref--`, is the same
  sequence of steps wherever it is called. The history variable `stray` tells whether `..` has
  ever led a process to an inode without links.
* `FileMap` — file contents: `balloc`, `bfree`, `bmap` with the indirect block, `itrunc`, `readi`
  and `writei` under `fileread`, `filewrite` and `open(O_TRUNC)`. One step of a write is one
  block of the loop in `writei`. A data block is read as bytes or as pointers, as in the code.
  `copyin` moves page by page, so `either_copyin` may fail after it has moved some bytes
  (`Block(p, c)` with `c < m`); `writei` then releases the buffer without `log_write`
  (`fs.c:491-493`). `kept` remembers what the disk has of such a block, and `Recycle` is
  `bget` taking its buffer for another block, so that the change is gone at the next `bread`.
  `Recycle` does not ask whether an earlier operation of the open transaction has pinned the block;
  this allows a few more behaviours than the code has, each ending in the state of a copy that moved
  nothing. The history variable `content` is, for each byte of a file, the set of what it may be
  after the calls so far: one value, or old and new where a failed copy moved it.
* `LogProofs`, `LogRefines`, `KallocProofs`, `ProcProofs`, `PipeProofs`, `BioProofs`,
  `VirtioProofs`, `FileMapProofs` — the theorems and their proofs.
* `MCKalloc`, `MCVirtio`, `MCBio`, `MCSysfile`, `MCVm` — symmetry sets for TLC and, in `MCSysfile`, the
  paths and the initial file systems. `MCVm` has a view in place of a symmetry set, of up to 18
  frames: it forgets which frame has which use, and keeps whether `OneUse` holds. As long as
  it does, states with the same view differ by a permutation of the frames, to which
  `Vm` is indifferent. Symmetry is used only in runs without liveness, and not
  where the code scans a table in order (`Proc`, `Vm`).

How the modules meet: `BlockDevice` is what `Bio` assumes of a transfer (atomic, between
call and return) and `Virtio` shows it. `BlockCache` is what `Log` and `FileMap` assume of buffers
and `Bio` shows it; `Log` is about operations that give every block they change to `log_write`
before they release it, which all callers do except `writei` after a failed copy, and `FileMap`
has that case. `AtomicDisk` is what lets `Sysfile` and `FileMap` leave the log out: the
blocks changed between `begin_op` and `end_op` become durable together. `Log` assumes of its
callers that an operation logs at most `MAXOPBLOCKS` blocks, which `FileMap` checks of
`filewrite` (`OpFitsLog`). `PageAlloc` is what `Vm` assumes of `alloc_page`.

Definitions whose comment begins with "Fault" are not part of a specification. Each
is a variant of the definition below it with a plausible mistake, and `PROJECT.json`
names the property that TLC finds violated when the variant takes its place.

## Runs

| Run | Instance | What it shows |
|---|---|---|
| `log` | 3 processes, 2 blocks, 2 values, log of 2, 1 block per operation | The log implements `AtomicDisk` (`AtomicSpec`). With nothing in progress all is durable (`QuiescentDurable`). Pins are exactly the blocks not yet installed (`PinnedUntilInstalled`). Reservations fit (`ReservationHolds`). A sleeper in `begin_op` is woken (`SleeperWoken`). |
| `kalloc_safety` | 3 threads, 5 pages, pool of 2 | Every page is in one place (`OnePlace`), the list is ordered (`FreelistOrdered`), the allocator implements `PageAlloc`. |
| `pipe` | 1 reader, 2 writers, 2 bytes, buffer of 2, counters modulo 4 | The pipe implements `ByteQueue`; sleepers have a reason to sleep (`SleepersMustWait`); the page outlives its users (`NoUseAfterFree`); blocked calls return (`ReadReturns`, `WriteReturns`). |
| `proc` | 3 slots, pids up to 4 | No lost wakeup in `wait` (`WaitersMustWait`), no unreachable orphan (`ParentCanWait`), pids identify processes (`PidsUnique`), no starvation (`RunnableRuns`), `wait` returns (`WaitReturns`). |
| `virtio_safety` | 2 processes, 2 blocks, 2 values, 7 descriptors, rings of 2, indices modulo 4 | The driver implements `BlockDevice`; no descriptor is shared or leaks (`DescriptorsOwned`); every unread used entry belongs to a waiting request and has its interrupt pending (`CompletionsKept`). |
| `virtio_liveness` | 3 processes, 3 blocks, 4 descriptors, reads only | Sleepers have a reason to sleep (`SleepersMustWait`); a request handed to the device returns (`SubmittedReturns`). |
| `virtio_wired` | 1 process, `devintr` as it stands | Violation of `SubmittedReturns`: nobody calls `virtio_disk_intr`. |
| `vm` | 2 processes, up to 18 frames, pages of 2 bytes, tables of 2 entries, sizes up to 5 | No frame has two uses or is freed twice (`OneUse`), every byte below `p->sz` is mapped (`SizeBacked`), no failure path loses a frame (`RollbackComplete`); only reaping a process does. |
| `bio` | 3 processes, 4 blocks, 2 buffers, 2 pins | The cache implements `BlockCache` and so forgets nothing written or pinned; a process finds in its buffer the block it asked for, and no other buffer has it (`SameBlock`); `refcnt` is exact (`RefcntExact`); no wakeup of a sleep-lock is lost (`SleepersMustWait`). |
| `sysfile` | 2 processes, 3 inodes, 3 calls, 4 paths, 3 initial file systems | References are counted exactly on every path (`RefExact`), links cover entries and subdirectories (`LinksCoverEntries`), a valid table entry agrees with the disk, except behind the lock of an `iput` that has just freed it (`CacheCoherent`), the code's assertions hold (`AssertionsHold`), lock order (`NoDeadlock`). |
| `sysfile_freed` | the same | Violation of `FreedWhenUnused`: an inode that `ialloc` reuses during `iput` and whose `create` fails is never freed. |
| `filemap` | 2 processes, 2 inodes, 3 open files, 5 data blocks of 2 bytes, 1 direct and 2 indirect pointers, `uint` modulo 64 | The bitmap is exact (`BitmapExact`), files hold what was written, short writes and failed copies included, and their inodes are on disk (`ContentsExact`), a transaction fits its reservation (`OpFitsLog`), no panic and no allocation by a read (`NoPanic`), writes return (`WriteReturns`). |

The type invariants of `Pipe`, `Virtio`, `Vm`, `Bio`, `Sysfile` and `FileMap` are conjuncts of a
property of their runs; those of `Log`, `Kalloc`, `Proc`, `Pipe` and `Bio` are proved. The two
violations are disagreements between the code and its comments; `findings` in `PROJECT.json` quotes both sides.
Seven more places where the code does less than one might expect are part of the models, and the
properties are stated so that they allow them:

* `alloc_page` looks into the pool and the list under different locks and can return 0 though
  a page was free at every instant (`kalloc.c:107`). `PageAlloc` lets a call fail at any time.
* `kill(0)` marks a free slot, and `allocproc` does not clear `killed`: the next process in the
  slot is born killed (`proc.c:611`). `Kill` and `Fork` of `Proc` do this.
* `usertrap` tests `killed` only at the start of a system call (`trap.c:81`): a killed process
  that makes none runs on. `WaitReturns` claims only that it leaves `wait`.
* `freeproc` frees the page tables of a process and not its user memory (`proc.c:209`), although
  its comment (`proc.c:201-202`) says "including user pages": every reaped process costs its
  memory. `RollbackComplete` allows this loss and no other.
* `uvmalloc` returns in the middle of a failure without undoing (`vm.c:365`): the pages stay mapped
  beyond `p->sz`, and the next `growproc` over them panics with a remap. An unaligned
  `newsz` makes `unmap_page` panic (`vm.c:382`). `Vm` has both; no property forbids these panics.
* A `write` whose copy from the user fails inside a block returns less than it has changed: the
  bytes moved are seen by readers until the buffer is recycled (`fs.c:491-493`). `ContentsExact`
  lets exactly these bytes be old or new.
* A process that follows `..` out of a removed directory may come to a parent that was removed as
  well. `ilock` panics with "no type" (`fs.c:299`), unless `ialloc` has given the inode to a
  `create` that has not locked it yet: then the process can make entries in it, `create`
  sets `nlink` to 1 over the link of a subdirectory (`sysfile.c:197`), and later calls free a
  directory that an entry names, or panic with "unlink: nlink < 1" (`sysfile.c:141`). With six calls
  of `mkdir` and `unlink` by two processes TLC reaches both panics. `LinksCoverEntries` and
  `AssertionsHold` say that without such a step (`stray`) neither happens.

### Bounds

* `log`: the log has room for two operations, so with two outstanding the third process sleeps
  in `begin_op`. An operation that ends without having written leaves room while the
  other runs on, and only the `wakeup` of `end_op` without commit tells the sleeper; with two
  processes every `end_op` that finds a sleeper would also commit. Two operations that write the same
  block give absorption, and transactions have one or two blocks. The safety properties are proved
  for every number of processes, blocks and log size.
* `kalloc_safety`: five pages and a pool of two leave a list of three after boot,
  so insertion happens before, between and behind nodes, and runs of one to three
  pages can be cut from every position.
* `pipe`: two writers compete for a buffer of two and block on a full pipe, the reader
  on an empty one. Counters modulo 4 are the smallest multiple of the buffer size that
  tells full from empty, and wrap after two calls. A second reader could take the byte
  another one was woken for, for ever, so `ReadReturns` is about one reader.
* `proc`: three slots hold init, a parent and its child, which becomes init's when the parent
  exits. `MaxPid` bounds the number of forks and is larger than the table, so slots are
  reused. The safety properties are proved for every size.
* `virtio_*`: seven descriptors are two chains and one to spare, so two requests are in
  flight; four are one chain and one to spare, so that `alloc3_desc` fails after it took
  one and gives it back, which wakes the other sleepers. Rings need a slot per chain in
  flight, so two; indices modulo 4 wrap after four requests, and the runs go on beyond.
* `vm`: tables of 2 entries keep the three levels and make a growing process cross from one
  table page to the next at each level; pages of 2 bytes give unaligned sizes. 18 frames
  suffice for two processes of the largest size; all smaller machines are initial states.
* `bio`: four blocks over two buffers force recycling; two users or two pins use up both
  buffers, so the panic of `bget` is reached. Three processes put two sleepers on one sleep-lock,
  or two users on one buffer while the third recycles the other.
* `sysfile`: three inodes are a root, a directory and something in it, so the disk is full when
  the tree is there and has room when it is not. Two processes make three calls in all, besides `close`:
  enough for one call to run in the middle of another and to meet what an earlier one left.
* `filemap`: a file of three blocks uses the direct pointer and both indirect ones. Two files of
  three blocks and two indirect blocks need eight blocks and there are five, so the disk
  fills up at every point of `bmap`. A copy may fail after 0 or 1 of 2 bytes. Writes of 1 and 4
  bytes at offsets that are not aligned
  span up to three blocks, and `filewrite` splits them. A read of 63 bytes wraps `off + n`.

Deadlock checking is off where the system may stop: after a panic (`Kalloc`,
`Proc`, `Virtio`, `Vm`, `Bio`, `Sysfile`), when every descriptor is closed (`Pipe`) and when the
calls are used up (`Sysfile`, `FileMap`). The log is checked for deadlock.

### Fairness

* `Log`: `scheduler()` scans the whole table, so a process that can take a step
  takes it (weak fairness of `Step`). A system call releases its buffers and does
  not stay in its transaction for ever (weak fairness of `Brelse`, strong fairness
  of `EndOp`, because another process may hold the CPU in between).
* `Pipe`: weak fairness of the steps under the lock, strong fairness of taking it
  again after `sleep`: the lock is free infinitely often and the scheduler runs every
  runnable process. Nothing is assumed of user code: no read, write or close has to
  happen.
* `Proc`: `clockintr` programs the next timer interrupt, so the running process
  yields and the scheduler goes on (weak fairness of `Schedule` and `Yield`); a
  process in the kernel finishes its step in some of the time slices it gets (strong
  fairness of `LinkChild`, `StartChild` and of the loop of `wait`).
* `Virtio`: the device fetches and finishes every chain; processes take their steps under
  the lock, and take the lock again after `sleep` (strong fairness, as in `Pipe`). `FairSpec`
  adds that a raised interrupt is served (strong fairness, because it is masked while the
  lock is held). Completion of a request that still waits for descriptors is not claimed:
  newcomers may overtake a sleeper for ever.
* `FileMap`: a process inside a call is scheduled again (weak fairness of `Step`). The lock of
  an inode is free again after each chunk; with `MaxCalls` calls nobody is overtaken for ever, so
  `WriteReturns` is about the code's loops, not about the lock's fairness.

## Proofs

The theorems hold for any finite set of processes, any blocks and values, any log
with `MAXOPBLOCKS <= LOGBLOCKS`; for any set of threads, any number of pages and
any pool size; for any size of the process table and bound on pids; for any readers, writers
and buffer size, with counters of any width that is a multiple of it, as 2^32 is of 512; for
any finite set of processes over any number of buffers, blocks and values; and for any processes,
blocks and number of descriptors, with rings that have room for the chains the descriptors make
and ring indices of any width that is a multiple of the ring, as 2^16 is of `NUM`
(`LogConstants`, `KallocConstants`, `ProcConstants`, `PipeConstants`, `BioConstants`,
`VirtioConstants`). Those of `FileMapProofs` hold for any processes, files and inodes, any block size,
any number of direct and indirect pointers and of blocks, any width of `uint`, and any
`MAXOPBLOCKS` from 6 on, below which `filewrite` would compute a chunk of no bytes
(`FileMapConstants`).

* `LogProofs`: `TypeCorrect`, `ReservationSafe`, `PinsSafe`. `ReservationHolds`
  counts what operations have not written yet, and a step of `log_write` lowers that
  count while it extends the log. The inductive invariant adds that `outstanding` is
  the number of processes inside an operation, that at most one process commits and
  only with `outstanding` zero, that the blocks a process has written are in the log,
  that the log has no duplicates, and where the loop index stands. `PinsSafe` needs
  the last two: a block is unpinned once, when its index is installed.
* `LogRefines`: `QuiescenceSafe`, `LogImplementsAtomicDisk`. The invariant `DInv` adds to that of
  `LogProofs` what the copies contain: a buffer without a pin equals its home block, the log blocks
  written so far equal the buffers, the blocks installed so far equal the log blocks, and the log is
  empty while nobody uses it. With it every step is one of `AtomicDisk` or a stutter. Only
  `write_head` with a non-empty log changes the durable contents; `install_trans`, in a
  commit or in recovery, copies what the header already makes durable, also after a crash
  that tore the home block; and eviction loses nothing because the block is not pinned.
* `KallocProofs`: `PagesOnePlace`, `FreelistStaysOrdered`, `KallocTypes`. The inductive
  invariant is disjointness and coverage stated with the sets of nodes of the two
  structures, the order of the list, and the facts about boot (no thread runs before
  `freerange` ends) and about the page that is between pool and list. Lemmas say what
  each list operation does to the set of nodes: append and pop for the pool; insert,
  removal of the head and removal of a run for the list. The order of the list makes
  its nodes distinct, which `OnePlace` needs and which is not inductive by itself.
  `KallocImplementsPageAlloc`: from `OnePlace` the pages the abstract allocator may give out are
  those nobody holds, so each step is known by what it does to `held`: it adds a run of pages, takes
  one away, or leaves `held` alone and is a stutter.
* `ProcProofs`: `WaitersSafe`, `ParentsSafe`, `PidsSafe`, `ProcTypes`. None of the three properties is
  inductive. `WaitersMustWait` needs that a sleeper sleeps on itself, or the `wakeup` of `exit`
  and `reparent` would miss it. `ParentCanWait` needs that init stays alive and that the child of a
  `fork` in progress, which is USED and has no parent yet, gets one before it is RUNNABLE;
  that in turn needs that two forks in progress have different children and that a process
  inside `fork` cannot exit. `PidsUnique` needs that all pids are below `nextpid`.
* `PipeProofs`: `NoLostWakeup`, `PageOutlivesUsers`, `PipeImplementsByteQueue`. The invariant adds that
  whoever has the lock or sleeps is inside a call with its descriptor open, that an end is
  marked closed only when nobody holds it, that a sleeper whose reason to sleep is gone has
  the lock's holder on its way to the wakeup, and that the counters are at most `PIPESIZE` apart
  modulo `UINT`. The refinement rests on arithmetic: because `UINT` is a multiple of
  `PIPESIZE`, the cell of `nwrite` is the one behind the last byte also after a counter has
  wrapped, and while the pipe is not full it is none of the cells in use.
* `BioProofs`: `BlocksSafe`, `RefcntsSafe`, `NoLostWakeup`, `BioImplementsBlockCache`. The invariant
  `BInv` adds to the three properties that a process inside a call has a buffer with the block it
  wants, that the owner of a sleep-lock is where the code owns it, that a pinned block stays in
  the cache. The counts are cardinalities: a buffer with `refcnt` zero has no user and no pin, so
  when `bget` recycles it the block it carried is not pinned and not in use, and the step is
  `Forget` for that block, or a stutter when the buffer equalled the disk. No step takes
  content from a block that is pinned or in use.
* `VirtioProofs`: `DescriptorsSafe`, `CompletionsSafe`, `NoLostWakeup`,
  `VirtioImplementsBlockDevice`. In the state the ring indices wrap, so an order between them
  cannot be read off. The invariant `VInv` says that four natural numbers exist of which they are
  the remainders: the avail ring is filled from `S` to `A`, the used ring from `U` to `D`, and
  the entries between them, with the chains inside the device, are exactly the published requests
  that nobody has reported, each once. Their number is at most `NUM \div 3`, because each chain owns
  three descriptors that no other chain owns and that are not free. Hence no index overtakes another
  by a turn, and the slot the driver or the device fills next holds no entry still to be read. The
  rest of `VInv` says what the place in `virtio_disk_rw` implies about the lock, the chain and
  `b->disk`, and that an interrupt is raised or served while the used ring has an entry. In the
  refinement the block moves when the device finishes the chain, and the return is the driver's.

* `FileMapProofs`: `BitmapSafe`, `ContentsSafe`, `WritesFitLog`, `PanicFree`. The invariant `FInv` has
  three parts. The block maps: the pointers of all inodes and of their indirect blocks are blocks
  of the disk, no two of them equal, and the bitmap marks exactly these. The contents: outside a write the
  bytes of a file are in `content`; inside one, the bytes between the offset where it began and
  the one it has reached are the writer's and all others are in `content`. All this is said of the
  bytes in the cache and of those in `kept`, so recycling a buffer keeps it. The log: a write that has
  crossed `k` block boundaries has logged at most `2 * k` blocks besides the indirect block with its bitmap
  block, one less when it began inside a block that was there. `OpFitsLog` follows with the chunk
  size `((MAXOPBLOCKS - 4) \div 2) * BSIZE`. The lemmas say what `balloc`, `bmap`, `itrunc` and one
  turn of the loop in `writei` do to the map seen as a function from keys to blocks, the indirect block
  being one of the keys. What they use of finite sets is the hypothesis `SetFacts`, which the end of the
  module proves from the library's theorems.

Only model-checked: all liveness properties, and everything about `Vm` and `Sysfile`.
Liveness under fairness is out of the prover's reach. `Vm` builds, copies and frees address
spaces with folds over ranges of pages, so its invariants rest on what a fold computes for every
range, an induction over data the prover cannot do. The properties of `Sysfile` need an
invariant over every point at which a system call can wait, with the references, links and directory
tree at that point. There is no proof of it here: they rest on its runs alone.

## What is not modelled

* Data: a block, byte or page is a model value or number; names are members of a small set, and
  user registers do not appear. Formatting, console, UART, PLIC and boot code have no
  state worth checking.
* Memory barriers: the kernel runs on one CPU, and `Virtio` takes the accesses of CPU and device in
  program order, which is what the barriers of `virtio_disk.c` are there for. For the same
  reason spinlocks and the nesting of `push_off` are not variables: a critical section is one step.
* `forkret`: a new process is RUNNABLE and its first step is a step of the kernel. In this commit
  `forkret` (`proc.c:91`) calls `usertrapret`, which returns.
* The scans of `allocproc` and `kill` drop `p->lock` between slots; in `Proc` they are one step. In
  the code `allocproc` may pass a slot that becomes free behind it and take a later one, or fail.
* `nlink` is a `short`; in `Inode` it is a number without bound, which the calls of a run never
  bring near 2^15.
* Permissions of user copies: `growproc` maps memory without `PTE_U`, and by `SizeBacked` nothing
  below `p->sz` is left for `vmfault` to map with it, so in this commit `copyin` and `copyout` of user
  addresses always fail. `Pipe` and `FileMap` let them succeed or fail.
* The assembly of `swtch`, the trampoline and the trap vectors, part of the atomic steps of
  `Proc`; the kernel page table (`kvm_init`), built once.
* `chdir` and relative paths: nothing in the kernel sets `p->cwd`, so `sys_chdir` releases a null
  inode and a relative path starts from one.
* `sys_pipe`, `fstat` and devices; descriptors across `fork` and `exit`, which leave `ofile` alone
  (listed as a hazard). `Sysfile` has processes that stay.
* Kernel threads, `create_process` (which panics on its first lock) with `exit_process` and
  `wait_process`, the two alternative schedulers, `sys_sleep` and `ticks`.
* The composition of `Log` with `Bio`'s limit of `NBUF` buffers: `NBUF` equals `LOGBLOCKS`, so a full
  transaction pins every buffer. `Bio` reaches the panic of `bget` this way; a bound on the
  pins under which it cannot happen would be a fact about the file system's use of blocks.
