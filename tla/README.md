# A TLA+ model of this xv6 kernel

The repository is an xv6 for RISC-V with copy-on-write fork, five schedulers
chosen at compile time, `waitx`, `set_priority`, `strace` and alarms. The
modules here model its kernel from the C code: memory, processes, traps,
schedulers, the disk, the file system, pipes and the console. TLC checks them on
small instances. For the parts where a mistake costs most TLAPS proves what the runs
check for every size: pages and copy-on-write, the log, the buffer cache with the
disk driver, traps, processes, files and pipes, and the console.

Paths below are relative to `src/`.

## The system and what is modelled

| Part | Code | Modules | State |
|---|---|---|---|
| page allocator with reference counts | kernel/kalloc.c | Kalloc | modelled |
| user address spaces, COW fork and fault, exec's pages | kernel/vm.c, trap.c, exec.c, proc.c | Cow | modelled but for the kernel page table, copyin and ELF parsing |
| traps, interrupts, spin locks | kernel/trap.c, spinlock.c, trampoline.S, kernelvec.S, riscv.h | Trap | modelled for the DEFAULT build |
| fork, exit, wait, waitx, kill, sleep, wakeup, clock | kernel/proc.c, sysproc.c, trap.c | Proc | modelled but for files, the trace mask and the times of waitx |
| round robin | kernel/proc.c | Proc, Trap | modelled |
| PBS, MLFQ | kernel/proc.c, trap.c | Sched with Pbs, Mlfq | modelled |
| buffer cache, sleep locks | kernel/bio.c, sleeplock.c | Bcache, Store | modelled |
| disk driver | kernel/virtio_disk.c | Virtio | modelled but for device set-up |
| redo log | kernel/log.c | Log, Journal | modelled |
| inodes, blocks, directories, file system calls | kernel/fs.c, sysfile.c, mkfs/mkfs.c | Fs | modelled |
| file table, descriptors, pipes | kernel/file.c, pipe.c, sysfile.c | Files, Fifo | modelled but for devices |
| console, UART | kernel/console.c, uart.c | Console, Tty | modelled |
| FCFS, LBS, alarms, trace output, RAM disk, boot, PLIC, printf, string, user programs, tests | | | not modelled, see below |

How the parts meet. Traps (Trap) bring a CPU into the kernel, where spin locks
keep interrupts away and `sched` hands the CPU over. fork, exit, wait and sleep
(Proc) move processes between the states that the schedulers (Sched) look at, and
fork, exec, sbrk, exit and page faults build and tear down page tables (Cow) out of
the allocator's pages (Kalloc). A file system call brackets its work (Fs) with the
log (Log), which writes blocks through the buffer cache (Bcache), which asks the
disk driver (Virtio). Descriptors (Files) lead to inodes (Fs), pipes (Files) and the
console (Console).

Cow composes Kalloc, and Bcache composes Virtio, with their callers, by EXTENDS.
Where a layer uses the one below through what that one promises, the promise is a
module of its own that the detailed one implements (INSTANCE, and the abstract
specification as a PROPERTY):

| Detailed | Promise | Property | Used by |
|---|---|---|---|
| Log | Journal: calls take effect together or not at all | `Atomic` | Fs (`stable`, `Crash`) |
| Bcache with Virtio | Store: one copy of every block, changed by its holder | `OneCopy` | Log (`cache`, `disk`) |
| Files | Fifo: a bounded queue of bytes with two ends | `IsFifo` | |
| Console | Tty: lines, with erase and kill before the end of the line | `IsTty` | |

## The modules

**Kalloc** has the free list, the counts and one content per page. `kalloc`,
`krefincr` and `krefdecr` are one critical section each; `kfree` is two
(`kfree`, `KfreePush`), because it drops `kmem.lock` between taking the count to
zero and pushing the page. A page that is between the two is `freeing[p]`.

**Cow** has the PTEs of every process (`map`, `W`, `C`, `U`), the pages the
kernel holds for a process (`held`: trapframe, table pages, and the locals `ka`
and `pa` of the function it is in), and `pc[p]`, where the thread that works on
slot `p` is. Steps of a call separated by an acquire of `kmem.lock` are separate
actions: `uvmcopy` increments the count (`CopyIncr`) and then maps (`CopyMap`,
`CopyMapFails`), `cowalloc` allocates (`CowKalloc`), copies and installs
(`CowCopy`) and gives the old page back. A slot has two tables, because exec builds
the new image beside the old one. Table levels are collapsed into a root, a page
on the way to the trampoline, and one leaf per `PTSpan` user pages. `lost`, which is
history, counts the references that a failed `uvmcopy` leaves behind.

**Trap** has, for every CPU, the registers that a trap uses (`sie`, `spp`, `spie`,
`sepc`, `scause`, `stvec`, `tp`) and the fields of `struct cpu` (`noff`,
`intena`, and `proc`), and for every kernel thread where it is (`at`), its locks, the interrupt
that its stack suspends (`stk`) and what `sched` keeps (`then`, `saved`). A trap may
come at every step where the hardware lets it. `upc` is where a process is to go
on; `astray` records a return to another place. `sepc` is forgotten once it has
been saved or returned to, since the next trap overwrites it. A system call may call
`myproc`, which reads the number of its CPU and then that CPU's process in two steps
(`myproc`, `MyprocRead`; the number is in `mine` in between).

**Proc** has the fields of `struct proc` that matter to life and death, the locks that
are held over several steps (`p->lock` on the way to the scheduler, `wait_lock`,
`tickslock`), the CPUs and the kernel thread of every process. Any runnable slot may be dispatched, so what holds here holds for every
policy that takes `p->lock` as the round robin does. waitx searches and sleeps as wait
does, and `Wait` stands for both; the times it reports are left out.

**Sched** has the part the selectable schedulers share: locks held by CPUs, with
the assertions of `acquire`, `release` and `sched` explicit (`Panic`). **Pbs** and
**Mlfq** add their loops, one step per slot looked at. In Mlfq `aging_check`'s test
and its update are two steps, because it takes no lock. All CPUs take a timer
interrupt in one step (`Timer`): the hart timers run at the same rate. A timer
interrupt between fork's reset of the slice and its `yield` is left out.

**Virtio** has the descriptors, the rings as sets of chains, and the place of each
caller in `virtio_disk_rw`. The device (`Transfer`, external) finishes any request at
any time, and may report that it failed (`IntrStatus`). **Bcache** adds the buffers with
the LRU list, the sleep locks, and callers that read, change, write, pin (as `log_write`
does) and release. A caller has one buffer at a time: a process that keeps one while it
reads another, as `write_log`, `install_trans` and `bmap` do, is two of the callers.

**Log** has the disk (home blocks, log header, log data), the cache with pins,
the fields of `struct log`, and a `pc` per process. A disk write of one block is
atomic. `Crash` may happen in every state and keeps the disk only. `Evict` drops
any buffer that is neither pinned nor locked. **Journal** is the promise: a crash
brings back the contents of a moment at which no call was in progress and which
was at least as late as the last commit.

**Fs** has the inodes on disk (`di`), the bitmap (`used`), the directories
(`ents`), the inode table (`mi`, `valid`, `ref`, `lock`) and one record of locals per
process. What a process does under inode locks is one step up to the next lock it
takes or gives up; iput's three sections are apart. Sizes are in blocks, and of
directories in entries. An inode has one direct block, an indirect block and one
block behind it, so that every case of `bmap` and `itrunc` happens. `stray` becomes
true when a process creates in, or goes up from, a directory that has been removed;
see below.

**Files** has the file table, the descriptor tables and pipes, with the copy `ff`
that `fileclose` makes before it closes the pipe without the table's lock. Pipe
counters are `W` bits wide.

**Console** has the input ring with its three indices, the transmit ring with two,
counted modulo `M` and `TxM`, the device, the interrupt handler (one at a time, as
the PLIC claims it) and the processes in `consoleread` and `uartputc`.

`CowProofs`, `LogProofs`, `BcacheProofs`, `TrapProofs`, `ProcProofs`, `PipeProofs`,
`FilesProofs` and `ConsoleProofs` hold proofs, and `SetFacts` names the facts about
finite sets that some of them use. Modules named `MC...` define instances for TLC; the
other runs use the module itself. Definitions whose comment says "Faulty" are plausible
mistakes, used to see that a property notices them; no specification uses them.

## Runs

| Run | Shows |
|---|---|
| cow | counts are exact (`RefCount`), free pages are unused (`FreePagesUnused`), a page has one owner at most (`SingleOwner`), no assertion fails (`NoPanic`), a page without an owner keeps its contents (`FrozenWithoutOwner`), with every allocation failing somewhere |
| log | Log implements Journal with crashes everywhere (`Atomic`), no assertion fails, a sleeper in `begin_op` is woken (`WakesUp`) |
| proc | two CPUs, overlapping fork, exit, wait, waitx, kill, sleep, ticks, slots used again: `StackInUse`, `ParentAlive`, no exit and no tick is missed by a sleeper (`NoLostWakeup`), and orphans that are zombies are reaped (`OrphansReaped`) |
| disk | `DescsOwned`: a descriptor belongs to one request; `BufferHeld`: the device works on locked buffers only; `RefsCounted`; no sleeper is forgotten (`NoLostWakeup`); `AssertionsHold`: no assertion fails but bget's, when all buffers are in use, and that on the status of a transfer; `OneCopy` |
| files | `RefsCounted` for files, `EndsOpen` for pipes: an end is open, and the page in use, as long as somebody holds it; `NoLostWakeup`; `IsFifo` |
| fs | `RefsCounted` and `CopiesAgree` in memory; `BlocksOwned`, `NoDangling`, `LinksCounted` on disk, after a crash as well; `NoDeadlock` of inode locks; `NoPanic` |
| console | `NoLostWakeup`, `IsTty` with indices that wrap, and that output goes on while there are writers (`OutputGoesOn`) |
| trap | `ResumesRight`: a trap returns to where it came from; `MyprocRight`: `myproc` finds its caller; `InterruptsOff`: `noff` is the number of locks, interrupts are off while there are any, and a kernel stack holds one interrupt; `NoPanic` |

Runs in which the code contradicts what a comment, an assertion, a test or the
documentation says of it:

| Run | Shows |
|---|---|
| cow_isolation | fork leaves the parent's PTE writable, so the child sees the parent's stores (vm.c:336; comment vm.c:329-330) |
| cow_leak | a COW fault gives up the last reference of a page without freeing it (trap.c:75; `countfree` of usertests.c:3497) |
| mlfq_levels | on two CPUs `aging_check` takes the level of a process below 0, where no loop looks for it (proc.c:775; README.md:205) |
| pbs_locks | a `continue` of the PBS loop keeps a lock (proc.c:931; assertion of `sched`, proc.c:1062) |

### What the code does beyond the properties

Met while modelling, and left as the code has it. Where a property would fail
because of one of these, the property says what it excepts.

- Pages are lost in two ways. `cowalloc` gives the old page back with `krefdecr`, which
  never frees (trap.c:75; run cow_leak). And `uvmcopy` counts a page before it maps it, and
  does not take the count back when `mappages` fails (vm.c:346), so that the page is never
  free again; `RefCount` holds with `lost` counted.
- `PTE_C` is set for read-only pages too, so that text becomes writable in a child
  (vm.c:338).
- The log holds one block less than `begin_op` hands out (log.c:220).
- `bget` panics when every buffer is in use (bio.c:88). `NBUF` is `LOGSIZE`
  (param.h:10-11), so a nearly full log leaves few buffers for the other callers, of
  which there may be `NPROC` with two buffers each. In run disk it does run out.
- A kill between wait's test and its sleep is lost (proc.c:730), and kill(0) marks
  an unused slot, whose next process starts killed (proc.c:1178).
- A tick that is counted for a process and not yet in `ticks`, or the other way
  round, makes waitx's waiting time -1, which is stored unsigned (proc.c:528).
- The FCFS loop releases the lock of the process it is going to run, and keeps that of
  the one it had chosen before (proc.c:868).
- `wait_time` grows while a process runs, not while it waits (proc.c:760), so that a
  process of the last level may wait behind the others forever.
- `uartstart` wakes all writers for one place in the ring, so that one of several may be
  overtaken forever (uart.c:95).
- A killed writer leaves bytes in a pipe without waking the reader (pipe.c:84);
  `stranded` marks them in Files.
- Names created in a removed directory are lost with their inodes, and `..` of one
  may lead to a freed inode (`stray` in Fs).
- A root directory that mkfs fills to the last entry of a block ends in a block that
  is not allocated (mkfs.c:166).
- `iget` panics when `NINODE` inodes are in use (fs.c:267), set_priority may reach the
  slot's next process (proc.c:121), and a store to a read-only page that is not COW
  faults forever (trap.c:57).
- The scheduler may go round its table with interrupts off after a switch back,
  until its next `intr_on`.

### Bounds

- Cow: three slots give a chain of two forks, or two children of one parent, with
  a slot used again; `MaxOps` bounds the fork, exec and sbrk calls to two. Stores,
  faults, exits and waits are not bounded. 13 pages, with one leaf table for every
  user page, run out at every possible place. Deadlock is not checked: once the
  calls are used up and memory is lost the system may stop.
- Log: one process commits while the other sleeps or recovers. A log of four blocks
  is two reservations of two, so that `begin_op` finds no space as soon as a block is
  logged beside an open call; with three blocks a third caller, let in too early,
  overflows it. `OpBlocks`, what a call writes, is less than what it reserves. Boot is
  with an image of mkfs, whose log is zero; every later crash boots with what is there.
  With two callers the wakeup of `end_op` without
  a commit is never the one that counts.
- Proc: three slots and two CPUs; a slot is used again after a fork that fails; one tick,
  which is enough for a sleeper. `Calls` says which calls the process of a slot makes: init
  forks and waits, the second forks, waits and sleeps, and exits when the third, which also
  exits, has killed it. Its child is then init's.
- Schedulers: two slots, with two CPUs for Mlfq and one for Pbs. Mlfq's levels and `AGE` are scaled down from 5 and
  36; as in the code, `AGE` is longer than a slice of a level above the last.
- Disk: two buffers, one of which may be pinned, for three callers and three blocks, so
  that buffers are recycled all the time and run out. One of the blocks is written, the
  others compete for the buffers. With six descriptors two requests are in flight; with
  four the second finds one, gives it back and sleeps. `Sizes` lets one run have both: a
  descriptor that is never free is one the queue does not have. At boot the blocks
  differ from what an unused buffer holds. Deadlock is not checked: a panic stops the
  system.
- Files: two files and two descriptors per process are a pipe; all tables are full
  most of the time. `PIPESIZE` is 2 and the counters wrap at 4; transfers are of
  two bytes. Deadlock is not checked: a process may wait for its own pipe forever.
- Fs: two processes, three calls between them in a run, a directory two levels deep, four
  inodes and four blocks, so that inodes and blocks run out; three entries per
  block. One crash in every state; after it, only the state is checked. The start is
  a disk of mkfs, empty or with two files, or one with a directory. Deadlock in the
  sense of TLC is not checked, since the calls are used up; `NoDeadlock` is.
- Console: an input ring of two, indices modulo four, and a transmit ring of one
  for two writers.
- Trap: two CPUs and two processes, two locks at a time.

Processes, blocks, pipes and CPUs that are alike are permuted (`Symmetry`) where
a run checks no liveness.

### Fairness

- `Log!FairSpec`: a process inside a call or a commit goes on, since the scheduler
  runs it; nothing is assumed about crashes or about calls being made.
- `Proc!FairSpec`: a CPU leaves a process's stack; a runnable process gets a CPU
  (the round robin passes every slot); a process that waits for a spin lock gets it
  when it is free infinitely often; init calls wait again and again (user/init.c);
  a timer interrupt that is pending is taken. No process but init need make a call.
- `Console!Spec`: the device sends what it has, the handler and the processes go on.
  Characters need not be typed, and lines need not be read. `OutputGoesOn` is for
  input that pauses: `uartintr` does not get to the output while characters come.

## Proofs

A theorem holds for every value of the constants that the named assumptions allow.
`KallocAssumption`, `CowAssumption`, `LogAssumption`, `VirtioAssumption`,
`BcacheAssumption`, `TrapAssumption`, `ProcAssumption`, `FilesAssumption`,
`NobodyAssumption`, `ConsoleAssumption`, `CountAssumption` and `HolderAssumption`
say that sets are finite where they are counted, sizes are natural numbers, null values are apart and an image
fits. What they and two more say about sizes has its ground in the code:

- `FilesAssumption` and `ConsoleAssumption`: the size of a ring divides the range of its
  counters, as 512, 128 and 32 divide 2^32 (pipe.c, console.c) and 2^64 (uart.c).
- `ProcAssumption`: init never exits (user/init.c).

- `BootAssumption`: `freerange` frees every page, and there are enough for the first
  process, which `userinit` does not check (128 MB, memlayout.h).
- `SpaceAssumption`: a call writes fewer than `MAXOPBLOCKS` blocks, the log has more
  than that and mkfs gives it `LOGSIZE` blocks (param.h, mkfs.c). The largest call is a
  `filewrite`, whose chunks of three blocks (file.c) come to seven: data that is not
  aligned, the bitmap, the inode and the indirect block.

| Module | Theorem | States |
|---|---|---|
| CowProofs | `CowTypeOK`, `CowRefCount`, `CowFreePagesUnused`, `CowSingleOwner` | the invariants of run cow |
| | `CowNoPanic` | no assertion fails |
| | `CowFrozenWithoutOwner` | the action property of run cow |
| LogProofs | `LogTypeOK`, `LogNoPanic`, `LogAtomic` | types, assertions, Log implements Journal |
| BcacheProofs | `BcacheDescsOwned`, `BcacheBufferHeld`, `BcacheNoLostWakeup`, `BcacheRefsCounted` | the invariants of run disk |
| | `BcacheAssertionsHold` | bget fails only when all buffers are in use, and no other assertion does but that on the status of a transfer |
| | `BcacheRefinesStore` | Bcache implements Store |
| TrapProofs | `TrapNoPanic`, `TrapResumesRight`, `TrapMyprocRight`, `TrapInterruptsOff` | the invariants of run trap |
| ProcProofs | `ProcStackInUse`, `ProcParentAlive`, `ProcNoLostWakeup` | the invariants of run proc |
| FilesProofs | `FilesRefsCounted`, `FilesEndsOpen`, `FilesNoLostWakeup` | the invariants of run files |
| | `FilesRefinesFifo` | Files implements Fifo |
| ConsoleProofs | `ConsoleNoLostWakeup` | the invariant of run console |
| | `ConsoleRefinesTty` | Console implements Tty |

**Cow.** There are two inductive invariants. `CowInvariant` proves `IInv`, for the
counts. `RefCount` alone is not inductive: a `kfree` may panic, or a PTE be overwritten,
in states that never occur. `IInv` adds

- `FreeInv`: the free list has no duplicates and is apart from pages in `freeing`;
- `LocalsInv`: which locals hold a page at which label;
- `KaPrivate`: a page that was just allocated is referred to by its local only,
  which makes `SingleOwner` survive the step that maps it;
- `TablesInv`: which of the two tables a call works on, so that exec never touches
  the old image before it is complete;
- `ForkInv`: a slot under construction belongs to one parent that waits in fork,
  so that nobody else changes the page table that is copied.

`CowSpaces` proves `SpaceInv`, for the assertions. `mappages` panics at a mapped page and
`uvmunmap` at a missing one, so the invariant says of every page of every table whether
it is mapped: a table under construction up to the loop variable, one that is torn down
from there on, every other up to `p->sz` (`ShapeAt`). `BootAt` counts the pages that the
first process still needs, and `OwnAt` says that the copy that `cowalloc` has installed is
not copy-on-write while the old page is given back. Every step is one thread's, and
leaves the tables of the other slots alone (`Frame`, `Others`).

`CowFrozenWithoutOwner` goes over the steps that write a page: what `kalloc` and `kfree`
fill is uncounted and so unmapped before or after the step, what `cowalloc` copies to is
private, and a store or a copyout goes through a PTE without `PTE_C`.

The proof that `IInv` is kept has three parts, each action by action: types
(`TypeKept`), the invariants that follow the program counters (`ControlKept`), and the
counting argument, where an action adds or removes one reference and one count
(`PagesKept`). `SpaceKept` is the part for `SpaceInv`. A fact that only one part needs is
a step of its lemma.

**Log.** `LogInvariant` proves `LInv`: one process commits and only with no call in
progress (`ControlInv`), blocks of the transaction are pinned until installed
(`PinInv`), a cached block that is neither pinned nor locked equals the disk
(`CacheInv`), and how far a commit or recovery has come (`WorkInv`). `LogAtomic` shows
that every step of Log maps to a step of Journal or to a stutter, with `durable` the
contents that recovery would leave.

For `LogNoPanic` the reservations are counted: `Reserved` has an element for each block
that a call in progress may still log. `begin_op`'s test lets a call in only if the blocks
logged and `MAXOPBLOCKS` for every call fit, and `log_write` turns a reserved block into a
logged one, so that the sum never grows in between. log_write's own test wants a block
more, which is there because a call leaves one of its reservation.

**Bcache and Virtio.** `BcacheInvariant` proves `BInv`. Its part for the driver, `VInv`,
says that a waiting caller has a chain of three descriptors that are not free and no
other caller's (`DescInv`), and that the rings hold exactly the requests whose buffers
are busy (`RingInv`); Bcache's callers keep it because they hold the buffer's lock. The
cache adds what a caller has at each label (`CallInv`), one buffer per block and a valid
one for a pinned block (`BufInv`), and when a buffer agrees with the disk (`CleanInv`).
`RefsCounted` and `OneCopy` are not inductive without them: a recycled buffer must be one
that nobody holds and whose contents are on the disk.

The theorems hold for any number of buffers, since a panic stops the system.
`BcacheAssertionsHold` is a pigeonhole argument: when bget finds every count above zero,
every buffer has a caller or a pin by `RefsCounted`, and a caller has one buffer at most.
`BcacheRefinesStore` maps the value of a block to its valid buffer, or to the disk if
there is none, and its holder to the caller that has its lock and contents.

**Trap.** `TrapInvariant` proves `TInv`. None of the properties is inductive:
whether `pop_off` may turn interrupts on depends on how the thread came to be where it is.
`CpuInv` relates the registers of a CPU to the place of the thread it executes,
`ThreadInv` says what a thread has on its stack and in its trapframe, running or not, and
`LockInv` who holds `p->lock` across a switch. CPUs execute distinct threads and hold
one `p->lock` each. A step that stays in its thread is covered by `LocalStep`, one that
changes threads by `SwitchStep`. `SelfInv`, in the same theorem, says that `c->proc` is the
process that the CPU executes and that a thread in `myproc` is still on the CPU whose number
it has read; it needs `TInv`, since what keeps the thread there is that interrupts are off.

**Proc.** `ProcInvariant` proves `IInv`. `StackInUse` needs to know which states a
process on a CPU is in (`CpuInv`), and that the slot a fork has taken is nobody else's
(`ForkInv`). For `ParentAlive` the invariant follows `reparent` through the table
(`FamilyInv`: a process that exits has no child below its loop variable, and none
after the loop), and the holder of `wait_lock` keeps fork and the other exits out
(`HolderInv`). `NoLostWakeup` is the conjunction of what a search has seen so far
(`Searched`, `NoneFound`: a child that was passed by is no zombie, since it would need
`wait_lock` to become one) and of what a wakeup in progress still has before it
(`WillWake`, `TickComes`).

**Files.** `FilesInvariant` proves `IInv`. `RefsCounted` is a sum over descriptors and
calls in progress; it needs `CallInv`, which says what a process holds at each place,
and that the file of a read or write is one of its descriptors, so that it cannot be
closed meanwhile. `EndsOpen` needs `EndInv`: each end of a pipe has one holder, a file or a
process that is closing it with its copy `ff`. `NoLostWakeup` needs to know who holds
`pi->lock` between two steps (`LockInv`), and that the test that led to the sleep still
holds there (`SleepInv`). `FilesRefinesFifo` maps a pipe to the sequence of the
`nwrite - nread` bytes from `nread` on; `RingInv` bounds the difference through the wrap of
the counters. `PipeProofs` has `IInv`, the steps on a pipe, the refinement step by step and
the counting of references; `FilesProofs` has the steps of the file table and of the
descriptors, and the theorems.

**Finite sets.** In the proofs about Cow and Files the lemmas that count have `SetFacts` as a
hypothesis: which sets are finite, what an element more or less does to a cardinality, and
that a set of natural numbers has a least member. It says nothing about the models, and
`SetFactsHold` proves it from the library; no theorem of the table depends on it unproved.

**Console.** `ConsoleInvariant` proves `CInv`: going round from `r` one comes to `w` and then
to `e`, and not back to `r` (`RingInv`), and who holds `cons.lock` between two steps
(`LockInv`). `ConsoleRefinesTty` maps the ring to the lines that are complete and the one
that is edited. The loop of `^U` stops at `w` or at a newline, so it takes away an end of
the line that is edited and nothing of a line that may be read.

**Only model-checked.** Liveness under fairness (`WakesUp`, `OrphansReaped`, `OutputGoesOn`)
is out of the prover's reach. The invariants of Fs are not proved; the run checks them on
the instance above. Of the schedulers Pbs and Mlfq only the runs that contradict the code's
assertion and documentation are kept.

## Not modelled

- FCFS: its loop runs into the assertion of `release` the first time an older
  process turns up. LBS: the round robin's loop with a random slice on which nothing
  depends.
- The times of waitx, which `upd_time` counts: a few ticks, as TLC can afford, tell nothing
  about them.
- Alarms: the code that would deliver one is commented out. strace: output only.
- Boot, PLIC set-up, printf and string functions are sequential register or byte
  manipulation; ramdisk.c is not linked. User programs are clients of the calls; of
  init, Proc takes that it forks and waits.
- `NINODE`: Fs indexes the inode table by inode number, so a full table, at which
  `iget` panics (fs.c:267), does not occur.
- exec's reading of its file is a reader of Fs like any other, and is in neither
  Cow nor Fs.
- The weak memory order of RISC-V: locks are acquired and released with fences, the
  driver has them around the rings, and the unlocked accesses that matter
  (`aging_check`, wait's test of `killed`) are separate steps.
