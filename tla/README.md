# A TLA+ model of MOSnix

MOSnix is a small POSIX-like operating system for the 6502: a cooperative
kernel, a RAM filesystem onto which a FAT volume on an SD card can be mounted,
interrupt-driven serial input and a system tick, and a shell that is linked
into the kernel.  These modules model the parts of it that hold state.  TLC
checks them on small instances.  TLAPS proves the central invariants for every
size of the tables, queues and buffers.

Contents: [the system](#the-system), [the modules](#the-modules-and-the-code),
[the runs](#what-the-runs-check), [fairness](#fairness),
[the proofs](#what-is-proved),
[disagreements with the code](#findings), [what is left
out](#what-is-not-modelled), [the plan](#plan).

## The system

| Part | State | Operations | What is hard about it |
|---|---|---|---|
| Scheduler, processes (`os/sched.c`, `os/proc.c`) | process table, run queue, `current_proc` | create, launch, schedule | one link field serves two kinds of queue |
| Context switcher (`os/switcher.S`) | `in_kernel`, saved context | enter, leave, switch | three ways into the kernel, three out of it |
| Semaphores (`os/sem.c`) | value and waiters | wait, wait without blocking, signal, interrupt | a unit is handed to a waiter that has not run yet |
| Serial input (`target/eater/serial.S`) | ring of 256 bytes, two indices, flow control | interrupt handler, `__chrin`, `__chrin_no_wait` | interrupt between any two instructions of the reader |
| Console (`basictty.c`, `shell/main.c`) | line buffer, position | read a key, edit, execute | keys arrive while a command runs |
| Command line (`shell/command.c`) | the line, `argc`, `argv` | split in place, find builtin | output overwrites the input |
| Open files (`os/file.c`) | `global_fd`, a descriptor table per process | open, close, dup, dup2, fcntl, read, write | tables run out half-way through an open |
| Inodes, RAM filesystem, mounts (`os/inode.c`, `os/dir.c`, `os/mount.c`, `os/fs/ram/`) | inodes and entries in a fixed buffer cache | lookup, create, open, read a directory, mount | reference counts along many early returns |
| Paths (`os/inode.c`, `os/dir.c`, `shell/cd.c`) | working and previous directory | resolve, chdir, `cd`, `cd -` | fixed buffers, every path starts from the result of an earlier one |
| User memory (`os/kmalloc.c`) | free list in user space | allocate, free, copy arguments | pointer and unsigned arithmetic |
| FAT directories (`os/fs/fat/`) | cursors with bit fields | read entries, look up a name | limits of the bit fields, a card that stops to answer |
| SD card (`os/drivers/sdcard/`) | geometry, one cached block | detect, read | cards are exchanged between calls |
| Shell start-up, `ls`, `uname`, `mount` (`shell/`), `getopt()` | mount table, statics of `getopt()`, an open directory | boot, parse options, list, return | runs out of buffers while it boots, the card goes while it lists, statics outlive a command |
| Time (`systick.S`, `os/time.c`, `libc-mosnix/time.c`) | five-byte counter, offset of real time | tick, read, set, time limit | bytes are loaded one by one, a 16-bit clock wraps around |

The kernel never preempts a process: it runs until it blocks in `sem_wait()`.
So a system call that does not block is one step, and real concurrency exists
in four places only: processes that meet at semaphores, interrupt handlers
against the program (serial input and tick), the user against the shell, and
whoever exchanges the SD card against the driver.

Parts meet as follows.  The shell reads lines through the console, which gets
its bytes from the serial ring (`Console` uses `Fifo`, which `Serial`
implements).  A line is split and its first word is looked up among the
builtins (`CmdLine` extends `Builtins`).  Builtins call the filesystem through
descriptors (`Vfs` extends `Files`).  A critical section is a client of the
scheduler's semaphores (`SemMutex` extends `Sched`).  The shell as it boots,
mounts the card and runs commands on it is a composition of its own: `Shell`
extends `SdCard`, `FatCursor` and `Getopt`, and its steps are steps of the
driver or leave it alone, which `ShellProofs` proves.

## The modules and the code

`PROJECT.json` maps every definition to the lines it stands for.  A definition
whose comment starts with "Slip" is not part of a model.  It is the definition
that follows it, written with a plausible mistake, and shows that a property
can fail: put in the place of the right one it makes TLC report a violation.

**Sched** has one action per function of `sem.c`, `proc_create()`, the entry
into and the return from the kernel, and the resumption of a process that
blocked (`SwapInReturn`).  `schedule` and `proc_switch_to` are operators that
the blocking calls use, so the action of `sem_wait` includes the switch to
another process.  Registers and stacks are modelled as whose values they hold.
A semaphore value is kept modulo `SEM_MOD`, since `sem_value_t` is a byte.
Blocks of user space have names, and `proc_create()` allocates and frees them
one by one as the code does; their places and sizes are in UserAlloc.
**SemMutex** adds clients that use one semaphore as `sem.h` describes it, and
do anything else with the others, inside and outside of the section.

**Serial** has one step for the interrupt handler and one step for every
instruction of the reader that touches shared memory.  The remote end may send
up to `Slack` bytes after it was told to stop.  **Fifo** is what callers may
expect: bytes once, in order, and "no character" only if there is none.
Serial implements it with the ring between the indices as the queue.

**Console** models `/dev/tty` in the way the shell uses it, `get_line()` by
key, and the loop of the shell's `main()`.  The reference `Edited` says what a user
expects of the keys typed so far.

**CmdLine** models `cmd_exec()` with one step per character, on the one buffer
that holds both input and output.  Its reference is a recursive parser with an
output of its own.  **Builtins** is the binary search, one step per comparison.
Of a name only its place in the order of the table matters.

**Files** models the two tables of descriptors.  An opened file is one that
the filesystem or device below has open.  **Vfs** adds the heap of buffers in
which inodes, entries and FAT information blocks live, and refines opening,
closing and transfers to what they do to that heap.  An operator that changes
the heap takes it as an argument, which keeps the order of allocation, failure
and release as it is in the code.  What the SD card contains is external.
**Tree** is what the calls promise of the names: a tree that grows by one name
at a time, at the end of a directory, and in which directories become mount
points.  Vfs implements it; the mapping takes the inodes of the RAM filesystem
and drops counts, buffers and permissions.

**Path** models `inode_resolve_relative()` by character with the positions it
writes, and `cd` on top of it.  The reference treats a path as operations on a
stack of names.

**UserAlloc** models blocks, headers and sizes in bytes, with the unsigned
arithmetic and the pointer arithmetic of the source.

**Volume** has the arithmetic of block numbers: what `sd_detect()` computes from
a boot block, `sd_cluster_to_block()`, the block of a FAT entry, and byte
addresses, all modulo `WORD`.  **FatCursor** has the cursors of open files and
directories, whose two bit fields are kept at their width.  **FatDir** models
both users of them, one step per entry.  The directory is the root of a card, so
a lookup detects the card first, and says `ENOENT` for every name if there is
none (`fatfs.c:283-287`).  **FatName** models the conversion of
8.3 names in both directions.

**SdCard** models every exit of `sd_detect()` and the block cache.  The buffer
is modelled as what it holds: a block of a card, card-specific data or noise.
Whose geometry is kept is modelled as that card; `Volume` has its numbers.

**Getopt** models `getopt()` on the memory of the line, with its four static
variables.  `nextchar` is an address in that memory, so it means something
else, or nothing, once another line is there.  `Letters`, `Operands` and
`OptionsRefused` are the reference.

**Shell** models `init()` (root filesystem node by node, then the mount), the
table of mounts, the dispatch of a line, the option loops of `ls` and `uname`,
and `list()` with one step per entry.  System calls are seen through what they
return and the buffers they take.  Cards are exchanged between any two steps.
Opening the directory of the card can fail in a way that takes the kernel with
it (see `Files!OperationsAlwaysSet` below), which is the state `"crashed"`.

**Clock** models the counter by byte, its handler, and the routines that load
it byte by byte.  Real time and the wait for a card are built on that.

## What the runs check

Bounds are named in the modules (`MAX_...`) and set in the `.cfg` files.

| Run | What it shows | Bounds, and why they are enough |
|---|---|---|
| `sched` | Every process is in exactly the queue its state says. Nobody waits for a semaphore that is free. `in_kernel` stays balanced. The blocks in use are those of the processes and their arguments, wherever creations failed. The unit of a mutex is neither lost nor doubled, so it excludes. Whoever is runnable runs, and whoever waits for the mutex gets it. | 3 processes, so that two wait while one holds; 2 semaphores; values modulo 3, so that they wrap; 7 blocks, so that a copy of the arguments is made when all slots are taken. |
| `serial` | The ring never overruns, is a FIFO, and a stopped sender is released. | Ring of 6, marks 4 and 2, one late byte, bursts of 2. The reader goes round the ring while the marks are crossed in both directions. |
| `vfs` | Counts of files and inodes are exact. Files are closed with their last descriptor. No buffer leaks or has two owners. The names are a tree that only grows (`ImplementsTree`). An open directory is read without gaps while it grows. | 6 buffers, 2 files, 3 descriptors: each of the three runs out first in some behaviour. One process, because no handler blocks. |
| `path` | Resolution agrees with the stack of names and stays in its buffers. The working directory stays in normal form. | Buffers of 6 characters and inputs of up to 4: two components fit, a third does not. |
| `fatdir` | Entries are listed in order, once, and without gaps. A lookup denies no name that is there on a card it has detected. Every call returns. | 2 blocks of 4 entries in 1 cluster, 2 names, the second block empty. More would add nothing: the code refuses the last entry of a block, and the offset has no bit for the size of a block, so a cursor never leaves the first block (see `EveryEntryIsRead` below). For the same reason the limit of a lookup, 65535 entries, is not reached. |
| `shell` | A detected card is used with its own geometry, and the cache holds nothing of another card. A listing shows one card, and all of its directory unless an error is shown. Every command gets the options of its own line. Nothing stays open, whatever failed. The table of mounts lists no mount that is not there wherever memory ran out, and all of them if the root filesystem could be made. The prompt comes back. | 3 cards (partitioned, unpartitioned, unsupported) exchanged at any time, 3 blocks; 20, 38, 39 and 40 buffers: the root filesystem is cut short, or is complete and there is no memory for the mount, none for a directory, or enough; lines with joined, repeated, unknown and ended options; a directory with an end mark, one without, hidden and deleted entries. |
| `clock` | Readings are not torn. Real time runs on from where it was set. The wait for a card ends, and in time. | 4 bytes of radix 2, of which the short clock has 2; 9 ticks, more than twice around the short clock. |
| `console` | Lines are executed once, in order, and as they were edited. | Line buffer of 3 (2 characters and the end), input of 3, 4 keys: a full line, a full queue, erasing. |
| `cmdline` | Splitting in place yields what a parser with its own output yields. It never overwrites what is still to be read. The search finds every builtin with its own handler, takes no other name for one of the table, and ends; for a name behind the table it may return what lies there (see below). | Lines of 6 characters of every class, 2 arguments, a table of 30, so that the search takes up to 5 comparisons. |
| `vfs_open`, `useralloc_space`, `fatname_ext` | See [Findings](#findings). | |

`console` and `cmdline` do not check for deadlock: there the user stops typing,
or the command has been executed.

`vfs`, `cmdline` and `shell` use a `VIEW`.  In `vfs` and `shell` it leaves out
what the last call reported, which no later call reads; in `cmdline` it leaves out the line
once the search has begun, which does not look at it.

No symmetry is declared.  The runs are small enough without it, and most of
them check liveness, where it would not be sound.

## Fairness

* `Serial`: weak fairness of the reader's instructions.  The processor executes
  them, and the shell reads the console again and again.  Nothing is assumed of
  the remote end, so `SenderReleased` cannot rely on it.
* `Clock`: the timer expires, the program is executed, and the handler runs
  after infinitely many chances.  The last one is strong, because a program
  that reads the clock masks interrupts again and again.
* `FatDir`, `Console`, `CmdLine`, `Builtins`: weak fairness of the code that
  runs.  No fairness of the card or of the typist.
* `Shell`: weak fairness of `Step`, the code of the shell between two prompts.
  It is the only process.  Nothing is assumed of whoever types or exchanges
  cards, nor of the commands `OtherCommand` stands for.
* `Sched`: none.  A cooperative kernel guarantees nothing as long as a process
  does not block.  `RunnableEventuallyRuns` and `WaiterGetsMutex` state this as
  their premise: the processor changes hands infinitely often and, for the
  second, whoever is inside the section leaves it.

## What is proved

The theorems hold for every value of the constants that satisfies the named
assumptions (`SchedAssumption`, `SerialAssumption`, ...).  Each module of
proofs has an inductive invariant, a lemma for the initial states, one for each
action or group of actions, and theorems that combine them.

* **SchedProofs** (`SchedTypes`, `QueuesConsistent`, `NoLostWakeup`,
  `CurrentHeadsQueue`, `KernelBalanced`, `OnlyCurrentRuns`, `ProcessMemory`): any
  number of processes, semaphores and blocks.  `IInv` joins all seven with
  `StartHasProcess`.  Few of them are inductive alone: that the head of the run queue is the running
  process needs the queues to be consistent; that blocking takes the right
  process off the queue needs it to be the head; and `in_kernel` is balanced
  only because everybody else is swapped out or not launched.  A new process gets
  a slot of the table, and that this slot is on no queue needs `ProcessMemory`.
  `CreateResult` says that `proc_create()` leaves two new blocks or none.  Lemmas on
  sequences without duplicates say what adding and removing an element does
  to them.
* **SerialProofs** (`SerialTypes`, `RingNeverOverruns`, `SenderReleasable`,
  `RingImplementsFifo`): any size of ring and any marks with
  `RX_LOW + Burst <= RX_HIGH` and `RX_HIGH + Slack < N`.  The strengthening
  `ReaderInv` says what the reader's register stands for at each instruction:
  before the increment it equals the output index of a ring that is not empty;
  after it, it is one behind; and before the command is stored the level is
  below the low mark plus what came in since.  `IndexArithmetic` holds the
  facts on indices modulo `N`.  The last theorem is the refinement: initial
  states map to initial states and each step to a step of `Fifo` or a stutter.
* **FilesProofs** (`FilesTypes`, `CountsAreExact`, `ClosedExactlyOnce`): any
  number of processes, files and descriptors.  The count of a file is the
  cardinality of the set of slots that name it.  Lemmas say how one slot more
  or less changes this cardinality.  `OpenIffCounted` is the strengthening.
* **SdCardProofs** (`SdTypes`, `GeometryIsRight`, `CacheIsRight`): any cards
  and blocks.  The strengthening is that only a card in the slot can be ready.
* **VolumeProofs** (`ClustersInPlace`, `ClustersApart`, `EntriesInFat`,
  `BlocksAddressed`, `OnlyFirstBlock`): any width of words, and any volume that
  is `Formatted`, which says that the FATs and the data fit into the partition
  and the FAT has an entry for every cluster.  The argument is that none of the
  sums, differences and shifts wraps on such a volume (`WrapIsIdentity`,
  `ClusterFits`), so that clusters lie in a row behind the FATs.  The last
  theorem needs no volume: the offset of a cursor cannot hold the value at which
  it would move on, so a directory is read in its first block only.
* **ShellProofs** (`ShellUsesDriver`, `GeometryUnderShell`, `CacheUnderShell`,
  `NothingIsLeftOpen`): any cards, lines and number of buffers.  `ShInv` joins
  the invariant of the driver with two of the shell.  `BufferInv` says that
  buffers in use and free ones add up, and `CursorInv` that a directory is open
  only while it is listed and that its cursor is at a block the card has.  The
  latter needs `OnlyFirstBlock`, and with it every step of the shell is a step
  of `SdCard` or leaves the driver alone.  `RootAssumption` says that the
  root directories of supported cards are among the blocks considered.
* **BuiltinsProofs** (`SearchStaysInRange`, `EveryBuiltinIsFound`): any size of
  table.  `Between` says that a builtin not found yet is between the bounds.
  This shows that the right bound, which is one too large at the start
  (`command.c:34`), does no harm to names of the table.

Only model-checked: all liveness properties (they need fairness, which is out
of reach of the prover); `CmdLine`, `Path`, `FatName` and
`Vfs`, which use recursive operators, since what these compute for every input
needs induction over data, and with `Vfs` that it implements `Tree`; `Console`,
`Clock`, `SemMutex`, `FatDir` and `Getopt`.

## Findings

Three runs expect a violation.  Each checks one statement of a comment in the
source and shows a behaviour of the code that contradicts it.

* `vfs_open`: `open()` finds no existing device (`os/file.c:115` with
  `os/inode.c:334`).  `sys_open()` masks the mode with 0777, and the type of
  the node is then compared with none.  `file.h:196-197` says that the mode
  includes the type.
* `useralloc_space`: the second part of a split block is placed `size` headers
  instead of `size` bytes behind the first (`os/kmalloc.c:133`), which soon lies
  outside of user space.  `kmalloc.h:65` promises a pointer into user space.
* `fatname_ext`: the dot of a name takes the first place of its extension
  (`os/fs/fat/fatutils.c:56`), so that no file with an extension can be opened
  by the name `readdir()` shows.

### Other disagreements

These are stated as definitions in the modules, in a section of their own at
the end or next to the property they belong to.  TLC refutes each of them with
the component's configuration.  They are in no run.

| Definition | Code | What it contradicts |
|---|---|---|
| `Sched!RunQueueExcludesCurrent` | `sched.c:59` leaves the running process on the queue | `sched.c:16-20`: all runnable processes "except for the one that is currently running" |
| `Sched!RegistersSurviveSwitch` | `switcher.S:173`: the loop "Save RC20 to RC31" loads instead of storing | `proc.h:78-87` |
| `Sched!KernelStackPerProcess` | `switcher.S:250`: every process takes over the boot stack | `proc.h:107`: the kernel stack is "per-process" |
| `Sched!SignalNeverLosesUnits` | `sem.c:47`: the increment wraps at 8 bits | `sem.h:48` |
| `Files!OperationsAlwaysSet` | `file.c:33`, `66`, `99`: a file whose open failed is closed through operations that were not set | `file.h:186-187` |
| `Vfs!NothingCreatedUnderMount` | `inode.c:239`: `mknod` below a mount point creates an entry that the mount hides | `ramfs.c:86-87` |
| `Path!UpFromEverywhere` | `inode.c:143`: from a working directory of the greatest length no relative path can be resolved, not even `..` | `inode.h:218-219` |
| `Path!BackToPrevious` | `cd.c:27` with `inode.c:131`: `cd -` fails for a directory of the greatest length | `doc/shell.md:21` |
| `FatDir!EveryEntryIsRead` | `fatfs.c:127`: the last entry of a block is refused with `EINVAL` | `fatfs.c:118` |
| `VolumeProofs!OnlyFirstBlock` (proved) | `fatfs.h:37`, `fatfs.c:73`: the offset is compared with a value it cannot hold, so a directory is never read behind its first block | `fatfs.c:51-59` |
| `FatDir!NothingBehindTheEnd` | `fatfs.c:150`: reading goes on behind the end mark | `fatdefs.h:18`, `fatfs.c:307` |
| `Shell!AllMountsListed` | `main.c:60-63`: when the root filesystem could not be completed, `/` is mounted but not listed | `doc/shell.md:49` |
| `SdCard!CacheHoldsItsBlock` | `sdcard.c:338`, `471-474`: a failed detection leaves the cache marked as valid | `sdcard.h:92` |
| `SdCard!ReadyMeansRead` | `sdcard.c:566`: a transfer that never starts is taken for success | `sdcard.c:192`, `sdcard.h:159-160` |
| `UserAlloc!NoSmallRests` | `kmalloc.c:132`: the difference is unsigned and the wrong way round, so blocks are always split | `kmalloc.c:56` |
| `UserAlloc!ArgvPointsToCopies` | `kmalloc.c:230`: the pointers of the copied arguments are never stored | `kmalloc.h:78` |

`sem_wait()` returns 0 to a waiter that was interrupted (`sched.c:69`, while
`sem.h:90-91` says `-EINTR`).  The model follows the code, so `SemMutex` is
restricted to clients that do not interrupt the mutex.

The right bound of the search for builtins is one too large (`command.c:34`).
A name that is greater than all of the table is compared with what lies behind
it.  The model takes any outcome for that comparison and `Garbage` for the
handler, so `NULL if not builtin` (`command.h:56`) is not among the properties.
`cmd_exec()` then jumps to what it got (`command.c:123`), which is the outcome
`lost` of `CmdLine`; `LineIsDone` says that parsing and search come to their end,
and nothing about what is called then.

Smaller ones, not modelled: `inode_lookup_path()` returns 0 where
`inode.h:281-282` says 1; `F_SETFD` and `F_SETFL` of
`fcntl()` take effect and then return `EINVAL` (`file.c:325`); an option with
its argument in the next word leaves `getopt()` at the end of the word before
(`getopt.c:94-96`; no command has such options); the start-up code
of the tick clears six bytes of a five-byte variable.

## What is not modelled

* `proc_free()`: nothing calls it.  `sys_exit()` stops the machine.
* What the ACIA loses in its own register when interrupts are masked too long.
* The order of the free list of buffers.  The model takes the lowest
  free one; no property depends on which it is.
* Contents of files: the RAM filesystem has no operations for regular files,
  and FAT files are opened with size 0, so nothing is ever read.
* Symbolic links, `lseek()`, access by user id: compiled out or stubs.
* The flag for closing on exec, which nothing reads but `fcntl()`, and
  `O_NONBLOCK`, which only the raw console looks at and nothing opens that.
* `opendir()`, `readdir()` and `closedir()` of the C library: `ls` uses the
  system calls, and no other program lists directories.
* Identity calls (`os/ident.c`): constants and stubs.
* Bits on the SPI bus, the size in the card-specific data, dates, seconds and
  nanoseconds, formatting of output, system call dispatch (a constant table),
  `/dev/null` and its relatives (no state).
* Ticks in the middle of anything but the clock's own routines: no other code
  reads the counter.
* "Too many arguments" of the shell cannot happen at its real sizes (127
  characters, 64 arguments).  It does at the sizes of the run.

## Plan

Done: the modules above, nine passing runs, and the proofs of `Sched`,
`Serial`, `Files`, `SdCard`, `Builtins`, `Volume` and `Shell`.  What is left of
the source is output, tables, wrappers and stubs.  A model could still grow by
an abstract line editor that `Console` implements, composed with `Serial`
itself instead of `Fifo`.

Prove, in this order:

1. `SemMutex`: `UnitConserved`, from the invariant of `SchedProofs`.
2. `Clock`: `ReadsAreWhole`, from what the loaded bytes say of the counter.
3. `Console`: bounds of the line buffer, for any size.
4. `Path`: `NoOverrun`, with resolution written as a state machine.
