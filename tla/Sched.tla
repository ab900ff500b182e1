------------------------------- MODULE Sched -------------------------------
(***************************************************************************)
(* Processes, the run queue, the context switcher and semaphores of the    *)
(* kernel: os/sched.c, os/sem.c, os/proc.c and os/switcher.S.              *)
(*                                                                         *)
(* The kernel is cooperative: one process runs until it blocks in          *)
(* sem_wait().  A process is named by its slot in process_table, so pids   *)
(* are 1..PROC_MAX.  A system call is three steps (enter, handler, leave)  *)
(* so that the in_kernel count is visible between them; a handler that     *)
(* blocks is resumed at .Lswap_in_return in a later step.                  *)
(*                                                                         *)
(* A definition commented as a slip is not part of the model: it is how a  *)
(* plausible mistake would have written the definition that follows it,    *)
(* and shows that a property can fail.                                     *)
(***************************************************************************)
EXTENDS Integers, Sequences, FiniteSets, Functions

CONSTANTS
  PROC_MAX,   \* CONFIG_PROC_MAX, the slots of process_table
  Sems,       \* the semaphores of the kernel
  SEM_MOD,    \* number of values of sem_value_t (256 for u_char)
  Blocks,     \* bound: names for blocks of user space
  NULL        \* the null pointer

Procs == 1..PROC_MAX

ASSUME SchedAssumption ==
  /\ PROC_MAX \in Nat \ {0}
  /\ SEM_MOD \in Nat /\ SEM_MOD > 1
  /\ {1, 2} \subseteq Blocks /\ Blocks \subseteq Nat
  /\ NULL \notin Procs \cup Sems \cup Blocks

VARIABLES
  state,         \* proc.state of every slot
  runnable,      \* the run queue of sched.c
  value,         \* sem.value
  waiters,       \* sem.waiters
  wait_sem,      \* proc.wait_sem
  AX,            \* proc.context.AX, handed over by the switcher
  kstack,        \* proc.context.kstack: unset, or in the boot stack
  regs,          \* whose values the callee-saved RC20..RC31 hold
  current_proc,
  in_kernel,
  pc,            \* where each process is
  ret,           \* the value the handler returns to its caller
  blocks,        \* the blocks of user space that are allocated
  process_table, \* the block of the process in every slot, or NULL
  argv,          \* proc.argv, the block of its arguments
  halted         \* the machine has stopped in _exit()

vars == <<state, runnable, value, waiters, wait_sem, AX, kstack, regs,
          current_proc, in_kernel, pc, ret, blocks, process_table, argv, halted>>

semVars  == <<value, waiters, wait_sem>>
procVars == <<state, runnable, AX>>
cpuVars  == <<kstack, regs, current_proc>>
memVars  == <<blocks, process_table, argv>>

(***************************************************************************)
(* proc_state, as far as the code ever sets it, and the places a process   *)
(* can be at: not launched yet, in its own code, in a handler, about to    *)
(* return from brk_syscall, swapped out inside proc_switch_to, or swapped  *)
(* in and about to execute .Lswap_in_return.                               *)
(***************************************************************************)
ProcState == {"UNUSED", "RUNNING", "NOT_RUNNING", "SLEEP"}
Place == {"none", "new", "user", "handler", "leave", "out", "back"}
Status == {"none", "ok", "pid", "argc", "EINTR", "EINVAL", "ENOMEM"}

(***************************************************************************)
(* <sys/queue.h>: TAILQ_INSERT_TAIL and TAILQ_REMOVE of a linked element.  *)
(***************************************************************************)

\* Slip: TAILQ_INSERT_HEAD.
TailqInsertHead(q, p) == <<p>> \o q

TailqInsertTail(q, p) == Append(q, p)

TailqRemove(q, p) ==
  LET i == CHOOSE j \in DOMAIN q : q[j] = p
  IN  SubSeq(q, 1, i - 1) \o SubSeq(q, i + 1, Len(q))

(***************************************************************************)
(* sched_set_runnable(): the run queue and the states after process p has  *)
(* been made runnable.  Nothing happens to one that already is.            *)
(***************************************************************************)
SetRunnableQueue(p) ==
  IF state[p] # "RUNNING" THEN TailqInsertTail(runnable, p) ELSE runnable

sched_set_runnable(p) ==
  /\ runnable' = SetRunnableQueue(p)
  /\ state' = [state EXCEPT ![p] = "RUNNING"]

(***************************************************************************)
(* sched_remove_runnable(): the run queue without process p.               *)
(***************************************************************************)

\* Slip: the state is set to PROC_SLEEP before the call, which then sees a
\* process that is not running.
RemoveAfterSleep(p) == runnable

RemoveRunnableQueue(p) ==
  IF state[p] = "RUNNING" THEN TailqRemove(runnable, p) ELSE runnable

(***************************************************************************)
(* proc_switch_to(n), called by p (NULL when called from sched_start) with *)
(* in_kernel at k.                                                         *)
(* The caller is off the run queue, so n is another process and the        *)
(* "same process" exit of the switcher is not taken.                       *)
(*                                                                         *)
(* Swapping p out points its kstack at the current data stack.  The loop   *)
(* that should save RC20..RC31 loads them from kzp instead, which nothing  *)
(* ever writes after the memset of proc_create().  Swapping n in takes     *)
(* over the current data stack if n has none, and otherwise loads kstack   *)
(* and the registers.  No stack but the boot stack is ever allocated.      *)
(***************************************************************************)
kzp == 0

SwappedIn(n) == IF pc[n] = "new" THEN "user" ELSE "back"

proc_switch_to(p, n, k) ==
  /\ pc' = [q \in Procs |->
              IF q = n THEN SwappedIn(n) ELSE IF q = p THEN "out" ELSE pc[q]]
  /\ kstack' = [q \in Procs |-> IF q \in {p, n} THEN "boot" ELSE kstack[q]]
  /\ regs' = IF p = NULL /\ kstack[n] = NULL THEN regs ELSE kzp
  /\ current_proc' = n
  /\ in_kernel' = (k - 1) % 256
  /\ UNCHANGED halted

(***************************************************************************)
(* schedule(), called by p with run queue q and in_kernel at k: switch to  *)
(* the first process, which stays on the queue, or stop the machine.       *)
(***************************************************************************)
schedule(p, q, k) ==
  IF q = <<>>
    THEN halted' = TRUE /\ in_kernel' = k /\ UNCHANGED <<pc, cpuVars>>
    ELSE proc_switch_to(p, Head(q), k)

-----------------------------------------------------------------------------
(***************************************************************************)
(* The state main() leaves for sched_start(): every subsystem initialised  *)
(* and the shell created as pid 1 by proc_start_shell().  A semaphore      *)
(* starts with any value sem_init() was given.                             *)
(***************************************************************************)
Init ==
  /\ state = [p \in Procs |-> IF p = 1 THEN "RUNNING" ELSE "UNUSED"]
  /\ runnable = <<1>>
  /\ value \in [Sems -> 0..(SEM_MOD - 1)]
  /\ waiters = [s \in Sems |-> <<>>]
  /\ wait_sem = [p \in Procs |-> NULL]
  /\ AX = [p \in Procs |-> IF p = 1 THEN "argc" ELSE "none"]
  /\ kstack = [p \in Procs |-> NULL]
  /\ regs = kzp
  /\ current_proc = NULL
  /\ in_kernel = 0
  /\ pc = [p \in Procs |-> IF p = 1 THEN "new" ELSE "none"]
  /\ ret = "none"
  /\ blocks = {1, 2}
  /\ process_table = [p \in Procs |-> IF p = 1 THEN 2 ELSE NULL]
  /\ argv = [p \in Procs |-> IF p = 1 THEN 1 ELSE NULL]
  /\ halted = FALSE

(***************************************************************************)
(* sched_start(): enter the kernel and schedule the first process.         *)
(***************************************************************************)
sched_start ==
  /\ current_proc = NULL
  /\ schedule(NULL, runnable, in_kernel + 1)
  /\ UNCHANGED <<procVars, semVars, ret, memVars>>

(***************************************************************************)
(* brk_syscall: entry, with the handler's C code free to use the           *)
(* callee-saved registers, and exit.                                       *)
(***************************************************************************)
SyscallEnter(p) ==
  /\ current_proc = p /\ pc[p] = "user" /\ ~halted
  /\ in_kernel' = (in_kernel + 1) % 256
  /\ pc' = [pc EXCEPT ![p] = "handler"]
  /\ regs' = p
  /\ UNCHANGED <<procVars, semVars, kstack, current_proc, ret, memVars, halted>>

SyscallLeave(p) ==
  /\ current_proc = p /\ pc[p] = "leave"
  /\ in_kernel' = (in_kernel - 1) % 256
  /\ pc' = [pc EXCEPT ![p] = "user"]
  /\ ret' = "none"
  /\ UNCHANGED <<procVars, semVars, cpuVars, memVars, halted>>

\* Control is in the handler of a system call of p.
InHandler(p) == current_proc = p /\ pc[p] = "handler" /\ ~halted

\* The handler of p returns r to brk_syscall.
Return(p, r) ==
  /\ pc' = [pc EXCEPT ![p] = "leave"]
  /\ ret' = r
  /\ UNCHANGED <<cpuVars, in_kernel, halted>>

-----------------------------------------------------------------------------
(***************************************************************************)
(* sem_wakeup(): hand the semaphore to the first waiter, or keep it.       *)
(***************************************************************************)

sem_wakeup(s) ==
  IF waiters[s] # <<>>
    THEN LET p == Head(waiters[s]) IN
         /\ waiters' = [waiters EXCEPT ![s] = Tail(@)]
         /\ AX' = [AX EXCEPT ![p] = "ok"]
         /\ wait_sem' = [wait_sem EXCEPT ![p] = NULL]
         /\ sched_set_runnable(p)
         /\ UNCHANGED value
    ELSE /\ value' = [value EXCEPT ![s] = 1]
         /\ UNCHANGED <<waiters, wait_sem, procVars>>

(***************************************************************************)
(* sem_signal(): the addition is done in sem_value_t and wraps.            *)
(***************************************************************************)

\* Slip: the value is counted up even if somebody waits.
SignalCountsOnly(p, s) ==
  /\ InHandler(p)
  /\ value' = [value EXCEPT ![s] = (@ + 1) % SEM_MOD]
  /\ Return(p, "ok")
  /\ UNCHANGED <<waiters, wait_sem, procVars, memVars>>

sem_signal(p, s) ==
  /\ InHandler(p)
  /\ IF value[s] = 0
       THEN sem_wakeup(s)
       ELSE /\ value' = [value EXCEPT ![s] = (@ + 1) % SEM_MOD]
            /\ UNCHANGED <<waiters, wait_sem, procVars>>
  /\ Return(p, "ok")
  /\ UNCHANGED memVars

(***************************************************************************)
(* sem_signal_monitor(): wakes a waiter or sets the value from 0 to 1.     *)
(***************************************************************************)
sem_signal_monitor(p, s) ==
  /\ InHandler(p)
  /\ IF value[s] = 0
       THEN sem_wakeup(s)
       ELSE UNCHANGED <<semVars, procVars>>
  /\ Return(p, "ok")
  /\ UNCHANGED memVars

(***************************************************************************)
(* sem_wait(), which sem_wait_timed() calls whatever its timeout: take the *)
(* semaphore, or move the caller from the run queue to the waiters and     *)
(* schedule another process.                                               *)
(***************************************************************************)

\* Slip: the decrement is forgotten.
SemWaitTakesNothing(p, s) ==
  /\ value[s] > 0
  /\ Return(p, "ok")
  /\ UNCHANGED <<semVars, procVars>>

SemWaitTakes(p, s) ==
  /\ value[s] > 0
  /\ value' = [value EXCEPT ![s] = @ - 1]
  /\ Return(p, "ok")
  /\ UNCHANGED <<waiters, wait_sem, procVars>>

SemWaitBlocks(p, s) ==
  /\ value[s] = 0
  /\ runnable' = RemoveRunnableQueue(p)
  /\ waiters' = [waiters EXCEPT ![s] = TailqInsertTail(@, p)]
  /\ wait_sem' = [wait_sem EXCEPT ![p] = s]
  /\ state' = [state EXCEPT ![p] = "SLEEP"]
  /\ schedule(p, runnable', in_kernel)
  /\ UNCHANGED <<value, AX, ret>>

sem_wait(p, s) ==
  /\ InHandler(p)
  /\ SemWaitTakes(p, s) \/ SemWaitBlocks(p, s)
  /\ UNCHANGED memVars

(***************************************************************************)
(* The rest of a sem_wait() that blocked, once p is swapped in again:      *)
(* .Lswap_in_return, and schedule() returning 0 whatever A:X holds.        *)
(***************************************************************************)
ScheduleResult(p) == "ok"

\* Slip: in_kernel is not counted up again on the way back.
SwapInReturnUncounted(p) ==
  /\ current_proc = p /\ pc[p] = "back"
  /\ pc' = [pc EXCEPT ![p] = "leave"]
  /\ ret' = ScheduleResult(p)
  /\ UNCHANGED <<procVars, semVars, cpuVars, in_kernel, memVars, halted>>

SwapInReturn(p) ==
  /\ current_proc = p /\ pc[p] = "back"
  /\ in_kernel' = (in_kernel + 1) % 256
  /\ pc' = [pc EXCEPT ![p] = "leave"]
  /\ ret' = ScheduleResult(p)
  /\ UNCHANGED <<procVars, semVars, cpuVars, memVars, halted>>

(***************************************************************************)
(* sem_interrupt(): wake every waiter, first to last, with -EINTR.  Every  *)
(* waiter sleeps, so sched_set_runnable() appends each of them.            *)
(***************************************************************************)
sem_interrupt(p, s) ==
  LET woken == Range(waiters[s]) IN
  /\ InHandler(p)
  /\ waiters' = [waiters EXCEPT ![s] = <<>>]
  /\ runnable' = runnable \o waiters[s]
  /\ AX' = [q \in Procs |-> IF q \in woken THEN "EINTR" ELSE AX[q]]
  /\ wait_sem' = [q \in Procs |-> IF q \in woken THEN NULL ELSE wait_sem[q]]
  /\ state' = [q \in Procs |-> IF q \in woken THEN "RUNNING" ELSE state[q]]
  /\ Return(p, "ok")
  /\ UNCHANGED <<value, memVars>>

-----------------------------------------------------------------------------
(***************************************************************************)
(* kmalloc_user_alloc() and kmalloc_user_free(), on the blocks in use.     *)
(* The allocation may fail at any time.  Blocks have names: a new one gets *)
(* the least that no other has.  Module UserAlloc has their places.        *)
(***************************************************************************)
kmalloc_user_alloc(used) ==
  {NULL} \cup {b \in Blocks \ used : \A c \in Blocks \ used : b <= c}

kmalloc_user_free(used, b) == used \ {b}

(***************************************************************************)
(* proc_create(): what it returns and leaves allocated.  The arguments are *)
(* copied to a block before a slot is looked for and before there is one   *)
(* for the process, and are given back if either is not to be had.         *)
(***************************************************************************)
Unused == {q \in Procs : process_table[q] = NULL}

FirstUnused == CHOOSE q \in Unused : \A r \in Unused : q <= r

CreateFails(error, used) == [status |-> error, used |-> used, argv |-> NULL, p |-> NULL]

\* Slip: the arguments are not given back when there is no block for the
\* process.
CreateLeaksArgs(argv_copy, used) ==
  IF Unused = {} THEN {CreateFails("ENOMEM", kmalloc_user_free(used, argv_copy))}
  ELSE {IF p = NULL THEN CreateFails("ENOMEM", used)
        ELSE [status |-> "ok", used |-> used \cup {p}, argv |-> argv_copy, p |-> p] :
          p \in kmalloc_user_alloc(used)}

\* With the arguments copied.
CreateProcess(argv_copy, used) ==
  IF Unused = {} THEN {CreateFails("ENOMEM", kmalloc_user_free(used, argv_copy))}
  ELSE {IF p = NULL THEN CreateFails("ENOMEM", kmalloc_user_free(used, argv_copy))
        ELSE [status |-> "ok", used |-> used \cup {p}, argv |-> argv_copy, p |-> p] :
          p \in kmalloc_user_alloc(used)}

proc_create(argsValid) ==
  IF ~argsValid THEN {CreateFails("EINVAL", blocks)}
  ELSE UNION {IF argv_copy = NULL THEN {CreateFails("ENOMEM", blocks)}
              ELSE CreateProcess(argv_copy, blocks \cup {argv_copy}) :
                argv_copy \in kmalloc_user_alloc(blocks)}

(***************************************************************************)
(* proc_create_internal(), as the child of the calling process.            *)
(***************************************************************************)
CreateReturns(p, made) ==
  LET child == FirstUnused IN
  /\ blocks' = made.used
  /\ \/ /\ made.status = "ok"
        /\ process_table' = [process_table EXCEPT ![child] = made.p]
        /\ argv' = [argv EXCEPT ![child] = made.argv]
        /\ sched_set_runnable(child)
        /\ AX' = [AX EXCEPT ![child] = "argc"]
        /\ pc' = [pc EXCEPT ![p] = "leave", ![child] = "new"]
        /\ ret' = "pid"
     \/ /\ made.status # "ok"
        /\ pc' = [pc EXCEPT ![p] = "leave"]
        /\ ret' = made.status
        /\ UNCHANGED <<procVars, process_table, argv>>

proc_create_internal(p, argsValid) ==
  /\ InHandler(p)
  /\ \E made \in proc_create(argsValid) : CreateReturns(p, made)
  /\ UNCHANGED <<semVars, cpuVars, in_kernel, halted>>

(***************************************************************************)
(* sys_sched_yield(), sys_getpid(), sys_getppid() and sem_signal_isr()     *)
(* change nothing; sys_exit() stops the machine in proc_stop().            *)
(***************************************************************************)
sys_sched_yield(p) ==
  /\ InHandler(p)
  /\ Return(p, "ok")
  /\ UNCHANGED <<procVars, semVars, memVars>>

sys_exit(p) ==
  /\ InHandler(p)
  /\ halted' = TRUE
  /\ UNCHANGED <<procVars, semVars, cpuVars, in_kernel, pc, ret, memVars>>

\* A system call of p, on a semaphore of S if it is about one.
Calls(p, S) ==
  \/ \E s \in S : \/ sem_wait(p, s)
                  \/ sem_signal(p, s)
                  \/ sem_signal_monitor(p, s)
                  \/ sem_interrupt(p, s)
  \/ \E argsValid \in BOOLEAN : proc_create_internal(p, argsValid)
  \/ sys_sched_yield(p)
  \/ sys_exit(p)

Handler(p) == Calls(p, Sems)

\* _exit() never returns.
Stopped == halted /\ UNCHANGED vars

Next ==
  \/ sched_start
  \/ Stopped
  \/ \E p \in Procs :
       SyscallEnter(p) \/ Handler(p) \/ SwapInReturn(p) \/ SyscallLeave(p)

Spec == Init /\ [][Next]_vars

-----------------------------------------------------------------------------
(***************************************************************************)
(* Type invariant: every variable of the scheduler holds a value of its C  *)
(* type, and a queue holds process blocks only.                            *)
(***************************************************************************)
TypeOK ==
  /\ state \in [Procs -> ProcState]
  /\ runnable \in Seq(Procs)
  /\ value \in [Sems -> 0..(SEM_MOD - 1)]
  /\ waiters \in [Sems -> Seq(Procs)]
  /\ wait_sem \in [Procs -> Sems \cup {NULL}]
  /\ AX \in [Procs -> Status]
  /\ kstack \in [Procs -> {NULL, "boot"}]
  /\ regs \in Procs \cup {kzp}
  /\ current_proc \in Procs \cup {NULL}
  /\ in_kernel \in 0..255
  /\ pc \in [Procs -> Place]
  /\ ret \in Status
  /\ blocks \subseteq Blocks
  /\ process_table \in [Procs -> Blocks \cup {NULL}]
  /\ argv \in [Procs -> Blocks \cup {NULL}]
  /\ halted \in BOOLEAN

\* No process is linked into q twice.
NoDuplicates(q) == \A i, j \in DOMAIN q : q[i] = q[j] => i = j

(***************************************************************************)
(* A process block has one pair of queue links (proc.qptrs), so it must be *)
(* on exactly one queue: the run queue iff it is PROC_RUNNING, and the     *)
(* waiters of its wait_sem iff it is PROC_SLEEP.  (sched_set_runnable,     *)
(* sched_remove_runnable, sem_wait, sem_wakeup, sem_interrupt)             *)
(***************************************************************************)
QueueConsistency ==
  /\ NoDuplicates(runnable)
  /\ \A s \in Sems : NoDuplicates(waiters[s])
  /\ \A p \in Procs : state[p] = "RUNNING" <=> p \in Range(runnable)
  /\ \A p \in Procs, s \in Sems :
       wait_sem[p] = s <=> p \in Range(waiters[s])
  /\ \A p \in Procs : state[p] = "SLEEP" <=> wait_sem[p] # NULL

(***************************************************************************)
(* No wakeup is lost: nobody waits on a semaphore that could be taken.     *)
(* (sem_wait, sem_signal, sem_signal_monitor, sem_interrupt)               *)
(***************************************************************************)
NobodyWaitsForAFreeSem ==
  \A s \in Sems : waiters[s] # <<>> => value[s] = 0

(***************************************************************************)
(* The process that runs is the first of the run queue, until it blocks    *)
(* and another one is switched to; when the last one blocks the machine    *)
(* stops.  (schedule takes TAILQ_FIRST and leaves it on the queue)         *)
(***************************************************************************)
CurrentIsFirst ==
  current_proc # NULL /\ ~halted =>
    /\ runnable # <<>>
    /\ Head(runnable) = current_proc

(***************************************************************************)
(* in_kernel is 1 exactly while kernel code of the current process runs,   *)
(* however often processes were swapped out inside system calls, so that   *)
(* pre-emption is blocked there and nowhere else.  (brk_syscall,           *)
(* proc_switch_to, .Lswap_in_return)                                       *)
(***************************************************************************)
KernelEntriesBalanced ==
  in_kernel =
    IF current_proc # NULL /\ pc[current_proc] \in {"handler", "leave"}
      THEN 1 ELSE 0

(***************************************************************************)
(* Only the current process is where it executes something.  Every other   *)
(* process has not been launched yet, or was swapped out inside            *)
(* proc_switch_to() and will come back there.  (proc_switch_to,            *)
(* proc_create)                                                            *)
(***************************************************************************)
OneProcessRuns ==
  \A p \in Procs :
    CASE state[p] = "UNUSED" -> pc[p] = "none"
      [] state[p] # "UNUSED" /\ p = current_proc ->
           pc[p] \in {"user", "handler", "leave", "back"}
      [] OTHER -> pc[p] \in {"new", "out"}

(***************************************************************************)
(* Memory and processes go together, however many creations failed part of *)
(* the way: a slot is taken exactly by a process that was launched, the    *)
(* blocks in use are those of the processes and their arguments, and no    *)
(* block serves for two.  (proc_create, proc_create_internal)              *)
(***************************************************************************)
Launched == {p \in Procs : state[p] # "UNUSED"}

BlocksAccounted ==
  /\ Unused = Procs \ Launched
  /\ blocks = UNION {{process_table[p], argv[p]} : p \in Launched}
  /\ \A p, q \in Launched :
       /\ process_table[p] # argv[q]
       /\ process_table[p] = process_table[q] \/ argv[p] = argv[q] => p = q

(***************************************************************************)
(* The run queue is fair as far as a cooperative scheduler can be: as long *)
(* as running processes keep blocking, every runnable process gets to run. *)
(* (sched_set_runnable inserts at the tail, schedule takes the first)      *)
(***************************************************************************)
RunnableEventuallyRuns ==
  []<><<current_proc' # current_proc>>_vars =>
    \A p \in Procs : (state[p] = "RUNNING") ~> (current_proc = p)

-----------------------------------------------------------------------------
(***************************************************************************)
(* What the comments and headers say and the code does not do.             *)
(***************************************************************************)

(***************************************************************************)
(* os/sched.c, comment on runnable: all runnable processes are on it       *)
(* "except for the one that is currently running".                         *)
(***************************************************************************)
RunQueueExcludesCurrent == current_proc \notin Range(runnable)

(***************************************************************************)
(* include/mosnix/proc.h: RC20 to RC31 are callee-saved registers that     *)
(* are saved for the process; a process that proc_switch_to() returns to   *)
(* finds its own values in them.                                           *)
(***************************************************************************)
RegistersSurviveSwitch ==
  \A p \in Procs : pc[p] = "back" => regs = p

(***************************************************************************)
(* include/mosnix/proc.h: kstack is the top of the "per-process" kernel    *)
(* data stack; os/switcher.S takes over the boot stack only for "the first *)
(* process we have launched".                                              *)
(***************************************************************************)
KernelStackPerProcess ==
  \A p, q \in Procs : kstack[p] = "boot" /\ kstack[q] = "boot" => p = q

(***************************************************************************)
(* include/mosnix/sem.h: sem_signal() increments the value (when nobody    *)
(* waits); the value never drops because of a signal.                      *)
(***************************************************************************)
SignalNeverLosesUnits ==
  [][\A p \in Procs, s \in Sems : sem_signal(p, s) => value'[s] >= value[s]]_vars
=============================================================================
