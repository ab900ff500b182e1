------------------------------ MODULE SemMutex ------------------------------
(***************************************************************************)
(* Clients that use a semaphore of Sched for mutual exclusion, the way     *)
(* include/mosnix/sem.h describes it: initial value 1, sem_wait() before   *)
(* the critical section, sem_signal() or sem_signal_monitor() after it.    *)
(* A client believes what sem_wait() returned.  Inside or outside the      *)
(* section, it may also make every other call of Sched, on every other     *)
(* semaphore, which is what makes processes meet at the mutex in a         *)
(* cooperative kernel.  Nobody calls sem_interrupt() on the mutex: then    *)
(* the waiters would be told that they had acquired it (ScheduleResult).   *)
(***************************************************************************)
EXTENDS Sched

CONSTANT Mutex

ASSUME MutexAssumption == Mutex \in Sems

VARIABLE section \* where each client is: outside, asking or inside

allVars == <<vars, section>>

MutexInit ==
  /\ Init
  /\ value[Mutex] = 1
  /\ section = [p \in Procs |-> "outside"]

\* What the caller of sem_wait(Mutex) concludes from its result, if it has one.
AfterWait(p) ==
  section' = [section EXCEPT ![p] = IF ret' = "ok" THEN "inside"
                                    ELSE IF ret' = "none" THEN "asking"
                                    ELSE "outside"]

Lock(p) ==
  /\ section[p] = "outside"
  /\ sem_wait(p, Mutex)
  /\ AfterWait(p)

Resume(p) ==
  /\ SwapInReturn(p)
  /\ IF section[p] = "asking" THEN AfterWait(p) ELSE UNCHANGED section

Unlock(p) ==
  /\ section[p] = "inside"
  /\ sem_signal(p, Mutex) \/ sem_signal_monitor(p, Mutex)
  /\ section' = [section EXCEPT ![p] = "outside"]

Other(p) ==
  /\ Calls(p, Sems \ {Mutex})
  /\ UNCHANGED section

MutexNext ==
  \/ (sched_start \/ Stopped) /\ UNCHANGED section
  \/ \E p \in Procs :
       \/ (SyscallEnter(p) \/ SyscallLeave(p)) /\ UNCHANGED section
       \/ Lock(p) \/ Resume(p) \/ Unlock(p) \/ Other(p)

MutexSpec == MutexInit /\ [][MutexNext]_allVars

-----------------------------------------------------------------------------
Inside == {p \in Procs : section[p] = "inside"}

\* Processes that were handed the mutex and have not run since.
Granted ==
  {p \in Procs : section[p] = "asking" /\ state[p] = "RUNNING"}

(***************************************************************************)
(* The one unit of the semaphore is never lost nor duplicated: it is in    *)
(* the value, with the process inside, or on its way to a woken waiter;    *)
(* in particular at most one process is inside the critical section.       *)
(* (the hand-over of sem_wakeup against the decrement of sem_wait)         *)
(***************************************************************************)
UnitConserved ==
  value[Mutex] + Cardinality(Inside) + Cardinality(Granted) = 1

(***************************************************************************)
(* Nobody starves: as long as processes keep blocking and every process    *)
(* inside leaves again, a process that waits for the mutex gets it.        *)
(* (the FIFO waiters of sem_wait and sem_wakeup, and the run queue)        *)
(***************************************************************************)
WaiterGetsMutex ==
  /\ []<><<current_proc' # current_proc>>_allVars
  /\ \A q \in Procs : []<>(section[q] # "inside")
  => \A p \in Procs : (wait_sem[p] = Mutex) ~> (section[p] = "inside")
=============================================================================
