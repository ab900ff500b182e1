---------------------------- MODULE SchedProofs ----------------------------
(***************************************************************************)
(* Proofs about Sched: types, and the consistency of the run queue, the    *)
(* wait queues and the process states, for any number of process slots and *)
(* any set of semaphores; and the memory of processes, for any number of   *)
(* blocks.                                                                 *)
(***************************************************************************)
EXTENDS Sched, SequenceTheorems, WellFoundedInduction, TLAPS

(***************************************************************************)
(* Queues: what inserting at the tail, taking the first element and        *)
(* joining two queues do to the set of linked processes.                   *)
(***************************************************************************)
LEMMA AppendQueue ==
  ASSUME NEW S, NEW q \in Seq(S), NEW p \in S
  PROVE  /\ Append(q, p) \in Seq(S)
         /\ Range(Append(q, p)) = Range(q) \cup {p}
         /\ NoDuplicates(q) /\ p \notin Range(q) => NoDuplicates(Append(q, p))
<1>1. /\ Append(q, p) \in Seq(S)
      /\ DOMAIN Append(q, p) = 1..(Len(q) + 1)
      /\ DOMAIN q = 1..Len(q) /\ Len(q) \in Nat
      /\ Append(q, p)[Len(q) + 1] = p
      /\ \A i \in 1..Len(q) : Append(q, p)[i] = q[i]
  OBVIOUS
<1>2. Range(Append(q, p)) = Range(q) \cup {p}
  BY <1>1 DEF Range
<1>3. ASSUME NoDuplicates(q), p \notin Range(q)
      PROVE  NoDuplicates(Append(q, p))
  BY <1>1, <1>3 DEF Range, NoDuplicates
<1> QED BY <1>1, <1>2, <1>3

LEMMA TailQueue ==
  ASSUME NEW S, NEW q \in Seq(S), q # <<>>
  PROVE  /\ Head(q) \in S /\ Head(q) \in Range(q)
         /\ Tail(q) \in Seq(S)
         /\ NoDuplicates(q) => /\ Range(Tail(q)) = Range(q) \ {Head(q)}
                               /\ NoDuplicates(Tail(q))
<1>1. /\ Len(q) \in Nat /\ Len(q) > 0 /\ DOMAIN q = 1..Len(q)
      /\ Head(q) = q[1] /\ Tail(q) \in Seq(S)
      /\ DOMAIN Tail(q) = 1..(Len(q) - 1)
      /\ \A i \in 1..(Len(q) - 1) : Tail(q)[i] = q[i + 1]
  OBVIOUS
<1>2. Head(q) \in S /\ Head(q) \in Range(q)
  BY <1>1 DEF Range
<1>3. ASSUME NoDuplicates(q) PROVE Range(Tail(q)) = Range(q) \ {Head(q)}
  <2>1. ASSUME NEW x \in Range(Tail(q)) PROVE x \in Range(q) \ {Head(q)}
    BY <1>1, <1>3, <2>1 DEF Range, NoDuplicates
  <2>2. ASSUME NEW x \in Range(q) \ {Head(q)} PROVE x \in Range(Tail(q))
    <3>1. PICK i \in 1..Len(q) : x = q[i]
      BY <1>1, <2>2 DEF Range
    <3>2. i - 1 \in 1..(Len(q) - 1) /\ Tail(q)[i - 1] = x
      BY <1>1, <2>2, <3>1
    <3> QED BY <1>1, <3>2, Zenon DEF Range
  <2> QED BY <2>1, <2>2
<1>4. ASSUME NoDuplicates(q) PROVE NoDuplicates(Tail(q))
  BY <1>1, <1>4 DEF NoDuplicates
<1> QED BY <1>1, <1>2, <1>3, <1>4

LEMMA JoinQueues ==
  ASSUME NEW S, NEW q \in Seq(S), NEW r \in Seq(S)
  PROVE  /\ q \o r \in Seq(S)
         /\ Range(q \o r) = Range(q) \cup Range(r)
         /\ NoDuplicates(q) /\ NoDuplicates(r) /\ Range(q) \cap Range(r) = {}
              => NoDuplicates(q \o r)
         /\ q # <<>> => q \o r # <<>> /\ Head(q \o r) = Head(q)
<1>1. /\ q \o r \in Seq(S) /\ Len(q) \in Nat /\ Len(r) \in Nat
      /\ DOMAIN q = 1..Len(q) /\ DOMAIN r = 1..Len(r)
      /\ DOMAIN (q \o r) = 1..(Len(q) + Len(r))
      /\ \A i \in 1..(Len(q) + Len(r)) :
           (q \o r)[i] = IF i <= Len(q) THEN q[i] ELSE r[i - Len(q)]
  OBVIOUS
<1>2. Range(q \o r) = Range(q) \cup Range(r)
  <2>1. ASSUME NEW x \in Range(q \o r) PROVE x \in Range(q) \cup Range(r)
    BY <1>1, <2>1 DEF Range
  <2>2. ASSUME NEW x \in Range(q) PROVE x \in Range(q \o r)
    BY <1>1, <2>2 DEF Range
  <2>3. ASSUME NEW x \in Range(r) PROVE x \in Range(q \o r)
    <3>1. PICK i \in 1..Len(r) : x = r[i]
      BY <1>1, <2>3 DEF Range
    <3>2. /\ i + Len(q) \in 1..(Len(q) + Len(r))
          /\ (q \o r)[i + Len(q)] = x
      BY <1>1, <3>1
    <3> QED BY <1>1, <3>2, SMTT(60) DEF Range
  <2> QED BY <2>1, <2>2, <2>3
<1>3. ASSUME NoDuplicates(q), NoDuplicates(r), Range(q) \cap Range(r) = {}
      PROVE  NoDuplicates(q \o r)
  <2> SUFFICES ASSUME NEW i \in 1..(Len(q) + Len(r)),
                      NEW j \in 1..(Len(q) + Len(r)),
                      (q \o r)[i] = (q \o r)[j]
               PROVE  i = j
    BY <1>1 DEF NoDuplicates
  <2>1. \A k \in 1..Len(q), l \in 1..Len(r) : q[k] # r[l]
    BY <1>1, <1>3, Zenon DEF Range
  <2>2. CASE i <= Len(q) /\ j <= Len(q)
    BY <1>1, <1>3, <2>2 DEF NoDuplicates
  <2>3. CASE i > Len(q) /\ j > Len(q)
    <3>1. i - Len(q) \in 1..Len(r) /\ j - Len(q) \in 1..Len(r)
      BY <1>1, <2>3
    <3>2. i - Len(q) = j - Len(q)
      BY <1>1, <1>3, <2>3, <3>1, SMTT(60) DEF NoDuplicates
    <3> QED BY <1>1, <3>2
  <2>4. CASE i <= Len(q) /\ j > Len(q)
    BY <1>1, <2>1, <2>4
  <2>5. CASE i > Len(q) /\ j <= Len(q)
    BY <1>1, <2>1, <2>5
  <2> QED BY <1>1, <2>2, <2>3, <2>4, <2>5
<1>4. q # <<>> => q \o r # <<>> /\ Head(q \o r) = Head(q)
  BY <1>1
<1> QED BY <1>1, <1>2, <1>3, <1>4

(***************************************************************************)
(* TAILQ_REMOVE of the first element leaves the tail.                      *)
(***************************************************************************)
LEMMA RemoveHead ==
  ASSUME NEW S, NEW q \in Seq(S), q # <<>>, NoDuplicates(q)
  PROVE  TailqRemove(q, Head(q)) = Tail(q)
<1>1. /\ Len(q) \in Nat /\ Len(q) > 0 /\ DOMAIN q = 1..Len(q)
      /\ Head(q) = q[1]
  OBVIOUS
<1>2. (CHOOSE j \in DOMAIN q : q[j] = Head(q)) = 1
  BY <1>1 DEF NoDuplicates
<1>3. TailqRemove(q, Head(q)) = SubSeq(q, 1, 0) \o SubSeq(q, 2, Len(q))
  <2>1. TailqRemove(q, Head(q)) = SubSeq(q, 1, 1 - 1) \o SubSeq(q, 1 + 1, Len(q))
    BY <1>2, Zenon DEF TailqRemove
  <2>2. 1 - 1 = 0 /\ 1 + 1 = 2
    OBVIOUS
  <2> QED BY <2>1, <2>2
<1>4. SubSeq(q, 1, 0) = <<>> /\ SubSeq(q, 2, Len(q)) = Tail(q)
  BY <1>1
<1>5. Tail(q) \in Seq(S)
  BY <1>1
<1>6. <<>> \o Tail(q) = Tail(q)
  BY <1>5, ConcatEmptySeq
<1>7. TailqRemove(q, Head(q)) = <<>> \o Tail(q)
  BY <1>3, <1>4, Zenon
<1>8. QED
  BY <1>6, <1>7

(***************************************************************************)
(* The search of proc_create() finds a slot if there is one.               *)
(***************************************************************************)
LEMMA FirstUnusedExists ==
  ASSUME Unused # {}
  PROVE  FirstUnused \in Unused
<1>1. Unused \subseteq Nat
  BY SchedAssumption DEF Unused, Procs
<1>2. PICK x \in Unused : \A y \in Unused : ~ (<<y, x>> \in OpToRel(<, Nat))
  BY <1>1, NatLessThanWellFounded, WFMin, Zenon
<1>3. ASSUME NEW y \in Unused PROVE x <= y
  <2>1. x \in Nat /\ y \in Nat
    BY <1>1
  <2>2. <<y, x>> \in OpToRel(<, Nat) <=> y < x
    BY <2>1 DEF OpToRel
  <2>3. ~ (y < x)
    BY <1>2, <2>2, Zenon
  <2> QED BY <2>1, <2>3
<1> QED BY <1>3 DEF FirstUnused

(***************************************************************************)
(* The inductive invariant: the invariants that TLC checks, together, and  *)
(* the shell on the run queue before sched_start() runs.                   *)
(***************************************************************************)
StartHasProcess == current_proc = NULL => runnable # <<>>

IInv ==
  /\ StartHasProcess
  /\ TypeOK
  /\ QueueConsistency
  /\ NobodyWaitsForAFreeSem
  /\ CurrentIsFirst
  /\ KernelEntriesBalanced
  /\ OneProcessRuns
  /\ BlocksAccounted

(***************************************************************************)
(* The state main() hands to sched_start() satisfies the invariant.        *)
(***************************************************************************)
LEMMA InitIInv == Init => IInv
<1> SUFFICES ASSUME Init PROVE IInv
  OBVIOUS
<1>0. /\ 1 \in Procs /\ NULL \notin Procs /\ NULL \notin Sems
      /\ 0..(SEM_MOD - 1) \subseteq Nat
  BY SchedAssumption DEF Procs
<1>1. /\ runnable = <<1>> /\ runnable \in Seq(Procs)
      /\ Range(runnable) = {1} /\ NoDuplicates(runnable)
  BY <1>0 DEF Init, Range, NoDuplicates
<1>2. TypeOK
  <2>1. /\ state \in [Procs -> ProcState] /\ pc \in [Procs -> Place]
        /\ AX \in [Procs -> Status] /\ ret \in Status
    BY DEF Init, ProcState, Place, Status
  <2>2. waiters \in [Sems -> Seq(Procs)]
    BY DEF Init
  <2>3. /\ value \in [Sems -> 0..(SEM_MOD - 1)]
        /\ wait_sem \in [Procs -> Sems \cup {NULL}]
        /\ kstack \in [Procs -> {NULL, "boot"}]
        /\ regs \in Procs \cup {kzp}
        /\ current_proc \in Procs \cup {NULL}
    BY DEF Init
  <2>4. in_kernel \in 0..255
    BY DEF Init
  <2>5. halted \in BOOLEAN
    BY Zenon DEF Init
  <2>6. /\ blocks \subseteq Blocks
        /\ process_table \in [Procs -> Blocks \cup {NULL}]
        /\ argv \in [Procs -> Blocks \cup {NULL}]
    BY SchedAssumption DEF Init
  <2> QED BY <1>1, <2>1, <2>2, <2>3, <2>4, <2>5, <2>6 DEF TypeOK
<1>3. \A s \in Sems : waiters[s] = <<>> /\ Range(waiters[s]) = {}
                     /\ NoDuplicates(waiters[s])
  BY DEF Init, Range, NoDuplicates
<1>4. QueueConsistency
  BY <1>0, <1>1, <1>3 DEF Init, QueueConsistency
<1>5. NobodyWaitsForAFreeSem /\ CurrentIsFirst /\ KernelEntriesBalanced
  BY <1>3 DEF Init, NobodyWaitsForAFreeSem, CurrentIsFirst,
              KernelEntriesBalanced
<1>6. OneProcessRuns
  BY <1>0 DEF Init, OneProcessRuns
<1>7. StartHasProcess
  BY <1>1 DEF StartHasProcess
<1>8. BlocksAccounted
  <2>1. Launched = {1} /\ process_table[1] = 2 /\ argv[1] = 1
    BY <1>0 DEF Init, Launched
  <2>2. Unused = Procs \ Launched
    BY <1>0, <2>1, SchedAssumption DEF Init, Unused
  <2> QED BY <2>1, <2>2 DEF Init, BlocksAccounted
<1> QED BY <1>2, <1>4, <1>5, <1>6, <1>7, <1>8 DEF IInv

(***************************************************************************)
(* The queue part of the invariant, which an operation on queues must      *)
(* re-establish: types, consistency and no lost wakeup.                    *)
(***************************************************************************)
QueueInv ==
  /\ state \in [Procs -> ProcState]
  /\ runnable \in Seq(Procs)
  /\ value \in [Sems -> 0..(SEM_MOD - 1)]
  /\ waiters \in [Sems -> Seq(Procs)]
  /\ wait_sem \in [Procs -> Sems \cup {NULL}]
  /\ AX \in [Procs -> Status]
  /\ QueueConsistency
  /\ NobodyWaitsForAFreeSem

\* What an operation does to the run queue besides: the first process stays
\* first, and no slot is taken or given up.
FirstKept == runnable # <<>> => runnable' # <<>> /\ Head(runnable') = Head(runnable)
SlotsKept == \A q \in Procs : state'[q] = "UNUSED" <=> state[q] = "UNUSED"

(***************************************************************************)
(* A step that leaves the queues and the process states alone keeps them.  *)
(***************************************************************************)
LEMMA QueuesUnchanged ==
  ASSUME QueueInv, UNCHANGED procVars, UNCHANGED semVars
  PROVE  QueueInv' /\ FirstKept /\ SlotsKept
<1>1. QueueInv'
  BY DEF QueueInv, QueueConsistency, NobodyWaitsForAFreeSem, NoDuplicates,
         Range, procVars, semVars
<1>2. FirstKept /\ SlotsKept
  BY DEF FirstKept, SlotsKept, procVars
<1> QED BY <1>1, <1>2

(***************************************************************************)
(* A step that takes no slot and no memory keeps the memory accounted for. *)
(***************************************************************************)
LEMMA BlocksKept ==
  ASSUME BlocksAccounted, SlotsKept, UNCHANGED memVars
  PROVE  BlocksAccounted'
<1>1. UNCHANGED <<blocks, process_table, argv>>
  BY DEF memVars
<1>2. Launched' = Launched /\ Unused' = Unused
  BY <1>1 DEF Launched, Unused, SlotsKept
<1> QED BY <1>1, <1>2 DEF BlocksAccounted

(***************************************************************************)
(* A process in a free slot with two blocks that were not in use.          *)
(***************************************************************************)
LEMMA BlocksTaken ==
  ASSUME BlocksAccounted, process_table \in [Procs -> Blocks \cup {NULL}],
         argv \in [Procs -> Blocks \cup {NULL}],
         NEW c \in Unused, NEW a \in Blocks \ blocks,
         NEW b \in Blocks \ (blocks \cup {a}),
         blocks' = (blocks \cup {a}) \cup {b},
         process_table' = [process_table EXCEPT ![c] = b],
         argv' = [argv EXCEPT ![c] = a],
         \A q \in Procs : state'[q] = IF q = c THEN "RUNNING" ELSE state[q]
  PROVE  BlocksAccounted'
<1>1. c \in Procs /\ c \notin Launched /\ Unused = Procs \ Launched
  BY DEF BlocksAccounted, Unused
<1>2. /\ \A q \in Procs : process_table'[q] = IF q = c THEN b ELSE process_table[q]
      /\ \A q \in Procs : argv'[q] = IF q = c THEN a ELSE argv[q]
  BY <1>1
<1>3. Launched' = Launched \cup {c} /\ Launched \subseteq Procs
  BY <1>1 DEF Launched
<1>4. Unused' = Unused \ {c}
  BY <1>1, <1>2, SchedAssumption DEF Unused
<1>5. \A q \in Launched : process_table[q] \in blocks /\ argv[q] \in blocks
  BY DEF BlocksAccounted
<1>6. blocks' = UNION {{process_table'[p], argv'[p]} : p \in Launched'}
  <2>1. \A x \in blocks : \E q \in Launched : x \in {process_table[q], argv[q]}
    BY DEF BlocksAccounted
  <2>2. ASSUME NEW x \in blocks'
        PROVE  \E q \in Launched' : x \in {process_table'[q], argv'[q]}
    BY <1>1, <1>2, <1>3, <2>1, <2>2
  <2>3. ASSUME NEW q \in Launched'
        PROVE  {process_table'[q], argv'[q]} \subseteq blocks'
    BY <1>1, <1>2, <1>3, <1>5, <2>3
  <2> QED BY <2>2, <2>3
<1>7. ASSUME NEW p \in Launched', NEW q \in Launched'
      PROVE  /\ process_table'[p] # argv'[q]
             /\ process_table'[p] = process_table'[q] \/ argv'[p] = argv'[q] => p = q
  BY <1>1, <1>2, <1>3, <1>5, <1>7 DEF BlocksAccounted
<1> QED BY <1>1, <1>3, <1>4, <1>6, <1>7 DEF BlocksAccounted

(***************************************************************************)
(* A change of values alone keeps the queues.                              *)
(***************************************************************************)
LEMMA ValueChange ==
  ASSUME QueueInv, NEW s \in Sems, NEW v \in 0..(SEM_MOD - 1),
         waiters[s] = <<>>,
         value' = [value EXCEPT ![s] = v],
         UNCHANGED <<waiters, wait_sem, procVars>>
  PROVE  QueueInv' /\ FirstKept /\ SlotsKept
<1>1. QueueConsistency'
  BY DEF QueueInv, QueueConsistency, NoDuplicates, Range, procVars
<1>2. NobodyWaitsForAFreeSem'
  BY DEF QueueInv, NobodyWaitsForAFreeSem
<1>3. QueueInv'
  BY <1>1, <1>2 DEF QueueInv, procVars
<1>4. FirstKept /\ SlotsKept
  BY DEF FirstKept, SlotsKept, procVars
<1> QED BY <1>3, <1>4

(***************************************************************************)
(* sem_wakeup() moves the first waiter to the end of the run queue.        *)
(***************************************************************************)
LEMMA Wakeup ==
  ASSUME QueueInv, NEW s \in Sems, value[s] = 0, sem_wakeup(s)
  PROVE  QueueInv' /\ FirstKept /\ SlotsKept
<1>0. NULL \notin Sems /\ 1 \in 0..(SEM_MOD - 1)
  BY SchedAssumption
<1>1. CASE waiters[s] = <<>>
  <2>1. value' = [value EXCEPT ![s] = 1]
        /\ UNCHANGED <<waiters, wait_sem, procVars>>
    BY <1>1 DEF sem_wakeup
  <2> QED BY <1>0, <1>1, <2>1, ValueChange, ZenonT(60)
<1>2. CASE waiters[s] # <<>>
  <2> DEFINE w == Head(waiters[s])
  <2>1. /\ waiters[s] \in Seq(Procs) /\ NoDuplicates(waiters[s])
        /\ runnable \in Seq(Procs) /\ NoDuplicates(runnable)
    BY DEF QueueInv, QueueConsistency
  <2>2. /\ w \in Procs /\ w \in Range(waiters[s])
        /\ Tail(waiters[s]) \in Seq(Procs)
        /\ Range(Tail(waiters[s])) = Range(waiters[s]) \ {w}
        /\ NoDuplicates(Tail(waiters[s]))
    BY <1>2, <2>1, TailQueue
  <2>3. wait_sem[w] = s /\ state[w] = "SLEEP" /\ w \notin Range(runnable)
    BY <1>0, <2>2 DEF QueueInv, QueueConsistency
  <2>4. /\ waiters' = [waiters EXCEPT ![s] = Tail(@)]
        /\ AX' = [AX EXCEPT ![w] = "ok"]
        /\ wait_sem' = [wait_sem EXCEPT ![w] = NULL]
        /\ state' = [state EXCEPT ![w] = "RUNNING"]
        /\ runnable' = Append(runnable, w)
        /\ UNCHANGED value
    BY <1>2, <2>3 DEF sem_wakeup, sched_set_runnable, SetRunnableQueue,
                      TailqInsertTail
  <2>5. /\ runnable' \in Seq(Procs) /\ Range(runnable') = Range(runnable) \cup {w}
        /\ NoDuplicates(runnable')
    BY <2>1, <2>2, <2>3, <2>4, AppendQueue
  <2>6. /\ state' \in [Procs -> ProcState] /\ AX' \in [Procs -> Status]
        /\ waiters' \in [Sems -> Seq(Procs)]
        /\ wait_sem' \in [Procs -> Sems \cup {NULL}]
        /\ value' \in [Sems -> 0..(SEM_MOD - 1)]
    BY <2>2, <2>4 DEF QueueInv, ProcState, Status
  <2>7. \A t \in Sems : waiters'[t] = IF t = s THEN Tail(waiters[s]) ELSE waiters[t]
    BY <2>4 DEF QueueInv
  <2>8. \A q \in Procs :
          /\ wait_sem'[q] = IF q = w THEN NULL ELSE wait_sem[q]
          /\ state'[q] = IF q = w THEN "RUNNING" ELSE state[q]
    BY <2>4 DEF QueueInv
  <2>9. \A t \in Sems : NoDuplicates(waiters'[t])
    BY <2>2, <2>7, ZenonT(60) DEF QueueInv, QueueConsistency
  <2>10. ASSUME NEW q \in Procs, NEW t \in Sems
         PROVE  wait_sem'[q] = t <=> q \in Range(waiters'[t])
    <3>1. \A x \in Procs, y \in Sems : wait_sem[x] = y <=> x \in Range(waiters[y])
      BY <1>0 DEF QueueInv, QueueConsistency
    <3>2. CASE q = w
      <4>1. wait_sem'[q] # t
        BY <2>8, <3>2, SchedAssumption
      <4>2. q \notin Range(waiters'[t])
        BY <2>2, <2>3, <2>7, <3>1, <3>2
      <4> QED
        BY <4>1, <4>2
    <3>3. CASE q # w
      <4>1. wait_sem'[q] = wait_sem[q]
        BY <2>8, <3>3
      <4>2. q \in Range(waiters'[t]) <=> q \in Range(waiters[t])
        BY <2>2, <2>7, <3>3
      <4> QED
        BY <3>1, <4>1, <4>2
    <3> QED
      BY <3>2, <3>3
  <2>11. \A q \in Procs : state'[q] = "RUNNING" <=> q \in Range(runnable')
    BY <2>5, <2>8 DEF QueueInv, QueueConsistency
  <2>12. \A q \in Procs : state'[q] = "SLEEP" <=> wait_sem'[q] # NULL
    BY <2>8, Zenon DEF QueueInv, QueueConsistency
  <2>13. QueueConsistency'
    BY <2>5, <2>9, <2>10, <2>11, <2>12 DEF QueueConsistency
  <2>14. NobodyWaitsForAFreeSem'
    BY <2>4, <2>7 DEF QueueInv, NobodyWaitsForAFreeSem
  <2>15. FirstKept
    BY <2>1, <2>2, <2>4 DEF FirstKept
  <2>16. SlotsKept
    BY <2>3, <2>8 DEF SlotsKept
  <2> QED BY <2>5, <2>6, <2>13, <2>14, <2>15, <2>16 DEF QueueInv
<1> QED BY <1>1, <1>2

(***************************************************************************)
(* sem_interrupt() moves all waiters to the end of the run queue.          *)
(***************************************************************************)
LEMMA Interrupted ==
  ASSUME QueueInv, NEW p \in Procs, NEW s \in Sems, sem_interrupt(p, s)
  PROVE  QueueInv' /\ FirstKept /\ SlotsKept
<1> DEFINE woken == Range(waiters[s])
<1>0. NULL \notin Sems
  BY SchedAssumption
<1>1. /\ waiters' = [waiters EXCEPT ![s] = <<>>]
      /\ runnable' = runnable \o waiters[s]
      /\ AX' = [q \in Procs |-> IF q \in woken THEN "EINTR" ELSE AX[q]]
      /\ wait_sem' = [q \in Procs |-> IF q \in woken THEN NULL ELSE wait_sem[q]]
      /\ state' = [q \in Procs |-> IF q \in woken THEN "RUNNING" ELSE state[q]]
      /\ UNCHANGED value
  BY DEF sem_interrupt
<1>2. /\ waiters[s] \in Seq(Procs) /\ NoDuplicates(waiters[s])
      /\ runnable \in Seq(Procs) /\ NoDuplicates(runnable)
  BY DEF QueueInv, QueueConsistency
<1>3. \A q \in Procs : q \in woken <=> wait_sem[q] = s
  BY DEF QueueInv, QueueConsistency
<1>4. \A q \in Procs : q \in woken => state[q] = "SLEEP" /\ q \notin Range(runnable)
  BY <1>0, <1>3 DEF QueueInv, QueueConsistency
<1>5. Range(runnable) \cap woken = {}
  <2>1. woken \subseteq Procs
    BY <1>2 DEF Range
  <2> QED BY <1>4, <2>1
<1>6. /\ runnable' \in Seq(Procs)
      /\ Range(runnable') = Range(runnable) \cup woken
      /\ NoDuplicates(runnable')
      /\ runnable # <<>> => runnable' # <<>> /\ Head(runnable') = Head(runnable)
  BY <1>1, <1>2, <1>5, JoinQueues
<1>7. /\ <<>> \in Seq(Procs) /\ Range(<<>>) = {} /\ NoDuplicates(<<>>)
  BY DEF Range, NoDuplicates
<1>8. /\ state' \in [Procs -> ProcState] /\ AX' \in [Procs -> Status]
      /\ waiters' \in [Sems -> Seq(Procs)]
      /\ wait_sem' \in [Procs -> Sems \cup {NULL}]
      /\ value' \in [Sems -> 0..(SEM_MOD - 1)]
  BY <1>1, <1>7 DEF QueueInv, ProcState, Status
<1>9. \A t \in Sems : waiters'[t] = IF t = s THEN <<>> ELSE waiters[t]
  BY <1>1 DEF QueueInv
<1>10. \A q \in Procs :
         /\ wait_sem'[q] = IF q \in woken THEN NULL ELSE wait_sem[q]
         /\ state'[q] = IF q \in woken THEN "RUNNING" ELSE state[q]
  BY <1>1
<1>11. \A t \in Sems : NoDuplicates(waiters'[t])
  BY <1>7, <1>9 DEF QueueInv, QueueConsistency
<1>12. ASSUME NEW q \in Procs, NEW t \in Sems
       PROVE  wait_sem'[q] = t <=> q \in Range(waiters'[t])
  <2>1. wait_sem[q] = t <=> q \in Range(waiters[t])
    BY DEF QueueInv, QueueConsistency
  <2>2. CASE t = s
    BY <1>0, <1>3, <1>7, <1>9, <1>10, <2>2
  <2>3. CASE t # s
    BY <1>0, <1>3, <1>9, <1>10, <2>1, <2>3, SMTT(60)
  <2> QED BY <2>2, <2>3
<1>13. \A q \in Procs : state'[q] = "RUNNING" <=> q \in Range(runnable')
  BY <1>6, <1>10 DEF QueueInv, QueueConsistency
<1>14. \A q \in Procs : state'[q] = "SLEEP" <=> wait_sem'[q] # NULL
  BY <1>10, Zenon DEF QueueInv, QueueConsistency
<1>15. QueueConsistency'
  BY <1>6, <1>11, <1>12, <1>13, <1>14 DEF QueueConsistency
<1>16. NobodyWaitsForAFreeSem'
  BY <1>1, <1>9 DEF QueueInv, NobodyWaitsForAFreeSem
<1>17. FirstKept
  BY <1>6 DEF FirstKept
<1>18. SlotsKept
  BY <1>4, <1>10 DEF SlotsKept
<1> QED BY <1>6, <1>8, <1>15, <1>16, <1>17, <1>18 DEF QueueInv

(***************************************************************************)
(* A sem_wait() that blocks takes the first process off the run queue.     *)
(***************************************************************************)
LEMMA Blocked ==
  ASSUME QueueInv, NEW p \in Procs, NEW s \in Sems,
         runnable # <<>>, Head(runnable) = p, SemWaitBlocks(p, s)
  PROVE  /\ QueueInv' /\ SlotsKept
         /\ state[p] = "RUNNING" /\ runnable' = Tail(runnable)
<1>0. NULL \notin Sems
  BY SchedAssumption
<1>1. /\ runnable \in Seq(Procs) /\ NoDuplicates(runnable)
      /\ waiters[s] \in Seq(Procs) /\ NoDuplicates(waiters[s])
  BY DEF QueueInv, QueueConsistency
<1>2. /\ p \in Range(runnable) /\ Tail(runnable) \in Seq(Procs)
      /\ Range(Tail(runnable)) = Range(runnable) \ {p}
      /\ NoDuplicates(Tail(runnable))
  BY <1>1, TailQueue
<1>3. state[p] = "RUNNING" /\ wait_sem[p] = NULL /\ p \notin Range(waiters[s])
  BY <1>0, <1>2 DEF QueueInv, QueueConsistency
<1>4. runnable' = Tail(runnable)
  <2>1. runnable' = TailqRemove(runnable, p)
    BY <1>3 DEF SemWaitBlocks, RemoveRunnableQueue
  <2> QED BY <1>1, <2>1, RemoveHead
<1>5. /\ value[s] = 0 /\ UNCHANGED <<value, AX>>
      /\ waiters' = [waiters EXCEPT ![s] = Append(@, p)]
      /\ wait_sem' = [wait_sem EXCEPT ![p] = s]
      /\ state' = [state EXCEPT ![p] = "SLEEP"]
  BY DEF SemWaitBlocks, TailqInsertTail
<1>6. /\ Append(waiters[s], p) \in Seq(Procs)
      /\ Range(Append(waiters[s], p)) = Range(waiters[s]) \cup {p}
      /\ NoDuplicates(Append(waiters[s], p))
  BY <1>1, <1>3, AppendQueue
<1>7. /\ state' \in [Procs -> ProcState] /\ AX' \in [Procs -> Status]
      /\ waiters' \in [Sems -> Seq(Procs)]
      /\ wait_sem' \in [Procs -> Sems \cup {NULL}]
      /\ value' \in [Sems -> 0..(SEM_MOD - 1)]
  BY <1>5, <1>6 DEF QueueInv, ProcState
<1>8. \A t \in Sems : waiters'[t] = IF t = s THEN Append(waiters[s], p) ELSE waiters[t]
  BY <1>5 DEF QueueInv
<1>9. \A q \in Procs :
        /\ wait_sem'[q] = IF q = p THEN s ELSE wait_sem[q]
        /\ state'[q] = IF q = p THEN "SLEEP" ELSE state[q]
  BY <1>5 DEF QueueInv
<1>10. \A t \in Sems : NoDuplicates(waiters'[t])
  BY <1>6, <1>8 DEF QueueInv, QueueConsistency
<1>11. ASSUME NEW q \in Procs, NEW t \in Sems
       PROVE  wait_sem'[q] = t <=> q \in Range(waiters'[t])
  <2>1. wait_sem[q] = t <=> q \in Range(waiters[t])
    BY DEF QueueInv, QueueConsistency
  <2>2. CASE t = s
    BY <1>6, <1>8, <1>9, <2>1, <2>2
  <2>3. CASE t # s
    BY <1>0, <1>3, <1>8, <1>9, <2>1, <2>3, SMTT(60)
  <2> QED BY <2>2, <2>3
<1>12. \A q \in Procs : state'[q] = "RUNNING" <=> q \in Range(runnable')
  BY <1>2, <1>4, <1>9 DEF QueueInv, QueueConsistency
<1>13. \A q \in Procs : state'[q] = "SLEEP" <=> wait_sem'[q] # NULL
  BY <1>0, <1>9 DEF QueueInv, QueueConsistency
<1>14. QueueConsistency'
  BY <1>2, <1>4, <1>10, <1>11, <1>12, <1>13 DEF QueueConsistency
<1>15. NobodyWaitsForAFreeSem'
  BY <1>5, <1>8 DEF QueueInv, NobodyWaitsForAFreeSem
<1>16. SlotsKept
  BY <1>3, <1>9 DEF SlotsKept
<1> QED BY <1>2, <1>3, <1>4, <1>7, <1>14, <1>15, <1>16 DEF QueueInv

(***************************************************************************)
(* A successful proc_create() takes one unused slot and appends it to the  *)
(* run queue.                                                              *)
(***************************************************************************)
LEMMA Created ==
  ASSUME QueueInv, NEW c \in Procs, state[c] = "UNUSED",
         sched_set_runnable(c), AX' = [AX EXCEPT ![c] = "argc"],
         UNCHANGED semVars
  PROVE  /\ QueueInv' /\ FirstKept
         /\ \A q \in Procs : state'[q] = IF q = c THEN "RUNNING" ELSE state[q]
<1>0. NULL \notin Sems
  BY SchedAssumption
<1>1. runnable \in Seq(Procs) /\ NoDuplicates(runnable)
  BY DEF QueueInv, QueueConsistency
<1>2. wait_sem[c] = NULL /\ c \notin Range(runnable)
  BY DEF QueueInv, QueueConsistency
<1>3. /\ runnable' = Append(runnable, c)
      /\ state' = [state EXCEPT ![c] = "RUNNING"]
      /\ UNCHANGED <<value, waiters, wait_sem>>
  BY DEF sched_set_runnable, SetRunnableQueue, TailqInsertTail, semVars
<1>4. /\ runnable' \in Seq(Procs) /\ Range(runnable') = Range(runnable) \cup {c}
      /\ NoDuplicates(runnable')
  BY <1>1, <1>2, <1>3, AppendQueue
<1>5. state' \in [Procs -> ProcState] /\ AX' \in [Procs -> Status]
  BY <1>3 DEF QueueInv, ProcState, Status
<1>6. \A q \in Procs : state'[q] = IF q = c THEN "RUNNING" ELSE state[q]
  BY <1>3 DEF QueueInv
<1>7. \A q \in Procs : state'[q] = "RUNNING" <=> q \in Range(runnable')
  BY <1>4, <1>6 DEF QueueInv, QueueConsistency
<1>8. \A q \in Procs : state'[q] = "SLEEP" <=> wait_sem'[q] # NULL
  BY <1>2, <1>3, <1>6 DEF QueueInv, QueueConsistency
<1>9. \A s \in Sems : NoDuplicates(waiters'[s])
  BY <1>3 DEF QueueInv, QueueConsistency
<1>10. \A q \in Procs, s \in Sems : wait_sem'[q] = s <=> q \in Range(waiters'[s])
  BY <1>3 DEF QueueInv, QueueConsistency
<1>11. QueueConsistency'
  BY <1>4, <1>7, <1>8, <1>9, <1>10 DEF QueueConsistency
<1>12. NobodyWaitsForAFreeSem'
  BY <1>3 DEF QueueInv, NobodyWaitsForAFreeSem
<1>13. FirstKept
  BY <1>1, <1>3 DEF FirstKept
<1> QED BY <1>3, <1>4, <1>5, <1>6, <1>11, <1>12, <1>13 DEF QueueInv

(***************************************************************************)
(* The invariant contains its queue part.                                  *)
(***************************************************************************)
LEMMA InvQueues == IInv => QueueInv
BY DEF IInv, TypeOK, QueueInv

(***************************************************************************)
(* In a handler the caller is the first of the run queue, and in_kernel    *)
(* is 1.                                                                   *)
(***************************************************************************)
LEMMA HandlerFacts ==
  ASSUME IInv, NEW p \in Procs, InHandler(p)
  PROVE  /\ runnable # <<>> /\ Head(runnable) = p
         /\ current_proc = p /\ p # NULL /\ in_kernel = 1
         /\ pc[p] = "handler" /\ ~halted /\ state[p] # "UNUSED"
<1>1. p # NULL
  BY SchedAssumption
<1>2. current_proc = p /\ pc[p] = "handler" /\ ~halted
  BY DEF InHandler
<1>3. runnable # <<>> /\ Head(runnable) = p
  BY <1>1, <1>2 DEF IInv, CurrentIsFirst
<1>4. in_kernel = 1
  BY <1>1, <1>2 DEF IInv, KernelEntriesBalanced
<1>5. state[p] # "UNUSED"
  BY <1>2 DEF IInv, OneProcessRuns
<1> QED BY <1>1, <1>2, <1>3, <1>4, <1>5

(***************************************************************************)
(* A handler that returns keeps the invariant if it keeps the queue part,  *)
(* the first process and the slots.                                        *)
(***************************************************************************)
LEMMA Returned ==
  ASSUME IInv, NEW p \in Procs, InHandler(p), NEW r \in Status, Return(p, r),
         QueueInv', FirstKept, SlotsKept, UNCHANGED memVars
  PROVE  IInv'
<1>1. /\ runnable # <<>> /\ Head(runnable) = p
      /\ current_proc = p /\ p # NULL /\ in_kernel = 1
      /\ pc[p] = "handler" /\ ~halted /\ state[p] # "UNUSED"
  BY HandlerFacts
<1>2. /\ pc' = [pc EXCEPT ![p] = "leave"] /\ ret' = r
      /\ UNCHANGED <<kstack, regs, current_proc, in_kernel, halted>>
  BY DEF Return, cpuVars
<1>3. /\ pc' \in [Procs -> Place]
      /\ \A q \in Procs : pc'[q] = IF q = p THEN "leave" ELSE pc[q]
  BY <1>2, SMTT(60) DEF IInv, TypeOK, Place
<1>4. TypeOK'
  BY <1>2, <1>3 DEF IInv, TypeOK, QueueInv, memVars
<1>5. CurrentIsFirst' /\ StartHasProcess'
  BY <1>1, <1>2 DEF CurrentIsFirst, FirstKept, StartHasProcess
<1>6. KernelEntriesBalanced'
  BY <1>1, <1>2, <1>3 DEF KernelEntriesBalanced
<1>7. OneProcessRuns'
  BY <1>1, <1>2, <1>3 DEF IInv, OneProcessRuns, SlotsKept
<1>8. BlocksAccounted'
  BY BlocksKept DEF IInv
<1> QED BY <1>4, <1>5, <1>6, <1>7, <1>8 DEF IInv, QueueInv

(***************************************************************************)
(* proc_switch_to() from p, which is off the run queue, to the first       *)
(* process n: n leaves the switcher with in_kernel back at 0.              *)
(***************************************************************************)
LEMMA Switched ==
  ASSUME TypeOK, OneProcessRuns, BlocksAccounted, QueueInv', SlotsKept,
         NEW p \in Procs \cup {NULL}, current_proc = p,
         p \in Procs => state[p] # "UNUSED",
         NEW n \in Procs, n # p, state[n] # "UNUSED",
         runnable' # <<>>, Head(runnable') = n,
         proc_switch_to(p, n, 1), ret' \in Status, UNCHANGED memVars
  PROVE  IInv'
<1>0. NULL \notin Procs
  BY SchedAssumption, SMTT(60)
<1>1. /\ pc' = [q \in Procs |->
                   IF q = n THEN SwappedIn(n) ELSE IF q = p THEN "out" ELSE pc[q]]
      /\ kstack' = [q \in Procs |-> IF q \in {p, n} THEN "boot" ELSE kstack[q]]
      /\ regs' = IF p = NULL /\ kstack[n] = NULL THEN regs ELSE kzp
      /\ current_proc' = n /\ UNCHANGED halted
  BY DEF proc_switch_to
<1>2. in_kernel' = 0
  BY DEF proc_switch_to
<1>3. pc[n] \in {"new", "out"} /\ SwappedIn(n) \in {"user", "back"}
  BY DEF OneProcessRuns, SwappedIn
<1>4. pc' \in [Procs -> Place]
  BY <1>1, <1>3, SMTT(60) DEF TypeOK, Place
<1>5. kstack' \in [Procs -> {NULL, "boot"}] /\ regs' \in Procs \cup {kzp}
  BY <1>1, SMTT(60) DEF TypeOK
<1>6. TypeOK'
  BY <1>1, <1>2, <1>4, <1>5, SMTT(60) DEF TypeOK, QueueInv, memVars
<1>7. CurrentIsFirst' /\ StartHasProcess'
  BY <1>1, ZenonT(60) DEF CurrentIsFirst, StartHasProcess
<1>8. KernelEntriesBalanced'
  BY <1>1, <1>2, <1>3 DEF KernelEntriesBalanced
<1>9. OneProcessRuns'
  <2> SUFFICES ASSUME NEW q \in Procs
               PROVE  CASE state'[q] = "UNUSED" -> pc'[q] = "none"
                        [] state'[q] # "UNUSED" /\ q = n ->
                             pc'[q] \in {"user", "handler", "leave", "back"}
                        [] OTHER -> pc'[q] \in {"new", "out"}
    BY <1>1 DEF OneProcessRuns
  <2>1. state'[q] = "UNUSED" <=> state[q] = "UNUSED"
    BY DEF SlotsKept
  <2>2. CASE q = n
    BY <1>1, <1>3, <2>1, <2>2
  <2>3. CASE q # n /\ q = p
    BY <1>1, <2>1, <2>3
  <2>4. CASE q # n /\ q # p
    BY <1>1, <2>1, <2>4 DEF OneProcessRuns
  <2> QED BY <2>2, <2>3, <2>4
<1> QED BY <1>6, <1>7, <1>8, <1>9, BlocksKept DEF IInv, QueueInv

(***************************************************************************)
(* sem_wait() keeps the invariant: the caller takes the semaphore, or it   *)
(* blocks and the next process is switched to, or none is left.            *)
(***************************************************************************)
LEMMA WaitStep ==
  ASSUME IInv, NEW p \in Procs, NEW s \in Sems, sem_wait(p, s)
  PROVE  IInv'
<1>0. InHandler(p) /\ UNCHANGED memVars /\ QueueInv /\ "ok" \in Status
  BY InvQueues DEF sem_wait, Status
<1>1. /\ runnable # <<>> /\ Head(runnable) = p
      /\ current_proc = p /\ p # NULL /\ in_kernel = 1
      /\ pc[p] = "handler" /\ ~halted /\ state[p] # "UNUSED"
  BY <1>0, HandlerFacts
<1>2. CASE SemWaitTakes(p, s)
  <2>1. value[s] \in 0..(SEM_MOD - 1) /\ value[s] > 0 /\ SEM_MOD \in Nat
    BY <1>0, <1>2, SchedAssumption DEF SemWaitTakes, QueueInv
  <2>2. PICK v \in 0..(SEM_MOD - 1) : v = value[s] - 1
    BY <2>1
  <2>3. waiters[s] = <<>>
    BY <1>0, <2>1 DEF QueueInv, NobodyWaitsForAFreeSem
  <2>4. /\ value' = [value EXCEPT ![s] = v]
        /\ UNCHANGED <<waiters, wait_sem, procVars>>
    BY <1>2, <2>2 DEF SemWaitTakes
  <2>5. QueueInv' /\ FirstKept /\ SlotsKept
    BY <1>0, <2>3, <2>4, ValueChange, Zenon
  <2> QED BY <1>0, <1>2, <2>5, Returned DEF SemWaitTakes
<1>3. CASE SemWaitBlocks(p, s)
  <2>1. /\ QueueInv' /\ SlotsKept
        /\ state[p] = "RUNNING" /\ runnable' = Tail(runnable)
    BY <1>0, <1>1, <1>3, Blocked
  <2>2. schedule(p, runnable', 1) /\ UNCHANGED ret
    BY <1>1, <1>3 DEF SemWaitBlocks
  <2>3. CASE runnable' = <<>>
    <3>1. halted' = TRUE /\ in_kernel' = 1
          /\ UNCHANGED <<pc, kstack, regs, current_proc>>
      BY <2>2, <2>3 DEF schedule, cpuVars
    <3>2. halted' \in BOOLEAN
      BY <3>1, SMTT(60)
    <3>3. TypeOK'
      BY <1>0, <2>1, <2>2, <3>1, <3>2, SMTT(60) DEF IInv, TypeOK, QueueInv, memVars
    <3>4. CurrentIsFirst' /\ KernelEntriesBalanced' /\ StartHasProcess'
      BY <1>1, <3>1 DEF CurrentIsFirst, KernelEntriesBalanced, StartHasProcess
    <3>5. OneProcessRuns'
      BY <2>1, <3>1, SMTT(60) DEF IInv, OneProcessRuns, SlotsKept
    <3> QED BY <1>0, <2>1, <3>3, <3>4, <3>5, BlocksKept DEF IInv, QueueInv
  <2>4. CASE runnable' # <<>>
    <3> DEFINE n == Head(runnable')
    <3>1. runnable \in Seq(Procs) /\ NoDuplicates(runnable)
      BY <1>0 DEF QueueInv, QueueConsistency
    <3>2. /\ Tail(runnable) \in Seq(Procs)
          /\ Range(Tail(runnable)) = Range(runnable) \ {p}
      BY <1>1, <3>1, TailQueue
    <3>3. n \in Procs /\ n \in Range(runnable) /\ n # p
      <4>1. n \in Procs /\ n \in Range(Tail(runnable))
        BY <2>1, <2>4, <3>2, TailQueue, ZenonT(60)
      <4> QED BY <3>2, <4>1
    <3>4. state[n] = "RUNNING"
      BY <1>0, <3>3 DEF QueueInv, QueueConsistency
    <3>5. proc_switch_to(p, n, 1)
      BY <2>2, <2>4, SMTT(60) DEF schedule
    <3>6. ret' \in Status /\ TypeOK /\ OneProcessRuns /\ BlocksAccounted
      BY <2>2 DEF IInv, TypeOK
    <3>7. PICK k \in Procs : k = n
      BY <3>3
    <3>8. /\ k # p /\ state[k] # "UNUSED" /\ Head(runnable') = k
          /\ proc_switch_to(p, k, 1)
      BY <3>3, <3>4, <3>5, <3>7
    <3>9. p \in Procs \cup {NULL} /\ current_proc = p /\ state[p] # "UNUSED"
      BY <1>1
    <3> QED BY <1>0, <2>1, <2>4, <3>6, <3>8, <3>9, Switched, ZenonT(60)
  <2> QED BY <2>3, <2>4, SMTT(60)
<1> QED BY <1>2, <1>3 DEF sem_wait

(***************************************************************************)
(* sem_signal() and sem_signal_monitor() keep the invariant.               *)
(***************************************************************************)
LEMMA SignalStep ==
  ASSUME IInv, NEW p \in Procs, NEW s \in Sems,
         sem_signal(p, s) \/ sem_signal_monitor(p, s)
  PROVE  IInv'
<1>1. /\ InHandler(p) /\ Return(p, "ok") /\ UNCHANGED memVars
      /\ QueueInv /\ "ok" \in Status
  BY InvQueues DEF sem_signal, sem_signal_monitor, Status
<1>2. QueueInv' /\ FirstKept /\ SlotsKept
  <2>1. CASE value[s] = 0
    BY <1>1, <2>1, Wakeup DEF sem_signal, sem_signal_monitor
  <2>2. CASE value[s] # 0 /\ sem_signal(p, s)
    <3>1. waiters[s] = <<>>
      BY <1>1, <2>2 DEF QueueInv, NobodyWaitsForAFreeSem
    <3>2. value[s] \in 0..(SEM_MOD - 1) /\ SEM_MOD \in Nat /\ SEM_MOD > 1
      BY <1>1, SchedAssumption DEF QueueInv
    <3>3. PICK v \in 0..(SEM_MOD - 1) : v = (value[s] + 1) % SEM_MOD
      BY <3>2
    <3>4. /\ value' = [value EXCEPT ![s] = v]
          /\ UNCHANGED <<waiters, wait_sem, procVars>>
      BY <2>2, <3>3 DEF sem_signal
    <3> QED BY <1>1, <3>1, <3>4, ValueChange, ZenonT(60)
  <2>3. CASE value[s] # 0 /\ sem_signal_monitor(p, s)
    BY <1>1, <2>3, QueuesUnchanged, SMTT(60) DEF sem_signal_monitor
  <2> QED BY <2>1, <2>2, <2>3
<1> QED BY <1>1, <1>2, Returned

(***************************************************************************)
(* What proc_create() leaves allocated: two new blocks if it succeeds, and *)
(* what was there before if it does not.                                   *)
(***************************************************************************)
LEMMA CreateResult ==
  ASSUME NEW argsValid \in BOOLEAN, NEW made \in proc_create(argsValid)
  PROVE  \/ made.status \in {"EINVAL", "ENOMEM"} /\ made.used = blocks
         \/ /\ made.status = "ok" /\ Unused # {}
            /\ made.argv \in Blocks \ blocks
            /\ made.p \in Blocks \ (blocks \cup {made.argv})
            /\ made.used = (blocks \cup {made.argv}) \cup {made.p}
<1>1. \A used : \A x \in kmalloc_user_alloc(used) : x # NULL => x \in Blocks \ used
  BY DEF kmalloc_user_alloc
<1>2. CASE \E error \in {"EINVAL", "ENOMEM"} : made = CreateFails(error, blocks)
  BY <1>2 DEF CreateFails
<1>3. ASSUME NEW a \in Blocks \ blocks, made \in CreateProcess(a, blocks \cup {a})
      PROVE  \/ made = CreateFails("ENOMEM", blocks)
             \/ /\ Unused # {}
                /\ \E b \in Blocks \ (blocks \cup {a}) :
                     made = [status |-> "ok", used |-> (blocks \cup {a}) \cup {b},
                             argv |-> a, p |-> b]
  <2>1. kmalloc_user_free(blocks \cup {a}, a) = blocks
    BY DEF kmalloc_user_free
  <2>2. CASE Unused = {}
    BY <1>3, <2>1, <2>2 DEF CreateProcess
  <2>3. CASE Unused # {}
    <3>1. PICK b \in kmalloc_user_alloc(blocks \cup {a}) :
            made = IF b = NULL THEN CreateFails("ENOMEM", kmalloc_user_free(blocks \cup {a}, a))
                   ELSE [status |-> "ok", used |-> (blocks \cup {a}) \cup {b},
                         argv |-> a, p |-> b]
      BY <1>3, <2>3 DEF CreateProcess
    <3> QED BY <1>1, <2>1, <2>3, <3>1, Zenon
  <2> QED BY <2>2, <2>3
<1>4. ASSUME NEW a \in Blocks \ blocks, made \in CreateProcess(a, blocks \cup {a}),
             made # CreateFails("ENOMEM", blocks)
      PROVE  /\ made.status = "ok" /\ Unused # {}
             /\ made.argv \in Blocks \ blocks
             /\ made.p \in Blocks \ (blocks \cup {made.argv})
             /\ made.used = (blocks \cup {made.argv}) \cup {made.p}
  BY <1>3, <1>4
<1>5. \/ \E error \in {"EINVAL", "ENOMEM"} : made = CreateFails(error, blocks)
      \/ \E a \in Blocks \ blocks : made \in CreateProcess(a, blocks \cup {a})
  BY <1>1 DEF proc_create
<1> QED BY <1>2, <1>4, <1>5, ZenonT(60)

(***************************************************************************)
(* proc_create_internal() keeps the invariant: the new process is launched *)
(* in a slot nobody used, or nothing but the result changes.               *)
(***************************************************************************)
LEMMA CreateStep ==
  ASSUME IInv, NEW p \in Procs, NEW argsValid \in BOOLEAN,
         proc_create_internal(p, argsValid)
  PROVE  IInv'
<1> DEFINE c == FirstUnused
<1>0. /\ InHandler(p) /\ QueueInv /\ UNCHANGED semVars
      /\ UNCHANGED <<kstack, regs, current_proc, in_kernel, halted>>
  BY InvQueues, SMTT(60) DEF proc_create_internal, cpuVars
<1>1. /\ runnable # <<>> /\ Head(runnable) = p
      /\ current_proc = p /\ p # NULL /\ in_kernel = 1
      /\ pc[p] = "handler" /\ ~halted /\ state[p] # "UNUSED"
  BY <1>0, HandlerFacts
<1>2. PICK made \in proc_create(argsValid) : CreateReturns(p, made)
  BY SMTT(60) DEF proc_create_internal
<1>3. /\ blocks' = made.used
      /\ \/ /\ made.status \in {"EINVAL", "ENOMEM"} /\ made.used = blocks
        \/ /\ made.status = "ok" /\ Unused # {}
           /\ made.argv \in Blocks \ blocks
           /\ made.p \in Blocks \ (blocks \cup {made.argv})
           /\ made.used = (blocks \cup {made.argv}) \cup {made.p}
  BY <1>2, CreateResult DEF CreateReturns
<1>4. CASE made.status = "ok"
  <2>1. /\ sched_set_runnable(c) /\ AX' = [AX EXCEPT ![c] = "argc"]
        /\ pc' = [pc EXCEPT ![p] = "leave", ![c] = "new"] /\ ret' = "pid"
        /\ process_table' = [process_table EXCEPT ![c] = made.p]
        /\ argv' = [argv EXCEPT ![c] = made.argv]
    BY <1>2, <1>4, SMTT(60) DEF CreateReturns
  <2>2. c \in Procs /\ state[c] = "UNUSED" /\ c \in Unused
    <3>1. c \in Unused
      BY <1>3, <1>4, FirstUnusedExists
    <3> QED BY <3>1 DEF IInv, BlocksAccounted, Launched
  <2>3. /\ QueueInv' /\ FirstKept
        /\ \A q \in Procs : state'[q] = IF q = c THEN "RUNNING" ELSE state[q]
    BY <1>0, <2>1, <2>2, Created, ZenonT(60)
  <2>4. c # p
    BY <1>1, <2>2
  <2>5. /\ pc' \in [Procs -> Place] /\ ret' \in Status
        /\ \A q \in Procs : pc'[q] = IF q = c THEN "new"
                                      ELSE IF q = p THEN "leave" ELSE pc[q]
    <3>1. pc \in [Procs -> Place] /\ "leave" \in Place /\ "new" \in Place
      BY DEF IInv, TypeOK, Place
    <3>2. ret' \in Status
      BY <2>1 DEF Status
    <3>3. PICK k \in Procs : k = c
      BY <2>2
    <3>4. pc' = [[pc EXCEPT ![p] = "leave"] EXCEPT ![k] = "new"]
      BY <2>1, <3>3
    <3>5. /\ pc' \in [Procs -> Place]
          /\ \A q \in Procs : pc'[q] = IF q = k THEN "new"
                                        ELSE IF q = p THEN "leave" ELSE pc[q]
      BY <3>1, <3>4, SMTT(60)
    <3> QED BY <3>2, <3>3, <3>5, SMTT(60)
  <2>6. /\ process_table \in [Procs -> Blocks \cup {NULL}]
         /\ argv \in [Procs -> Blocks \cup {NULL}]
         /\ blocks \subseteq Blocks /\ BlocksAccounted
    BY SMTT(60) DEF IInv, TypeOK
  <2>7. /\ process_table' \in [Procs -> Blocks \cup {NULL}]
         /\ argv' \in [Procs -> Blocks \cup {NULL}]
         /\ blocks' \subseteq Blocks
    BY <1>3, <1>4, <2>1, <2>2, <2>6
  <2>8. BlocksAccounted'
    <3>1. PICK a \in Blocks \ blocks : a = made.argv
      BY <1>3, <1>4, SMTT(60)
    <3>2. PICK b \in Blocks \ (blocks \cup {a}) : b = made.p
      BY <1>3, <1>4, <3>1
    <3>3. PICK k \in Unused : k = c
      BY <2>2, SMTT(60)
    <3>4. /\ blocks' = (blocks \cup {a}) \cup {b}
          /\ process_table' = [process_table EXCEPT ![k] = b]
          /\ argv' = [argv EXCEPT ![k] = a]
      BY <1>3, <1>4, <2>1, <3>1, <3>2, <3>3, SMTT(60)
    <3>5. \A q \in Procs : state'[q] = IF q = k THEN "RUNNING" ELSE state[q]
      BY <2>3, <3>3
    <3> QED BY <2>6, <3>4, <3>5, BlocksTaken, ZenonT(60)
  <2>9. TypeOK'
    <3>1. /\ kstack' \in [Procs -> {NULL, "boot"}] /\ regs' \in Procs \cup {kzp}
          /\ current_proc' \in Procs \cup {NULL} /\ in_kernel' \in 0..255
          /\ halted' \in BOOLEAN
      <4>1. /\ kstack' = kstack /\ regs' = regs /\ current_proc' = current_proc
            /\ in_kernel' = in_kernel /\ halted' = halted
        BY <1>0
      <4>2. TypeOK
        BY DEF IInv
      <4> QED BY <4>1, <4>2, Zenon DEF TypeOK
    <3>2. /\ state' \in [Procs -> ProcState] /\ runnable' \in Seq(Procs)
          /\ value' \in [Sems -> 0..(SEM_MOD - 1)] /\ waiters' \in [Sems -> Seq(Procs)]
          /\ wait_sem' \in [Procs -> Sems \cup {NULL}] /\ AX' \in [Procs -> Status]
      BY <2>3, ZenonT(60) DEF QueueInv
    <3> QED BY <2>5, <2>7, <3>1, <3>2, Zenon DEF TypeOK
  <2>10. CurrentIsFirst' /\ StartHasProcess'
    BY <1>0, <1>1, <2>3, SMTT(60) DEF CurrentIsFirst, FirstKept, StartHasProcess
  <2>11. KernelEntriesBalanced'
    BY <1>0, <1>1, <2>4, <2>5 DEF KernelEntriesBalanced
  <2>12. OneProcessRuns'
    BY <1>0, <1>1, <2>2, <2>3, <2>4, <2>5, SMTT(60) DEF IInv, OneProcessRuns
  <2> QED BY <2>3, <2>9, <2>10, <2>11, <2>12, <2>8, SMTT(60) DEF IInv, QueueInv
<1>5. CASE made.status # "ok"
  <2>1. /\ pc' = [pc EXCEPT ![p] = "leave"] /\ ret' = made.status
        /\ UNCHANGED procVars /\ UNCHANGED <<process_table, argv>>
    BY <1>2, <1>5 DEF CreateReturns
  <2>2. made.status \in Status
    BY <1>3, <1>5, SMTT(60) DEF Status
  <2>3. UNCHANGED memVars
    BY <1>3, <1>5, <2>1 DEF memVars
  <2>4. QueueInv' /\ FirstKept /\ SlotsKept
    BY <1>0, <2>1, QueuesUnchanged
  <2>5. Return(p, made.status)
    BY <1>0, <2>1 DEF Return, cpuVars
  <2> QED BY <1>0, <2>2, <2>3, <2>4, <2>5, Returned, SMTT(60)
<1> QED BY <1>4, <1>5

(***************************************************************************)
(* Entering and leaving the kernel, and coming back from a switch, keep    *)
(* the invariant: only pc, in_kernel, ret and the registers change.        *)
(***************************************************************************)
LEMMA KernelEntryStep ==
  ASSUME IInv, NEW p \in Procs,
         SyscallEnter(p) \/ SyscallLeave(p) \/ SwapInReturn(p)
  PROVE  IInv'
<1>0. p # NULL /\ QueueInv
  BY SchedAssumption, InvQueues
<1>1. /\ UNCHANGED procVars /\ UNCHANGED semVars
      /\ UNCHANGED <<kstack, current_proc, memVars, halted>> /\ current_proc = p
  BY DEF SyscallEnter, SyscallLeave, SwapInReturn, cpuVars
<1>2. QueueInv' /\ FirstKept /\ SlotsKept
  BY <1>0, <1>1, QueuesUnchanged
<1>3. PICK to \in {"handler", "leave", "user"} :
         /\ pc' = [pc EXCEPT ![p] = to]
         /\ in_kernel' = IF to = "user" THEN 0 ELSE 1
  <2>1. in_kernel = IF pc[p] \in {"handler", "leave"} THEN 1 ELSE 0
    BY <1>0, <1>1 DEF IInv, KernelEntriesBalanced
  <2>2. CASE SyscallEnter(p)
    <3>1. in_kernel = 0
      BY <2>1, <2>2 DEF SyscallEnter
    <3> QED BY <2>2, <3>1 DEF SyscallEnter
  <2>3. CASE SyscallLeave(p)
    <3>1. in_kernel = 1
      BY <2>1, <2>3 DEF SyscallLeave
    <3> QED BY <2>3, <3>1 DEF SyscallLeave
  <2>4. CASE SwapInReturn(p)
    <3>1. in_kernel = 0
      BY <2>1, <2>4 DEF SwapInReturn
    <3> QED BY <2>4, <3>1 DEF SwapInReturn
  <2> QED BY <2>2, <2>3, <2>4
<1>4. /\ pc' \in [Procs -> Place]
      /\ \A q \in Procs : pc'[q] = IF q = p THEN to ELSE pc[q]
  BY <1>3 DEF IInv, TypeOK, Place
<1>5. ret' \in Status /\ regs' \in Procs \cup {kzp}
  BY SMTT(60), SMTT(60) DEF SyscallEnter, SyscallLeave, SwapInReturn, ScheduleResult, Status,
         cpuVars, IInv, TypeOK
<1>6. TypeOK'
  <2>1. in_kernel' \in 0..255
    BY <1>3
  <2> QED BY <1>1, <1>2, <1>4, <1>5, <2>1, SMTT(60) DEF IInv, TypeOK, QueueInv, memVars
<1>7. state[p] # "UNUSED"
  BY <1>1 DEF IInv, OneProcessRuns, SyscallEnter, SyscallLeave, SwapInReturn
<1>8. CurrentIsFirst' /\ StartHasProcess'
  BY <1>0, <1>1, <1>2 DEF IInv, CurrentIsFirst, FirstKept, StartHasProcess
<1>9. KernelEntriesBalanced'
  BY <1>0, <1>1, <1>3, <1>4 DEF KernelEntriesBalanced
<1>10. OneProcessRuns'
  BY <1>1, <1>2, <1>4, <1>7, SMTT(60) DEF IInv, OneProcessRuns, SlotsKept
<1>11. BlocksAccounted'
  BY <1>1, <1>2, BlocksKept DEF IInv
<1> QED BY <1>2, <1>6, <1>8, <1>9, <1>10, <1>11 DEF IInv, QueueInv

(***************************************************************************)
(* sched_start() keeps the invariant: the first process is launched.       *)
(***************************************************************************)
LEMMA StartStep ==
  ASSUME IInv, sched_start
  PROVE  IInv'
<1> DEFINE n == Head(runnable)
<1>0. QueueInv /\ NULL \notin Procs
  BY InvQueues, SchedAssumption
<1>1. /\ current_proc = NULL /\ runnable # <<>> /\ in_kernel = 0
      /\ UNCHANGED procVars /\ UNCHANGED semVars /\ UNCHANGED <<ret, memVars>>
  BY DEF sched_start, IInv, StartHasProcess, KernelEntriesBalanced
<1>2. QueueInv' /\ SlotsKept
  BY <1>0, <1>1, QueuesUnchanged
<1>3. n \in Procs /\ n \in Range(runnable)
  BY <1>0, <1>1, TailQueue DEF QueueInv
<1>4. state[n] = "RUNNING"
  BY <1>0, <1>3 DEF QueueInv, QueueConsistency
<1>5. proc_switch_to(NULL, n, 1)
  BY <1>1 DEF sched_start, schedule
<1>6. runnable' # <<>> /\ Head(runnable') = n
  BY <1>1 DEF procVars
<1>7. ret' \in Status /\ TypeOK /\ OneProcessRuns /\ BlocksAccounted
  BY <1>1 DEF IInv, TypeOK
<1> QED BY <1>0, <1>1, <1>2, <1>3, <1>4, <1>5, <1>6, <1>7, Switched, SMTT(60)

(***************************************************************************)
(* sys_exit() stops the machine and leaves everything else.                *)
(***************************************************************************)
LEMMA ExitStep ==
  ASSUME IInv, NEW p \in Procs, sys_exit(p)
  PROVE  IInv'
<1>1. /\ UNCHANGED procVars /\ UNCHANGED semVars /\ halted' = TRUE
      /\ UNCHANGED <<kstack, regs, current_proc, in_kernel, pc, ret, memVars>>
  BY DEF sys_exit, cpuVars
<1>2. QueueInv' /\ SlotsKept
  BY <1>1, InvQueues, QueuesUnchanged
<1>3. halted' \in BOOLEAN
  BY <1>1, ZenonT(60)
<1>4. TypeOK'
  BY <1>1, <1>2, <1>3 DEF IInv, TypeOK, QueueInv, memVars
<1>5. CurrentIsFirst' /\ KernelEntriesBalanced' /\ StartHasProcess'
  BY <1>1 DEF IInv, CurrentIsFirst, KernelEntriesBalanced, StartHasProcess,
              procVars
<1>6. OneProcessRuns'
  BY <1>1, <1>2 DEF IInv, OneProcessRuns, SlotsKept
<1>7. BlocksAccounted'
  BY <1>1, <1>2, BlocksKept DEF IInv
<1> QED BY <1>2, <1>4, <1>5, <1>6, <1>7 DEF IInv, QueueInv

(***************************************************************************)
(* Every step of the kernel keeps the invariant.                           *)
(***************************************************************************)
LEMMA NextIInv == IInv /\ [Next]_vars => IInv'
<1> SUFFICES ASSUME IInv, [Next]_vars PROVE IInv'
  OBVIOUS
<1>1. CASE UNCHANGED vars
  BY <1>1 DEF vars, IInv, TypeOK, QueueConsistency, NobodyWaitsForAFreeSem,
              CurrentIsFirst, KernelEntriesBalanced, OneProcessRuns,
              StartHasProcess, NoDuplicates, Range, BlocksAccounted, Launched,
              Unused
<1>2. CASE sched_start
  BY <1>2, StartStep
<1>3. ASSUME NEW p \in Procs, SyscallEnter(p) \/ SyscallLeave(p) \/ SwapInReturn(p)
      PROVE  IInv'
  BY <1>3, KernelEntryStep
<1>4. ASSUME NEW p \in Procs, NEW s \in Sems, sem_wait(p, s)
      PROVE  IInv'
  BY <1>4, WaitStep
<1>5. ASSUME NEW p \in Procs, NEW s \in Sems,
             sem_signal(p, s) \/ sem_signal_monitor(p, s)
      PROVE  IInv'
  BY <1>5, SignalStep
<1>6. ASSUME NEW p \in Procs, NEW s \in Sems, sem_interrupt(p, s)
      PROVE  IInv'
  <2>1. QueueInv' /\ FirstKept /\ SlotsKept
    BY <1>6, InvQueues, Interrupted, SMTT(60)
  <2>2. InHandler(p) /\ Return(p, "ok") /\ UNCHANGED memVars /\ "ok" \in Status
    BY <1>6 DEF sem_interrupt, Status
  <2> QED BY <2>1, <2>2, Returned
<1>7. ASSUME NEW p \in Procs, NEW argsValid \in BOOLEAN,
             proc_create_internal(p, argsValid)
      PROVE  IInv'
  BY <1>7, CreateStep
<1>8. ASSUME NEW p \in Procs, sys_sched_yield(p)
      PROVE  IInv'
  <2>1. /\ InHandler(p) /\ Return(p, "ok") /\ UNCHANGED memVars /\ "ok" \in Status
        /\ UNCHANGED procVars /\ UNCHANGED semVars
    BY <1>8 DEF sys_sched_yield, Status
  <2>2. QueueInv' /\ FirstKept /\ SlotsKept
    BY <2>1, InvQueues, QueuesUnchanged
  <2> QED BY <2>1, <2>2, Returned
<1>9. ASSUME NEW p \in Procs, sys_exit(p)
      PROVE  IInv'
  BY <1>9, ExitStep
<1> QED
  BY <1>1, <1>2, <1>3, <1>4, <1>5, <1>6, <1>7, <1>8, <1>9, SMTT(60)
     DEF Next, Handler, Calls, Stopped

(***************************************************************************)
(* The inductive invariant holds in every reachable state.                 *)
(***************************************************************************)
LEMMA SpecIInv == Spec => []IInv
BY InitIInv, NextIInv, PTL DEF Spec

(***************************************************************************)
(* Type correctness of the scheduler, for any number of process slots,     *)
(* any semaphores and any width of sem_value_t.                            *)
(***************************************************************************)
THEOREM SchedTypes == Spec => []TypeOK
<1>1. IInv => TypeOK
  BY DEF IInv
<1> QED BY <1>1, SpecIInv, PTL

(***************************************************************************)
(* Every process is on exactly the queue its state says, once: the shared  *)
(* queue links of a process block are never linked into two queues.        *)
(***************************************************************************)
THEOREM QueuesConsistent == Spec => []QueueConsistency
<1>1. IInv => QueueConsistency
  BY DEF IInv
<1> QED BY <1>1, SpecIInv, PTL

(***************************************************************************)
(* No wakeup is lost by sem_signal(), sem_signal_monitor() or sem_wait().  *)
(***************************************************************************)
THEOREM NoLostWakeup == Spec => []NobodyWaitsForAFreeSem
<1>1. IInv => NobodyWaitsForAFreeSem
  BY DEF IInv
<1> QED BY <1>1, SpecIInv, PTL

(***************************************************************************)
(* The current process heads the run queue while the machine runs.         *)
(***************************************************************************)
THEOREM CurrentHeadsQueue == Spec => []CurrentIsFirst
<1>1. IInv => CurrentIsFirst
  BY DEF IInv
<1> QED BY <1>1, SpecIInv, PTL

(***************************************************************************)
(* Entries to and exits from the kernel balance across every switch.       *)
(***************************************************************************)
THEOREM KernelBalanced == Spec => []KernelEntriesBalanced
<1>1. IInv => KernelEntriesBalanced
  BY DEF IInv
<1> QED BY <1>1, SpecIInv, PTL

(***************************************************************************)
(* Only the current process is at a place where it executes; all others    *)
(* are unused, not launched yet or inside proc_switch_to().                *)
(***************************************************************************)
THEOREM OnlyCurrentRuns == Spec => []OneProcessRuns
<1>1. IInv => OneProcessRuns
  BY DEF IInv
<1> QED BY <1>1, SpecIInv, PTL

(***************************************************************************)
(* The blocks in use are those of the processes and of their arguments, no *)
(* block serves for two, and a slot is taken exactly by a process that was *)
(* launched: no failure of proc_create() leaks or loses a block, for any   *)
(* number of slots and blocks.                                             *)
(***************************************************************************)
THEOREM ProcessMemory == Spec => []BlocksAccounted
<1>1. IInv => BlocksAccounted
  BY DEF IInv
<1> QED BY <1>1, SpecIInv, PTL
=============================================================================
