---------------------------- MODULE SerialProofs ----------------------------
(***************************************************************************)
(* Proofs about Serial, for any size of the ring and any water marks that  *)
(* leave room for the bytes under way: the ring never overruns, a stopped  *)
(* sender can be released, and the ring implements a first-in first-out    *)
(* queue.                                                                  *)
(***************************************************************************)
EXTENDS Serial, SequenceTheorems, TLAPS

(***************************************************************************)
(* The inductive invariant.  Beyond what TLC checks it says where the      *)
(* reader is: what X holds, and that the level it compared with the low    *)
(* mark is stale by the bytes of the burst at most.                        *)
(***************************************************************************)
ReaderInv ==
  /\ pc = "take" => X = rx_out /\ rx_in # rx_out
  /\ Pending => rx_out = Inc(X)
  /\ pc = "store" => Sub(rx_in, rx_out) < RX_LOW + burst

IInv == TypeOK /\ NoOverrun /\ StoppedOnlyAboveLow /\ ReaderInv

(***************************************************************************)
(* Arithmetic of the indices: advancing rx_in adds one to the level unless *)
(* the ring is full, advancing rx_out takes one away unless it is empty.   *)
(***************************************************************************)
LEMMA IndexArithmetic ==
  ASSUME NEW i \in Index, NEW o \in Index
  PROVE  /\ Inc(i) \in Index
         /\ Sub(i, o) \in Index
         /\ Sub(i, o) = 0 <=> i = o
         /\ Sub(i, o) < N - 1 => Sub(Inc(i), o) = Sub(i, o) + 1
         /\ i # o => Sub(i, Inc(o)) = Sub(i, o) - 1
BY SerialAssumption DEF Index, Inc, Sub

(***************************************************************************)
(* The initial state satisfies the invariant.                              *)
(***************************************************************************)
LEMMA InitIInv == Init => IInv
<1> SUFFICES ASSUME Init PROVE IInv
  OBVIOUS
<1>1. 0 \in Index /\ 0 \in 0..Slack /\ 0 \in 0..Burst
  BY SerialAssumption DEF Index
<1>2. receive \in BOOLEAN /\ waits \in BOOLEAN
  BY Zenon DEF Init
<1>3. TypeOK
  BY <1>1, <1>2 DEF Init, TypeOK
<1>4. Sub(rx_in, rx_out) = 0
  BY DEF Init, Sub
<1>5. NoOverrun /\ StoppedOnlyAboveLow
  BY <1>4, SerialAssumption DEF Init, NoOverrun, StoppedOnlyAboveLow
<1>6. ReaderInv
  BY DEF Init, ReaderInv, Pending
<1> QED BY <1>3, <1>5, <1>6 DEF IInv

(***************************************************************************)
(* An interrupt keeps the invariant, and finds a free slot.                *)
(***************************************************************************)
LEMMA IsrStep ==
  ASSUME IInv, NEW b \in Bytes, serial_isr(b)
  PROVE  /\ IInv'
         /\ Sub(rx_in, rx_out) < N - 1
         /\ Sub(rx_in', rx_out') = Sub(rx_in, rx_out) + 1
<1>0. /\ N \in Nat /\ RX_HIGH \in Nat /\ RX_LOW \in Nat /\ Slack \in Nat
      /\ Burst \in Nat /\ 0 < RX_LOW /\ RX_LOW + Burst <= RX_HIGH
      /\ RX_HIGH + Slack < N
  BY SerialAssumption
<1>1. /\ rx_in \in Index /\ rx_out \in Index /\ X \in Index
      /\ late \in 0..Slack /\ burst \in 0..Burst
      /\ receive \in BOOLEAN /\ rx_buffer \in [Index -> Bytes]
  BY DEF IInv, TypeOK
<1> DEFINE level == Sub(rx_in, rx_out)
<1>2. level \in Index
  BY <1>1, IndexArithmetic
<1>3. level < N - 1
  <2>1. receive => level < RX_HIGH
    BY DEF IInv, NoOverrun
  <2>2. ~receive => level <= RX_HIGH + late /\ late < Slack
    BY DEF IInv, NoOverrun, serial_isr, LineDelivers
  <2> QED BY <1>0, <1>1, <1>2, <2>1, <2>2 DEF Index
<1>4. Sub(Inc(rx_in), rx_out) = level + 1 /\ Inc(rx_in) \in Index
  BY <1>1, <1>3, IndexArithmetic
<1>5. /\ rx_buffer' = [rx_buffer EXCEPT ![rx_in] = b]
      /\ rx_in' = Inc(rx_in) /\ UNCHANGED <<rx_out, pc, waits, X, got>>
      /\ receive' = (receive /\ level + 1 < RX_HIGH)
      /\ late' = IF receive THEN 0 ELSE late + 1
      /\ burst' = IF pc = "store" THEN burst + 1 ELSE 0
      /\ receive \/ late < Slack
      /\ pc = "store" => burst < Burst
  BY <1>4 DEF serial_isr, LineDelivers
<1>6. /\ Sub(rx_in', rx_out') = level + 1
      /\ receive' \in BOOLEAN
      /\ receive' => receive /\ level + 1 < RX_HIGH
      /\ receive /\ level + 1 < RX_HIGH => receive'
  <2>1. receive' = (receive /\ level + 1 < RX_HIGH)
    BY <1>5
  <2>2. receive' \in BOOLEAN /\ (receive' <=> receive /\ level + 1 < RX_HIGH)
    BY <2>1, Zenon
  <2> QED BY <1>4, <1>5, <2>2
<1>7. TypeOK'
  <2>1. receive' \in BOOLEAN
    BY <1>6
  <2>2. late' \in 0..Slack /\ burst' \in 0..Burst
    BY <1>0, <1>1, <1>5
  <2>3. rx_buffer' \in [Index -> Bytes]
    BY <1>1, <1>5
  <2> QED BY <1>4, <1>5, <2>1, <2>2, <2>3 DEF IInv, TypeOK
<1>8. NoOverrun'
  <2>1. receive' => level + 1 < RX_HIGH
    BY <1>6
  <2>2. level + 1 <= RX_HIGH + late'
    <3>1. CASE receive
      <4>1. level < RX_HIGH
        BY <3>1 DEF IInv, NoOverrun
      <4> QED BY <1>0, <1>2, <1>5, <3>1, <4>1 DEF Index
    <3>2. CASE ~receive
      <4>1. level <= RX_HIGH + late
        BY DEF IInv, NoOverrun
      <4> QED BY <1>0, <1>1, <1>2, <1>5, <3>2, <4>1 DEF Index
    <3> QED BY <3>1, <3>2
  <2> QED BY <1>6, <2>1, <2>2 DEF NoOverrun
<1>9. StoppedOnlyAboveLow'
  <2>1. CASE ~receive
    BY <1>0, <1>2, <1>5, <1>6, <2>1 DEF IInv, StoppedOnlyAboveLow, Index
  <2>2. CASE receive
    BY <1>0, <1>2, <1>5, <1>6, <2>2 DEF StoppedOnlyAboveLow, Index
  <2> QED BY <2>1, <2>2
<1>10. ReaderInv'
  <2>1. pc = "take" => X = rx_out /\ Inc(rx_in) # rx_out
    BY <1>1, <1>2, <1>4, IndexArithmetic DEF IInv, ReaderInv, Index
  <2>2. pc = "store" => level + 1 < RX_LOW + burst + 1
    BY <1>0, <1>1, <1>2 DEF IInv, ReaderInv, Index
  <2> QED BY <1>0, <1>1, <1>5, <1>6, <2>1, <2>2 DEF IInv, ReaderInv, Pending
<1> QED BY <1>3, <1>6, <1>7, <1>8, <1>9, <1>10 DEF IInv

(***************************************************************************)
(* Every instruction of the reader keeps the invariant.                    *)
(***************************************************************************)
LEMMA ReaderStep ==
  ASSUME IInv, Reader
  PROVE  IInv'
<1>0. /\ N \in Nat /\ RX_HIGH \in Nat /\ RX_LOW \in Nat /\ Slack \in Nat
      /\ Burst \in Nat /\ 0 < RX_LOW /\ RX_LOW + Burst <= RX_HIGH
      /\ RX_HIGH + Slack < N
  BY SerialAssumption
<1>1. /\ rx_in \in Index /\ rx_out \in Index /\ X \in Index
      /\ late \in 0..Slack /\ burst \in 0..Burst
      /\ Sub(rx_in, rx_out) \in Index
  BY IndexArithmetic DEF IInv, TypeOK
<1>2. CASE Call
  <2>1. pc = "idle" /\ pc' = "check" /\ waits' \in BOOLEAN
        /\ UNCHANGED <<rx_buffer, rx_in, rx_out, receive, late, burst, X, got>>
    BY <1>2 DEF Call
  <2>2. TypeOK'
    BY <2>1 DEF IInv, TypeOK
  <2> QED BY <2>1, <2>2 DEF IInv, NoOverrun, StoppedOnlyAboveLow, ReaderInv, Pending
<1>3. CASE Check
  <2>1. /\ pc = "check" /\ X' = rx_out /\ pc' \in {"take", "idle", "check"}
        /\ pc' = "take" => rx_in # rx_out
        /\ got' \in Bytes \cup {NoChar}
        /\ UNCHANGED <<rx_buffer, rx_in, rx_out, receive, late, burst, waits>>
    BY <1>3 DEF Check, IInv, TypeOK
  <2>2. TypeOK'
    BY <1>1, <2>1 DEF IInv, TypeOK
  <2> QED BY <2>1, <2>2 DEF IInv, NoOverrun, StoppedOnlyAboveLow, ReaderInv, Pending
<1>4. CASE Take
  <2>1. /\ pc = "take" /\ pc' = "level" /\ rx_out' = Inc(rx_out)
        /\ UNCHANGED <<rx_buffer, rx_in, receive, late, burst, waits, X, got>>
    BY <1>4 DEF Take
  <2>2. /\ X = rx_out /\ rx_in # rx_out /\ Inc(rx_out) \in Index
        /\ Sub(rx_in, rx_out') = Sub(rx_in, rx_out) - 1
    BY <1>1, <2>1, IndexArithmetic DEF IInv, ReaderInv
  <2>3. TypeOK'
    BY <2>1, <2>2 DEF IInv, TypeOK
  <2>4. NoOverrun'
    BY <1>0, <1>1, <2>1, <2>2 DEF IInv, NoOverrun, Index
  <2>5. StoppedOnlyAboveLow' /\ ReaderInv'
    BY <2>1, <2>2 DEF StoppedOnlyAboveLow, ReaderInv, Pending
  <2> QED BY <2>3, <2>4, <2>5 DEF IInv
<1>5. CASE Level
  <2>1. /\ pc = "level" /\ burst' = 0
        /\ pc' = IF Sub(rx_in, rx_out) < RX_LOW THEN "store" ELSE "fetch"
        /\ UNCHANGED <<rx_buffer, rx_in, rx_out, receive, late, waits, X, got>>
    BY <1>5 DEF Level
  <2>2. 0 \in 0..Burst
    BY <1>0
  <2>3. TypeOK'
    BY <2>1, <2>2 DEF IInv, TypeOK
  <2>4. NoOverrun'
    BY <2>1 DEF IInv, NoOverrun
  <2>5. StoppedOnlyAboveLow'
    BY <1>0, <1>1, <2>1 DEF StoppedOnlyAboveLow, Index
  <2>6. ReaderInv'
    BY <1>0, <1>1, <2>1 DEF IInv, ReaderInv, Pending, Index
  <2> QED BY <2>3, <2>4, <2>5, <2>6 DEF IInv
<1>6. CASE Store
  <2>1. /\ pc = "store" /\ pc' = "fetch" /\ receive' = TRUE /\ late' = 0
        /\ UNCHANGED <<rx_buffer, rx_in, rx_out, burst, waits, X, got>>
    BY <1>6 DEF Store
  <2>2. 0 \in 0..Slack
    BY <1>0
  <2>3. receive' \in BOOLEAN
    BY <2>1, Zenon
  <2>4. TypeOK'
    BY <2>1, <2>2, <2>3 DEF IInv, TypeOK
  <2>5. NoOverrun'
    BY <1>0, <1>1, <2>1 DEF IInv, ReaderInv, NoOverrun, Index
  <2>6. StoppedOnlyAboveLow' /\ ReaderInv'
    BY <2>1 DEF IInv, StoppedOnlyAboveLow, ReaderInv, Pending
  <2> QED BY <2>4, <2>5, <2>6 DEF IInv
<1>7. CASE Fetch
  <2>1. /\ pc = "fetch" /\ pc' = "idle" /\ got' = rx_buffer[X]
        /\ UNCHANGED <<rx_buffer, rx_in, rx_out, receive, late, burst, waits, X>>
    BY <1>7 DEF Fetch
  <2>2. TypeOK'
    BY <1>1, <2>1 DEF IInv, TypeOK
  <2> QED BY <2>1, <2>2 DEF IInv, NoOverrun, StoppedOnlyAboveLow, ReaderInv, Pending
<1> QED BY <1>2, <1>3, <1>4, <1>5, <1>6, <1>7 DEF Reader

(***************************************************************************)
(* The inductive invariant holds in every reachable state.                 *)
(***************************************************************************)
LEMMA SpecIInv == Spec => []IInv
<1>1. IInv /\ [Next]_vars => IInv'
  <2> SUFFICES ASSUME IInv, [Next]_vars PROVE IInv'
    OBVIOUS
  <2>1. CASE UNCHANGED vars
    BY <2>1 DEF vars, IInv, TypeOK, NoOverrun, StoppedOnlyAboveLow, ReaderInv,
                Pending
  <2> QED BY <2>1, ReaderStep, IsrStep DEF Next
<1> QED BY <1>1, InitIInv, PTL DEF Spec

(***************************************************************************)
(* The ring never overruns, for any ring and any interleaving of           *)
(* interrupts with the instructions of __chrin().                          *)
(***************************************************************************)
THEOREM RingNeverOverruns == Spec => []NoOverrun
<1>1. IInv => NoOverrun
  BY DEF IInv
<1> QED BY <1>1, SpecIInv, PTL

(***************************************************************************)
(* Flow control never stops the sender below the low water mark, where no  *)
(* reader would release it.                                                *)
(***************************************************************************)
THEOREM SenderReleasable == Spec => []StoppedOnlyAboveLow
<1>1. IInv => StoppedOnlyAboveLow
  BY DEF IInv
<1> QED BY <1>1, SpecIInv, PTL

(***************************************************************************)
(* Type correctness of the serial input.                                   *)
(***************************************************************************)
THEOREM SerialTypes == Spec => []TypeOK
<1>1. IInv => TypeOK
  BY DEF IInv
<1> QED BY <1>1, SpecIInv, PTL

-----------------------------------------------------------------------------
(***************************************************************************)
(* Two sequences with the same elements at the same places are equal; here *)
(* for functions on 1..n.                                                  *)
(***************************************************************************)
LEMMA FunctionIsSeq ==
  ASSUME NEW S, NEW n \in Nat, NEW f \in [1..n -> S]
  PROVE  f \in Seq(S) /\ Len(f) = n /\ (n = 0 <=> f = <<>>)
<1>1. f \in Seq(S)
  BY SeqDef
<1>2. DOMAIN f = 1..n /\ DOMAIN f = 1..Len(f) /\ Len(f) \in Nat
  BY <1>1, LenProperties
<1>3. Len(f) = n
  BY <1>2
<1> QED BY <1>1, <1>3, EmptySeq

(***************************************************************************)
(* What Contents is: a queue of Count bytes in the slots from First on.    *)
(***************************************************************************)
QueueShape ==
  /\ Count \in 0..N /\ First \in Index
  /\ Contents \in Seq(Bytes) /\ Len(Contents) = Count
  /\ \A i \in 1..Count : /\ Slot(i) \in Index
                         /\ Contents[i] = rx_buffer[Slot(i)]
  /\ Contents = <<>> <=> Count = 0

(***************************************************************************)
(* The indices and the buffer have that shape in every state of Serial.    *)
(***************************************************************************)
LEMMA ContentsShape == IInv => QueueShape
<1> SUFFICES ASSUME IInv PROVE QueueShape
  OBVIOUS
<1>1. /\ rx_in \in Index /\ rx_out \in Index /\ X \in Index
      /\ rx_buffer \in [Index -> Bytes] /\ N \in Nat
      /\ Sub(rx_in, rx_out) \in Index
  BY SerialAssumption, IndexArithmetic DEF IInv, TypeOK
<1>2. Count \in 0..N /\ First \in Index
  BY <1>1 DEF Count, First, Index
<1>3. \A i \in 1..Count : Slot(i) \in Index
  BY <1>1, <1>2 DEF Slot, Index
<1>4. Contents \in [1..Count -> Bytes]
  BY <1>1, <1>3 DEF Contents
<1>5. Contents \in Seq(Bytes) /\ Len(Contents) = Count /\ (Count = 0 <=> Contents = <<>>)
  BY <1>1, <1>2, <1>4, FunctionIsSeq
<1>6. \A i \in 1..Count : Contents[i] = rx_buffer[Slot(i)]
  BY DEF Contents
<1> QED BY <1>2, <1>3, <1>5, <1>6 DEF QueueShape

(***************************************************************************)
(* An interrupt puts its byte at the end of the queue: the slot it writes  *)
(* is none of those in use.                                                *)
(***************************************************************************)
LEMMA IsrPuts ==
  ASSUME QueueShape, QueueShape', IInv, NEW b \in Bytes, serial_isr(b)
  PROVE  /\ Len(Contents) < N
         /\ Contents' = Append(Contents, b)
         /\ UNCHANGED got
<1>0. /\ N \in Nat /\ rx_in \in Index /\ rx_out \in Index /\ X \in Index
      /\ rx_buffer \in [Index -> Bytes]
  BY SerialAssumption DEF IInv, TypeOK
<1>1. /\ Sub(rx_in, rx_out) < N - 1
      /\ Sub(rx_in', rx_out') = Sub(rx_in, rx_out) + 1
      /\ Sub(rx_in, rx_out) \in Index
  BY <1>0, IsrStep, IndexArithmetic
<1>2. /\ rx_buffer' = [rx_buffer EXCEPT ![rx_in] = b]
      /\ UNCHANGED <<rx_out, pc, X, got>>
  BY DEF serial_isr
<1>3. Count' = Count + 1 /\ First' = First /\ Count < N
  BY <1>0, <1>1, <1>2 DEF Count, First, Pending, Index
<1>4. \A i \in 1..(Count + 1) : Slot(i)' = Slot(i)
  BY <1>3 DEF Slot
<1>5. /\ \A i \in 1..Count : Slot(i) # rx_in
      /\ Slot(Count + 1) = rx_in
  <2>1. CASE Pending
    <3>1. rx_out = Inc(X) /\ First = X /\ Count = Sub(rx_in, rx_out) + 1
      BY <2>1 DEF IInv, ReaderInv, First, Count
    <3> QED BY <1>0, <1>1, <3>1 DEF Slot, Sub, Inc, Index
  <2>2. CASE ~Pending
    <3>1. First = rx_out /\ Count = Sub(rx_in, rx_out)
      BY <1>1, <2>2 DEF First, Count, Index
    <3> QED BY <1>0, <1>1, <3>1 DEF Slot, Sub, Index
  <2> QED BY <2>1, <2>2
<1>6. \A i \in 1..(Count + 1) :
         Contents'[i] = IF i <= Count THEN Contents[i] ELSE b
  <2> SUFFICES ASSUME NEW i \in 1..(Count + 1)
               PROVE  Contents'[i] = IF i <= Count THEN Contents[i] ELSE b
    OBVIOUS
  <2>1. Contents'[i] = rx_buffer'[Slot(i)]
    BY <1>3, <1>4 DEF QueueShape
  <2>2. CASE i <= Count
    <3>1. i \in 1..Count
      BY <2>2 DEF QueueShape
    <3> QED BY <1>0, <1>2, <1>5, <2>1, <3>1 DEF QueueShape
  <2>3. CASE ~(i <= Count)
    <3>1. i = Count + 1
      BY <2>3 DEF QueueShape
    <3> QED BY <1>0, <1>2, <1>5, <2>1, <2>3, <3>1
  <2> QED BY <2>2, <2>3
<1>7. Contents' = Append(Contents, b)
  <2>1. /\ Append(Contents, b) \in Seq(Bytes)
        /\ Len(Append(Contents, b)) = Count + 1
        /\ \A i \in 1..Count : Append(Contents, b)[i] = Contents[i]
        /\ Append(Contents, b)[Count + 1] = b
    BY AppendProperties DEF QueueShape
  <2>2. /\ Contents' \in Seq(Bytes) /\ Len(Contents') = Count + 1
        /\ Count \in Nat
    BY <1>0, <1>3 DEF QueueShape
  <2>3. \A i \in 1..(Count + 1) : Contents'[i] = Append(Contents, b)[i]
    BY <1>6, <2>1, <2>2
  <2> QED BY <2>1, <2>2, <2>3, SeqEqual
<1> QED BY <1>2, <1>3, <1>7 DEF QueueShape

(***************************************************************************)
(* The load of the byte takes the first one off the queue, although rx_out *)
(* was advanced some instructions earlier.                                 *)
(***************************************************************************)
LEMMA FetchGets ==
  ASSUME QueueShape, QueueShape', IInv, Fetch
  PROVE  /\ Contents # <<>>
         /\ got' = Head(Contents)
         /\ Contents' = Tail(Contents)
<1>0. /\ N \in Nat /\ rx_in \in Index /\ rx_out \in Index /\ X \in Index
      /\ Sub(rx_in, rx_out) \in Index
  BY SerialAssumption, IndexArithmetic DEF IInv, TypeOK
<1>1. /\ pc = "fetch" /\ pc' = "idle" /\ got' = rx_buffer[X]
      /\ UNCHANGED <<rx_buffer, rx_in, rx_out, X>>
  BY DEF Fetch
<1>2. /\ Pending /\ ~Pending' /\ rx_out = Inc(X)
      /\ First = X /\ First' = rx_out
  BY <1>1 DEF Pending, First, IInv, ReaderInv
<1>3. Count = Sub(rx_in, rx_out) + 1 /\ Count' = Count - 1 /\ Count > 0
  BY <1>0, <1>1, <1>2 DEF Count, Index
<1>4. Slot(1) = X
  BY <1>0, <1>2 DEF Slot, Index
<1>5. \A i \in 1..(Count - 1) : Slot(i)' = Slot(i + 1)
  BY <1>0, <1>2, <1>3 DEF Slot, Inc, Index
<1>6. Contents # <<>> /\ Contents \in Seq(Bytes) /\ Len(Contents) = Count
  BY <1>3 DEF QueueShape
<1>7. got' = Head(Contents)
  <2>1. Contents[1] = rx_buffer[X]
    BY <1>3, <1>4 DEF QueueShape
  <2> QED BY <1>1, <1>6, <2>1
<1>8. Contents' = Tail(Contents)
  <2>1. /\ Tail(Contents) \in Seq(Bytes) /\ Len(Tail(Contents)) = Count - 1
        /\ \A i \in 1..(Count - 1) : Tail(Contents)[i] = Contents[i + 1]
    BY <1>6, HeadTailProperties
  <2>2. Contents' \in Seq(Bytes) /\ Len(Contents') = Count - 1 /\ Count \in Nat
    BY <1>0, <1>3 DEF QueueShape
  <2>3. ASSUME NEW i \in 1..(Count - 1)
        PROVE  Contents'[i] = Contents[i + 1]
    <3>1. Contents'[i] = rx_buffer[Slot(i + 1)]
      BY <1>1, <1>3, <1>5 DEF QueueShape
    <3>2. i + 1 \in 1..Count
      BY <2>2
    <3> QED BY <3>1, <3>2 DEF QueueShape
  <2> QED BY <2>1, <2>2, <2>3, SeqEqual
<1> QED BY <1>6, <1>7, <1>8

(***************************************************************************)
(* Advancing rx_out moves the first byte from the ring to the reader, and  *)
(* leaves the queue as it is.                                              *)
(***************************************************************************)
LEMMA TakeKeeps ==
  ASSUME IInv, Take
  PROVE  UNCHANGED <<Contents, got>>
<1>0. /\ N \in Nat /\ rx_in \in Index /\ rx_out \in Index /\ X \in Index
      /\ Sub(rx_in, rx_out) \in Index
  BY SerialAssumption, IndexArithmetic DEF IInv, TypeOK
<1>1. /\ pc = "take" /\ pc' = "level" /\ rx_out' = Inc(rx_out)
      /\ UNCHANGED <<rx_buffer, rx_in, X, got>>
  BY DEF Take
<1>2. X = rx_out /\ rx_in # rx_out
  BY <1>1 DEF IInv, ReaderInv
<1>3. ~Pending /\ Pending' /\ First' = First
  BY <1>1, <1>2 DEF Pending, First
<1>4. Sub(rx_in, Inc(rx_out)) = Sub(rx_in, rx_out) - 1
  BY <1>0, <1>2, IndexArithmetic
<1>5. Count' = Count
  BY <1>0, <1>1, <1>3, <1>4 DEF Count, Index
<1> QED BY <1>1, <1>3, <1>5 DEF Contents, Slot

(***************************************************************************)
(* __chrin_no_wait() reports "no character" only when the queue is empty,  *)
(* and no other instruction of the reader touches the queue.               *)
(***************************************************************************)
LEMMA OthersKeep ==
  ASSUME QueueShape, IInv, Call \/ Check \/ Level \/ Store
  PROVE  UNCHANGED <<Contents, got>> \/ Queue!GetNothing
<1>1. Pending' = Pending /\ UNCHANGED <<rx_buffer, rx_in, rx_out>>
  BY DEF Call, Check, Level, Store, Pending
<1>2. Pending => UNCHANGED X
  BY DEF Call, Check, Level, Store, Pending
<1>3. First' = First /\ Count' = Count
  BY <1>1, <1>2 DEF First, Count
<1>4. Contents' = Contents
  BY <1>1, <1>3 DEF Contents, Slot
<1>5. CASE UNCHANGED got
  BY <1>4, <1>5
<1>6. CASE got' # got
  <2>1. pc = "check" /\ rx_in = rx_out /\ got' = NoChar
    BY <1>6 DEF Call, Check, Level, Store
  <2>2. Sub(rx_in, rx_out) = 0
    BY <2>1, IndexArithmetic DEF IInv, TypeOK
  <2>3. Count = 0
    BY <2>1, <2>2 DEF Count, Pending
  <2>4. Contents = <<>>
    BY <2>3 DEF QueueShape
  <2> QED BY <1>4, <2>1, <2>4 DEF Queue!GetNothing
<1> QED BY <1>5, <1>6

(***************************************************************************)
(* The ring buffer of serial.S, with its interrupt handler and its reader, *)
(* implements the first-in first-out queue its callers rely on: no byte is *)
(* lost, duplicated, reordered or made up.                                 *)
(***************************************************************************)
THEOREM RingImplementsFifo == Spec => ImplementsFifo
<1>1. Init => Queue!Init
  <2> SUFFICES ASSUME Init PROVE Queue!Init
    OBVIOUS
  <2>1. QueueShape
    BY InitIInv, ContentsShape
  <2>2. Count = 0
    BY DEF Init, Count, Pending, Sub
  <2> QED BY <2>1, <2>2 DEF Queue!Init, QueueShape, Init
<1>2. IInv /\ QueueShape /\ QueueShape' /\ [Next]_vars
        => [Queue!Next]_<<Contents, got>>
  <2> SUFFICES ASSUME IInv, QueueShape, QueueShape', [Next]_vars
               PROVE  [Queue!Next]_<<Contents, got>>
    OBVIOUS
  <2>1. CASE UNCHANGED vars
    BY <2>1 DEF vars, Contents, Count, First, Slot, Pending
  <2>2. ASSUME NEW b \in Bytes, serial_isr(b)
        PROVE  Queue!Put
    BY <2>2, IsrPuts DEF Queue!Put
  <2>3. CASE Fetch
    BY <2>3, FetchGets DEF Queue!Next, Queue!Get
  <2>4. CASE Take
    BY <2>4, TakeKeeps
  <2>5. CASE Call \/ Check \/ Level \/ Store
    BY <2>5, OthersKeep DEF Queue!Next
  <2> QED BY <2>1, <2>2, <2>3, <2>4, <2>5 DEF Next, Reader, Queue!Next
<1> QED BY <1>1, <1>2, SpecIInv, ContentsShape, PTL DEF Spec, ImplementsFifo, Queue!Spec
=============================================================================
