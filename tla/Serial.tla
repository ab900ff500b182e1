------------------------------- MODULE Serial -------------------------------
(***************************************************************************)
(* The receive path of the serial port, target/eater/serial.S: a ring      *)
(* buffer of N bytes filled by the interrupt handler and emptied by        *)
(* __chrin() and __chrin_no_wait(), with flow control through ACIA_CMD.    *)
(*                                                                         *)
(* The interrupt handler runs with interrupts off, so it is one step.  The *)
(* reader is one step per instruction that touches shared memory, and an   *)
(* interrupt may come between any two of them.                             *)
(*                                                                         *)
(* The remote end of the line is external.  It stops sending when flow     *)
(* control tells it to, but up to Slack bytes more may still arrive, and   *)
(* at most Burst bytes arrive in the few cycles between the reader's load  *)
(* of the input index and its store to ACIA_CMD.                           *)
(***************************************************************************)
EXTENDS Integers, Sequences

CONSTANTS
  N,        \* size of __serial_rx_buffer and range of its indices (256)
  RX_HIGH, RX_LOW,
  Slack, Burst,
  Bytes, NoChar

ASSUME SerialAssumption ==
  /\ N \in Nat /\ RX_HIGH \in Nat /\ RX_LOW \in Nat
  /\ Slack \in Nat /\ Burst \in Nat
  /\ 0 < RX_LOW /\ RX_LOW + Burst <= RX_HIGH
  /\ RX_HIGH + Slack < N
  /\ NoChar \notin Bytes

VARIABLES
  rx_buffer, rx_in, rx_out,
  receive,  \* what ACIA_CMD last told the remote end: go on or stop
  late,     \* bytes received since it was told to stop
  burst,    \* bytes received since the reader loaded rx_in
  pc,       \* the instruction the reader executes next
  waits,    \* the reader is in __chrin() and not in __chrin_no_wait()
  X,        \* the X register of the reader
  got       \* what the last call returned

vars == <<rx_buffer, rx_in, rx_out, receive, late, burst, pc, waits, X, got>>

Index == 0..(N - 1)

\* 8-bit increment and subtraction.
Inc(i) == IF i = N - 1 THEN 0 ELSE i + 1
Sub(i, j) == IF i >= j THEN i - j ELSE i - j + N

-----------------------------------------------------------------------------
(***************************************************************************)
(* The indices are zeroed with .bss, the buffer holds whatever was there,  *)
(* and __do_init_serial lets the remote end send.                          *)
(***************************************************************************)
Init ==
  /\ rx_buffer \in [Index -> Bytes]
  /\ rx_in = 0 /\ rx_out = 0
  /\ receive = TRUE
  /\ late = 0 /\ burst = 0
  /\ pc = "idle" /\ waits = FALSE /\ X = 0
  /\ got = NoChar

\* The line can deliver a byte now.
LineDelivers ==
  /\ receive \/ late < Slack
  /\ pc = "store" => burst < Burst

(***************************************************************************)
(* __serial_isr with a received byte: store it, and tell the remote end to *)
(* stop when the buffer is at the high water mark.                         *)
(***************************************************************************)
\* Slip: the high water mark is tested with ">" before the increment.
SerialIsrLateTest(b) ==
  /\ LineDelivers
  /\ rx_buffer' = [rx_buffer EXCEPT ![rx_in] = b]
  /\ rx_in' = Inc(rx_in)
  /\ receive' = (receive /\ Sub(rx_in, rx_out) <= RX_HIGH)
  /\ late' = IF receive THEN 0 ELSE late + 1
  /\ burst' = IF pc = "store" THEN burst + 1 ELSE 0
  /\ UNCHANGED <<rx_out, pc, waits, X, got>>

serial_isr(b) ==
  /\ LineDelivers
  /\ rx_buffer' = [rx_buffer EXCEPT ![rx_in] = b]
  /\ rx_in' = Inc(rx_in)
  /\ receive' = (receive /\ Sub(rx_in', rx_out) < RX_HIGH)
  /\ late' = IF receive THEN 0 ELSE late + 1
  /\ burst' = IF pc = "store" THEN burst + 1 ELSE 0
  /\ UNCHANGED <<rx_out, pc, waits, X, got>>

-----------------------------------------------------------------------------
(***************************************************************************)
(* __chrin and __chrin_no_wait, which differ in what they do when there is *)
(* no character.                                                           *)
(***************************************************************************)
Call ==
  /\ pc = "idle"
  /\ pc' = "check"
  /\ waits' \in BOOLEAN
  /\ UNCHANGED <<rx_buffer, rx_in, rx_out, receive, late, burst, X, got>>

\* ldx __serial_rx_out; cpx __serial_rx_in; beq
Check ==
  /\ pc = "check"
  /\ X' = rx_out
  /\ \/ rx_out # rx_in /\ pc' = "take" /\ UNCHANGED got
     \/ rx_out = rx_in /\ ~waits /\ pc' = "idle" /\ got' = NoChar
     \/ rx_out = rx_in /\ waits /\ UNCHANGED <<pc, got>>
  /\ UNCHANGED <<rx_buffer, rx_in, rx_out, receive, late, burst, waits>>

\* inc __serial_rx_out
Take ==
  /\ pc = "take"
  /\ rx_out' = Inc(rx_out)
  /\ pc' = "level"
  /\ UNCHANGED <<rx_buffer, rx_in, receive, late, burst, waits, X, got>>

\* lda __serial_rx_in; sbc __serial_rx_out; cmp #RX_LOW; bcs
Level ==
  /\ pc = "level"
  /\ pc' = IF Sub(rx_in, rx_out) < RX_LOW THEN "store" ELSE "fetch"
  /\ burst' = 0
  /\ UNCHANGED <<rx_buffer, rx_in, rx_out, receive, late, waits, X, got>>

\* Slip: $01 is stored instead of $09.
StoreStop ==
  /\ pc = "store"
  /\ receive' = FALSE
  /\ late' = IF receive THEN 0 ELSE late
  /\ pc' = "fetch"
  /\ UNCHANGED <<rx_buffer, rx_in, rx_out, burst, waits, X, got>>

\* lda #$09; sta ACIA_CMD
Store ==
  /\ pc = "store"
  /\ receive' = TRUE
  /\ late' = 0
  /\ pc' = "fetch"
  /\ UNCHANGED <<rx_buffer, rx_in, rx_out, burst, waits, X, got>>

\* Slip: the byte is loaded through the incremented index.
FetchNext ==
  /\ pc = "fetch"
  /\ got' = rx_buffer[rx_out]
  /\ pc' = "idle"
  /\ UNCHANGED <<rx_buffer, rx_in, rx_out, receive, late, burst, waits, X>>

\* lda __serial_rx_buffer,x
Fetch ==
  /\ pc = "fetch"
  /\ got' = rx_buffer[X]
  /\ pc' = "idle"
  /\ UNCHANGED <<rx_buffer, rx_in, rx_out, receive, late, burst, waits, X>>

Reader == Call \/ Check \/ Take \/ Level \/ Store \/ Fetch

Next == Reader \/ \E b \in Bytes : serial_isr(b)

Spec == Init /\ [][Next]_vars

(***************************************************************************)
(* The instructions of the reader are executed; the console is read again  *)
(* and again by the shell.  Nothing is assumed of the remote end.          *)
(***************************************************************************)
FairSpec == Spec /\ WF_vars(Reader)

-----------------------------------------------------------------------------
(***************************************************************************)
(* Type invariant: indices are bytes, the reader is at one of its          *)
(* instructions and the line keeps to its bounds.  (serial.S)              *)
(***************************************************************************)
TypeOK ==
  /\ rx_buffer \in [Index -> Bytes]
  /\ rx_in \in Index /\ rx_out \in Index /\ X \in Index
  /\ receive \in BOOLEAN /\ waits \in BOOLEAN
  /\ late \in 0..Slack /\ burst \in 0..Burst
  /\ pc \in {"idle", "check", "take", "level", "store", "fetch"}
  /\ got \in Bytes \cup {NoChar}

\* The byte at X has been taken out of the ring but not been loaded yet.
Pending == pc \in {"level", "store", "fetch"}

\* The bytes received and not returned, oldest first.
First == IF Pending THEN X ELSE rx_out
Count == Sub(rx_in, rx_out) + (IF Pending THEN 1 ELSE 0)
Slot(i) == IF First + i - 1 < N THEN First + i - 1 ELSE First + i - 1 - N
Contents == [i \in 1..Count |-> rx_buffer[Slot(i)]]

(***************************************************************************)
(* The ring never fills up, whatever the interleaving of interrupts with   *)
(* the reader: between the marks the sender has been told to stop, and     *)
(* above the high mark only the bytes under way were added.  So rx_in      *)
(* never catches up with rx_out, and never reaches a byte the reader has   *)
(* still to load.  (__serial_isr, __chrin)                                 *)
(***************************************************************************)
NoOverrun ==
  /\ receive => Sub(rx_in, rx_out) < RX_HIGH
  /\ Sub(rx_in, rx_out) <= RX_HIGH + late

(***************************************************************************)
(* The sender is never left stopped by a reader that will not release it:  *)
(* while it is stopped, enough bytes are left for the reader to cross the  *)
(* low water mark, or the reader is about to release it.  (__chrin tests   *)
(* for "below", and only after taking a byte)                              *)
(***************************************************************************)
StoppedOnlyAboveLow ==
  ~receive => Sub(rx_in, rx_out) >= RX_LOW \/ pc \in {"level", "store"}

(***************************************************************************)
(* The ring implements the queue that the callers see.  (serial.S)         *)
(***************************************************************************)
Queue == INSTANCE Fifo WITH queue <- Contents, got <- got, Capacity <- N

ImplementsFifo == Queue!Spec

(***************************************************************************)
(* A sender that was told to stop is released again, because the reader    *)
(* drains the ring.  (__serial_isr against __chrin)                        *)
(***************************************************************************)
SenderReleased == ~receive ~> receive
=============================================================================
