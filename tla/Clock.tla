-------------------------------- MODULE Clock --------------------------------
(***************************************************************************)
(* The system tick of target/eater/systick.S, and what is built on it: the *)
(* monotonic and real time of os/time.c and libc-mosnix/time.c, and the    *)
(* time limit of SD card detection (os/drivers/sdcard/sdcard.c).           *)
(*                                                                         *)
(* The counter is BYTES bytes of radix BASE, which the program can only    *)
(* load one by one, between two of which the interrupt handler may run.    *)
(* Times are in ticks, 1/256 s: the shift that makes seconds of them is    *)
(* left out.  Only ticks happen between two system calls of a program,     *)
(* because nothing switches to another process there.                      *)
(***************************************************************************)
EXTENDS Integers, FiniteSetsExt

CONSTANTS
  BASE,      \* values of a byte, 256
  BYTES,     \* bytes of the counter, 5
  SHORT,     \* bytes that sys_clock() returns, 2
  TIMEOUT,   \* SD_INIT_TIMEOUT
  POLL,      \* most ticks from one look at the clock to the next while waiting
  Settings,  \* times that programs set the clock to
  MAX_TICKS  \* bound: ticks of a behaviour

ASSUME ClockAssumption ==
  /\ BASE \in Nat /\ BASE >= 2 /\ SHORT \in Nat /\ BYTES \in Nat /\ SHORT < BYTES
  /\ Settings \subseteq Nat /\ POLL \in Nat /\ TIMEOUT \in Nat
  /\ TIMEOUT + 2 * POLL < BASE^SHORT
  /\ MAX_TICKS \in Nat /\ MAX_TICKS < BASE^BYTES

Index == 0..(BYTES - 1)

VARIABLES
  systick,  \* __systick_value
  ticks,    \* expirations of the timer since it was started
  pending,  \* the timer has expired and the handler has not run
  masked,   \* the I flag: interrupts are disabled
  op,       \* what the program is doing
  next,     \* next byte to load, -1 in front of sei
  out,      \* bytes loaded
  since,    \* ticks when the reading of the clock began
  realtime, \* the kernel's offset from monotonic to real time
  set,      \* bounds of the offset: the time last set less the ticks around it
  base,     \* timeout_base
  began,    \* ticks when the wait began
  polled,   \* ticks at the last look at the clock while waiting
  ret       \* last result: kind, value, and ticks when it was begun and over

vars == <<systick, ticks, pending, masked, op, next, out, since, realtime,
          set, base, began, polled, ret>>

Value(bytes, n) == MapThenSumSet(LAMBDA i : bytes[i] * BASE^i, 0..(n - 1))

\* The program waits for a card, or looks at the clock in the meantime.
Waiting == {"start", "wait", "poll"}

\* Bytes that the program loads: sys_clock() while waiting, sys_monoclock().
Width == IF op.kind \in Waiting THEN SHORT ELSE BYTES

\* Ticks that the handler has counted.
Counted == IF pending THEN ticks - 1 ELSE ticks

Init ==
  /\ systick = [i \in Index |-> 0]
  /\ ticks = 0 /\ pending = FALSE /\ masked = FALSE
  /\ op = [kind |-> "idle", time |-> 0] /\ next = -1
  /\ out = [i \in Index |-> 0] /\ since = 0
  /\ realtime = 0 /\ set = [least |-> 0, most |-> 0]
  /\ base = 0 /\ began = 0 /\ polled = 0
  /\ ret = [kind |-> "none", value |-> 0, from |-> 0, to |-> 0]

-----------------------------------------------------------------------------
(***************************************************************************)
(* The timer runs once: it does not expire again before the handler has    *)
(* started it anew.  While the program waits it looks at the clock at      *)
(* least every POLL ticks.                                                 *)
(***************************************************************************)
Expire ==
  /\ ~pending /\ ticks < MAX_TICKS
  /\ op.kind \in Waiting => ticks < polled + POLL
  /\ pending' = TRUE /\ ticks' = ticks + 1
  /\ UNCHANGED <<systick, masked, op, next, out, since, realtime, set, base,
                 began, polled, ret>>

\* Every byte is incremented behind one that has become zero.
systick_isr ==
  /\ pending /\ ~masked
  /\ systick' = [i \in Index |->
       IF \A j \in 0..(i - 1) : systick[j] = BASE - 1
       THEN (systick[i] + 1) % BASE ELSE systick[i]]
  /\ pending' = FALSE
  /\ UNCHANGED <<ticks, masked, op, next, out, since, realtime, set, base,
                 began, polled, ret>>

-----------------------------------------------------------------------------
(***************************************************************************)
(* A program reads the clock.  "mono" is sys_getmonotime(), "real" is      *)
(* clock_gettime(CLOCK_REALTIME), time() or inode_get_mtime(), "set" is    *)
(* clock_settime(), and "start" is the beginning of a wait for the card.   *)
(***************************************************************************)
Call(kind, time) ==
  /\ op.kind = "idle"
  /\ kind = "start" => ticks + TIMEOUT + 3 * POLL + 1 <= MAX_TICKS
  /\ op' = [kind |-> kind, time |-> time] /\ next' = -1
  /\ since' = Counted /\ polled' = IF kind = "start" THEN ticks ELSE 0
  /\ ret' = [kind |-> "none", value |-> 0, from |-> 0, to |-> 0]
  /\ UNCHANGED <<systick, ticks, pending, masked, out, realtime, set, base, began>>

\* Slip: interrupts are not disabled.
NoSei ==
  /\ op.kind \notin {"idle", "wait"} /\ next = -1
  /\ next' = 0
  /\ UNCHANGED <<systick, ticks, pending, masked, op, out, since, realtime, set,
                 base, began, polled, ret>>

Sei ==
  /\ op.kind \notin {"idle", "wait"} /\ next = -1
  /\ masked' = TRUE /\ next' = 0
  /\ UNCHANGED <<systick, ticks, pending, op, out, since, realtime, set, base,
                 began, polled, ret>>

Load ==
  /\ next \in 0..(Width - 1) /\ op.kind \notin {"idle", "wait"}
  /\ out' = [out EXCEPT ![next] = systick[next]]
  /\ next' = next + 1
  /\ UNCHANGED <<systick, ticks, pending, masked, op, since, realtime, set, base,
                 began, polled, ret>>

Cli ==
  /\ next = Width /\ op.kind \notin {"idle", "wait"}
  /\ masked' = FALSE /\ next' = next + 1
  /\ polled' = IF op.kind \in Waiting THEN ticks ELSE 0
  /\ UNCHANGED <<systick, ticks, pending, op, out, since, realtime, set, base, began, ret>>

(***************************************************************************)
(* What is done with the time that was read.                               *)
(***************************************************************************)
Read(kind) == op.kind = kind /\ next = Width + 1

\* The call is over, and nobody looks at what it has left behind.
Done ==
  /\ op' = [kind |-> "idle", time |-> 0] /\ next' = -1
  /\ out' = [i \in Index |-> 0]
  /\ since' = 0 /\ base' = 0 /\ began' = 0 /\ polled' = 0

Return(kind, value, from) ==
  /\ ret' = [kind |-> kind, value |-> value, from |-> from, to |-> ticks]
  /\ Done

sys_getmonotime ==
  /\ Read("mono") /\ Return("mono", Value(out, BYTES), since)
  /\ UNCHANGED <<systick, ticks, pending, masked, realtime, set>>

sys_getrealtime == realtime
sys_setrealtime(t) == realtime' = t

clock_gettime ==
  /\ Read("real")
  /\ LET t1 == Value(out, BYTES) + sys_getrealtime IN
     Return("real", IF t1 < 0 THEN 0 ELSE t1, since)
  /\ UNCHANGED <<systick, ticks, pending, masked, realtime, set>>

\* Slip: the time is taken for the offset.
SetsOffset ==
  /\ Read("set")
  /\ sys_setrealtime(op.time)
  /\ set' = [least |-> op.time - ticks, most |-> op.time - since]
  /\ Done
  /\ UNCHANGED <<systick, ticks, pending, masked, ret>>

clock_settime ==
  /\ Read("set")
  /\ sys_setrealtime(op.time - Value(out, BYTES))
  /\ set' = [least |-> op.time - ticks, most |-> op.time - since]
  /\ Done
  /\ UNCHANGED <<systick, ticks, pending, masked, ret>>

(***************************************************************************)
(* The loops of sd_detect(): commands until one is answered or the time is *)
(* over.                                                                   *)
(***************************************************************************)
WaitStarts ==
  /\ Read("start")
  /\ base' = Value(out, SHORT) /\ began' = since
  /\ op' = [kind |-> "wait", time |-> 0] /\ next' = -1
  /\ UNCHANGED <<systick, ticks, pending, masked, out, since, realtime, set, polled, ret>>

Answered ==
  /\ op.kind = "wait" /\ Done
  /\ UNCHANGED <<systick, ticks, pending, masked, realtime, set, ret>>

NotAnswered ==
  /\ op.kind = "wait"
  /\ op' = [kind |-> "poll", time |-> 0] /\ next' = -1
  /\ UNCHANGED <<systick, ticks, pending, masked, out, since, realtime, set,
                 base, began, polled, ret>>

\* Slip: the time of the end is compared instead of the time elapsed.
EndReached == Value(out, SHORT) >= (base + TIMEOUT) % BASE^SHORT

\* Slip: the difference has more bits than the clock.
NotWrapped == Value(out, SHORT) - base >= TIMEOUT

TimeIsOver == (Value(out, SHORT) - base) % BASE^SHORT >= TIMEOUT

Polled ==
  /\ Read("poll")
  /\ \/ /\ TimeIsOver
        /\ Return("timeout", 0, began)
     \/ /\ ~TimeIsOver
        /\ op' = [kind |-> "wait", time |-> 0] /\ next' = -1
        /\ UNCHANGED <<ret, out, since, base, began, polled>>
  /\ UNCHANGED <<systick, ticks, pending, masked, realtime, set>>

-----------------------------------------------------------------------------
Program ==
  \/ Sei \/ Load \/ Cli
  \/ sys_getmonotime \/ clock_gettime \/ clock_settime
  \/ WaitStarts \/ Answered \/ NotAnswered \/ Polled

Next ==
  \/ Expire \/ systick_isr \/ Program
  \/ \E kind \in {"mono", "real", "start"} : Call(kind, 0)
  \/ \E time \in Settings : Call("set", time)

\* The timer runs and programs run on.  The processor takes an interrupt that
\* is pending once it has executed cli, though not while interrupts are
\* disabled, which they are again and again.
Spec ==
  /\ Init /\ [][Next]_vars
  /\ WF_vars(Expire) /\ SF_vars(systick_isr) /\ WF_vars(Program)

-----------------------------------------------------------------------------
\* sys_monoclock() is not torn by the interrupt handler: it returns a time
\* between its call and its return, so that time never runs backwards.
ReadsAreWhole == ret.kind = "mono" => ret.value \in ret.from..ret.to

\* After clock_settime() real time goes on from the time that was set, for
\* exactly the ticks that have passed, within the time the two calls take.
RealTimeRuns ==
  ret.kind = "real" =>
    ret.value \in (set.least + ret.from)..(set.most + ret.to)

\* sd_detect() gives up neither before SD_INIT_TIMEOUT has passed nor later
\* than its commands make it look, also when the 16 bits of sys_clock() wrap
\* around in between.
TimeoutInTime ==
  ret.kind = "timeout" => ret.to - ret.from \in TIMEOUT..(TIMEOUT + 3 * POLL + 1)

\* sd_detect() does not wait forever for a card that never answers.
WaitEnds == op.kind = "start" ~> op.kind = "idle"
==============================================================================
