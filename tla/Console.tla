------------------------------- MODULE Console -------------------------------
(***************************************************************************)
(* From the keyboard to the command line: keys go through the serial input *)
(* (Fifo, which Serial implements), are read one at a time through         *)
(* read(), /dev/tty and basic_tty_read(), and are put together to a line   *)
(* by get_line(), which the shell then executes.                           *)
(*                                                                         *)
(* The console and the shell run at the same time: the next keys are typed *)
(* while a command is executed.  The input of the simulator can also end.  *)
(* What is echoed is left out.                                             *)
(***************************************************************************)
EXTENDS Integers, Sequences, SequencesExt

CONSTANTS
  SIZE,     \* size of the line buffer of the shell, 128
  CAPACITY, \* of the serial input, 256
  Letters,  \* characters from ' ' on
  NUL, NoChar,
  MAX_TYPED \* bound: keys typed

\* Keys that are not characters of a line.  "control" is any other below ' '.
Keys == Letters \cup {"cr", "lf", "bs", "del", "ctrl-u", "control"}

VARIABLES
  queue, got, \* of the serial input
  ended,      \* no more keys will come
  buf,        \* buffer[] of the shell
  posn,       \* of get_line()
  pc,         \* the shell edits a line, executes one or has returned
  typed,      \* all keys typed
  lines       \* the lines that were executed

vars == <<queue, got, ended, buf, posn, pc, typed, lines>>

Input == INSTANCE Fifo WITH Bytes <- Keys, Capacity <- CAPACITY

CString(b) ==
  LET end == CHOOSE i \in 0..SIZE :
               (i = SIZE \/ b[i] = NUL) /\ \A j \in 0..(i - 1) : b[j] # NUL IN
  [i \in 1..end |-> b[i - 1]]

-----------------------------------------------------------------------------
Buffers == [0..(SIZE - 1) -> Letters \cup {NUL}]

Init ==
  /\ Input!Init
  /\ ended = FALSE
  /\ buf = [i \in 0..(SIZE - 1) |-> NUL] /\ posn = 0
  /\ pc = "edit"
  /\ typed = <<>> /\ lines = <<>>

\* A key is typed and its code received.
Type ==
  /\ ~ended /\ Len(typed) < MAX_TYPED
  /\ Input!Put
  /\ typed' = Append(typed, Last(queue'))
  /\ UNCHANGED <<ended, buf, posn, pc, lines>>

\* The simulator's input ends.
HangUp ==
  /\ ~ended /\ ended' = TRUE
  /\ UNCHANGED <<queue, got, buf, posn, pc, typed, lines>>

\* Slip: only a return ends a line.
OnlyReturn(c) == IF c = "cr" THEN "lf" ELSE IF c = "lf" THEN "control" ELSE c

\* basic_tty_read() passes on every key but ends lines with "\n".
basic_tty_read(c) == IF c = "cr" THEN "lf" ELSE c

-----------------------------------------------------------------------------
(***************************************************************************)
(* get_line(), a character at a time.                                      *)
(***************************************************************************)
Fits(p) == p < SIZE - 1

Back(p) == IF p > 0 THEN p - 1 ELSE 0

\* Slip: the line is not terminated.
NoEnd == buf

End == [buf EXCEPT ![posn] = NUL]

EndLine(c) ==
  /\ c \in {"cr", "lf"}
  /\ buf' = End
  /\ lines' = Append(lines, CString(buf'))
  /\ pc' = "exec"
  /\ UNCHANGED posn

Edit(c) ==
  /\ c \notin {"cr", "lf"}
  /\ \/ c \in {"bs", "del"} /\ posn' = Back(posn) /\ UNCHANGED buf
     \/ c = "ctrl-u" /\ posn' = 0 /\ UNCHANGED buf
     \/ /\ c \in Letters /\ Fits(posn)
        /\ buf' = [buf EXCEPT ![posn] = c] /\ posn' = posn + 1
     \/ /\ c \in Letters => ~Fits(posn)
        /\ c \in Letters \cup {"control"}
        /\ UNCHANGED <<buf, posn>>
  /\ UNCHANGED <<pc, lines>>

\* getchar() returns a key, which get_line() deals with.
GetChar ==
  /\ pc = "edit"
  /\ Input!Get
  /\ LET c == basic_tty_read(got') IN EndLine(c) \/ Edit(c)
  /\ UNCHANGED <<ended, typed>>

\* getchar() returns -1, and the shell is left.
GetEnd ==
  /\ pc = "edit" /\ ended
  /\ Input!GetNothing
  /\ pc' = "stopped"
  /\ UNCHANGED <<ended, buf, posn, typed, lines>>

\* cmd_exec() parses the line in place, so it moves characters of the line to
\* the front and puts ends of strings between them.
Exec ==
  /\ pc = "exec"
  /\ buf' \in {b \in Buffers :
                 /\ \A i \in 0..(posn - 1) : b[i] \in {buf[j] : j \in i..posn}
                 /\ \A i \in posn..(SIZE - 1) : b[i] = buf[i]}
  /\ pc' = "edit" /\ posn' = 0
  /\ UNCHANGED <<queue, got, ended, typed, lines>>

Shell == GetChar \/ GetEnd \/ Exec

Next == Type \/ HangUp \/ Shell

\* The shell goes on as long as it can.  Nothing is assumed of the typist.
Spec == Init /\ [][Next]_vars /\ WF_vars(Shell)

-----------------------------------------------------------------------------
(***************************************************************************)
(* Reference: what a user who knows the keys expects to be executed.       *)
(***************************************************************************)
Ends(k) == k \in {"cr", "lf"}
NewLines(keys) == Len(SelectSeq(keys, Ends))

\* A line is edited at its end, keys beyond its limit are ignored.
Edited(keys) ==
  FoldLeft(LAMBDA line, k :
             CASE k \in Letters -> IF Len(line) = SIZE - 1 THEN line ELSE Append(line, k)
               [] k \in {"bs", "del"} -> IF line = <<>> THEN line ELSE Front(line)
               [] k = "ctrl-u" -> <<>>
               [] OTHER -> line,
           <<>>, keys)

\* The keys of the n-th line.
KeysOf(keys, n) ==
  LET At(m) == CHOOSE i \in 1..Len(keys) : Ends(keys[i]) /\ NewLines(SubSeq(keys, 1, i)) = m
  IN  SubSeq(keys, IF n = 1 THEN 1 ELSE At(n - 1) + 1, At(n) - 1)

\* The shell executes the lines that were typed, each as it was edited, in
\* their order, none twice and none skipped, however the typing overlaps with
\* the execution of earlier lines and whatever those left in the buffer.
LinesAsTyped ==
  \A n \in 1..Len(lines) :
    n <= NewLines(typed) /\ lines[n] = Edited(KeysOf(typed, n))

\* Every line that was typed is executed, also when the input ends behind it.
EveryLineRuns ==
  \A n \in 1..MAX_TYPED : (NewLines(typed) >= n) ~> (Len(lines) >= n)
==============================================================================
