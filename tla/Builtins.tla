------------------------------- MODULE Builtins -------------------------------
(***************************************************************************)
(* cmd_find_builtin() in shell/command.c: binary search in the table of    *)
(* the commands that are built into the shell.                             *)
(*                                                                         *)
(* The table is sorted, so of a name only its place in that order matters: *)
(* 2 * i + 1 is the name of entry i, 2 * i is a name between the entries   *)
(* i - 1 and i.  One step per turn of the loop.  The search can get to the *)
(* entry behind the table: what is compared there is any memory.           *)
(***************************************************************************)
EXTENDS Integers

CONSTANTS
  N,       \* entries of the table, 5
  NULL,    \* no handler
  Garbage  \* what is behind the table

ASSUME BuiltinsAssumption ==
  /\ N \in Nat
  /\ NULL \notin Nat /\ Garbage \notin Nat /\ NULL # Garbage

VARIABLES
  name,
  left, right,
  handler, \* the entry whose handler is returned
  done

vars == <<name, left, right, handler, done>>

Names == 0..(2 * N)
IsBuiltin(n) == n % 2 = 1
EntryOf(n) == n \div 2

\* The results strcmp() can have.
strcmp(n, i) ==
  IF i \notin 0..(N - 1) THEN {-1, 0, 1}
  ELSE {IF n < 2 * i + 1 THEN -1 ELSE IF n > 2 * i + 1 THEN 1 ELSE 0}

Init ==
  /\ name \in Names
  /\ left = 0 /\ right = N
  /\ handler = NULL /\ done = FALSE

\* Slip: the lower half loses its last entry.
GoLeftTooFar(middle) == middle - 2

GoLeft(middle) == middle - 1

\* Slip: the middle is looked at again.
GoRightAgain(middle) == middle

GoRight(middle) == middle + 1

Compare ==
  /\ ~done /\ left <= right
  /\ \E middle \in {(left + right) \div 2} : \E cmp \in strcmp(name, middle) :
       \/ /\ cmp < 0 /\ right' = GoLeft(middle)
          /\ UNCHANGED <<left, handler, done>>
       \/ /\ cmp > 0 /\ left' = GoRight(middle)
          /\ UNCHANGED <<right, handler, done>>
       \/ /\ cmp = 0 /\ done' = TRUE
          /\ handler' = IF middle \in 0..(N - 1) THEN middle ELSE Garbage
          /\ UNCHANGED <<left, right>>
  /\ UNCHANGED name

GiveUp ==
  /\ ~done /\ left > right
  /\ done' = TRUE
  /\ UNCHANGED <<name, left, right, handler>>

\* The next command is looked up.
Again ==
  /\ done
  /\ name' \in Names
  /\ left' = 0 /\ right' = N
  /\ handler' = NULL /\ done' = FALSE

Search == Compare \/ GiveUp

Next == Search \/ Again

Spec == Init /\ [][Next]_vars /\ WF_vars(Search)

-----------------------------------------------------------------------------
\* The variables keep their types: the search stays in the table, or gets to
\* the entry behind it.
TypeOK ==
  /\ name \in Names
  /\ left \in 0..(N + 1) /\ right \in -1..N
  /\ handler \in 0..(N - 1) \cup {NULL, Garbage} /\ done \in BOOLEAN

\* Every command of the table is found, and with it its own handler and no
\* other; a name that is not in the table is never taken for one that is.
BuiltinsAreFound ==
  /\ done /\ IsBuiltin(name) => handler = EntryOf(name)
  /\ handler \in 0..(N - 1) => IsBuiltin(name)
==============================================================================
