---------------------------- MODULE BuiltinsProofs ----------------------------
(***************************************************************************)
(* Proofs about the search for a builtin command, for tables of any size.  *)
(***************************************************************************)
EXTENDS Builtins, TLAPS

(***************************************************************************)
(* The bounds of the search: what has been excluded lies outside of them,  *)
(* so a builtin that was not found yet is between them.                    *)
(***************************************************************************)
Between ==
  /\ ~done => handler = NULL
  /\ IsBuiltin(name) /\ ~done => left <= EntryOf(name) /\ EntryOf(name) <= right
  /\ done /\ IsBuiltin(name) => handler = EntryOf(name)
  /\ handler \in 0..(N - 1) => IsBuiltin(name)

Inv == TypeOK /\ Between

\* The entry of a builtin name is an index of the table.
LEMMA EntryInTable ==
  ASSUME NEW n \in Names, IsBuiltin(n)
  PROVE  EntryOf(n) \in 0..(N - 1) /\ n = 2 * EntryOf(n) + 1
BY BuiltinsAssumption DEF Names, IsBuiltin, EntryOf

\* The middle of two bounds that have not crossed is between them, and it is
\* the right one only if the two are the same.
LEMMA MiddleIsBetween ==
  ASSUME NEW l \in Int, NEW r \in Int, l <= r
  PROVE  /\ (l + r) \div 2 \in Int /\ l <= (l + r) \div 2 /\ (l + r) \div 2 <= r
         /\ l < r => (l + r) \div 2 < r
OBVIOUS

\* The search starts with the whole table between its bounds.
LEMMA InitInv == Init => Inv
<1> SUFFICES ASSUME Init PROVE Inv
  OBVIOUS
<1>1. TypeOK
  <2>1. left \in 0..(N + 1) /\ right \in -1..N
    BY BuiltinsAssumption DEF Init
  <2> QED
    BY <2>1, Zenon DEF Init, TypeOK
<1>2. IsBuiltin(name) => EntryOf(name) \in 0..(N - 1)
  BY EntryInTable DEF Init
<1> QED
  BY <1>1, <1>2, BuiltinsAssumption DEF Init, Inv, Between

\* A comparison excludes only entries that are not the one looked for.
LEMMA CompareInv == Inv /\ Compare => Inv'
<1> SUFFICES ASSUME Inv, Compare PROVE Inv'
  OBVIOUS
<1> DEFINE middle == (left + right) \div 2
<1>1. /\ middle \in 0..N /\ left <= middle /\ middle <= right
      /\ left < right => middle < right
  BY MiddleIsBetween, BuiltinsAssumption DEF Inv, TypeOK, Compare
<1>2. PICK cmp \in strcmp(name, middle) :
        \/ cmp < 0 /\ right' = GoLeft(middle) /\ UNCHANGED <<left, handler, done>>
        \/ cmp > 0 /\ left' = GoRight(middle) /\ UNCHANGED <<right, handler, done>>
        \/ /\ cmp = 0 /\ done' = TRUE
           /\ handler' = IF middle \in 0..(N - 1) THEN middle ELSE Garbage
           /\ UNCHANGED <<left, right>>
  BY DEF Compare
<1>3. name' = name /\ ~done /\ handler = NULL
  BY DEF Compare, Inv, Between
<1> HIDE DEF middle
<1>4. IsBuiltin(name) =>
        /\ EntryOf(name) \in 0..(N - 1) /\ name = 2 * EntryOf(name) + 1
        /\ left <= EntryOf(name) /\ EntryOf(name) <= right
        /\ middle \in 0..(N - 1)
  <2>1. IsBuiltin(name) =>
          /\ EntryOf(name) \in 0..(N - 1) /\ name = 2 * EntryOf(name) + 1
          /\ left <= EntryOf(name) /\ EntryOf(name) <= right
    BY <1>3, EntryInTable DEF Inv, TypeOK, Between
  <2> QED
    BY <1>1, <2>1, BuiltinsAssumption DEF Inv, TypeOK
<1>5. IsBuiltin(name) =>
        /\ cmp = 0 => middle = EntryOf(name)
        /\ cmp < 0 => EntryOf(name) < middle
        /\ cmp > 0 => EntryOf(name) > middle
  BY <1>2, <1>4, BuiltinsAssumption DEF strcmp
<1>6. CASE cmp < 0 /\ right' = GoLeft(middle) /\ UNCHANGED <<left, handler, done>>
  <2>1. TypeOK'
    BY <1>1, <1>3, <1>6, BuiltinsAssumption DEF Inv, TypeOK, GoLeft
  <2>2. Between'
    BY <1>1, <1>3, <1>4, <1>5, <1>6, BuiltinsAssumption
    DEF Inv, TypeOK, Between, GoLeft, IsBuiltin, EntryOf
  <2> QED
    BY <2>1, <2>2 DEF Inv
<1>7. CASE cmp > 0 /\ left' = GoRight(middle) /\ UNCHANGED <<right, handler, done>>
  <2>1. TypeOK'
    BY <1>1, <1>3, <1>7, BuiltinsAssumption DEF Inv, TypeOK, GoRight
  <2>2. Between'
    BY <1>1, <1>3, <1>4, <1>5, <1>7, BuiltinsAssumption
    DEF Inv, TypeOK, Between, GoRight, IsBuiltin, EntryOf
  <2> QED
    BY <2>1, <2>2 DEF Inv
<1>8. CASE /\ cmp = 0 /\ done' = TRUE
           /\ handler' = IF middle \in 0..(N - 1) THEN middle ELSE Garbage
           /\ UNCHANGED <<left, right>>
  <2>1. TypeOK'
    BY <1>3, <1>8 DEF Inv, TypeOK
  <2>2. IsBuiltin(name) => handler' = EntryOf(name)
    BY <1>1, <1>4, <1>5, <1>8, BuiltinsAssumption
  <2>3. middle \in 0..(N - 1) => IsBuiltin(name)
    <3>1. middle \in 0..(N - 1) => name = 2 * middle + 1
      BY <1>2, <1>8 DEF strcmp, Inv, TypeOK, Names
    <3> QED
      BY <3>1 DEF IsBuiltin
  <2>4. Between'
    BY <1>3, <1>8, <2>2, <2>3, BuiltinsAssumption DEF Between, IsBuiltin, EntryOf
  <2> QED
    BY <2>1, <2>4 DEF Inv
<1> QED
  BY <1>2, <1>6, <1>7, <1>8, Zenon

\* The invariant is inductive.
LEMMA NextInv == Inv /\ [Next]_vars => Inv'
<1> SUFFICES ASSUME Inv, [Next]_vars PROVE Inv'
  OBVIOUS
<1>1. CASE Compare
  BY <1>1, CompareInv
<1>2. CASE GiveUp
  <2>1. ~IsBuiltin(name)
    BY <1>2, EntryInTable, BuiltinsAssumption DEF GiveUp, Inv, TypeOK, Between
  <2> QED
    BY <1>2, <2>1, BuiltinsAssumption DEF GiveUp, Inv, TypeOK, Between, IsBuiltin
<1>3. CASE Again
  <2>1. IsBuiltin(name') => EntryOf(name') \in 0..(N - 1)
    BY <1>3, EntryInTable DEF Again
  <2>2. handler' = NULL /\ done' = FALSE /\ left' = 0 /\ right' = N /\ name' \in Names
    BY <1>3 DEF Again
  <2>3. TypeOK'
    <3>1. left' \in 0..(N + 1) /\ right' \in -1..N
      BY <2>2, BuiltinsAssumption
    <3> QED
      BY <2>2, <3>1, Zenon DEF TypeOK
  <2>4. Between'
    BY <2>1, <2>2, BuiltinsAssumption DEF Between, IsBuiltin, EntryOf
  <2> QED
    BY <2>3, <2>4 DEF Inv
<1>4. CASE UNCHANGED vars
  BY <1>4 DEF vars, Inv, TypeOK, Between, IsBuiltin, EntryOf
<1> QED
  BY <1>1, <1>2, <1>3, <1>4 DEF Next, Search

\* cmd_find_builtin() looks at the table and at most one entry behind it.
THEOREM SearchStaysInRange == Spec => []TypeOK
<1>1. Inv => TypeOK
  BY DEF Inv
<1> QED
  BY <1>1, InitInv, NextInv, PTL DEF Spec

\* cmd_find_builtin() finds every command of the table with its own handler
\* and takes no other name for one of them.
THEOREM EveryBuiltinIsFound == Spec => []BuiltinsAreFound
<1>1. Inv => BuiltinsAreFound
  BY DEF Inv, Between, BuiltinsAreFound
<1> QED
  BY <1>1, InitInv, NextInv, PTL DEF Spec
==============================================================================
