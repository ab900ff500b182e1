------------------------------- MODULE Getopt -------------------------------
(***************************************************************************)
(* getopt() of the C library: libc-mosnix/getopt.c.                        *)
(*                                                                         *)
(* The words of a command are in the memory of the line, each with a NUL   *)
(* behind it, as cmd_exec() leaves them.  getopt() keeps its place in      *)
(* static variables, nextchar being an address in that memory, so that it  *)
(* outlives the command and the line.  What is behind the line is left     *)
(* from earlier lines and is NUL here: nothing else ends up there.         *)
(***************************************************************************)
EXTENDS Integers, Sequences, FiniteSets

CONSTANTS
  NUL,
  NoChar  \* a null pointer

VARIABLES
  words,  \* the words of the command: argv[0], argv[1], ...
  st      \* optind, optarg, nextind and nextchar

argc == Len(words)

\* The first i words as they are in memory, the character at an address, and
\* the address of word i, from 0 on.
Text(i) ==
  LET upTo[j \in 0..i] == IF j = 0 THEN <<>> ELSE upTo[j - 1] \o Append(words[j], NUL)
  IN  upTo[i]
mem(a) == LET text == Text(argc) IN IF a < Len(text) THEN text[a + 1] ELSE NUL
argv(i) == Len(Text(i))

GetoptInit == st = [optind |-> 0, optarg |-> NoChar, nextind |-> 1, nextchar |-> NoChar]

-----------------------------------------------------------------------------
(***************************************************************************)
(* getopt(argc, argv, options), with the letters of the options that are   *)
(* flags and of those that take an argument.  A result is a letter, "?" or *)
(* "end" for -1, with the statics after it.                                *)
(***************************************************************************)
Result(s, opt) == [st |-> s, opt |-> opt]

\* Slip: a new command goes on where the last one stopped.
NotReset(s) == [s EXCEPT !.optind = IF @ = 0 THEN 1 ELSE @, !.optarg = NoChar]

Reset(s) ==
  IF s.optind = 0
  THEN [optind |-> 1, optarg |-> NoChar, nextind |-> 1, nextchar |-> NoChar]
  ELSE [s EXCEPT !.optarg = NoChar]

\* nextchar is null: the next word.  "-" is no option, "--" ends them, and
\* there are no others that start like this.
NextWord(s) ==
  LET a == argv(s.nextind) IN
  CASE s.nextind >= argc ->
         Result([s EXCEPT !.optind = s.nextind, !.nextind = @ + 1], "end")
    [] s.nextind < argc /\ mem(a) = "-" /\ mem(a + 1) = "-" ->
         IF mem(a + 2) # NUL THEN Result([s EXCEPT !.optind = s.nextind], "?")
         ELSE Result([s EXCEPT !.nextind = @ + 1, !.optind = s.nextind + 1], "end")
    [] s.nextind < argc /\ mem(a) = "-" /\ mem(a + 1) \notin {"-", NUL} ->
         Result([s EXCEPT !.nextchar = a + 1, !.optind = s.nextind], "letter")
    [] OTHER -> Result([s EXCEPT !.optind = s.nextind], "end")

Flag(s, ch) ==
  IF mem(s.nextchar) = NUL
  THEN Result([s EXCEPT !.optind = s.nextind, !.nextchar = NoChar, !.nextind = @ + 1], ch)
  ELSE Result([s EXCEPT !.optind = s.nextind], ch)

WithArgument(s, ch) ==
  LET next == s.nextind + 1 IN
  CASE mem(s.nextchar) # NUL ->
         Result([optind |-> s.nextind, nextind |-> next, optarg |-> s.nextchar,
                 nextchar |-> NoChar], ch)
    [] mem(s.nextchar) = NUL /\ next < argc ->
         Result([s EXCEPT !.optarg = argv(next), !.nextind = next + 1, !.optind = next + 1], ch)
    [] OTHER -> Result([s EXCEPT !.optind = next, !.nextind = next + 1], "?")

\* The next letter.  strchr() finds a NUL at the end of the options; what is
\* behind it may be a colon.
NextLetter(r, flags, args) ==
  LET ch == mem(r.nextchar)
      s  == [r EXCEPT !.nextchar = @ + 1] IN
  CASE ch \in flags -> {Flag(s, ch)}
    [] ch \in args -> {WithArgument(s, ch)}
    [] ch = NUL -> {Flag(s, ch), WithArgument(s, ch)}
    [] OTHER -> {Result([s EXCEPT !.optind = s.nextind], "?")}

getopt(flags, args) ==
  LET s == Reset(st)
      w == IF s.nextchar = NoChar THEN NextWord(s) ELSE Result(s, "letter") IN
  IF w.opt = "letter" THEN NextLetter(w.st, flags, args) ELSE {w}

-----------------------------------------------------------------------------
(***************************************************************************)
(* Reference, for options that are flags: all words of options in front of *)
(* the first word that is none, and the number of the word after them.     *)
(***************************************************************************)
IsOptions(w) == Len(w) > 1 /\ w[1] = "-" /\ w[2] # "-"
Leading == {k \in 2..argc : \A j \in 2..k : IsOptions(words[j])}
Letters == UNION {{words[k][j] : j \in 2..Len(words[k])} : k \in Leading}
After   == 2 + Cardinality(Leading)
IsEnd(k)  == k <= argc /\ words[k] = <<"-", "-">>
IsLong(k) == k <= argc /\ Len(words[k]) > 2 /\ words[k][1] = "-" /\ words[k][2] = "-"

\* The command accepts its options, and its operands are behind word n.
OptionsRefused(flags) == ~(Letters \subseteq flags) \/ IsLong(After)
Operands == IF IsEnd(After) THEN After ELSE After - 1
=============================================================================
