------------------------------- MODULE CmdLine -------------------------------
(***************************************************************************)
(* cmd_exec() in shell/command.c: a line is split into arguments in place. *)
(* Quotes and backslashes are removed by moving what follows them to the   *)
(* front, and the end of an argument is written into the line, while the   *)
(* rest of the line is still to be read from the same memory.  Then the    *)
(* search of module Builtins looks for the command.                        *)
(*                                                                         *)
(* One step per turn of the loops.  Characters are one of each kind.  The  *)
(* name of a command is a sequence of them; where it is in the order of    *)
(* the table is any place.                                                 *)
(***************************************************************************)
EXTENDS Builtins, Sequences, SequencesExt

CONSTANTS
  ARGC_MAX,
  NUL,
  MAX_LEN  \* bound: longest line

Blank == " "
Single == "'"
Double == "\""
Quotes == {Single, Double}
Back   == "\\"
Chars  == {"x", "#", Blank, Back} \cup Quotes

VARIABLES
  input, \* the line, as get_line() left it
  mem,   \* the memory it is in
  line, out, quote, argc, argv,
  pc     \* the loop we are in, or how the function went on

lineVars == <<input, mem, line, out, quote, argc, argv>>
allVars == <<lineVars, pc, vars>>

Addr == 0..MAX_LEN
NoQuote == NUL

LineInit ==
  /\ input \in UNION {[1..n -> Chars] : n \in 0..MAX_LEN}
  /\ mem = [a \in Addr |-> IF a < Len(input) THEN input[a + 1] ELSE NUL]
  /\ line = 0 /\ out = 0 /\ quote = NoQuote
  /\ argc = 0 /\ argv = <<>>
  /\ pc = "skip"
  /\ name = 0 /\ left = 0 /\ right = N /\ handler = NULL /\ done = TRUE

ch == mem[line]

-----------------------------------------------------------------------------
(***************************************************************************)
(* Between two arguments.                                                  *)
(***************************************************************************)
SkipBlank ==
  /\ pc = "skip" /\ ch = Blank
  /\ line' = line + 1
  /\ UNCHANGED <<input, mem, out, quote, argc, argv, pc>>

\* The end of the line, or a comment.
NoMore ==
  /\ pc = "skip" /\ ch \in {NUL, "#"}
  /\ pc' = IF argc = 0 THEN "empty" ELSE "run"
  /\ UNCHANGED lineVars

HasRoom == argc < ARGC_MAX

TooMany ==
  /\ pc = "skip" /\ ch \notin {Blank, NUL, "#"} /\ ~HasRoom
  /\ pc' = "too many"
  /\ UNCHANGED lineVars

StartArg ==
  /\ pc = "skip" /\ ch \notin {Blank, NUL, "#"} /\ HasRoom
  /\ argv' = Append(argv, line) /\ out' = line
  /\ pc' = "arg"
  /\ UNCHANGED <<input, mem, line, quote, argc>>

-----------------------------------------------------------------------------
(***************************************************************************)
(* Inside of an argument.                                                  *)
(***************************************************************************)
\* *out++ = c, and the line goes on n characters further on.
Copy(c, n) ==
  /\ mem' = [mem EXCEPT ![out] = c] /\ out' = out + 1
  /\ line' = line + n
  /\ UNCHANGED <<input, quote, argc, argv, pc>>

Toggle ==
  /\ quote' = IF quote = NoQuote THEN ch ELSE NoQuote
  /\ line' = line + 1
  /\ UNCHANGED <<input, mem, out, argc, argv, pc>>

\* Slip: either quote ends what the other began.
AnyQuote == pc = "arg" /\ ch \in Quotes /\ Toggle

QuoteChar ==
  /\ pc = "arg" /\ ch \in Quotes
  /\ IF quote \in {NoQuote, ch} THEN Toggle ELSE Copy(ch, 1)

Escape ==
  /\ pc = "arg" /\ ch = Back /\ quote # Single
  /\ IF mem[line + 1] = NUL THEN Copy(ch, 1) ELSE Copy(mem[line + 1], 2)

PlainChar ==
  /\ pc = "arg" /\ ch \notin Quotes \cup {NUL}
  /\ ch = Blank => quote # NoQuote
  /\ ch = Back => quote = Single
  /\ Copy(ch, 1)

\* Slip: the end of an argument is written in front of what is read next
\* instead of behind the argument.
EndBeforeNext(next) ==
  /\ mem' = [mem EXCEPT ![next] = NUL]
  /\ argc' = argc + 1 /\ line' = next
  /\ pc' = "skip"
  /\ UNCHANGED <<input, out, quote, argv>>

EndArg(next) ==
  /\ mem' = [mem EXCEPT ![out] = NUL]
  /\ argc' = argc + 1 /\ line' = next
  /\ pc' = "skip"
  /\ UNCHANGED <<input, out, quote, argv>>

EndAtBlank ==
  /\ pc = "arg" /\ ch = Blank /\ quote = NoQuote
  /\ EndArg(line + 1)

EndAtEnd ==
  /\ pc = "arg" /\ ch = NUL /\ quote = NoQuote
  /\ EndArg(line)

Unterminated ==
  /\ pc = "arg" /\ ch = NUL /\ quote # NoQuote
  /\ pc' = "unterminated"
  /\ UNCHANGED lineVars

ParseLine ==
  /\ \/ SkipBlank \/ NoMore \/ TooMany \/ StartArg
     \/ QuoteChar \/ Escape \/ PlainChar \/ EndAtBlank \/ EndAtEnd \/ Unterminated
  /\ UNCHANGED vars

-----------------------------------------------------------------------------
(***************************************************************************)
(* The command is looked up, and its handler is called if there is one.    *)
(***************************************************************************)
BeginLookup ==
  /\ pc = "run"
  /\ Again
  /\ pc' = "find"
  /\ UNCHANGED lineVars

Lookup ==
  /\ pc = "find"
  /\ Search
  /\ UNCHANGED <<lineVars, pc>>

\* The handler is called without another look at it.  What was taken from
\* behind the table is no handler: where that call leads is left open.
CallHandler ==
  /\ pc = "find" /\ done
  /\ \/ handler \in 0..(N - 1) /\ pc' = "builtin"
     \/ handler = NULL /\ pc' = "not found"
     \/ handler = Garbage /\ pc' = "lost"
  /\ UNCHANGED <<lineVars, vars>>

LineNext == ParseLine \/ BeginLookup \/ Lookup \/ CallHandler

\* The function runs until it returns.
LineSpec == LineInit /\ [][LineNext]_allVars /\ WF_allVars(LineNext)

-----------------------------------------------------------------------------
(***************************************************************************)
(* Reference: the arguments of a line, read from left to right.  q is the  *)
(* open quote, word the argument that was begun and <<>> for none (the     *)
(* first element of word is a mark), words the arguments that are done.    *)
(***************************************************************************)
Mark == "begun"
Outcome(how, words) == [how |-> how, words |-> words]
Done(word, words) == IF word = <<>> THEN words ELSE Append(words, Tail(word))

RECURSIVE Parse(_, _, _, _)
Parse(s, q, word, words) ==
  LET c    == Head(s)
      w    == IF word = <<>> THEN <<Mark>> ELSE word
      ends == s = <<>> \/ (c = Blank /\ q = NoQuote) IN
  CASE s = <<>> /\ q # NoQuote -> Outcome("unterminated", words)
    [] s = <<>> /\ q = NoQuote ->
         IF Done(word, words) = <<>> THEN Outcome("empty", <<>>)
                                     ELSE Outcome("run", Done(word, words))
    [] ~(s = <<>>) /\ ends -> Parse(Tail(s), q, <<>>, Done(word, words))
    [] ~ends /\ word = <<>> /\ c = "#" -> Parse(<<>>, q, word, words)
    [] ~ends /\ word = <<>> /\ c # "#" /\ Len(words) = ARGC_MAX -> Outcome("too many", words)
    [] OTHER ->
         IF c \in Quotes /\ q = NoQuote THEN Parse(Tail(s), c, w, words)
         ELSE IF c = q THEN Parse(Tail(s), NoQuote, w, words)
         ELSE IF c = Back /\ q # Single /\ Len(s) > 1
         THEN Parse(Tail(Tail(s)), q, Append(w, s[2]), words)
         ELSE Parse(Tail(s), q, Append(w, c), words)

CString(a) ==
  LET end == CHOOSE e \in a..MAX_LEN : mem[e] = NUL /\ \A i \in a..(e - 1) : mem[i] # NUL
  IN  SubSeq([i \in 1..(MAX_LEN + 1) |-> mem[i - 1]], a + 1, end)

Refused == {"empty", "too many", "unterminated"}
Called == {"builtin", "not found", "lost"}

\* What was not read yet is as it was typed: neither the characters that
\* move to the front nor the ends of arguments get ahead of the reader.
UnreadIsIntact ==
  \A a \in line..MAX_LEN : mem[a] = IF a < Len(input) THEN input[a + 1] ELSE NUL

\* The arguments that the command gets, read from memory when all of them
\* have been put there, are those of the line, and a line is refused for the
\* reason it should be.
ArgumentsAsTyped ==
  pc \in Refused \cup {"run"} =>
    LET o == Parse(input, NoQuote, <<>>, <<>>) IN
    /\ pc = o.how
    /\ pc = "run" => [i \in 1..argc |-> CString(argv[i])] = o.words

\* The parsing of a line and the search for its command end, whatever the
\* line is and wherever the search goes: cmd_exec() returns or calls what
\* cmd_find_builtin() gave it.  Whether that call returns is not said here.
LineIsDone == <>(pc \in Refused \cup Called)
==============================================================================
