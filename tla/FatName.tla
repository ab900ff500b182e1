------------------------------- MODULE FatName -------------------------------
(***************************************************************************)
(* Names of files on a FAT volume: from a directory entry to what          *)
(* readdir() shows (fat_convert_dirent) and from what a program passes to  *)
(* what is compared with the entry (fat_format_name), os/fs/fat/fatutils.c.*)
(*                                                                         *)
(* A lister converts an entry, a program passes a name, its own or the one *)
(* it was shown, and the kernel formats it.  Names are sequences of        *)
(* characters, an entry is padded with blanks.  Of the letters there is    *)
(* one in two cases, of the characters that are not allowed two kinds:     *)
(* those outside of printable ASCII, like " ", and those like "*".         *)
(***************************************************************************)
EXTENDS Integers, Sequences, SequencesExt

CONSTANTS
  BASE_LEN, \* characters of a name in front of the dot, 8
  EXT_LEN,  \* characters behind it, 3
  MAX_NAME  \* bound: longest name a program passes

FAT_NAME_LEN == BASE_LEN + EXT_LEN
Upper   == {"A", "1"}
Lower   == {"a", "1"}
Invalid == {"*"}
Chars   == Upper \cup Lower \cup Invalid \cup {".", " "}

Strings(set, least, most) == UNION {[1..n -> set] : n \in least..most}
Padded(s, n) == s \o [i \in 1..(n - Len(s)) |-> " "]

\* Names as they are in the entries of a directory.
Entries ==
  {Padded(b, BASE_LEN) \o Padded(e, EXT_LEN) :
     b \in Strings(Upper, 1, BASE_LEN), e \in Strings(Upper, 0, EXT_LEN)}
  \cup {Padded(<<".">>, FAT_NAME_LEN), Padded(<<".", ".">>, FAT_NAME_LEN)}

VARIABLES
  entry, \* name of an entry of the directory
  name,  \* name the program passes
  shown, \* the program has been shown that name
  out,   \* the formatted name, or what was written before it failed
  ok     \* the name could be formatted

vars == <<entry, name, shown, out, ok>>

-----------------------------------------------------------------------------
(***************************************************************************)
(* fat_convert_name(): up to the first blank, in lower case.               *)
(***************************************************************************)
ToLower(c) == IF c = "A" THEN "a" ELSE c

ToUpper(c) == IF c = "a" THEN "A" ELSE c

fat_convert_name(s) ==
  LET blank == SelectInSeq(s, LAMBDA c : c = " ") IN
  [i \in 1..(IF blank = 0 THEN Len(s) ELSE blank - 1) |-> ToLower(s[i])]

BaseOf(e) == SubSeq(e, 1, BASE_LEN)
ExtOf(e)  == SubSeq(e, BASE_LEN + 1, FAT_NAME_LEN)

fat_convert_dirent(e) ==
  IF e[1] = "." THEN IF e[2] = "." THEN <<".", ".">> ELSE <<".">>
  ELSE fat_convert_name(BaseOf(e)) \o
       (IF e[BASE_LEN + 1] = " " THEN <<>> ELSE <<".">> \o fat_convert_name(ExtOf(e)))

(***************************************************************************)
(* fat_format_name(): posn and dot as in the loop.  A dot moves on to the  *)
(* extension and is then written like any other character.                 *)
(***************************************************************************)
Result(o, good) == [out |-> o, ok |-> good]

Full(posn, dot) == posn >= (IF dot THEN FAT_NAME_LEN ELSE BASE_LEN)

RECURSIVE Format(_, _, _, _)
Format(o, s, posn, dot) ==
  LET c    == s[1]
      now  == dot \/ c = "."
      at   == IF c = "." THEN BASE_LEN ELSE posn
      more == Append(SubSeq(o, 1, at), ToUpper(c)) \o SubSeq(o, at + 2, Len(o)) IN
  IF s = <<>> THEN Result(o, TRUE)
  ELSE IF \/ c = " " \/ c \in Invalid
          \/ c = "." /\ dot
          \/ Full(at, now)
       THEN Result(o, FALSE)
  ELSE Format(more, Tail(s), at + 1, now)

fat_format_name(s) ==
  LET pad == Padded(<<>>, FAT_NAME_LEN) IN
  IF s = <<>> THEN Result(<<>>, FALSE)
  ELSE IF s[1] = "." /\ s \notin {<<".">>, <<".", ".">>} THEN Result(pad, FALSE)
  ELSE IF s[1] = "." THEN Result(Padded(s, FAT_NAME_LEN), TRUE)
  ELSE Format(pad, s, 0, FALSE)

-----------------------------------------------------------------------------
Init ==
  /\ entry \in Entries
  /\ name = <<>> /\ shown = FALSE /\ out = <<>> /\ ok = FALSE

\* No lookup is going on.
Idle == name = <<>> /\ shown = FALSE /\ out = <<>> /\ ok = FALSE

\* readdir() shows the name, and the program looks it up.
LookUpShown ==
  /\ Idle
  /\ name' = fat_convert_dirent(entry) /\ shown' = TRUE
  /\ LET r == fat_format_name(name') IN out' = r.out /\ ok' = r.ok
  /\ UNCHANGED entry

\* The program looks up a name of its own.
LookUp ==
  /\ Idle
  /\ name' \in Strings(Chars, 0, MAX_NAME) /\ shown' = FALSE
  /\ LET r == fat_format_name(name') IN out' = r.out /\ ok' = r.ok
  /\ UNCHANGED entry

\* The lookup is over.  Nothing is kept.
Return ==
  /\ ~Idle
  /\ name' = <<>> /\ shown' = FALSE /\ out' = <<>> /\ ok' = FALSE
  /\ UNCHANGED entry

Next == LookUpShown \/ LookUp \/ Return

Spec == Init /\ [][Next]_vars

-----------------------------------------------------------------------------
\* fat_format_name() formats names as they are in directory entries: a file
\* can be looked up by the name readdir() shows.
ShownNamesAreFound == shown => ok /\ out = entry
==============================================================================
