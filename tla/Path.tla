-------------------------------- MODULE Path --------------------------------
(***************************************************************************)
(* Pathname resolution (os/inode.c), the working directory (sys_chdir and  *)
(* sys_getcwd of os/dir.c) and the "cd" command of the shell (shell/cd.c). *)
(*                                                                         *)
(* Buffers and their limits are what is hard here, so a path is a sequence *)
(* of characters.  resolve() keeps the highest index of the output buffer  *)
(* that it has written.  Whether a directory is found is left open: it may *)
(* not have been made, or be on a card that was taken out.                 *)
(***************************************************************************)
EXTENDS Integers, Sequences, FiniteSets, SequencesExt

CONSTANTS
  PATH_MAX,  \* CONFIG_PATH_MAX, the size of every path buffer
  Letters,   \* characters other than "/" and "."
  MAX_INPUT, \* bound: longest path a program passes
  HOME_DIR,  \* "/root", working directory of the first process
  NULL       \* the null pointer

ASSUME PathAssumption ==
  /\ PATH_MAX \in Nat /\ PATH_MAX >= 2 /\ MAX_INPUT \in Nat
  /\ Letters \cap {"/", "."} = {} /\ Len(HOME_DIR) < PATH_MAX - 1

Chars  == Letters \cup {"/", "."}
Inputs == {NULL} \cup UNION {[1..n -> Chars] : n \in 0..MAX_INPUT}
Root   == <<"/">>

VARIABLES
  cwd,       \* current_proc->cwd
  prev_path, \* the shell's previous directory
  last       \* the last resolution: from, path, result and highest index

vars == <<cwd, prev_path, last>>

-----------------------------------------------------------------------------
strlen_path_component(s) ==
  LET slash == SelectInSeq(s, LAMBDA c : c = "/") IN
  IF slash = 0 THEN Len(s) ELSE slash - 1

str_is_too_long(s, max) == Len(s) >= max

Rest(s, n) == SubSeq(s, n + 1, Len(s))

\* Slip: the "/" in front of the last component is kept.
StripToSlash(out) ==
  SubSeq(out, 1, SelectLastInSeq(out, LAMBDA c : c = "/"))

\* The output without its last component.
Strip(out) ==
  LET slash == SelectLastInSeq(out, LAMBDA c : c = "/") IN
  SubSeq(out, 1, IF slash > 1 THEN slash - 1 ELSE 1)

\* Slip: every component that starts with two dots goes up.
StartsWithDots(path, len) == len >= 2 /\ path[1] = "." /\ path[2] = "."

IsUp(path, len) == len = 2 /\ path[1] = "." /\ path[2] = "."

\* Slip: the room for the end of the string is forgotten.
FitsWithoutEnd(posn, len) == posn + len <= PATH_MAX

\* A component of this length fits, and the end of the string behind it.
Fits(posn, len) == posn + len < PATH_MAX

(***************************************************************************)
(* inode_resolve_relative(): out is the part of the output in use, of      *)
(* length posn; top the highest index that has been written.               *)
(***************************************************************************)
RECURSIVE inode_resolve_relative(_, _, _)
inode_resolve_relative(out, path, top) ==
  LET len  == strlen_path_component(path)
      sep  == IF Len(out) > 1 THEN Append(out, "/") ELSE out
      high == IF top < Len(sep) - 1 THEN Len(sep) - 1 ELSE top
      full == sep \o SubSeq(path, 1, len) IN
  CASE path = <<>> ->
         [res |-> "ok", out |-> out, top |-> IF top < Len(out) THEN Len(out) ELSE top]
    [] path # <<>> /\ (path[1] = "/" \/ (len = 1 /\ path[1] = ".")) ->
         inode_resolve_relative(out, Tail(path), top)
    [] path # <<>> /\ IsUp(path, len) ->
         inode_resolve_relative(Strip(out), Rest(path, 2), top)
    [] OTHER ->
         IF Fits(Len(sep), len)
         THEN inode_resolve_relative(full, Rest(path, len),
                                     IF high < Len(full) - 1 THEN Len(full) - 1 ELSE high)
         ELSE [res |-> "ENAMETOOLONG", out |-> out, top |-> high]

Failed(error) == [res |-> error, out |-> <<>>, top |-> -1]

inode_path_to_abs(from, path) ==
  IF path = NULL THEN Failed("EFAULT")
  ELSE IF path = <<>> THEN Failed("EINVAL")
  ELSE IF str_is_too_long(path, PATH_MAX - 1) THEN Failed("ENAMETOOLONG")
  ELSE IF path[1] = "/" THEN inode_resolve_relative(Root, Tail(path), 0)
  ELSE IF Len(from) + 1 >= PATH_MAX THEN Failed("ENAMETOOLONG")
  ELSE inode_resolve_relative(from, path, Len(from) - 1)

-----------------------------------------------------------------------------
(***************************************************************************)
(* inode_lookup_path(): a path that can be resolved is looked up, and may  *)
(* be found or not.  Only the root always is: a lookup of it has no        *)
(* component to look for.                                                  *)
(***************************************************************************)
inode_lookup_path(path, found) ==
  /\ last' = [from |-> cwd, path |-> path, r |-> inode_path_to_abs(cwd, path)]
  /\ found => last'.r.res = "ok"
  /\ last'.r.res = "ok" /\ last'.r.out = Root => found

\* The resolved path becomes the working directory if it is found.
sys_chdir(path, found) ==
  /\ inode_lookup_path(path, found)
  /\ cwd' = IF found THEN last'.r.out ELSE cwd

\* cmd_chdir(), with its argument replaced by the path it stands for.
cmd_chdir(path, found) ==
  /\ sys_chdir(path, found)
  /\ prev_path' = IF found THEN cwd ELSE prev_path

Init ==
  /\ cwd = HOME_DIR /\ prev_path = HOME_DIR
  /\ last = [from |-> HOME_DIR, path |-> HOME_DIR, r |-> inode_path_to_abs(HOME_DIR, HOME_DIR)]

cd     == \E path \in Inputs, found \in BOOLEAN : cmd_chdir(path, found)
cdHome == \E found \in BOOLEAN : cmd_chdir(HOME_DIR, found)
cdBack == \E found \in BOOLEAN : cmd_chdir(prev_path, found)

Next == cd \/ cdHome \/ cdBack

Spec == Init /\ [][Next]_vars

-----------------------------------------------------------------------------
(***************************************************************************)
(* The reference: the components of a path, taken as operations on a stack *)
(* of names.                                                               *)
(***************************************************************************)
Components(path) ==
  LET starts == {i \in 1..Len(path) :
                   path[i] # "/" /\ (i = 1 \/ path[i - 1] = "/")}
      end(i) == i + strlen_path_component(Rest(path, i - 1)) - 1 IN
  [k \in 1..Cardinality(starts) |->
     LET i == SetToSortSeq(starts, <)[k] IN SubSeq(path, i, end(i))]

Text(stack) ==
  IF stack = <<>> THEN Root
  ELSE FoldLeft(LAMBDA text, c : text \o <<"/">> \o c, <<>>, stack)

\* The stack that a path leads to, and whether all on the way fit.
Walk(from, path) ==
  LET start == IF path[1] = "/" THEN <<>> ELSE Components(from)
      step(w, c) ==
        CASE c = <<".">> -> w
          [] c = <<".", ".">> -> [w EXCEPT !.stack = IF @ = <<>> THEN @ ELSE Front(@)]
          [] OTHER -> [stack |-> Append(w.stack, c),
                       fits |-> w.fits /\ Len(Text(Append(w.stack, c))) < PATH_MAX] IN
  FoldLeft(step, [stack |-> start, fits |-> TRUE], Components(path))

Normal(path) ==
  /\ path # <<>> /\ path = Text(Components(path))
  /\ \A c \in Range(Components(path)) : c \notin {<<".">>, <<".", ".">>}

-----------------------------------------------------------------------------
\* inode_path_to_abs() writes nothing outside its output buffer, neither a
\* component, nor a "/", nor the end of the string, and what chdir() and cd
\* store fits the buffers they store it in.
NoOverrun ==
  /\ last.r.top < PATH_MAX
  /\ Len(cwd) < PATH_MAX /\ Len(prev_path) < PATH_MAX

\* inode_path_to_abs() computes what the components of the path say as
\* operations on the names of the working directory, for every path that is
\* not too long, whatever "/", "." and ".." it holds.
ResolvesAsStack ==
  LET w == Walk(last.from, last.path) IN
  /\ last.r.res = "ok" => w.fits /\ last.r.out = Text(w.stack)
  /\ last.r.res = "ENAMETOOLONG" =>
       \/ Len(last.path) >= PATH_MAX - 1 \/ ~w.fits
       \/ last.path[1] # "/" /\ Len(last.from) = PATH_MAX - 1

\* However it was reached, the working directory is an absolute path without
\* ".", "..", empty components or a "/" at its end, as inode_lookup() and the
\* next resolution need it, and so is the directory "cd -" goes to.
CwdIsNormal == Normal(cwd) /\ Normal(prev_path)

-----------------------------------------------------------------------------
\* As the comment on inode_path_to_abs() has it, a relative path is resolved
\* relative to the working directory: ".." leads up from everywhere.
UpFromEverywhere == inode_path_to_abs(cwd, <<".", ".">>).res = "ok"

\* As doc/shell.md has it, "cd -" changes back to the previous directory: its
\* path is one that chdir() accepts.
BackToPrevious ==
  LET r == inode_path_to_abs(cwd, prev_path) IN r.res = "ok" /\ r.out = prev_path
=============================================================================
