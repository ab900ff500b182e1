------------------------------ MODULE MCCmdLine ------------------------------
(***************************************************************************)
(* CmdLine for TLC: all lines of up to six characters, with room for two   *)
(* arguments, and a table of builtins larger than that of the shell.       *)
(***************************************************************************)
EXTENDS CmdLine

\* The search does not look at the line any more, nor does what follows it.
MCView == <<IF pc \in {"find"} \cup Called THEN <<>> ELSE lineVars, pc, vars>>
==============================================================================
