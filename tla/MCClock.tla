------------------------------- MODULE MCClock -------------------------------
(***************************************************************************)
(* A counter of four bits, of which sys_clock() returns two, so that it    *)
(* wraps around within every wait.                                         *)
(***************************************************************************)
EXTENDS Clock
==============================================================================
