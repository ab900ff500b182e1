----------------------------- MODULE MCSemMutex -----------------------------
(***************************************************************************)
(* SemMutex, and Sched with it, for TLC: three process slots, one mutex    *)
(* and another semaphore that is used in any way, with values 0 to 2.      *)
(***************************************************************************)
EXTENDS SemMutex
CONSTANTS mutex, event
MCSems == {mutex, event}
=============================================================================
