----------------------------- MODULE MCUserAlloc -----------------------------
(***************************************************************************)
(* 48 bytes of user space, in memory with room for what a split misplaces. *)
(***************************************************************************)
EXTENDS UserAlloc

MCArgvs == {<<>>, <<1>>, <<5, NULL>>, <<0, 2, 1>>}
==============================================================================
