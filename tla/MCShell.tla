------------------------------ MODULE MCShell ------------------------------
(***************************************************************************)
(* Shell for TLC.  A card with a partition, one without, and one that has  *)
(* no FAT32 volume take turns in the slot; the root directories of the     *)
(* first two are in a block of the same number, and one of them has no end *)
(* mark.  The buffers run out in the middle of the root filesystem, at the *)
(* mount, when a directory is opened, or not at all.                       *)
(***************************************************************************)
EXTENDS Shell, TLC

CONSTANTS partitioned, whole, other

MCCards == {partitioned, whole, other}
MCPartitionStart == partitioned :> 1 @@ whole :> 0 @@ other :> 1
MCUnsupported == {other}

BootOf(reserved) == [cluster_size |-> 1, reserved |-> reserved, fat_size |-> 1, root |-> 2]
MCBoot == partitioned :> BootOf(1) @@ whole :> BootOf(2) @@ other :> BootOf(1)
MCPartSize == [c \in MCCards |-> 8]
MCRootDir == partitioned :> <<".b", "deleted", "a", "end">> @@ whole :> <<"c", ".b", "d", "e">>
             @@ other :> <<"end">>
MCDotted == {".b"}

L == <<"L">>
U == <<"U">>
MCLines ==
  {<<L, <<"d">>>>, <<L, <<"-", "l", "a">>, <<"d">>>>, <<L, <<"-", "F">>, <<"-">>>>,
   <<L, <<"-", "l", "s">>, <<"d">>>>, <<L, <<"-", "-">>, <<"d">>, <<"r">>>>,
   <<L, <<"-", "-", "a">>>>, <<L>>,
   <<U, <<"-", "s", "F">>>>, <<U, <<"-", "s">>, <<"-", "a">>>>}

\* No call reads what the last one returned.
MCView == <<card, ready, detect, geometry, block, cblock, mode, inUse, pc, shellVars, lsVars,
            getoptVars>>
=============================================================================
