------------------------------- MODULE MCVfs -------------------------------
(***************************************************************************)
(* Vfs for TLC, and Files with it: one process, buffers for two nodes or   *)
(* for a node, a mount and an open directory of the card, one name that is *)
(* too long, and a directory below the root.                               *)
(***************************************************************************)
EXTENDS Vfs

CONSTANTS etc, dev, tooLong

MCNames == {etc, dev, tooLong}
MCLongNames == {tooLong}
MCPaths == {<<>>, <<etc>>, <<dev>>, <<tooLong>>, <<etc, dev>>}
MCPerms == {All, All \cup {"t"}}
MCMasks == {{"x"}}
MCTypes == {"chr"}
MCAccs == {{"r"}}

\* No call reads what the last one reported.
MCView == <<fd, count, opened, crashed, buf, finode, finfo, posn, umask>>
=============================================================================
