-------------------------------- MODULE Tree --------------------------------
(***************************************************************************)
(* What the system calls promise of the tree of names in the RAM           *)
(* filesystem: it grows by one node at a time, at the end of a directory,  *)
(* and directories are mounted on.  Nothing goes away, moves or changes    *)
(* its type.                                                               *)
(*                                                                         *)
(* A directory that something is mounted on still takes new names, and     *)
(* then also ones it has: what it holds cannot be seen any more.           *)
(***************************************************************************)
EXTENDS Sequences

LOCAL INSTANCE TLC

CONSTANTS
  Nodes,
  Root,
  Names,
  Types  \* of nodes, one of them "dir"

\* Of every node there is: its type, its entries in order, each a name and a
\* node, and whether something is mounted on it.
VARIABLE tree

Node(type) == [type |-> type, dir |-> <<>>, mounted |-> FALSE]

Init == tree = Root :> Node("dir")

Takes(d, name) == d.mounted \/ \A k \in DOMAIN d.dir : d.dir[k][1] # name

\* The tree t becomes the tree u.
Make(t, u, d, n) ==
  \E name \in Names, type \in Types :
    /\ Takes(t[d], name)
    /\ u = [t EXCEPT ![d].dir = Append(@, <<name, n>>)] @@ n :> Node(type)

Mount(t, u, d) == u = [t EXCEPT ![d].mounted = TRUE]

Grows(t, u) ==
  /\ u # t
  /\ \E d \in {i \in DOMAIN t : t[i].type = "dir"} :
       Mount(t, u, d) \/ \E n \in Nodes \ DOMAIN t : Make(t, u, d, n)

Next == Grows(tree, tree')

Spec == Init /\ [][Next]_tree
=============================================================================
