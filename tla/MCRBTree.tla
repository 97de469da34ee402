------------------------------ MODULE MCRBTree ------------------------------
(***************************************************************************)
(* Instances of RBTree.tla: the node of task i gets pid i.  The code never *)
(* looks at which node carries a key, so this loses no shape of the tree.  *)
(***************************************************************************)
EXTENDS RBTree

CONSTANT Size

MCNodes  == 1..Size
MCKeysOf == [n \in MCNodes |-> {n}]

(***************************************************************************)
(* A tree that is large enough for a fixup of a deletion to climb: the     *)
(* nodes come in ascending order, as pids do, and once the tree is full    *)
(* they leave it in any order, the greatest one last.                      *)
(***************************************************************************)
Grow(n) == TreeNodes = 1..(n - 1) /\ InsertBegin(n, n)

Shrink(n) ==
  /\ Size \in TreeNodes
  /\ n = Size => TreeNodes = {Size}
  /\ DeleteBegin(n)

GrowInit == Init /\ heap.red = {}

GrowNext ==
  \/ \E n \in Nodes : pc = "idle" /\ (Grow(n) \/ Shrink(n))
  \/ Step

GrowSpec == GrowInit /\ [][GrowNext]_vars /\ WF_vars(Step)
=============================================================================
