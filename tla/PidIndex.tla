------------------------------ MODULE PidIndex ------------------------------
(***************************************************************************)
(* What ctx->tasks_rbtree is for: an index from the pids of the running    *)
(* processes to the nodes of their tasks, in which no pid and no node      *)
(* occurs twice.  RBTree.tla keeps it as long as its caller asks for these *)
(* steps only, and Supervisor.tla is a caller that does.                   *)
(***************************************************************************)
CONSTANTS Keys, Nodes

VARIABLE index      \* a set of pairs <<key, node>>

TypeOK == index \subseteq Keys \X Nodes

Init == index = {}

Insert(k, n) ==
  /\ \A e \in index : e[1] # k /\ e[2] # n
  /\ index' = index \cup {<<k, n>>}

Delete(k, n) ==
  /\ <<k, n>> \in index
  /\ index' = index \ {<<k, n>>}

\* Only the pair that is new can be the one that was inserted.
Next ==
  \/ \E e \in (index' \ index) \cap (Keys \X Nodes) : Insert(e[1], e[2])
  \/ \E e \in index : Delete(e[1], e[2])

Spec == Init /\ [][Next]_index
=============================================================================
