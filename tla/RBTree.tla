------------------------------- MODULE RBTree -------------------------------
(***************************************************************************)
(* The red-black tree that context.c keeps the nodes of the running tasks  *)
(* in: rbtree_insert, rbtree_delete and the walk of context_find_task,     *)
(* pointer by pointer.  An action is one iteration of a loop of the code,  *)
(* or the straight code between two loops.  Source: src/src/rbtree.c,      *)
(* rbtree.h and context_find_task() of context.c.                          *)
(*                                                                         *)
(* The code writes each case twice, with left and right exchanged; here    *)
(* the side is a parameter.  rbtree_min() and rbtree_max() are never       *)
(* called.                                                                 *)
(***************************************************************************)
EXTENDS Naturals, FiniteSets

CONSTANTS
  Nodes,    \* the nodes that are embedded in the tasks
  KeysOf,   \* the pids that the task of a node may get
  Nil,      \* the sentinel, &ctx->sentinel
  NULL      \* the null pointer

ASSUME RBTreeAssumption ==
  /\ IsFiniteSet(Nodes)
  /\ KeysOf \in [Nodes -> SUBSET (Nat \ {0})]
  /\ Nil \notin Nodes /\ NULL \notin Nodes /\ Nil # NULL

Sides   == {"left", "right"}
Cells   == Nodes \cup {Nil}
Ptrs    == Cells \cup {NULL}
Keys    == UNION {KeysOf[n] : n \in Nodes}
Opp(s)  == IF s = "left" THEN "right" ELSE "left"

VARIABLES
  heap,     \* the pointers and colours of the cells, and tree->root
  key,      \* node->key
  pc,       \* the loop that is being run
  node, temp, subst,    \* local variables of the code
  goal      \* the key that is looked up

vars == <<heap, key, pc, node, temp, subst, goal>>

Heaps == [kid    : [Sides -> [Cells -> Ptrs]],
          parent : [Cells -> Ptrs],
          red    : SUBSET Cells,
          root   : Cells]

Locations == {"idle", "insert", "insert_fix", "min", "unlink", "delete_fix", "find"}

TypeOK ==
  /\ heap \in Heaps
  /\ key \in [Nodes -> Keys \cup {0}]
  /\ pc \in Locations
  /\ node \in Nodes \cup {NULL}
  /\ temp \in Ptrs
  /\ subst \in Nodes \cup {NULL}
  /\ goal \in Keys \cup {0}

\* rbtree_init().  The colour of a node is whatever its memory held; its links
\* and its key are set before they are read.
Init ==
  /\ \E R \in SUBSET Nodes :
       heap = [kid    |-> [s \in Sides |-> [c \in Cells |-> NULL]],
               parent |-> [c \in Cells |-> NULL],
               red    |-> R,
               root   |-> Nil]
  /\ key = [n \in Nodes |-> 0]
  /\ pc = "idle"
  /\ node = NULL /\ temp = NULL /\ subst = NULL
  /\ goal = 0

\* Reading a heap.
KidOf(h, s, c) == h.kid[s][c]
ParentOf(h, c) == h.parent[c]
RedIn(h, c)    == c \in h.red
RootOf(h)      == h.root

Left(c)   == KidOf(heap, "left", c)
Right(c)  == KidOf(heap, "right", c)
Parent(c) == ParentOf(heap, c)
Red(c)    == RedIn(heap, c)
Black(c)  == ~Red(c)

\* The side of its parent that c hangs on: the code asks for the left first.
SideIn(h, c) == IF c = KidOf(h, "left", ParentOf(h, c)) THEN "left" ELSE "right"
SideOf(c)    == SideIn(heap, c)

\* The nodes that the links of S point to.
Kids(S) == {KidOf(heap, s, d) : s \in Sides, d \in S} \ {Nil, NULL}

\* S and all nodes below it.
Below[S \in SUBSET Nodes] == IF Kids(S) \subseteq S THEN S ELSE Below[S \cup Kids(S)]

\* The nodes of the tree below c, c included.
Reach(c) == Below[{c} \ {Nil, NULL}]

TreeNodes == Reach(RootOf(heap))

\* The code returns to its caller; its local variables are gone.
Return ==
  /\ pc' = "idle"
  /\ node' = NULL /\ temp' = NULL /\ subst' = NULL /\ goal' = 0

-----------------------------------------------------------------------------
(* Writing to the heap *)

Paint(h, R, B) == [h EXCEPT !.red = (h.red \cup R) \ B]

WithKid(h, s, c, d)  == [h EXCEPT !.kid[s][c] = d]
WithParent(h, c, p)  == [h EXCEPT !.parent[c] = p]
WithRoot(h, c)       == [h EXCEPT !.root = c]
WithKids(h, c, l, r) == WithKid(WithKid(h, "left", c, l), "right", c, r)

\* The link of h that points to c, tree->root or a link of its parent, is set
\* to d; c is looked for on side s of its parent first.
Replace(h, c, d, s) ==
  IF c = RootOf(h) THEN WithRoot(h, d)
  ELSE LET p == ParentOf(h, c)
           q == IF c = KidOf(h, s, p) THEN s ELSE Opp(s)
       IN WithKid(h, q, p, d)

Adopt(h, c, p) == IF c = Nil THEN h ELSE WithParent(h, c, p)

\* c has no kids, and p above it.
Leaf(h, c, p) == WithKids(WithParent(h, c, p), c, Nil, Nil)

\* t takes the place of c in the tree, and c hangs on side s of it.
Exchange(h, c, t, s) ==
  WithParent(WithKid(Replace(WithParent(h, t, ParentOf(h, c)), c, t, s), s, t, c), c, t)

\* Mutant of Rotate: the parent of the child that changes sides is not set.
BugRotate(h, c, s) ==
  LET t == KidOf(h, Opp(s), c)
  IN Exchange(WithKid(h, Opp(s), c, KidOf(h, s, t)), c, t, s)

\* rbtree_left_rotate() for s = "left", rbtree_right_rotate() for "right":
\* c goes down on side s, and its child on the other side takes its place.
Rotate(h, c, s) ==
  LET t == KidOf(h, Opp(s), c)
  IN Exchange(Adopt(WithKid(h, Opp(s), c, KidOf(h, s, t)), KidOf(h, s, t), c), c, t, s)

-----------------------------------------------------------------------------
(* rbtree_insert *)

\* The caller has set the key of a node that is not in the tree.
InsertBegin(n, k) ==
  /\ pc = "idle"
  /\ n \notin TreeNodes
  /\ \A m \in TreeNodes : key[m] # k
  /\ key' = [key EXCEPT ![n] = k]
  /\ IF RootOf(heap) = Nil
       THEN /\ heap' = WithRoot(Leaf(Paint(heap, {}, {n}), n, NULL), n)
            /\ UNCHANGED <<pc, node, temp>>
       ELSE /\ pc' = "insert" /\ node' = n /\ temp' = RootOf(heap)
            /\ UNCHANGED heap
  /\ UNCHANGED <<subst, goal>>

\* Mutant of InsertSide: left and right are swapped.
BugInsertSide == IF key[node] > key[temp] THEN "left" ELSE "right"

\* The side of temp on which the new node belongs.
InsertSide == IF key[node] < key[temp] THEN "left" ELSE "right"

\* Mutant of InsertDescend: temp = *p is missing.
BugInsertDescend ==
  /\ pc = "insert"
  /\ KidOf(heap, InsertSide, temp) # Nil
  /\ UNCHANGED vars

InsertDescend ==
  /\ pc = "insert"
  /\ KidOf(heap, InsertSide, temp) # Nil
  /\ temp' = KidOf(heap, InsertSide, temp)
  /\ UNCHANGED <<heap, key, pc, node, subst, goal>>

InsertLink ==
  /\ pc = "insert"
  /\ KidOf(heap, InsertSide, temp) = Nil
  /\ heap' = Paint(Leaf(WithKid(heap, InsertSide, temp, node), node, temp), {node}, {})
  /\ pc' = "insert_fix"
  /\ temp' = NULL
  /\ UNCHANGED <<key, node, subst, goal>>

InsertFixGoesOn == node # RootOf(heap) /\ Red(Parent(node))

\* The uncle is red: colours change and the violation moves up.
InsertRecolour ==
  /\ pc = "insert_fix"
  /\ InsertFixGoesOn
  /\ LET p == Parent(node)
         g == Parent(p)
         u == KidOf(heap, Opp(SideOf(p)), g)
     IN /\ Red(u)
        /\ heap' = Paint(heap, {g}, {p, u})
        /\ node' = g
  /\ UNCHANGED <<key, pc, temp, subst, goal>>

\* The parent of c comes up on side s, and takes the black of the grandparent.
Lift(h, c, s) ==
  LET p == ParentOf(h, c)
      g == ParentOf(h, p)
  IN Rotate(Paint(h, {g}, {p}), g, Opp(s))

\* The uncle is black: one rotation, or two when the node is an inner grandchild.
InsertRotate ==
  /\ pc = "insert_fix"
  /\ InsertFixGoesOn
  /\ LET p == Parent(node)
         s == SideOf(p)
     IN /\ Black(KidOf(heap, Opp(s), Parent(p)))
        /\ IF node = KidOf(heap, Opp(s), p)
             THEN heap' = Lift(Rotate(heap, p, s), p, s) /\ node' = p
             ELSE heap' = Lift(heap, node, s) /\ UNCHANGED node
  /\ UNCHANGED <<key, pc, temp, subst, goal>>

\* Mutant of InsertDone: the root stays red.
BugInsertDone ==
  /\ pc = "insert_fix"
  /\ ~InsertFixGoesOn
  /\ Return
  /\ UNCHANGED <<heap, key>>

InsertDone ==
  /\ pc = "insert_fix"
  /\ ~InsertFixGoesOn
  /\ heap' = Paint(heap, {}, {RootOf(heap)})
  /\ Return
  /\ UNCHANGED key

-----------------------------------------------------------------------------
(* rbtree_delete *)

\* The caller deletes a node of the tree; with two children its place is taken
\* by the least node on its right.
DeleteBegin(n) ==
  /\ pc = "idle"
  /\ n \in TreeNodes
  /\ node' = n
  /\ IF Left(n) = Nil \/ Right(n) = Nil
       THEN pc' = "unlink" /\ subst' = n
       ELSE pc' = "min" /\ subst' = Right(n)
  /\ UNCHANGED <<heap, key, temp, goal>>

DeleteMin ==
  /\ pc = "min"
  /\ IF Left(subst) # Nil
       THEN subst' = Left(subst) /\ UNCHANGED pc
       ELSE pc' = "unlink" /\ UNCHANGED subst
  /\ UNCHANGED <<heap, key, node, temp, goal>>

\* rbtree_node_init(): the colour is left alone.
NodeInit(h, c) ==
  WithParent(WithKids(h, c, NULL, NULL), c, NULL)

\* The only child of subst, or the sentinel.
Orphan == IF subst = node /\ Left(node) # Nil THEN Left(node) ELSE Right(subst)

\* Mutant of DeleteRoot: the node is cleared before its child is read.
BugDeleteRoot ==
  /\ pc = "unlink"
  /\ subst = RootOf(heap)
  /\ LET h == NodeInit(heap, node)
     IN heap' = WithRoot(h, KidOf(h, "right", node))
  /\ key' = [key EXCEPT ![node] = 0]
  /\ Return

\* subst is the root, and so the node that is deleted.
DeleteRoot ==
  /\ pc = "unlink"
  /\ subst = RootOf(heap)
  /\ heap' = NodeInit(WithRoot(Paint(heap, {}, {Orphan}), Orphan), node)
  /\ key' = [key EXCEPT ![node] = 0]
  /\ Return

\* The colour of d is given to c.
Dye(h, c, d) == IF RedIn(h, d) THEN Paint(h, {c}, {}) ELSE Paint(h, {}, {c})

\* The kids of c know it as their parent.
ClaimKids(h, c) == Adopt(Adopt(h, KidOf(h, "left", c), c), KidOf(h, "right", c), c)

\* Mutant of TakeLinks: the right link is not taken.
BugTakeLinks(h) ==
  WithKid(WithParent(h, subst, ParentOf(h, node)), "left", subst, KidOf(h, "left", node))

\* The links of node are copied to subst.
TakeLinks(h) ==
  WithKids(WithParent(h, subst, ParentOf(h, node)),
           subst, KidOf(h, "left", node), KidOf(h, "right", node))

\* subst takes the links and the colour of node.
TakePlace(h) ==
  ClaimKids(Replace(Dye(TakeLinks(h), subst, node), node, subst, "left"), subst)

\* The cell that the parent of Orphan is to be.
NewParent == IF subst # node /\ Parent(subst) = node THEN subst ELSE Parent(subst)

\* Mutant of Unlinked: the parent of the sentinel is not set.
BugUnlinked == Adopt(WithKid(heap, SideOf(subst), Parent(subst), Orphan), Orphan, NewParent)

\* Orphan hangs where subst was.
Unlinked == WithParent(WithKid(heap, SideOf(subst), Parent(subst), Orphan), Orphan, NewParent)

DeleteUnlink ==
  /\ pc = "unlink"
  /\ subst # RootOf(heap)
  /\ heap' = NodeInit(IF subst = node THEN Unlinked ELSE TakePlace(Unlinked), node)
  /\ key' = [key EXCEPT ![node] = 0]
  /\ IF Red(subst)
       THEN Return
       ELSE /\ pc' = "delete_fix" /\ temp' = Orphan
            /\ node' = NULL /\ subst' = NULL
            /\ UNCHANGED goal

DeleteFixGoesOn == temp # RootOf(heap) /\ Black(temp)

\* A red sibling of the kid of p on side s comes up.
BlackenSibling(h, p, s) ==
  LET w == KidOf(h, Opp(s), p)
  IN IF RedIn(h, w) THEN Rotate(Paint(h, {p}, {w}), p, s) ELSE h

\* A red near kid of the sibling w comes up when the far one is black.
RedFar(h, w, s) ==
  LET near == KidOf(h, s, w)
  IN IF RedIn(h, KidOf(h, Opp(s), w)) THEN h ELSE Rotate(Paint(h, {w}, {near}), w, Opp(s))

\* The sibling comes up with the colour of p; p and the far kid are black.
LiftSibling(h, p, s) ==
  LET w == KidOf(h, Opp(s), p)
  IN Rotate(Paint(Dye(h, w, p), {}, {p, KidOf(h, Opp(s), w)}), p, s)

\* Mutant of DeleteFix: the loop does not end after the last rotation.
BugDeleteFix ==
  /\ pc = "delete_fix"
  /\ DeleteFixGoesOn
  /\ LET s == SideOf(temp)
         p == Parent(temp)
         h == BlackenSibling(heap, p, s)
         w == KidOf(h, Opp(s), p)
     IN IF \A q \in Sides : ~RedIn(h, KidOf(h, q, w))
          THEN heap' = Paint(h, {w}, {}) /\ temp' = p
          ELSE heap' = LiftSibling(RedFar(h, w, s), p, s) /\ UNCHANGED temp
  /\ UNCHANGED <<key, pc, node, subst, goal>>

\* One iteration of the fixup; temp lacks a black node.
DeleteFix ==
  /\ pc = "delete_fix"
  /\ DeleteFixGoesOn
  /\ LET s == SideOf(temp)
         p == Parent(temp)
         h == BlackenSibling(heap, p, s)
         w == KidOf(h, Opp(s), p)
     IN IF \A q \in Sides : ~RedIn(h, KidOf(h, q, w))
          THEN heap' = Paint(h, {w}, {}) /\ temp' = p
          ELSE heap' = LiftSibling(RedFar(h, w, s), p, s) /\ temp' = RootOf(heap')
  /\ UNCHANGED <<key, pc, node, subst, goal>>

DeleteDone ==
  /\ pc = "delete_fix"
  /\ ~DeleteFixGoesOn
  /\ heap' = Paint(heap, {}, {temp})
  /\ Return
  /\ UNCHANGED key

-----------------------------------------------------------------------------
(* context_find_task *)

FindBegin(k) ==
  /\ pc = "idle"
  /\ pc' = "find"
  /\ goal' = k
  /\ temp' = RootOf(heap)
  /\ UNCHANGED <<heap, key, node, subst>>

\* Mutant of FindDescend: the walk goes right where it should go left.
BugFindDescend ==
  /\ pc = "find"
  /\ temp # Nil
  /\ goal # key[temp]
  /\ temp' = IF goal > key[temp] THEN Left(temp) ELSE Right(temp)
  /\ UNCHANGED <<heap, key, pc, node, subst, goal>>

FindDescend ==
  /\ pc = "find"
  /\ temp # Nil
  /\ goal # key[temp]
  /\ temp' = IF goal < key[temp] THEN Left(temp) ELSE Right(temp)
  /\ UNCHANGED <<heap, key, pc, node, subst, goal>>

\* The walk returns NULL at the sentinel, and the task of temp otherwise.
FindDone ==
  /\ pc = "find"
  /\ temp # Nil => goal = key[temp]
  /\ Return
  /\ UNCHANGED <<heap, key>>

-----------------------------------------------------------------------------
Caller ==
  \/ \E n \in Nodes : DeleteBegin(n) \/ \E k \in KeysOf[n] : InsertBegin(n, k)
  \/ \E k \in Keys : FindBegin(k)

Step ==
  \/ InsertDescend \/ InsertLink \/ InsertRecolour \/ InsertRotate \/ InsertDone
  \/ DeleteMin \/ DeleteRoot \/ DeleteUnlink \/ DeleteFix \/ DeleteDone
  \/ FindDescend \/ FindDone

Next == Caller \/ Step

Spec == Init /\ [][Next]_vars

\* The code that is running goes on.
LiveSpec == Spec /\ WF_vars(Step)

-----------------------------------------------------------------------------
(* Safety *)

Subtree(s, n) == Reach(KidOf(heap, s, n))

\* At every step of a rotation or a deletion the tree is a search tree whose
\* nodes know their parents (the root may remember one that has left).
SearchTree ==
  \A n \in TreeNodes :
    /\ \A m \in Subtree("left", n)  : key[m] < key[n]
    /\ \A m \in Subtree("right", n) : key[n] < key[m]
    /\ \A s \in Sides : KidOf(heap, s, n) \in Nodes => Parent(KidOf(heap, s, n)) = n

\* The link to the cell that lacks a black node, as a side and a parent.
ShortLink ==
  IF pc = "delete_fix" /\ temp # RootOf(heap) THEN <<SideOf(temp), Parent(temp)>> ELSE <<>>

Heights   == 0..(2 * Cardinality(Nodes))
Weight(c) == IF Black(c) THEN 1 ELSE 0

\* A way is the cell that it has come to and the black nodes that it has passed;
\* the short link counts one.
Follow(w, s) ==
  <<KidOf(heap, s, w[1]),
    w[2] + Weight(w[1]) + (IF <<s, w[1]>> = ShortLink THEN 1 ELSE 0)>>

Further(W) ==
  {Follow(w, s) : s \in Sides, w \in {v \in W : v[1] \in Nodes}} \cap (Ptrs \X Heights)

\* The ways of W and all that they lead to.
Ways[W \in SUBSET (Ptrs \X Heights)] ==
  IF Further(W) \subseteq W THEN W ELSE Ways[W \cup Further(W)]

\* The numbers of black nodes on the ways from the root down to the sentinel.
BlackHeights == {w[2] : w \in {v \in Ways[{<<RootOf(heap), 0>>}] : v[1] = Nil}}

\* The tree is balanced whenever the code is not in a fixup, and in a fixup it
\* has a single violation, at the node that the loop looks at.
OneViolation ==
  /\ Black(Nil)
  /\ pc # "insert_fix" => Black(RootOf(heap)) \/ (pc = "delete_fix" /\ temp = RootOf(heap))
  /\ \A n \in TreeNodes, s \in Sides :
       Red(n) /\ Red(KidOf(heap, s, n)) =>
         \/ pc = "insert_fix" /\ KidOf(heap, s, n) = node
         \/ pc = "delete_fix" /\ temp \in {n, KidOf(heap, s, n)}
  /\ Cardinality(BlackHeights) = 1

\* What the fixup loops dereference exists: a red parent has a parent, a cell
\* that lacks a black node has a parent (also the sentinel, whose parent link
\* is left over from the last deletion) and a sibling, and the sibling of it is
\* no sentinel.
PointersValid ==
  /\ pc = "insert_fix" /\ InsertFixGoesOn => Parent(Parent(node)) \in TreeNodes
  /\ pc = "delete_fix" /\ DeleteFixGoesOn =>
       /\ Parent(temp) \in TreeNodes
       /\ temp = KidOf(heap, SideOf(temp), Parent(temp))
       /\ KidOf(heap, Opp(SideOf(temp)), Parent(temp)) \in TreeNodes
  /\ pc = "find" => temp \in TreeNodes \cup {Nil}

\* The three of them: what a deep tree must not break either.
RedBlackTree == SearchTree /\ OneViolation /\ PointersValid

\* The walk misses no node: what has the key is below the cell it looks at.
FindMissesNothing ==
  pc = "find" => \A n \in TreeNodes : key[n] = goal => n \in Reach(temp)

index == {<<key[n], n>> : n \in TreeNodes}

Index == INSTANCE PidIndex

\* Seen from outside, insertion adds one node, deletion takes one away, and the
\* rotations and colours change nothing.
KeepsIndex == Index!Spec

-----------------------------------------------------------------------------
(* Liveness *)

\* Every call returns: no loop runs for ever.
CallsReturn == (pc # "idle") ~> (pc = "idle")
=============================================================================
