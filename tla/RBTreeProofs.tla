---------------------------- MODULE RBTreeProofs ----------------------------
(***************************************************************************)
(* Theorems about RBTree.tla, for any finite set of nodes and any keys.    *)
(* RBHeapProofs.tla has the inductive invariant IInv and what the writes   *)
(* of each action do to a heap; here an action at a time keeps IInv, and   *)
(* the properties of RBTree.tla follow from it.                            *)
(***************************************************************************)
EXTENDS RBHeapProofs

-----------------------------------------------------------------------------
(* From one state to the next *)

\* Keys are positive numbers.
LEMMA KeysAreNats ==
  /\ Keys \subseteq Nat /\ 0 \notin Keys
  /\ \A n \in Nodes : KeysOf[n] \subseteq Keys
BY RBTreeAssumption DEF Keys

\* What ReachFacts says of the heap of a state.
ReachesTree == \A T, D : heap \in Heaps /\ Tree(heap, T, D) => TreeNodes = T

\* The code can reach the nodes of the tree and no others.
LEMMA ReachNow == ReachesTree
BY ReachFacts DEF ReachesTree

\* The same of the next state.
LEMMA ReachNext == ReachesTree'
BY ReachNow, PTL

\* A tree that satisfies the invariant after a step proves it.
LEMMA InvNext ==
  ASSUME TypeOK', NEW T, NEW D, NEW b, TreeInv(T, D, b)'
  PROVE  IInv' /\ TreeNodes' = T
<1>1. T \in SUBSET Nodes /\ D \in [Cells -> SUBSET Nodes]
  BY DEF TreeInv, Tree
<1>2. b \in [Cells -> Nat]
  <2>1. Settled(heap', T, b) => b \in [Cells -> Nat]
    BY DEF Settled, Counted
  <2>2. InsertFixing(heap', T, b, node') => b \in [Cells -> Nat]
    BY DEF InsertFixing, Counted
  <2>3. DeleteFixing(heap', T, b, temp') => b \in [Cells -> Nat]
    BY DEF DeleteFixing, Counted
  <2>4. pc' \in {"idle", "insert", "min", "unlink", "find"} \/ pc' = "insert_fix" \/ pc' = "delete_fix"
    BY DEF TypeOK, Locations
  <2>5. QED
    BY <2>1, <2>2, <2>3, <2>4 DEF TreeInv, Colours
<1>3. TreeNodes' = T
  <2>1. heap' \in Heaps /\ Tree(heap', T, D)
    BY DEF TypeOK, TreeInv
  <2>2. QED
    BY <2>1, ReachNext DEF ReachesTree
<1>4. QED
  BY <1>1, <1>2, <1>3 DEF IInv

\* Keys that are the same in the tree sort it as well.
LEMMA KeysKept ==
  ASSUME NEW h, NEW T, NEW D, Tree(h, T, D), NEW k, Sorted(h, T, D, k),
         NEW k2, \A m \in T : k2[m] = k[m]
  PROVE  Sorted(h, T, D, k2)
<1>1. \A n \in T, s \in Sides : \A m \in D[KidOf(h, s, n)] : m \in T
  <2>1. ASSUME NEW n \in T, NEW s \in Sides, NEW m \in D[KidOf(h, s, n)] PROVE m \in T
    <3>1. KidOf(h, s, n) \in T
      BY DEF Tree
    <3>2. QED
      BY <2>1, <3>1, SubtreesNest
  <2>2. QED
    BY <2>1
<1>2. QED
  BY <1>1 DEF Sorted

\* The heap of a state that satisfies the invariant.
LEMMA InvFacts ==
  ASSUME TypeOK, NEW T, NEW D, NEW b, TreeInv(T, D, b)
  PROVE  /\ Searchable(heap, T, D, key)
         /\ Tree(heap, T, D) /\ Sorted(heap, T, D, key)
         /\ \A n \in T : key[n] \in Keys /\ key[n] \in Nat
         /\ TreeNodes = T
         /\ \A c \in T \cup {Nil} : Reach(c) = D[c]
         /\ T \subseteq Nodes /\ T \subseteq Cells /\ Nil \notin T /\ NULL \notin T
         /\ heap \in Heaps
<1>1. heap \in Heaps /\ Tree(heap, T, D) /\ Sorted(heap, T, D, key)
  BY DEF TypeOK, TreeInv
<1>2. \A n \in T : key[n] \in Keys /\ key[n] \in Nat
  BY KeysAreNats DEF TreeInv
<1>3. D \in [Cells -> SUBSET Nodes] /\ T \subseteq Nodes
  BY <1>1 DEF Tree
<1>4. Searchable(heap, T, D, key)
  BY <1>1, <1>2, <1>3 DEF Searchable
<1>5. TreeNodes = T /\ \A c \in T \cup {Nil} : Reach(c) = D[c]
  BY <1>1, ReachFacts
<1>6. T \subseteq Cells /\ Nil \notin T /\ NULL \notin T
  BY <1>1, <1>3, KidsAreCells, RBTreeAssumption
<1>7. QED
  BY <1>1, <1>2, <1>3, <1>4, <1>5, <1>6

\* An empty tree.
LEMMA InvInit == Init => IInv
<1> SUFFICES ASSUME Init PROVE IInv
  OBVIOUS
<1>1. TypeOK
  BY RBTreeAssumption, KeysAreNats DEF Init, TypeOK, Heaps, Locations, Ptrs, Cells
<1>2. PICK D : D = [c \in Cells |-> {}]
  OBVIOUS
<1>3. PICK b : b = [c \in Cells |-> 0]
  OBVIOUS
<1>4. RootOf(heap) = Nil /\ ~RedIn(heap, Nil) /\ Nil \in Cells
  BY RBTreeAssumption DEF Init, RootOf, RedIn, Cells
<1>5. Tree(heap, {}, D)
  BY <1>2, <1>4 DEF Tree
<1>6. Settled(heap, {}, b)
  BY <1>3, <1>4 DEF Settled, Counted
<1>7. Sorted(heap, {}, D, key)
  BY DEF Sorted
<1>8. pc = "idle"
  BY DEF Init
<1>9. TreeInv({}, D, b)
  BY <1>5, <1>6, <1>7, <1>8 DEF TreeInv, Colours
<1>10. QED
  <2>1. D \in [Cells -> SUBSET Nodes] /\ b \in [Cells -> Nat]
    BY <1>2, <1>3
  <2>2. QED
    BY <1>1, <1>9, <2>1 DEF IInv

\* The invariant after a return of the code.
LEMMA InvReturn ==
  ASSUME Return, TypeOK, heap' \in Heaps, key' \in [Nodes -> Keys \cup {0}],
         NEW T, NEW D, NEW b,
         Tree(heap', T, D), Sorted(heap', T, D, key'), \A n \in T : key'[n] \in Keys,
         Settled(heap', T, b)
  PROVE  IInv' /\ TreeNodes' = T
<1>1. pc' = "idle" /\ node' = NULL /\ temp' = NULL /\ subst' = NULL /\ goal' = 0
  BY DEF Return
<1>2. TypeOK'
  BY <1>1 DEF TypeOK, Locations, Ptrs
<1>3. TreeInv(T, D, b)'
  BY <1>1 DEF TreeInv, Colours
<1>4. QED
  BY <1>2, <1>3, InvNext

-----------------------------------------------------------------------------
(* rbtree_insert *)

\* An empty tree gets its root, or the search for the place of the new node begins.
LEMMA InsertBeginInv ==
  ASSUME IInv, NEW n \in Nodes, NEW k \in KeysOf[n], InsertBegin(n, k)
  PROVE  /\ IInv'
         /\ RootOf(heap) = Nil => TreeNodes' = TreeNodes \cup {n}
         /\ RootOf(heap) # Nil => TreeNodes' = TreeNodes
<1>1. PICK T, D, b : TypeOK /\ TreeInv(T, D, b)
  BY DEF IInv
<1>2. /\ Tree(heap, T, D) /\ Sorted(heap, T, D, key)
      /\ \A m \in T : key[m] \in Keys
      /\ TreeNodes = T
      /\ T \subseteq Nodes /\ Nil \notin T
      /\ heap \in Heaps
  BY <1>1, InvFacts
<1>3. /\ pc = "idle" /\ n \notin T /\ \A m \in T : key[m] # k
      /\ key' = [key EXCEPT ![n] = k]
      /\ UNCHANGED <<subst, goal>>
  BY <1>2 DEF InsertBegin
<1>4. k \in Keys /\ key \in [Nodes -> Keys \cup {0}]
  BY <1>1, KeysAreNats DEF TypeOK
<1>5. /\ key' \in [Nodes -> Keys \cup {0}] /\ key'[n] = k
      /\ \A m \in T : key'[m] = key[m]
  BY <1>2, <1>3, <1>4
<1>6. Settled(heap, T, b)
  BY <1>1, <1>3 DEF TreeInv, Colours
<1>7. CASE RootOf(heap) = Nil
  <2>1. heap' = WithRoot(Leaf(Paint(heap, {}, {n}), n, NULL), n) /\ UNCHANGED <<pc, node, temp>>
    BY <1>7 DEF InsertBegin
  <2>2. ~RedIn(heap, Nil)
    BY <1>6 DEF Settled, Counted
  <2>3. heap' \in Heaps /\ Planted(heap', n)
    BY <1>2, <2>1, <2>2, PlantWrites
  <2>4. PICK D2 : D2 = [c \in Cells |-> IF c = n THEN {n} ELSE {}]
    OBVIOUS
  <2>5. PICK b2 : b2 = [c \in Cells |-> IF c = n THEN 1 ELSE 0]
    OBVIOUS
  <2>6. Tree(heap', {n}, D2) /\ Sorted(heap', {n}, D2, key') /\ Settled(heap', {n}, b2)
    BY <2>3, <2>4, <2>5, PlantFacts
  <2>7. TypeOK'
    BY <1>1, <1>3, <1>5, <2>1, <2>3 DEF TypeOK
  <2>8. TreeInv({n}, D2, b2)'
    BY <1>3, <1>4, <1>5, <2>1, <2>6 DEF TreeInv, Colours
  <2>9. QED
    <3>1. IInv' /\ TreeNodes' = {n}
      BY <2>7, <2>8, InvNext
    <3>2. T = {}
      BY <1>2, <1>7 DEF Tree
    <3>3. QED
      BY <1>2, <1>7, <3>1, <3>2
<1>8. CASE RootOf(heap) # Nil
  <2>1. heap' = heap /\ pc' = "insert" /\ node' = n /\ temp' = RootOf(heap)
    BY <1>8 DEF InsertBegin
  <2>2. RootOf(heap) \in T /\ D[RootOf(heap)] = T
    BY <1>2, <1>8 DEF Tree
  <2>3. Sorted(heap, T, D, key')
    BY <1>2, <1>5, KeysKept
  <2>4. \A m \in T, s \in Sides : RootOf(heap) \notin D[KidOf(heap, s, m)]
    <3>1. ASSUME NEW m \in T, NEW s \in Sides, RootOf(heap) \in D[KidOf(heap, s, m)] PROVE FALSE
      <4>1. KidOf(heap, s, m) \in T /\ m \notin D[KidOf(heap, s, m)]
        BY <1>2, <3>1 DEF Tree
      <4>2. T \subseteq D[KidOf(heap, s, m)]
        BY <1>2, <2>2, <3>1, <4>1, SubtreesNest
      <4>3. QED
        BY <4>1, <4>2
    <3>2. QED
      BY <3>1
  <2>5. TypeOK'
    BY <1>1, <1>2, <1>3, <1>5, <2>1, <2>2 DEF TypeOK, Locations, Ptrs, Cells
  <2>6. Inserting(T, D)'
    BY <1>2, <1>3, <1>5, <2>1, <2>2, <2>4 DEF Inserting
  <2>7. TreeInv(T, D, b)'
    BY <1>2, <1>5, <1>6, <2>1, <2>3, <2>6 DEF TreeInv, Colours
  <2>8. QED
    BY <1>2, <1>8, <2>5, <2>7, InvNext
<1>9. QED
  BY <1>7, <1>8

\* The walk goes where the new node belongs.
LEMMA InsertDescendInv ==
  ASSUME IInv, InsertDescend
  PROVE  IInv' /\ TreeNodes' = TreeNodes
<1>1. PICK T, D, b : TypeOK /\ TreeInv(T, D, b)
  BY DEF IInv
<1>2. /\ Tree(heap, T, D) /\ Sorted(heap, T, D, key)
      /\ \A m \in T : key[m] \in Keys /\ key[m] \in Nat
      /\ T \subseteq Nodes /\ Nil \notin T
      /\ TreeNodes = T
  BY <1>1, InvFacts
<1>3. PICK s : s = InsertSide
  OBVIOUS
<1>4. /\ pc = "insert" /\ KidOf(heap, s, temp) # Nil /\ temp' = KidOf(heap, s, temp)
      /\ heap' = heap /\ key' = key /\ pc' = pc /\ node' = node /\ subst' = subst /\ goal' = goal
  BY <1>3 DEF InsertDescend
<1>5. /\ node \in Nodes \ T /\ temp \in T /\ key[node] \in KeysOf[node]
      /\ \A m \in T : key[m] # key[node]
      /\ \A n \in T, q \in Sides : temp \in D[KidOf(heap, q, n)] => Before(q, key[node], key[n])
  BY <1>1, <1>4 DEF TreeInv, Inserting
<1>6. key[node] \in Nat
  BY <1>5, KeysAreNats
<1>7. s \in Sides /\ Before(s, key[node], key[temp])
  BY <1>2, <1>3, <1>5, <1>6 DEF InsertSide, Before, Sides
<1>8. temp' \in T /\ ParentOf(heap, temp') = temp
  BY <1>2, <1>4, <1>5, <1>7 DEF Tree
<1>9. ASSUME NEW n \in T, NEW q \in Sides, temp' \in D[KidOf(heap, q, n)]
      PROVE  Before(q, key[node], key[n])
  <2>1. PICK c : c = KidOf(heap, q, n)
    OBVIOUS
  <2>2. c \in T
    BY <1>2, <1>9, <2>1 DEF Tree
  <2>3. CASE temp' = c
    <3>1. KidOf(heap, q, n) = KidOf(heap, s, temp) /\ KidOf(heap, s, temp) # Nil
      BY <1>4, <2>1, <2>3
    <3>2. n = temp /\ q = s
      BY <1>2, <1>5, <1>7, <3>1, OneLink
    <3>3. QED
      BY <1>7, <3>2
  <2>4. CASE temp' # c
    <3>1. temp \in D[c]
      BY <1>2, <1>8, <1>9, <2>1, <2>2, <2>4, SubtreesNest
    <3>2. QED
      BY <1>5, <2>1, <3>1
  <2>5. QED
    BY <2>3, <2>4
<1>10. TypeOK'
  BY <1>1, <1>2, <1>4, <1>8 DEF TypeOK, Ptrs, Cells
<1>11. Inserting(T, D)'
  BY <1>4, <1>5, <1>8, <1>9 DEF Inserting
<1>12. Settled(heap, T, b)
  BY <1>1, <1>4 DEF TreeInv, Colours
<1>13. TreeInv(T, D, b)'
  BY <1>2, <1>4, <1>11, <1>12 DEF TreeInv, Colours
<1>14. QED
  BY <1>2, <1>10, <1>13, InvNext

\* The new node is a red leaf where it belongs.
LEMMA InsertLinkInv ==
  ASSUME IInv, InsertLink
  PROVE  IInv' /\ TreeNodes' = TreeNodes \cup {node}
<1>1. PICK T, D, b : TypeOK /\ TreeInv(T, D, b)
  BY DEF IInv
<1>2. /\ Tree(heap, T, D) /\ Sorted(heap, T, D, key)
      /\ \A m \in T : key[m] \in Keys /\ key[m] \in Nat
      /\ T \subseteq Nodes /\ T \in SUBSET Nodes /\ Nil \notin T /\ heap \in Heaps
      /\ TreeNodes = T
  BY <1>1, InvFacts
<1>3. PICK s : s = InsertSide
  OBVIOUS
<1>4. /\ pc = "insert" /\ KidOf(heap, s, temp) = Nil
      /\ heap' = Paint(Leaf(WithKid(heap, s, temp, node), node, temp), {node}, {})
      /\ key' = key /\ pc' = "insert_fix" /\ node' = node /\ temp' = NULL
      /\ subst' = subst /\ goal' = goal
  BY <1>3 DEF InsertLink
<1>5. /\ node \in Nodes \ T /\ temp \in T /\ key[node] \in KeysOf[node]
      /\ \A m \in T : key[m] # key[node]
      /\ \A n \in T, q \in Sides : temp \in D[KidOf(heap, q, n)] => Before(q, key[node], key[n])
  BY <1>1, <1>4 DEF TreeInv, Inserting
<1>6. key[node] \in Nat /\ key[node] \in Keys
  BY <1>5, KeysAreNats
<1>7. s \in Sides /\ Before(s, key[node], key[temp])
  BY <1>2, <1>3, <1>5, <1>6 DEF InsertSide, Before, Sides
<1>8. temp \in Nodes /\ temp # node /\ node \in Nodes
  BY <1>2, <1>5
<1>9. heap' \in Heaps /\ Linked(heap, heap', T, node, temp, s)
  BY <1>2, <1>4, <1>7, <1>8, LinkWrites
<1>10. PICK T2 : T2 = T \cup {node}
  OBVIOUS
<1>11. PICK D2 : D2 = Grown(D, node, temp)
  OBVIOUS
<1>12. PICK b2 : b2 = LeafAdded(b, node)
  OBVIOUS
<1>13. Settled(heap, T, b)
  BY <1>1, <1>4 DEF TreeInv, Colours
<1>14. /\ Tree(heap', T2, D2)
       /\ Sorted(heap', T2, D2, key)
       /\ InsertFixing(heap', T2, b2, node)
  BY <1>2, <1>4, <1>5, <1>7, <1>9, <1>10, <1>11, <1>12, <1>13, LinkFacts
<1>15. TypeOK'
  BY <1>1, <1>4, <1>9 DEF TypeOK, Locations, Ptrs
<1>16. \A m \in T2 : key[m] \in Keys
  BY <1>2, <1>6, <1>10
<1>17. TreeInv(T2, D2, b2)'
  BY <1>4, <1>14, <1>16 DEF TreeInv, Colours
<1>18. QED
  BY <1>2, <1>10, <1>15, <1>17, InvNext

\* What the fixup of an insertion looks at.
LEMMA FixupFacts ==
  ASSUME TypeOK, NEW T, NEW D, NEW b, TreeInv(T, D, b), pc = "insert_fix"
  PROVE  /\ InsertFixing(heap, T, b, node) /\ node \in T
         /\ InsertFixGoesOn =>
              /\ node # RootOf(heap)
              /\ RedIn(heap, ParentOf(heap, node))
              /\ ParentOf(heap, node) \in T
              /\ ParentOf(heap, ParentOf(heap, node)) \in T
              /\ SideOf(Parent(node)) \in Sides
              /\ KidOf(heap, SideOf(Parent(node)), Parent(Parent(node))) = Parent(node)
<1>1. InsertFixing(heap, T, b, node) /\ node \in T /\ Tree(heap, T, D)
  BY DEF TreeInv, Colours, InsertFixing
<1>2. ASSUME InsertFixGoesOn
      PROVE  /\ node # RootOf(heap)
             /\ RedIn(heap, ParentOf(heap, node))
             /\ ParentOf(heap, node) \in T
             /\ ParentOf(heap, ParentOf(heap, node)) \in T
             /\ SideOf(Parent(node)) \in Sides
             /\ KidOf(heap, SideOf(Parent(node)), Parent(Parent(node))) = Parent(node)
  <2>1. node # RootOf(heap) /\ RedIn(heap, ParentOf(heap, node))
    BY <1>2 DEF InsertFixGoesOn, Red, Parent
  <2>2. PICK p : p = ParentOf(heap, node)
    OBVIOUS
  <2>3. p \in T /\ p # RootOf(heap) /\ ParentOf(heap, p) \in T
    BY <1>1, <2>1, <2>2, RedParent
  <2>4. SideIn(heap, p) \in Sides /\ KidOf(heap, SideIn(heap, p), ParentOf(heap, p)) = p
    BY <1>1, <2>3, SideFacts
  <2>5. QED
    BY <2>1, <2>2, <2>3, <2>4 DEF SideOf, Parent
<1>3. QED
  BY <1>1, <1>2

\* The violation moves up two levels.
LEMMA InsertRecolourInv ==
  ASSUME IInv, InsertRecolour
  PROVE  IInv' /\ TreeNodes' = TreeNodes
<1>1. PICK T, D, b : TypeOK /\ TreeInv(T, D, b)
  BY DEF IInv
<1>2. /\ Searchable(heap, T, D, key) /\ Tree(heap, T, D)
      /\ \A m \in T : key[m] \in Keys
      /\ T \subseteq Nodes /\ T \subseteq Cells
      /\ TreeNodes = T
  BY <1>1, InvFacts
<1>3. PICK p : p = ParentOf(heap, node)
  OBVIOUS
<1>4. PICK g : g = ParentOf(heap, p)
  OBVIOUS
<1>5. PICK s : s = SideIn(heap, p)
  OBVIOUS
<1>6. PICK u : u = KidOf(heap, Opp(s), g)
  OBVIOUS
<1>7. /\ pc = "insert_fix" /\ InsertFixGoesOn
      /\ RedIn(heap, u) /\ heap' = Paint(heap, {g}, {p, u}) /\ node' = g
      /\ key' = key /\ pc' = pc /\ temp' = temp /\ subst' = subst /\ goal' = goal
  BY <1>3, <1>4, <1>5, <1>6 DEF InsertRecolour, Parent, SideOf, Red
<1>8. /\ InsertFixing(heap, T, b, node) /\ node # RootOf(heap) /\ RedIn(heap, p)
      /\ g \in T /\ s \in Sides /\ KidOf(heap, s, g) = p
  BY <1>1, <1>3, <1>4, <1>5, <1>7, FixupFacts DEF SideOf, Parent
<1>9. Painted(heap, heap', {g}, {p, u}) /\ Searchable(heap', T, D, key)
  BY <1>2, <1>7, <1>8, PaintSearch
<1>10. InsertFixing(heap', T, Recounted(b, p, u), g)
  BY <1>2, <1>3, <1>4, <1>6, <1>7, <1>8, <1>9, RecolourUncle
<1>11. heap' \in Heaps /\ Tree(heap', T, D) /\ Sorted(heap', T, D, key)
  BY <1>9 DEF Searchable
<1>12. TypeOK'
  BY <1>1, <1>2, <1>7, <1>8, <1>11 DEF TypeOK
<1>13. TreeInv(T, D, Recounted(b, p, u))'
  BY <1>2, <1>7, <1>10, <1>11 DEF TreeInv, Colours
<1>14. QED
  BY <1>2, <1>12, <1>13, InvNext

\* The violation is gone after the rotations.
LEMMA InsertRotateInv ==
  ASSUME IInv, InsertRotate
  PROVE  IInv' /\ TreeNodes' = TreeNodes
<1>1. PICK T, D, b : TypeOK /\ TreeInv(T, D, b)
  BY DEF IInv
<1>2. /\ Searchable(heap, T, D, key) /\ Tree(heap, T, D)
      /\ \A m \in T : key[m] \in Keys
      /\ T \subseteq Nodes /\ T \subseteq Cells
      /\ TreeNodes = T
  BY <1>1, InvFacts
<1>3. PICK p : p = ParentOf(heap, node)
  OBVIOUS
<1>4. PICK s : s = SideIn(heap, p)
  OBVIOUS
<1>5. /\ pc = "insert_fix" /\ InsertFixGoesOn
      /\ ~RedIn(heap, KidOf(heap, Opp(s), ParentOf(heap, p)))
      /\ node = KidOf(heap, Opp(s), p) => heap' = Lift(Rotate(heap, p, s), p, s) /\ node' = p
      /\ node # KidOf(heap, Opp(s), p) => heap' = Lift(heap, node, s) /\ node' = node
      /\ key' = key /\ pc' = pc /\ temp' = temp /\ subst' = subst /\ goal' = goal
  BY <1>3, <1>4 DEF InsertRotate, Parent, SideOf, Red, Black
<1>6. /\ InsertFixing(heap, T, b, node) /\ node \in T /\ node # RootOf(heap) /\ RedIn(heap, p) /\ p \in T
  BY <1>1, <1>3, <1>5, FixupFacts DEF Parent
<1>7. \E D2, b2 : Searchable(heap', T, D2, key) /\ InsertFixing(heap', T, b2, node')
  <2>1. CASE node = KidOf(heap, Opp(s), p)
    BY <1>2, <1>3, <1>4, <1>5, <1>6, <2>1, InsertRotateFacts
  <2>2. CASE node # KidOf(heap, Opp(s), p)
    BY <1>2, <1>3, <1>4, <1>5, <1>6, <2>2, InsertRotateFacts
  <2>3. QED
    BY <2>1, <2>2
<1>8. PICK D2, b2 : Searchable(heap', T, D2, key) /\ InsertFixing(heap', T, b2, node')
  BY <1>7
<1>9. heap' \in Heaps /\ Tree(heap', T, D2) /\ Sorted(heap', T, D2, key)
  BY <1>8 DEF Searchable
<1>10. node' \in Nodes
  BY <1>2, <1>5, <1>6
<1>11. TypeOK'
  BY <1>1, <1>5, <1>9, <1>10 DEF TypeOK
<1>12. TreeInv(T, D2, b2)'
  BY <1>2, <1>5, <1>8, <1>9 DEF TreeInv, Colours
<1>13. QED
  BY <1>2, <1>11, <1>12, InvNext

\* A black root ends the insertion.
LEMMA InsertDoneInv ==
  ASSUME IInv, InsertDone
  PROVE  IInv' /\ TreeNodes' = TreeNodes
<1>1. PICK T, D, b : TypeOK /\ TreeInv(T, D, b)
  BY DEF IInv
<1>2. /\ Searchable(heap, T, D, key) /\ Tree(heap, T, D)
      /\ \A m \in T : key[m] \in Keys
      /\ TreeNodes = T
  BY <1>1, InvFacts
<1>3. /\ pc = "insert_fix" /\ ~InsertFixGoesOn
      /\ heap' = Paint(heap, {}, {RootOf(heap)}) /\ Return /\ key' = key
  BY DEF InsertDone
<1>4. InsertFixing(heap, T, b, node)
  BY <1>1, <1>3, FixupFacts
<1>5. node = RootOf(heap) \/ ~RedIn(heap, ParentOf(heap, node))
  BY <1>3 DEF InsertFixGoesOn, Red, Parent
<1>6. Painted(heap, heap', {}, {RootOf(heap)}) /\ Searchable(heap', T, D, key)
  BY <1>2, <1>3, PaintSearch
<1>7. Settled(heap', T, Blackened(heap, b, RootOf(heap)))
  BY <1>2, <1>4, <1>5, <1>6, InsertSettles
<1>8. heap' \in Heaps /\ Tree(heap', T, D) /\ Sorted(heap', T, D, key')
  BY <1>3, <1>6 DEF Searchable
<1>9. key' \in [Nodes -> Keys \cup {0}] /\ \A m \in T : key'[m] \in Keys
  BY <1>1, <1>2, <1>3 DEF TypeOK
<1>10. QED
  BY <1>1, <1>2, <1>3, <1>7, <1>8, <1>9, InvReturn

-----------------------------------------------------------------------------
(* rbtree_delete *)

\* Outside a fixup the tree is a red-black tree.
LEMMA InvSettled ==
  ASSUME NEW T, NEW D, NEW b, TreeInv(T, D, b), pc \in {"idle", "insert", "min", "unlink", "find"}
  PROVE  Settled(heap, T, b)
BY DEF TreeInv, Colours

\* The node is in the tree; subst is the node or a candidate for its place.
LEMMA DeleteBeginInv ==
  ASSUME IInv, NEW n \in Nodes, DeleteBegin(n)
  PROVE  IInv' /\ TreeNodes' = TreeNodes
<1>1. PICK T, D, b : TypeOK /\ TreeInv(T, D, b)
  BY DEF IInv
<1>2. /\ Tree(heap, T, D) /\ Sorted(heap, T, D, key)
      /\ \A m \in T : key[m] \in Keys
      /\ TreeNodes = T /\ T \subseteq Nodes /\ Nil \notin T
  BY <1>1, InvFacts
<1>3. /\ pc = "idle" /\ n \in T /\ node' = n
      /\ heap' = heap /\ key' = key /\ temp' = temp /\ goal' = goal
  BY <1>2 DEF DeleteBegin
<1>4. Settled(heap, T, b)
  BY <1>1, <1>3, InvSettled
<1>5. "left" \in Sides /\ "right" \in Sides
  BY DEF Sides
<1>6. CASE Left(n) = Nil \/ Right(n) = Nil
  <2>1. pc' = "unlink" /\ subst' = n
    BY <1>6 DEF DeleteBegin
  <2>2. \E s \in Sides : KidOf(heap, s, n) = Nil
    BY <1>5, <1>6 DEF Left, Right
  <2>3. Deleting(T, D)'
    BY <1>3, <2>1, <2>2 DEF Deleting
  <2>4. TypeOK'
    BY <1>1, <1>3, <2>1 DEF TypeOK, Locations
  <2>5. TreeInv(T, D, b)'
    BY <1>2, <1>3, <1>4, <2>1, <2>3 DEF TreeInv, Colours
  <2>6. QED
    BY <1>2, <2>4, <2>5, InvNext
<1>7. CASE ~(Left(n) = Nil \/ Right(n) = Nil)
  <2>1. pc' = "min" /\ subst' = Right(n)
    BY <1>7 DEF DeleteBegin
  <2>2. PICK r : r = KidOf(heap, "right", n)
    OBVIOUS
  <2>3. KidOf(heap, "left", n) # Nil /\ r # Nil /\ subst' = r
    BY <1>7, <2>1, <2>2 DEF Left, Right
  <2>4. r \in T /\ r \in D[r]
    BY <1>2, <1>3, <1>5, <2>2, <2>3, KidsBelow
  <2>5. Least(T, D)'
    BY <1>3, <2>2, <2>3, <2>4 DEF Least
  <2>6. Deleting(T, D)'
    BY <1>3, <2>1, <2>3, <2>4, <2>5 DEF Deleting
  <2>7. TypeOK'
    BY <1>1, <1>2, <1>3, <2>1, <2>3, <2>4 DEF TypeOK, Locations
  <2>8. TreeInv(T, D, b)'
    BY <1>2, <1>3, <1>4, <2>1, <2>6 DEF TreeInv, Colours
  <2>9. QED
    BY <1>2, <2>7, <2>8, InvNext
<1>8. QED
  BY <1>6, <1>7

\* The least node on the right is where the walk to the left ends.
LEMMA DeleteMinInv ==
  ASSUME IInv, DeleteMin
  PROVE  IInv' /\ TreeNodes' = TreeNodes
<1>1. PICK T, D, b : TypeOK /\ TreeInv(T, D, b)
  BY DEF IInv
<1>2. /\ Tree(heap, T, D) /\ Sorted(heap, T, D, key)
      /\ \A m \in T : key[m] \in Keys /\ key[m] \in Nat
      /\ T \subseteq Nodes /\ Nil \notin T
      /\ TreeNodes = T
  BY <1>1, InvFacts
<1>3. /\ pc = "min"
      /\ heap' = heap /\ key' = key /\ node' = node /\ temp' = temp /\ goal' = goal
  BY DEF DeleteMin
<1>4. Settled(heap, T, b)
  BY <1>1, <1>3, InvSettled
<1>5. node \in T /\ subst \in T /\ Least(T, D)
  BY <1>1, <1>3 DEF TreeInv, Deleting
<1>6. PICK r : r = KidOf(heap, "right", node)
  OBVIOUS
<1>7. /\ subst \in D[r] /\ KidOf(heap, "left", node) # Nil
      /\ \A m \in D[r] \ D[subst] : key[subst] < key[m]
  BY <1>5, <1>6 DEF Least
<1>8. "left" \in Sides /\ "right" \in Sides /\ Opp("left") = "right"
  BY DEF Sides, Opp
<1>9. r \in T
  BY <1>2, <1>5, <1>6, <1>7, <1>8 DEF Tree
<1>10. PICK c : c = KidOf(heap, "left", subst)
  OBVIOUS
<1>11. CASE c # Nil
  <2>1. subst' = c /\ pc' = pc
    BY <1>10, <1>11 DEF DeleteMin, Left
  <2>2. c \in T /\ c \in D[c] /\ D[c] \subseteq D[subst]
    BY <1>2, <1>5, <1>8, <1>10, <1>11, KidsBelow
  <2>3. D[subst] \subseteq D[r] /\ \A m \in D[r] : m \in T
    BY <1>2, <1>7, <1>9, SubtreesNest
  <2>4. D[subst] = {subst} \cup D[c] \cup D[KidOf(heap, "right", subst)]
    BY <1>2, <1>5, <1>8, <1>10 DEF Tree
  <2>5. key[c] < key[subst]
    BY <1>2, <1>5, <1>8, <1>10, <2>2 DEF Sorted, Before
  <2>6. \A m \in D[KidOf(heap, "right", subst)] : key[subst] < key[m]
    BY <1>2, <1>5, <1>8 DEF Sorted, Before
  <2>7. ASSUME NEW m \in D[r] \ D[c] PROVE key[c] < key[m]
    <3>1. m = subst \/ key[subst] < key[m]
      BY <1>7, <2>4, <2>6, <2>7
    <3>2. key[c] \in Nat /\ key[m] \in Nat /\ key[subst] \in Nat
      BY <1>2, <1>5, <2>2, <2>3, <2>7
    <3>3. QED
      BY <2>5, <3>1, <3>2
  <2>8. Least(T, D)'
    BY <1>3, <1>6, <1>7, <2>1, <2>2, <2>3, <2>7 DEF Least
  <2>9. Deleting(T, D)'
    BY <1>3, <1>5, <2>1, <2>2, <2>8 DEF Deleting
  <2>10. TypeOK'
    BY <1>1, <1>2, <1>3, <2>1, <2>2 DEF TypeOK
  <2>11. TreeInv(T, D, b)'
    BY <1>2, <1>3, <1>4, <2>1, <2>9 DEF TreeInv, Colours
  <2>12. QED
    BY <1>2, <2>10, <2>11, InvNext
<1>12. CASE c = Nil
  <2>1. subst' = subst /\ pc' = "unlink"
    BY <1>10, <1>12 DEF DeleteMin, Left
  <2>2. Least(T, D)'
    BY <1>3, <1>5, <2>1 DEF Least
  <2>3. Deleting(T, D)'
    BY <1>3, <1>5, <1>10, <1>12, <2>1, <2>2 DEF Deleting
  <2>4. TypeOK'
    BY <1>1, <1>3, <2>1 DEF TypeOK, Locations
  <2>5. TreeInv(T, D, b)'
    BY <1>2, <1>3, <1>4, <2>1, <2>3 DEF TreeInv, Colours
  <2>6. QED
    BY <1>2, <2>4, <2>5, InvNext
<1>13. QED
  BY <1>11, <1>12

\* The key of the node that is deleted, and the keys of the others.
LEMMA KeyCleared ==
  ASSUME TypeOK, NEW T, NEW D, NEW b, TreeInv(T, D, b), node \in T, key' = [key EXCEPT ![node] = 0]
  PROVE  /\ key' \in [Nodes -> Keys \cup {0}]
         /\ \A m \in T \ {node} : key'[m] = key[m] /\ key'[m] \in Keys
<1>1. node \in Nodes /\ T \subseteq Nodes /\ \A m \in T : key[m] \in Keys
  BY InvFacts
<1>2. key \in [Nodes -> Keys \cup {0}]
  BY DEF TypeOK
<1>3. QED
  BY <1>1, <1>2

\* The root has one kid at most, which takes its place.
LEMMA DeleteRootInv ==
  ASSUME IInv, DeleteRoot
  PROVE  IInv' /\ TreeNodes' = TreeNodes \ {node}
<1>1. PICK T, D, b : TypeOK /\ TreeInv(T, D, b)
  BY DEF IInv
<1>2. /\ Tree(heap, T, D) /\ Sorted(heap, T, D, key) /\ heap \in Heaps
      /\ T \subseteq Nodes /\ T \in SUBSET Nodes
      /\ TreeNodes = T
  BY <1>1, InvFacts
<1>3. /\ pc = "unlink" /\ subst = RootOf(heap)
      /\ heap' = NodeInit(WithRoot(Paint(heap, {}, {Orphan}), Orphan), node)
      /\ key' = [key EXCEPT ![node] = 0]
      /\ Return
  BY DEF DeleteRoot
<1>4. Settled(heap, T, b)
  BY <1>1, <1>3, InvSettled
<1>5. /\ node \in T /\ subst \in T
      /\ \/ subst = node /\ \E s \in Sides : KidOf(heap, s, node) = Nil
         \/ Least(T, D)
  BY <1>1, <1>3 DEF TreeInv, Deleting
<1>6. ~Least(T, D)
  <2>1. SUFFICES ASSUME Least(T, D) PROVE FALSE
    OBVIOUS
  <2>2. PICK r : r = KidOf(heap, "right", node)
    OBVIOUS
  <2>3. subst \in D[r] /\ "right" \in Sides
    BY <2>1, <2>2 DEF Least, Sides
  <2>4. r \in T /\ node \notin D[r]
    BY <1>2, <1>5, <2>2, <2>3 DEF Tree
  <2>5. D[subst] \subseteq D[r] /\ D[subst] = T
    BY <1>2, <1>3, <2>3, <2>4, SubtreesNest DEF Tree
  <2>6. QED
    BY <1>5, <2>4, <2>5
<1>7. subst = node /\ \E s \in Sides : KidOf(heap, s, node) = Nil
  BY <1>5, <1>6
<1>8. PICK x : x = Orphan
  OBVIOUS
<1>9. \E s \in Sides : x = KidOf(heap, s, node) /\ KidOf(heap, Opp(s), node) = Nil
  BY <1>7, <1>8 DEF Orphan, Left, Right, Sides, Opp
<1>10. PICK s \in Sides : x = KidOf(heap, s, node) /\ KidOf(heap, Opp(s), node) = Nil
  BY <1>9
<1>11. x \in Cells
  BY <1>2, <1>5, <1>10, KidsAreCells
<1>12. heap' \in Heaps /\ Uprooted(heap, heap', T, node, x)
  BY <1>2, <1>3, <1>5, <1>8, <1>11, UprootWrites
<1>13. node = RootOf(heap)
  BY <1>3, <1>7
<1>14. /\ Tree(heap', T \ {node}, D)
       /\ Sorted(heap', T \ {node}, D, key)
       /\ Settled(heap', T \ {node}, Blackened(heap, b, x))
  BY <1>2, <1>4, <1>5, <1>10, <1>12, <1>13, UprootFacts
<1>15. /\ key' \in [Nodes -> Keys \cup {0}]
       /\ \A m \in T \ {node} : key'[m] = key[m] /\ key'[m] \in Keys
  BY <1>1, <1>3, <1>5, KeyCleared
<1>16. Sorted(heap', T \ {node}, D, key')
  BY <1>14, <1>15, KeysKept
<1>17. QED
  BY <1>1, <1>2, <1>3, <1>12, <1>14, <1>15, <1>16, InvReturn

\* Where the node is that is taken out of its place.
LEMMA UnlinkFacts ==
  ASSUME TypeOK, NEW T, NEW D, NEW b, TreeInv(T, D, b), pc = "unlink", subst # RootOf(heap),
         NEW x, x = Orphan, NEW p, p = ParentOf(heap, subst), NEW s, s = SideIn(heap, subst)
  PROVE  /\ \E e : Removable(heap, T, subst, x, p, s, e)
         /\ Unlinked = WithParent(WithKid(heap, s, p, x), x, NewParent)
         /\ subst # node =>
              /\ subst \in D[KidOf(heap, "right", node)]
              /\ \A m \in D[KidOf(heap, "right", node)] \ {subst} : key[subst] < key[m]
              /\ NewParent = As(p, node, subst)
         /\ subst = node => NewParent = p
<1>1. /\ Tree(heap, T, D) /\ Sorted(heap, T, D, key)
  BY InvFacts
<1>2. /\ node \in T /\ subst \in T
      /\ \/ subst = node /\ (\E q \in Sides : KidOf(heap, q, node) = Nil)
         \/ Least(T, D) /\ KidOf(heap, "left", subst) = Nil
  <2>1. Deleting(T, D)
    BY DEF TreeInv
  <2>2. QED
    BY <2>1 DEF Deleting
<1>3. s \in Sides /\ KidOf(heap, s, p) = subst
  BY <1>1, <1>2, SideFacts
<1>4. "left" \in Sides /\ "right" \in Sides /\ Opp("left") = "right" /\ Opp("right") = "left"
  BY DEF Sides, Opp
<1>5. Unlinked = WithParent(WithKid(heap, s, p, x), x, NewParent)
  BY DEF Unlinked, SideOf, Parent
<1>6. CASE subst = node
  <2>1. \E q \in Sides : KidOf(heap, q, node) = Nil
    <3>1. ~Least(T, D)
      <4>1. node \notin D[KidOf(heap, "right", node)]
        BY <1>1, <1>2, <1>4 DEF Tree
      <4>2. QED
        BY <1>6, <4>1 DEF Least
    <3>2. QED
      BY <1>2, <3>1
  <2>2. \E e \in Sides : x = KidOf(heap, e, node) /\ KidOf(heap, Opp(e), node) = Nil
    BY <1>6, <2>1 DEF Orphan, Left, Right, Sides, Opp
  <2>3. \E e : Removable(heap, T, subst, x, p, s, e)
    BY <1>2, <1>3, <1>6, <2>2 DEF Removable
  <2>4. NewParent = p
    BY <1>6 DEF NewParent, Parent
  <2>5. QED
    BY <1>5, <1>6, <2>3, <2>4
<1>7. CASE subst # node
  <2>1. Least(T, D) /\ KidOf(heap, "left", subst) = Nil
    BY <1>2, <1>7
  <2>2. x = KidOf(heap, "right", subst)
    BY <1>7 DEF Orphan, Right
  <2>3. Removable(heap, T, subst, x, p, s, "right")
    BY <1>2, <1>3, <1>4, <2>1, <2>2 DEF Removable
  <2>4. NewParent = As(p, node, subst)
    BY <1>7 DEF NewParent, Parent, As
  <2>5. D[subst] = {subst} \cup D[x]
    BY <1>1, <2>3, RemovableFacts
  <2>6. ASSUME NEW m \in D[KidOf(heap, "right", node)] \ {subst} PROVE key[subst] < key[m]
    <3>1. CASE m \in D[x]
      BY <1>1, <1>2, <1>4, <2>2, <3>1 DEF Sorted, Before
    <3>2. CASE m \notin D[x]
      BY <2>1, <2>5, <2>6, <3>2 DEF Least
    <3>3. QED
      BY <3>1, <3>2
  <2>7. subst \in D[KidOf(heap, "right", node)]
    BY <2>1 DEF Least
  <2>8. QED
    BY <1>5, <1>7, <2>3, <2>4, <2>6, <2>7
<1>8. QED
  BY <1>6, <1>7

\* Without a red node the deletion is over; without a black one its kid lacks a black node.
LEMMA DeleteUnlinkInv ==
  ASSUME IInv, DeleteUnlink
  PROVE  IInv' /\ TreeNodes' = TreeNodes \ {node}
<1>1. PICK T, D, b : TypeOK /\ TreeInv(T, D, b)
  BY DEF IInv
<1>2. /\ Tree(heap, T, D) /\ Sorted(heap, T, D, key) /\ heap \in Heaps
      /\ \A m \in T : key[m] \in Nat
      /\ T \subseteq Nodes
      /\ TreeNodes = T
  BY <1>1, InvFacts
<1>3. /\ pc = "unlink" /\ subst # RootOf(heap)
      /\ heap' = NodeInit(IF subst = node THEN Unlinked ELSE TakePlace(Unlinked), node)
      /\ key' = [key EXCEPT ![node] = 0]
  BY DEF DeleteUnlink
<1>4. Settled(heap, T, b)
  BY <1>1, <1>3, InvSettled
<1>5. node \in T /\ subst \in T
  BY <1>1, <1>3 DEF TreeInv, Deleting
<1>6. PICK x : x = Orphan
  OBVIOUS
<1>7. PICK p : p = ParentOf(heap, subst)
  OBVIOUS
<1>8. PICK s : s = SideIn(heap, subst)
  OBVIOUS
<1>9. /\ \E e : Removable(heap, T, subst, x, p, s, e)
      /\ Unlinked = WithParent(WithKid(heap, s, p, x), x, NewParent)
      /\ subst # node =>
           /\ subst \in D[KidOf(heap, "right", node)]
           /\ \A m \in D[KidOf(heap, "right", node)] \ {subst} : key[subst] < key[m]
           /\ NewParent = As(p, node, subst)
      /\ subst = node => NewParent = p
  BY <1>1, <1>3, <1>6, <1>7, <1>8, UnlinkFacts
<1>10. PICK e : Removable(heap, T, subst, x, p, s, e)
  BY <1>9
<1>11. PICK T2 : T2 = T \ {node}
  OBVIOUS
<1>12. /\ heap' \in Heaps
       /\ \E D2, b2 : /\ Tree(heap', T2, D2)
                      /\ Sorted(heap', T2, D2, key)
                      /\ RedIn(heap, subst) => Settled(heap', T2, b2)
                      /\ ~RedIn(heap, subst) => DeleteFixing(heap', T2, b2, x)
  <2>1. CASE subst = node
    <3>1. heap' = NodeInit(WithParent(WithKid(heap, s, p, x), x, p), subst)
      BY <1>3, <1>9, <2>1
    <3>2. /\ heap' \in Heaps
          /\ Tree(heap', T \ {subst}, Without(D, subst))
          /\ Sorted(heap', T \ {subst}, Without(D, subst), key)
          /\ RedIn(heap, subst) => Settled(heap', T \ {subst}, b)
          /\ ~RedIn(heap, subst) => DeleteFixing(heap', T \ {subst}, b, x)
      BY <1>2, <1>4, <1>10, <3>1, UnlinkSame
    <3>3. QED
      BY <1>11, <2>1, <3>2
  <2>2. CASE subst # node
    <3>1. PICK h1 : h1 = WithParent(WithKid(heap, s, p, x), x, As(p, node, subst))
      OBVIOUS
    <3>2. heap' = NodeInit(TakePlace(h1), node)
      BY <1>3, <1>9, <2>2, <3>1
    <3>3. PICK z : z = node
      OBVIOUS
    <3>4. PICK y : y = subst
      OBVIOUS
    <3>5. /\ Removable(heap, T, y, x, p, s, e)
          /\ z \in T /\ y \in D[KidOf(heap, "right", z)]
          /\ \A m \in D[KidOf(heap, "right", z)] \ {y} : key[y] < key[m]
          /\ h1 = WithParent(WithKid(heap, s, p, x), x, As(p, z, y))
          /\ heap' = NodeInit(TakePlace(h1), z)
      BY <1>5, <1>9, <1>10, <2>2, <3>1, <3>2, <3>3, <3>4
    <3>6. PICK h2 : h2 = heap'
      OBVIOUS
    <3>7. /\ h2 \in Heaps
          /\ \E D2 \in [Cells -> SUBSET Nodes], b2 \in [Cells -> Nat] :
               /\ Tree(h2, T \ {z}, D2)
               /\ Sorted(h2, T \ {z}, D2, key)
               /\ RedIn(heap, y) => Settled(h2, T \ {z}, b2)
               /\ ~RedIn(heap, y) => DeleteFixing(h2, T \ {z}, b2, x)
      <4>1. heap \in Heaps /\ Tree(heap, T, D) /\ Sorted(heap, T, D, key)
        BY <1>2
      <4>2. \A n \in T : key[n] \in Nat
        BY <1>2
      <4>3. h2 = NodeInit(TakePlace(h1), z)
        BY <3>5, <3>6
      <4>4. /\ Removable(heap, T, y, x, p, s, e)
            /\ z \in T /\ y \in D[KidOf(heap, "right", z)]
            /\ h1 = WithParent(WithKid(heap, s, p, x), x, As(p, z, y))
        BY <3>5
      <4>5. \A m \in D[KidOf(heap, "right", z)] \ {y} : key[y] < key[m]
        BY <3>5
      <4>6. QED
        BY <1>4, <3>3, <3>4, <4>1, <4>2, <4>3, <4>4, <4>5, UnlinkOther
    <3>8. QED
      BY <1>11, <3>3, <3>4, <3>6, <3>7
  <2>3. QED
    BY <2>1, <2>2
<1>13. PICK D2, b2 : /\ Tree(heap', T2, D2)
                     /\ Sorted(heap', T2, D2, key)
                     /\ RedIn(heap, subst) => Settled(heap', T2, b2)
                     /\ ~RedIn(heap, subst) => DeleteFixing(heap', T2, b2, x)
  BY <1>12
<1>14. /\ key' \in [Nodes -> Keys \cup {0}]
       /\ \A m \in T2 : key'[m] = key[m] /\ key'[m] \in Keys
  BY <1>1, <1>3, <1>5, <1>11, KeyCleared
<1>15. Sorted(heap', T2, D2, key')
  BY <1>13, <1>14, KeysKept
<1>16. CASE RedIn(heap, subst)
  <2>1. Return
    BY <1>16 DEF DeleteUnlink, Red
  <2>2. QED
    BY <1>1, <1>2, <1>11, <1>12, <1>13, <1>14, <1>15, <1>16, <2>1, InvReturn
<1>17. CASE ~RedIn(heap, subst)
  <2>1. pc' = "delete_fix" /\ temp' = x /\ node' = NULL /\ subst' = NULL /\ goal' = goal
    BY <1>6, <1>17 DEF DeleteUnlink, Red
  <2>2. x \in Ptrs
    <3>1. x \in T \cup {Nil}
      BY <1>2, <1>10, RemovableFacts
    <3>2. QED
      BY <1>2, <3>1 DEF Ptrs, Cells
  <2>3. TypeOK'
    BY <1>1, <1>12, <1>14, <2>1, <2>2 DEF TypeOK, Locations
  <2>4. TreeInv(T2, D2, b2)'
    BY <1>13, <1>14, <1>15, <1>17, <2>1 DEF TreeInv, Colours
  <2>5. QED
    BY <1>2, <1>11, <2>3, <2>4, InvNext
<1>18. QED
  BY <1>16, <1>17

\* The lack of a black node moves up, or is over.
LEMMA DeleteFixInv ==
  ASSUME IInv, DeleteFix
  PROVE  IInv' /\ TreeNodes' = TreeNodes
<1>1. PICK T, D, b : TypeOK /\ TreeInv(T, D, b)
  BY DEF IInv
<1>2. /\ Searchable(heap, T, D, key)
      /\ \A m \in T : key[m] \in Keys
      /\ T \subseteq Nodes
      /\ TreeNodes = T
  BY <1>1, InvFacts
<1>3. PICK p : p = ParentOf(heap, temp)
  OBVIOUS
<1>4. PICK s : s = SideIn(heap, temp)
  OBVIOUS
<1>5. PICK g : g = BlackenSibling(heap, p, s)
  OBVIOUS
<1>6. PICK w : w = KidOf(g, Opp(s), p)
  OBVIOUS
<1>7. /\ pc = "delete_fix" /\ temp # RootOf(heap) /\ ~RedIn(heap, temp)
      /\ (\A q \in Sides : ~RedIn(g, KidOf(g, q, w))) => heap' = Paint(g, {w}, {}) /\ temp' = p
      /\ ~(\A q \in Sides : ~RedIn(g, KidOf(g, q, w))) =>
           heap' = LiftSibling(RedFar(g, w, s), p, s) /\ temp' = RootOf(heap')
      /\ key' = key /\ pc' = pc /\ node' = node /\ subst' = subst /\ goal' = goal
  BY <1>3, <1>4, <1>5, <1>6 DEF DeleteFix, DeleteFixGoesOn, Parent, SideOf, Black, Red
<1>8. DeleteFixing(heap, T, b, temp)
  BY <1>1, <1>7 DEF TreeInv, Colours
<1>9. /\ \E D2, b2 : Searchable(heap', T, D2, key) /\ DeleteFixing(heap', T, b2, temp')
  <2>1. CASE \A q \in Sides : ~RedIn(g, KidOf(g, q, w))
    BY <1>2, <1>3, <1>4, <1>5, <1>6, <1>7, <1>8, <2>1, DeleteFixFacts
  <2>2. CASE ~(\A q \in Sides : ~RedIn(g, KidOf(g, q, w)))
    BY <1>2, <1>3, <1>4, <1>5, <1>6, <1>7, <1>8, <2>2, DeleteFixFacts
  <2>3. QED
    BY <2>1, <2>2
<1>10. PICK D2, b2 : Searchable(heap', T, D2, key) /\ DeleteFixing(heap', T, b2, temp')
  BY <1>9
<1>11. heap' \in Heaps /\ Tree(heap', T, D2) /\ Sorted(heap', T, D2, key)
  BY <1>10 DEF Searchable
<1>12. temp' \in Ptrs
  <2>1. temp' \in T \cup {Nil}
    BY <1>10 DEF DeleteFixing
  <2>2. QED
    BY <1>2, <2>1 DEF Ptrs, Cells
<1>13. TypeOK'
  BY <1>1, <1>7, <1>11, <1>12 DEF TypeOK
<1>14. TreeInv(T, D2, b2)'
  BY <1>2, <1>7, <1>10, <1>11 DEF TreeInv, Colours
<1>15. QED
  BY <1>2, <1>13, <1>14, InvNext

\* The cell that the loop ended at is black, and the deletion is over.
LEMMA DeleteDoneInv ==
  ASSUME IInv, DeleteDone
  PROVE  IInv' /\ TreeNodes' = TreeNodes
<1>1. PICK T, D, b : TypeOK /\ TreeInv(T, D, b)
  BY DEF IInv
<1>2. /\ Searchable(heap, T, D, key) /\ Tree(heap, T, D)
      /\ \A m \in T : key[m] \in Keys
      /\ TreeNodes = T
  BY <1>1, InvFacts
<1>3. /\ pc = "delete_fix" /\ (temp = RootOf(heap) \/ RedIn(heap, temp))
      /\ heap' = Paint(heap, {}, {temp}) /\ Return /\ key' = key
  BY DEF DeleteDone, DeleteFixGoesOn, Black, Red
<1>4. DeleteFixing(heap, T, b, temp)
  BY <1>1, <1>3 DEF TreeInv, Colours
<1>5. Painted(heap, heap', {}, {temp}) /\ Searchable(heap', T, D, key)
  BY <1>2, <1>3, PaintSearch
<1>6. Settled(heap', T, Blackened(heap, b, temp))
  BY <1>2, <1>3, <1>4, <1>5, DeleteSettles
<1>7. heap' \in Heaps /\ Tree(heap', T, D) /\ Sorted(heap', T, D, key')
  BY <1>3, <1>5 DEF Searchable
<1>8. key' \in [Nodes -> Keys \cup {0}] /\ \A m \in T : key'[m] \in Keys
  BY <1>1, <1>2, <1>3 DEF TypeOK
<1>9. QED
  BY <1>1, <1>2, <1>3, <1>6, <1>7, <1>8, InvReturn

-----------------------------------------------------------------------------
(* context_find_task *)

\* The walk begins above all nodes.
LEMMA FindBeginInv ==
  ASSUME IInv, NEW k \in Keys, FindBegin(k)
  PROVE  IInv' /\ TreeNodes' = TreeNodes
<1>1. PICK T, D, b : TypeOK /\ TreeInv(T, D, b)
  BY DEF IInv
<1>2. /\ Tree(heap, T, D) /\ Sorted(heap, T, D, key)
      /\ \A m \in T : key[m] \in Keys
      /\ T \subseteq Nodes /\ TreeNodes = T
  BY <1>1, InvFacts
<1>3. /\ pc = "idle" /\ pc' = "find" /\ goal' = k /\ temp' = RootOf(heap)
      /\ heap' = heap /\ key' = key /\ node' = node /\ subst' = subst
  BY DEF FindBegin
<1>4. Settled(heap, T, b)
  BY <1>1, <1>3, InvSettled
<1>5. RootOf(heap) \in T \cup {Nil} /\ D[RootOf(heap)] = T
  BY <1>2 DEF Tree
<1>6. Finding(T, D)'
  BY <1>3, <1>5 DEF Finding
<1>7. temp' \in Ptrs
  BY <1>2, <1>3, <1>5 DEF Ptrs, Cells
<1>8. TypeOK'
  BY <1>1, <1>3, <1>7 DEF TypeOK, Locations
<1>9. TreeInv(T, D, b)'
  BY <1>2, <1>3, <1>4, <1>6 DEF TreeInv, Colours
<1>10. QED
  BY <1>2, <1>8, <1>9, InvNext

\* The walk leaves the side on which no node has the key that is looked up.
LEMMA FindDescendInv ==
  ASSUME IInv, FindDescend
  PROVE  IInv' /\ TreeNodes' = TreeNodes
<1>1. PICK T, D, b : TypeOK /\ TreeInv(T, D, b)
  BY DEF IInv
<1>2. /\ Tree(heap, T, D) /\ Sorted(heap, T, D, key)
      /\ \A m \in T : key[m] \in Keys /\ key[m] \in Nat
      /\ T \subseteq Nodes /\ TreeNodes = T
  BY <1>1, InvFacts
<1>3. /\ pc = "find" /\ temp # Nil /\ goal # key[temp]
      /\ goal < key[temp] => temp' = KidOf(heap, "left", temp)
      /\ ~(goal < key[temp]) => temp' = KidOf(heap, "right", temp)
      /\ heap' = heap /\ key' = key /\ pc' = pc /\ node' = node /\ subst' = subst /\ goal' = goal
  BY DEF FindDescend, Left, Right
<1>4. Settled(heap, T, b)
  BY <1>1, <1>3, InvSettled
<1>5. temp \in T /\ \A n \in T : key[n] = goal => n \in D[temp]
  <2>1. Finding(T, D)
    BY <1>1, <1>3 DEF TreeInv
  <2>2. QED
    BY <1>3, <2>1 DEF Finding
<1>6. goal \in Nat
  <2>1. goal \in Keys \cup {0}
    BY <1>1 DEF TypeOK
  <2>2. QED
    BY <2>1, KeysAreNats
<1>7. "left" \in Sides /\ "right" \in Sides /\ Opp("left") = "right"
  BY DEF Sides, Opp
<1>8. D[temp] = {temp} \cup D[KidOf(heap, "left", temp)] \cup D[KidOf(heap, "right", temp)]
  BY <1>2, <1>5, <1>7 DEF Tree
<1>9. /\ \A m \in D[KidOf(heap, "left", temp)] : key[m] < key[temp]
      /\ \A m \in D[KidOf(heap, "right", temp)] : key[temp] < key[m]
  BY <1>2, <1>5, <1>7 DEF Sorted, Before
<1>10. temp' \in T \cup {Nil}
  BY <1>2, <1>3, <1>5, <1>7 DEF Tree
<1>11. ASSUME NEW n \in T, key[n] = goal PROVE n \in D[temp']
  <2>1. n \in D[temp] /\ n # temp
    BY <1>3, <1>5, <1>11
  <2>2. key[temp] \in Nat
    BY <1>2, <1>5
  <2>3. CASE goal < key[temp]
    <3>1. n \notin D[KidOf(heap, "right", temp)]
      BY <1>6, <1>9, <1>11, <2>2, <2>3
    <3>2. QED
      BY <1>3, <1>8, <2>1, <2>3, <3>1
  <2>4. CASE ~(goal < key[temp])
    <3>1. n \notin D[KidOf(heap, "left", temp)]
      BY <1>6, <1>9, <1>11, <2>2, <2>4
    <3>2. QED
      BY <1>3, <1>8, <2>1, <2>4, <3>1
  <2>5. QED
    BY <2>3, <2>4
<1>12. Finding(T, D)'
  BY <1>3, <1>10, <1>11 DEF Finding
<1>13. temp' \in Ptrs
  BY <1>2, <1>10 DEF Ptrs, Cells
<1>14. TypeOK'
  BY <1>1, <1>3, <1>13 DEF TypeOK
<1>15. TreeInv(T, D, b)'
  BY <1>2, <1>3, <1>4, <1>12 DEF TreeInv, Colours
<1>16. QED
  BY <1>2, <1>14, <1>15, InvNext

\* A look-up leaves the tree alone.
LEMMA FindDoneInv ==
  ASSUME IInv, FindDone
  PROVE  IInv' /\ TreeNodes' = TreeNodes
<1>1. PICK T, D, b : TypeOK /\ TreeInv(T, D, b)
  BY DEF IInv
<1>2. /\ Tree(heap, T, D) /\ Sorted(heap, T, D, key) /\ heap \in Heaps
      /\ \A m \in T : key[m] \in Keys
      /\ TreeNodes = T
  BY <1>1, InvFacts
<1>3. pc = "find" /\ Return /\ heap' = heap /\ key' = key
  BY DEF FindDone
<1>4. Settled(heap, T, b)
  BY <1>1, <1>3, InvSettled
<1>5. key \in [Nodes -> Keys \cup {0}]
  BY <1>1 DEF TypeOK
<1>6. /\ heap' \in Heaps /\ key' \in [Nodes -> Keys \cup {0}]
      /\ Tree(heap', T, D) /\ Sorted(heap', T, D, key') /\ Settled(heap', T, b)
      /\ \A m \in T : key'[m] \in Keys
  BY <1>2, <1>3, <1>4, <1>5
<1>7. QED
  BY <1>1, <1>2, <1>3, <1>6, InvReturn

-----------------------------------------------------------------------------
(* The inductive invariant *)

\* A step that changes nothing.
LEMMA StutterInv ==
  ASSUME IInv, UNCHANGED vars
  PROVE  IInv' /\ TreeNodes' = TreeNodes
<1>1. PICK T, D, b : TypeOK /\ TreeInv(T, D, b)
  BY DEF IInv
<1>2. TreeNodes = T
  BY <1>1, InvFacts
<1>3. /\ heap' = heap /\ key' = key /\ pc' = pc /\ node' = node /\ temp' = temp
      /\ subst' = subst /\ goal' = goal
  BY DEF vars
<1>4. TypeOK'
  BY <1>1, <1>3 DEF TypeOK
<1>5. TreeInv(T, D, b)'
  <2>1. /\ Colours(T, b)' <=> Colours(T, b)
        /\ Inserting(T, D)' <=> Inserting(T, D)
        /\ Deleting(T, D)' <=> Deleting(T, D)
        /\ Finding(T, D)' <=> Finding(T, D)
    BY <1>3 DEF Colours, Inserting, Deleting, Least, Finding
  <2>2. QED
    BY <1>1, <1>3, <2>1 DEF TreeInv
<1>6. QED
  BY <1>2, <1>4, <1>5, InvNext

\* The steps that leave the tree with the nodes that it has.
Keeps ==
  \/ \E n \in Nodes : \/ DeleteBegin(n)
                      \/ \E k \in KeysOf[n] : RootOf(heap) # Nil /\ InsertBegin(n, k)
  \/ \E k \in Keys : FindBegin(k)
  \/ InsertDescend \/ InsertRecolour \/ InsertRotate \/ InsertDone
  \/ DeleteMin \/ DeleteFix \/ DeleteDone
  \/ FindDescend \/ FindDone
  \/ UNCHANGED vars

\* The others: a node comes, or one goes.
Changes ==
  \/ \E n \in Nodes : \E k \in KeysOf[n] : RootOf(heap) = Nil /\ InsertBegin(n, k)
  \/ InsertLink \/ DeleteRoot \/ DeleteUnlink

\* They keep the invariant, and the nodes.
LEMMA KeepsInv ==
  ASSUME IInv, Keeps
  PROVE  IInv' /\ TreeNodes' = TreeNodes
<1>1. ASSUME NEW n \in Nodes, DeleteBegin(n) PROVE IInv' /\ TreeNodes' = TreeNodes
  BY <1>1, DeleteBeginInv
<1>2. ASSUME NEW n \in Nodes, NEW k \in KeysOf[n], RootOf(heap) # Nil, InsertBegin(n, k)
      PROVE  IInv' /\ TreeNodes' = TreeNodes
  BY <1>2, InsertBeginInv
<1>3. ASSUME NEW k \in Keys, FindBegin(k) PROVE IInv' /\ TreeNodes' = TreeNodes
  BY <1>3, FindBeginInv
<1>4. CASE InsertDescend \/ InsertRecolour \/ InsertRotate \/ InsertDone
  BY <1>4, InsertDescendInv, InsertRecolourInv, InsertRotateInv, InsertDoneInv
<1>5. CASE DeleteMin \/ DeleteFix \/ DeleteDone
  BY <1>5, DeleteMinInv, DeleteFixInv, DeleteDoneInv
<1>6. CASE FindDescend \/ FindDone \/ UNCHANGED vars
  BY <1>6, FindDescendInv, FindDoneInv, StutterInv
<1>7. QED
  BY <1>1, <1>2, <1>3, <1>4, <1>5, <1>6 DEF Keeps

\* They keep the invariant too.
LEMMA ChangesInv ==
  ASSUME IInv, Changes
  PROVE  IInv'
<1>1. ASSUME NEW n \in Nodes, NEW k \in KeysOf[n], InsertBegin(n, k) PROVE IInv'
  BY <1>1, InsertBeginInv
<1>2. CASE InsertLink \/ DeleteRoot \/ DeleteUnlink
  BY <1>2, InsertLinkInv, DeleteRootInv, DeleteUnlinkInv
<1>3. QED
  BY <1>1, <1>2 DEF Changes

\* There are no other steps.
LEMMA NextSplits == [Next]_vars => Keeps \/ Changes
BY DEF Next, Caller, Step, Keeps, Changes

\* The invariant is inductive, whatever the caller inserts, deletes and looks up.
THEOREM Invariance == Spec => []IInv
<1>1. IInv /\ [Next]_vars => IInv'
  BY NextSplits, KeepsInv, ChangesInv
<1>2. QED
  BY InvInit, <1>1, PTL DEF Spec

-----------------------------------------------------------------------------
(* The properties of RBTree.tla *)

\* The variables hold what they can.
THEOREM TypeCorrect == Spec => []TypeOK
<1>1. IInv => TypeOK
  BY DEF IInv
<1>2. QED
  BY Invariance, <1>1, PTL

\* What the code reaches on a side of a node is what Sorted speaks of.
LEMMA InvSearchTree == IInv => SearchTree
<1> SUFFICES ASSUME IInv PROVE SearchTree
  OBVIOUS
<1>1. PICK T, D, b : TypeOK /\ TreeInv(T, D, b)
  BY DEF IInv
<1>2. /\ Tree(heap, T, D) /\ Sorted(heap, T, D, key)
      /\ TreeNodes = T /\ \A c \in T \cup {Nil} : Reach(c) = D[c]
      /\ T \subseteq Nodes /\ Nil \notin T
  BY <1>1, InvFacts
<1>3. "left" \in Sides /\ "right" \in Sides
  BY DEF Sides
<1>4. ASSUME NEW n \in T, NEW s \in Sides
      PROVE  /\ Subtree(s, n) = D[KidOf(heap, s, n)]
             /\ KidOf(heap, s, n) \in Nodes => Parent(KidOf(heap, s, n)) = n
  <2>1. KidOf(heap, s, n) \in T \cup {Nil}
    BY <1>2 DEF Tree
  <2>2. KidOf(heap, s, n) # Nil => ParentOf(heap, KidOf(heap, s, n)) = n
    BY <1>2 DEF Tree
  <2>3. QED
    BY <1>2, <2>1, <2>2, RBTreeAssumption DEF Subtree, Parent
<1>5. ASSUME NEW n \in T
      PROVE  /\ \A m \in Subtree("left", n)  : key[m] < key[n]
             /\ \A m \in Subtree("right", n) : key[n] < key[m]
  <2>1. /\ \A m \in D[KidOf(heap, "left", n)] : key[m] < key[n]
        /\ \A m \in D[KidOf(heap, "right", n)] : key[n] < key[m]
    BY <1>2, <1>3 DEF Sorted, Before
  <2>2. QED
    BY <1>3, <1>4, <2>1
<1>6. QED
  BY <1>2, <1>4, <1>5 DEF SearchTree

\* At every step of a rotation or a deletion the tree is a search tree.
THEOREM AlwaysSearchTree == Spec => []SearchTree
BY Invariance, InvSearchTree, PTL

\* The ways down count the same, the short link counting one, in every phase.
LEMMA InvCounted ==
  ASSUME TypeOK, NEW T, NEW D, NEW b, TreeInv(T, D, b)
  PROVE  Counted(heap, T, b, ShortLink)
<1>1. CASE pc \in {"idle", "insert", "min", "unlink", "find"}
  <2>1. ShortLink = <<>>
    BY <1>1 DEF ShortLink
  <2>2. QED
    BY <1>1, <2>1, InvSettled DEF Settled
<1>2. CASE pc = "insert_fix"
  <2>1. ShortLink = <<>>
    BY <1>2 DEF ShortLink
  <2>2. InsertFixing(heap, T, b, node)
    BY <1>2 DEF TreeInv, Colours
  <2>3. QED
    BY <2>1, <2>2 DEF InsertFixing
<1>3. CASE pc = "delete_fix"
  <2>1. DeleteFixing(heap, T, b, temp)
    BY <1>3 DEF TreeInv, Colours
  <2>2. CASE temp = RootOf(heap)
    <3>1. ShortLink = <<>>
      BY <2>2 DEF ShortLink
    <3>2. Counted(heap, T, b, <<>>)
      BY <2>1, <2>2 DEF DeleteFixing
    <3>3. QED
      BY <3>1, <3>2
  <2>3. CASE temp # RootOf(heap)
    <3>1. ShortLink = <<SideIn(heap, temp), ParentOf(heap, temp)>>
      BY <1>3, <2>3 DEF ShortLink, SideOf, Parent
    <3>2. Counted(heap, T, b, <<SideIn(heap, temp), ParentOf(heap, temp)>>)
      BY <2>1, <2>3 DEF DeleteFixing
    <3>3. QED
      BY <3>1, <3>2
  <2>4. QED
    BY <2>2, <2>3
<1>4. QED
  BY <1>1, <1>2, <1>3 DEF TypeOK, Locations

\* Colours has a case for each phase in which OneViolation allows something else.
LEMMA InvOneViolation == IInv => OneViolation
<1> SUFFICES ASSUME IInv PROVE OneViolation
  OBVIOUS
<1>1. PICK T, D, b : TypeOK /\ TreeInv(T, D, b)
  BY DEF IInv
<1>2. Tree(heap, T, D) /\ TreeNodes = T /\ heap \in Heaps
  BY <1>1, InvFacts
<1>3. Counted(heap, T, b, ShortLink)
  BY <1>1, InvCounted
<1>4. Cardinality(BlackHeights) = 1
  BY <1>2, <1>3, OneHeight
<1>5. ~RedIn(heap, Nil)
  BY <1>3 DEF Counted
<1>6. CASE pc \in {"idle", "insert", "min", "unlink", "find"}
  <2>1. ~RedIn(heap, RootOf(heap)) /\ \A n \in T, s \in Sides : ~RedPair(heap, T, n, s)
    BY <1>1, <1>6, InvSettled DEF Settled
  <2>2. QED
    BY <1>2, <1>4, <1>5, <2>1 DEF OneViolation, Black, Red, RedPair
<1>7. CASE pc = "insert_fix"
  <2>1. InsertFixing(heap, T, b, node)
    BY <1>1, <1>7 DEF TreeInv, Colours
  <2>2. \A n \in T, s \in Sides : RedPair(heap, T, n, s) => KidOf(heap, s, n) = node
    BY <2>1 DEF InsertFixing
  <2>3. QED
    BY <1>2, <1>4, <1>5, <1>7, <2>2 DEF OneViolation, Black, Red, RedPair
<1>8. CASE pc = "delete_fix"
  <2>1. DeleteFixing(heap, T, b, temp)
    BY <1>1, <1>8 DEF TreeInv, Colours
  <2>2. /\ RedIn(heap, RootOf(heap)) => RootOf(heap) = temp
        /\ \A n \in T, s \in Sides : RedPair(heap, T, n, s) => temp \in {n, KidOf(heap, s, n)}
    BY <2>1 DEF DeleteFixing
  <2>3. QED
    BY <1>2, <1>4, <1>5, <1>8, <2>2 DEF OneViolation, Black, Red, RedPair
<1>9. QED
  BY <1>1, <1>6, <1>7, <1>8 DEF TypeOK, Locations

\* The tree is balanced, but for one violation where a fixup is at work.
THEOREM AlwaysOneViolation == Spec => []OneViolation
BY Invariance, InvOneViolation, PTL

\* A red parent is not the root, and a cell that lacks a black node has a sibling.
LEMMA InvPointersValid == IInv => PointersValid
<1> SUFFICES ASSUME IInv PROVE PointersValid
  OBVIOUS
<1>1. PICK T, D, b : TypeOK /\ TreeInv(T, D, b)
  BY DEF IInv
<1>2. Tree(heap, T, D) /\ TreeNodes = T
  BY <1>1, InvFacts
<1>3. ASSUME pc = "insert_fix", InsertFixGoesOn PROVE Parent(Parent(node)) \in TreeNodes
  <2>1. ParentOf(heap, ParentOf(heap, node)) \in T
    BY <1>1, <1>3, FixupFacts
  <2>2. QED
    BY <1>2, <2>1 DEF Parent
<1>4. ASSUME pc = "delete_fix", DeleteFixGoesOn
      PROVE  /\ Parent(temp) \in TreeNodes
             /\ temp = KidOf(heap, SideOf(temp), Parent(temp))
             /\ KidOf(heap, Opp(SideOf(temp)), Parent(temp)) \in TreeNodes
  <2>1. PICK p : p = ParentOf(heap, temp)
    OBVIOUS
  <2>2. PICK s : s = SideIn(heap, temp)
    OBVIOUS
  <2>3. PICK w : w = KidOf(heap, Opp(s), p)
    OBVIOUS
  <2>4. PICK l : l = <<s, p>>
    OBVIOUS
  <2>5. DeleteFixing(heap, T, b, temp) /\ temp # RootOf(heap) /\ ~RedIn(heap, temp)
    BY <1>1, <1>4 DEF TreeInv, Colours, DeleteFixGoesOn, Black, Red
  <2>6. Lacking(heap, T, b, temp, p, s, w)
    BY <2>1, <2>2, <2>3, <2>5 DEF Lacking
  <2>7. p \in T /\ KidOf(heap, s, p) = temp /\ w \in T
    BY <1>2, <2>4, <2>6, LackingFacts
  <2>8. QED
    BY <1>2, <2>1, <2>2, <2>3, <2>7 DEF Parent, SideOf
<1>5. ASSUME pc = "find" PROVE temp \in TreeNodes \cup {Nil}
  BY <1>1, <1>2, <1>5 DEF TreeInv, Finding
<1>6. QED
  BY <1>3, <1>4, <1>5 DEF PointersValid

\* What the fixups and the walk dereference exists.
THEOREM AlwaysPointersValid == Spec => []PointersValid
BY Invariance, InvPointersValid, PTL

\* The node with the key that is looked up is in D[temp], which is what the code reaches.
LEMMA InvFindMissesNothing == IInv => FindMissesNothing
<1> SUFFICES ASSUME IInv, pc = "find" PROVE \A n \in TreeNodes : key[n] = goal => n \in Reach(temp)
  BY DEF FindMissesNothing
<1>1. PICK T, D, b : TypeOK /\ TreeInv(T, D, b)
  BY DEF IInv
<1>2. TreeNodes = T /\ \A c \in T \cup {Nil} : Reach(c) = D[c]
  BY <1>1, InvFacts
<1>3. Finding(T, D)
  BY <1>1 DEF TreeInv
<1>4. QED
  BY <1>2, <1>3 DEF Finding

\* The walk misses no node.
THEOREM NothingMissed == Spec => []FindMissesNothing
BY Invariance, InvFindMissesNothing, PTL

\* A search tree, balanced but for one violation, whose pointers are valid.
THEOREM AlwaysRedBlack == Spec => []RedBlackTree
<1>1. IInv => RedBlackTree
  BY InvSearchTree, InvOneViolation, InvPointersValid DEF RedBlackTree
<1>2. QED
  BY Invariance, <1>1, PTL

-----------------------------------------------------------------------------
(* The index of the pids *)

\* A node that comes is a pair of the index that is new.
LEMMA IndexGrows ==
  ASSUME NEW n \in Nodes, NEW k \in Keys, n \notin TreeNodes, TreeNodes' = TreeNodes \cup {n},
         key'[n] = k, \A m \in TreeNodes : key'[m] = key[m] /\ key[m] # k
  PROVE  Index!Next
<1>1. index' = index \cup {<<k, n>>}
  BY DEF index
<1>2. \A e \in index : e[1] # k /\ e[2] # n
  BY DEF index
<1>3. PICK e : e = <<k, n>>
  OBVIOUS
<1>4. e \in (index' \ index) \cap (Keys \X Nodes) /\ e[1] = k /\ e[2] = n
  BY <1>1, <1>2, <1>3
<1>5. Index!Insert(e[1], e[2])
  BY <1>1, <1>2, <1>4 DEF Index!Insert
<1>6. QED
  BY <1>4, <1>5 DEF Index!Next

\* A node that goes takes its pair with it.
LEMMA IndexShrinks ==
  ASSUME NEW n \in TreeNodes, TreeNodes' = TreeNodes \ {n},
         \A m \in TreeNodes \ {n} : key'[m] = key[m]
  PROVE  Index!Next
<1>1. index' = index \ {<<key[n], n>>}
  BY DEF index
<1>2. PICK e : e = <<key[n], n>>
  OBVIOUS
<1>3. e \in index /\ e[1] = key[n] /\ e[2] = n
  BY <1>2 DEF index
<1>4. Index!Delete(e[1], e[2])
  BY <1>1, <1>2, <1>3 DEF Index!Delete
<1>5. QED
  BY <1>3, <1>4 DEF Index!Next

\* The keys of the nodes of the tree are not written to.
LEMMA KeepsIndexSame ==
  ASSUME IInv, Keeps
  PROVE  index' = index
<1>1. TreeNodes' = TreeNodes
  BY KeepsInv
<1>2. \A m \in TreeNodes : key'[m] = key[m]
  <2>1. ASSUME NEW n \in Nodes, NEW k \in KeysOf[n], InsertBegin(n, k)
        PROVE  \A m \in TreeNodes : key'[m] = key[m]
    <3>1. n \notin TreeNodes /\ key' = [key EXCEPT ![n] = k]
      BY <2>1 DEF InsertBegin
    <3>2. key \in [Nodes -> Keys \cup {0}] /\ TreeNodes \subseteq Nodes
      <4>1. PICK T, D, b : TypeOK /\ TreeInv(T, D, b)
        BY DEF IInv
      <4>2. TreeNodes = T /\ T \subseteq Nodes
        BY <4>1, InvFacts
      <4>3. QED
        BY <4>1, <4>2 DEF TypeOK
    <3>3. QED
      BY <3>1, <3>2
  <2>2. ASSUME NEW n \in Nodes, DeleteBegin(n) PROVE key' = key
    BY <2>2 DEF DeleteBegin
  <2>3. ASSUME NEW k \in Keys, FindBegin(k) PROVE key' = key
    BY <2>3 DEF FindBegin
  <2>4. CASE InsertDescend \/ InsertRecolour \/ InsertRotate \/ InsertDone
    BY <2>4 DEF InsertDescend, InsertRecolour, InsertRotate, InsertDone
  <2>5. CASE DeleteMin \/ DeleteFix \/ DeleteDone
    BY <2>5 DEF DeleteMin, DeleteFix, DeleteDone
  <2>6. CASE FindDescend \/ FindDone \/ UNCHANGED vars
    BY <2>6 DEF FindDescend, FindDone, vars
  <2>7. QED
    BY <2>1, <2>2, <2>3, <2>4, <2>5, <2>6 DEF Keeps
<1>3. QED
  BY <1>1, <1>2 DEF index

\* One pair comes, or one goes.
LEMMA ChangesIndex ==
  ASSUME IInv, Changes
  PROVE  Index!Next
<1>1. PICK T, D, b : TypeOK /\ TreeInv(T, D, b)
  BY DEF IInv
<1>2. TreeNodes = T /\ T \subseteq Nodes /\ Tree(heap, T, D)
  BY <1>1, InvFacts
<1>3. key \in [Nodes -> Keys \cup {0}]
  BY <1>1 DEF TypeOK
<1>4. ASSUME NEW n \in Nodes, NEW k \in KeysOf[n], RootOf(heap) = Nil, InsertBegin(n, k)
      PROVE  Index!Next
  <2>1. TreeNodes' = TreeNodes \cup {n}
    BY <1>4, InsertBeginInv
  <2>2. /\ n \notin TreeNodes /\ \A m \in TreeNodes : key[m] # k
        /\ key' = [key EXCEPT ![n] = k]
    BY <1>4 DEF InsertBegin
  <2>3. key'[n] = k /\ \A m \in TreeNodes : key'[m] = key[m] /\ key[m] # k
    BY <1>2, <1>3, <2>2
  <2>4. k \in Keys
    BY KeysAreNats
  <2>5. QED
    BY <2>1, <2>2, <2>3, <2>4, IndexGrows
<1>5. CASE InsertLink
  <2>1. TreeNodes' = TreeNodes \cup {node}
    BY <1>5, InsertLinkInv
  <2>2. pc = "insert" /\ key' = key
    BY <1>5 DEF InsertLink
  <2>3. Inserting(T, D)
    BY <1>1, <2>2 DEF TreeInv
  <2>4. /\ node \in Nodes \ TreeNodes /\ key[node] \in KeysOf[node]
        /\ \A m \in TreeNodes : key[m] # key[node]
    BY <1>2, <2>3 DEF Inserting
  <2>5. key[node] \in Keys
    BY <2>4, KeysAreNats
  <2>6. QED
    BY <2>1, <2>2, <2>4, <2>5, IndexGrows
<1>6. CASE DeleteRoot \/ DeleteUnlink
  <2>1. TreeNodes' = TreeNodes \ {node}
    BY <1>6, DeleteRootInv, DeleteUnlinkInv
  <2>2. pc = "unlink" /\ key' = [key EXCEPT ![node] = 0]
    BY <1>6 DEF DeleteRoot, DeleteUnlink
  <2>3. Deleting(T, D)
    BY <1>1, <2>2 DEF TreeInv
  <2>4. node \in TreeNodes
    BY <1>2, <2>3 DEF Deleting
  <2>5. \A m \in TreeNodes \ {node} : key'[m] = key[m]
    BY <1>2, <1>3, <2>2
  <2>6. QED
    BY <2>1, <2>4, <2>5, IndexShrinks
<1>7. QED
  BY <1>4, <1>5, <1>6 DEF Changes

\* The tree of a state of Init is empty.
LEMMA IndexInit == Init => Index!Init
<1> SUFFICES ASSUME Init PROVE Index!Init
  OBVIOUS
<1>1. PICK T, D, b : TypeOK /\ TreeInv(T, D, b)
  BY InvInit DEF IInv
<1>2. TreeNodes = T /\ Tree(heap, T, D)
  BY <1>1, InvFacts
<1>3. RootOf(heap) = Nil
  BY DEF Init, RootOf
<1>4. TreeNodes = {}
  BY <1>2, <1>3 DEF Tree
<1>5. QED
  BY <1>4 DEF index, Index!Init

\* Insertion adds one pair to the index, deletion takes one away, and no rotation
\* or colour changes it.
THEOREM IndexKept == Spec => KeepsIndex
<1>1. IInv /\ [Next]_vars => [Index!Next]_index
  BY NextSplits, KeepsIndexSame, ChangesIndex
<1>2. QED
  BY Invariance, IndexInit, <1>1, PTL DEF Spec, KeepsIndex, Index!Spec
=============================================================================
