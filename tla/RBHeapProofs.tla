---------------------------- MODULE RBHeapProofs ----------------------------
(***************************************************************************)
(* Lemmas about heaps that hold a red-black tree: what the writes of       *)
(* RBTree.tla do to its links, and that they keep it a search tree, with   *)
(* every way down counting the same number of black nodes.                 *)
(*                                                                         *)
(* The lemmas speak of any heap h.  T is the set of the nodes of its tree; *)
(* D[c] is the set of the nodes below cell c, c included; b[c] counts the  *)
(* black nodes of a way from c down to the sentinel.                       *)
(***************************************************************************)
EXTENDS RBTree, FiniteSetTheorems, WellFoundedInduction, TLAPS

\* The links of h make a tree of T, whose nodes know their parents.
Tree(h, T, D) ==
  /\ T \subseteq Nodes
  /\ D \in [Cells -> SUBSET Nodes]
  /\ D[Nil] = {}
  /\ D[RootOf(h)] = T
  /\ RootOf(h) \in T \cup {Nil}
  /\ \A n \in T, s \in Sides :
       /\ KidOf(h, s, n) \in T \cup {Nil}
       /\ KidOf(h, s, n) # Nil => ParentOf(h, KidOf(h, s, n)) = n
       /\ D[n] = {n} \cup D[KidOf(h, s, n)] \cup D[KidOf(h, Opp(s), n)]
       /\ D[KidOf(h, s, n)] \cap D[KidOf(h, Opp(s), n)] = {}
       /\ n \notin D[KidOf(h, s, n)]

\* Where side s of key j is.
Before(s, i, j) == IF s = "left" THEN i < j ELSE j < i

Sorted(h, T, D, k) ==
  \A n \in T, s \in Sides : \A m \in D[KidOf(h, s, n)] : Before(s, k[m], k[n])

WeightIn(h, c) == IF RedIn(h, c) THEN 0 ELSE 1

Extra(l, s, n) == IF l = <<s, n>> THEN 1 ELSE 0

\* All ways from a cell count the same, when link l counts one.
Counted(h, T, b, l) ==
  /\ b \in [Cells -> Nat]
  /\ b[Nil] = 0
  /\ ~RedIn(h, Nil)
  /\ \A n \in T, s \in Sides :
       b[n] = b[KidOf(h, s, n)] + WeightIn(h, n) + Extra(l, s, n)

\* Two red nodes in a row.
RedPair(h, T, n, s) == n \in T /\ RedIn(h, n) /\ RedIn(h, KidOf(h, s, n))

\* A red-black tree.
Settled(h, T, b) ==
  /\ Counted(h, T, b, <<>>)
  /\ ~RedIn(h, RootOf(h))
  /\ \A n \in T, s \in Sides : ~RedPair(h, T, n, s)

\* One but for node x, which is red like its parent, or like no root is.
InsertFixing(h, T, b, x) ==
  /\ Counted(h, T, b, <<>>)
  /\ x \in T /\ RedIn(h, x)
  /\ RedIn(h, RootOf(h)) => RootOf(h) = x
  /\ \A n \in T, s \in Sides : RedPair(h, T, n, s) => KidOf(h, s, n) = x

\* One but for cell x, which lacks a black node unless it is the root.
DeleteFixing(h, T, b, x) ==
  /\ x \in T \cup {Nil}
  /\ RedIn(h, RootOf(h)) => RootOf(h) = x
  /\ \A n \in T, s \in Sides : RedPair(h, T, n, s) => x \in {n, KidOf(h, s, n)}
  /\ IF x = RootOf(h) THEN Counted(h, T, b, <<>>)
     ELSE /\ ParentOf(h, x) \in T
          /\ KidOf(h, SideIn(h, x), ParentOf(h, x)) = x
          /\ Counted(h, T, b, <<SideIn(h, x), ParentOf(h, x)>>)

-----------------------------------------------------------------------------
(* The inductive invariant of RBTree.tla, for a tree with T, D and b *)

\* All nodes that are to come have greater keys than subst.
Least(T, D) ==
  /\ subst \in D[KidOf(heap, "right", node)]
  /\ KidOf(heap, "left", node) # Nil
  /\ \A m \in D[KidOf(heap, "right", node)] \ D[subst] : key[subst] < key[m]

Colours(T, b) ==
  /\ pc \in {"idle", "insert", "min", "unlink", "find"} => Settled(heap, T, b)
  /\ pc = "insert_fix" => InsertFixing(heap, T, b, node)
  /\ pc = "delete_fix" => DeleteFixing(heap, T, b, temp)

\* The new node belongs below temp.
Inserting(T, D) ==
  /\ node \in Nodes \ T
  /\ temp \in T
  /\ key[node] \in KeysOf[node]
  /\ \A m \in T : key[m] # key[node]
  /\ \A n \in T, s \in Sides : temp \in D[KidOf(heap, s, n)] => Before(s, key[node], key[n])

Deleting(T, D) ==
  /\ node \in T
  /\ subst \in T
  /\ pc = "min" => Least(T, D)
  /\ pc = "unlink" =>
       \/ subst = node /\ \E s \in Sides : KidOf(heap, s, node) = Nil
       \/ Least(T, D) /\ KidOf(heap, "left", subst) = Nil

Finding(T, D) ==
  /\ temp \in T \cup {Nil}
  /\ \A n \in T : key[n] = goal => n \in D[temp]

TreeInv(T, D, b) ==
  /\ Tree(heap, T, D)
  /\ Sorted(heap, T, D, key)
  /\ \A n \in T : key[n] \in Keys
  /\ Colours(T, b)
  /\ pc = "insert" => Inserting(T, D)
  /\ pc \in {"min", "unlink"} => Deleting(T, D)
  /\ pc = "find" => Finding(T, D)

IInv ==
  /\ TypeOK
  /\ \E T \in SUBSET Nodes, D \in [Cells -> SUBSET Nodes], b \in [Cells -> Nat] :
       TreeInv(T, D, b)

-----------------------------------------------------------------------------
(* Trees *)

\* Left and right are exchanged twice.
LEMMA OppSides ==
  \A s \in Sides : Opp(s) \in Sides /\ Opp(s) # s /\ Opp(Opp(s)) = s /\ Sides = {s, Opp(s)}
BY DEF Sides, Opp

\* A kid of a node is below it, and the node is not below its kid.
LEMMA KidsBelow ==
  ASSUME NEW h, NEW T, NEW D, Tree(h, T, D), NEW n \in T, NEW s \in Sides
  PROVE  /\ n \in D[n]
         /\ D[KidOf(h, s, n)] \subseteq D[n]
         /\ D[KidOf(h, s, n)] # D[n]
         /\ KidOf(h, s, n) # Nil => KidOf(h, s, n) \in T /\ KidOf(h, s, n) \in D[KidOf(h, s, n)]
<1>1. \A m \in T : m \in D[m]
  BY DEF Tree, Sides
<1>2. QED
  BY <1>1 DEF Tree

\* Of the nodes of any set there is one that has no other below it.
LEMMA LowestNode ==
  ASSUME NEW h, NEW T, NEW D, Tree(h, T, D), NEW B \in SUBSET T, B # {}
  PROVE  \E x \in B : \A y \in B : D[y] \subseteq D[x] => D[y] = D[x]
<1> DEFINE R == StrictSubsetOrdering(Nodes)
           U == {D[x] : x \in B}
<1>1. IsWellFoundedOn(R, SUBSET Nodes)
  BY FS_StrictSubsetOrderingWellFounded, FS_FiniteSubsetsOfFinite, RBTreeAssumption
<1>2. U \subseteq SUBSET Nodes /\ U # {}
  BY DEF Tree, Cells
<1> HIDE DEF R
<1>3. PICK u \in U : \A v \in U : <<v, u>> \notin R
  BY <1>1, <1>2, WFMin
<1>4. PICK x \in B : u = D[x]
  BY <1>3
<1>5. ASSUME NEW y \in B, D[y] \subseteq D[x] PROVE D[y] = D[x]
  <2>1. D[y] \in U /\ <<D[y], D[x]>> \notin R
    BY <1>3, <1>4
  <2>2. D[y] \in SUBSET Nodes /\ D[x] \in SUBSET Nodes
    BY <1>2, <1>4, <2>1
  <2>3. QED
    BY <1>5, <2>1, <2>2 DEF R, StrictSubsetOrdering
<1>6. QED
  BY <1>5

\* What is below a node that is below n is below n, and each node below n, but for n
\* itself, is a kid of its parent, which is below n too.
LEMMA SubtreesNest ==
  ASSUME NEW h, NEW T, NEW D, Tree(h, T, D)
  PROVE  \A n \in T : \A m \in D[n] :
           /\ m \in T
           /\ D[m] \subseteq D[n]
           /\ m # n => /\ ParentOf(h, m) \in D[n]
                       /\ \E s \in Sides : KidOf(h, s, ParentOf(h, m)) = m
<1> DEFINE Good(n) == \A m \in D[n] :
                        /\ m \in T
                        /\ D[m] \subseteq D[n]
                        /\ m # n => /\ ParentOf(h, m) \in D[n]
                                    /\ \E s \in Sides : KidOf(h, s, ParentOf(h, m)) = m
           B == {n \in T : ~Good(n)}
<1>1. SUFFICES ASSUME B # {} PROVE FALSE
  OBVIOUS
<1>a. B \in SUBSET T
  OBVIOUS
<1> HIDE DEF B
<1>2. PICK x \in B : \A y \in B : D[y] \subseteq D[x] => D[y] = D[x]
  BY <1>1, <1>a, LowestNode
<1> USE DEF B
<1>3. \A s \in Sides : KidOf(h, s, x) # Nil => Good(KidOf(h, s, x))
  BY <1>2, KidsBelow
<1>4. ASSUME NEW m \in D[x], m # x
      PROVE  /\ m \in T
             /\ D[m] \subseteq D[x]
             /\ ParentOf(h, m) \in D[x]
             /\ \E s \in Sides : KidOf(h, s, ParentOf(h, m)) = m
  <2>1. PICK s \in Sides : m \in D[KidOf(h, s, x)]
    BY <1>4, OppSides DEF Tree, Sides
  <2>2. KidOf(h, s, x) # Nil
    BY <2>1 DEF Tree
  <2>3. D[KidOf(h, s, x)] \subseteq D[x] /\ x \in D[x] /\ KidOf(h, s, x) \in T
    BY <2>2, KidsBelow
  <2>4. Good(KidOf(h, s, x))
    BY <1>3, <2>2
  <2>5. CASE m = KidOf(h, s, x)
    <3>1. ParentOf(h, m) = x
      BY <2>2, <2>5 DEF Tree
    <3>2. QED
      BY <2>3, <2>5, <3>1
  <2>6. CASE m # KidOf(h, s, x)
    BY <2>1, <2>3, <2>4, <2>6
  <2>7. QED
    BY <2>5, <2>6
<1>5. Good(x)
  BY <1>2, <1>4
<1>6. QED
  BY <1>2, <1>5

\* The nodes of the tree but for its root are kids of nodes of the tree.
LEMMA ParentsInTree ==
  ASSUME NEW h, NEW T, NEW D, Tree(h, T, D), NEW m \in T, m # RootOf(h)
  PROVE  /\ ParentOf(h, m) \in T
         /\ \E s \in Sides : KidOf(h, s, ParentOf(h, m)) = m
         /\ RootOf(h) \in T
<1>1. RootOf(h) \in T /\ D[RootOf(h)] = T
  BY DEF Tree
<1>2. QED
  BY <1>1, SubtreesNest

\* A node hangs on one link.
LEMMA OneLink ==
  ASSUME NEW h, NEW T, NEW D, Tree(h, T, D), NEW n \in T, NEW s \in Sides, KidOf(h, s, n) # Nil
  PROVE  /\ KidOf(h, Opp(s), n) # KidOf(h, s, n)
         /\ KidOf(h, s, n) # n
         /\ KidOf(h, s, n) # RootOf(h)
         /\ \A m \in T, q \in Sides : KidOf(h, q, m) = KidOf(h, s, n) => m = n /\ q = s
<1> DEFINE c == KidOf(h, s, n)
<1>1. c \in T /\ c \in D[c] /\ n \notin D[c]
  BY KidsBelow DEF Tree
<1>2. KidOf(h, Opp(s), n) # c
  BY <1>1 DEF Tree
<1>3. c # RootOf(h)
  BY <1>1 DEF Tree
<1>4. ASSUME NEW m \in T, NEW q \in Sides, KidOf(h, q, m) = c PROVE m = n /\ q = s
  <2>1. m = n
    BY <1>4 DEF Tree
  <2>2. QED
    BY <1>2, <1>4, <2>1, OppSides
<1>5. QED
  BY <1>1, <1>2, <1>3, <1>4

-----------------------------------------------------------------------------
(* Writes *)

\* A heap is made of its fields.
LEMMA HeapFields ==
  ASSUME NEW h \in Heaps
  PROVE  /\ \A s \in Sides, c \in Cells : KidOf(h, s, c) \in Ptrs
         /\ \A c \in Cells : ParentOf(h, c) \in Ptrs
         /\ RootOf(h) \in Cells
BY DEF Heaps, KidOf, ParentOf, RootOf

\* g is h with one write: to a link, a parent, the root or colours.
KidSet(h, g, s, c, d) ==
  /\ g \in Heaps
  /\ \A q \in Sides, m \in Cells : KidOf(g, q, m) = IF q = s /\ m = c THEN d ELSE KidOf(h, q, m)
  /\ \A m : ParentOf(g, m) = ParentOf(h, m) /\ (RedIn(g, m) <=> RedIn(h, m))
  /\ RootOf(g) = RootOf(h)

ParentSet(h, g, c, p) ==
  /\ g \in Heaps
  /\ \A q \in Sides, m \in Cells : KidOf(g, q, m) = KidOf(h, q, m)
  /\ \A m \in Cells : ParentOf(g, m) = IF m = c THEN p ELSE ParentOf(h, m)
  /\ \A m : RedIn(g, m) <=> RedIn(h, m)
  /\ RootOf(g) = RootOf(h)

RootSet(h, g, d) ==
  /\ g \in Heaps
  /\ \A q \in Sides, m \in Cells : KidOf(g, q, m) = KidOf(h, q, m)
  /\ \A m : ParentOf(g, m) = ParentOf(h, m) /\ (RedIn(g, m) <=> RedIn(h, m))
  /\ RootOf(g) = d

Painted(h, g, R, B) ==
  /\ g \in Heaps
  /\ \A q \in Sides, m \in Cells : KidOf(g, q, m) = KidOf(h, q, m)
  /\ \A m : /\ ParentOf(g, m) = ParentOf(h, m)
            /\ RedIn(g, m) <=> m \notin B /\ (m \in R \/ RedIn(h, m))
  /\ RootOf(g) = RootOf(h)

\* The link to c points to d.
Replaced(h, g, c, d) ==
  /\ g \in Heaps
  /\ \A q \in Sides, m \in Cells :
       KidOf(g, q, m) =
         IF c # RootOf(h) /\ m = ParentOf(h, c) /\ KidOf(h, q, m) = c THEN d ELSE KidOf(h, q, m)
  /\ \A m : ParentOf(g, m) = ParentOf(h, m) /\ (RedIn(g, m) <=> RedIn(h, m))
  /\ RootOf(g) = IF c = RootOf(h) THEN d ELSE RootOf(h)

\* Colours leave the links alone.
LEMMA PaintFacts ==
  ASSUME NEW h \in Heaps, NEW R \in SUBSET Cells, NEW B
  PROVE  Painted(h, Paint(h, R, B), R, B)
BY DEF Painted, Paint, Heaps, KidOf, ParentOf, RootOf, RedIn

\* Setting a link.
LEMMA SetKid ==
  ASSUME NEW h \in Heaps, NEW s \in Sides, NEW c \in Cells, NEW d \in Ptrs
  PROVE  KidSet(h, WithKid(h, s, c, d), s, c, d)
<1> DEFINE g == WithKid(h, s, c, d)
<1>1. g.kid = [h.kid EXCEPT ![s] = [h.kid[s] EXCEPT ![c] = d]]
  BY DEF Heaps, WithKid
<1>2. g.kid \in [Sides -> [Cells -> Ptrs]]
  BY <1>1 DEF Heaps
<1>3. g \in Heaps
  BY <1>2 DEF Heaps, WithKid
<1>4. g.parent = h.parent /\ g.root = h.root /\ g.red = h.red
  BY DEF Heaps, WithKid
<1>5. \A q \in Sides, m \in Cells : g.kid[q][m] = IF q = s /\ m = c THEN d ELSE h.kid[q][m]
  BY <1>1 DEF Heaps
<1> HIDE DEF g
<1>6. QED
  BY <1>3, <1>4, <1>5 DEF KidSet, KidOf, ParentOf, RootOf, RedIn, g

\* Setting a parent.
LEMMA SetParent ==
  ASSUME NEW h \in Heaps, NEW c \in Cells, NEW p \in Ptrs
  PROVE  ParentSet(h, WithParent(h, c, p), c, p)
BY DEF ParentSet, Heaps, WithParent, KidOf, ParentOf, RootOf, RedIn

\* Setting the root.
LEMMA SetRoot ==
  ASSUME NEW h \in Heaps, NEW d \in Cells
  PROVE  RootSet(h, WithRoot(h, d), d)
BY DEF RootSet, Heaps, WithRoot, KidOf, ParentOf, RootOf, RedIn

\* The sentinel keeps its parent.
LEMMA AdoptFacts ==
  ASSUME NEW h \in Heaps, NEW c \in Cells, NEW p \in Ptrs
  PROVE  ParentSet(h, Adopt(h, c, p), c, IF c = Nil THEN ParentOf(h, Nil) ELSE p)
<1>1. CASE c = Nil
  BY <1>1 DEF Adopt, ParentSet
<1>2. CASE c # Nil
  BY <1>2, SetParent DEF Adopt
<1>3. QED
  BY <1>1, <1>2

\* The link that points to c is the only one that changes.
LEMMA ReplaceFacts ==
  ASSUME NEW h \in Heaps, NEW c \in Cells, NEW d \in Cells, NEW s \in Sides,
         c # RootOf(h) =>
           /\ ParentOf(h, c) \in Nodes
           /\ \E q \in Sides : /\ KidOf(h, q, ParentOf(h, c)) = c
                               /\ KidOf(h, Opp(q), ParentOf(h, c)) # c
  PROVE  Replaced(h, Replace(h, c, d, s), c, d)
<1>1. CASE c = RootOf(h)
  <2>1. RootSet(h, Replace(h, c, d, s), d)
    BY <1>1, SetRoot DEF Replace
  <2>2. QED
    BY <1>1, <2>1 DEF RootSet, Replaced
<1>2. CASE c # RootOf(h)
  <2>1. PICK p : p = ParentOf(h, c)
    OBVIOUS
  <2>2. PICK q : q = IF c = KidOf(h, s, p) THEN s ELSE Opp(s)
    OBVIOUS
  <2>3. Replace(h, c, d, s) = WithKid(h, q, p, d)
    BY <1>2, <2>1, <2>2 DEF Replace
  <2>4. q \in Sides /\ p \in Cells /\ d \in Ptrs
    BY <1>2, <2>1, <2>2 DEF Cells, Ptrs, Opp, Sides
  <2>5. KidOf(h, q, p) = c /\ KidOf(h, Opp(q), p) # c
    BY <1>2, <2>1, <2>2 DEF Opp, Sides
  <2>6. \A r \in Sides : r # q => KidOf(h, r, p) # c
    BY <2>4, <2>5 DEF Opp, Sides
  <2>7. KidSet(h, Replace(h, c, d, s), q, p, d)
    BY <2>3, <2>4, SetKid
  <2>8. QED
    BY <1>2, <2>1, <2>5, <2>6, <2>7 DEF KidSet, Replaced
<1>3. QED
  BY <1>1, <1>2

-----------------------------------------------------------------------------
(* Rotations *)

\* h2 has the links of h, but that c has gone down on side s below its kid t.
Rotated(h, h2, T, c, t, s) ==
  /\ RootOf(h2) = IF c = RootOf(h) THEN t ELSE RootOf(h)
  /\ KidOf(h2, s, t) = c
  /\ KidOf(h2, Opp(s), t) = KidOf(h, Opp(s), t)
  /\ KidOf(h2, s, c) = KidOf(h, s, c)
  /\ KidOf(h2, Opp(s), c) = KidOf(h, s, t)
  /\ \A m \in T \ {c, t}, q \in Sides :
       KidOf(h2, q, m) = IF KidOf(h, q, m) = c THEN t ELSE KidOf(h, q, m)
  /\ ParentOf(h2, c) = t
  /\ ParentOf(h2, t) = ParentOf(h, c)
  /\ \A m \in (T \cup {Nil}) \ {c, t} :
       ParentOf(h2, m) = IF m # Nil /\ m = KidOf(h, s, t) THEN c ELSE ParentOf(h, m)

\* rbtree_left_rotate() and rbtree_right_rotate() move three links and three parents.
LEMMA RotateWrites ==
  ASSUME NEW h \in Heaps, NEW s \in Sides,
         NEW c \in Nodes, NEW t \in Nodes, NEW k \in Cells,
         t = KidOf(h, Opp(s), c), k = KidOf(h, s, t), t # c, k # t, k # c,
         c # RootOf(h) =>
           /\ ParentOf(h, c) \in Nodes \ {c, t}
           /\ \E q \in Sides : /\ KidOf(h, q, ParentOf(h, c)) = c
                               /\ KidOf(h, Opp(q), ParentOf(h, c)) # c,
         NEW h2, h2 = Rotate(h, c, s)
  PROVE  /\ h2 \in Heaps
         /\ \A m : RedIn(h2, m) <=> RedIn(h, m)
         /\ RootOf(h2) = IF c = RootOf(h) THEN t ELSE RootOf(h)
         /\ KidOf(h2, s, t) = c
         /\ KidOf(h2, Opp(s), t) = KidOf(h, Opp(s), t)
         /\ KidOf(h2, s, c) = KidOf(h, s, c)
         /\ KidOf(h2, Opp(s), c) = k
         /\ \A m \in Cells \ {c, t}, q \in Sides :
              KidOf(h2, q, m) =
                IF c # RootOf(h) /\ m = ParentOf(h, c) /\ KidOf(h, q, m) = c
                  THEN t ELSE KidOf(h, q, m)
         /\ ParentOf(h2, c) = t
         /\ ParentOf(h2, t) = ParentOf(h, c)
         /\ \A m \in Cells \ {c, t} :
              ParentOf(h2, m) = IF m # Nil /\ m = k THEN c ELSE ParentOf(h, m)
<1>0. /\ c \in Cells /\ t \in Cells /\ c \in Ptrs /\ t \in Ptrs /\ k \in Ptrs
      /\ ParentOf(h, c) \in Ptrs
      /\ Opp(s) \in Sides /\ Opp(s) # s
  BY HeapFields, OppSides DEF Cells, Ptrs
<1>o. PICK o : o = Opp(s)
  OBVIOUS
<1>1. PICK g1 : g1 = WithKid(h, o, c, k)
  OBVIOUS
<1>2. KidSet(h, g1, o, c, k)
  BY <1>0, <1>o, <1>1, SetKid
<1>3. PICK g2 : g2 = Adopt(g1, k, c)
  OBVIOUS
<1>4. ParentSet(g1, g2, k, IF k = Nil THEN ParentOf(g1, Nil) ELSE c)
  <2>1. g1 \in Heaps
    BY <1>2 DEF KidSet
  <2>2. QED
    BY <1>0, <1>3, <2>1, AdoptFacts
<1>5. PICK g3 : g3 = WithParent(g2, t, ParentOf(g2, c))
  OBVIOUS
<1>6. ParentSet(g2, g3, t, ParentOf(g2, c))
  <2>1. g2 \in Heaps
    BY <1>4 DEF ParentSet
  <2>2. ParentOf(g2, c) \in Ptrs
    BY <1>0, <2>1, HeapFields
  <2>3. QED
    BY <1>0, <1>5, <2>1, <2>2, SetParent
<1>7. /\ g3 \in Heaps
      /\ \A q \in Sides, m \in Cells : KidOf(g3, q, m) = IF q = o /\ m = c THEN k ELSE KidOf(h, q, m)
      /\ \A m \in Cells : ParentOf(g3, m) = IF m = t THEN ParentOf(h, c)
                                            ELSE IF m = k /\ k # Nil THEN c ELSE ParentOf(h, m)
      /\ RootOf(g3) = RootOf(h)
      /\ \A m : RedIn(g3, m) <=> RedIn(h, m)
  BY <1>0, <1>2, <1>4, <1>6 DEF KidSet, ParentSet
<1>8. PICK g4 : g4 = Replace(g3, c, t, s)
  OBVIOUS
<1>9. Replaced(g3, g4, c, t)
  <2>1. c # RootOf(g3) =>
          /\ ParentOf(g3, c) \in Nodes
          /\ \E q \in Sides : /\ KidOf(g3, q, ParentOf(g3, c)) = c
                              /\ KidOf(g3, Opp(q), ParentOf(g3, c)) # c
    BY <1>0, <1>7, OppSides DEF Cells
  <2>2. QED
    BY <1>0, <1>7, <1>8, <2>1, ReplaceFacts
<1>10. PICK g5 : g5 = WithKid(g4, s, t, c)
  OBVIOUS
<1>11. KidSet(g4, g5, s, t, c)
  <2>1. g4 \in Heaps
    BY <1>9 DEF Replaced
  <2>2. QED
    BY <1>0, <1>10, <2>1, SetKid
<1>12. ParentSet(g5, h2, c, t)
  <2>1. g5 \in Heaps
    BY <1>11 DEF KidSet
  <2>2. h2 = Exchange(g2, c, t, s)
    BY <1>o, <1>1, <1>3 DEF Rotate
  <2>3. Exchange(g2, c, t, s) = WithParent(g5, c, t)
    BY <1>5, <1>8, <1>10 DEF Exchange
  <2>4. h2 = WithParent(g5, c, t)
    BY <2>2, <2>3
  <2>5. QED
    BY <1>0, <2>1, <2>4, SetParent
<1>13. /\ h2 \in Heaps
       /\ \A q \in Sides, m \in Cells : KidOf(h2, q, m) = IF q = s /\ m = t THEN c ELSE KidOf(g4, q, m)
       /\ \A m \in Cells : ParentOf(h2, m) = IF m = c THEN t ELSE ParentOf(g3, m)
       /\ RootOf(h2) = IF c = RootOf(h) THEN t ELSE RootOf(h)
       /\ \A m : RedIn(h2, m) <=> RedIn(h, m)
  BY <1>7, <1>9, <1>11, <1>12 DEF Replaced, KidSet, ParentSet
<1>14. \A q \in Sides, m \in Cells :
         KidOf(g4, q, m) = IF c # RootOf(h) /\ m = ParentOf(h, c) /\ KidOf(g3, q, m) = c
                             THEN t ELSE KidOf(g3, q, m)
  BY <1>0, <1>7, <1>9 DEF Replaced
<1>15. \A m \in Cells \ {c, t}, q \in Sides :
         KidOf(h2, q, m) = IF c # RootOf(h) /\ m = ParentOf(h, c) /\ KidOf(h, q, m) = c
                             THEN t ELSE KidOf(h, q, m)
  BY <1>7, <1>13, <1>14
<1>16. /\ KidOf(h2, s, t) = c
       /\ KidOf(h2, o, t) = KidOf(h, o, t)
       /\ KidOf(h2, s, c) = KidOf(h, s, c)
       /\ KidOf(h2, o, c) = k
  BY <1>0, <1>o, <1>7, <1>13, <1>14
<1>17. /\ ParentOf(h2, c) = t
       /\ ParentOf(h2, t) = ParentOf(h, c)
       /\ \A m \in Cells \ {c, t} : ParentOf(h2, m) = IF m # Nil /\ m = k THEN c ELSE ParentOf(h, m)
  BY <1>0, <1>7, <1>13
<1>18. QED
  BY <1>o, <1>13, <1>15, <1>16, <1>17

\* In a tree, no link but those of Rotated changes.
LEMMA RotateFacts ==
  ASSUME NEW h \in Heaps, NEW T, NEW D, Tree(h, T, D), NEW c \in T, NEW s \in Sides,
         NEW t, t = KidOf(h, Opp(s), c), t # Nil,
         NEW h2, h2 = Rotate(h, c, s)
  PROVE  /\ h2 \in Heaps
         /\ Rotated(h, h2, T, c, t, s)
         /\ \A m : RedIn(h2, m) <=> RedIn(h, m)
         /\ t \in T /\ t # c
<1>k. PICK k : k = KidOf(h, s, t)
  OBVIOUS
<1>2. /\ Opp(s) \in Sides /\ Opp(s) # s /\ Opp(Opp(s)) = s
      /\ \A q \in Sides : q = s \/ q = Opp(s)
  BY OppSides
<1>3. /\ T \subseteq Nodes /\ Nil \notin T
      /\ c \in Nodes /\ t \in T /\ t \in Nodes /\ t # c
      /\ T \subseteq Cells /\ Nil \in Cells
  BY <1>2, OneLink, RBTreeAssumption DEF Tree, Cells
<1>4. k \in T \cup {Nil} /\ k # t /\ k # c
  <2>1. k \in T \cup {Nil} /\ (k # Nil => k # t)
    BY <1>k, <1>3, OneLink DEF Tree
  <2>2. k # c
    <3> SUFFICES ASSUME k = c PROVE FALSE
      OBVIOUS
    <3>1. k # Nil
      BY <1>3
    <3>2. c \in D[c] /\ D[t] \subseteq D[c] /\ D[t] # D[c]
      BY <1>2, KidsBelow
    <3>3. D[c] \subseteq D[t]
      BY <1>k, <1>3, KidsBelow
    <3>4. QED
      BY <3>2, <3>3
  <2>3. QED
    BY <1>3, <2>1, <2>2
<1>5. c # RootOf(h) =>
        /\ ParentOf(h, c) \in T \ {c, t}
        /\ \E q \in Sides : /\ KidOf(h, q, ParentOf(h, c)) = c
                            /\ KidOf(h, Opp(q), ParentOf(h, c)) # c
  <2> SUFFICES ASSUME c # RootOf(h)
               PROVE  /\ ParentOf(h, c) \in T \ {c, t}
                      /\ \E q \in Sides : /\ KidOf(h, q, ParentOf(h, c)) = c
                                          /\ KidOf(h, Opp(q), ParentOf(h, c)) # c
    OBVIOUS
  <2>p. PICK p : p = ParentOf(h, c)
    OBVIOUS
  <2>1. p \in T
    BY <2>p, ParentsInTree
  <2>2. PICK q \in Sides : KidOf(h, q, p) = c
    BY <2>p, ParentsInTree
  <2>3. KidOf(h, Opp(q), p) # c /\ p # c /\ D[c] \subseteq D[p] /\ D[c] # D[p]
    BY <1>3, <2>1, <2>2, KidsBelow, OneLink
  <2>4. D[t] \subseteq D[c]
    BY <1>2, KidsBelow
  <2>5. QED
    BY <2>p, <2>1, <2>2, <2>3, <2>4
<1>6. \A q \in Sides, m \in T : KidOf(h, q, m) = c => m = ParentOf(h, c) /\ c # RootOf(h)
  BY <1>3, OneLink DEF Tree
<1>7. k \in Cells
  BY <1>3, <1>4
<1>8. /\ h2 \in Heaps
      /\ \A m : RedIn(h2, m) <=> RedIn(h, m)
      /\ RootOf(h2) = IF c = RootOf(h) THEN t ELSE RootOf(h)
      /\ KidOf(h2, s, t) = c
      /\ KidOf(h2, Opp(s), t) = KidOf(h, Opp(s), t)
      /\ KidOf(h2, s, c) = KidOf(h, s, c)
      /\ KidOf(h2, Opp(s), c) = k
      /\ \A m \in Cells \ {c, t}, q \in Sides :
           KidOf(h2, q, m) =
             IF c # RootOf(h) /\ m = ParentOf(h, c) /\ KidOf(h, q, m) = c
               THEN t ELSE KidOf(h, q, m)
      /\ ParentOf(h2, c) = t
      /\ ParentOf(h2, t) = ParentOf(h, c)
      /\ \A m \in Cells \ {c, t} :
           ParentOf(h2, m) = IF m # Nil /\ m = k THEN c ELSE ParentOf(h, m)
  BY <1>k, <1>3, <1>4, <1>5, <1>7, RotateWrites
<1>9. \A m \in T \ {c, t}, q \in Sides :
        KidOf(h2, q, m) = IF KidOf(h, q, m) = c THEN t ELSE KidOf(h, q, m)
  BY <1>3, <1>6, <1>8
<1>10. \A m \in (T \cup {Nil}) \ {c, t} :
         ParentOf(h2, m) = IF m # Nil /\ m = KidOf(h, s, t) THEN c ELSE ParentOf(h, m)
  BY <1>k, <1>3, <1>8
<1>11. QED
  BY <1>k, <1>3, <1>8, <1>9, <1>10 DEF Rotated

\* h is a tree, and c can go down on side s below its kid t.
Turns(h, T, D, c, t, s) ==
  /\ Tree(h, T, D)
  /\ c \in T
  /\ s \in Sides
  /\ t = KidOf(h, Opp(s), c)
  /\ t # Nil

\* What is below the cells when c has gone down below t on side s.
Lowered(h, D, c, t, s) ==
  [D EXCEPT ![t] = D[c], ![c] = {c} \cup D[KidOf(h, s, c)] \cup D[KidOf(h, s, t)]]

\* The subtrees that a rotation leaves together, and the two that it changes.
LEMMA RotateSubtrees ==
  ASSUME NEW h, NEW T, NEW D, NEW c, NEW s, NEW t, Turns(h, T, D, c, t, s),
         NEW D2, D2 = Lowered(h, D, c, t, s)
  PROVE  /\ D2 \in [Cells -> SUBSET Nodes]
         /\ \A x \in Cells \ {c, t} : D2[x] = D[x]
         /\ D2[t] = D[c]
         /\ D2[c] = {c} \cup D[KidOf(h, s, c)] \cup D[KidOf(h, s, t)]
         /\ D[c] = {c, t} \cup D[KidOf(h, s, c)] \cup D[KidOf(h, s, t)] \cup D[KidOf(h, Opp(s), t)]
         /\ KidOf(h, s, c) \in (T \cup {Nil}) \ {c, t}
         /\ KidOf(h, s, t) \in (T \cup {Nil}) \ {c, t}
         /\ KidOf(h, Opp(s), t) \in (T \cup {Nil}) \ {c, t}
         /\ t \in T /\ t # c
         /\ c \notin D[t] /\ c \notin D[KidOf(h, s, c)] /\ t \notin D[KidOf(h, s, c)]
         /\ D[KidOf(h, s, c)] \cap D[t] = {}
<1>0. /\ Tree(h, T, D) /\ c \in T /\ s \in Sides
      /\ t = KidOf(h, Opp(s), c) /\ t # Nil
  BY DEF Turns
<1> USE <1>0
<1>1. /\ Opp(s) \in Sides /\ Opp(s) # s /\ Opp(Opp(s)) = s
  BY OppSides
<1>2. /\ t \in T /\ t # c /\ Nil \notin T /\ T \subseteq Cells /\ Nil \in Cells
  BY <1>1, OneLink, RBTreeAssumption DEF Tree, Cells
<1>3. PICK a : a = KidOf(h, s, c)
  OBVIOUS
<1>4. PICK k : k = KidOf(h, s, t)
  OBVIOUS
<1>5. PICK e : e = KidOf(h, Opp(s), t)
  OBVIOUS
<1>6. /\ a \in T \cup {Nil} /\ k \in T \cup {Nil} /\ e \in T \cup {Nil}
      /\ D[c] = {c} \cup D[a] \cup D[t]
      /\ D[t] = {t} \cup D[k] \cup D[e]
      /\ D[a] \cap D[t] = {}
      /\ c \notin D[t] /\ c \notin D[a] /\ t \notin D[k] /\ t \notin D[e]
  BY <1>1, <1>2, <1>3, <1>4, <1>5 DEF Tree
<1>7. \A x \in T : x \in D[x]
  BY KidsBelow
<1>8. a \notin {c, t} /\ k \notin {c, t} /\ e \notin {c, t}
  BY <1>2, <1>6, <1>7
<1>9. D \in [Cells -> SUBSET Nodes]
  BY DEF Tree
<1>10. D2 = [D EXCEPT ![t] = D[c], ![c] = {c} \cup D[a] \cup D[k]]
  BY <1>3, <1>4 DEF Lowered
<1>11. c \in Cells /\ t \in Cells /\ c \in Nodes
  BY <1>2 DEF Tree
<1>12. /\ D2 \in [Cells -> SUBSET Nodes]
       /\ \A x \in Cells \ {c, t} : D2[x] = D[x]
       /\ D2[t] = D[c]
       /\ D2[c] = {c} \cup D[a] \cup D[k]
  <2>1. D[c] \in SUBSET Nodes /\ {c} \cup D[a] \cup D[k] \in SUBSET Nodes
    BY <1>2, <1>6, <1>9, <1>11
  <2>2. QED
    BY <1>2, <1>9, <1>10, <1>11, <2>1
<1>13. t \notin D[a]
  BY <1>6
<1>14. QED
  BY <1>2, <1>3, <1>4, <1>5, <1>6, <1>8, <1>12, <1>13

\* After a rotation the links make a tree of the same nodes.
LEMMA RotateTree ==
  ASSUME NEW h, NEW T, NEW D, NEW c, NEW s, NEW t, Turns(h, T, D, c, t, s),
         NEW h2, Rotated(h, h2, T, c, t, s),
         NEW D2, D2 = Lowered(h, D, c, t, s)
  PROVE  /\ Tree(h2, T, D2)
         /\ \A m \in T \ {c, t}, q \in Sides : D2[KidOf(h2, q, m)] = D[KidOf(h, q, m)]
<1>0. /\ Tree(h, T, D) /\ c \in T /\ s \in Sides
      /\ t = KidOf(h, Opp(s), c) /\ t # Nil
  BY DEF Turns
<1> USE <1>0
<1>1. PICK a : a = KidOf(h, s, c)
  OBVIOUS
<1>2. PICK k : k = KidOf(h, s, t)
  OBVIOUS
<1>3. PICK o : o = Opp(s)
  OBVIOUS
<1>4. PICK e : e = KidOf(h, o, t)
  OBVIOUS
<1>5. /\ o \in Sides /\ o # s /\ Opp(o) = s /\ \A q \in Sides : q \in {s, o}
  BY <1>3, OppSides
<1>6. /\ D2 \in [Cells -> SUBSET Nodes]
      /\ \A x \in Cells \ {c, t} : D2[x] = D[x]
      /\ D2[t] = D[c]
      /\ D2[c] = {c} \cup D[a] \cup D[k]
      /\ D[c] = {c, t} \cup D[a] \cup D[k] \cup D[e]
      /\ a \in (T \cup {Nil}) \ {c, t}
      /\ k \in (T \cup {Nil}) \ {c, t}
      /\ e \in (T \cup {Nil}) \ {c, t}
      /\ t \in T /\ t # c
      /\ c \notin D[t] /\ c \notin D[a] /\ t \notin D[a]
      /\ D[a] \cap D[t] = {}
  BY <1>1, <1>2, <1>3, <1>4, RotateSubtrees
<1>7. /\ RootOf(h2) = IF c = RootOf(h) THEN t ELSE RootOf(h)
      /\ KidOf(h2, s, t) = c
      /\ KidOf(h2, o, t) = e
      /\ KidOf(h2, s, c) = a
      /\ KidOf(h2, o, c) = k
      /\ \A m \in T \ {c, t}, q \in Sides :
           KidOf(h2, q, m) = IF KidOf(h, q, m) = c THEN t ELSE KidOf(h, q, m)
      /\ ParentOf(h2, c) = t
      /\ ParentOf(h2, t) = ParentOf(h, c)
      /\ \A m \in (T \cup {Nil}) \ {c, t} :
           ParentOf(h2, m) = IF m # Nil /\ m = k THEN c ELSE ParentOf(h, m)
  BY <1>1, <1>2, <1>3, <1>4 DEF Rotated
<1>8. /\ T \subseteq Nodes /\ Nil \notin T /\ T \subseteq Cells /\ Nil \in Cells
  BY RBTreeAssumption DEF Tree, Cells
<1>9. D[t] = {t} \cup D[k] \cup D[e] /\ D[k] \cap D[e] = {} /\ t \notin D[k] /\ t \notin D[e]
  BY <1>2, <1>4, <1>5, <1>6 DEF Tree
<1>10. D2[a] = D[a] /\ D2[k] = D[k] /\ D2[e] = D[e] /\ D2[Nil] = {}
  BY <1>6, <1>8 DEF Tree
<1>11. \A m \in T \ {c, t}, q \in Sides : KidOf(h, q, m) # t
  BY <1>3, <1>5, OneLink
<1>12. ASSUME NEW m \in T \ {c, t}, NEW q \in Sides
       PROVE  /\ D2[KidOf(h2, q, m)] = D[KidOf(h, q, m)]
              /\ KidOf(h2, q, m) \in T \cup {Nil}
              /\ KidOf(h2, q, m) # Nil => ParentOf(h2, KidOf(h2, q, m)) = m
  <2>1. PICK x : x = KidOf(h, q, m)
    OBVIOUS
  <2>2. x \in T \cup {Nil} /\ x # t /\ (x # Nil => ParentOf(h, x) = m)
    BY <1>11, <2>1 DEF Tree
  <2>3. CASE x = c
    BY <1>6, <1>7, <1>8, <2>1, <2>2, <2>3
  <2>4. CASE x # c
    <3>1. KidOf(h2, q, m) = x
      BY <1>7, <2>1, <2>4
    <3>2. x # Nil => x # k
      BY <1>2, <1>5, <1>6, <2>2 DEF Tree
    <3>3. QED
      BY <1>6, <1>7, <1>8, <2>1, <2>2, <2>4, <3>1, <3>2
  <2>5. QED
    BY <2>3, <2>4
<1>13. \A m \in T \ {c, t}, q \in Sides :
         /\ KidOf(h2, q, m) \in T \cup {Nil}
         /\ KidOf(h2, q, m) # Nil => ParentOf(h2, KidOf(h2, q, m)) = m
         /\ D2[m] = {m} \cup D2[KidOf(h2, q, m)] \cup D2[KidOf(h2, Opp(q), m)]
         /\ D2[KidOf(h2, q, m)] \cap D2[KidOf(h2, Opp(q), m)] = {}
         /\ m \notin D2[KidOf(h2, q, m)]
  BY <1>6, <1>8, <1>12, OppSides DEF Tree
<1>14. \A q \in Sides :
         /\ KidOf(h2, q, t) \in T \cup {Nil}
         /\ KidOf(h2, q, t) # Nil => ParentOf(h2, KidOf(h2, q, t)) = t
         /\ D2[t] = {t} \cup D2[KidOf(h2, q, t)] \cup D2[KidOf(h2, Opp(q), t)]
         /\ D2[KidOf(h2, q, t)] \cap D2[KidOf(h2, Opp(q), t)] = {}
         /\ t \notin D2[KidOf(h2, q, t)]
  <2>1. e # Nil => ParentOf(h2, e) = t
    <3>1. e # Nil => ParentOf(h, e) = t /\ e # k
      BY <1>2, <1>3, <1>4, <1>5, <1>6, OneLink DEF Tree
    <3>2. QED
      BY <1>6, <1>7, <3>1
  <2>2. D2[t] = {t} \cup D2[c] \cup D2[e]
    BY <1>6, <1>10
  <2>3. D2[c] \cap D2[e] = {} /\ t \notin D2[c] /\ t \notin D2[e]
    BY <1>6, <1>9, <1>10
  <2>4. QED
    BY <1>3, <1>5, <1>6, <1>7, <2>1, <2>2, <2>3
<1>15. \A q \in Sides :
         /\ KidOf(h2, q, c) \in T \cup {Nil}
         /\ KidOf(h2, q, c) # Nil => ParentOf(h2, KidOf(h2, q, c)) = c
         /\ D2[c] = {c} \cup D2[KidOf(h2, q, c)] \cup D2[KidOf(h2, Opp(q), c)]
         /\ D2[KidOf(h2, q, c)] \cap D2[KidOf(h2, Opp(q), c)] = {}
         /\ c \notin D2[KidOf(h2, q, c)]
  <2>1. a # Nil => ParentOf(h2, a) = c
    <3>1. a # Nil => ParentOf(h, a) = c
      BY <1>1 DEF Tree
    <3>2. QED
      BY <1>6, <1>7, <3>1
  <2>2. k # Nil => ParentOf(h2, k) = c
    BY <1>6, <1>7
  <2>3. D2[c] = {c} \cup D2[a] \cup D2[k]
    BY <1>6, <1>10
  <2>4. D2[a] \cap D2[k] = {} /\ c \notin D2[a] /\ c \notin D2[k]
    BY <1>6, <1>9, <1>10
  <2>5. QED
    BY <1>3, <1>5, <1>6, <1>7, <2>1, <2>2, <2>3, <2>4
<1>16. D2[RootOf(h2)] = T /\ RootOf(h2) \in T \cup {Nil}
  <2>1. t # RootOf(h)
    BY <1>3, <1>5, OneLink
  <2>2. RootOf(h) \in T \cup {Nil} /\ D[RootOf(h)] = T
    BY DEF Tree
  <2>3. QED
    BY <1>6, <1>7, <1>8, <2>1, <2>2
<1>17. Tree(h2, T, D2)
  BY <1>6, <1>8, <1>10, <1>13, <1>14, <1>15, <1>16 DEF Tree
<1>18. QED
  BY <1>12, <1>17

\* A rotation keeps the order of the keys.
LEMMA RotateSorted ==
  ASSUME NEW h, NEW T, NEW D, NEW c, NEW s, NEW t, Turns(h, T, D, c, t, s),
         NEW h2, Rotated(h, h2, T, c, t, s),
         NEW D2, D2 = Lowered(h, D, c, t, s),
         NEW k, \A n \in T : k[n] \in Nat,
         Sorted(h, T, D, k)
  PROVE  Sorted(h2, T, D2, k)
<1>0. /\ Tree(h, T, D) /\ c \in T /\ s \in Sides
      /\ t = KidOf(h, Opp(s), c) /\ t # Nil
  BY DEF Turns
<1> USE <1>0
<1>1. PICK o : o = Opp(s)
  OBVIOUS
<1>2. /\ o \in Sides /\ o # s /\ Opp(o) = s /\ \A q \in Sides : q \in {s, o}
  BY <1>1, OppSides
<1>3. /\ \A x \in Cells \ {c, t} : D2[x] = D[x]
      /\ D2[t] = D[c]
      /\ D2[c] = {c} \cup D[KidOf(h, s, c)] \cup D[KidOf(h, s, t)]
      /\ KidOf(h, s, c) \in (T \cup {Nil}) \ {c, t}
      /\ KidOf(h, s, t) \in (T \cup {Nil}) \ {c, t}
      /\ KidOf(h, o, t) \in (T \cup {Nil}) \ {c, t}
      /\ t \in T /\ t # c
  BY <1>1, RotateSubtrees
<1>4. /\ KidOf(h2, s, t) = c
      /\ KidOf(h2, o, t) = KidOf(h, o, t)
      /\ KidOf(h2, s, c) = KidOf(h, s, c)
      /\ KidOf(h2, o, c) = KidOf(h, s, t)
  BY <1>1 DEF Rotated
<1>5. T \subseteq Cells /\ Nil \in Cells
  BY DEF Tree, Cells
<1>6. t \in D[t] /\ D[KidOf(h, s, t)] \subseteq D[t]
  BY <1>3, KidsBelow
<1>7. \A n \in T, q \in Sides : \A m \in D[KidOf(h, q, n)] : m \in T /\ Before(q, k[m], k[n])
  BY SubtreesNest, KidsBelow DEF Sorted, Tree
<1>8. ASSUME NEW n \in T, NEW q \in Sides, NEW m \in D2[KidOf(h2, q, n)]
      PROVE  Before(q, k[m], k[n])
  <2>1. CASE n \notin {c, t}
    <3>1. D2[KidOf(h2, q, n)] = D[KidOf(h, q, n)]
      BY <2>1, RotateTree
    <3>2. QED
      BY <1>7, <1>8, <3>1
  <2>2. CASE n = c /\ q = s
    BY <1>3, <1>4, <1>5, <1>7, <1>8, <2>2
  <2>3. CASE n = c /\ q = o
    <3>1. m \in D[KidOf(h, s, t)]
      BY <1>3, <1>4, <1>5, <1>8, <2>3
    <3>2. m \in D[t]
      BY <1>6, <3>1
    <3>3. QED
      BY <1>1, <1>2, <1>7, <2>3, <3>2
  <2>4. CASE n = t /\ q = o
    BY <1>3, <1>4, <1>5, <1>7, <1>8, <2>4
  <2>5. CASE n = t /\ q = s
    <3>1. m \in {c} \cup D[KidOf(h, s, c)] \cup D[KidOf(h, s, t)]
      BY <1>3, <1>4, <1>8, <2>5
    <3>2. Before(o, k[t], k[c])
      BY <1>1, <1>2, <1>6, <1>7
    <3>3. k[c] \in Nat /\ k[t] \in Nat
      BY <1>3
    <3>4. Before(s, k[c], k[t])
      BY <1>1, <3>2, <3>3 DEF Before, Opp, Sides
    <3>5. CASE m = c
      BY <2>5, <3>4, <3>5
    <3>6. CASE m \in D[KidOf(h, s, t)]
      BY <1>3, <1>7, <2>5, <3>6
    <3>7. CASE m \in D[KidOf(h, s, c)]
      <4>1. Before(s, k[m], k[c]) /\ k[m] \in Nat
        BY <1>7, <3>7
      <4>2. QED
        BY <2>5, <3>3, <3>4, <4>1 DEF Before
    <3>8. QED
      BY <3>1, <3>5, <3>6, <3>7
  <2>6. QED
    BY <1>2, <2>1, <2>2, <2>3, <2>4, <2>5
<1>9. QED
  BY <1>8 DEF Sorted

-----------------------------------------------------------------------------
(* Counting black nodes *)

\* Colours do not change the tree.
LEMMA PaintTree ==
  ASSUME NEW h, NEW T, NEW D, Tree(h, T, D), NEW g, NEW R, NEW B, Painted(h, g, R, B)
  PROVE  /\ Tree(g, T, D)
         /\ \A k : Sorted(h, T, D, k) => Sorted(g, T, D, k)
         /\ \A n \in T, s \in Sides : KidOf(g, s, n) = KidOf(h, s, n)
<1>1. T \subseteq Cells
  BY DEF Tree, Cells
<1>2. QED
  BY <1>1, OppSides DEF Tree, Sorted, Painted

\* The kids of a node are cells.
LEMMA KidsAreCells ==
  ASSUME NEW h, NEW T, NEW D, Tree(h, T, D)
  PROVE  /\ T \subseteq Cells /\ Nil \in Cells /\ Nil \notin T
         /\ \A n \in T, s \in Sides : KidOf(h, s, n) \in Cells
         /\ \A n \in T, s \in Sides : KidOf(h, s, n) # n
BY RBTreeAssumption, KidsBelow DEF Tree, Cells

\* When l is no link of the tree, or no link of n.
LEMMA NoExtra ==
  ASSUME NEW s, NEW n
  PROVE  /\ Extra(<<>>, s, n) = 0
         /\ \A q, m : Extra(<<q, m>>, s, n) = IF q = s /\ m = n THEN 1 ELSE 0
BY DEF Extra

\* The numbers b are right on the ways of h2 from all nodes but c and t, and would
\* be right there with v for c, whose number goes to t.
Weighed(h, h2, T, b, l, c, t, s, v) ==
  /\ b \in [Cells -> Nat]
  /\ v \in Nat
  /\ b[Nil] = 0
  /\ ~RedIn(h2, Nil)
  /\ \A n \in T \ {c, t}, q \in Sides :
       b[n] = b[KidOf(h, q, n)] + WeightIn(h2, n) + Extra(l, q, n)
  /\ v = b[KidOf(h, s, c)] + WeightIn(h2, c) + Extra(l, s, c)
  /\ v = b[KidOf(h, s, t)] + WeightIn(h2, c) + Extra(l, Opp(s), c)
  /\ b[c] = v + WeightIn(h2, t) + Extra(l, s, t)
  /\ b[c] = b[KidOf(h, Opp(s), t)] + WeightIn(h2, t) + Extra(l, Opp(s), t)

Reweighed(b, c, t, v) == [b EXCEPT ![t] = b[c], ![c] = v]

\* If the two nodes of a rotation count right, the whole tree does.
LEMMA RotateCounted ==
  ASSUME NEW h, NEW T, NEW D, NEW c, NEW s, NEW t, Turns(h, T, D, c, t, s),
         NEW h2, Rotated(h, h2, T, c, t, s),
         NEW b, NEW l, NEW v, Weighed(h, h2, T, b, l, c, t, s, v)
  PROVE  Counted(h2, T, Reweighed(b, c, t, v), l)
<1>0. /\ Tree(h, T, D) /\ c \in T /\ s \in Sides
      /\ t = KidOf(h, Opp(s), c) /\ t # Nil
  BY DEF Turns
<1> USE <1>0
<1>w. PICK b2 : b2 = [b EXCEPT ![t] = b[c], ![c] = v]
  OBVIOUS
<1>1. PICK o : o = Opp(s)
  OBVIOUS
<1>2. o \in Sides /\ o # s /\ Opp(o) = s /\ \A q \in Sides : q \in {s, o}
  BY <1>1, OppSides
<1>3. /\ KidOf(h, s, c) \in (T \cup {Nil}) \ {c, t}
      /\ KidOf(h, s, t) \in (T \cup {Nil}) \ {c, t}
      /\ KidOf(h, o, t) \in (T \cup {Nil}) \ {c, t}
      /\ t \in T /\ t # c
  BY <1>1, RotateSubtrees
<1>4. T \subseteq Cells /\ Nil \in Cells /\ Nil \notin T
  BY KidsAreCells
<1>5. /\ b2 \in [Cells -> Nat]
      /\ b2[t] = b[c] /\ b2[c] = v
      /\ \A x \in Cells \ {c, t} : b2[x] = b[x]
  BY <1>w, <1>3, <1>4 DEF Weighed
<1>6. /\ KidOf(h2, s, t) = c
      /\ KidOf(h2, o, t) = KidOf(h, o, t)
      /\ KidOf(h2, s, c) = KidOf(h, s, c)
      /\ KidOf(h2, o, c) = KidOf(h, s, t)
      /\ \A m \in T \ {c, t}, q \in Sides :
           KidOf(h2, q, m) = IF KidOf(h, q, m) = c THEN t ELSE KidOf(h, q, m)
  BY <1>1 DEF Rotated
<1>7. ASSUME NEW n \in T \ {c, t}, NEW q \in Sides
      PROVE  b2[n] = b2[KidOf(h2, q, n)] + WeightIn(h2, n) + Extra(l, q, n)
  <2>1. KidOf(h, q, n) \in T \cup {Nil} /\ KidOf(h, q, n) # t
    BY <1>1, <1>2, OneLink DEF Tree
  <2>2. b2[KidOf(h2, q, n)] = b[KidOf(h, q, n)]
    BY <1>3, <1>4, <1>5, <1>6, <2>1
  <2>3. b2[n] = b[n]
    BY <1>4, <1>5
  <2>4. QED
    BY <2>2, <2>3 DEF Weighed
<1>8. \A q \in Sides : b2[c] = b2[KidOf(h2, q, c)] + WeightIn(h2, c) + Extra(l, q, c)
  BY <1>1, <1>2, <1>3, <1>4, <1>5, <1>6 DEF Weighed
<1>9. \A q \in Sides : b2[t] = b2[KidOf(h2, q, t)] + WeightIn(h2, t) + Extra(l, q, t)
  BY <1>1, <1>2, <1>3, <1>4, <1>5, <1>6 DEF Weighed
<1>10. b2[Nil] = 0
  BY <1>3, <1>4, <1>5 DEF Weighed
<1>11. \A n \in T, q \in Sides :
         b2[n] = b2[KidOf(h2, q, n)] + WeightIn(h2, n) + Extra(l, q, n)
  BY <1>7, <1>8, <1>9
<1>12. ~RedIn(h2, Nil)
  BY DEF Weighed
<1>13. Counted(h2, T, b2, l)
  BY <1>5, <1>10, <1>11, <1>12 DEF Counted
<1>14. QED
  BY <1>w, <1>13 DEF Reweighed

\* Where two red nodes in a row can come from.
LEMMA RotatePairs ==
  ASSUME NEW h, NEW T, NEW D, NEW c, NEW s, NEW t, Turns(h, T, D, c, t, s),
         NEW h2, Rotated(h, h2, T, c, t, s), NEW n, NEW q \in Sides, RedPair(h2, T, n, q)
  PROVE  \/ n = c /\ KidOf(h2, q, c) \in {KidOf(h, s, c), KidOf(h, s, t)}
         \/ n = t /\ KidOf(h2, q, t) \in {c, KidOf(h, Opp(s), t)}
         \/ n \notin {c, t} /\ KidOf(h, q, n) = c /\ KidOf(h2, q, n) = t
         \/ /\ n \notin {c, t} /\ KidOf(h2, q, n) = KidOf(h, q, n)
            /\ KidOf(h, q, n) \notin {c, t}
<1>0. /\ Tree(h, T, D) /\ c \in T /\ s \in Sides
      /\ t = KidOf(h, Opp(s), c) /\ t # Nil
  BY DEF Turns
<1> USE <1>0
<1>1. n \in T /\ (q = s \/ q = Opp(s))
  BY OppSides DEF RedPair
<1>2. n \notin {c, t} => KidOf(h, q, n) # t
  BY <1>1, OppSides, OneLink
<1>3. QED
  BY <1>1, <1>2 DEF Rotated

-----------------------------------------------------------------------------
(* The fixup of an insertion *)

\* A red node under a red parent has a black grandparent.
LEMMA RedParent ==
  ASSUME NEW h, NEW T, NEW D, Tree(h, T, D), NEW b, NEW x, InsertFixing(h, T, b, x),
         x # RootOf(h), NEW p, p = ParentOf(h, x), RedIn(h, p)
  PROVE  /\ x \in T /\ p \in T /\ x # p /\ p # RootOf(h)
         /\ \E q \in Sides : KidOf(h, q, p) = x
         /\ ParentOf(h, p) \in T /\ ParentOf(h, p) # p /\ ParentOf(h, p) # x
         /\ \E q \in Sides : KidOf(h, q, ParentOf(h, p)) = p
         /\ ~RedIn(h, ParentOf(h, p))
         /\ ~RedIn(h, RootOf(h))
         /\ \A n \in T, q \in Sides : RedPair(h, T, n, q) => n = p /\ KidOf(h, q, n) = x
<1>1. x \in T /\ RedIn(h, x)
  BY DEF InsertFixing
<1>2. p \in T /\ \E q \in Sides : KidOf(h, q, p) = x
  BY <1>1, ParentsInTree
<1>3. ~RedIn(h, RootOf(h)) /\ p # RootOf(h)
  BY DEF InsertFixing
<1>4. x # p
  BY <1>1, <1>2, KidsAreCells
<1>5. ParentOf(h, p) \in T /\ \E q \in Sides : KidOf(h, q, ParentOf(h, p)) = p
  BY <1>2, <1>3, ParentsInTree
<1>6. ParentOf(h, p) # p
  BY <1>5, KidsAreCells
<1>7. ParentOf(h, p) # x
  <2>1. D[p] \subseteq D[ParentOf(h, p)]
    BY <1>5, KidsBelow
  <2>2. D[x] \subseteq D[p] /\ D[x] # D[p]
    BY <1>2, KidsBelow
  <2>3. QED
    BY <2>1, <2>2
<1>8. \A n \in T, q \in Sides : RedPair(h, T, n, q) => n = p /\ KidOf(h, q, n) = x
  <2>1. \A n \in T, q \in Sides : KidOf(h, q, n) = x => n = p
    BY <1>1, KidsAreCells DEF Tree
  <2>2. QED
    BY <2>1 DEF InsertFixing, RedPair
<1>9. ~RedIn(h, ParentOf(h, p))
  <2>1. PICK q \in Sides : KidOf(h, q, ParentOf(h, p)) = p
    BY <1>5
  <2>2. KidOf(h, q, ParentOf(h, p)) # x
    BY <1>4, <2>1
  <2>3. ~RedPair(h, T, ParentOf(h, p), q)
    BY <1>5, <1>8, <2>2
  <2>4. QED
    BY <1>5, <2>1, <2>3 DEF RedPair
<1>10. QED
  BY <1>1, <1>2, <1>3, <1>4, <1>5, <1>6, <1>7, <1>8, <1>9

\* The numbers of the nodes of a tree that counts.
LEMMA CountedFacts ==
  ASSUME NEW h, NEW T, NEW D, Tree(h, T, D), NEW b, NEW l, Counted(h, T, b, l)
  PROVE  /\ b \in [Cells -> Nat]
         /\ b[Nil] = 0
         /\ ~RedIn(h, Nil)
         /\ \A n \in T, s \in Sides :
              /\ b[KidOf(h, s, n)] \in Nat
              /\ b[n] \in Nat
              /\ b[n] = b[KidOf(h, s, n)] + WeightIn(h, n) + Extra(l, s, n)
<1>1. T \subseteq Cells /\ \A n \in T, s \in Sides : KidOf(h, s, n) \in Cells
  BY KidsAreCells
<1>2. QED
  BY <1>1 DEF Counted

\* No link counts one.
LEMMA PlainCounted ==
  ASSUME NEW h, NEW T, NEW D, Tree(h, T, D), NEW b
  PROVE  Counted(h, T, b, <<>>) <=>
           /\ b \in [Cells -> Nat]
           /\ b[Nil] = 0
           /\ ~RedIn(h, Nil)
           /\ \A n \in T, s \in Sides : b[n] = b[KidOf(h, s, n)] + WeightIn(h, n)
<1>1. \A n \in T, s \in Sides : KidOf(h, s, n) \in Cells
  BY KidsAreCells
<1>2. \A n : WeightIn(h, n) \in Nat
  BY DEF WeightIn
<1>3. \A n, s : Extra(<<>>, s, n) = 0
  BY NoExtra
<1>4. \A i, j \in Nat : i + j + 0 = i + j
  OBVIOUS
<1>5. ASSUME b \in [Cells -> Nat], NEW n \in T, NEW s \in Sides
      PROVE  b[KidOf(h, s, n)] + WeightIn(h, n) + Extra(<<>>, s, n)
               = b[KidOf(h, s, n)] + WeightIn(h, n)
  <2>1. b[KidOf(h, s, n)] \in Nat
    BY <1>1, <1>5
  <2>2. QED
    BY <1>2, <1>3, <1>4, <2>1
<1>6. QED
  BY <1>5 DEF Counted

\* The numbers after the black of g has gone to its kids p and u.
Recounted(b, p, u) == [b EXCEPT ![p] = b[p] + 1, ![u] = b[u] + 1]

\* The parent and the uncle take the black of the grandparent.
LEMMA RecolourUncle ==
  ASSUME NEW h, NEW T, NEW D, Tree(h, T, D), NEW b, NEW x, InsertFixing(h, T, b, x),
         x # RootOf(h), NEW p, p = ParentOf(h, x), RedIn(h, p),
         NEW g, g = ParentOf(h, p), NEW s \in Sides, KidOf(h, s, g) = p,
         NEW u, u = KidOf(h, Opp(s), g), RedIn(h, u),
         NEW h2, Painted(h, h2, {g}, {p, u})
  PROVE  InsertFixing(h2, T, Recounted(b, p, u), g)
<1> DEFINE b2 == Recounted(b, p, u)
<1>1. /\ x \in T /\ p \in T /\ x # p /\ p # RootOf(h)
      /\ g \in T /\ g # p
      /\ ~RedIn(h, RootOf(h)) /\ ~RedIn(h, g)
      /\ \A n \in T, q \in Sides : RedPair(h, T, n, q) => n = p /\ KidOf(h, q, n) = x
  BY RedParent
<1>2. Counted(h, T, b, <<>>)
  BY DEF InsertFixing
<1>3. /\ b \in [Cells -> Nat]
      /\ b[Nil] = 0
      /\ ~RedIn(h, Nil)
      /\ \A n \in T, q \in Sides : b[n] = b[KidOf(h, q, n)] + WeightIn(h, n)
  BY <1>2, PlainCounted
<1>4. T \subseteq Cells /\ Nil \in Cells /\ Nil \notin T
  BY KidsAreCells
<1>5. u \in T /\ u # p /\ u # g /\ u # RootOf(h)
  BY <1>1, <1>3, OppSides, OneLink, KidsAreCells DEF Tree
<1>6. \A n \in T, q \in Sides : KidOf(h, q, n) \in {p, u} <=> n = g
  <2>1. \A q \in Sides : KidOf(h, q, g) \in {p, u}
    BY OppSides
  <2>2. \A n \in T, q \in Sides : KidOf(h, q, n) = p => n = g
    BY <1>1, <1>4, OneLink
  <2>3. \A n \in T, q \in Sides : KidOf(h, q, n) = u => n = g
    BY <1>1, <1>4, <1>5, OppSides, OneLink
  <2>4. QED
    BY <2>1, <2>2, <2>3
<1>7. /\ b2 \in [Cells -> Nat]
      /\ b2[p] = b[p] + 1 /\ b2[u] = b[u] + 1
      /\ \A y \in Cells \ {p, u} : b2[y] = b[y]
  BY <1>1, <1>3, <1>4, <1>5 DEF Recounted
<1> HIDE DEF b2
<1>8. /\ \A n \in T, q \in Sides : KidOf(h2, q, n) = KidOf(h, q, n) /\ KidOf(h, q, n) \in Cells
      /\ RootOf(h2) = RootOf(h)
      /\ \A m : RedIn(h2, m) <=> m \notin {p, u} /\ (m = g \/ RedIn(h, m))
  BY KidsAreCells, PaintTree DEF Painted
<1>9. ASSUME NEW n \in T, NEW q \in Sides
      PROVE  b2[n] = b2[KidOf(h2, q, n)] + WeightIn(h2, n)
  <2>1. CASE n = g
    <3>1. KidOf(h, q, g) \in {p, u} /\ b2[g] = b[g] /\ g \notin {p, u}
      BY <1>1, <1>4, <1>5, <1>6, <1>7
    <3>2. WeightIn(h, g) = 1 /\ WeightIn(h2, g) = 0
      BY <1>1, <1>8, <3>1 DEF WeightIn
    <3>3. b[g] = b[KidOf(h, q, g)] + 1 /\ b2[KidOf(h, q, g)] = b[KidOf(h, q, g)] + 1
      BY <1>1, <1>3, <1>7, <3>1, <3>2
    <3>4. b[KidOf(h, q, g)] \in Nat
      BY <1>1, <1>3, <1>8
    <3>5. QED
      BY <1>1, <1>8, <2>1, <3>1, <3>2, <3>3, <3>4
  <2>2. CASE n # g
    <3>1. KidOf(h, q, n) \notin {p, u} /\ KidOf(h, q, n) \in Cells
      BY <1>6, <1>8, <2>2
    <3>2. b2[KidOf(h2, q, n)] = b[KidOf(h, q, n)] /\ b[KidOf(h, q, n)] \in Nat
      BY <1>3, <1>7, <1>8, <3>1
    <3>3. CASE n \in {p, u}
      <4>1. WeightIn(h, n) = 0 /\ WeightIn(h2, n) = 1
        BY <1>8, <3>3 DEF WeightIn
      <4>2. QED
        BY <1>3, <1>4, <1>7, <3>2, <3>3, <4>1
    <3>4. CASE n \notin {p, u}
      <4>1. WeightIn(h, n) = WeightIn(h2, n) /\ b2[n] = b[n]
        BY <1>4, <1>7, <1>8, <2>2, <3>4 DEF WeightIn
      <4>2. QED
        BY <1>3, <3>2, <4>1
    <3>5. QED
      BY <3>3, <3>4
  <2>3. QED
    BY <2>1, <2>2
<1>10. Counted(h2, T, b2, <<>>)
  <2>1. b2[Nil] = 0 /\ ~RedIn(h2, Nil)
    BY <1>1, <1>3, <1>4, <1>5, <1>7, <1>8
  <2>2. Tree(h2, T, D)
    BY PaintTree
  <2>3. QED
    BY <1>7, <1>9, <2>1, <2>2, PlainCounted
<1>11. RedIn(h2, g)
  BY <1>1, <1>5, <1>8
<1>12. RedIn(h2, RootOf(h2)) => RootOf(h2) = g
  BY <1>1, <1>8
<1>13. ASSUME NEW n \in T, NEW q \in Sides, RedPair(h2, T, n, q) PROVE KidOf(h2, q, n) = g
  <2>1. RedIn(h2, n) /\ RedIn(h2, KidOf(h, q, n))
    BY <1>8, <1>13 DEF RedPair
  <2>2. n # g
    BY <1>6, <1>8, <2>1
  <2>3. KidOf(h, q, n) # g => RedPair(h, T, n, q)
    BY <1>8, <2>1, <2>2 DEF RedPair
  <2>4. n # p
    BY <1>8, <2>1, <1>1
  <2>5. QED
    BY <1>1, <1>8, <2>3, <2>4
<1>14. QED
  BY <1>1, <1>10, <1>11, <1>12, <1>13 DEF InsertFixing, b2

\* An outer red grandchild: its parent comes up and takes the black.
LEMMA RotateOuter ==
  ASSUME NEW h, NEW T, NEW D, Tree(h, T, D), NEW b, NEW x, InsertFixing(h, T, b, x),
         x # RootOf(h), NEW p, p = ParentOf(h, x), RedIn(h, p),
         NEW g, g = ParentOf(h, p), NEW s \in Sides, KidOf(h, s, g) = p,
         KidOf(h, s, p) = x, NEW o, o = Opp(s), ~RedIn(h, KidOf(h, o, g)),
         NEW h1, Painted(h, h1, {g}, {p}),
         NEW h2, Rotated(h1, h2, T, g, p, o), \A m : RedIn(h2, m) <=> RedIn(h1, m)
  PROVE  /\ Turns(h1, T, D, g, p, o)
         /\ InsertFixing(h2, T, Reweighed(b, g, p, b[p]), x)
<1>1. /\ x \in T /\ p \in T /\ x # p /\ p # RootOf(h)
      /\ g \in T /\ g # p /\ g # x
      /\ ~RedIn(h, RootOf(h)) /\ ~RedIn(h, g)
      /\ \A n \in T, q \in Sides : RedPair(h, T, n, q) => n = p /\ KidOf(h, q, n) = x
  BY RedParent
<1>2. Counted(h, T, b, <<>>) /\ RedIn(h, x)
  BY DEF InsertFixing
<1>3. /\ b \in [Cells -> Nat]
      /\ b[Nil] = 0
      /\ ~RedIn(h, Nil)
      /\ \A n \in T, q \in Sides : b[n] = b[KidOf(h, q, n)] + WeightIn(h, n) + Extra(<<>>, q, n)
  BY <1>2 DEF Counted
<1>4. /\ T \subseteq Cells /\ Nil \in Cells /\ Nil \notin T
      /\ \A n \in T, q \in Sides : KidOf(h, q, n) \in Cells
  BY KidsAreCells
<1>5. o \in Sides /\ Opp(o) = s /\ o # s
  BY OppSides
<1>6. /\ Tree(h1, T, D)
      /\ \A n \in T, q \in Sides : KidOf(h1, q, n) = KidOf(h, q, n)
  BY PaintTree
<1>7. /\ RootOf(h1) = RootOf(h)
      /\ \A m : RedIn(h2, m) <=> m # p /\ (m = g \/ RedIn(h, m))
  BY DEF Painted
<1>8. Turns(h1, T, D, g, p, o)
  BY <1>1, <1>4, <1>5, <1>6 DEF Turns
<1>9. \A m : WeightIn(h2, m) = IF m = p THEN 1 ELSE IF m = g THEN 0 ELSE WeightIn(h, m)
  BY <1>7 DEF WeightIn
<1>10. WeightIn(h, p) = 0 /\ WeightIn(h, g) = 1
  BY <1>1 DEF WeightIn
<1>11. PICK u \in Cells : u = KidOf(h, o, g)
  BY <1>1, <1>4, <1>5
<1>12. PICK k \in Cells : k = KidOf(h, o, p)
  BY <1>1, <1>4, <1>5
<1>13. /\ b[p] \in Nat /\ b[x] \in Nat /\ b[k] \in Nat /\ b[u] \in Nat /\ b[g] \in Nat
  BY <1>1, <1>3, <1>4
<1>14. \A q, m : Extra(<<>>, q, m) = 0
  BY NoExtra
<1>15. b[p] = b[k] /\ b[p] = b[u] /\ b[p] = b[x] /\ b[g] = b[p] + 1 /\ b[g] = b[x] + 1
  <2>1. /\ b[p] = b[x] + 0 + 0 /\ b[p] = b[k] + 0 + 0
        /\ b[g] = b[p] + 1 + 0 /\ b[g] = b[u] + 1 + 0
    BY <1>1, <1>3, <1>5, <1>10, <1>11, <1>12, <1>14
  <2>2. QED
    BY <1>13, <2>1
<1>16. Weighed(h1, h2, T, b, <<>>, g, p, o, b[p])
  <2>1. \A n \in T \ {g, p}, q \in Sides :
          b[n] = b[KidOf(h1, q, n)] + WeightIn(h2, n) + Extra(<<>>, q, n)
    BY <1>3, <1>6, <1>9
  <2>2. /\ KidOf(h1, o, g) = u /\ KidOf(h1, o, p) = k /\ KidOf(h1, s, p) = x
        /\ WeightIn(h2, g) = 0 /\ WeightIn(h2, p) = 1
    BY <1>1, <1>5, <1>6, <1>9, <1>11, <1>12
  <2>3. /\ b[p] = b[u] + 0 + 0
        /\ b[p] = b[k] + 0 + 0
        /\ b[g] = b[p] + 1 + 0
        /\ b[g] = b[x] + 1 + 0
    BY <1>13, <1>15
  <2>4. ~RedIn(h2, Nil)
    BY <1>1, <1>3, <1>4, <1>7
  <2>5. QED
    BY <1>3, <1>5, <1>13, <1>14, <2>1, <2>2, <2>3, <2>4 DEF Weighed
<1>17. Counted(h2, T, Reweighed(b, g, p, b[p]), <<>>)
  BY <1>8, <1>16, RotateCounted
<1>18. ASSUME NEW n \in T, NEW q \in Sides, RedPair(h2, T, n, q) PROVE FALSE
  <2>1. RedIn(h2, n) /\ RedIn(h2, KidOf(h2, q, n)) /\ n # p /\ KidOf(h2, q, n) # p
    BY <1>7, <1>18 DEF RedPair
  <2>2. \/ n = g /\ KidOf(h2, q, g) \in {KidOf(h1, o, g), KidOf(h1, o, p)}
        \/ n # g /\ KidOf(h2, q, n) = KidOf(h1, q, n) /\ KidOf(h1, q, n) \notin {g, p}
    BY <1>8, <1>18, <2>1, RotatePairs
  <2>3. ~RedIn(h, u) /\ u # g
    BY <1>1, <1>5, <1>11, KidsAreCells
  <2>4. CASE n = g
    <3>1. KidOf(h2, q, n) \in {u, k}
      BY <1>1, <1>5, <1>6, <1>11, <1>12, <2>2, <2>4
    <3>2. k # g
      <4>1. \A i \in Nat : i + 1 # i
        OBVIOUS
      <4>2. QED
        BY <1>13, <1>15, <4>1
    <3>3. RedIn(h, k)
      BY <1>7, <2>1, <2>3, <3>1, <3>2
    <3>4. RedPair(h, T, p, o)
      BY <1>1, <1>12, <3>3 DEF RedPair
    <3>5. k = x
      BY <1>1, <1>5, <1>12, <3>4
    <3>6. KidOf(h, s, p) # Nil
      BY <1>1, <1>4
    <3>7. KidOf(h, o, p) # KidOf(h, s, p)
      BY <1>1, <3>6, OneLink
    <3>8. QED
      BY <1>12, <3>5, <3>7
  <2>5. CASE n # g
    <3>1. RedPair(h, T, n, q)
      BY <1>6, <1>7, <2>1, <2>2, <2>5 DEF RedPair
    <3>2. QED
      BY <1>1, <2>1, <3>1
  <2>6. QED
    BY <2>4, <2>5
<1>19. RedIn(h2, x)
  BY <1>1, <1>2, <1>7
<1>20. ~RedIn(h2, RootOf(h2))
  BY <1>1, <1>7 DEF Rotated
<1>21. QED
  BY <1>1, <1>8, <1>17, <1>18, <1>19, <1>20 DEF InsertFixing

\* An inner red grandchild comes up, so that its parent is an outer one.
LEMMA RotateInner ==
  ASSUME NEW h, NEW T, NEW D, Tree(h, T, D), NEW b, NEW x, InsertFixing(h, T, b, x),
         x # RootOf(h), NEW p, p = ParentOf(h, x), RedIn(h, p),
         NEW g, g = ParentOf(h, p), NEW s \in Sides, KidOf(h, s, g) = p,
         NEW o, o = Opp(s), KidOf(h, o, p) = x,
         NEW h2, Rotated(h, h2, T, p, x, s), \A m : RedIn(h2, m) <=> RedIn(h, m)
  PROVE  /\ Turns(h, T, D, p, x, s)
         /\ InsertFixing(h2, T, Reweighed(b, p, x, b[p]), p)
         /\ ParentOf(h2, p) = x /\ ParentOf(h2, x) = g
         /\ KidOf(h2, s, x) = p /\ KidOf(h2, s, g) = x
         /\ KidOf(h2, o, g) = KidOf(h, o, g)
         /\ RedIn(h2, x) /\ p # RootOf(h2)
<1>1. /\ x \in T /\ p \in T /\ x # p /\ p # RootOf(h)
      /\ g \in T /\ g # p /\ g # x
      /\ ~RedIn(h, RootOf(h)) /\ ~RedIn(h, g)
      /\ \A n \in T, q \in Sides : RedPair(h, T, n, q) => n = p /\ KidOf(h, q, n) = x
  BY RedParent
<1>2. Counted(h, T, b, <<>>) /\ RedIn(h, x)
  BY DEF InsertFixing
<1>3. /\ b \in [Cells -> Nat]
      /\ b[Nil] = 0
      /\ ~RedIn(h, Nil)
      /\ \A n \in T, q \in Sides : b[n] = b[KidOf(h, q, n)] + WeightIn(h, n) + Extra(<<>>, q, n)
  BY <1>2 DEF Counted
<1>4. /\ T \subseteq Cells /\ Nil \in Cells /\ Nil \notin T
      /\ \A n \in T, q \in Sides : KidOf(h, q, n) \in Cells
  BY KidsAreCells
<1>5. o \in Sides /\ Opp(o) = s /\ o # s /\ Opp(s) = o
  BY OppSides
<1>6. Turns(h, T, D, p, x, s)
  BY <1>1, <1>4, <1>5 DEF Turns
<1>7. /\ RootOf(h2) = RootOf(h)
      /\ KidOf(h2, s, x) = p
      /\ KidOf(h2, o, x) = KidOf(h, o, x)
      /\ KidOf(h2, s, p) = KidOf(h, s, p)
      /\ KidOf(h2, o, p) = KidOf(h, s, x)
      /\ \A m \in T \ {p, x}, q \in Sides :
           KidOf(h2, q, m) = IF KidOf(h, q, m) = p THEN x ELSE KidOf(h, q, m)
      /\ ParentOf(h2, p) = x
      /\ ParentOf(h2, x) = ParentOf(h, p)
  BY <1>1, <1>5 DEF Rotated
<1>8. KidOf(h, o, g) # p
  BY <1>1, <1>4, <1>5, OneLink
<1>9. \A m : WeightIn(h2, m) = WeightIn(h, m)
  BY DEF WeightIn
<1>10. WeightIn(h, p) = 0 /\ WeightIn(h, x) = 0
  BY <1>2 DEF WeightIn
<1>11. PICK a \in Cells : a = KidOf(h, s, p)
  BY <1>1, <1>4, <1>5
<1>12. PICK k \in Cells : k = KidOf(h, s, x)
  BY <1>1, <1>4, <1>5
<1>13. PICK e \in Cells : e = KidOf(h, o, x)
  BY <1>1, <1>4, <1>5
<1>14. b[p] \in Nat /\ b[x] \in Nat /\ b[a] \in Nat /\ b[k] \in Nat /\ b[e] \in Nat
  BY <1>1, <1>3, <1>4
<1>15. \A q, m : Extra(<<>>, q, m) = 0
  BY NoExtra
<1>16. b[p] = b[x] /\ b[p] = b[a] /\ b[p] = b[k] /\ b[p] = b[e]
  <2>1. b[p] = b[x] + 0 + 0 /\ b[p] = b[a] + 0 + 0 /\ b[x] = b[k] + 0 + 0 /\ b[x] = b[e] + 0 + 0
    BY <1>1, <1>3, <1>5, <1>10, <1>11, <1>12, <1>13, <1>15
  <2>2. QED
    BY <1>14, <2>1
<1>17. Weighed(h, h2, T, b, <<>>, p, x, s, b[p])
  <2>1. \A n \in T \ {p, x}, q \in Sides :
          b[n] = b[KidOf(h, q, n)] + WeightIn(h2, n) + Extra(<<>>, q, n)
    BY <1>3, <1>9
  <2>2. b[p] = b[a] + 0 + 0 /\ b[p] = b[k] + 0 + 0 /\ b[p] = b[p] + 0 + 0 /\ b[p] = b[e] + 0 + 0
    BY <1>14, <1>16
  <2>3. ~RedIn(h2, Nil)
    BY <1>3
  <2>4. QED
    BY <1>3, <1>5, <1>9, <1>10, <1>11, <1>12, <1>13, <1>14, <1>15, <2>1, <2>2, <2>3 DEF Weighed
<1>18. Counted(h2, T, Reweighed(b, p, x, b[p]), <<>>)
  BY <1>6, <1>17, RotateCounted
<1>19. ASSUME NEW n \in T, NEW q \in Sides, RedPair(h2, T, n, q) PROVE KidOf(h2, q, n) = p
  <2>1. RedIn(h, n) /\ RedIn(h, KidOf(h2, q, n))
    BY <1>19 DEF RedPair
  <2>2. \/ n = p /\ KidOf(h2, q, p) \in {KidOf(h, s, p), KidOf(h, s, x)}
        \/ n = x /\ KidOf(h2, q, x) \in {p, KidOf(h, o, x)}
        \/ n \notin {p, x} /\ KidOf(h, q, n) = p
        \/ n \notin {p, x} /\ KidOf(h2, q, n) = KidOf(h, q, n)
    BY <1>5, <1>6, <1>19, RotatePairs
  <2>3. CASE n = p
    <3>1. \/ RedPair(h, T, p, s)
          \/ RedPair(h, T, x, s)
      BY <1>1, <1>2, <2>1, <2>2, <2>3 DEF RedPair
    <3>2. ~RedPair(h, T, x, s)
      BY <1>1
    <3>3. RedPair(h, T, p, s) => KidOf(h, s, p) = x
      BY <1>1
    <3>4. KidOf(h, s, p) # x
      BY <1>1, <1>4, <1>5, OneLink
    <3>5. QED
      BY <3>1, <3>2, <3>3, <3>4
  <2>4. CASE n = x
    <3>1. ~RedPair(h, T, x, o)
      BY <1>1, <1>5
    <3>2. QED
      BY <1>1, <2>1, <2>2, <2>4, <3>1 DEF RedPair
  <2>5. CASE n \notin {p, x} /\ KidOf(h, q, n) = p
    <3>1. n = g
      BY <1>1, <1>4, <2>5 DEF Tree
    <3>2. QED
      BY <1>1, <2>1, <3>1
  <2>6. CASE n \notin {p, x} /\ KidOf(h2, q, n) = KidOf(h, q, n)
    <3>1. RedPair(h, T, n, q)
      BY <2>1, <2>6 DEF RedPair
    <3>2. QED
      BY <1>1, <2>6, <3>1
  <2>7. QED
    BY <2>2, <2>3, <2>4, <2>5, <2>6
<1>20. RedIn(h2, p) /\ ~RedIn(h2, RootOf(h2))
  BY <1>1, <1>7
<1>21. InsertFixing(h2, T, Reweighed(b, p, x, b[p]), p)
  BY <1>1, <1>18, <1>19, <1>20 DEF InsertFixing
<1>22. KidOf(h2, s, g) = x /\ KidOf(h2, o, g) = KidOf(h, o, g)
  BY <1>1, <1>5, <1>7, <1>8
<1>23. RedIn(h2, x) /\ p # RootOf(h2)
  BY <1>1, <1>2, <1>7
<1>24. QED
  BY <1>6, <1>7, <1>21, <1>22, <1>23

\* The numbers when cell c turns black: one more on its own ways.
Blackened(h, b, c) == IF RedIn(h, c) THEN [b EXCEPT ![c] = b[c] + 1] ELSE b

\* A black root keeps the count.
LEMMA BlackRoot ==
  ASSUME NEW h, NEW T, NEW D, Tree(h, T, D), NEW b, Counted(h, T, b, <<>>),
         NEW h2, Painted(h, h2, {}, {RootOf(h)})
  PROVE  Counted(h2, T, Blackened(h, b, RootOf(h)), <<>>)
<1>1. PICK r : r = RootOf(h)
  OBVIOUS
<1>2. /\ r \in T \cup {Nil} /\ Tree(h2, T, D)
      /\ T \subseteq Cells /\ Nil \in Cells /\ Nil \notin T
      /\ \A n \in T, q \in Sides : KidOf(h2, q, n) = KidOf(h, q, n) /\ KidOf(h, q, n) \in Cells
  BY <1>1, PaintTree, KidsAreCells DEF Tree
<1>3. \A m : RedIn(h2, m) <=> m # r /\ RedIn(h, m)
  BY <1>1 DEF Painted
<1>4. CASE ~RedIn(h, r)
  <2>1. \A m : WeightIn(h2, m) = WeightIn(h, m)
    BY <1>3, <1>4 DEF WeightIn
  <2>2. Blackened(h, b, RootOf(h)) = b
    BY <1>1, <1>4 DEF Blackened
  <2>3. Counted(h2, T, b, <<>>)
    BY <1>2, <1>3, <2>1 DEF Counted
  <2>4. QED
    BY <2>2, <2>3
<1>5. CASE RedIn(h, r)
  <2>1. /\ b \in [Cells -> Nat] /\ b[Nil] = 0 /\ ~RedIn(h, Nil)
        /\ \A n \in T, q \in Sides : b[n] = b[KidOf(h, q, n)] + WeightIn(h, n)
    BY PlainCounted
  <2>2. r \in T
    BY <1>2, <1>5, <2>1
  <2>3. PICK b2 : b2 = [b EXCEPT ![r] = b[r] + 1]
    OBVIOUS
  <2>4. /\ b2 \in [Cells -> Nat] /\ b2[r] = b[r] + 1
        /\ \A y \in Cells \ {r} : b2[y] = b[y]
    BY <1>2, <2>1, <2>2, <2>3
  <2>5. \A n \in T, q \in Sides : KidOf(h, q, n) # r
    BY <1>1, <1>2, <2>2, OneLink
  <2>6. /\ WeightIn(h, r) = 0 /\ WeightIn(h2, r) = 1
        /\ \A m : m # r => WeightIn(h2, m) = WeightIn(h, m)
    BY <1>3, <1>5 DEF WeightIn
  <2>7. ASSUME NEW n \in T, NEW q \in Sides
        PROVE  b2[n] = b2[KidOf(h2, q, n)] + WeightIn(h2, n)
    <3>1. b2[KidOf(h2, q, n)] = b[KidOf(h, q, n)] /\ b[KidOf(h, q, n)] \in Nat
      BY <1>2, <2>1, <2>4, <2>5
    <3>2. CASE n = r
      BY <2>1, <2>4, <2>6, <3>1, <3>2
    <3>3. CASE n # r
      BY <1>2, <2>1, <2>4, <2>6, <3>1, <3>3
    <3>4. QED
      BY <3>2, <3>3
  <2>8. b2[Nil] = 0 /\ ~RedIn(h2, Nil)
    BY <1>2, <1>3, <2>1, <2>2, <2>4
  <2>9. Counted(h2, T, b2, <<>>)
    BY <1>2, <2>4, <2>7, <2>8, PlainCounted
  <2>10. QED
    BY <1>1, <1>5, <2>3, <2>9 DEF Blackened
<1>6. QED
  BY <1>4, <1>5

\* When the fixup of an insertion ends, only the root may be wrong.
LEMMA InsertSettles ==
  ASSUME NEW h, NEW T, NEW D, Tree(h, T, D), NEW b, NEW x, InsertFixing(h, T, b, x),
         x = RootOf(h) \/ ~RedIn(h, ParentOf(h, x)),
         NEW h2, Painted(h, h2, {}, {RootOf(h)})
  PROVE  Settled(h2, T, Blackened(h, b, RootOf(h)))
<1>1. Counted(h2, T, Blackened(h, b, RootOf(h)), <<>>)
  BY BlackRoot DEF InsertFixing
<1>p. \A n \in T, q \in Sides : KidOf(h2, q, n) = KidOf(h, q, n)
  BY PaintTree
<1>2. /\ RootOf(h2) = RootOf(h)
      /\ \A m : RedIn(h2, m) <=> m # RootOf(h) /\ RedIn(h, m)
      /\ \A n \in T, q \in Sides : KidOf(h2, q, n) = KidOf(h, q, n)
  BY <1>p DEF Painted
<1>3. ASSUME NEW n \in T, NEW q \in Sides, RedPair(h2, T, n, q) PROVE FALSE
  <2>1. RedPair(h, T, n, q) /\ KidOf(h, q, n) # RootOf(h)
    BY <1>2, <1>3 DEF RedPair
  <2>2. KidOf(h, q, n) = x /\ x \in T
    BY <2>1 DEF InsertFixing
  <2>3. ParentOf(h, x) = n
    BY <2>2, KidsAreCells DEF Tree
  <2>4. QED
    BY <2>1, <2>2, <2>3 DEF RedPair
<1>4. QED
  BY <1>1, <1>2, <1>3 DEF Settled

-----------------------------------------------------------------------------
(* The fixup of a deletion *)

\* The fixup goes on at cell x on side s of p, and w is its sibling.
Lacking(h, T, b, x, p, s, w) ==
  /\ DeleteFixing(h, T, b, x)
  /\ x # RootOf(h)
  /\ ~RedIn(h, x)
  /\ p = ParentOf(h, x)
  /\ s = SideIn(h, x)
  /\ w = KidOf(h, Opp(s), p)

\* A cell that lacks a black node has a sibling, which counts one more, and there are
\* no two red nodes in a row.
LEMMA LackingFacts ==
  ASSUME NEW h, NEW T, NEW D, Tree(h, T, D), NEW b, NEW x, NEW p, NEW s, NEW w,
         Lacking(h, T, b, x, p, s, w), NEW l, l = <<s, p>>
  PROVE  /\ s \in Sides /\ Opp(s) \in Sides /\ s # Opp(s) /\ Opp(Opp(s)) = s
         /\ p \in T /\ KidOf(h, s, p) = x /\ x \in T \cup {Nil}
         /\ Counted(h, T, b, l)
         /\ ~RedIn(h, RootOf(h))
         /\ \A n \in T, q \in Sides : ~RedPair(h, T, n, q)
         /\ w \in T /\ KidOf(h, Opp(s), p) = w /\ w # x /\ w # p /\ w # RootOf(h) /\ x # p
         /\ b[x] \in Nat /\ b[w] \in Nat /\ b[p] \in Nat
         /\ b[w] = b[x] + 1
         /\ b[p] = b[w] + WeightIn(h, p)
<1>0. /\ DeleteFixing(h, T, b, x) /\ x # RootOf(h) /\ ~RedIn(h, x)
      /\ p = ParentOf(h, x) /\ s = SideIn(h, x) /\ w = KidOf(h, Opp(s), p)
  BY DEF Lacking
<1>1. s \in Sides
  BY <1>0 DEF SideIn, Sides
<1>2. Opp(s) \in Sides /\ s # Opp(s) /\ Opp(Opp(s)) = s
  BY <1>1, OppSides
<1>3. p \in T /\ KidOf(h, s, p) = x /\ x \in T \cup {Nil} /\ Counted(h, T, b, <<s, p>>)
  BY <1>0 DEF DeleteFixing
<1>4. ~RedIn(h, RootOf(h)) /\ \A n \in T, q \in Sides : ~RedPair(h, T, n, q)
  BY <1>0 DEF DeleteFixing, RedPair
<1>5. b[x] \in Nat /\ b[w] \in Nat /\ b[p] \in Nat /\ b[Nil] = 0
  BY <1>0, <1>1, <1>2, <1>3, CountedFacts
<1>6. /\ b[p] = b[x] + WeightIn(h, p) + Extra(<<s, p>>, s, p)
      /\ b[p] = b[w] + WeightIn(h, p) + Extra(<<s, p>>, Opp(s), p)
  BY <1>0, <1>1, <1>2, <1>3, CountedFacts
<1>7. Extra(<<s, p>>, s, p) = 1 /\ Extra(<<s, p>>, Opp(s), p) = 0
  BY <1>2 DEF Extra
<1>8. WeightIn(h, p) \in Nat
  BY DEF WeightIn
<1>9. b[w] = b[x] + 1 /\ b[p] = b[w] + WeightIn(h, p)
  BY <1>5, <1>6, <1>7, <1>8
<1>10. w \in T
  <2>1. w \in T \cup {Nil}
    BY <1>0, <1>2, <1>3 DEF Tree
  <2>2. b[w] # 0
    BY <1>5, <1>9
  <2>3. QED
    BY <1>5, <2>1, <2>2
<1>11. w # x /\ w # p /\ w # RootOf(h) /\ x # p
  <2>1. w # Nil
    BY <1>10, KidsAreCells
  <2>2. w # p /\ w # RootOf(h)
    BY <1>0, <1>2, <1>3, <2>1, OneLink
  <2>3. w # x
    BY <1>5, <1>9
  <2>4. x # p
    BY <1>1, <1>3, KidsAreCells
  <2>5. QED
    BY <2>2, <2>3, <2>4
<1>12. QED
  BY <1>0, <1>1, <1>2, <1>3, <1>4, <1>5, <1>9, <1>10, <1>11

\* A red sibling comes up; then the sibling is black.
LEMMA RedSibling ==
  ASSUME NEW h, NEW T, NEW D, Tree(h, T, D), NEW b, NEW x, NEW p, NEW s, NEW w,
         Lacking(h, T, b, x, p, s, w), RedIn(h, w),
         NEW h1, Painted(h, h1, {p}, {w}),
         NEW h2, Rotated(h1, h2, T, p, w, s), \A m : RedIn(h2, m) <=> RedIn(h1, m)
  PROVE  /\ Turns(h1, T, D, p, w, s)
         /\ \E y : /\ Lacking(h2, T, Reweighed(b, p, w, b[x] + 1), x, p, s, y)
                   /\ ~RedIn(h2, y)
<1> DEFINE o == Opp(s)
<1>l. PICK l : l = <<s, p>>
  OBVIOUS
<1>1. /\ s \in Sides /\ o \in Sides /\ s # o /\ Opp(o) = s
      /\ p \in T /\ KidOf(h, s, p) = x /\ x \in T \cup {Nil}
      /\ Counted(h, T, b, l)
      /\ ~RedIn(h, RootOf(h))
      /\ \A n \in T, q \in Sides : ~RedPair(h, T, n, q)
      /\ w \in T /\ KidOf(h, o, p) = w /\ w # x /\ w # p /\ w # RootOf(h) /\ x # p
      /\ b[x] \in Nat /\ b[w] \in Nat /\ b[p] \in Nat
      /\ b[w] = b[x] + 1
      /\ b[p] = b[w] + WeightIn(h, p)
  BY <1>l, LackingFacts
<1>2. x # RootOf(h) /\ ~RedIn(h, x) /\ p = ParentOf(h, x) /\ s = SideIn(h, x)
  BY DEF Lacking
<1>3. /\ b \in [Cells -> Nat] /\ b[Nil] = 0 /\ ~RedIn(h, Nil)
      /\ \A n \in T, q \in Sides : /\ b[KidOf(h, q, n)] \in Nat
                                   /\ b[n] = b[KidOf(h, q, n)] + WeightIn(h, n) + Extra(l, q, n)
  BY <1>l, <1>1, CountedFacts
<1>4. /\ T \subseteq Cells /\ Nil \in Cells /\ Nil \notin T
      /\ \A n \in T, q \in Sides : KidOf(h, q, n) \in Cells
  BY KidsAreCells
<1>5. ~RedIn(h, p)
  BY <1>1 DEF RedPair
<1>6. Tree(h1, T, D) /\ \A n \in T, q \in Sides : KidOf(h1, q, n) = KidOf(h, q, n)
  BY PaintTree
<1>7. /\ RootOf(h1) = RootOf(h)
      /\ \A m : ParentOf(h1, m) = ParentOf(h, m)
      /\ \A m : RedIn(h2, m) <=> m # w /\ (m = p \/ RedIn(h, m))
  BY DEF Painted
<1>8. Turns(h1, T, D, p, w, s)
  BY <1>1, <1>4, <1>6 DEF Turns
<1>9. PICK k \in Cells : k = KidOf(h, s, w)
  BY <1>1, <1>4
<1>10. PICK e \in Cells : e = KidOf(h, o, w)
  BY <1>1, <1>4
<1>11. ~RedIn(h, k) /\ ~RedIn(h, e)
  BY <1>1, <1>9, <1>10 DEF RedPair
<1>12. \A q, m : Extra(l, q, m) = IF q = s /\ m = p THEN 1 ELSE 0
  BY <1>l DEF Extra
<1>13. /\ WeightIn(h, p) = 1 /\ WeightIn(h, w) = 0
       /\ WeightIn(h2, p) = 0 /\ WeightIn(h2, w) = 1
       /\ \A m : m \notin {p, w} => WeightIn(h2, m) = WeightIn(h, m)
  BY <1>1, <1>5, <1>7 DEF WeightIn
<1>14. b[k] = b[x] + 1 /\ b[e] = b[x] + 1 /\ b[p] = b[x] + 2 /\ b[k] \in Nat /\ b[e] \in Nat
  <2>1. b[w] = b[k] + 0 + 0 /\ b[w] = b[e] + 0 + 0 /\ b[k] \in Nat /\ b[e] \in Nat
    BY <1>1, <1>3, <1>9, <1>10, <1>12, <1>13
  <2>2. QED
    BY <1>1, <1>13, <2>1
<1>15. Weighed(h1, h2, T, b, l, p, w, s, b[x] + 1)
  <2>1. \A n \in T \ {p, w}, q \in Sides :
          b[n] = b[KidOf(h1, q, n)] + WeightIn(h2, n) + Extra(l, q, n)
    BY <1>3, <1>6, <1>13
  <2>2. /\ KidOf(h1, s, p) = x /\ KidOf(h1, s, w) = k /\ KidOf(h1, o, w) = e
        /\ Extra(l, s, p) = 1 /\ Extra(l, o, p) = 0
        /\ Extra(l, s, w) = 0 /\ Extra(l, o, w) = 0
    BY <1>1, <1>6, <1>9, <1>10, <1>12
  <2>3. /\ b[x] + 1 = b[x] + 0 + 1
        /\ b[x] + 1 = b[k] + 0 + 0
        /\ b[p] = b[x] + 1 + 1 + 0
        /\ b[p] = b[e] + 1 + 0
        /\ b[x] + 1 \in Nat
    BY <1>1, <1>14
  <2>4. ~RedIn(h2, Nil)
    BY <1>1, <1>3, <1>4, <1>7
  <2>5. QED
    BY <1>3, <1>13, <2>1, <2>2, <2>3, <2>4 DEF Weighed
<1>16. Counted(h2, T, Reweighed(b, p, w, b[x] + 1), l)
  BY <1>l, <1>8, <1>15, RotateCounted
<1>17. /\ RootOf(h2) = IF p = RootOf(h) THEN w ELSE RootOf(h)
       /\ KidOf(h2, s, p) = x
       /\ KidOf(h2, o, p) = k
       /\ \A m \in (T \cup {Nil}) \ {p, w} : ParentOf(h2, m) = IF m # Nil /\ m = k THEN p ELSE ParentOf(h, m)
  BY <1>1, <1>6, <1>7, <1>9 DEF Rotated
<1>18. k # x
  BY <1>1, <1>14
<1>19. ParentOf(h2, x) = p
  BY <1>1, <1>2, <1>17, <1>18
<1>20. SideIn(h2, x) = s
  <2>1. Sides = {s, o} /\ "left" \in Sides /\ "right" \in Sides
    BY <1>1, OppSides DEF Sides
  <2>2. KidOf(h2, o, ParentOf(h2, x)) # x /\ KidOf(h2, s, ParentOf(h2, x)) = x
    BY <1>17, <1>18, <1>19
  <2>3. QED
    BY <2>1, <2>2 DEF SideIn, Sides
<1>21. ~RedIn(h2, RootOf(h2)) /\ x # RootOf(h2) /\ ~RedIn(h2, x) /\ ~RedIn(h2, k)
  <2>1. k # p
    BY <1>1, <1>14
  <2>2. QED
    BY <1>1, <1>2, <1>7, <1>11, <1>17, <2>1
<1>22. ASSUME NEW n \in T, NEW q \in Sides, RedPair(h2, T, n, q) PROVE FALSE
  <2>1. RedIn(h2, n) /\ RedIn(h2, KidOf(h2, q, n)) /\ n # w /\ KidOf(h2, q, n) # w
    BY <1>7, <1>22 DEF RedPair
  <2>2. \/ n = p /\ KidOf(h2, q, p) \in {x, k}
        \/ n # p /\ KidOf(h2, q, n) = KidOf(h, q, n) /\ KidOf(h, q, n) \notin {p, w}
    BY <1>1, <1>6, <1>8, <1>9, <1>22, <2>1, RotatePairs
  <2>3. CASE n = p
    BY <1>21, <2>1, <2>2, <2>3
  <2>4. CASE n # p
    <3>1. RedPair(h, T, n, q)
      BY <1>7, <2>1, <2>2, <2>4 DEF RedPair
    <3>2. QED
      BY <1>1, <3>1
  <2>5. QED
    BY <2>3, <2>4
<1>23. DeleteFixing(h2, T, Reweighed(b, p, w, b[x] + 1), x)
  BY <1>l, <1>1, <1>16, <1>17, <1>19, <1>20, <1>21, <1>22 DEF DeleteFixing
<1>24. Lacking(h2, T, Reweighed(b, p, w, b[x] + 1), x, p, s, k)
  BY <1>17, <1>19, <1>20, <1>21, <1>23 DEF Lacking
<1>25. QED
  BY <1>8, <1>21, <1>24

\* The numbers after the siblings' parent p and the sibling w have lost a black node.
Lightened(b, p, w) == [b EXCEPT ![p] = b[p] - 1, ![w] = b[w] - 1]

\* A sibling with black kids turns red, and the parent lacks a black node.
LEMMA BlackNephews ==
  ASSUME NEW h, NEW T, NEW D, Tree(h, T, D), NEW b, NEW x, NEW p, NEW s, NEW w,
         Lacking(h, T, b, x, p, s, w), ~RedIn(h, w), \A q \in Sides : ~RedIn(h, KidOf(h, q, w)),
         NEW h2, Painted(h, h2, {w}, {})
  PROVE  DeleteFixing(h2, T, Lightened(b, p, w), p)
<1> DEFINE o == Opp(s)
           ss == SideIn(h, p)
           pp == ParentOf(h, p)
           l2 == IF p = RootOf(h) THEN <<>> ELSE <<ss, pp>>
<1>l. PICK l : l = <<s, p>>
  OBVIOUS
<1>b. PICK b2 : b2 = Lightened(b, p, w)
  OBVIOUS
<1>1. /\ s \in Sides /\ o \in Sides /\ s # o /\ Opp(o) = s
      /\ p \in T /\ KidOf(h, s, p) = x /\ x \in T \cup {Nil}
      /\ Counted(h, T, b, l)
      /\ ~RedIn(h, RootOf(h))
      /\ \A n \in T, q \in Sides : ~RedPair(h, T, n, q)
      /\ w \in T /\ KidOf(h, o, p) = w /\ w # x /\ w # p /\ w # RootOf(h) /\ x # p
      /\ b[x] \in Nat /\ b[w] \in Nat /\ b[p] \in Nat
      /\ b[w] = b[x] + 1
      /\ b[p] = b[w] + WeightIn(h, p)
  BY <1>l, LackingFacts
<1>3. /\ b \in [Cells -> Nat] /\ b[Nil] = 0 /\ ~RedIn(h, Nil)
      /\ \A n \in T, q \in Sides : /\ b[KidOf(h, q, n)] \in Nat
                                   /\ b[n] = b[KidOf(h, q, n)] + WeightIn(h, n) + Extra(l, q, n)
  BY <1>l, <1>1, CountedFacts
<1>4. /\ T \subseteq Cells /\ Nil \in Cells /\ Nil \notin T
      /\ \A n \in T, q \in Sides : KidOf(h, q, n) \in Cells
  BY KidsAreCells
<1>5. Tree(h2, T, D) /\ \A n \in T, q \in Sides : KidOf(h2, q, n) = KidOf(h, q, n)
  BY PaintTree
<1>6. /\ RootOf(h2) = RootOf(h)
      /\ \A m : ParentOf(h2, m) = ParentOf(h, m)
      /\ \A m : RedIn(h2, m) <=> m = w \/ RedIn(h, m)
  BY DEF Painted
<1>7. p # RootOf(h) =>
        /\ pp \in T /\ ss \in Sides /\ KidOf(h, ss, pp) = p
        /\ pp # p /\ pp # w
  <2> SUFFICES ASSUME p # RootOf(h)
               PROVE  /\ pp \in T /\ ss \in Sides /\ KidOf(h, ss, pp) = p
                      /\ pp # p /\ pp # w
    OBVIOUS
  <2>1. pp \in T /\ \E q \in Sides : KidOf(h, q, pp) = p
    BY <1>1, ParentsInTree
  <2>2. ss \in Sides /\ KidOf(h, ss, pp) = p
    BY <2>1 DEF SideIn, Sides
  <2>3. pp # p
    BY <2>1, KidsAreCells
  <2>4. D[w] \subseteq D[p] /\ D[w] # D[p] /\ D[p] \subseteq D[pp]
    BY <1>1, <2>1, KidsBelow
  <2>5. QED
    BY <2>1, <2>2, <2>3, <2>4
<1>8. \A n \in T, q \in Sides : Extra(l2, q, n) = IF KidOf(h, q, n) = p THEN 1 ELSE 0
  <2>1. CASE p = RootOf(h)
    <3>1. \A n \in T, q \in Sides : KidOf(h, q, n) # p
      BY <1>1, <1>4, <2>1, OneLink
    <3>2. l2 = <<>>
      BY <2>1
    <3>3. \A n, q : Extra(<<>>, q, n) = 0
      BY NoExtra
    <3>4. QED
      BY <3>1, <3>2, <3>3
  <2>2. CASE p # RootOf(h)
    <3>1. \A n \in T, q \in Sides : KidOf(h, q, n) = p <=> n = pp /\ q = ss
      BY <1>1, <1>4, <1>7, <2>2, OneLink
    <3>2. l2 = <<ss, pp>>
      BY <2>2
    <3>3. \A n, q : Extra(<<ss, pp>>, q, n) = IF q = ss /\ n = pp THEN 1 ELSE 0
      BY DEF Extra
    <3>4. QED
      BY <3>1, <3>2, <3>3
  <2>3. QED
    BY <2>1, <2>2
<1>9. \A q, m : Extra(l, q, m) = IF q = s /\ m = p THEN 1 ELSE 0
  BY <1>l DEF Extra
<1>10. /\ WeightIn(h, w) = 1 /\ WeightIn(h2, w) = 0
       /\ \A m : m # w => WeightIn(h2, m) = WeightIn(h, m)
       /\ \A m : WeightIn(h, m) \in {0, 1}
  BY <1>6 DEF WeightIn
<1>11. /\ b2 \in [Cells -> Nat]
       /\ b2[p] = b[p] - 1 /\ b2[w] = b[w] - 1
       /\ \A y \in Cells \ {p, w} : b2[y] = b[y]
  <2>1. b[p] - 1 \in Nat /\ b[w] - 1 \in Nat
    BY <1>1, <1>10
  <2>2. b2 = [b EXCEPT ![p] = b[p] - 1, ![w] = b[w] - 1]
    BY <1>b DEF Lightened
  <2>3. QED
    BY <1>1, <1>3, <1>4, <2>1, <2>2
<1>12. \A n \in T, q \in Sides : KidOf(h, q, n) = w => n = p /\ q = o
  BY <1>1, <1>4, OneLink
<1>13. ASSUME NEW n \in T, NEW q \in Sides
       PROVE  b2[n] = b2[KidOf(h2, q, n)] + WeightIn(h2, n) + Extra(l2, q, n)
  <2> DEFINE c == KidOf(h, q, n)
  <2>1. /\ b[n] \in Nat /\ b[c] \in Nat /\ c \in Cells /\ KidOf(h2, q, n) = c
        /\ b[n] = b[c] + WeightIn(h, n) + Extra(l, q, n)
        /\ Extra(l2, q, n) = IF c = p THEN 1 ELSE 0
    BY <1>3, <1>4, <1>5, <1>8
  <2>2. CASE n = p
    <3>1. c # p /\ WeightIn(h2, n) = WeightIn(h, n) /\ Extra(l2, q, n) = 0
      BY <1>1, <1>10, <2>1, <2>2, KidsAreCells
    <3>2. CASE q = s
      <4>1. b2[c] = b[x]
        BY <1>1, <1>11, <2>1, <2>2, <3>2
      <4>2. QED
        BY <1>1, <1>10, <1>11, <2>1, <2>2, <3>1, <4>1
    <3>3. CASE q = o
      <4>1. b2[c] = b[w] - 1
        BY <1>1, <1>11, <2>2, <3>3
      <4>2. QED
        BY <1>1, <1>10, <1>11, <2>1, <2>2, <3>1, <4>1
    <3>4. QED
      BY <1>1, <3>2, <3>3, OppSides
  <2>3. CASE n = w
    <3>1. c # p /\ c # w
      <4>1. D[c] \subseteq D[w] /\ D[w] \subseteq D[p] /\ D[w] # D[p]
        BY <1>1, <2>3, KidsBelow
      <4>2. QED
        BY <2>3, <4>1, KidsAreCells
    <3>2. b2[c] = b[c] /\ Extra(l2, q, n) = 0 /\ Extra(l, q, n) = 0
      BY <1>1, <1>9, <1>11, <2>1, <2>3, <3>1
    <3>3. QED
      BY <1>1, <1>10, <1>11, <2>1, <2>3, <3>2
  <2>4. CASE n \notin {p, w}
    <3>1. c # w /\ Extra(l, q, n) = 0 /\ b2[n] = b[n] /\ WeightIn(h2, n) = WeightIn(h, n)
      BY <1>4, <1>9, <1>10, <1>11, <1>12, <2>4
    <3>2. CASE c = p
      BY <1>10, <1>11, <2>1, <3>1, <3>2
    <3>3. CASE c # p
      <4>1. b2[c] = b[c] /\ Extra(l2, q, n) = 0
        BY <1>11, <2>1, <3>1, <3>3
      <4>2. QED
        BY <2>1, <3>1, <4>1
    <3>4. QED
      BY <3>2, <3>3
  <2>5. QED
    BY <2>2, <2>3, <2>4
<1>14. Counted(h2, T, b2, l2)
  <2>1. b2[Nil] = 0 /\ ~RedIn(h2, Nil)
    BY <1>1, <1>3, <1>4, <1>6, <1>11
  <2> HIDE DEF l2
  <2>2. QED
    BY <1>11, <1>13, <2>1 DEF Counted
<1>15. ASSUME NEW n \in T, NEW q \in Sides, RedPair(h2, T, n, q) PROVE p \in {n, KidOf(h2, q, n)}
  <2>1. RedIn(h2, n) /\ RedIn(h2, KidOf(h, q, n))
    BY <1>5, <1>15 DEF RedPair
  <2>2. ~RedPair(h, T, n, q)
    BY <1>1
  <2>3. n = w \/ KidOf(h, q, n) = w
    BY <1>6, <2>1, <2>2 DEF RedPair
  <2>4. n # w
    <3>1. KidOf(h, q, w) # w
      BY <1>1, KidsAreCells
    <3>2. QED
      BY <1>6, <2>1, <3>1
  <2>5. QED
    BY <1>12, <2>3, <2>4
<1>16. ~RedIn(h2, RootOf(h2))
  BY <1>1, <1>6
<1>17. p # RootOf(h2) => /\ ParentOf(h2, p) = pp /\ SideIn(h2, p) = ss
                         /\ KidOf(h2, ss, pp) = p /\ pp \in T
  <2>1. p # RootOf(h) => KidOf(h2, "left", pp) = KidOf(h, "left", pp)
    BY <1>5, <1>7 DEF Sides
  <2>2. p # RootOf(h) => SideIn(h2, p) = SideIn(h, p)
    BY <1>6, <2>1 DEF SideIn
  <2>3. QED
    BY <1>5, <1>6, <1>7, <2>2
<1> HIDE DEF ss, pp
<1>18. DeleteFixing(h2, T, b2, p)
  BY <1>1, <1>6, <1>14, <1>15, <1>16, <1>17 DEF DeleteFixing
<1>19. QED
  BY <1>b, <1>18

\* A red near nephew comes up; then the sibling is black and its far kid is red.
LEMMA RedNearNephew ==
  ASSUME NEW h, NEW T, NEW D, Tree(h, T, D), NEW b, NEW x, NEW p, NEW s, NEW w,
         Lacking(h, T, b, x, p, s, w), ~RedIn(h, w),
         NEW y, y = KidOf(h, s, w), RedIn(h, y), ~RedIn(h, KidOf(h, Opp(s), w)),
         NEW h1, Painted(h, h1, {w}, {y}),
         NEW h2, Rotated(h1, h2, T, w, y, Opp(s)), \A m : RedIn(h2, m) <=> RedIn(h1, m)
  PROVE  /\ Turns(h1, T, D, w, y, Opp(s))
         /\ Lacking(h2, T, Reweighed(b, w, y, b[x]), x, p, s, y)
         /\ ~RedIn(h2, y) /\ RedIn(h2, KidOf(h2, Opp(s), y))
<1>o. PICK o : o = Opp(s)
  OBVIOUS
<1>l. PICK l : l = <<s, p>>
  OBVIOUS
<1>1. /\ s \in Sides /\ o \in Sides /\ s # o /\ Opp(o) = s
      /\ p \in T /\ KidOf(h, s, p) = x /\ x \in T \cup {Nil}
      /\ Counted(h, T, b, l)
      /\ ~RedIn(h, RootOf(h))
      /\ \A n \in T, q \in Sides : ~RedPair(h, T, n, q)
      /\ w \in T /\ KidOf(h, o, p) = w /\ w # x /\ w # p /\ w # RootOf(h) /\ x # p
      /\ b[x] \in Nat /\ b[w] \in Nat /\ b[p] \in Nat
      /\ b[w] = b[x] + 1
      /\ b[p] = b[w] + WeightIn(h, p)
  BY <1>o, <1>l, LackingFacts
<1>2. x # RootOf(h) /\ ~RedIn(h, x) /\ p = ParentOf(h, x) /\ s = SideIn(h, x)
  BY DEF Lacking
<1>3. /\ b \in [Cells -> Nat] /\ b[Nil] = 0 /\ ~RedIn(h, Nil)
      /\ \A n \in T, q \in Sides : /\ b[KidOf(h, q, n)] \in Nat
                                   /\ b[n] = b[KidOf(h, q, n)] + WeightIn(h, n) + Extra(l, q, n)
  BY <1>1, CountedFacts
<1>4. /\ T \subseteq Cells /\ Nil \in Cells /\ Nil \notin T
      /\ \A n \in T, q \in Sides : KidOf(h, q, n) \in Cells
      /\ \A n \in T, q \in Sides : KidOf(h, q, n) # n
  BY KidsAreCells
<1>5. Tree(h1, T, D) /\ \A n \in T, q \in Sides : KidOf(h1, q, n) = KidOf(h, q, n)
  BY PaintTree
<1>6. /\ RootOf(h1) = RootOf(h)
      /\ \A m : ParentOf(h1, m) = ParentOf(h, m)
      /\ \A m : RedIn(h2, m) <=> m # y /\ (m = w \/ RedIn(h, m))
  BY DEF Painted
<1>7. y \in T /\ y # w /\ y # p /\ y # x /\ y # RootOf(h)
  <2>1. y \in T
    BY <1>1, <1>3 DEF Tree
  <2>2. y # w /\ y # x
    BY <1>1, <1>2, <1>4
  <2>3. D[y] \subseteq D[w] /\ D[w] \subseteq D[p] /\ D[w] # D[p]
    BY <1>1, KidsBelow
  <2>4. y # RootOf(h)
    BY <1>1
  <2>5. QED
    BY <2>1, <2>2, <2>3, <2>4
<1>8. Turns(h1, T, D, w, y, o)
  BY <1>1, <1>4, <1>5, <1>7 DEF Turns
<1>9. PICK k \in Cells : k = KidOf(h, o, y)
  BY <1>1, <1>4, <1>7
<1>10. PICK e \in Cells : e = KidOf(h, s, y)
  BY <1>1, <1>4, <1>7
<1>11. PICK f \in Cells : f = KidOf(h, o, w)
  BY <1>1, <1>4
<1>12. ~RedIn(h, k) /\ ~RedIn(h, f)
  BY <1>1, <1>7, <1>9, <1>11, <1>o DEF RedPair
<1>13. \A q, m : Extra(l, q, m) = IF q = s /\ m = p THEN 1 ELSE 0
  BY <1>l DEF Extra
<1>14. /\ WeightIn(h, w) = 1 /\ WeightIn(h, y) = 0
       /\ WeightIn(h2, w) = 0 /\ WeightIn(h2, y) = 1
       /\ \A m : m \notin {w, y} => WeightIn(h2, m) = WeightIn(h, m)
  BY <1>6, <1>7 DEF WeightIn
<1>15. b[k] = b[x] /\ b[e] = b[x] /\ b[f] = b[x] /\ b[w] = b[x] + 1
  <2>1. /\ b[w] = b[f] + 1 + 0 /\ b[w] = b[y] + 1 + 0
        /\ b[y] = b[k] + 0 + 0 /\ b[y] = b[e] + 0 + 0
        /\ b[k] \in Nat /\ b[e] \in Nat /\ b[f] \in Nat /\ b[y] \in Nat
    BY <1>1, <1>3, <1>7, <1>9, <1>10, <1>11, <1>13, <1>14
  <2>2. QED
    BY <1>1, <2>1
<1>16. Weighed(h1, h2, T, b, l, w, y, o, b[x])
  <2>1. \A n \in T \ {w, y}, q \in Sides :
          b[n] = b[KidOf(h1, q, n)] + WeightIn(h2, n) + Extra(l, q, n)
    BY <1>3, <1>5, <1>14
  <2>2. /\ KidOf(h1, o, w) = f /\ KidOf(h1, o, y) = k /\ KidOf(h1, s, y) = e
        /\ Extra(l, o, w) = 0 /\ Extra(l, s, w) = 0
        /\ Extra(l, o, y) = 0 /\ Extra(l, s, y) = 0
    BY <1>1, <1>5, <1>7, <1>9, <1>10, <1>11, <1>13
  <2>3. /\ b[x] = b[f] + 0 + 0
        /\ b[x] = b[k] + 0 + 0
        /\ b[w] = b[x] + 1 + 0
        /\ b[w] = b[e] + 1 + 0
    BY <1>1, <1>15
  <2>4. ~RedIn(h2, Nil)
    BY <1>1, <1>3, <1>4, <1>6
  <2>5. /\ b[x] = b[KidOf(h1, o, w)] + WeightIn(h2, w) + Extra(l, o, w)
        /\ b[x] = b[KidOf(h1, o, y)] + WeightIn(h2, w) + Extra(l, Opp(o), w)
        /\ b[w] = b[x] + WeightIn(h2, y) + Extra(l, o, y)
        /\ b[w] = b[KidOf(h1, Opp(o), y)] + WeightIn(h2, y) + Extra(l, Opp(o), y)
    BY <1>1, <1>14, <2>2, <2>3
  <2>6. QED
    BY <1>1, <1>3, <2>1, <2>4, <2>5 DEF Weighed
<1>17. Counted(h2, T, Reweighed(b, w, y, b[x]), l)
  BY <1>o, <1>8, <1>16, RotateCounted
<1>18. /\ RootOf(h2) = RootOf(h)
       /\ KidOf(h2, s, p) = x
       /\ KidOf(h2, o, p) = y
       /\ KidOf(h2, o, y) = w
       /\ \A m \in (T \cup {Nil}) \ {w, y} : ParentOf(h2, m) = IF m # Nil /\ m = k THEN w ELSE ParentOf(h, m)
  BY <1>o, <1>1, <1>5, <1>6, <1>7, <1>9 DEF Rotated
<1>19. x # Nil => k # x
  <2>1. x # Nil => \A n \in T, q \in Sides : KidOf(h, q, n) = x => n = p
    BY <1>1, OneLink
  <2>2. QED
    BY <1>1, <1>7, <1>9, <2>1
<1>20. ParentOf(h2, x) = p
  BY <1>1, <1>2, <1>7, <1>18, <1>19
<1>21. SideIn(h2, x) = s
  <2>1. Sides = {s, o} /\ "left" \in Sides /\ "right" \in Sides
    BY <1>o, <1>1, OppSides DEF Sides
  <2>2. KidOf(h2, o, ParentOf(h2, x)) # x /\ KidOf(h2, s, ParentOf(h2, x)) = x
    BY <1>7, <1>18, <1>20
  <2>3. QED
    BY <2>1, <2>2 DEF SideIn, Sides
<1>22. ~RedIn(h2, RootOf(h2)) /\ x # RootOf(h2) /\ ~RedIn(h2, x) /\ ~RedIn(h2, y) /\ RedIn(h2, w)
  BY <1>1, <1>2, <1>6, <1>7, <1>18
<1>23. ASSUME NEW n \in T, NEW q \in Sides, RedPair(h2, T, n, q) PROVE FALSE
  <2>1. RedIn(h2, n) /\ RedIn(h2, KidOf(h2, q, n)) /\ n # y /\ KidOf(h2, q, n) # y
    BY <1>6, <1>23 DEF RedPair
  <2>2. \/ n = w /\ KidOf(h2, q, w) \in {f, k}
        \/ n # w /\ KidOf(h2, q, n) = KidOf(h, q, n) /\ KidOf(h, q, n) \notin {w, y}
    BY <1>1, <1>5, <1>7, <1>8, <1>9, <1>11, <1>23, <1>o, <2>1, RotatePairs
  <2>3. CASE n = w
    <3>1. f # w
      BY <1>1, <1>4, <1>11
    <3>2. k # w
      <4>1. D[k] \subseteq D[y] /\ D[y] \subseteq D[w] /\ D[y] # D[w]
        BY <1>1, <1>7, <1>9, KidsBelow
      <4>2. QED
        BY <4>1
    <3>3. QED
      BY <1>6, <1>12, <2>1, <2>2, <2>3, <3>1, <3>2
  <2>4. CASE n # w
    <3>1. RedPair(h, T, n, q)
      BY <1>6, <2>1, <2>2, <2>4 DEF RedPair
    <3>2. QED
      BY <1>1, <3>1
  <2>5. QED
    BY <2>3, <2>4
<1>24. DeleteFixing(h2, T, Reweighed(b, w, y, b[x]), x)
  BY <1>l, <1>1, <1>17, <1>18, <1>20, <1>21, <1>22, <1>23 DEF DeleteFixing
<1>25. Lacking(h2, T, Reweighed(b, w, y, b[x]), x, p, s, y)
  BY <1>o, <1>18, <1>20, <1>21, <1>22, <1>24 DEF Lacking
<1>26. QED
  BY <1>o, <1>8, <1>18, <1>22, <1>25

\* The numbers after the red far nephew f of the siblings' parent has turned black.
Darkened(b, f) == [b EXCEPT ![f] = b[f] + 1]

\* The sibling comes up with the colour of the parent, and nothing lacks any more.
LEMMA RedFarNephew ==
  ASSUME NEW h, NEW T, NEW D, Tree(h, T, D), NEW b, NEW x, NEW p, NEW s, NEW w,
         Lacking(h, T, b, x, p, s, w), ~RedIn(h, w),
         NEW f, f = KidOf(h, Opp(s), w), RedIn(h, f),
         NEW h1, Tree(h1, T, D), RootOf(h1) = RootOf(h),
         \A n \in T, q \in Sides : KidOf(h1, q, n) = KidOf(h, q, n),
         \A m : RedIn(h1, m) <=> m \notin {p, f} /\ IF m = w THEN RedIn(h, p) ELSE RedIn(h, m),
         NEW h2, Rotated(h1, h2, T, p, w, s), \A m : RedIn(h2, m) <=> RedIn(h1, m)
  PROVE  /\ Turns(h1, T, D, p, w, s)
         /\ DeleteFixing(h2, T, Reweighed(Darkened(b, f), p, w, b[w]), RootOf(h2))
<1>o. PICK o : o = Opp(s)
  OBVIOUS
<1>l. PICK l : l = <<s, p>>
  OBVIOUS
<1>b. PICK b1 : b1 = Darkened(b, f)
  OBVIOUS
<1>1. /\ s \in Sides /\ o \in Sides /\ s # o /\ Opp(o) = s
      /\ p \in T /\ KidOf(h, s, p) = x /\ x \in T \cup {Nil}
      /\ Counted(h, T, b, l)
      /\ ~RedIn(h, RootOf(h))
      /\ \A n \in T, q \in Sides : ~RedPair(h, T, n, q)
      /\ w \in T /\ KidOf(h, o, p) = w /\ w # x /\ w # p /\ w # RootOf(h) /\ x # p
      /\ b[x] \in Nat /\ b[w] \in Nat /\ b[p] \in Nat
      /\ b[w] = b[x] + 1
      /\ b[p] = b[w] + WeightIn(h, p)
  BY <1>o, <1>l, LackingFacts
<1>2. ~RedIn(h, x)
  BY DEF Lacking
<1>3. /\ b \in [Cells -> Nat] /\ b[Nil] = 0 /\ ~RedIn(h, Nil)
      /\ \A n \in T, q \in Sides : /\ b[KidOf(h, q, n)] \in Nat
                                   /\ b[n] = b[KidOf(h, q, n)] + WeightIn(h, n) + Extra(l, q, n)
  BY <1>1, CountedFacts
<1>4. /\ T \subseteq Cells /\ Nil \in Cells /\ Nil \notin T
      /\ \A n \in T, q \in Sides : KidOf(h, q, n) \in Cells
      /\ \A n \in T, q \in Sides : KidOf(h, q, n) # n
  BY KidsAreCells
<1>7. f \in T /\ f # w /\ f # p /\ f # x /\ KidOf(h, o, w) = f
  <2>1. f \in T /\ f # w /\ f # x
    BY <1>o, <1>1, <1>2, <1>3, <1>4 DEF Tree
  <2>2. D[f] \subseteq D[w] /\ D[w] \subseteq D[p] /\ D[w] # D[p]
    BY <1>o, <1>1, KidsBelow
  <2>3. QED
    BY <1>o, <2>1, <2>2
<1>8. Turns(h1, T, D, p, w, s)
  BY <1>o, <1>1, <1>4 DEF Turns
<1>9. PICK k \in Cells : k = KidOf(h, s, w)
  BY <1>1, <1>4
<1>10. \A q, m : Extra(l, q, m) = IF q = s /\ m = p THEN 1 ELSE 0
  BY <1>l DEF Extra
<1>11. /\ WeightIn(h, w) = 1 /\ WeightIn(h, f) = 0
       /\ WeightIn(h2, p) = 1 /\ WeightIn(h2, f) = 1
       /\ WeightIn(h2, w) = WeightIn(h, p)
       /\ \A m : m \notin {p, w, f} => WeightIn(h2, m) = WeightIn(h, m)
       /\ \A m : WeightIn(h, m) \in {0, 1}
  BY <1>1, <1>7 DEF WeightIn
<1>12. b[k] = b[x] /\ b[f] = b[x] /\ b[k] \in Nat /\ b[f] \in Nat
  <2>1. b[w] = b[f] + 1 + 0 /\ b[w] = b[k] + 1 + 0 /\ b[f] \in Nat /\ b[k] \in Nat
    BY <1>1, <1>3, <1>7, <1>9, <1>10, <1>11
  <2>2. QED
    BY <1>1, <2>1
<1>13. /\ b1 \in [Cells -> Nat]
       /\ b1[f] = b[f] + 1
       /\ \A y \in Cells \ {f} : b1[y] = b[y]
  BY <1>b, <1>3, <1>4, <1>7, <1>12 DEF Darkened
<1>14. \A n \in T, q \in Sides : KidOf(h, q, n) = f => n = w /\ q = o
  BY <1>1, <1>4, <1>7, OneLink
<1>15. k # f /\ b1[p] = b[p] /\ b1[w] = b[w] /\ b1[x] = b[x] /\ b1[k] = b[k]
  <2>1. k # f
    BY <1>1, <1>9, <1>14
  <2>2. QED
    BY <1>1, <1>4, <1>7, <1>9, <1>13, <2>1
<1>e. \A q, m : Extra(<<>>, q, m) = 0
  BY NoExtra
<1>16. Weighed(h1, h2, T, b1, <<>>, p, w, s, b[w])
  <2>1. ASSUME NEW n \in T \ {p, w}, NEW q \in Sides
        PROVE  b1[n] = b1[KidOf(h1, q, n)] + WeightIn(h2, n) + Extra(<<>>, q, n)
    <3>1. PICK c \in Cells : c = KidOf(h, q, n)
      BY <1>4
    <3>2. c # f /\ b1[c] = b[c] /\ KidOf(h1, q, n) = c /\ Extra(l, q, n) = 0
      BY <1>10, <1>13, <1>14, <3>1
    <3>3. b[c] \in Nat /\ b[n] = b[c] + WeightIn(h, n) + 0
      BY <1>3, <3>1, <3>2
    <3>4. b1[n] = b[c] + WeightIn(h2, n) + 0
      BY <1>4, <1>11, <1>12, <1>13, <3>3
    <3>5. QED
      BY <1>e, <3>2, <3>4
  <2>2. /\ KidOf(h1, s, p) = x /\ KidOf(h1, s, w) = k /\ KidOf(h1, o, w) = f
    BY <1>1, <1>7, <1>9
  <2>3. /\ b[w] = b1[x] + 1 + 0
        /\ b[w] = b1[k] + 1 + 0
        /\ b1[p] = b[w] + WeightIn(h, p) + 0
        /\ b1[p] = b1[f] + WeightIn(h, p) + 0
    BY <1>1, <1>11, <1>12, <1>13, <1>15
  <2>4. ~RedIn(h2, Nil) /\ b1[Nil] = 0
    BY <1>1, <1>3, <1>4, <1>7, <1>13
  <2>5. QED
    BY <1>o, <1>1, <1>e, <1>11, <1>13, <2>1, <2>2, <2>3, <2>4 DEF Weighed
<1>17. Counted(h2, T, Reweighed(b1, p, w, b[w]), <<>>)
  BY <1>8, <1>16, RotateCounted
<1>18. ASSUME NEW n \in T, NEW q \in Sides, RedPair(h2, T, n, q) PROVE FALSE
  <2>1. RedIn(h1, n) /\ RedIn(h1, KidOf(h2, q, n)) /\ n # p /\ KidOf(h2, q, n) # p /\ n # f /\ KidOf(h2, q, n) # f
    BY <1>18 DEF RedPair
  <2>2. \/ n = w /\ KidOf(h2, q, w) \in {p, f}
        \/ n # w /\ KidOf(h, q, n) = p /\ KidOf(h2, q, n) = w
        \/ n # w /\ KidOf(h2, q, n) = KidOf(h, q, n) /\ KidOf(h, q, n) \notin {p, w}
    BY <1>o, <1>1, <1>7, <1>8, <1>18, <2>1, RotatePairs
  <2>3. CASE n = w
    BY <2>1, <2>2, <2>3
  <2>4. CASE n # w /\ KidOf(h, q, n) = p /\ KidOf(h2, q, n) = w
    <3>1. RedPair(h, T, n, q)
      BY <2>1, <2>4 DEF RedPair
    <3>2. QED
      BY <1>1, <3>1
  <2>5. CASE n # w /\ KidOf(h2, q, n) = KidOf(h, q, n) /\ KidOf(h, q, n) \notin {p, w}
    <3>1. RedPair(h, T, n, q)
      BY <2>1, <2>5 DEF RedPair
    <3>2. QED
      BY <1>1, <3>1
  <2>6. QED
    BY <2>2, <2>3, <2>4, <2>5
<1>19. RootOf(h2) \in T \cup {Nil}
  BY <1>1 DEF Rotated, Tree
<1>20. DeleteFixing(h2, T, Reweighed(b1, p, w, b[w]), RootOf(h2))
  BY <1>17, <1>18, <1>19 DEF DeleteFixing
<1>21. QED
  BY <1>b, <1>8, <1>20

\* The fixup of a deletion ends at the root or at a red node, which turns black.
LEMMA DeleteSettles ==
  ASSUME NEW h, NEW T, NEW D, Tree(h, T, D), NEW b, NEW x, DeleteFixing(h, T, b, x),
         x = RootOf(h) \/ RedIn(h, x),
         NEW h2, Painted(h, h2, {}, {x})
  PROVE  Settled(h2, T, Blackened(h, b, x))
<1>p. /\ Tree(h2, T, D)
      /\ \A n \in T, q \in Sides : KidOf(h2, q, n) = KidOf(h, q, n)
  BY PaintTree
<1>1. /\ RootOf(h2) = RootOf(h)
      /\ \A m : RedIn(h2, m) <=> m # x /\ RedIn(h, m)
  BY DEF Painted
<1>2. ASSUME NEW n \in T, NEW q \in Sides, RedPair(h2, T, n, q) PROVE FALSE
  <2>1. RedPair(h, T, n, q) /\ n # x /\ KidOf(h, q, n) # x
    BY <1>p, <1>1, <1>2 DEF RedPair
  <2>2. QED
    BY <2>1 DEF DeleteFixing
<1>3. ~RedIn(h2, RootOf(h2))
  BY <1>1 DEF DeleteFixing
<1>4. Counted(h2, T, Blackened(h, b, x), <<>>)
  <2>1. CASE x = RootOf(h)
    <3>1. Counted(h, T, b, <<>>) /\ Painted(h, h2, {}, {RootOf(h)})
      BY <2>1 DEF DeleteFixing
    <3>2. Counted(h2, T, Blackened(h, b, RootOf(h)), <<>>)
      BY <3>1, BlackRoot
    <3>3. QED
      BY <2>1, <3>2
  <2>2. CASE x # RootOf(h)
    <3>p. PICK p : p = ParentOf(h, x)
      OBVIOUS
    <3>s. PICK s : s = SideIn(h, x)
      OBVIOUS
    <3>l. PICK l : l = <<s, p>>
      OBVIOUS
    <3>b. PICK b2 : b2 = Blackened(h, b, x)
      OBVIOUS
    <3>1. p \in T /\ KidOf(h, s, p) = x /\ Counted(h, T, b, l) /\ RedIn(h, x) /\ x \in T \cup {Nil}
      BY <2>2, <3>p, <3>s, <3>l DEF DeleteFixing
    <3>2. s \in Sides
      BY <3>s DEF SideIn, Sides
    <3>3. /\ b \in [Cells -> Nat] /\ b[Nil] = 0 /\ ~RedIn(h, Nil)
          /\ \A n \in T, q \in Sides : /\ b[KidOf(h, q, n)] \in Nat
                                       /\ b[n] = b[KidOf(h, q, n)] + WeightIn(h, n) + Extra(l, q, n)
      BY <3>1, CountedFacts
    <3>4. /\ T \subseteq Cells /\ Nil \in Cells /\ Nil \notin T
          /\ \A n \in T, q \in Sides : KidOf(h, q, n) \in Cells
          /\ \A n \in T, q \in Sides : KidOf(h, q, n) # n
      BY KidsAreCells
    <3>5. x \in T /\ x # p
      BY <3>1, <3>2, <3>3, <3>4
    <3>6. /\ b2 \in [Cells -> Nat] /\ b2[x] = b[x] + 1
          /\ \A y \in Cells \ {x} : b2[y] = b[y]
      BY <3>b, <3>1, <3>3, <3>4, <3>5 DEF Blackened
    <3>7. \A q, m : Extra(l, q, m) = IF q = s /\ m = p THEN 1 ELSE 0
      BY <3>l DEF Extra
    <3>8. \A n \in T, q \in Sides : KidOf(h, q, n) = x <=> n = p /\ q = s
      BY <3>1, <3>2, <3>4, <3>5, OneLink
    <3>9. /\ WeightIn(h, x) = 0 /\ WeightIn(h2, x) = 1
          /\ \A m : m # x => WeightIn(h2, m) = WeightIn(h, m)
          /\ \A m : WeightIn(h, m) \in {0, 1}
      BY <1>1, <3>1 DEF WeightIn
    <3>10. ASSUME NEW n \in T, NEW q \in Sides
           PROVE  b2[n] = b2[KidOf(h2, q, n)] + WeightIn(h2, n)
      <4>1. PICK c \in Cells : c = KidOf(h, q, n)
        BY <3>4
      <4>2. /\ b[c] \in Nat /\ b[n] \in Nat /\ KidOf(h2, q, n) = c /\ c # n
            /\ b[n] = b[c] + WeightIn(h, n) + Extra(l, q, n)
            /\ Extra(l, q, n) = IF c = x THEN 1 ELSE 0
        BY <1>p, <3>3, <3>4, <3>7, <3>8, <4>1
      <4>3. CASE c = x
        <5>1. b2[c] = b[c] + 1 /\ b2[n] = b[n] /\ WeightIn(h2, n) = WeightIn(h, n)
          BY <3>4, <3>6, <3>9, <4>2, <4>3
        <5>2. QED
          BY <3>9, <4>2, <4>3, <5>1
      <4>4. CASE c # x /\ n = x
        BY <3>6, <3>9, <4>2, <4>4
      <4>5. CASE c # x /\ n # x
        <5>1. b2[c] = b[c] /\ b2[n] = b[n] /\ WeightIn(h2, n) = WeightIn(h, n)
          BY <3>4, <3>6, <3>9, <4>5
        <5>2. QED
          BY <3>9, <4>2, <4>5, <5>1
      <4>6. QED
        BY <4>3, <4>4, <4>5
    <3>11. b2[Nil] = 0 /\ ~RedIn(h2, Nil)
      BY <1>1, <3>3, <3>4, <3>5, <3>6
    <3>12. Counted(h2, T, b2, <<>>)
      BY <1>p, <3>6, <3>10, <3>11, PlainCounted
    <3>13. QED
      BY <3>b, <3>12
  <2>3. QED
    BY <2>1, <2>2
<1>5. QED
  BY <1>2, <1>3, <1>4 DEF Settled

-----------------------------------------------------------------------------
(* Insertion into the tree *)

\* g is h with two links of c and its parent set.
KidsSet(h, g, c, l, r) ==
  /\ g \in Heaps
  /\ \A q \in Sides, m \in Cells :
       KidOf(g, q, m) = IF m = c THEN (IF q = "left" THEN l ELSE r) ELSE KidOf(h, q, m)
  /\ \A m : ParentOf(g, m) = ParentOf(h, m) /\ (RedIn(g, m) <=> RedIn(h, m))
  /\ RootOf(g) = RootOf(h)

\* Setting both links.
LEMMA SetKids ==
  ASSUME NEW h \in Heaps, NEW c \in Cells, NEW l \in Ptrs, NEW r \in Ptrs
  PROVE  KidsSet(h, WithKids(h, c, l, r), c, l, r)
<1>1. PICK g : g = WithKid(h, "left", c, l)
  OBVIOUS
<1>2. "left" \in Sides /\ "right" \in Sides
  BY DEF Sides
<1>3. KidSet(h, g, "left", c, l)
  BY <1>1, <1>2, SetKid
<1>4. g \in Heaps
  BY <1>3 DEF KidSet
<1>5. KidSet(g, WithKid(g, "right", c, r), "right", c, r)
  BY <1>2, <1>4, SetKid
<1>6. WithKids(h, c, l, r) = WithKid(g, "right", c, r)
  BY <1>1 DEF WithKids
<1>7. PICK g2 : g2 = WithKids(h, c, l, r)
  OBVIOUS
<1>8. KidSet(g, g2, "right", c, r)
  BY <1>5, <1>6, <1>7
<1>9. KidsSet(h, g2, c, l, r)
  BY <1>3, <1>8 DEF KidSet, KidsSet, Sides
<1>10. QED
  BY <1>7, <1>9

\* c is a leaf of g, below p.
LeafSet(h, g, c, p) ==
  /\ g \in Heaps
  /\ \A q \in Sides, m \in Cells : KidOf(g, q, m) = IF m = c THEN Nil ELSE KidOf(h, q, m)
  /\ \A m \in Cells : ParentOf(g, m) = IF m = c THEN p ELSE ParentOf(h, m)
  /\ \A m : RedIn(g, m) <=> RedIn(h, m)
  /\ RootOf(g) = RootOf(h)

\* Making a leaf.
LEMMA LeafFacts ==
  ASSUME NEW h \in Heaps, NEW c \in Cells, NEW p \in Ptrs
  PROVE  LeafSet(h, Leaf(h, c, p), c, p)
<1>1. PICK g : g = WithParent(h, c, p)
  OBVIOUS
<1>2. ParentSet(h, g, c, p)
  BY <1>1, SetParent
<1>3. PICK g2 : g2 = WithKids(g, c, Nil, Nil)
  OBVIOUS
<1>4. KidsSet(g, g2, c, Nil, Nil)
  <2>1. g \in Heaps /\ Nil \in Ptrs
    BY <1>2 DEF ParentSet, Ptrs, Cells
  <2>2. QED
    BY <1>3, <2>1, SetKids
<1>5. LeafSet(h, g2, c, p)
  BY <1>2, <1>4 DEF ParentSet, KidsSet, LeafSet
<1>6. QED
  BY <1>1, <1>3, <1>5 DEF Leaf

\* h2 has n as a new kid of t on side s.
Linked(h, h2, T, n, t, s) ==
  /\ RootOf(h2) = RootOf(h)
  /\ \A q \in Sides, m \in T \cup {n} :
       KidOf(h2, q, m) = IF m = n THEN Nil ELSE IF q = s /\ m = t THEN n ELSE KidOf(h, q, m)
  /\ \A m \in T \cup {n} : ParentOf(h2, m) = IF m = n THEN t ELSE ParentOf(h, m)
  /\ \A m : RedIn(h2, m) <=> m = n \/ RedIn(h, m)

\* The writes of rbtree_insert before its fixup.
LEMMA LinkWrites ==
  ASSUME NEW h \in Heaps, NEW T \in SUBSET Nodes, NEW n \in Nodes, NEW t \in Nodes, t # n, NEW s \in Sides,
         NEW h2, h2 = Paint(Leaf(WithKid(h, s, t, n), n, t), {n}, {})
  PROVE  h2 \in Heaps /\ Linked(h, h2, T, n, t, s)
<1>1. n \in Cells /\ n \in Ptrs /\ t \in Cells /\ t \in Ptrs /\ T \subseteq Cells
  BY DEF Cells, Ptrs
<1>2. PICK g1 : g1 = WithKid(h, s, t, n)
  OBVIOUS
<1>3. KidSet(h, g1, s, t, n)
  BY <1>1, <1>2, SetKid
<1>4. PICK g2 : g2 = Leaf(g1, n, t)
  OBVIOUS
<1>5. LeafSet(g1, g2, n, t)
  <2>1. g1 \in Heaps
    BY <1>3 DEF KidSet
  <2>2. QED
    BY <1>1, <1>4, <2>1, LeafFacts
<1>6. Painted(g2, h2, {n}, {})
  <2>1. g2 \in Heaps /\ {n} \in SUBSET Cells
    BY <1>1, <1>5 DEF LeafSet
  <2>2. h2 = Paint(g2, {n}, {})
    BY <1>2, <1>4
  <2>3. QED
    BY <2>1, <2>2, PaintFacts
<1>7. QED
  BY <1>1, <1>3, <1>5, <1>6 DEF KidSet, LeafSet, Painted, Linked

\* What is below the cells when n has come below t.
Grown(D, n, t) ==
  [c \in Cells |-> IF c = n THEN {n} ELSE IF t \in D[c] THEN D[c] \cup {n} ELSE D[c]]

\* The numbers with n as a red leaf.
LeafAdded(b, n) == [b EXCEPT ![n] = 0]

\* A leaf more makes a tree again, which is sorted if the leaf is where it belongs, and
\* has a single violation, at the leaf.
LEMMA LinkFacts ==
  ASSUME NEW h, NEW T, NEW D, Tree(h, T, D), NEW n \in Nodes \ T, NEW t \in T, NEW s \in Sides,
         KidOf(h, s, t) = Nil, NEW h2, Linked(h, h2, T, n, t, s)
  PROVE  /\ Tree(h2, T \cup {n}, Grown(D, n, t))
         /\ \A k :
              /\ Sorted(h, T, D, k)
              /\ Before(s, k[n], k[t])
              /\ \A m \in T, q \in Sides : t \in D[KidOf(h, q, m)] => Before(q, k[n], k[m])
              => Sorted(h2, T \cup {n}, Grown(D, n, t), k)
         /\ \A b : Settled(h, T, b) => InsertFixing(h2, T \cup {n}, LeafAdded(b, n), n)
<1>1. PICK D2 : D2 = Grown(D, n, t)
  OBVIOUS
<1>2. PICK T2 : T2 = T \cup {n}
  OBVIOUS
<1>3. /\ T \subseteq Cells /\ Nil \in Cells /\ Nil \notin T
      /\ \A m \in T, q \in Sides : KidOf(h, q, m) \in Cells
      /\ \A m \in T, q \in Sides : KidOf(h, q, m) # m
  BY KidsAreCells
<1>4. n \in Cells /\ n # Nil /\ n \notin T /\ n # t
  BY RBTreeAssumption DEF Cells
<1>5. /\ T \subseteq Nodes /\ D \in [Cells -> SUBSET Nodes] /\ D[Nil] = {}
      /\ D[RootOf(h)] = T /\ RootOf(h) \in T \cup {Nil}
  BY DEF Tree
<1>6. /\ D2 \in [Cells -> SUBSET Nodes]
      /\ D2[n] = {n}
      /\ \A c \in Cells \ {n} : D2[c] = IF t \in D[c] THEN D[c] \cup {n} ELSE D[c]
  BY <1>1, <1>4, <1>5 DEF Grown
<1>7. /\ RootOf(h2) = RootOf(h)
      /\ \A q \in Sides : KidOf(h2, q, n) = Nil
      /\ KidOf(h2, s, t) = n
      /\ \A q \in Sides, m \in T : ~(q = s /\ m = t) => KidOf(h2, q, m) = KidOf(h, q, m)
      /\ ParentOf(h2, n) = t
      /\ \A m \in T : ParentOf(h2, m) = ParentOf(h, m)
      /\ \A m : RedIn(h2, m) <=> m = n \/ RedIn(h, m)
  BY <1>4 DEF Linked
<1>8. \A m \in T : m \in D[m] /\ n \notin D[m]
  BY <1>4, KidsBelow, SubtreesNest
<1>9. D2[Nil] = {} /\ D2[RootOf(h2)] = T2 /\ RootOf(h2) \in T2
  BY <1>2, <1>3, <1>4, <1>5, <1>6, <1>7
<1>10. ASSUME NEW m \in T \ {t}, NEW q \in Sides
       PROVE  /\ KidOf(h2, q, m) = KidOf(h, q, m)
              /\ KidOf(h2, q, m) \in T \cup {Nil}
              /\ KidOf(h2, q, m) # Nil => ParentOf(h2, KidOf(h2, q, m)) = m
              /\ D2[m] = {m} \cup D2[KidOf(h2, q, m)] \cup D2[KidOf(h2, Opp(q), m)]
              /\ D2[KidOf(h2, q, m)] \cap D2[KidOf(h2, Opp(q), m)] = {}
              /\ m \notin D2[KidOf(h2, q, m)]
  <2>1. PICK c : c = KidOf(h, q, m)
    OBVIOUS
  <2>2. PICK d : d = KidOf(h, Opp(q), m)
    OBVIOUS
  <2>3. Opp(q) \in Sides
    BY OppSides
  <2>4. /\ c \in T \cup {Nil} /\ d \in T \cup {Nil}
        /\ c # Nil => ParentOf(h, c) = m
        /\ D[m] = {m} \cup D[c] \cup D[d] /\ D[c] \cap D[d] = {} /\ m \notin D[c]
    BY <2>1, <2>2, <2>3 DEF Tree
  <2>5. KidOf(h2, q, m) = c /\ KidOf(h2, Opp(q), m) = d
    BY <1>7, <2>1, <2>2, <2>3
  <2>6. c \in Cells \ {n} /\ d \in Cells \ {n} /\ m \in Cells \ {n}
    BY <1>3, <1>4, <2>4
  <2>7. n \notin D[c] /\ n \notin D[d] /\ n # m
    BY <1>4, <1>5, <1>8, <2>4
  <2>8. c # Nil => ParentOf(h2, c) = m
    BY <1>7, <2>4
  <2>9. /\ D2[m] = {m} \cup D2[c] \cup D2[d]
        /\ D2[c] \cap D2[d] = {}
        /\ m \notin D2[c]
    BY <1>6, <2>4, <2>6, <2>7
  <2>10. QED
    BY <2>1, <2>4, <2>5, <2>8, <2>9
<1>11. ASSUME NEW q \in Sides
       PROVE  /\ KidOf(h2, q, t) \in T2 \cup {Nil}
              /\ KidOf(h2, q, t) # Nil => ParentOf(h2, KidOf(h2, q, t)) = t
              /\ D2[t] = {t} \cup D2[KidOf(h2, q, t)] \cup D2[KidOf(h2, Opp(q), t)]
              /\ D2[KidOf(h2, q, t)] \cap D2[KidOf(h2, Opp(q), t)] = {}
              /\ t \notin D2[KidOf(h2, q, t)]
  <2>1. PICK d : d = KidOf(h, Opp(s), t)
    OBVIOUS
  <2>2. Opp(s) \in Sides /\ Opp(s) # s /\ Opp(Opp(s)) = s /\ (q = s \/ q = Opp(s))
    BY OppSides
  <2>3. /\ d \in T \cup {Nil} /\ (d # Nil => ParentOf(h, d) = t)
        /\ D[t] = {t} \cup D[Nil] \cup D[d] /\ t \notin D[d]
    BY <2>1, <2>2 DEF Tree
  <2>4. KidOf(h2, s, t) = n /\ KidOf(h2, Opp(s), t) = d
    BY <1>7, <2>1, <2>2
  <2>5. d \in Cells \ {n} /\ t \in Cells \ {n}
    BY <1>3, <1>4, <2>3
  <2>6. n \notin D[d]
    BY <1>5, <1>8, <2>3
  <2>7. D2[d] = D[d] /\ D2[t] = D[t] \cup {n} /\ D2[n] = {n}
    BY <1>6, <1>8, <2>3, <2>5
  <2>8. /\ D2[t] = {t} \cup D2[n] \cup D2[d] /\ D2[n] \cap D2[d] = {}
        /\ t \notin D2[n] /\ t \notin D2[d]
    BY <1>4, <1>5, <2>3, <2>6, <2>7
  <2>9. n # Nil => ParentOf(h2, n) = t
    BY <1>7
  <2>10. d # Nil => ParentOf(h2, d) = t
    BY <1>7, <2>3
  <2>11. QED
    BY <1>2, <2>2, <2>3, <2>4, <2>8, <2>9, <2>10
<1>12. ASSUME NEW q \in Sides
       PROVE  /\ KidOf(h2, q, n) \in T2 \cup {Nil}
              /\ KidOf(h2, q, n) # Nil => ParentOf(h2, KidOf(h2, q, n)) = n
              /\ D2[n] = {n} \cup D2[KidOf(h2, q, n)] \cup D2[KidOf(h2, Opp(q), n)]
              /\ D2[KidOf(h2, q, n)] \cap D2[KidOf(h2, Opp(q), n)] = {}
              /\ n \notin D2[KidOf(h2, q, n)]
  <2>1. Opp(q) \in Sides
    BY OppSides
  <2>2. KidOf(h2, q, n) = Nil /\ KidOf(h2, Opp(q), n) = Nil
    BY <1>7, <2>1
  <2>3. QED
    BY <1>6, <1>9, <2>2
<1>13. Tree(h2, T2, D2)
  <2>1. T2 \subseteq Nodes
    BY <1>2, <1>5
  <2>2. QED
    BY <1>2, <1>6, <1>9, <1>10, <1>11, <1>12, <2>1 DEF Tree
<1>14. ASSUME NEW k, Sorted(h, T, D, k), Before(s, k[n], k[t]),
              \A m \in T, q \in Sides : t \in D[KidOf(h, q, m)] => Before(q, k[n], k[m])
       PROVE  Sorted(h2, T2, D2, k)
  <2>1. ASSUME NEW m \in T2, NEW q \in Sides, NEW j \in D2[KidOf(h2, q, m)]
        PROVE  Before(q, k[j], k[m])
    <3>1. CASE m = n
      BY <1>7, <1>9, <2>1, <3>1
    <3>2. CASE m = t /\ q = s
      <4>1. j = n
        BY <1>6, <1>7, <2>1, <3>2
      <4>2. QED
        BY <1>14, <3>2, <4>1
    <3>3. CASE m \in T /\ ~(m = t /\ q = s)
      <4>1. PICK c \in Cells : c = KidOf(h, q, m)
        BY <1>3, <3>3
      <4>2. KidOf(h2, q, m) = c /\ c # n
        BY <1>4, <1>7, <3>3, <4>1 DEF Tree
      <4>3. j \in D[c] \/ (j = n /\ t \in D[c])
        BY <1>6, <2>1, <4>2
      <4>4. QED
        BY <1>14, <3>3, <4>1, <4>3 DEF Sorted
    <3>4. QED
      BY <1>2, <3>1, <3>2, <3>3
  <2>2. QED
    BY <2>1 DEF Sorted
<1>15. ASSUME NEW b, Settled(h, T, b) PROVE InsertFixing(h2, T2, LeafAdded(b, n), n)
  <2>1. PICK b2 : b2 = LeafAdded(b, n)
    OBVIOUS
  <2>2. /\ b \in [Cells -> Nat] /\ b[Nil] = 0 /\ ~RedIn(h, Nil)
        /\ \A m \in T, q \in Sides : b[m] = b[KidOf(h, q, m)] + WeightIn(h, m)
        /\ ~RedIn(h, RootOf(h))
        /\ \A m \in T, q \in Sides : ~RedPair(h, T, m, q)
    BY <1>15, PlainCounted DEF Settled
  <2>3. b2 \in [Cells -> Nat] /\ b2[n] = 0 /\ \A c \in Cells \ {n} : b2[c] = b[c]
    BY <1>4, <2>1, <2>2 DEF LeafAdded
  <2>4. WeightIn(h2, n) = 0 /\ \A m \in T : WeightIn(h2, m) = WeightIn(h, m)
    BY <1>4, <1>7 DEF WeightIn
  <2>5. ASSUME NEW m \in T2, NEW q \in Sides
        PROVE  b2[m] = b2[KidOf(h2, q, m)] + WeightIn(h2, m)
    <3>1. CASE m = n
      <4>1. b2[Nil] = 0
        BY <1>3, <1>4, <2>2, <2>3
      <4>2. QED
        BY <1>7, <2>3, <2>4, <3>1, <4>1
    <3>2. CASE m = t /\ q = s
      <4>1. b[t] = b[Nil] + WeightIn(h, t) /\ b2[t] = b[t]
        BY <1>3, <1>4, <2>2, <2>3
      <4>2. QED
        BY <1>7, <2>2, <2>3, <2>4, <3>2, <4>1
    <3>3. CASE m \in T /\ ~(m = t /\ q = s)
      <4>1. PICK c \in Cells : c = KidOf(h, q, m)
        BY <1>3, <3>3
      <4>2. KidOf(h2, q, m) = c /\ c # n
        BY <1>4, <1>7, <3>3, <4>1 DEF Tree
      <4>3. QED
        BY <1>3, <1>4, <2>2, <2>3, <2>4, <3>3, <4>1, <4>2
    <3>4. QED
      BY <1>2, <3>1, <3>2, <3>3
  <2>6. Counted(h2, T2, b2, <<>>)
    <3>1. b2[Nil] = 0 /\ ~RedIn(h2, Nil)
      BY <1>3, <1>4, <1>7, <2>2, <2>3
    <3>2. QED
      BY <1>13, <2>3, <2>5, <3>1, PlainCounted
  <2>7. ~RedIn(h2, RootOf(h2)) /\ RedIn(h2, n)
    <3>1. RootOf(h) # n
      BY <1>4, <1>5
    <3>2. QED
      BY <1>7, <2>2, <3>1
  <2>8. ASSUME NEW m \in T2, NEW q \in Sides, RedPair(h2, T2, m, q) PROVE KidOf(h2, q, m) = n
    <3>1. CASE m = n
      BY <1>4, <1>7, <2>2, <2>8, <3>1 DEF RedPair
    <3>2. CASE m \in T
      <4>1. ~RedPair(h, T, m, q)
        BY <2>2, <3>2
      <4>2. QED
        BY <1>4, <1>7, <2>8, <3>2, <4>1 DEF RedPair
    <3>3. QED
      BY <1>2, <3>1, <3>2
  <2>9. QED
    BY <1>2, <2>1, <2>6, <2>7, <2>8 DEF InsertFixing
<1>16. \A k : /\ Sorted(h, T, D, k)
              /\ Before(s, k[n], k[t])
              /\ \A m \in T, q \in Sides : t \in D[KidOf(h, q, m)] => Before(q, k[n], k[m])
              => Sorted(h2, T2, D2, k)
  BY <1>14
<1>17. \A b : Settled(h, T, b) => InsertFixing(h2, T2, LeafAdded(b, n), n)
  BY <1>15
<1>18. QED
  BY <1>1, <1>2, <1>13, <1>16, <1>17

\* n is the only node of h2.
Planted(h2, n) ==
  /\ RootOf(h2) = n
  /\ \A q \in Sides : KidOf(h2, q, n) = Nil
  /\ ~RedIn(h2, n) /\ ~RedIn(h2, Nil)

\* The writes of rbtree_insert for an empty tree.
LEMMA PlantWrites ==
  ASSUME NEW h \in Heaps, NEW n \in Nodes, ~RedIn(h, Nil),
         NEW h2, h2 = WithRoot(Leaf(Paint(h, {}, {n}), n, NULL), n)
  PROVE  h2 \in Heaps /\ Planted(h2, n)
<1>1. n \in Cells /\ NULL \in Ptrs
  BY DEF Cells, Ptrs
<1>2. PICK g1 : g1 = Paint(h, {}, {n})
  OBVIOUS
<1>3. Painted(h, g1, {}, {n})
  BY <1>2, PaintFacts
<1>4. PICK g2 : g2 = Leaf(g1, n, NULL)
  OBVIOUS
<1>5. LeafSet(g1, g2, n, NULL)
  <2>1. g1 \in Heaps
    BY <1>3 DEF Painted
  <2>2. QED
    BY <1>1, <1>4, <2>1, LeafFacts
<1>6. RootSet(g2, h2, n)
  <2>1. g2 \in Heaps
    BY <1>5 DEF LeafSet
  <2>2. h2 = WithRoot(g2, n)
    BY <1>2, <1>4
  <2>3. QED
    BY <1>1, <2>1, <2>2, SetRoot
<1>7. QED
  BY <1>1, <1>3, <1>5, <1>6 DEF Painted, LeafSet, RootSet, Planted

\* A single black node is a red-black tree.
LEMMA SingleNode ==
  ASSUME NEW n \in Nodes, NEW h2, Planted(h2, n),
         NEW D \in [Cells -> SUBSET Nodes], D[n] = {n}, D[Nil] = {},
         NEW b \in [Cells -> Nat], b[n] = 1, b[Nil] = 0
  PROVE  /\ Tree(h2, {n}, D)
         /\ \A k : Sorted(h2, {n}, D, k)
         /\ Settled(h2, {n}, b)
<1>1. n \in Cells /\ Nil \in Cells /\ n # Nil
  BY RBTreeAssumption DEF Cells
<1>2. /\ RootOf(h2) = n /\ \A q \in Sides : KidOf(h2, q, n) = Nil /\ KidOf(h2, Opp(q), n) = Nil
      /\ ~RedIn(h2, n) /\ ~RedIn(h2, Nil)
  BY OppSides DEF Planted
<1>3. Tree(h2, {n}, D)
  BY <1>1, <1>2 DEF Tree
<1>4. \A k : Sorted(h2, {n}, D, k)
  BY <1>2 DEF Sorted
<1>5. Counted(h2, {n}, b, <<>>)
  <2>1. WeightIn(h2, n) = 1
    BY <1>2 DEF WeightIn
  <2>2. \A m \in {n}, q \in Sides : b[m] = b[KidOf(h2, q, m)] + WeightIn(h2, m)
    BY <1>2, <2>1
  <2>3. QED
    BY <1>2, <1>3, <2>2, PlainCounted
<1>6. QED
  BY <1>2, <1>3, <1>4, <1>5 DEF Settled, RedPair

\* The node that is planted alone.
LEMMA PlantFacts ==
  ASSUME NEW n \in Nodes, NEW h2, Planted(h2, n),
         NEW D, D = [c \in Cells |-> IF c = n THEN {n} ELSE {}],
         NEW b, b = [c \in Cells |-> IF c = n THEN 1 ELSE 0]
  PROVE  /\ Tree(h2, {n}, D)
         /\ \A k : Sorted(h2, {n}, D, k)
         /\ Settled(h2, {n}, b)
<1>1. n \in Cells /\ Nil \in Cells /\ n # Nil
  BY RBTreeAssumption DEF Cells
<1>2. D \in [Cells -> SUBSET Nodes] /\ D[n] = {n} /\ D[Nil] = {}
  BY <1>1
<1>3. b \in [Cells -> Nat] /\ b[n] = 1 /\ b[Nil] = 0
  BY <1>1
<1>4. QED
  BY <1>2, <1>3, SingleNode

-----------------------------------------------------------------------------
(* Deletion from the tree *)

\* rbtree_node_init() leaves the other cells alone.
Cleared(h, g, c) ==
  /\ g \in Heaps
  /\ \A q \in Sides, m \in Cells : m # c => KidOf(g, q, m) = KidOf(h, q, m)
  /\ \A m \in Cells : m # c => ParentOf(g, m) = ParentOf(h, m)
  /\ \A m : RedIn(g, m) <=> RedIn(h, m)
  /\ RootOf(g) = RootOf(h)

\* Clearing a node.
LEMMA ClearFacts ==
  ASSUME NEW h \in Heaps, NEW c \in Cells
  PROVE  Cleared(h, NodeInit(h, c), c)
<1>1. NULL \in Ptrs
  BY DEF Ptrs
<1>2. PICK g : g = WithKids(h, c, NULL, NULL)
  OBVIOUS
<1>3. KidsSet(h, g, c, NULL, NULL)
  BY <1>1, <1>2, SetKids
<1>4. PICK g2 : g2 = WithParent(g, c, NULL)
  OBVIOUS
<1>5. ParentSet(g, g2, c, NULL)
  <2>1. g \in Heaps
    BY <1>3 DEF KidsSet
  <2>2. QED
    BY <1>1, <1>4, <2>1, SetParent
<1>6. Cleared(h, g2, c)
  BY <1>3, <1>5 DEF KidsSet, ParentSet, Cleared
<1>7. QED
  BY <1>2, <1>4, <1>6 DEF NodeInit

\* The root n of h is gone in h2, and its only kid x is the root.
Uprooted(h, h2, T, n, x) ==
  /\ RootOf(h2) = x
  /\ \A q \in Sides, m \in T \ {n} : KidOf(h2, q, m) = KidOf(h, q, m)
  /\ \A m \in T \ {n} : ParentOf(h2, m) = ParentOf(h, m)
  /\ \A m : RedIn(h2, m) <=> m # x /\ RedIn(h, m)

\* The writes of rbtree_delete at the root.
LEMMA UprootWrites ==
  ASSUME NEW h \in Heaps, NEW T \in SUBSET Nodes, NEW n \in Nodes, NEW x \in Cells,
         NEW h2, h2 = NodeInit(WithRoot(Paint(h, {}, {x}), x), n)
  PROVE  h2 \in Heaps /\ Uprooted(h, h2, T, n, x)
<1>1. n \in Cells /\ T \subseteq Cells
  BY DEF Cells
<1>2. PICK g1 : g1 = Paint(h, {}, {x})
  OBVIOUS
<1>3. Painted(h, g1, {}, {x})
  BY <1>2, PaintFacts
<1>4. PICK g2 : g2 = WithRoot(g1, x)
  OBVIOUS
<1>5. RootSet(g1, g2, x)
  <2>1. g1 \in Heaps
    BY <1>3 DEF Painted
  <2>2. QED
    BY <1>4, <2>1, SetRoot
<1>6. Cleared(g2, h2, n)
  <2>1. g2 \in Heaps
    BY <1>5 DEF RootSet
  <2>2. h2 = NodeInit(g2, n)
    BY <1>2, <1>4
  <2>3. QED
    BY <1>1, <2>1, <2>2, ClearFacts
<1>7. QED
  BY <1>1, <1>3, <1>5, <1>6 DEF Painted, RootSet, Cleared, Uprooted

\* Without a root that has one kid at most, the tree is a red-black tree still.
LEMMA UprootFacts ==
  ASSUME NEW h, NEW T, NEW D, Tree(h, T, D), NEW n \in T, n = RootOf(h),
         NEW s \in Sides, NEW x, x = KidOf(h, s, n), KidOf(h, Opp(s), n) = Nil,
         NEW h2, Uprooted(h, h2, T, n, x)
  PROVE  /\ Tree(h2, T \ {n}, D)
         /\ \A k : Sorted(h, T, D, k) => Sorted(h2, T \ {n}, D, k)
         /\ \A b : Settled(h, T, b) => Settled(h2, T \ {n}, Blackened(h, b, x))
<1>1. /\ T \subseteq Cells /\ Nil \in Cells /\ Nil \notin T
      /\ \A m \in T, q \in Sides : KidOf(h, q, m) \in Cells
      /\ \A m \in T, q \in Sides : KidOf(h, q, m) # m
  BY KidsAreCells
<1>2. PICK T2 : T2 = T \ {n}
  OBVIOUS
<1>3. x \in T \cup {Nil} /\ D[n] = {n} \cup D[x] \cup D[Nil] /\ n \notin D[x] /\ D[Nil] = {}
      /\ D[n] = T /\ T \subseteq Nodes /\ D \in [Cells -> SUBSET Nodes]
  BY DEF Tree
<1>4. x \in T2 \cup {Nil} /\ D[x] = T2
  BY <1>1, <1>2, <1>3
<1>5. /\ RootOf(h2) = x
      /\ \A q \in Sides, m \in T2 : KidOf(h2, q, m) = KidOf(h, q, m)
      /\ \A m \in T2 : ParentOf(h2, m) = ParentOf(h, m)
      /\ \A m : RedIn(h2, m) <=> m # x /\ RedIn(h, m)
  BY <1>2 DEF Uprooted
<1>6. \A m \in T, q \in Sides : KidOf(h, q, m) # n /\ (KidOf(h, q, m) = x /\ x # Nil => m = n)
  BY <1>1, <1>3, OneLink
<1>7. Tree(h2, T2, D)
  <2>1. ASSUME NEW m \in T2, NEW q \in Sides
        PROVE  /\ KidOf(h2, q, m) \in T2 \cup {Nil}
               /\ KidOf(h2, q, m) # Nil => ParentOf(h2, KidOf(h2, q, m)) = m
               /\ D[m] = {m} \cup D[KidOf(h2, q, m)] \cup D[KidOf(h2, Opp(q), m)]
               /\ D[KidOf(h2, q, m)] \cap D[KidOf(h2, Opp(q), m)] = {}
               /\ m \notin D[KidOf(h2, q, m)]
    <3>1. KidOf(h2, q, m) = KidOf(h, q, m) /\ KidOf(h2, Opp(q), m) = KidOf(h, Opp(q), m)
      BY <1>5, OppSides
    <3>2. KidOf(h, q, m) \in T2 \cup {Nil}
      BY <1>2, <1>6 DEF Tree
    <3>3. KidOf(h, q, m) # Nil => ParentOf(h2, KidOf(h, q, m)) = m
      BY <1>2, <1>5, <3>2 DEF Tree
    <3>4. QED
      BY <1>2, <3>1, <3>2, <3>3 DEF Tree
  <2>2. QED
    BY <1>2, <1>3, <1>4, <1>5, <2>1 DEF Tree
<1>8. ASSUME NEW k, Sorted(h, T, D, k) PROVE Sorted(h2, T2, D, k)
  BY <1>2, <1>5, <1>8 DEF Sorted
<1>9. ASSUME NEW b, Settled(h, T, b) PROVE Settled(h2, T2, Blackened(h, b, x))
  <2>1. PICK b2 : b2 = Blackened(h, b, x)
    OBVIOUS
  <2>2. /\ b \in [Cells -> Nat] /\ b[Nil] = 0 /\ ~RedIn(h, Nil)
        /\ \A m \in T, q \in Sides : b[m] = b[KidOf(h, q, m)] + WeightIn(h, m)
        /\ \A m \in T, q \in Sides : ~RedPair(h, T, m, q)
    BY <1>9, PlainCounted DEF Settled
  <2>3. /\ b2 \in [Cells -> Nat]
        /\ b2[x] = b[x] + (IF RedIn(h, x) THEN 1 ELSE 0)
        /\ \A c \in Cells \ {x} : b2[c] = b[c]
    <3>1. x \in Cells /\ b[x] \in Nat
      BY <1>1, <1>3, <2>2
    <3>2. CASE RedIn(h, x)
      BY <2>1, <2>2, <3>1, <3>2 DEF Blackened
    <3>3. CASE ~RedIn(h, x)
      BY <2>1, <2>2, <3>1, <3>3 DEF Blackened
    <3>4. QED
      BY <3>2, <3>3
  <2>4. /\ \A m : m # x => WeightIn(h2, m) = WeightIn(h, m)
        /\ WeightIn(h2, x) = WeightIn(h, x) + (IF RedIn(h, x) THEN 1 ELSE 0)
    BY <1>5 DEF WeightIn
  <2>5. ASSUME NEW m \in T2, NEW q \in Sides
        PROVE  b2[m] = b2[KidOf(h2, q, m)] + WeightIn(h2, m)
    <3>1. PICK c \in Cells : c = KidOf(h, q, m)
      BY <1>1, <1>2
    <3>2. KidOf(h2, q, m) = c /\ m \in T /\ c # m /\ m \in Cells
      BY <1>1, <1>2, <1>5, <3>1
    <3>3. b[m] = b[c] + WeightIn(h, m) /\ b[c] \in Nat /\ WeightIn(h, m) \in Nat
      BY <2>2, <3>1, <3>2 DEF WeightIn
    <3>4. b2[c] = b[c]
      <4>1. CASE c # x
        BY <2>3, <4>1
      <4>2. CASE c = x
        <5>1. x = Nil
          BY <1>2, <1>6, <3>1, <3>2, <4>2
        <5>2. QED
          BY <2>2, <2>3, <4>2, <5>1
      <4>3. QED
        BY <4>1, <4>2
    <3>5. QED
      BY <2>3, <2>4, <3>2, <3>3, <3>4
  <2>6. b2[Nil] = 0 /\ ~RedIn(h2, Nil)
    BY <1>1, <1>5, <2>2, <2>3
  <2>7. Counted(h2, T2, b2, <<>>)
    BY <1>7, <2>3, <2>5, <2>6, PlainCounted
  <2>8. ASSUME NEW m \in T2, NEW q \in Sides, RedPair(h2, T2, m, q) PROVE FALSE
    <3>1. RedPair(h, T, m, q)
      BY <1>2, <1>5, <2>8 DEF RedPair
    <3>2. QED
      BY <1>2, <2>2, <3>1
  <2>9. ~RedIn(h2, RootOf(h2))
    BY <1>5
  <2>10. QED
    BY <2>1, <2>7, <2>8, <2>9 DEF Settled
<1>10. \A k : Sorted(h, T, D, k) => Sorted(h2, T2, D, k)
  BY <1>8
<1>11. \A b : Settled(h, T, b) => Settled(h2, T2, Blackened(h, b, x))
  BY <1>9
<1>12. QED
  BY <1>2, <1>7, <1>10, <1>11

\* Node y of h is cut out in h2, and its only kid x is where y was, on side s of p.
CutOut(h, h2, T, y, x, p, s) ==
  /\ RootOf(h2) = RootOf(h)
  /\ \A q \in Sides, m \in T \ {y} : KidOf(h2, q, m) = IF m = p /\ q = s THEN x ELSE KidOf(h, q, m)
  /\ \A m \in (T \cup {Nil}) \ {y} : ParentOf(h2, m) = IF m = x THEN p ELSE ParentOf(h, m)
  /\ \A m : RedIn(h2, m) <=> RedIn(h, m)

\* Side s of p is where y hangs, which has no kid but x, on side e.
Removable(h, T, y, x, p, s, e) ==
  /\ y \in T /\ y # RootOf(h)
  /\ p = ParentOf(h, y)
  /\ s \in Sides /\ KidOf(h, s, p) = y
  /\ e \in Sides /\ x = KidOf(h, e, y) /\ KidOf(h, Opp(e), y) = Nil

Without(D, y) == [c \in Cells |-> D[c] \ {y}]

\* Where a removable node is.
LEMMA RemovableFacts ==
  ASSUME NEW h, NEW T, NEW D, Tree(h, T, D), NEW y, NEW x, NEW p, NEW s, NEW e,
         Removable(h, T, y, x, p, s, e)
  PROVE  /\ y \in T /\ y # RootOf(h) /\ s \in Sides /\ e \in Sides
         /\ p \in T /\ p # y /\ KidOf(h, s, p) = y
         /\ x \in T \cup {Nil} /\ x # y /\ x # p /\ KidOf(h, e, y) = x
         /\ D[y] = {y} \cup D[x] /\ y \notin D[x]
         /\ \A m \in T, q \in Sides : KidOf(h, q, m) = y => m = p /\ q = s
         /\ \A m \in T, q \in Sides : KidOf(h, q, m) = x /\ x # Nil => m = y
         /\ RootOf(h) \in T \ {y} /\ RootOf(h) # x
<1>1. /\ y \in T /\ y # RootOf(h) /\ p = ParentOf(h, y) /\ s \in Sides /\ e \in Sides
      /\ KidOf(h, s, p) = y /\ x = KidOf(h, e, y) /\ KidOf(h, Opp(e), y) = Nil
  BY DEF Removable
<1>2. p \in T /\ RootOf(h) \in T
  BY <1>1, ParentsInTree
<1>3. /\ Nil \notin T
      /\ \A m \in T, q \in Sides : KidOf(h, q, m) # m
  BY KidsAreCells
<1>4. x \in T \cup {Nil} /\ D[y] = {y} \cup D[x] \cup D[Nil] /\ y \notin D[x] /\ D[Nil] = {}
  BY <1>1 DEF Tree
<1>5. x # p
  <2>1. D[x] \subseteq D[y] /\ D[y] \subseteq D[p] /\ D[y] # D[p]
    BY <1>1, <1>2, KidsBelow
  <2>2. QED
    BY <2>1
<1>6. \A m \in T, q \in Sides : KidOf(h, q, m) = y => m = p /\ q = s
  BY <1>1, <1>2, <1>3, OneLink
<1>7. \A m \in T, q \in Sides : KidOf(h, q, m) = x /\ x # Nil => m = y
  BY <1>1, <1>3, OneLink
<1>8. RootOf(h) # x
  <2>1. x # Nil => x # RootOf(h)
    BY <1>1, OneLink
  <2>2. QED
    BY <1>2, <1>3, <2>1
<1>9. QED
  BY <1>1, <1>2, <1>3, <1>4, <1>5, <1>6, <1>7, <1>8

\* Without y the tree is a search tree still.
LEMMA CutTree ==
  ASSUME NEW h, NEW T, NEW D, Tree(h, T, D), NEW y, NEW x, NEW p, NEW s, NEW e,
         Removable(h, T, y, x, p, s, e), NEW h2, CutOut(h, h2, T, y, x, p, s)
  PROVE  /\ Tree(h2, T \ {y}, Without(D, y))
         /\ \A k : Sorted(h, T, D, k) => Sorted(h2, T \ {y}, Without(D, y), k)
<1>1. /\ y \in T /\ y # RootOf(h) /\ s \in Sides /\ e \in Sides
      /\ p \in T /\ p # y /\ KidOf(h, s, p) = y
      /\ x \in T \cup {Nil} /\ x # y /\ x # p /\ KidOf(h, e, y) = x
      /\ D[y] = {y} \cup D[x] /\ y \notin D[x]
      /\ \A m \in T, q \in Sides : KidOf(h, q, m) = y => m = p /\ q = s
      /\ \A m \in T, q \in Sides : KidOf(h, q, m) = x /\ x # Nil => m = y
      /\ RootOf(h) \in T \ {y}
  BY RemovableFacts
<1>2. /\ T \subseteq Cells /\ Nil \in Cells /\ Nil \notin T
      /\ \A m \in T, q \in Sides : KidOf(h, q, m) \in Cells
  BY KidsAreCells
<1>3. T \subseteq Nodes /\ D \in [Cells -> SUBSET Nodes] /\ D[Nil] = {} /\ D[RootOf(h)] = T
  BY DEF Tree
<1>4. PICK D2 : D2 = Without(D, y)
  OBVIOUS
<1>5. PICK T2 : T2 = T \ {y}
  OBVIOUS
<1>6. D2 \in [Cells -> SUBSET Nodes] /\ \A c \in Cells : D2[c] = D[c] \ {y}
  BY <1>3, <1>4 DEF Without
<1>7. /\ RootOf(h2) = RootOf(h)
      /\ \A q \in Sides, m \in T2 : KidOf(h2, q, m) = IF m = p /\ q = s THEN x ELSE KidOf(h, q, m)
      /\ \A m \in T2 \cup {Nil} : ParentOf(h2, m) = IF m = x THEN p ELSE ParentOf(h, m)
  <2>1. T2 \cup {Nil} = (T \cup {Nil}) \ {y}
    BY <1>1, <1>2, <1>5
  <2>2. QED
    BY <1>5, <2>1 DEF CutOut
<1>8. \A m \in T2, q \in Sides :
        /\ KidOf(h2, q, m) \in T2 \cup {Nil}
        /\ D2[KidOf(h2, q, m)] = D[KidOf(h, q, m)] \ {y}
  <2>1. ASSUME NEW m \in T2, NEW q \in Sides
        PROVE  /\ KidOf(h2, q, m) \in T2 \cup {Nil}
               /\ D2[KidOf(h2, q, m)] = D[KidOf(h, q, m)] \ {y}
    <3>1. CASE m = p /\ q = s
      <4>1. KidOf(h2, q, m) = x /\ KidOf(h, q, m) = y
        BY <1>1, <1>7, <3>1
      <4>2. x \in T2 \cup {Nil} /\ x \in Cells
        BY <1>1, <1>2, <1>5
      <4>3. D[x] \ {y} = D[y] \ {y}
        BY <1>1
      <4>4. QED
        BY <1>6, <4>1, <4>2, <4>3
    <3>2. CASE ~(m = p /\ q = s)
      <4>1. KidOf(h2, q, m) = KidOf(h, q, m) /\ m \in T
        BY <1>5, <1>7, <3>2
      <4>2. KidOf(h, q, m) \in T \cup {Nil} /\ KidOf(h, q, m) # y
        BY <1>1, <3>2, <4>1 DEF Tree
      <4>3. QED
        BY <1>2, <1>5, <1>6, <4>1, <4>2
    <3>3. QED
      BY <3>1, <3>2
  <2>2. QED
    BY <2>1
<1>9. ASSUME NEW m \in T2, NEW q \in Sides
      PROVE  /\ KidOf(h2, q, m) \in T2 \cup {Nil}
             /\ KidOf(h2, q, m) # Nil => ParentOf(h2, KidOf(h2, q, m)) = m
             /\ D2[m] = {m} \cup D2[KidOf(h2, q, m)] \cup D2[KidOf(h2, Opp(q), m)]
             /\ D2[KidOf(h2, q, m)] \cap D2[KidOf(h2, Opp(q), m)] = {}
             /\ m \notin D2[KidOf(h2, q, m)]
  <2>1. m \in T /\ m # y /\ m \in Cells
    BY <1>2, <1>5
  <2>2. Opp(q) \in Sides
    BY OppSides
  <2>3. /\ D[m] = {m} \cup D[KidOf(h, q, m)] \cup D[KidOf(h, Opp(q), m)]
        /\ D[KidOf(h, q, m)] \cap D[KidOf(h, Opp(q), m)] = {}
        /\ m \notin D[KidOf(h, q, m)]
        /\ KidOf(h, q, m) # Nil => ParentOf(h, KidOf(h, q, m)) = m
    BY <2>1 DEF Tree
  <2>4. /\ D2[m] = D[m] \ {y}
        /\ D2[KidOf(h2, q, m)] = D[KidOf(h, q, m)] \ {y}
        /\ D2[KidOf(h2, Opp(q), m)] = D[KidOf(h, Opp(q), m)] \ {y}
    BY <1>6, <1>8, <2>1, <2>2
  <2>5. KidOf(h2, q, m) # Nil => ParentOf(h2, KidOf(h2, q, m)) = m
    <3>1. CASE m = p /\ q = s
      BY <1>1, <1>5, <1>7, <3>1
    <3>2. CASE ~(m = p /\ q = s)
      <4>1. KidOf(h2, q, m) = KidOf(h, q, m)
        BY <1>7, <3>2
      <4>2. KidOf(h, q, m) # Nil => KidOf(h, q, m) # x
        BY <1>1, <2>1
      <4>3. QED
        BY <1>7, <1>8, <2>3, <4>1, <4>2
    <3>3. QED
      BY <3>1, <3>2
  <2>6. /\ D2[m] = {m} \cup D2[KidOf(h2, q, m)] \cup D2[KidOf(h2, Opp(q), m)]
        /\ D2[KidOf(h2, q, m)] \cap D2[KidOf(h2, Opp(q), m)] = {}
        /\ m \notin D2[KidOf(h2, q, m)]
    BY <2>1, <2>3, <2>4
  <2>7. QED
    BY <1>8, <2>5, <2>6
<1>10. Tree(h2, T2, D2)
  <2>1. D2[Nil] = {} /\ D2[RootOf(h2)] = T2 /\ RootOf(h2) \in T2 \cup {Nil} /\ T2 \subseteq Nodes
    BY <1>1, <1>2, <1>3, <1>5, <1>6, <1>7
  <2>2. QED
    BY <1>6, <1>9, <2>1 DEF Tree
<1>11. \A k : Sorted(h, T, D, k) => Sorted(h2, T2, D2, k)
  BY <1>5, <1>8 DEF Sorted
<1>12. QED
  BY <1>4, <1>5, <1>10, <1>11

\* Without a red node the tree is a red-black tree; without a black one, the kid of it
\* lacks a black node.
LEMMA CutColours ==
  ASSUME NEW h, NEW T, NEW D, Tree(h, T, D), NEW y, NEW x, NEW p, NEW s, NEW e,
         Removable(h, T, y, x, p, s, e), NEW h2, CutOut(h, h2, T, y, x, p, s),
         NEW b, Settled(h, T, b)
  PROVE  /\ RedIn(h, y) => Settled(h2, T \ {y}, b)
         /\ ~RedIn(h, y) => /\ DeleteFixing(h2, T \ {y}, b, x)
                            /\ x # RootOf(h2) /\ SideIn(h2, x) = s /\ ParentOf(h2, x) = p
<1>1. /\ y \in T /\ y # RootOf(h) /\ s \in Sides /\ e \in Sides
      /\ p \in T /\ p # y /\ KidOf(h, s, p) = y
      /\ x \in T \cup {Nil} /\ x # y /\ x # p /\ KidOf(h, e, y) = x
      /\ \A m \in T, q \in Sides : KidOf(h, q, m) = y => m = p /\ q = s
      /\ \A m \in T, q \in Sides : KidOf(h, q, m) = x /\ x # Nil => m = y
      /\ RootOf(h) # x
  BY RemovableFacts
<1>2. /\ T \subseteq Cells /\ Nil \in Cells /\ Nil \notin T
      /\ \A m \in T, q \in Sides : KidOf(h, q, m) \in Cells
  BY KidsAreCells
<1>3. PICK T2 : T2 = T \ {y}
  OBVIOUS
<1>4. /\ b \in [Cells -> Nat] /\ b[Nil] = 0 /\ ~RedIn(h, Nil)
      /\ \A m \in T, q \in Sides : b[m] = b[KidOf(h, q, m)] + WeightIn(h, m)
      /\ ~RedIn(h, RootOf(h))
      /\ \A m \in T, q \in Sides : ~RedPair(h, T, m, q)
  BY PlainCounted DEF Settled
<1>5. /\ RootOf(h2) = RootOf(h)
      /\ \A q \in Sides, m \in T2 : KidOf(h2, q, m) = IF m = p /\ q = s THEN x ELSE KidOf(h, q, m)
      /\ \A m \in T2 \cup {Nil} : ParentOf(h2, m) = IF m = x THEN p ELSE ParentOf(h, m)
      /\ \A m : RedIn(h2, m) <=> RedIn(h, m)
  <2>1. T2 \cup {Nil} = (T \cup {Nil}) \ {y}
    BY <1>1, <1>2, <1>3
  <2>2. QED
    BY <1>3, <2>1 DEF CutOut
<1>6. /\ \A m : WeightIn(h2, m) = WeightIn(h, m)
      /\ \A m : WeightIn(h, m) \in Nat
  BY <1>5 DEF WeightIn
<1>7. b[x] \in Nat /\ b[y] \in Nat /\ b[p] \in Nat /\ b[y] = b[x] + WeightIn(h, y)
  BY <1>1, <1>2, <1>4
<1>8. ~RedIn(h2, RootOf(h2)) /\ x \in T2 \cup {Nil} /\ p \in T2
  BY <1>1, <1>3, <1>4, <1>5
<1>9. \A m \in T2, q \in Sides : RedPair(h2, T2, m, q) => m = p /\ q = s
  <2>1. ASSUME NEW m \in T2, NEW q \in Sides, RedPair(h2, T2, m, q), ~(m = p /\ q = s) PROVE FALSE
    <3>1. RedPair(h, T, m, q)
      BY <1>3, <1>5, <2>1 DEF RedPair
    <3>2. QED
      BY <1>3, <1>4, <3>1
  <2>2. QED
    BY <2>1
<1>10. CASE RedIn(h, y)
  <2>1. b[y] = b[x]
    BY <1>7, <1>10 DEF WeightIn
  <2>2. ASSUME NEW m \in T2, NEW q \in Sides
        PROVE  b[m] = b[KidOf(h2, q, m)] + WeightIn(h2, m)
    BY <1>1, <1>3, <1>4, <1>5, <1>6, <2>1
  <2>3. Counted(h2, T2, b, <<>>)
    <3>1. Tree(h2, T2, Without(D, y))
      BY <1>3, CutTree
    <3>2. ~RedIn(h2, Nil)
      BY <1>4, <1>5
    <3>3. QED
      BY <1>4, <2>2, <3>1, <3>2, PlainCounted
  <2>4. ~RedIn(h2, p)
    <3>1. ~RedPair(h, T, p, s)
      BY <1>1, <1>4
    <3>2. QED
      BY <1>1, <1>5, <1>10, <3>1 DEF RedPair
  <2>5. \A m \in T2, q \in Sides : ~RedPair(h2, T2, m, q)
    BY <1>9, <2>4 DEF RedPair
  <2>6. Settled(h2, T2, b)
    BY <1>8, <2>3, <2>5 DEF Settled
  <2>7. QED
    BY <1>3, <1>10, <2>6
<1>11. CASE ~RedIn(h, y)
  <2>1. b[y] = b[x] + 1
    BY <1>7, <1>11 DEF WeightIn
  <2>2. KidOf(h2, s, p) = x /\ ParentOf(h2, x) = p
    BY <1>1, <1>5, <1>8
  <2>3. SideIn(h2, x) = s
    <3>1. PICK o : o = Opp(s)
      OBVIOUS
    <3>2. o \in Sides /\ o # s /\ Sides = {s, o} /\ "left" \in Sides /\ "right" \in Sides
      BY <1>1, <3>1, OppSides DEF Sides
    <3>3. KidOf(h2, o, p) # x
      <4>1. PICK c \in Cells : c = KidOf(h, o, p)
        BY <1>1, <1>2, <3>2
      <4>2. b[p] = b[y] + WeightIn(h, p) /\ b[p] = b[c] + WeightIn(h, p) /\ b[c] \in Nat
        BY <1>1, <1>4, <3>2, <4>1
      <4>3. c # x
        BY <1>6, <1>7, <2>1, <4>2
      <4>4. KidOf(h2, o, p) = c
        BY <1>5, <1>8, <3>2, <4>1
      <4>5. QED
        BY <4>3, <4>4
    <3>4. QED
      BY <2>2, <3>2, <3>3 DEF SideIn
  <2>4. PICK l : l = <<s, p>>
    OBVIOUS
  <2>5. \A q, m : Extra(l, q, m) = IF q = s /\ m = p THEN 1 ELSE 0
    BY <2>4 DEF Extra
  <2>6. ASSUME NEW m \in T2, NEW q \in Sides
        PROVE  b[m] = b[KidOf(h2, q, m)] + WeightIn(h2, m) + Extra(l, q, m)
    <3>1. PICK c \in Cells : c = KidOf(h, q, m)
      BY <1>2, <1>3
    <3>2. b[m] = b[c] + WeightIn(h, m) /\ b[c] \in Nat
      BY <1>3, <1>4, <3>1
    <3>3. CASE m = p /\ q = s
      <4>1. Extra(l, q, m) = 1 /\ KidOf(h2, q, m) = x /\ c = y
        BY <1>1, <1>5, <2>5, <3>1, <3>3
      <4>2. QED
        BY <1>6, <1>7, <2>1, <3>2, <4>1
    <3>4. CASE ~(m = p /\ q = s)
      <4>1. Extra(l, q, m) = 0 /\ KidOf(h2, q, m) = c
        BY <1>5, <2>5, <3>1, <3>4
      <4>2. QED
        BY <1>6, <3>2, <4>1
    <3>5. QED
      BY <3>3, <3>4
  <2>7. Counted(h2, T2, b, l)
    BY <1>4, <1>5, <2>6 DEF Counted
  <2>8. \A m \in T2, q \in Sides : RedPair(h2, T2, m, q) => x \in {m, KidOf(h2, q, m)}
    BY <1>9, <2>2
  <2>9. DeleteFixing(h2, T2, b, x)
    BY <1>1, <1>5, <1>8, <2>2, <2>3, <2>4, <2>7, <2>8 DEF DeleteFixing
  <2>10. x # RootOf(h2)
    BY <1>1, <1>5
  <2>11. QED
    BY <1>3, <1>11, <2>2, <2>3, <2>9, <2>10
<1>12. QED
  BY <1>10, <1>11

\* What c is when y has the place of z.
As(c, z, y) == IF c = z THEN y ELSE c

\* y has the place, the links and the colour that z has in h.
Supplanted(h, h2, T, z, y) ==
  /\ RootOf(h2) = As(RootOf(h), z, y)
  /\ \A q \in Sides, m \in T : KidOf(h2, q, As(m, z, y)) = As(KidOf(h, q, m), z, y)
  /\ \A m \in T \ {z} :
       ParentOf(h2, m) = IF \E q \in Sides : m = KidOf(h, q, z) THEN y ELSE ParentOf(h, m)
  /\ ParentOf(h2, y) = ParentOf(h, z)
  /\ \A m \in T : RedIn(h2, As(m, z, y)) <=> RedIn(h, m)
  /\ RedIn(h2, Nil) <=> RedIn(h, Nil)

\* A set in which y replaces z.
Swapped(S, z, y) == IF z \in S THEN (S \ {z}) \cup {y} ELSE S

Instead(D, z, y) == [c \in Cells |-> IF c = y THEN Swapped(D[z], z, y) ELSE Swapped(D[c], z, y)]

\* Disjoint sets stay disjoint, and members stay members under their new names.
LEMMA SwapFacts ==
  ASSUME NEW z, NEW y
  PROVE  /\ \A A, B : y \notin A /\ y \notin B /\ A \cap B = {}
                      => Swapped(A, z, y) \cap Swapped(B, z, y) = {}
         /\ \A A, m : m # y => (As(m, z, y) \in Swapped(A, z, y) <=> m \in A \/ (m = z /\ y \in A))
<1>1. ASSUME NEW A, NEW B, y \notin A, y \notin B, A \cap B = {}
      PROVE  Swapped(A, z, y) \cap Swapped(B, z, y) = {}
  BY <1>1 DEF Swapped
<1>2. ASSUME NEW A, NEW m, m # y
      PROVE  As(m, z, y) \in Swapped(A, z, y) <=> m \in A \/ (m = z /\ y \in A)
  BY <1>2 DEF Swapped, As
<1>3. QED
  BY <1>1, <1>2

\* The names of the nodes when y, which is not in the tree, has the place of z.
LEMMA RenameFacts ==
  ASSUME NEW h, NEW T, NEW D, Tree(h, T, D), NEW z \in T, NEW y \in Nodes \ T
  PROVE  /\ \A m \in T : As(m, z, y) \in (T \ {z}) \cup {y} /\ As(m, z, y) # Nil
         /\ \A m \in (T \ {z}) \cup {y} : \E j \in T : m = As(j, z, y)
         /\ \A i, j \in T \cup {Nil} : As(i, z, y) = As(j, z, y) <=> i = j
         /\ As(Nil, z, y) = Nil
         /\ \A m \in T \cup {Nil} : As(m, z, y) \in Cells /\ m # y
         /\ \A m \in T \cup {Nil} : y \notin D[m]
         /\ \A m \in T \cup {Nil} : Instead(D, z, y)[As(m, z, y)] = Swapped(D[m], z, y)
<1>1. /\ T \subseteq Cells /\ Nil \in Cells /\ Nil \notin T /\ y \in Cells /\ y # Nil /\ z # Nil /\ z # y
  BY KidsAreCells, RBTreeAssumption DEF Cells
<1>2. \A m \in T \cup {Nil} : y \notin D[m]
  BY SubtreesNest DEF Tree
<1>3. \A m \in T \cup {Nil} : Instead(D, z, y)[As(m, z, y)] = Swapped(D[m], z, y)
  BY <1>1 DEF Instead, As
<1>4. QED
  BY <1>1, <1>2, <1>3 DEF As

\* When one node supplants another, the tree stays a tree.
LEMMA SupplantTree ==
  ASSUME NEW h, NEW T, NEW D, Tree(h, T, D), NEW z \in T, NEW y \in Nodes \ T,
         NEW h2, Supplanted(h, h2, T, z, y)
  PROVE  Tree(h2, (T \ {z}) \cup {y}, Instead(D, z, y))
<1>1. PICK D2 : D2 = Instead(D, z, y)
  OBVIOUS
<1>2. PICK T2 : T2 = (T \ {z}) \cup {y}
  OBVIOUS
<1>3. /\ \A m \in T : As(m, z, y) \in T2 /\ As(m, z, y) # Nil
      /\ \A m \in T2 : \E j \in T : m = As(j, z, y)
      /\ \A i, j \in T \cup {Nil} : As(i, z, y) = As(j, z, y) <=> i = j
      /\ As(Nil, z, y) = Nil
      /\ \A m \in T \cup {Nil} : y \notin D[m] /\ m # y
      /\ \A m \in T \cup {Nil} : D2[As(m, z, y)] = Swapped(D[m], z, y)
  BY <1>1, <1>2, RenameFacts
<1>4. /\ T \subseteq Cells /\ Nil \in Cells /\ Nil \notin T
      /\ \A m \in T, q \in Sides : KidOf(h, q, m) # m
  BY KidsAreCells
<1>5. /\ T \subseteq Nodes /\ D \in [Cells -> SUBSET Nodes] /\ D[Nil] = {}
      /\ D[RootOf(h)] = T /\ RootOf(h) \in T \cup {Nil}
  BY DEF Tree
<1>6. D2 \in [Cells -> SUBSET Nodes]
  <2>1. \A c \in Cells : Swapped(D[c], z, y) \in SUBSET Nodes
    BY <1>5 DEF Swapped
  <2>2. \A c \in Cells : (IF c = y THEN Swapped(D[z], z, y) ELSE Swapped(D[c], z, y)) \in SUBSET Nodes
    BY <1>4, <2>1
  <2>3. QED
    BY <1>1, <2>2 DEF Instead
<1>7. \A m \in T, q \in Sides : KidOf(h2, q, As(m, z, y)) = As(KidOf(h, q, m), z, y)
  BY DEF Supplanted
<1>8. \A m \in T, q \in Sides : KidOf(h, q, m) \in T \cup {Nil} /\ KidOf(h, Opp(q), m) \in T \cup {Nil} /\ Opp(q) \in Sides
  BY OppSides DEF Tree
<1>9. ASSUME NEW m \in T, NEW q \in Sides, KidOf(h, q, m) # Nil
      PROVE  ParentOf(h2, As(KidOf(h, q, m), z, y)) = As(m, z, y)
  <2>1. PICK c : c = KidOf(h, q, m)
    OBVIOUS
  <2>2. c \in T /\ ParentOf(h, c) = m
    BY <1>9, <2>1 DEF Tree
  <2>3. CASE c = z
    <3>1. m # z
      BY <1>4, <2>1, <2>3
    <3>2. ParentOf(h2, y) = m
      BY <2>2, <2>3 DEF Supplanted
    <3>3. QED
      BY <2>1, <2>3, <3>1, <3>2 DEF As
  <2>4. CASE c # z /\ m = z
    <3>1. ParentOf(h2, c) = y
      BY <2>1, <2>2, <2>4 DEF Supplanted
    <3>2. QED
      BY <2>1, <2>4, <3>1 DEF As
  <2>5. CASE c # z /\ m # z
    <3>1. ~\E r \in Sides : c = KidOf(h, r, z)
      BY <1>9, <2>1, <2>5, OneLink
    <3>2. ParentOf(h2, c) = m
      BY <2>2, <2>5, <3>1 DEF Supplanted
    <3>3. QED
      BY <2>1, <2>5, <3>2 DEF As
  <2>6. QED
    BY <2>3, <2>4, <2>5
<1>10. ASSUME NEW m \in T, NEW q \in Sides
       PROVE  /\ KidOf(h2, q, As(m, z, y)) \in T2 \cup {Nil}
              /\ KidOf(h2, q, As(m, z, y)) # Nil
                   => ParentOf(h2, KidOf(h2, q, As(m, z, y))) = As(m, z, y)
              /\ D2[As(m, z, y)] = {As(m, z, y)} \cup D2[KidOf(h2, q, As(m, z, y))]
                                     \cup D2[KidOf(h2, Opp(q), As(m, z, y))]
              /\ D2[KidOf(h2, q, As(m, z, y))] \cap D2[KidOf(h2, Opp(q), As(m, z, y))] = {}
              /\ As(m, z, y) \notin D2[KidOf(h2, q, As(m, z, y))]
  <2>1. PICK c : c = KidOf(h, q, m)
    OBVIOUS
  <2>2. PICK d : d = KidOf(h, Opp(q), m)
    OBVIOUS
  <2>3. /\ c \in T \cup {Nil} /\ d \in T \cup {Nil}
        /\ D[m] = {m} \cup D[c] \cup D[d] /\ D[c] \cap D[d] = {} /\ m \notin D[c]
    BY <1>8, <2>1, <2>2 DEF Tree
  <2>4. PICK n : n = As(m, z, y)
    OBVIOUS
  <2>5. PICK i : i = As(c, z, y)
    OBVIOUS
  <2>6. PICK j : j = As(d, z, y)
    OBVIOUS
  <2>7. KidOf(h2, q, n) = i /\ KidOf(h2, Opp(q), n) = j
    BY <1>7, <1>8, <2>1, <2>2, <2>4, <2>5, <2>6
  <2>8. i \in T2 \cup {Nil} /\ (i # Nil => c # Nil)
    BY <1>3, <2>3, <2>5
  <2>9. i # Nil => ParentOf(h2, i) = n
    BY <1>9, <2>1, <2>4, <2>5, <2>8
  <2>10. /\ D2[n] = Swapped(D[m], z, y)
         /\ D2[i] = Swapped(D[c], z, y)
         /\ D2[j] = Swapped(D[d], z, y)
         /\ y \notin D[m] /\ y \notin D[c] /\ y \notin D[d] /\ m # y
    BY <1>3, <2>3, <2>4, <2>5, <2>6
  <2>11. Swapped(D[m], z, y) = {n} \cup Swapped(D[c], z, y) \cup Swapped(D[d], z, y)
    <3>1. PICK A : A = D[m]
      OBVIOUS
    <3>2. PICK B : B = D[c]
      OBVIOUS
    <3>3. PICK C : C = D[d]
      OBVIOUS
    <3>4. A = {m} \cup B \cup C /\ y \notin A
      BY <2>3, <2>10, <3>1, <3>2, <3>3
    <3>5. Swapped(A, z, y) = {n} \cup Swapped(B, z, y) \cup Swapped(C, z, y)
      BY <2>4, <3>4 DEF Swapped, As
    <3>6. QED
      BY <3>1, <3>2, <3>3, <3>5
  <2>12. Swapped(D[c], z, y) \cap Swapped(D[d], z, y) = {}
    BY <2>3, <2>10, SwapFacts
  <2>13. n \notin Swapped(D[c], z, y)
    BY <2>3, <2>4, <2>10, SwapFacts
  <2>14. /\ i \in T2 \cup {Nil}
         /\ i # Nil => ParentOf(h2, i) = n
         /\ D2[n] = {n} \cup D2[i] \cup D2[j]
         /\ D2[i] \cap D2[j] = {}
         /\ n \notin D2[i]
    BY <2>8, <2>9, <2>10, <2>11, <2>12, <2>13
  <2>15. QED
    BY <2>4, <2>7, <2>14
<1>11. \A n \in T2, q \in Sides :
         /\ KidOf(h2, q, n) \in T2 \cup {Nil}
         /\ KidOf(h2, q, n) # Nil => ParentOf(h2, KidOf(h2, q, n)) = n
         /\ D2[n] = {n} \cup D2[KidOf(h2, q, n)] \cup D2[KidOf(h2, Opp(q), n)]
         /\ D2[KidOf(h2, q, n)] \cap D2[KidOf(h2, Opp(q), n)] = {}
         /\ n \notin D2[KidOf(h2, q, n)]
  BY <1>3, <1>10
<1>12. D2[Nil] = {}
  BY <1>3, <1>5 DEF Swapped
<1>13. D2[RootOf(h2)] = T2 /\ RootOf(h2) \in T2 \cup {Nil}
  <2>1. RootOf(h2) = As(RootOf(h), z, y)
    BY DEF Supplanted
  <2>2. D2[RootOf(h2)] = Swapped(T, z, y)
    BY <1>3, <1>5, <2>1
  <2>3. Swapped(T, z, y) = T2
    BY <1>2 DEF Swapped
  <2>4. QED
    BY <1>3, <1>5, <2>1, <2>2, <2>3
<1>14. T2 \subseteq Nodes
  BY <1>2, <1>5
<1>15. Tree(h2, T2, D2)
  BY <1>6, <1>11, <1>12, <1>13, <1>14 DEF Tree
<1>16. QED
  BY <1>1, <1>2, <1>15

\* A node whose key is between its neighbours' may supplant another.
LEMMA SupplantSorted ==
  ASSUME NEW h, NEW T, NEW D, Tree(h, T, D), NEW z \in T, NEW y \in Nodes \ T,
         NEW h2, Supplanted(h, h2, T, z, y),
         NEW k, Sorted(h, T, D, k),
         \A q \in Sides : \A m \in D[KidOf(h, q, z)] : Before(q, k[m], k[y]),
         \A m \in T, q \in Sides : z \in D[KidOf(h, q, m)] => Before(q, k[y], k[m])
  PROVE  Sorted(h2, (T \ {z}) \cup {y}, Instead(D, z, y), k)
<1>1. PICK D2 : D2 = Instead(D, z, y)
  OBVIOUS
<1>2. PICK T2 : T2 = (T \ {z}) \cup {y}
  OBVIOUS
<1>3. /\ \A m \in T2 : \E j \in T : m = As(j, z, y)
      /\ \A m \in T \cup {Nil} : D2[As(m, z, y)] = Swapped(D[m], z, y)
  BY <1>1, <1>2, RenameFacts
<1>4. ASSUME NEW n \in T2, NEW q \in Sides, NEW m \in D2[KidOf(h2, q, n)]
      PROVE  Before(q, k[m], k[n])
  <2>1. PICK i \in T : n = As(i, z, y)
    BY <1>3
  <2>2. PICK c : c = KidOf(h, q, i)
    OBVIOUS
  <2>3. KidOf(h2, q, n) = As(c, z, y)
    BY <2>1, <2>2 DEF Supplanted
  <2>4. c \in T \cup {Nil} /\ i \notin D[c]
    BY <2>2 DEF Tree
  <2>5. m \in Swapped(D[c], z, y)
    BY <1>3, <1>4, <2>3, <2>4
  <2>6. PICK j \in D[c] : m = As(j, z, y)
    BY <2>5 DEF Swapped, As
  <2>7. Before(q, k[j], k[i])
    BY <2>2, <2>6 DEF Sorted
  <2>8. CASE j = z
    <3>1. i # z
      BY <2>4, <2>6, <2>8
    <3>2. Before(q, k[y], k[i])
      BY <2>2, <2>6, <2>8
    <3>3. QED
      BY <2>1, <2>6, <2>8, <3>1, <3>2 DEF As
  <2>9. CASE j # z /\ i = z
    <3>1. Before(q, k[j], k[y])
      BY <2>2, <2>6, <2>9
    <3>2. QED
      BY <2>1, <2>6, <2>9, <3>1 DEF As
  <2>10. CASE j # z /\ i # z
    BY <2>1, <2>6, <2>7, <2>10 DEF As
  <2>11. QED
    BY <2>8, <2>9, <2>10
<1>5. Sorted(h2, T2, D2, k)
  BY <1>4 DEF Sorted
<1>6. QED
  BY <1>1, <1>2, <1>5

\* The numbers when y has the place of z.
Renumbered(b, z, y) == [b EXCEPT ![y] = b[z]]

\* A count carries over, and with it a link that counts one.
LEMMA SupplantCounted ==
  ASSUME NEW h, NEW T, NEW D, Tree(h, T, D), NEW z \in T, NEW y \in Nodes \ T,
         NEW h2, Supplanted(h, h2, T, z, y), NEW b, NEW l, NEW l2, Counted(h, T, b, l),
         \A q \in Sides, m \in T : Extra(l2, q, As(m, z, y)) = Extra(l, q, m)
  PROVE  Counted(h2, (T \ {z}) \cup {y}, Renumbered(b, z, y), l2)
<1>1. PICK b2 : b2 = Renumbered(b, z, y)
  OBVIOUS
<1>2. PICK T2 : T2 = (T \ {z}) \cup {y}
  OBVIOUS
<1>3. /\ \A m \in T2 : \E j \in T : m = As(j, z, y)
      /\ As(Nil, z, y) = Nil
      /\ \A m \in T \cup {Nil} : As(m, z, y) \in Cells /\ m # y
  BY <1>2, RenameFacts
<1>4. /\ b \in [Cells -> Nat] /\ b[Nil] = 0 /\ ~RedIn(h, Nil)
      /\ \A n \in T, q \in Sides : /\ b[KidOf(h, q, n)] \in Nat
                                   /\ b[n] = b[KidOf(h, q, n)] + WeightIn(h, n) + Extra(l, q, n)
  BY CountedFacts
<1>5. /\ T \subseteq Cells /\ Nil \in Cells /\ Nil \notin T
      /\ \A n \in T, q \in Sides : KidOf(h, q, n) \in T \cup {Nil}
  BY KidsAreCells DEF Tree
<1>6. y \in Cells /\ y # Nil
  BY <1>3, <1>5 DEF Cells
<1>7. b2 \in [Cells -> Nat] /\ \A m \in T \cup {Nil} : b2[As(m, z, y)] = b[m]
  <2>1. b[z] \in Nat
    BY <1>4, <1>5
  <2>2. b2 \in [Cells -> Nat] /\ b2[y] = b[z] /\ \A c \in Cells \ {y} : b2[c] = b[c]
    BY <1>1, <1>4, <1>6, <2>1 DEF Renumbered
  <2>3. QED
    BY <1>3, <1>5, <2>2 DEF As
<1>8. \A m \in T : WeightIn(h2, As(m, z, y)) = WeightIn(h, m)
  BY DEF WeightIn, Supplanted
<1>9. ASSUME NEW n \in T2, NEW q \in Sides
      PROVE  b2[n] = b2[KidOf(h2, q, n)] + WeightIn(h2, n) + Extra(l2, q, n)
  <2>1. PICK m \in T : n = As(m, z, y)
    BY <1>3
  <2>2. PICK c \in T \cup {Nil} : c = KidOf(h, q, m)
    BY <1>5
  <2>3. KidOf(h2, q, n) = As(c, z, y)
    BY <2>1, <2>2 DEF Supplanted
  <2>4. b2[n] = b[m] /\ b2[KidOf(h2, q, n)] = b[c]
    BY <1>7, <2>1, <2>3
  <2>5. QED
    BY <1>4, <1>8, <2>1, <2>2, <2>4
<1>10. b2[Nil] = 0 /\ ~RedIn(h2, Nil)
  <2>1. b2[Nil] = b[Nil]
    BY <1>3, <1>7
  <2>2. QED
    BY <1>4, <2>1 DEF Supplanted
<1>11. Counted(h2, T2, b2, l2)
  BY <1>7, <1>9, <1>10 DEF Counted
<1>12. QED
  BY <1>1, <1>2, <1>11

\* The colours carry over.
LEMMA SupplantColours ==
  ASSUME NEW h, NEW T, NEW D, Tree(h, T, D), NEW z \in T, NEW y \in Nodes \ T,
         NEW h2, Supplanted(h, h2, T, z, y), NEW b
  PROVE  /\ Settled(h, T, b) => Settled(h2, (T \ {z}) \cup {y}, Renumbered(b, z, y))
         /\ \A x : /\ DeleteFixing(h, T, b, x)
                   /\ x # RootOf(h) /\ x # z
                   /\ ParentOf(h2, x) = As(ParentOf(h, x), z, y)
                   => DeleteFixing(h2, (T \ {z}) \cup {y}, Renumbered(b, z, y), x)
<1>1. PICK b2 : b2 = Renumbered(b, z, y)
  OBVIOUS
<1>2. PICK T2 : T2 = (T \ {z}) \cup {y}
  OBVIOUS
<1>3. /\ \A m \in T : As(m, z, y) \in T2
      /\ \A m \in T2 : \E j \in T : m = As(j, z, y)
      /\ \A i, j \in T \cup {Nil} : As(i, z, y) = As(j, z, y) <=> i = j
      /\ As(Nil, z, y) = Nil
      /\ \A m \in T \cup {Nil} : m # y
  BY <1>2, RenameFacts
<1>4. /\ RootOf(h2) = As(RootOf(h), z, y)
      /\ \A q \in Sides, m \in T : KidOf(h2, q, As(m, z, y)) = As(KidOf(h, q, m), z, y)
      /\ \A m \in T \cup {Nil} : RedIn(h2, As(m, z, y)) <=> RedIn(h, m)
  BY <1>3 DEF Supplanted
<1>5. RootOf(h) \in T \cup {Nil} /\ \A q \in Sides, m \in T : KidOf(h, q, m) \in T \cup {Nil}
  BY DEF Tree
<1>6. \A m \in T, q \in Sides : RedPair(h2, T2, As(m, z, y), q) => RedPair(h, T, m, q)
  BY <1>3, <1>4, <1>5 DEF RedPair
<1>7. RedIn(h2, RootOf(h2)) <=> RedIn(h, RootOf(h))
  BY <1>4, <1>5
<1>8. ASSUME Settled(h, T, b) PROVE Settled(h2, T2, b2)
  <2>1. Counted(h, T, b, <<>>) /\ ~RedIn(h, RootOf(h)) /\ \A n \in T, s \in Sides : ~RedPair(h, T, n, s)
    BY <1>8 DEF Settled
  <2>2. \A q, m : Extra(<<>>, q, m) = 0
    BY NoExtra
  <2>3. Counted(h2, T2, b2, <<>>)
    BY <1>1, <1>2, <2>1, <2>2, SupplantCounted
  <2>4. \A n \in T2, s \in Sides : ~RedPair(h2, T2, n, s)
    BY <1>3, <1>6, <2>1
  <2>5. QED
    BY <1>7, <2>1, <2>3, <2>4 DEF Settled
<1>9. ASSUME NEW x, DeleteFixing(h, T, b, x), x # RootOf(h), x # z,
             ParentOf(h2, x) = As(ParentOf(h, x), z, y)
      PROVE  DeleteFixing(h2, T2, b2, x)
  <2>p. PICK p : p = ParentOf(h, x)
    OBVIOUS
  <2>s. PICK s : s = SideIn(h, x)
    OBVIOUS
  <2>l. PICK l : l = <<s, p>>
    OBVIOUS
  <2>1. /\ x \in T \cup {Nil}
        /\ RedIn(h, RootOf(h)) => RootOf(h) = x
        /\ \A n \in T, q \in Sides : RedPair(h, T, n, q) => x \in {n, KidOf(h, q, n)}
        /\ p \in T /\ KidOf(h, s, p) = x /\ Counted(h, T, b, l)
    BY <1>9, <2>p, <2>s, <2>l DEF DeleteFixing
  <2>2. s \in Sides
    BY <2>s DEF SideIn, Sides
  <2>3. As(x, z, y) = x /\ x # y
    BY <1>3, <1>9, <2>1 DEF As
  <2>4. PICK p2 : p2 = As(p, z, y)
    OBVIOUS
  <2>5. p2 \in T2 /\ KidOf(h2, s, p2) = x /\ ParentOf(h2, x) = p2
    BY <1>3, <1>4, <1>9, <2>p, <2>1, <2>2, <2>3, <2>4
  <2>6. SideIn(h2, x) = s
    <3>1. "left" \in Sides
      BY DEF Sides
    <3>2. KidOf(h2, "left", p2) = x <=> KidOf(h, "left", p) = x
      BY <1>3, <1>4, <1>5, <2>1, <2>3, <2>4, <3>1
    <3>3. QED
      BY <2>p, <2>s, <2>5, <3>2 DEF SideIn
  <2>7. PICK l2 : l2 = <<s, p2>>
    OBVIOUS
  <2>8. \A q \in Sides, m \in T : Extra(l2, q, As(m, z, y)) = Extra(l, q, m)
    <3>1. \A q, m : Extra(l, q, m) = IF q = s /\ m = p THEN 1 ELSE 0
      BY <2>l DEF Extra
    <3>2. \A q, m : Extra(l2, q, m) = IF q = s /\ m = p2 THEN 1 ELSE 0
      BY <2>7 DEF Extra
    <3>3. \A m \in T : As(m, z, y) = p2 <=> m = p
      BY <1>3, <2>1, <2>4
    <3>4. QED
      BY <3>1, <3>2, <3>3
  <2>9. Counted(h2, T2, b2, l2)
    BY <1>1, <1>2, <2>1, <2>8, SupplantCounted
  <2>10. x # RootOf(h2)
    BY <1>3, <1>4, <1>5, <1>9, <2>1, <2>3
  <2>11. x \in T2 \cup {Nil}
    BY <1>2, <1>9, <2>1
  <2>12. ASSUME NEW n \in T2, NEW q \in Sides, RedPair(h2, T2, n, q)
         PROVE  x \in {n, KidOf(h2, q, n)}
    <3>1. PICK m \in T : n = As(m, z, y)
      BY <1>3
    <3>2. x \in {m, KidOf(h, q, m)}
      BY <1>6, <2>1, <2>12, <3>1
    <3>3. QED
      BY <1>4, <2>3, <3>1, <3>2
  <2>13. ~RedIn(h2, RootOf(h2))
    BY <1>7, <1>9, <2>1
  <2>14. QED
    BY <2>5, <2>6, <2>7, <2>9, <2>10, <2>11, <2>12, <2>13 DEF DeleteFixing
<1>10. QED
  BY <1>1, <1>2, <1>8, <1>9

\* The side that the code finds a node on is the side of its link.
LEMMA SideFacts ==
  ASSUME NEW h, NEW T, NEW D, Tree(h, T, D), NEW m \in T, m # RootOf(h)
  PROVE  /\ SideIn(h, m) \in Sides
         /\ KidOf(h, SideIn(h, m), ParentOf(h, m)) = m
         /\ \A q \in Sides : KidOf(h, q, ParentOf(h, m)) = m => SideIn(h, m) = q
<1>1. /\ ParentOf(h, m) \in T
      /\ \E s \in Sides : KidOf(h, s, ParentOf(h, m)) = m
  BY ParentsInTree
<1>2. m # Nil
  BY KidsAreCells
<1>3. SideIn(h, m) \in Sides /\ KidOf(h, SideIn(h, m), ParentOf(h, m)) = m
  BY <1>1 DEF SideIn, Sides
<1>4. \A q \in Sides : KidOf(h, q, ParentOf(h, m)) = m => SideIn(h, m) = q
  BY <1>1, <1>2, <1>3, OneLink
<1>5. QED
  BY <1>3, <1>4

\* The first writes of a deletion cut the node out.
LEMMA CutWrites ==
  ASSUME NEW h \in Heaps, NEW T, NEW D, Tree(h, T, D), NEW y, NEW x, NEW p, NEW s, NEW e,
         Removable(h, T, y, x, p, s, e),
         NEW hA, hA = WithParent(WithKid(h, s, p, x), x, p),
         NEW hB, hB = NodeInit(hA, y)
  PROVE  /\ hA \in Heaps /\ CutOut(h, hA, T, y, x, p, s)
         /\ hB \in Heaps /\ CutOut(h, hB, T, y, x, p, s)
<1>1. y \in T /\ s \in Sides /\ p \in T /\ x \in T \cup {Nil}
  BY RemovableFacts
<1>2. T \subseteq Cells /\ Nil \in Cells /\ Nil \notin T
  BY KidsAreCells
<1>3. x \in Cells /\ p \in Cells /\ y \in Cells /\ x \in Ptrs /\ p \in Ptrs
  BY <1>1, <1>2 DEF Ptrs
<1>4. PICK g : g = WithKid(h, s, p, x)
  OBVIOUS
<1>5. KidSet(h, g, s, p, x)
  BY <1>1, <1>3, <1>4, SetKid
<1>6. g \in Heaps
  BY <1>5 DEF KidSet
<1>7. ParentSet(g, hA, x, p)
  BY <1>3, <1>4, <1>6, SetParent
<1>8. hA \in Heaps /\ CutOut(h, hA, T, y, x, p, s)
  BY <1>2, <1>5, <1>7 DEF KidSet, ParentSet, CutOut
<1>9. Cleared(hA, hB, y)
  BY <1>3, <1>8, ClearFacts
<1>10. hB \in Heaps /\ CutOut(h, hB, T, y, x, p, s)
  BY <1>1, <1>2, <1>8, <1>9 DEF Cleared, CutOut
<1>11. QED
  BY <1>8, <1>10

\* A colour is handed on.
LEMMA DyeFacts ==
  ASSUME NEW h \in Heaps, NEW c \in Cells, NEW d \in Cells
  PROVE  /\ Painted(h, Dye(h, c, d), {}, {c}) \/ Painted(h, Dye(h, c, d), {c}, {})
         /\ \A m : RedIn(Dye(h, c, d), m) <=> IF m = c THEN RedIn(h, d) ELSE RedIn(h, m)
<1>1. CASE RedIn(h, d)
  <2>1. Painted(h, Dye(h, c, d), {c}, {})
    BY <1>1, PaintFacts DEF Dye
  <2>2. QED
    BY <1>1, <2>1 DEF Painted
<1>2. CASE ~RedIn(h, d)
  <2>1. Painted(h, Dye(h, c, d), {}, {c})
    BY <1>2, PaintFacts DEF Dye
  <2>2. QED
    BY <1>2, <2>1 DEF Painted
<1>3. QED
  BY <1>1, <1>2

\* The kids of c have it as their parent.
LEMMA ClaimFacts ==
  ASSUME NEW h \in Heaps, NEW c \in Nodes, \A q \in Sides : KidOf(h, q, c) \in Cells,
         NEW g, g = ClaimKids(h, c)
  PROVE  /\ g \in Heaps
         /\ \A q \in Sides, m \in Cells : KidOf(g, q, m) = KidOf(h, q, m)
         /\ \A m \in Cells : ParentOf(g, m) =
              IF m # Nil /\ \E q \in Sides : m = KidOf(h, q, c) THEN c ELSE ParentOf(h, m)
         /\ \A m : RedIn(g, m) <=> RedIn(h, m)
         /\ RootOf(g) = RootOf(h)
<1>1. PICK l : l = KidOf(h, "left", c)
  OBVIOUS
<1>2. PICK r : r = KidOf(h, "right", c)
  OBVIOUS
<1>3. PICK f : f = Adopt(h, l, c)
  OBVIOUS
<1>4. l \in Cells /\ r \in Cells /\ c \in Ptrs
  BY <1>1, <1>2 DEF Sides, Ptrs, Cells
<1>5. ParentSet(h, f, l, IF l = Nil THEN ParentOf(h, Nil) ELSE c)
  BY <1>3, <1>4, AdoptFacts
<1>6. f \in Heaps
  BY <1>5 DEF ParentSet
<1>7. g = Adopt(f, r, c)
  BY <1>1, <1>2, <1>3 DEF ClaimKids
<1>8. ParentSet(f, g, r, IF r = Nil THEN ParentOf(f, Nil) ELSE c)
  BY <1>4, <1>6, <1>7, AdoptFacts
<1>9. \A m : (\E q \in Sides : m = KidOf(h, q, c)) <=> m = l \/ m = r
  BY <1>1, <1>2 DEF Sides
<1>10. \A m \in Cells : ParentOf(f, m) = IF m # Nil /\ m = l THEN c ELSE ParentOf(h, m)
  BY <1>5 DEF ParentSet
<1>11. \A m \in Cells : ParentOf(g, m) = IF m # Nil /\ m = r THEN c ELSE ParentOf(f, m)
  BY <1>8 DEF ParentSet
<1>12. \A m \in Cells : ParentOf(g, m) =
         IF m # Nil /\ \E q \in Sides : m = KidOf(h, q, c) THEN c ELSE ParentOf(h, m)
  BY <1>9, <1>10, <1>11
<1>13. QED
  BY <1>5, <1>8, <1>12 DEF ParentSet

\* subst takes the links, the colour and the place of node.
LEMMA TakePlaceFacts ==
  ASSUME NEW h \in Heaps, NEW y \in Nodes, y = subst, NEW z \in Nodes, z = node, y # z,
         \A q \in Sides : KidOf(h, q, z) \in Cells,
         z # RootOf(h) =>
           /\ ParentOf(h, z) \in Nodes \ {y}
           /\ \E q \in Sides : /\ KidOf(h, q, ParentOf(h, z)) = z
                               /\ KidOf(h, Opp(q), ParentOf(h, z)) # z,
         NEW g, g = TakePlace(h)
  PROVE  /\ g \in Heaps
         /\ RootOf(g) = As(RootOf(h), z, y)
         /\ \A q \in Sides, m \in Cells :
              KidOf(g, q, m) =
                IF m = y THEN KidOf(h, q, z)
                ELSE IF z # RootOf(h) /\ m = ParentOf(h, z) /\ KidOf(h, q, m) = z THEN y
                ELSE KidOf(h, q, m)
         /\ \A m \in Cells :
              ParentOf(g, m) =
                IF m # Nil /\ \E q \in Sides : m = KidOf(h, q, z) THEN y
                ELSE IF m = y THEN ParentOf(h, z) ELSE ParentOf(h, m)
         /\ \A m : RedIn(g, m) <=> IF m = y THEN RedIn(h, z) ELSE RedIn(h, m)
<1>1. PICK h1 : h1 = WithParent(h, y, ParentOf(h, z))
  OBVIOUS
<1>2. PICK l : l = KidOf(h, "left", z)
  OBVIOUS
<1>3. PICK r : r = KidOf(h, "right", z)
  OBVIOUS
<1>4. PICK h2 : h2 = WithKids(h1, y, l, r)
  OBVIOUS
<1>5. PICK h3 : h3 = Dye(h2, y, z)
  OBVIOUS
<1>6. PICK h4 : h4 = Replace(h3, z, y, "left")
  OBVIOUS
<1>7. g = ClaimKids(h4, y)
  BY <1>1, <1>2, <1>3, <1>4, <1>5, <1>6 DEF TakePlace, TakeLinks
<1>8. /\ y \in Cells /\ z \in Cells /\ y # Nil /\ z # Nil
      /\ l \in Cells /\ r \in Cells /\ l \in Ptrs /\ r \in Ptrs /\ ParentOf(h, z) \in Ptrs
      /\ \A q \in Sides : KidOf(h, q, z) = IF q = "left" THEN l ELSE r
  <2>1. l \in Cells /\ r \in Cells
    BY <1>2, <1>3 DEF Sides
  <2>2. \A q \in Sides : KidOf(h, q, z) = IF q = "left" THEN l ELSE r
    BY <1>2, <1>3 DEF Sides
  <2>3. z \in Cells /\ y \in Cells
    BY DEF Cells
  <2>4. ParentOf(h, z) \in Ptrs
    BY <2>3, HeapFields
  <2>5. QED
    BY <2>1, <2>2, <2>3, <2>4, RBTreeAssumption DEF Ptrs
<1>9. ParentSet(h, h1, y, ParentOf(h, z))
  BY <1>1, <1>8, SetParent
<1>10. h1 \in Heaps
  BY <1>9 DEF ParentSet
<1>11. KidsSet(h1, h2, y, l, r)
  BY <1>4, <1>8, <1>10, SetKids
<1>12. h2 \in Heaps
  BY <1>11 DEF KidsSet
<1>13. /\ Painted(h2, h3, {}, {y}) \/ Painted(h2, h3, {y}, {})
       /\ \A m : RedIn(h3, m) <=> IF m = y THEN RedIn(h2, z) ELSE RedIn(h2, m)
  BY <1>5, <1>8, <1>12, DyeFacts
<1>14. /\ h3 \in Heaps
       /\ RootOf(h3) = RootOf(h)
       /\ \A q \in Sides, m \in Cells : KidOf(h3, q, m) = IF m = y THEN KidOf(h, q, z) ELSE KidOf(h, q, m)
       /\ \A m \in Cells : ParentOf(h3, m) = IF m = y THEN ParentOf(h, z) ELSE ParentOf(h, m)
       /\ \A m : RedIn(h3, m) <=> IF m = y THEN RedIn(h, z) ELSE RedIn(h, m)
  <2>1. /\ h3 \in Heaps /\ RootOf(h3) = RootOf(h2)
        /\ \A q \in Sides, m \in Cells : KidOf(h3, q, m) = KidOf(h2, q, m)
        /\ \A m : ParentOf(h3, m) = ParentOf(h2, m)
    BY <1>13 DEF Painted
  <2>2. /\ RootOf(h2) = RootOf(h)
        /\ \A q \in Sides, m \in Cells : KidOf(h2, q, m) = IF m = y THEN KidOf(h, q, z) ELSE KidOf(h, q, m)
        /\ \A m \in Cells : ParentOf(h2, m) = IF m = y THEN ParentOf(h, z) ELSE ParentOf(h, m)
        /\ \A m : RedIn(h2, m) <=> RedIn(h, m)
    BY <1>8, <1>9, <1>11 DEF ParentSet, KidsSet
  <2>3. QED
    BY <1>13, <2>1, <2>2
<1>15. Replaced(h3, h4, z, y)
  <2>1. z # RootOf(h3) =>
           /\ ParentOf(h3, z) \in Nodes
           /\ \E q \in Sides : /\ KidOf(h3, q, ParentOf(h3, z)) = z
                               /\ KidOf(h3, Opp(q), ParentOf(h3, z)) # z
    <3>1. ParentOf(h3, z) = ParentOf(h, z)
      BY <1>8, <1>14
    <3>2. ASSUME z # RootOf(h)
          PROVE  \A q \in Sides : KidOf(h3, q, ParentOf(h, z)) = KidOf(h, q, ParentOf(h, z))
      BY <1>14, <3>2 DEF Cells
    <3>3. QED
      BY <1>14, <3>1, <3>2, OppSides
  <2>2. "left" \in Sides
    BY DEF Sides
  <2>3. QED
    BY <1>6, <1>8, <1>14, <2>1, <2>2, ReplaceFacts
<1>16. /\ h4 \in Heaps
       /\ RootOf(h4) = As(RootOf(h), z, y)
       /\ \A q \in Sides, m \in Cells :
            KidOf(h4, q, m) =
              IF m = y THEN KidOf(h, q, z)
              ELSE IF z # RootOf(h) /\ m = ParentOf(h, z) /\ KidOf(h, q, m) = z THEN y
              ELSE KidOf(h, q, m)
       /\ \A m \in Cells : ParentOf(h4, m) = IF m = y THEN ParentOf(h, z) ELSE ParentOf(h, m)
       /\ \A m : RedIn(h4, m) <=> IF m = y THEN RedIn(h, z) ELSE RedIn(h, m)
  <2>1. /\ h4 \in Heaps
        /\ \A q \in Sides, m \in Cells :
             KidOf(h4, q, m) =
               IF z # RootOf(h3) /\ m = ParentOf(h3, z) /\ KidOf(h3, q, m) = z THEN y ELSE KidOf(h3, q, m)
        /\ \A m : ParentOf(h4, m) = ParentOf(h3, m) /\ (RedIn(h4, m) <=> RedIn(h3, m))
        /\ RootOf(h4) = IF z = RootOf(h3) THEN y ELSE RootOf(h3)
    BY <1>15 DEF Replaced
  <2>2. ParentOf(h3, z) = ParentOf(h, z)
    BY <1>8, <1>14
  <2>3. ASSUME NEW q \in Sides, NEW m \in Cells
        PROVE  KidOf(h4, q, m) =
                 IF m = y THEN KidOf(h, q, z)
                 ELSE IF z # RootOf(h) /\ m = ParentOf(h, z) /\ KidOf(h, q, m) = z THEN y
                 ELSE KidOf(h, q, m)
    <3>1. CASE m = y
      <4>1. ~(z # RootOf(h) /\ m = ParentOf(h, z))
        BY <3>1
      <4>2. QED
        BY <1>14, <2>1, <2>2, <3>1, <4>1
    <3>2. CASE m # y
      BY <1>14, <2>1, <2>2, <3>2
    <3>3. QED
      BY <3>1, <3>2
  <2>4. RootOf(h4) = As(RootOf(h), z, y)
    BY <1>14, <2>1 DEF As
  <2>5. QED
    BY <1>14, <2>1, <2>3, <2>4
<1>17. \A q \in Sides : KidOf(h4, q, y) = KidOf(h, q, z)
  BY <1>8, <1>16
<1>18. /\ g \in Heaps
       /\ \A q \in Sides, m \in Cells : KidOf(g, q, m) = KidOf(h4, q, m)
       /\ \A m \in Cells : ParentOf(g, m) =
            IF m # Nil /\ \E q \in Sides : m = KidOf(h4, q, y) THEN y ELSE ParentOf(h4, m)
       /\ \A m : RedIn(g, m) <=> RedIn(h4, m)
       /\ RootOf(g) = RootOf(h4)
  BY <1>7, <1>16, <1>17, ClaimFacts
<1>19. QED
  BY <1>16, <1>17, <1>18

\* The writes of a deletion that cuts y out and gives it the place of z.
LEMMA SupplantWrites ==
  ASSUME NEW h \in Heaps, NEW T, NEW D, Tree(h, T, D), NEW y, NEW x, NEW p, NEW s, NEW e,
         Removable(h, T, y, x, p, s, e), y = subst,
         NEW z \in T, z = node, z # y, y \in D[z],
         NEW hA, hA = WithParent(WithKid(h, s, p, x), x, p),
         NEW h1, h1 = WithParent(WithKid(h, s, p, x), x, As(p, z, y)),
         NEW h2, h2 = NodeInit(TakePlace(h1), z)
  PROVE  /\ h2 \in Heaps
         /\ Supplanted(hA, h2, T \ {y}, z, y)
         /\ ParentOf(h2, x) = As(p, z, y)
         /\ x # z
<1>1. /\ y \in T /\ y # RootOf(h) /\ s \in Sides /\ p \in T /\ x \in T \cup {Nil} /\ x # y /\ p # y
      /\ KidOf(h, s, p) = y /\ D[y] = {y} \cup D[x]
  BY RemovableFacts
<1>2. T \subseteq Cells /\ Nil \in Cells /\ Nil \notin T /\ T \subseteq Nodes
  BY KidsAreCells DEF Tree
<1>3. /\ x \in Cells /\ p \in Cells /\ y \in Cells /\ z \in Cells /\ y \in Nodes /\ z \in Nodes
      /\ x \in Ptrs /\ p \in Ptrs /\ As(p, z, y) \in Ptrs
  BY <1>1, <1>2 DEF Ptrs, As
<1>4. D[y] \subseteq D[z] /\ y \in D[y] /\ z \in D[z]
  BY <1>1, KidsBelow, SubtreesNest DEF Sides
<1>5. x # z
  <2>1. y \notin D[x]
    BY RemovableFacts
  <2>2. QED
    BY <2>1
<1>6. PICK P : P = As(p, z, y)
  OBVIOUS
<1>7. PICK f : f = WithKid(h, s, p, x)
  OBVIOUS
<1>8. KidSet(h, f, s, p, x)
  BY <1>1, <1>3, <1>7, SetKid
<1>9. f \in Heaps
  BY <1>8 DEF KidSet
<1>10. ParentSet(f, h1, x, P) /\ ParentSet(f, hA, x, p)
  BY <1>3, <1>6, <1>7, <1>9, SetParent
<1>11. /\ h1 \in Heaps
       /\ RootOf(h1) = RootOf(h)
       /\ \A q \in Sides, m \in Cells : KidOf(h1, q, m) = IF q = s /\ m = p THEN x ELSE KidOf(h, q, m)
       /\ \A m \in Cells : ParentOf(h1, m) = IF m = x THEN P ELSE ParentOf(h, m)
  BY <1>8, <1>10 DEF KidSet, ParentSet
<1>12. /\ RootOf(h1) = RootOf(hA)
       /\ \A q \in Sides, m \in Cells : KidOf(h1, q, m) = KidOf(hA, q, m)
       /\ \A m \in Cells : ParentOf(hA, m) = IF m = x THEN p ELSE ParentOf(h, m)
       /\ \A m : RedIn(h1, m) <=> RedIn(hA, m)
  BY <1>8, <1>10 DEF KidSet, ParentSet
<1>13. PICK T2 : T2 = T \ {y}
  OBVIOUS
<1>14. Tree(hA, T2, Without(D, y))
  <2>1. CutOut(h, hA, T, y, x, p, s)
    BY <1>8, <1>10, CutWrites
  <2>2. QED
    BY <1>13, <2>1, CutTree
<1>15. z \in T2 /\ T2 \subseteq Cells /\ y \notin T2 /\ Nil \notin T2
  BY <1>2, <1>13
<1>16. \A q \in Sides, m \in T2 : /\ KidOf(hA, q, m) \in T2 \cup {Nil}
                                  /\ KidOf(hA, q, m) # m
                                  /\ KidOf(hA, q, m) # Nil => ParentOf(hA, KidOf(hA, q, m)) = m
  BY <1>14, KidsAreCells DEF Tree
<1>17. \A q \in Sides : KidOf(h1, q, z) \in Cells
  BY <1>2, <1>3, <1>12, <1>15, <1>16
<1>18. z # RootOf(h1) =>
         /\ ParentOf(h1, z) \in Nodes \ {y}
         /\ \E q \in Sides : /\ KidOf(h1, q, ParentOf(h1, z)) = z
                             /\ KidOf(h1, Opp(q), ParentOf(h1, z)) # z
  <2>1. SUFFICES ASSUME z # RootOf(hA)
        PROVE  /\ ParentOf(h1, z) \in Nodes \ {y}
               /\ \E q \in Sides : /\ KidOf(h1, q, ParentOf(h1, z)) = z
                                   /\ KidOf(h1, Opp(q), ParentOf(h1, z)) # z
    BY <1>12
  <2>2. PICK g : g = ParentOf(hA, z)
    OBVIOUS
  <2>3. g \in T2 /\ \E q \in Sides : KidOf(hA, q, g) = z
    BY <1>14, <1>15, <2>1, <2>2, ParentsInTree
  <2>4. PICK q \in Sides : KidOf(hA, q, g) = z
    BY <2>3
  <2>5. KidOf(hA, Opp(q), g) # z /\ Opp(q) \in Sides
    BY <1>14, <1>15, <2>3, <2>4, OneLink, OppSides
  <2>6. ParentOf(h1, z) = g
    BY <1>3, <1>5, <1>11, <1>12, <2>2
  <2>7. KidOf(h1, q, g) = z /\ KidOf(h1, Opp(q), g) # z
    BY <1>12, <1>15, <2>3, <2>4, <2>5
  <2>8. g \in Nodes \ {y}
    BY <1>2, <1>13, <2>3
  <2>9. QED
    BY <2>6, <2>7, <2>8
<1>19. PICK g : g = TakePlace(h1)
  OBVIOUS
<1>20. /\ g \in Heaps
       /\ RootOf(g) = As(RootOf(h1), z, y)
       /\ \A q \in Sides, m \in Cells :
            KidOf(g, q, m) =
              IF m = y THEN KidOf(h1, q, z)
              ELSE IF z # RootOf(h1) /\ m = ParentOf(h1, z) /\ KidOf(h1, q, m) = z THEN y
              ELSE KidOf(h1, q, m)
       /\ \A m \in Cells :
            ParentOf(g, m) =
              IF m # Nil /\ \E q \in Sides : m = KidOf(h1, q, z) THEN y
              ELSE IF m = y THEN ParentOf(h1, z) ELSE ParentOf(h1, m)
       /\ \A m : RedIn(g, m) <=> IF m = y THEN RedIn(h1, z) ELSE RedIn(h1, m)
  BY <1>3, <1>11, <1>17, <1>18, <1>19, TakePlaceFacts
<1>21. Cleared(g, h2, z)
  BY <1>3, <1>19, <1>20, ClearFacts
<1>22. ParentOf(h1, z) = ParentOf(hA, z)
  BY <1>3, <1>5, <1>11, <1>12
<1>23. ASSUME NEW q \in Sides, NEW m \in T2
       PROVE  KidOf(h2, q, As(m, z, y)) = As(KidOf(hA, q, m), z, y)
  <2>1. m \in Cells /\ m # y
    BY <1>15
  <2>2. CASE m = z
    <3>1. KidOf(h2, q, y) = KidOf(g, q, y)
      BY <1>3, <1>21 DEF Cleared
    <3>2. KidOf(g, q, y) = KidOf(hA, q, z)
      BY <1>3, <1>12, <1>20
    <3>3. KidOf(hA, q, z) # z
      BY <1>15, <1>16
    <3>4. QED
      BY <2>2, <3>1, <3>2, <3>3 DEF As
  <2>3. CASE m # z
    <3>1. KidOf(h2, q, m) = KidOf(g, q, m)
      BY <2>1, <2>3, <1>21 DEF Cleared
    <3>2. KidOf(g, q, m) = IF z # RootOf(hA) /\ m = ParentOf(hA, z) /\ KidOf(hA, q, m) = z
                             THEN y ELSE KidOf(hA, q, m)
      BY <1>12, <1>20, <1>22, <2>1
    <3>3. KidOf(hA, q, m) = z => z # RootOf(hA) /\ m = ParentOf(hA, z)
      <4>1. z # Nil
        BY <1>15
      <4>2. KidOf(hA, q, m) = z => z # RootOf(hA)
        BY <1>14, <4>1, OneLink
      <4>3. QED
        BY <1>16, <4>1, <4>2
    <3>4. QED
      BY <2>3, <3>1, <3>2, <3>3 DEF As
  <2>4. QED
    BY <2>2, <2>3
<1>24. \A m \in Cells \ {z, y} : ParentOf(h2, m) =
         IF m # Nil /\ \E q \in Sides : m = KidOf(hA, q, z) THEN y ELSE ParentOf(h1, m)
  <2>1. ASSUME NEW m \in Cells \ {z, y}
        PROVE  ParentOf(h2, m) =
                 IF m # Nil /\ \E q \in Sides : m = KidOf(hA, q, z) THEN y ELSE ParentOf(h1, m)
    <3>1. ParentOf(h2, m) = ParentOf(g, m)
      BY <2>1, <1>21 DEF Cleared
    <3>2. (\E q \in Sides : m = KidOf(h1, q, z)) <=> (\E q \in Sides : m = KidOf(hA, q, z))
      BY <1>3, <1>12
    <3>3. QED
      BY <1>20, <2>1, <3>1, <3>2
  <2>2. QED
    BY <2>1
<1>25. (x # Nil /\ \E q \in Sides : x = KidOf(hA, q, z)) => p = z
  <2>1. (x # Nil /\ \E q \in Sides : x = KidOf(hA, q, z)) => ParentOf(hA, x) = z
    BY <1>15, <1>16
  <2>2. QED
    BY <1>3, <1>12, <2>1
<1>26. p = z => \E q \in Sides : x = KidOf(hA, q, z)
  BY <1>1, <1>3, <1>11, <1>12
<1>27. ASSUME NEW m \in T2 \ {z}
       PROVE  ParentOf(h2, m) = IF \E q \in Sides : m = KidOf(hA, q, z) THEN y ELSE ParentOf(hA, m)
  <2>1. m \in Cells \ {z, y} /\ m # Nil
    BY <1>15
  <2>2. CASE m = x
    BY <1>6, <1>11, <1>12, <1>24, <1>26, <2>1, <2>2 DEF As
  <2>3. CASE m # x
    BY <1>11, <1>12, <1>24, <2>1, <2>3
  <2>4. QED
    BY <2>2, <2>3
<1>28. ParentOf(h2, x) = P
  <2>1. ParentOf(h1, x) = P
    BY <1>3, <1>11
  <2>2. (x # Nil /\ \E q \in Sides : x = KidOf(hA, q, z)) => P = y
    BY <1>6, <1>25 DEF As
  <2>3. QED
    BY <1>1, <1>3, <1>5, <1>24, <2>1, <2>2
<1>29. ParentOf(h2, y) = ParentOf(hA, z)
  <2>1. ParentOf(h2, y) = ParentOf(g, y)
    BY <1>3, <1>21 DEF Cleared
  <2>2. ~\E q \in Sides : y = KidOf(h1, q, z)
    <3>1. \A q \in Sides : KidOf(h1, q, z) \in T2 \cup {Nil}
      BY <1>3, <1>12, <1>15, <1>16
    <3>2. y # Nil
      BY <1>1, <1>2
    <3>3. QED
      BY <1>15, <3>1, <3>2
  <2>3. QED
    BY <1>3, <1>20, <1>22, <2>1, <2>2
<1>30. \A m : RedIn(h2, m) <=> IF m = y THEN RedIn(hA, z) ELSE RedIn(hA, m)
  BY <1>12, <1>20, <1>21 DEF Cleared
<1>31. /\ \A m \in T2 : RedIn(h2, As(m, z, y)) <=> RedIn(hA, m)
       /\ RedIn(h2, Nil) <=> RedIn(hA, Nil)
  BY <1>1, <1>2, <1>15, <1>30 DEF As
<1>32. h2 \in Heaps /\ RootOf(h2) = As(RootOf(hA), z, y)
  BY <1>12, <1>20, <1>21 DEF Cleared
<1>33. Supplanted(hA, h2, T2, z, y)
  BY <1>23, <1>27, <1>29, <1>31, <1>32 DEF Supplanted
<1>34. QED
  BY <1>5, <1>6, <1>13, <1>28, <1>32, <1>33

\* The tree without subst, in the shape that it has when subst is node.
LEMMA UnlinkSame ==
  ASSUME NEW h \in Heaps, NEW T, NEW D, Tree(h, T, D), NEW y, NEW x, NEW p, NEW s, NEW e,
         Removable(h, T, y, x, p, s, e), NEW b, Settled(h, T, b),
         NEW h2, h2 = NodeInit(WithParent(WithKid(h, s, p, x), x, p), y)
  PROVE  /\ h2 \in Heaps
         /\ Tree(h2, T \ {y}, Without(D, y))
         /\ \A k : Sorted(h, T, D, k) => Sorted(h2, T \ {y}, Without(D, y), k)
         /\ RedIn(h, y) => Settled(h2, T \ {y}, b)
         /\ ~RedIn(h, y) => DeleteFixing(h2, T \ {y}, b, x)
<1>1. h2 \in Heaps /\ CutOut(h, h2, T, y, x, p, s)
  BY CutWrites
<1>2. QED
  BY <1>1, CutTree, CutColours

\* The nodes on the right of z are greater than z, and greater than y when y is the least.
LEMMA HeirSorted ==
  ASSUME NEW h, NEW T, NEW D, Tree(h, T, D), NEW z \in T, NEW y \in D[KidOf(h, "right", z)],
         NEW k, \A n \in T : k[n] \in Nat, Sorted(h, T, D, k),
         \A m \in D[KidOf(h, "right", z)] \ {y} : k[y] < k[m]
  PROVE  /\ y \in T /\ y # z
         /\ \A q \in Sides : \A m \in D[KidOf(h, q, z)] \ {y} : Before(q, k[m], k[y])
         /\ \A m \in T, q \in Sides : z \in D[KidOf(h, q, m)] => Before(q, k[y], k[m])
<1>1. /\ "right" \in Sides /\ "left" \in Sides /\ \A q \in Sides : q = "left" \/ q = "right"
  BY DEF Sides
<1>2. PICK r : r = KidOf(h, "right", z)
  OBVIOUS
<1>3. r # Nil /\ r \in T /\ D[r] \subseteq D[z] /\ z \notin D[r]
  <2>1. r # Nil
    BY <1>2 DEF Tree
  <2>2. QED
    BY <1>1, <1>2, <2>1, KidsBelow DEF Tree
<1>4. y \in T /\ y # z /\ y \in D[z]
  BY <1>2, <1>3, SubtreesNest
<1>5. k[y] \in Nat /\ k[z] \in Nat /\ k[z] < k[y]
  BY <1>1, <1>4 DEF Sorted, Before
<1>6. ASSUME NEW q \in Sides, NEW m \in D[KidOf(h, q, z)] \ {y} PROVE Before(q, k[m], k[y])
  <2>1. CASE q = "right"
    BY <1>6, <2>1 DEF Before
  <2>2. CASE q = "left"
    <3>1. k[m] < k[z]
      BY <1>1, <1>6, <2>2 DEF Sorted, Before
    <3>2. m \in T
      <4>1. KidOf(h, q, z) \in T
        BY <1>6 DEF Tree
      <4>2. QED
        BY <1>6, <4>1, SubtreesNest
    <3>3. k[m] \in Nat
      BY <3>2
    <3>4. k[m] < k[y]
      BY <1>5, <3>1, <3>3
    <3>5. QED
      BY <1>1, <2>2, <3>4 DEF Before
  <2>3. QED
    BY <1>1, <2>1, <2>2
<1>7. ASSUME NEW m \in T, NEW q \in Sides, z \in D[KidOf(h, q, m)] PROVE Before(q, k[y], k[m])
  <2>1. y \in D[KidOf(h, q, m)]
    <3>1. KidOf(h, q, m) \in T
      BY <1>7 DEF Tree
    <3>2. QED
      BY <1>4, <1>7, <3>1, SubtreesNest
  <2>2. QED
    BY <2>1 DEF Sorted
<1>8. QED
  BY <1>4, <1>6, <1>7

\* The tree without subst, which then has the place of node.
LEMMA UnlinkOther ==
  ASSUME NEW h \in Heaps, NEW T, NEW D, Tree(h, T, D), NEW y, NEW x, NEW p, NEW s, NEW e,
         Removable(h, T, y, x, p, s, e), y = subst, NEW b, Settled(h, T, b),
         NEW z \in T, z = node, y \in D[KidOf(h, "right", z)],
         NEW k, \A n \in T : k[n] \in Nat, Sorted(h, T, D, k),
         \A m \in D[KidOf(h, "right", z)] \ {y} : k[y] < k[m],
         NEW h1, h1 = WithParent(WithKid(h, s, p, x), x, As(p, z, y)),
         NEW h2, h2 = NodeInit(TakePlace(h1), z)
  PROVE  /\ h2 \in Heaps
         /\ \E D2 \in [Cells -> SUBSET Nodes], b2 \in [Cells -> Nat] :
              /\ Tree(h2, T \ {z}, D2)
              /\ Sorted(h2, T \ {z}, D2, k)
              /\ RedIn(h, y) => Settled(h2, T \ {z}, b2)
              /\ ~RedIn(h, y) => DeleteFixing(h2, T \ {z}, b2, x)
<1>1. /\ y \in T /\ y # z
      /\ \A q \in Sides : \A m \in D[KidOf(h, q, z)] \ {y} : Before(q, k[m], k[y])
      /\ \A m \in T, q \in Sides : z \in D[KidOf(h, q, m)] => Before(q, k[y], k[m])
  BY HeirSorted
<1>2. y \in D[z]
  <2>1. "right" \in Sides
    BY DEF Sides
  <2>2. QED
    BY <2>1, KidsBelow
<1>3. PICK hA : hA = WithParent(WithKid(h, s, p, x), x, p)
  OBVIOUS
<1>4. CutOut(h, hA, T, y, x, p, s)
  BY <1>3, CutWrites
<1>5. PICK T2 : T2 = T \ {y}
  OBVIOUS
<1>6. PICK DA : DA = Without(D, y)
  OBVIOUS
<1>7. /\ Tree(hA, T2, DA)
      /\ Sorted(hA, T2, DA, k)
  BY <1>4, <1>5, <1>6, CutTree
<1>8. /\ h2 \in Heaps
      /\ Supplanted(hA, h2, T2, z, y)
      /\ ParentOf(h2, x) = As(p, z, y)
      /\ x # z
  BY <1>1, <1>2, <1>3, <1>5, SupplantWrites
<1>9. /\ y \in T /\ s \in Sides /\ p \in T /\ KidOf(h, s, p) = y /\ p # y
      /\ x \in T \cup {Nil} /\ x # y
      /\ D[y] = {y} \cup D[x]
  BY RemovableFacts
<1>10. /\ T \subseteq Nodes /\ T \subseteq Cells /\ Nil \in Cells
       /\ D \in [Cells -> SUBSET Nodes]
       /\ \A m \in T, q \in Sides : KidOf(h, q, m) \in Cells
  BY KidsAreCells DEF Tree
<1>11. z \in T2 /\ y \in Nodes \ T2 /\ (T2 \ {z}) \cup {y} = T \ {z}
  BY <1>1, <1>5, <1>10
<1>12. \A m \in T2, q \in Sides : DA[KidOf(hA, q, m)] = D[KidOf(h, q, m)] \ {y}
  <2>1. \A c \in Cells : DA[c] = D[c] \ {y}
    BY <1>6 DEF Without
  <2>2. ASSUME NEW m \in T2, NEW q \in Sides PROVE DA[KidOf(hA, q, m)] = D[KidOf(h, q, m)] \ {y}
    <3>1. m \in T /\ KidOf(hA, q, m) = IF m = p /\ q = s THEN x ELSE KidOf(h, q, m)
      BY <1>4, <1>5, <2>2 DEF CutOut
    <3>2. DA[x] = D[y] \ {y}
      BY <1>9, <1>10, <2>1
    <3>3. QED
      BY <1>9, <1>10, <2>1, <3>1, <3>2
  <2>3. QED
    BY <2>2
<1>13. \A q \in Sides : \A m \in DA[KidOf(hA, q, z)] : Before(q, k[m], k[y])
  BY <1>1, <1>11, <1>12
<1>14. \A m \in T2, q \in Sides : z \in DA[KidOf(hA, q, m)] => Before(q, k[y], k[m])
  BY <1>1, <1>5, <1>12
<1>15. PICK D2 : D2 = Instead(DA, z, y)
  OBVIOUS
<1>16. PICK b2 : b2 = Renumbered(b, z, y)
  OBVIOUS
<1>17. Tree(h2, T \ {z}, D2)
  BY <1>7, <1>8, <1>11, <1>15, SupplantTree
<1>18. Sorted(h2, T \ {z}, D2, k)
  BY <1>7, <1>8, <1>11, <1>13, <1>14, <1>15, SupplantSorted
<1>19. ASSUME RedIn(h, y) PROVE Settled(h2, T \ {z}, b2)
  <2>1. Settled(hA, T2, b)
    BY <1>4, <1>5, <1>19, CutColours
  <2>2. Settled(h2, (T2 \ {z}) \cup {y}, Renumbered(b, z, y))
    BY <1>7, <1>8, <1>11, <2>1, SupplantColours
  <2>3. QED
    BY <1>11, <1>16, <2>2
<1>20. ASSUME ~RedIn(h, y) PROVE DeleteFixing(h2, T \ {z}, b2, x)
  <2>1. DeleteFixing(hA, T2, b, x) /\ x # RootOf(hA) /\ ParentOf(hA, x) = p
    BY <1>4, <1>5, <1>20, CutColours
  <2>2. DeleteFixing(h2, (T2 \ {z}) \cup {y}, Renumbered(b, z, y), x)
    BY <1>7, <1>8, <1>11, <2>1, SupplantColours
  <2>3. QED
    BY <1>11, <1>16, <2>2
<1>21. D2 \in [Cells -> SUBSET Nodes]
  BY <1>17 DEF Tree
<1>22. b2 \in [Cells -> Nat]
  <2>1. b \in [Cells -> Nat]
    BY DEF Settled, Counted
  <2>2. z \in Cells
    BY <1>10
  <2>3. QED
    BY <1>16, <2>1, <2>2 DEF Renumbered
<1>23. QED
  BY <1>8, <1>17, <1>18, <1>19, <1>20, <1>21, <1>22

\* A heap that holds a search tree of T.
Searchable(h, T, D, k) ==
  /\ h \in Heaps
  /\ D \in [Cells -> SUBSET Nodes]
  /\ Tree(h, T, D)
  /\ \A n \in T : k[n] \in Nat
  /\ Sorted(h, T, D, k)

\* Colours do not make it less of a search tree.
LEMMA PaintSearch ==
  ASSUME NEW h, NEW T, NEW D, NEW k, Searchable(h, T, D, k), NEW R \in SUBSET Cells, NEW B,
         NEW g, g = Paint(h, R, B)
  PROVE  Painted(h, g, R, B) /\ Searchable(g, T, D, k)
<1>1. Painted(h, g, R, B)
  BY PaintFacts DEF Searchable
<1>2. g \in Heaps
  BY <1>1 DEF Painted
<1>3. QED
  BY <1>1, <1>2, PaintTree DEF Searchable

\* Nor do rotations.
LEMMA RotateSearch ==
  ASSUME NEW h, NEW T, NEW D, NEW k, Searchable(h, T, D, k), NEW c \in T, NEW s \in Sides,
         NEW t, t = KidOf(h, Opp(s), c), t # Nil,
         NEW h2, h2 = Rotate(h, c, s)
  PROVE  /\ Turns(h, T, D, c, t, s)
         /\ Rotated(h, h2, T, c, t, s)
         /\ \A m : RedIn(h2, m) <=> RedIn(h, m)
         /\ Searchable(h2, T, Lowered(h, D, c, t, s), k)
<1>1. h \in Heaps /\ Tree(h, T, D) /\ (\A n \in T : k[n] \in Nat) /\ Sorted(h, T, D, k)
  BY DEF Searchable
<1>2. Turns(h, T, D, c, t, s)
  BY <1>1 DEF Turns
<1>3. h2 \in Heaps /\ Rotated(h, h2, T, c, t, s) /\ \A m : RedIn(h2, m) <=> RedIn(h, m)
  BY <1>1, RotateFacts
<1>4. PICK D2 : D2 = Lowered(h, D, c, t, s)
  OBVIOUS
<1>5. Tree(h2, T, D2)
  BY <1>2, <1>3, <1>4, RotateTree
<1>6. Sorted(h2, T, D2, k)
  BY <1>1, <1>2, <1>3, <1>4, RotateSorted
<1>7. D2 \in [Cells -> SUBSET Nodes]
  BY <1>5 DEF Tree
<1>8. QED
  BY <1>1, <1>2, <1>3, <1>4, <1>5, <1>6, <1>7 DEF Searchable

\* The last rotation of an insertion.
LEMMA LiftFacts ==
  ASSUME NEW h, NEW T, NEW D, NEW k, Searchable(h, T, D, k), NEW b, NEW x, InsertFixing(h, T, b, x),
         x # RootOf(h), NEW p, p = ParentOf(h, x), RedIn(h, p),
         NEW g, g = ParentOf(h, p), NEW s \in Sides, KidOf(h, s, g) = p,
         KidOf(h, s, p) = x, ~RedIn(h, KidOf(h, Opp(s), g)),
         NEW h2, h2 = Lift(h, x, s)
  PROVE  \E D2, b2 : Searchable(h2, T, D2, k) /\ InsertFixing(h2, T, b2, x)
<1>1. Tree(h, T, D)
  BY DEF Searchable
<1>2. p \in T /\ g \in T
  BY <1>1, RedParent
<1>3. T \subseteq Cells /\ Nil \notin T
  BY <1>1, KidsAreCells
<1>4. PICK o : o = Opp(s)
  OBVIOUS
<1>5. o \in Sides /\ Opp(o) = s
  BY <1>4, OppSides
<1>6. PICK h1 : h1 = Paint(h, {g}, {p})
  OBVIOUS
<1>7. Painted(h, h1, {g}, {p}) /\ Searchable(h1, T, D, k)
  BY <1>2, <1>3, <1>6, PaintSearch
<1>8. h2 = Rotate(h1, g, o)
  BY <1>4, <1>6 DEF Lift
<1>9. KidOf(h1, Opp(o), g) = p /\ p # Nil
  BY <1>2, <1>3, <1>5, <1>7 DEF Painted
<1>10. PICK D2 : D2 = Lowered(h1, D, g, p, o)
  OBVIOUS
<1>11. /\ Rotated(h1, h2, T, g, p, o)
       /\ \A m : RedIn(h2, m) <=> RedIn(h1, m)
       /\ Searchable(h2, T, D2, k)
  BY <1>2, <1>5, <1>7, <1>8, <1>9, <1>10, RotateSearch
<1>12. InsertFixing(h2, T, Reweighed(b, g, p, b[p]), x)
  BY <1>1, <1>4, <1>7, <1>11, RotateOuter
<1>13. QED
  BY <1>11, <1>12

\* One or two rotations.
LEMMA InsertRotateFacts ==
  ASSUME NEW h, NEW T, NEW D, NEW k, Searchable(h, T, D, k), NEW b, NEW x, InsertFixing(h, T, b, x),
         x # RootOf(h), NEW p, p = ParentOf(h, x), RedIn(h, p), NEW s, s = SideIn(h, p),
         ~RedIn(h, KidOf(h, Opp(s), ParentOf(h, p)))
  PROVE  /\ x = KidOf(h, Opp(s), p) =>
              /\ p \in T
              /\ \E D2, b2 : /\ Searchable(Lift(Rotate(h, p, s), p, s), T, D2, k)
                             /\ InsertFixing(Lift(Rotate(h, p, s), p, s), T, b2, p)
         /\ x # KidOf(h, Opp(s), p) =>
              \E D2, b2 : Searchable(Lift(h, x, s), T, D2, k) /\ InsertFixing(Lift(h, x, s), T, b2, x)
<1>1. Tree(h, T, D)
  BY DEF Searchable
<1>2. PICK g : g = ParentOf(h, p)
  OBVIOUS
<1>3. /\ x \in T /\ p \in T /\ p # RootOf(h) /\ g \in T
      /\ \E q \in Sides : KidOf(h, q, p) = x
  BY <1>1, <1>2, RedParent
<1>4. s \in Sides /\ KidOf(h, s, g) = p
  BY <1>1, <1>2, <1>3, SideFacts
<1>5. PICK o : o = Opp(s)
  OBVIOUS
<1>6. o \in Sides /\ Sides = {s, o}
  BY <1>4, <1>5, OppSides
<1>7. ~RedIn(h, KidOf(h, o, g))
  BY <1>2, <1>5
<1>8. ASSUME x # KidOf(h, o, p)
      PROVE  \E D2, b2 : Searchable(Lift(h, x, s), T, D2, k) /\ InsertFixing(Lift(h, x, s), T, b2, x)
  <2>1. KidOf(h, s, p) = x
    BY <1>3, <1>6, <1>8
  <2>2. QED
    BY <1>2, <1>4, <1>5, <1>7, <2>1, LiftFacts
<1>9. ASSUME NEW h1, NEW h2, x = KidOf(h, o, p), h1 = Rotate(h, p, s), h2 = Lift(h1, p, s)
      PROVE  \E D2, b2 : Searchable(h2, T, D2, k) /\ InsertFixing(h2, T, b2, p)
  <2>1. x # Nil
    BY <1>1, <1>3, KidsAreCells
  <2>a. KidOf(h, o, p) = x
    BY <1>9
  <2>b. h1 = Rotate(h, p, s)
    BY <1>9
  <2>c. KidOf(h, Opp(s), p) = x
    BY <1>5, <2>a
  <2>e. h2 = Lift(h1, p, s)
    BY <1>9
  <2>d. Turns(h, T, D, p, x, s)
    BY <1>3, <1>4, <2>c, <2>1, RotateSearch
  <2>2. PICK D1 : D1 = Lowered(h, D, p, x, s)
    OBVIOUS
  <2>3. /\ Rotated(h, h1, T, p, x, s)
        /\ \A m : RedIn(h1, m) <=> RedIn(h, m)
        /\ Searchable(h1, T, D1, k)
    BY <1>3, <1>4, <2>c, <2>b, <2>1, <2>2, RotateSearch
  <2>4. PICK b1 : b1 = Reweighed(b, p, x, b[p])
    OBVIOUS
  <2>5. /\ InsertFixing(h1, T, b1, p)
        /\ ParentOf(h1, p) = x /\ ParentOf(h1, x) = g
        /\ KidOf(h1, s, x) = p /\ KidOf(h1, s, g) = x
        /\ KidOf(h1, o, g) = KidOf(h, o, g)
        /\ RedIn(h1, x) /\ p # RootOf(h1)
    BY <1>1, <1>2, <1>4, <1>5, <2>a, <2>3, <2>4, RotateInner
  <2>6. ~RedIn(h1, KidOf(h1, Opp(s), g))
    BY <1>5, <1>7, <2>3, <2>5
  <2>7. QED
    BY <1>4, <2>e, <2>3, <2>5, <2>6, LiftFacts
<1>10. QED
  BY <1>3, <1>5, <1>8, <1>9

\* After a red sibling has come up, the sibling is black.
LEMMA BlackenSiblingFacts ==
  ASSUME NEW h, NEW T, NEW D, NEW k, Searchable(h, T, D, k), NEW b, NEW x, NEW p, NEW s, NEW w,
         Lacking(h, T, b, x, p, s, w),
         NEW h2, h2 = BlackenSibling(h, p, s)
  PROVE  \E D2, b2, y : /\ Searchable(h2, T, D2, k)
                        /\ Lacking(h2, T, b2, x, p, s, y)
                        /\ y = KidOf(h2, Opp(s), p)
                        /\ ~RedIn(h2, y)
<1>1. Tree(h, T, D)
  BY DEF Searchable
<1>l. PICK l : l = <<s, p>>
  OBVIOUS
<1>2. /\ s \in Sides /\ Opp(s) \in Sides /\ p \in T /\ w \in T /\ KidOf(h, Opp(s), p) = w
  BY <1>1, <1>l, LackingFacts
<1>3. T \subseteq Cells /\ Nil \notin T
  BY <1>1, KidsAreCells
<1>4. CASE ~RedIn(h, w)
  <2>1. h2 = h
    BY <1>2, <1>4 DEF BlackenSibling
  <2>2. QED
    BY <1>2, <1>4, <2>1
<1>5. CASE RedIn(h, w)
  <2>1. PICK h1 : h1 = Paint(h, {p}, {w})
    OBVIOUS
  <2>2. h2 = Rotate(h1, p, s)
    BY <1>2, <1>5, <2>1 DEF BlackenSibling
  <2>3. Painted(h, h1, {p}, {w}) /\ Searchable(h1, T, D, k)
    BY <1>2, <1>3, <2>1, PaintSearch
  <2>4. KidOf(h1, Opp(s), p) = w /\ w # Nil
    BY <1>2, <1>3, <2>3 DEF Painted
  <2>5. PICK D2 : D2 = Lowered(h1, D, p, w, s)
    OBVIOUS
  <2>6. /\ Rotated(h1, h2, T, p, w, s)
        /\ \A m : RedIn(h2, m) <=> RedIn(h1, m)
        /\ Searchable(h2, T, D2, k)
    BY <1>2, <2>2, <2>3, <2>4, <2>5, RotateSearch
  <2>7. PICK y : Lacking(h2, T, Reweighed(b, p, w, b[x] + 1), x, p, s, y) /\ ~RedIn(h2, y)
    BY <1>1, <1>5, <2>3, <2>6, RedSibling
  <2>8. y = KidOf(h2, Opp(s), p)
    BY <2>7 DEF Lacking
  <2>9. QED
    BY <2>6, <2>7, <2>8
<1>6. QED
  BY <1>4, <1>5

\* After a red near nephew has come up, the far one is red.
LEMMA RedFarFacts ==
  ASSUME NEW h, NEW T, NEW D, NEW k, Searchable(h, T, D, k), NEW b, NEW x, NEW p, NEW s, NEW w,
         Lacking(h, T, b, x, p, s, w), ~RedIn(h, w), \E q \in Sides : RedIn(h, KidOf(h, q, w)),
         NEW h2, h2 = RedFar(h, w, s)
  PROVE  \E D2, b2, y : /\ Searchable(h2, T, D2, k)
                        /\ Lacking(h2, T, b2, x, p, s, y)
                        /\ ~RedIn(h2, y)
                        /\ RedIn(h2, KidOf(h2, Opp(s), y))
<1>1. Tree(h, T, D)
  BY DEF Searchable
<1>l. PICK l : l = <<s, p>>
  OBVIOUS
<1>o. PICK o : o = Opp(s)
  OBVIOUS
<1>2. /\ s \in Sides /\ o \in Sides /\ w \in T /\ Sides = {s, o} /\ Opp(o) = s
      /\ Counted(h, T, b, l)
  BY <1>1, <1>l, <1>o, LackingFacts, OppSides
<1>3. T \subseteq Cells /\ Nil \notin T /\ \A q \in Sides : KidOf(h, q, w) \in Cells
  BY <1>1, <1>2, KidsAreCells
<1>4. CASE RedIn(h, KidOf(h, o, w))
  <2>1. h2 = h
    BY <1>o, <1>4 DEF RedFar
  <2>2. QED
    BY <1>o, <1>4, <2>1
<1>5. CASE ~RedIn(h, KidOf(h, o, w))
  <2>1. PICK y : y = KidOf(h, s, w)
    OBVIOUS
  <2>2. RedIn(h, y)
    BY <1>2, <1>5, <2>1
  <2>3. y # Nil
    BY <1>2, <2>2 DEF Counted
  <2>4. PICK h1 : h1 = Paint(h, {w}, {y})
    OBVIOUS
  <2>5. h2 = Rotate(h1, w, o)
    BY <1>o, <1>5, <2>1, <2>4 DEF RedFar
  <2>6. Painted(h, h1, {w}, {y}) /\ Searchable(h1, T, D, k)
    BY <1>2, <1>3, <2>4, PaintSearch
  <2>7. KidOf(h1, Opp(o), w) = y
    BY <1>2, <1>3, <2>1, <2>6 DEF Painted
  <2>8. PICK D2 : D2 = Lowered(h1, D, w, y, o)
    OBVIOUS
  <2>9. /\ Rotated(h1, h2, T, w, y, o)
        /\ \A m : RedIn(h2, m) <=> RedIn(h1, m)
        /\ Searchable(h2, T, D2, k)
    BY <1>2, <2>3, <2>5, <2>6, <2>7, <2>8, RotateSearch
  <2>10. Rotated(h1, h2, T, w, y, Opp(s)) /\ KidOf(h, s, w) = y /\ ~RedIn(h, KidOf(h, Opp(s), w))
    BY <1>o, <1>5, <2>1, <2>9
  <2>11. /\ Lacking(h2, T, Reweighed(b, w, y, b[x]), x, p, s, y)
         /\ ~RedIn(h2, y) /\ RedIn(h2, KidOf(h2, Opp(s), y))
    BY <1>1, <2>2, <2>6, <2>9, <2>10, RedNearNephew
  <2>12. QED
    BY <2>9, <2>11
<1>6. QED
  BY <1>4, <1>5

\* The last rotation of a deletion.
LEMMA LiftSiblingFacts ==
  ASSUME NEW h, NEW T, NEW D, NEW k, Searchable(h, T, D, k), NEW b, NEW x, NEW p, NEW s, NEW w,
         Lacking(h, T, b, x, p, s, w), ~RedIn(h, w), RedIn(h, KidOf(h, Opp(s), w)),
         NEW h2, h2 = LiftSibling(h, p, s)
  PROVE  \E D2, b2 : Searchable(h2, T, D2, k) /\ DeleteFixing(h2, T, b2, RootOf(h2))
<1>1. Tree(h, T, D) /\ h \in Heaps
  BY DEF Searchable
<1>l. PICK l : l = <<s, p>>
  OBVIOUS
<1>2. /\ s \in Sides /\ Opp(s) \in Sides /\ p \in T /\ w \in T /\ KidOf(h, Opp(s), p) = w /\ w # p
  BY <1>1, <1>l, LackingFacts
<1>3. T \subseteq Cells /\ Nil \notin T /\ \A q \in Sides : KidOf(h, q, w) \in Cells /\ KidOf(h, q, w) # w
  BY <1>1, <1>2, KidsAreCells
<1>4. PICK f : f = KidOf(h, Opp(s), w)
  OBVIOUS
<1>5. PICK g : g = Dye(h, w, p)
  OBVIOUS
<1>6. /\ Painted(h, g, {}, {w}) \/ Painted(h, g, {w}, {})
      /\ \A m : RedIn(g, m) <=> IF m = w THEN RedIn(h, p) ELSE RedIn(h, m)
  BY <1>1, <1>2, <1>3, <1>5, DyeFacts
<1>7. Searchable(g, T, D, k) /\ RootOf(g) = RootOf(h)
      /\ \A q \in Sides, n \in T : KidOf(g, q, n) = KidOf(h, q, n)
  <2>1. /\ g \in Heaps /\ RootOf(g) = RootOf(h)
        /\ \A q \in Sides, n \in Cells : KidOf(g, q, n) = KidOf(h, q, n)
    BY <1>6 DEF Painted
  <2>2. Tree(g, T, D) /\ (Sorted(h, T, D, k) => Sorted(g, T, D, k))
    <3>1. CASE Painted(h, g, {}, {w})
      BY <1>1, <3>1, PaintTree
    <3>2. CASE Painted(h, g, {w}, {})
      BY <1>1, <3>2, PaintTree
    <3>3. QED
      BY <1>6, <3>1, <3>2
  <2>3. QED
    BY <1>3, <2>1, <2>2 DEF Searchable
<1>8. PICK h1 : h1 = Paint(g, {}, {p, f})
  OBVIOUS
<1>9. Painted(g, h1, {}, {p, f}) /\ Searchable(h1, T, D, k)
  BY <1>7, <1>8, PaintSearch
<1>10. h2 = Rotate(h1, p, s)
  <2>1. KidOf(h, Opp(s), w) = f
    BY <1>4
  <2>2. QED
    BY <1>2, <1>5, <1>8, <2>1 DEF LiftSibling
<1>11. /\ Tree(h1, T, D) /\ RootOf(h1) = RootOf(h)
       /\ \A n \in T, q \in Sides : KidOf(h1, q, n) = KidOf(h, q, n)
  BY <1>3, <1>7, <1>9 DEF Painted, Searchable
<1>12. \A m : RedIn(h1, m) <=> m \notin {p, f} /\ IF m = w THEN RedIn(h, p) ELSE RedIn(h, m)
  BY <1>6, <1>9 DEF Painted
<1>13. KidOf(h1, Opp(s), p) = w /\ w # Nil
  BY <1>2, <1>3, <1>11
<1>14. PICK D2 : D2 = Lowered(h1, D, p, w, s)
  OBVIOUS
<1>15. /\ Rotated(h1, h2, T, p, w, s)
       /\ \A m : RedIn(h2, m) <=> RedIn(h1, m)
       /\ Searchable(h2, T, D2, k)
  BY <1>2, <1>9, <1>10, <1>13, <1>14, RotateSearch
<1>16. KidOf(h, Opp(s), w) = f /\ RedIn(h, f)
  BY <1>4
<1>17. DeleteFixing(h2, T, Reweighed(Darkened(b, f), p, w, b[w]), RootOf(h2))
  BY <1>1, <1>11, <1>12, <1>15, <1>16, RedFarNephew
<1>18. QED
  BY <1>15, <1>17

\* One iteration of the loop.
LEMMA DeleteFixFacts ==
  ASSUME NEW h, NEW T, NEW D, NEW k, Searchable(h, T, D, k), NEW b, NEW x, DeleteFixing(h, T, b, x),
         x # RootOf(h), ~RedIn(h, x), NEW p, p = ParentOf(h, x), NEW s, s = SideIn(h, x),
         NEW g, g = BlackenSibling(h, p, s), NEW w, w = KidOf(g, Opp(s), p)
  PROVE  /\ p \in T
         /\ (\A q \in Sides : ~RedIn(g, KidOf(g, q, w))) =>
              \E D2, b2 : Searchable(Paint(g, {w}, {}), T, D2, k) /\ DeleteFixing(Paint(g, {w}, {}), T, b2, p)
         /\ ~(\A q \in Sides : ~RedIn(g, KidOf(g, q, w))) =>
              \E D2, b2 : /\ Searchable(LiftSibling(RedFar(g, w, s), p, s), T, D2, k)
                          /\ DeleteFixing(LiftSibling(RedFar(g, w, s), p, s), T, b2,
                                          RootOf(LiftSibling(RedFar(g, w, s), p, s)))
<1>1. PICK w0 : w0 = KidOf(h, Opp(s), p)
  OBVIOUS
<1>2. Lacking(h, T, b, x, p, s, w0)
  BY <1>1 DEF Lacking
<1>3. PICK D1, b1, y : /\ Searchable(g, T, D1, k)
                       /\ Lacking(g, T, b1, x, p, s, y)
                       /\ y = KidOf(g, Opp(s), p)
                       /\ ~RedIn(g, y)
  BY <1>2, BlackenSiblingFacts
<1>4. Lacking(g, T, b1, x, p, s, w) /\ ~RedIn(g, w)
  BY <1>3
<1>5. Tree(g, T, D1)
  BY <1>3 DEF Searchable
<1>l. PICK l : l = <<s, p>>
  OBVIOUS
<1>6. p \in T /\ w \in T /\ w \in Cells
  BY <1>4, <1>5, <1>l, LackingFacts, KidsAreCells
<1>7. ASSUME NEW h2, h2 = Paint(g, {w}, {}), \A q \in Sides : ~RedIn(g, KidOf(g, q, w))
      PROVE  \E D2, b2 : Searchable(h2, T, D2, k) /\ DeleteFixing(h2, T, b2, p)
  <2>1. Painted(g, h2, {w}, {}) /\ Searchable(h2, T, D1, k)
    BY <1>3, <1>6, <1>7, PaintSearch
  <2>2. DeleteFixing(h2, T, Lightened(b1, p, w), p)
    BY <1>4, <1>5, <1>7, <2>1, BlackNephews
  <2>3. QED
    BY <2>1, <2>2
<1>8. ASSUME NEW h1, NEW h2, h1 = RedFar(g, w, s), h2 = LiftSibling(h1, p, s),
             ~(\A q \in Sides : ~RedIn(g, KidOf(g, q, w)))
      PROVE  \E D2, b2 : Searchable(h2, T, D2, k) /\ DeleteFixing(h2, T, b2, RootOf(h2))
  <2>1. PICK D2, b2, z : /\ Searchable(h1, T, D2, k)
                         /\ Lacking(h1, T, b2, x, p, s, z)
                         /\ ~RedIn(h1, z)
                         /\ RedIn(h1, KidOf(h1, Opp(s), z))
    BY <1>3, <1>4, <1>8, RedFarFacts
  <2>2. QED
    BY <1>8, <2>1, LiftSiblingFacts
<1>9. QED
  BY <1>6, <1>7, <1>8

-----------------------------------------------------------------------------
(* What the recursive functions of RBTree.tla compute *)

\* S and what K leads to from it.
Hull(X, K, S) == {u \in X : \A C \in SUBSET X : S \subseteq C /\ K[C] \subseteq C => u \in C}

Grows(X, K) ==
  /\ IsFiniteSet(X)
  /\ K \in [SUBSET X -> SUBSET X]
  /\ \A A, B \in SUBSET X : A \subseteq B => K[A] \subseteq K[B]

\* f is the recursion of Below and of Ways.
Solves(f, X, K) ==
  \A S \in SUBSET X : /\ K[S] \subseteq S => f[S] = S
                      /\ ~(K[S] \subseteq S) => f[S] = f[S \cup K[S]]

\* The recursion of Below and Ways has a solution.
LEMMA HullSolves ==
  ASSUME NEW X, NEW K, Grows(X, K)
  PROVE  \A S \in SUBSET X :
           /\ K[S] \subseteq S => Hull(X, K, S) = S
           /\ Hull(X, K, S) = Hull(X, K, S \cup K[S])
BY DEF Hull, Grows

\* It has no other.
LEMMA HullOnly ==
  ASSUME NEW X, NEW K, Grows(X, K), NEW f, Solves(f, X, K)
  PROVE  \A S \in SUBSET X : f[S] = Hull(X, K, S)
<1> DEFINE B == {S \in SUBSET X : f[S] # Hull(X, K, S)}
           U == {X \ S : S \in B}
           R == StrictSubsetOrdering(X)
<1>a. IsFiniteSet(X)
  BY DEF Grows
<1>b. IsWellFoundedOn(StrictSubsetOrdering(X), FiniteSubsetsOf(X)) /\ FiniteSubsetsOf(X) = SUBSET X
  BY <1>a, FS_StrictSubsetOrderingWellFounded, FS_FiniteSubsetsOfFinite
<1>2. IsWellFoundedOn(R, SUBSET X)
  BY <1>b
<1>1. SUFFICES ASSUME B # {} PROVE FALSE
  OBVIOUS
<1>3. U \subseteq SUBSET X /\ U # {}
  <2>1. PICK S : S \in B
    BY <1>1
  <2>2. X \ S \in U
    BY <2>1
  <2>3. \A S1 \in B : X \ S1 \in SUBSET X
    OBVIOUS
  <2>4. QED
    BY <2>2, <2>3
<1> HIDE DEF R, U
<1>4. PICK u \in U : \A v \in U : <<v, u>> \notin R
  BY <1>2, <1>3, WFMin
<1>5. PICK S \in B : u = X \ S
  BY <1>4 DEF U
<1>6. \A A \in B : S \subseteq A => A = S
  <2>1. ASSUME NEW A \in B, S \subseteq A, A # S PROVE FALSE
    <3>1. X \ A \in U
      BY DEF U
    <3>2. <<X \ A, X \ S>> \in R
      BY <2>1 DEF R, StrictSubsetOrdering
    <3>3. QED
      BY <1>4, <1>5, <3>1, <3>2
  <2>2. QED
    BY <2>1
<1>7. S \in SUBSET X /\ K[S] \in SUBSET X
  BY DEF Grows
<1>8. /\ K[S] \subseteq S => Hull(X, K, S) = S
      /\ Hull(X, K, S) = Hull(X, K, S \cup K[S])
  BY <1>7, HullSolves
<1>9. /\ K[S] \subseteq S => f[S] = S
      /\ ~(K[S] \subseteq S) => f[S] = f[S \cup K[S]]
  BY <1>7 DEF Solves
<1>10. CASE K[S] \subseteq S
  BY <1>8, <1>9, <1>10
<1>11. CASE ~(K[S] \subseteq S)
  <2>1. S \cup K[S] \notin B
    BY <1>6, <1>11
  <2>2. f[S \cup K[S]] = Hull(X, K, S \cup K[S])
    BY <1>7, <2>1
  <2>3. QED
    BY <1>8, <1>9, <1>11, <2>2
<1>12. QED
  BY <1>10, <1>11

\* The links of S lead from nodes to nodes.
LEMMA KidsGrow ==
  ASSUME heap \in Heaps
  PROVE  Grows(Nodes, [S \in SUBSET Nodes |-> Kids(S)])
<1>1. \A S \in SUBSET Nodes : Kids(S) \in SUBSET Nodes
  <2>1. \A s \in Sides, c \in Cells : KidOf(heap, s, c) \in Nodes \cup {Nil, NULL}
    BY DEF Heaps, KidOf, Ptrs, Cells
  <2>2. QED
    BY <2>1 DEF Kids, Cells
<1>2. \A A, B \in SUBSET Nodes : A \subseteq B => Kids(A) \subseteq Kids(B)
  BY DEF Kids
<1>3. QED
  BY <1>1, <1>2, RBTreeAssumption DEF Grows

\* Below[S] is S and what its links lead to.
LEMMA BelowHull ==
  ASSUME heap \in Heaps
  PROVE  \A S \in SUBSET Nodes : Below[S] = Hull(Nodes, [A \in SUBSET Nodes |-> Kids(A)], S)
<1>1. PICK K : K = [S \in SUBSET Nodes |-> Kids(S)]
  OBVIOUS
<1>2. Grows(Nodes, K)
  BY <1>1, KidsGrow
<1>3. \A S \in SUBSET Nodes : K[S] = Kids(S)
  BY <1>1
<1> DEFINE P(f) == f = [S \in SUBSET Nodes |-> IF Kids(S) \subseteq S THEN S ELSE f[S \cup Kids(S)]]
<1>4. \E f : P(f)
  <2>1. PICK f : f = [S \in SUBSET Nodes |-> Hull(Nodes, K, S)]
    OBVIOUS
  <2>2. ASSUME NEW S \in SUBSET Nodes
        PROVE  f[S] = IF Kids(S) \subseteq S THEN S ELSE f[S \cup Kids(S)]
    <3>1. Kids(S) \in SUBSET Nodes
      BY <1>2, <1>3 DEF Grows
    <3>2. /\ K[S] \subseteq S => Hull(Nodes, K, S) = S
          /\ Hull(Nodes, K, S) = Hull(Nodes, K, S \cup K[S])
      BY <1>2, HullSolves
    <3>3. S \cup Kids(S) \in SUBSET Nodes /\ K[S] = Kids(S)
      BY <1>3, <3>1
    <3>4. f[S] = Hull(Nodes, K, S) /\ f[S \cup Kids(S)] = Hull(Nodes, K, S \cup Kids(S))
      BY <2>1, <3>3
    <3>5. QED
      BY <3>2, <3>3, <3>4
  <2>3. P(f)
    BY <2>1, <2>2
  <2>4. QED
    BY <2>3
<1>5. Below = CHOOSE f : P(f)
  BY DEF Below
<1>6. P(Below)
  BY <1>4, <1>5
<1>f. PICK f : f = Below
  OBVIOUS
<1>7. Solves(f, Nodes, K)
  BY <1>3, <1>6, <1>f DEF Solves
<1>8. \A S \in SUBSET Nodes : f[S] = Hull(Nodes, K, S)
  BY <1>2, <1>7, HullOnly
<1>9. QED
  BY <1>1, <1>f, <1>8

\* A set of nodes that holds the kids of its nodes holds all that is below them.
LEMMA ClosedSets ==
  ASSUME NEW T, NEW D, Tree(heap, T, D), NEW C, Kids(C) \subseteq C
  PROVE  \A n \in T : n \in C => D[n] \subseteq C
<1> DEFINE Good(n) == n \in C => D[n] \subseteq C
           B == {n \in T : ~Good(n)}
<1>1. SUFFICES ASSUME B # {} PROVE FALSE
  OBVIOUS
<1>a. B \in SUBSET T
  OBVIOUS
<1> HIDE DEF B
<1>2. PICK x \in B : \A y \in B : D[y] \subseteq D[x] => D[y] = D[x]
  BY <1>1, <1>a, LowestNode
<1> USE DEF B
<1>3. x \in C
  OBVIOUS
<1>4. ASSUME NEW s \in Sides PROVE D[KidOf(heap, s, x)] \subseteq C
  <2>1. CASE KidOf(heap, s, x) = Nil
    BY <2>1 DEF Tree
  <2>2. CASE KidOf(heap, s, x) # Nil
    <3>1. PICK c : c = KidOf(heap, s, x)
      OBVIOUS
    <3>2. c \in T /\ D[c] \subseteq D[x] /\ D[c] # D[x]
      BY <2>2, <3>1, KidsBelow
    <3>3. Good(c)
      BY <1>2, <3>2
    <3>4. c \in Kids(C)
      <4>1. c \in Nodes
        BY <3>2 DEF Tree
      <4>2. c \notin {Nil, NULL}
        BY <4>1, RBTreeAssumption
      <4>3. QED
        BY <1>3, <3>1, <4>2 DEF Kids
    <3>5. QED
      BY <3>1, <3>3, <3>4
  <2>3. QED
    BY <2>1, <2>2
<1>5. "left" \in Sides /\ Opp("left") \in Sides
  BY OppSides DEF Sides
<1>6. D[x] = {x} \cup D[KidOf(heap, "left", x)] \cup D[KidOf(heap, Opp("left"), x)]
  BY <1>5 DEF Tree
<1>7. QED
  BY <1>3, <1>4, <1>5, <1>6

\* D says what the code can reach.
LEMMA ReachFacts ==
  ASSUME heap \in Heaps, NEW T, NEW D, Tree(heap, T, D)
  PROVE  /\ TreeNodes = T
         /\ \A c \in T \cup {Nil} : Reach(c) = D[c]
<1>1. PICK K : K = [A \in SUBSET Nodes |-> Kids(A)]
  OBVIOUS
<1>2. \A S \in SUBSET Nodes : Below[S] = Hull(Nodes, K, S) /\ K[S] = Kids(S)
  BY <1>1, BelowHull
<1>3. T \subseteq Nodes /\ D[Nil] = {} /\ D[RootOf(heap)] = T /\ RootOf(heap) \in T \cup {Nil}
  BY DEF Tree
<1>4. T \subseteq Cells
  BY KidsAreCells
<1>5. Reach(Nil) = D[Nil]
  <2>1. {Nil} \ {Nil, NULL} = {}
    OBVIOUS
  <2>2. Kids({}) = {}
    BY DEF Kids
  <2>3. Hull(Nodes, K, {}) = {}
    BY <1>2, <2>2 DEF Hull
  <2>4. QED
    BY <1>2, <1>3, <2>1, <2>3 DEF Reach
<1>6. ASSUME NEW c \in T PROVE Reach(c) = D[c]
  <2>1. {c} \ {Nil, NULL} = {c} /\ {c} \in SUBSET Nodes
    BY <1>3, RBTreeAssumption
  <2>2. Reach(c) = Hull(Nodes, K, {c})
    BY <1>2, <2>1 DEF Reach
  <2>3. D[c] \in SUBSET Nodes /\ c \in D[c] /\ D[c] \subseteq T
    <3>1. D[c] \in SUBSET Nodes
      BY <1>4 DEF Tree
    <3>2. c \in D[c]
      BY KidsBelow DEF Sides
    <3>3. QED
      BY <3>1, <3>2, SubtreesNest
  <2>4. Kids(D[c]) \subseteq D[c]
    <3>1. ASSUME NEW s \in Sides, NEW m \in D[c], KidOf(heap, s, m) # Nil PROVE KidOf(heap, s, m) \in D[c]
      <4>1. m \in T /\ D[m] \subseteq D[c]
        BY <2>3, SubtreesNest
      <4>2. QED
        BY <3>1, <4>1, KidsBelow
    <3>2. QED
      BY <3>1 DEF Kids
  <2>5. Hull(Nodes, K, {c}) \subseteq D[c]
    BY <1>2, <2>3, <2>4 DEF Hull
  <2>6. D[c] \subseteq Hull(Nodes, K, {c})
    <3>1. ASSUME NEW C \in SUBSET Nodes, c \in C, Kids(C) \subseteq C PROVE D[c] \subseteq C
      BY <3>1, ClosedSets
    <3>2. QED
      BY <1>2, <2>3, <3>1 DEF Hull
  <2>7. QED
    BY <2>2, <2>5, <2>6
<1>7. TreeNodes = T
  BY <1>3, <1>5, <1>6 DEF TreeNodes
<1>8. QED
  BY <1>5, <1>6, <1>7

\* A tree has no more black nodes on a way than nodes, and one for the link that counts.
LEMMA CountBounded ==
  ASSUME NEW h, NEW T, NEW D, Tree(h, T, D), NEW b, NEW l, Counted(h, T, b, l)
  PROVE  \A c \in T \cup {Nil} : b[c] \in 0..(2 * Cardinality(Nodes))
<1> DEFINE Good(n) == b[n] <= 2 * Cardinality(D[n])
           B == {n \in T : ~Good(n)}
<1>1. /\ b[Nil] = 0
      /\ \A n \in T, s \in Sides :
              /\ b[KidOf(h, s, n)] \in Nat
              /\ b[n] \in Nat
              /\ b[n] = b[KidOf(h, s, n)] + WeightIn(h, n) + Extra(l, s, n)
  BY CountedFacts
<1>2. IsFiniteSet(Nodes) /\ Cardinality(Nodes) \in Nat
  BY RBTreeAssumption, FS_CardinalityType
<1>3. "left" \in Sides /\ T \subseteq Cells /\ Nil \in Cells
  BY KidsAreCells DEF Sides
<1>4. \A S \in SUBSET Nodes : IsFiniteSet(S) /\ Cardinality(S) \in Nat /\ Cardinality(S) <= Cardinality(Nodes)
  BY <1>2, FS_Subset, FS_CardinalityType
<1>5. \A c \in Cells : D[c] \in SUBSET Nodes
  BY DEF Tree
<1>6. B = {}
  <2>1. SUFFICES ASSUME B # {} PROVE FALSE
    OBVIOUS
  <2>a. B \in SUBSET T
    OBVIOUS
  <2> HIDE DEF B
  <2>2. PICK x \in B : \A y \in B : D[y] \subseteq D[x] => D[y] = D[x]
    BY <2>1, <2>a, LowestNode
  <2> USE DEF B
  <2>3. PICK c : c = KidOf(h, "left", x)
    OBVIOUS
  <2>4. /\ c \in Cells
        /\ b[c] \in Nat /\ b[x] \in Nat
        /\ b[x] = b[c] + WeightIn(h, x) + Extra(l, "left", x)
    <3>1. c \in Cells
      BY <1>3, <2>3, KidsAreCells
    <3>2. QED
      BY <1>1, <1>3, <2>3, <3>1
  <2>5. b[x] <= b[c] + 2
    <3>1. WeightIn(h, x) \in {0, 1} /\ Extra(l, "left", x) \in {0, 1}
      BY DEF WeightIn, Extra
    <3>2. QED
      BY <2>4, <3>1
  <2>6. b[c] <= 2 * Cardinality(D[c])
    <3>1. CASE c = Nil
      <4>1. D[c] = {}
        BY <3>1 DEF Tree
      <4>2. QED
        BY <1>1, <3>1, <4>1, FS_EmptySet
    <3>2. CASE c # Nil
      <4>1. c \in T /\ D[c] \subseteq D[x] /\ D[c] # D[x]
        BY <1>3, <2>3, <3>2, KidsBelow
      <4>2. QED
        BY <2>2, <4>1
    <3>3. QED
      BY <3>1, <3>2
  <2>7. Cardinality(D[c]) + 1 <= Cardinality(D[x])
    <3>1. x \notin D[c] /\ D[c] \cup {x} \subseteq D[x]
      BY <1>3, <2>3, KidsBelow DEF Tree
    <3>2. IsFiniteSet(D[c]) /\ IsFiniteSet(D[x])
      BY <1>3, <1>4, <1>5, <2>4
    <3>3. Cardinality(D[c] \cup {x}) = Cardinality(D[c]) + 1
      BY <3>1, <3>2, FS_AddElement
    <3>4. Cardinality(D[c] \cup {x}) <= Cardinality(D[x])
      BY <3>1, <3>2, FS_Subset
    <3>5. QED
      BY <3>3, <3>4
  <2>8. Cardinality(D[c]) \in Nat /\ Cardinality(D[x]) \in Nat
    BY <1>3, <1>4, <1>5, <2>4
  <2>9. b[x] <= 2 * Cardinality(D[x])
    BY <2>4, <2>5, <2>6, <2>7, <2>8
  <2>10. QED
    BY <2>2, <2>9
<1>7. ASSUME NEW c \in T PROVE b[c] \in 0..(2 * Cardinality(Nodes))
  <2>1. b[c] <= 2 * Cardinality(D[c])
    BY <1>6, <1>7
  <2>2. Cardinality(D[c]) \in Nat /\ Cardinality(D[c]) <= Cardinality(Nodes)
    BY <1>3, <1>4, <1>5
  <2>3. b[c] \in Nat
    BY <1>1, <1>3
  <2>4. QED
    BY <1>2, <2>1, <2>2, <2>3
<1>8. b[Nil] \in 0..(2 * Cardinality(Nodes))
  BY <1>1, <1>2
<1>9. QED
  BY <1>7, <1>8

\* One step down a way.
LEMMA FollowFacts ==
  ASSUME NEW c, NEW v, NEW s
  PROVE  Follow(<<c, v>>, s) =
           <<KidOf(heap, s, c), v + WeightIn(heap, c) + Extra(ShortLink, s, c)>>
BY DEF Follow, Weight, WeightIn, Black, Red, Extra

\* The ways are finitely many, and more lead to more.
LEMMA WaysGrow ==
  Grows(Ptrs \X Heights, [W \in SUBSET (Ptrs \X Heights) |-> Further(W)])
<1>1. PICK X : X = Ptrs \X Heights
  OBVIOUS
<1>2. IsFiniteSet(X)
  <2>1. IsFiniteSet(Ptrs)
    <3>1. IsFiniteSet(Nodes \cup {Nil})
      BY RBTreeAssumption, FS_AddElement
    <3>2. IsFiniteSet((Nodes \cup {Nil}) \cup {NULL})
      BY <3>1, FS_AddElement
    <3>3. QED
      BY <3>2 DEF Ptrs, Cells
  <2>2. IsFiniteSet(Heights)
    <3>1. Cardinality(Nodes) \in Nat
      BY RBTreeAssumption, FS_CardinalityType
    <3>2. QED
      BY <3>1, FS_Interval DEF Heights
  <2>3. QED
    BY <1>1, <2>1, <2>2, FS_Product
<1>3. \A W \in SUBSET X : Further(W) \in SUBSET X
  BY <1>1 DEF Further
<1>4. \A A, B \in SUBSET X : A \subseteq B => Further(A) \subseteq Further(B)
  BY DEF Further
<1>5. Grows(X, [W \in SUBSET X |-> Further(W)])
  BY <1>2, <1>3, <1>4 DEF Grows
<1>6. QED
  BY <1>1, <1>5

\* Ways[W] is W and what it leads to.
LEMMA WaysHull ==
  \A W \in SUBSET (Ptrs \X Heights) :
    Ways[W] = Hull(Ptrs \X Heights, [A \in SUBSET (Ptrs \X Heights) |-> Further(A)], W)
<1>x. PICK X : X = Ptrs \X Heights
  OBVIOUS
<1>1. PICK K : K = [A \in SUBSET X |-> Further(A)]
  OBVIOUS
<1>2. Grows(X, K)
  BY <1>x, <1>1, WaysGrow
<1>3. \A W \in SUBSET X : K[W] = Further(W)
  BY <1>1
<1> DEFINE P(f) == f = [W \in SUBSET (Ptrs \X Heights) |->
                          IF Further(W) \subseteq W THEN W ELSE f[W \cup Further(W)]]
<1>4. \E f : P(f)
  <2>1. PICK f : f = [W \in SUBSET X |-> Hull(X, K, W)]
    OBVIOUS
  <2>2. ASSUME NEW W \in SUBSET X
        PROVE  f[W] = IF Further(W) \subseteq W THEN W ELSE f[W \cup Further(W)]
    <3>1. Further(W) \in SUBSET X
      BY <1>2, <1>3 DEF Grows
    <3>2. /\ K[W] \subseteq W => Hull(X, K, W) = W
          /\ Hull(X, K, W) = Hull(X, K, W \cup K[W])
      BY <1>2, HullSolves
    <3>3. W \cup Further(W) \in SUBSET X /\ K[W] = Further(W)
      BY <1>3, <3>1
    <3>4. f[W] = Hull(X, K, W) /\ f[W \cup Further(W)] = Hull(X, K, W \cup Further(W))
      BY <2>1, <3>3
    <3>5. QED
      BY <3>2, <3>3, <3>4
  <2>3. f = [W \in SUBSET X |-> IF Further(W) \subseteq W THEN W ELSE f[W \cup Further(W)]]
    BY <2>1, <2>2
  <2>4. P(f)
    BY <1>x, <2>3
  <2>5. QED
    BY <2>4
<1>5. Ways = CHOOSE f : P(f)
  BY DEF Ways
<1>6. P(Ways)
  BY <1>4, <1>5
<1>f. PICK f : f = Ways
  OBVIOUS
<1>7. Solves(f, X, K)
  <2>1. f = [W \in SUBSET X |-> IF Further(W) \subseteq W THEN W ELSE f[W \cup Further(W)]]
    BY <1>x, <1>6, <1>f
  <2>2. QED
    BY <1>3, <2>1 DEF Solves
<1>8. \A W \in SUBSET X : f[W] = Hull(X, K, W)
  BY <1>2, <1>7, HullOnly
<1>9. QED
  BY <1>x, <1>1, <1>f, <1>8

\* The ways that have come to a cell of the tree and count right for it.
Balanced(T, b) ==
  {w \in Ptrs \X Heights : w[1] \in T \cup {Nil} /\ w[2] + b[w[1]] = b[RootOf(heap)]}

\* They lead to no others.
LEMMA BalancedClosed ==
  ASSUME heap \in Heaps, NEW T, NEW D, Tree(heap, T, D), NEW b, Counted(heap, T, b, ShortLink)
  PROVE  Further(Balanced(T, b)) \subseteq Balanced(T, b)
<1>1. \A n \in T, s \in Sides :
        /\ KidOf(heap, s, n) \in T \cup {Nil}
        /\ b[KidOf(heap, s, n)] \in Nat
        /\ b[n] \in Nat
        /\ b[n] = b[KidOf(heap, s, n)] + WeightIn(heap, n) + Extra(ShortLink, s, n)
  <2>1. \A n \in T, s \in Sides : KidOf(heap, s, n) \in T \cup {Nil}
    BY DEF Tree
  <2>2. QED
    BY <2>1, CountedFacts
<1>2. \A n, s : WeightIn(heap, n) \in Nat /\ Extra(ShortLink, s, n) \in Nat
  BY DEF WeightIn, Extra
<1>3. Heights \subseteq Nat
  BY RBTreeAssumption, FS_CardinalityType DEF Heights
<1>4. ASSUME NEW s \in Sides, NEW w \in Balanced(T, b), w[1] \in Nodes,
             Follow(w, s) \in Ptrs \X Heights
      PROVE  Follow(w, s) \in Balanced(T, b)
  <2>1. PICK c, v : c = w[1] /\ v = w[2]
    OBVIOUS
  <2>2. w \in Ptrs \X Heights /\ c \in T \cup {Nil} /\ v + b[c] = b[RootOf(heap)] /\ c \in Nodes
    BY <1>4, <2>1 DEF Balanced
  <2>3. w = <<c, v>> /\ v \in Nat /\ c \in T
    <3>1. w = <<w[1], w[2]>> /\ w[2] \in Heights
      BY <2>2
    <3>2. c # Nil
      BY <2>2, RBTreeAssumption
    <3>3. w = <<c, v>>
      BY <2>1, <3>1
    <3>4. QED
      BY <1>3, <2>1, <2>2, <3>1, <3>2, <3>3
  <2>4. PICK c2 : c2 = KidOf(heap, s, c)
    OBVIOUS
  <2>5. PICK v2 : v2 = v + WeightIn(heap, c) + Extra(ShortLink, s, c)
    OBVIOUS
  <2>6. Follow(w, s) = <<c2, v2>>
    BY <2>3, <2>4, <2>5, FollowFacts
  <2>7. c2 \in T \cup {Nil} /\ v2 + b[c2] = b[RootOf(heap)]
    BY <1>1, <1>2, <2>2, <2>3, <2>4, <2>5
  <2>8. <<c2, v2>> \in Ptrs \X Heights
    BY <1>4, <2>6
  <2>9. <<c2, v2>> \in Balanced(T, b)
    BY <2>7, <2>8 DEF Balanced
  <2>10. QED
    BY <2>6, <2>9
<1>5. QED
  BY <1>4 DEF Further, Balanced

\* And one of them has come to the sentinel.
LEMMA WaysEnd ==
  ASSUME heap \in Heaps, NEW T, NEW D, Tree(heap, T, D), NEW b, Counted(heap, T, b, ShortLink),
         NEW W \in SUBSET (Ptrs \X Heights), Further(W) \subseteq W
  PROVE  \A n \in T : \A v \in Nat :
           v + b[n] = b[RootOf(heap)] /\ <<n, v>> \in W => <<Nil, b[RootOf(heap)]>> \in W
<1> DEFINE r == b[RootOf(heap)]
           Good(n) == \A v \in Nat : v + b[n] = r /\ <<n, v>> \in W => <<Nil, r>> \in W
           B == {n \in T : ~Good(n)}
<1>1. SUFFICES ASSUME B # {} PROVE FALSE
  OBVIOUS
<1>a. B \in SUBSET T
  OBVIOUS
<1> HIDE DEF B
<1>2. PICK x \in B : \A y \in B : D[y] \subseteq D[x] => D[y] = D[x]
  BY <1>1, <1>a, LowestNode
<1> USE DEF B
<1> HIDE DEF r
<1>3. PICK v \in Nat : v + b[x] = r /\ <<x, v>> \in W /\ <<Nil, r>> \notin W
  OBVIOUS
<1>4. /\ b[Nil] = 0
      /\ \A n \in T, s \in Sides :
           /\ b[KidOf(heap, s, n)] \in Nat
           /\ b[n] = b[KidOf(heap, s, n)] + WeightIn(heap, n) + Extra(ShortLink, s, n)
  BY CountedFacts
<1>5. "left" \in Sides
  BY DEF Sides
<1>6. PICK c : c = KidOf(heap, "left", x)
  OBVIOUS
<1>7. PICK v2 : v2 = v + WeightIn(heap, x) + Extra(ShortLink, "left", x)
  OBVIOUS
<1>8. v2 \in Nat /\ b[c] \in Nat /\ v2 + b[c] = r
  <2>1. WeightIn(heap, x) \in Nat /\ Extra(ShortLink, "left", x) \in Nat
    BY DEF WeightIn, Extra
  <2>2. b[c] \in Nat /\ b[x] = b[c] + WeightIn(heap, x) + Extra(ShortLink, "left", x)
    BY <1>4, <1>5, <1>6
  <2>3. QED
    BY <1>3, <1>7, <2>1, <2>2
<1>9. r \in 0..(2 * Cardinality(Nodes)) /\ Cardinality(Nodes) \in Nat
  <2>1. RootOf(heap) \in T \cup {Nil}
    BY DEF Tree
  <2>2. QED
    BY <2>1, CountBounded, RBTreeAssumption, FS_CardinalityType DEF r
<1>10. v2 \in Heights
  BY <1>8, <1>9 DEF Heights
<1>11. c \in T \cup {Nil} /\ c \in Ptrs /\ x \in Nodes
  BY <1>5, <1>6, KidsAreCells DEF Tree, Ptrs
<1>12. <<c, v2>> \in W
  <2>1. Follow(<<x, v>>, "left") = <<c, v2>>
    BY <1>6, <1>7, FollowFacts
  <2>2. <<c, v2>> \in Ptrs \X Heights
    BY <1>10, <1>11
  <2>3. <<x, v>> \in {u \in W : u[1] \in Nodes}
    BY <1>3, <1>11
  <2>4. <<c, v2>> \in Further(W)
    BY <1>5, <2>1, <2>2, <2>3 DEF Further
  <2>5. QED
    BY <2>4
<1>13. CASE c = Nil
  <2>1. v2 = r
    BY <1>4, <1>8, <1>13
  <2>2. QED
    BY <1>3, <1>12, <1>13, <2>1
<1>14. CASE c # Nil
  <2>1. c \in T /\ D[c] \subseteq D[x] /\ D[c] # D[x]
    BY <1>5, <1>6, <1>14, KidsBelow
  <2>2. Good(c)
    BY <1>2, <2>1
  <2>3. QED
    BY <1>3, <1>8, <1>12, <2>2
<1>15. QED
  BY <1>13, <1>14

\* All ways from the root to the sentinel count the same.
LEMMA OneHeight ==
  ASSUME heap \in Heaps, NEW T, NEW D, Tree(heap, T, D), NEW b, Counted(heap, T, b, ShortLink)
  PROVE  Cardinality(BlackHeights) = 1
<1>x. PICK X : X = Ptrs \X Heights
  OBVIOUS
<1>1. PICK K : K = [A \in SUBSET X |-> Further(A)]
  OBVIOUS
<1>r. PICK r : r = b[RootOf(heap)]
  OBVIOUS
<1>2. \A W \in SUBSET X : Ways[W] = Hull(X, K, W) /\ K[W] = Further(W)
  BY <1>x, <1>1, WaysHull
<1>3. /\ RootOf(heap) \in T \cup {Nil} /\ T \subseteq Nodes
      /\ b[Nil] = 0
      /\ r \in 0..(2 * Cardinality(Nodes)) /\ Cardinality(Nodes) \in Nat
  <2>1. RootOf(heap) \in T \cup {Nil} /\ T \subseteq Nodes
    BY DEF Tree
  <2>2. r \in 0..(2 * Cardinality(Nodes))
    BY <1>r, <2>1, CountBounded
  <2>3. QED
    BY <2>1, <2>2, CountedFacts, RBTreeAssumption, FS_CardinalityType
<1>4. 0 \in Heights /\ r \in Heights /\ RootOf(heap) \in Ptrs
  BY <1>3 DEF Heights, Ptrs, Cells
<1>5. PICK S : S = {<<RootOf(heap), 0>>}
  OBVIOUS
<1>6. S \in SUBSET X
  BY <1>x, <1>4, <1>5
<1>7. PICK H : H = Hull(X, K, S)
  OBVIOUS
<1>8. H \subseteq Balanced(T, b)
  <2>1. Balanced(T, b) \in SUBSET X
    BY <1>x DEF Balanced
  <2>2. <<RootOf(heap), 0>> \in Balanced(T, b)
    BY <1>r, <1>3, <1>4 DEF Balanced
  <2>3. K[Balanced(T, b)] \subseteq Balanced(T, b)
    BY <1>2, <2>1, BalancedClosed
  <2>4. QED
    BY <1>5, <1>7, <2>1, <2>2, <2>3 DEF Hull
<1>9. <<Nil, r>> \in H
  <2>1. <<Nil, r>> \in X
    BY <1>x, <1>4 DEF Ptrs, Cells
  <2>2. ASSUME NEW W \in SUBSET X, S \subseteq W, K[W] \subseteq W PROVE <<Nil, r>> \in W
    <3>1. Further(W) \subseteq W /\ <<RootOf(heap), 0>> \in W
      BY <1>2, <1>5, <2>2
    <3>2. CASE RootOf(heap) = Nil
      BY <1>r, <1>3, <3>1, <3>2
    <3>3. CASE RootOf(heap) # Nil
      <4>1. RootOf(heap) \in T
        BY <1>3, <3>3
      <4>2. 0 + b[RootOf(heap)] = b[RootOf(heap)]
        BY <1>r, <1>3
      <4>3. QED
        BY <1>x, <1>r, <2>2, <3>1, <4>1, <4>2, WaysEnd
    <3>4. QED
      BY <3>2, <3>3
  <2>3. QED
    BY <1>7, <2>1, <2>2 DEF Hull
<1>10. BlackHeights = {w[2] : w \in {v \in H : v[1] = Nil}}
  BY <1>2, <1>5, <1>6, <1>7 DEF BlackHeights
<1>11. \A w \in H : w[1] = Nil => w[2] = r
  <2>1. ASSUME NEW w \in H, w[1] = Nil PROVE w[2] = r
    <3>1. w \in Ptrs \X Heights /\ w[2] + b[Nil] = r
      BY <1>r, <1>8, <2>1 DEF Balanced
    <3>2. w[2] \in Nat
      BY <1>3, <3>1 DEF Heights
    <3>3. QED
      BY <1>3, <3>1, <3>2
  <2>2. QED
    BY <2>1
<1>12. BlackHeights = {r}
  <2>1. r \in BlackHeights
    <3>1. PICK w : w = <<Nil, r>>
      OBVIOUS
    <3>2. w \in H /\ w[1] = Nil /\ w[2] = r
      BY <1>9, <3>1
    <3>3. QED
      BY <1>10, <3>2
  <2>2. QED
    BY <1>10, <1>11, <2>1
<1>13. QED
  BY <1>12, FS_Singleton
=============================================================================
