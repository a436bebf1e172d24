-------------------------- MODULE MCContainersProofs ---------------------------
(***************************************************************************)
(* The containers of module MCContainers are well formed in every state    *)
(* and keep their promises, for every set of items, ranks, pointers and    *)
(* addresses, every SIZE_MAX and every pointer size.                       *)
(*                                                                         *)
(* The search tree.  Every node gets the set of the nodes of its subtree;  *)
(* the sets of two children are disjoint and in order around the node's    *)
(* item, and the root's is the heap.  Adding a leaf, cutting out a node    *)
(* with one child and putting the successor's item in a node with two      *)
(* preserve that.  The walks, which module SearchTree defines by recursion *)
(* over the links, follow from it: the path of a value, the leftmost node  *)
(* of a subtree, and the numbering of the nodes by the GraphView adapter.  *)
(*                                                                         *)
(* The queue.  The ring fits in memory, so that no index computation wraps *)
(* around SIZE_MAX, and the items follow one another from the head.        *)
(*                                                                         *)
(* The stack, the array and the lists share one argument: a call adds,     *)
(* takes or replaces one item at one place of a sequence.  For a buffer    *)
(* the sequence is its first slots; for a list it is the items of the      *)
(* nodes on a thread, a sequence of all nodes that the links run along.    *)
(* The invariant says that there is a thread, and each call is matched     *)
(* with the thread that has one node more, one node less or the same ones. *)
(***************************************************************************)
EXTENDS MCContainers, Arithmetic, SequenceTheorems, FiniteSetTheorems

(* -------------------------------- subtrees -------------------------------- *)
Order(n) == Rank(Value(n))

(* The subtree below a link, U giving the nodes of each node's subtree.    *)
Under(U, c) == IF c = NULL THEN {} ELSE U[c]

IsTree(U) ==
  /\ IsFiniteSet(Heap) /\ NULL \notin Heap
  /\ U \in [Heap -> SUBSET Heap]
  /\ \A n \in Heap :
       /\ Left(n) \in Heap \cup {NULL} /\ Right(n) \in Heap \cup {NULL} /\ Order(n) \in Nat
       /\ U[n] = {n} \cup Under(U, Left(n)) \cup Under(U, Right(n))
       /\ \A m \in Under(U, Left(n)) : Order(m) < Order(n)
       /\ \A m \in Under(U, Right(n)) : Order(n) < Order(m)

LEMMA SubtreesAre ==
  ASSUME NEW U, IsTree(U), NEW n \in Heap
  PROVE  /\ n \in U[n] /\ U[n] \in SUBSET Heap /\ IsFiniteSet(U[n]) /\ Cardinality(U[n]) \in Nat
         /\ \A c \in Children(n) : c \in Heap /\ n \notin U[c] /\ U[c] \in SUBSET U[n]
<1>1. n \in U[n] /\ U[n] \in SUBSET Heap
  BY DEF IsTree
<1>2. IsFiniteSet(U[n])
  BY <1>1, FS_Subset DEF IsTree
<1>3. Cardinality(U[n]) \in Nat
  BY <1>2, FS_CardinalityType
<1>4. ASSUME NEW c \in Children(n)
      PROVE  c \in Heap /\ n \notin U[c] /\ U[c] \in SUBSET U[n]
  <2>1. CASE c = Left(n)
    BY <1>4, <2>1 DEF IsTree, Children, Under
  <2>2. CASE c = Right(n)
    BY <1>4, <2>2 DEF IsTree, Children, Under
  <2> QED
    BY <1>4, <2>1, <2>2 DEF Children
<1> QED
  BY <1>1, <1>2, <1>3, <1>4

(* Induction on the tree.                                                  *)
LEMMA TreeInduction ==
  ASSUME NEW U, IsTree(U), NEW S, \A n \in Heap : Children(n) \subseteq S => n \in S
  PROVE  \A n \in Heap : n \in S
<1> DEFINE Bad == {n \in Heap : n \notin S}
           Sizes == {k \in Nat : \E n \in Bad : k = Cardinality(U[n])}
<1>1. SUFFICES ASSUME Bad # {} PROVE FALSE
  OBVIOUS
<1>2. Sizes # {} /\ Sizes \subseteq Nat
  <2>1. PICK n \in Bad : TRUE
    BY <1>1
  <2>2. Cardinality(U[n]) \in Sizes
    BY <2>1, SubtreesAre
  <2> QED
    BY <2>2
<1> HIDE DEF Sizes
<1>3. PICK k \in Sizes : \A j \in Sizes : k <= j
  BY <1>2, LeastExists
<1>4. PICK n \in Bad : k = Cardinality(U[n])
  BY <1>3 DEF Sizes
<1>5. PICK c \in Children(n) : c \notin S
  BY <1>4
<1>6. c \in Heap /\ n \notin U[c] /\ U[c] \in SUBSET U[n] /\ n \in U[n] /\ IsFiniteSet(U[n])
  BY <1>4, <1>5, SubtreesAre
<1>7. Cardinality(U[c]) \in Nat
  BY <1>6, SubtreesAre
<1>8. Cardinality(U[c]) \in Sizes
  BY <1>5, <1>6, <1>7 DEF Sizes
<1>9. Cardinality(U[c]) < Cardinality(U[n])
  <2>1. U[c] \subseteq U[n] /\ U[c] # U[n]
    BY <1>6
  <2>2. U[c] \subseteq U[n] \ {n}
    BY <1>6
  <2>3. IsFiniteSet(U[n] \ {n}) /\ Cardinality(U[n] \ {n}) = Cardinality(U[n]) - 1
    BY <1>6, FS_RemoveElement
  <2>4. Cardinality(U[c]) <= Cardinality(U[n] \ {n})
    BY <2>2, <2>3, FS_Subset
  <2>5. Cardinality(U[n]) \in Nat
    BY <1>4, SubtreesAre
  <2> QED
    BY <1>7, <2>3, <2>4, <2>5
<1> QED
  BY <1>3, <1>4, <1>7, <1>8, <1>9, <1>2

(* A subtree is one of the nodes' own, and holds those of all its nodes.   *)
LEMMA SubtreesNest ==
  ASSUME NEW U, IsTree(U), NEW n \in Heap, NEW m \in U[n]
  PROVE  U[m] \subseteq U[n] /\ m \in Heap
<1> DEFINE S == {k \in Heap : \A j \in U[k] : U[j] \subseteq U[k]}
<1>1. ASSUME NEW k \in Heap, Children(k) \subseteq S PROVE k \in S
  <2>1. ASSUME NEW j \in U[k] PROVE U[j] \subseteq U[k]
    <3>1. j = k \/ \E c \in Children(k) : j \in U[c]
      BY <2>1 DEF IsTree, Children, Under
    <3>2. CASE \E c \in Children(k) : j \in U[c]
      <4>1. PICK c \in Children(k) : j \in U[c]
        BY <3>2
      <4>2. c \in S /\ U[c] \subseteq U[k]
        BY <1>1, <4>1, SubtreesAre
      <4> QED
        BY <4>1, <4>2
    <3> QED
      BY <3>1, <3>2
  <2> QED
    BY <2>1
<1> HIDE DEF S
<1>2. n \in S
  BY <1>1, TreeInduction
<1> QED
  BY <1>2, SubtreesAre DEF S

(* Every node of a subtree but its root hangs from a node of it.           *)
LEMMA HangsFrom ==
  ASSUME NEW U, IsTree(U), NEW n \in Heap, NEW m \in U[n], m # n
  PROVE  \E p \in U[n] : m \in Children(p)
<1> DEFINE S == {k \in Heap : \A j \in U[k] : j # k => \E p \in U[k] : j \in Children(p)}
<1>1. ASSUME NEW k \in Heap, Children(k) \subseteq S PROVE k \in S
  <2>1. ASSUME NEW j \in U[k], j # k PROVE \E p \in U[k] : j \in Children(p)
    <3>1. PICK c \in Children(k) : j \in U[c]
      BY <2>1 DEF IsTree, Children, Under
    <3>2. c \in S /\ U[c] \subseteq U[k] /\ k \in U[k]
      BY <1>1, <3>1, SubtreesAre
    <3>3. CASE j = c
      BY <3>1, <3>2, <3>3
    <3>4. CASE j # c
      <4>1. PICK p \in U[c] : j \in Children(p)
        BY <3>1, <3>2, <3>4
      <4> QED
        BY <3>2, <4>1
    <3> QED
      BY <3>3, <3>4
  <2> QED
    BY <2>1
<1> HIDE DEF S
<1>2. n \in S
  BY <1>1, TreeInduction
<1> QED
  BY <1>2 DEF S

(* And from one node only, by one link.                                    *)
LEMMA HangsFromOne ==
  ASSUME NEW U, IsTree(U), NEW n \in Heap, NEW p \in U[n], NEW q \in U[n],
         NEW c \in Children(p) \cap Children(q)
  PROVE  p = q
<1> DEFINE S == {k \in Heap : \A i, j \in U[k] : Children(i) \cap Children(j) # {} => i = j}
<1>1. ASSUME NEW k \in Heap, Children(k) \subseteq S PROVE k \in S
  <2>1. ASSUME NEW i \in U[k], NEW j \in U[k], NEW d \in Children(i) \cap Children(j), i # j
        PROVE  FALSE
    <3>1. i \in Heap /\ j \in Heap /\ U[i] \subseteq U[k] /\ U[j] \subseteq U[k]
      BY <2>1, SubtreesNest
    <3>2. d \in Heap /\ d \in U[i] /\ d \in U[j] /\ d \in U[d] /\ U[d] \subseteq U[i]
             /\ U[d] \subseteq U[j]
          /\ i \notin U[d] /\ j \notin U[d]
      BY <2>1, <3>1, SubtreesAre
    <3>3. ASSUME NEW a \in {i, j}, NEW b \in {i, j}, a = k, b # k, NEW e \in Children(k), b \in U[e]
          PROVE  FALSE
      <4>1. U[b] \subseteq U[e] /\ d \in U[e] /\ e \in Heap
        BY <3>1, <3>2, <3>3, SubtreesAre, SubtreesNest
      <4>2. d \in Children(k) /\ b \notin U[d]
        BY <2>1, <3>2, <3>3
      <4>3. Under(U, Left(k)) \cap Under(U, Right(k)) = {}
        BY SubtreesAre DEF IsTree
      <4>4. d = e
        BY <3>2, <3>3, <4>1, <4>2, <4>3 DEF Children, Under
      <4> QED
        BY <3>3, <4>2, <4>4
    <3>4. (i = k \/ \E e \in Children(k) : i \in U[e]) /\ (j = k \/ \E e \in Children(k) : j \in U[e])
      BY <2>1 DEF IsTree, Children, Under
    <3>5. CASE i = k \/ j = k
      BY <2>1, <3>3, <3>4, <3>5
    <3>6. CASE i # k /\ j # k
      <4>1. PICK e \in Children(k) : i \in U[e]
        BY <3>4, <3>6
      <4>2. PICK f \in Children(k) : j \in U[f]
        BY <3>4, <3>6
      <4>3. U[i] \subseteq U[e] /\ U[j] \subseteq U[f] /\ e \in S
        BY <1>1, <4>1, <4>2, SubtreesAre, SubtreesNest
      <4>4. CASE e = f
        BY <2>1, <4>1, <4>2, <4>3, <4>4
      <4>5. CASE e # f
        <5>1. Under(U, Left(k)) \cap Under(U, Right(k)) = {}
          BY SubtreesAre DEF IsTree
        <5> QED
          BY <3>2, <4>1, <4>2, <4>3, <4>5, <5>1 DEF Children, Under
      <4> QED
        BY <4>4, <4>5
    <3> QED
      BY <3>5, <3>6
  <2> QED
    BY <2>1
<1> HIDE DEF S
<1>2. n \in S
  BY <1>1, TreeInduction
<1> QED
  BY <1>2 DEF S

(* The tree hangs from the root.                                           *)
Rooted(U) ==
  /\ IsTree(U)
  /\ root \in Heap \cup {NULL}
  /\ Under(U, root) = Heap

LEMMA ChildrenStay ==
  ASSUME NEW U, IsTree(U), NEW n \in Heap, NEW m \in U[n], NEW c \in Children(m)
  PROVE  c \in U[n]
<1>1. U[m] \subseteq U[n] /\ m \in Heap
  BY SubtreesNest
<1>2. c \in Heap /\ U[c] \subseteq U[m]
  BY <1>1, SubtreesAre
<1> QED
  BY <1>1, <1>2, SubtreesAre

(* A recursive function on the nodes exists: each node's value is made of  *)
(* its children's.                                                         *)
At(f, c, none) == IF c = NULL THEN none ELSE f[c]

Solves(f, g, none, n) == f[n] = g[<<n, At(f, Left(n), none), At(f, Right(n), none)>>]

LEMMA TreeRecursion ==
  ASSUME NEW U, Rooted(U), NEW V, NEW none \in V, NEW g \in [Heap \X V \X V -> V]
  PROVE  \E f \in [Heap -> V] : \A n \in Heap : Solves(f, g, none, n)
<1>0. IsTree(U)
  BY DEF Rooted
<1> DEFINE Has(n) == \E f \in [U[n] -> V] : \A m \in U[n] : Solves(f, g, none, m)
           S == {n \in Heap : Has(n)}
<1>1. ASSUME NEW n \in Heap, Children(n) \subseteq S PROVE n \in S
  <2> DEFINE L == Under(U, Left(n))
             R == Under(U, Right(n))
  <2>1. PICK fl \in [L -> V] : \A m \in L : Solves(fl, g, none, m)
    <3>1. CASE Left(n) = NULL
      <4>1. L = {}
        BY <3>1 DEF Under
      <4>2. [m \in {} |-> none] \in [L -> V]
        BY <4>1
      <4> QED
        BY <4>1, <4>2
    <3>2. CASE Left(n) # NULL
      BY <1>1, <3>2 DEF Under, Children
    <3> QED
      BY <3>1, <3>2
  <2>2. PICK fr \in [R -> V] : \A m \in R : Solves(fr, g, none, m)
    <3>1. CASE Right(n) = NULL
      <4>1. R = {}
        BY <3>1 DEF Under
      <4>2. [m \in {} |-> none] \in [R -> V]
        BY <4>1
      <4> QED
        BY <4>1, <4>2
    <3>2. CASE Right(n) # NULL
      BY <1>1, <3>2 DEF Under, Children
    <3> QED
      BY <3>1, <3>2
  <2> DEFINE a == IF Left(n) = NULL THEN none ELSE fl[Left(n)]
             b == IF Right(n) = NULL THEN none ELSE fr[Right(n)]
             top == g[<<n, a, b>>]
             f == [m \in U[n] |-> IF m \in L THEN fl[m] ELSE IF m \in R THEN fr[m] ELSE top]
  <2>3. n \notin L /\ n \notin R /\ L \cap R = {} /\ U[n] = {n} \cup L \cup R
        /\ (Left(n) # NULL => Left(n) \in L) /\ (Right(n) # NULL => Right(n) \in R)
    <3>1. n \notin L /\ n \notin R /\ U[n] = {n} \cup L \cup R
      BY <1>0 DEF IsTree
    <3>2. L \cap R = {}
      <4>1. L \subseteq Heap /\ R \subseteq Heap
        BY <1>0, <3>1 DEF IsTree
      <4>2. Order(n) \in Nat /\ (\A m \in L : Order(m) < Order(n) /\ Order(m) \in Nat)
               /\ (\A m \in R : Order(n) < Order(m))
        BY <1>0, <4>1 DEF IsTree
      <4> QED
        BY <4>2
    <3>3. (Left(n) # NULL => Left(n) \in L) /\ (Right(n) # NULL => Right(n) \in R)
      BY <1>0, SubtreesAre DEF IsTree, Under
    <3> QED
      BY <3>1, <3>2, <3>3
  <2>4. a \in V /\ b \in V
    BY <2>1, <2>2, <2>3
  <2>5. top \in V
    BY <2>4
  <2> HIDE DEF top
  <2>6. f \in [U[n] -> V]
    BY <2>1, <2>2, <2>3, <2>5
  <2>7. ASSUME NEW m \in L PROVE Solves(f, g, none, m)
    <3>1. m \in Heap /\ Left(n) # NULL /\ Left(n) \in Heap
      BY <1>0, <2>3 DEF IsTree, Under
    <3>2. \A c \in Children(m) : c \in L
      BY <1>0, <3>1, ChildrenStay DEF Under
    <3>3. Solves(fl, g, none, m)
      BY <2>1
    <3>4. At(f, Left(m), none) = At(fl, Left(m), none) /\ At(f, Right(m), none) = At(fl, Right(m), none)
      BY <2>3, <3>2 DEF At, Children
    <3>5. f[m] = fl[m]
      BY <2>3
    <3> QED
      BY <3>3, <3>4, <3>5 DEF Solves
  <2>8. ASSUME NEW m \in R PROVE Solves(f, g, none, m)
    <3>1. m \in Heap /\ Right(n) # NULL /\ Right(n) \in Heap
      BY <1>0, <2>3 DEF IsTree, Under
    <3>2. \A c \in Children(m) : c \in R
      BY <1>0, <3>1, ChildrenStay DEF Under
    <3>3. Solves(fr, g, none, m)
      BY <2>2
    <3>4. At(f, Left(m), none) = At(fr, Left(m), none) /\ At(f, Right(m), none) = At(fr, Right(m), none)
      BY <2>3, <3>2 DEF At, Children
    <3>5. f[m] = fr[m]
      BY <2>3
    <3> QED
      BY <3>3, <3>4, <3>5 DEF Solves
  <2>9. Solves(f, g, none, n)
    <3>1. At(f, Left(n), none) = a /\ At(f, Right(n), none) = b
      BY <2>3 DEF At
    <3>2. f[n] = top
      BY <2>3
    <3> QED
      BY <3>1, <3>2 DEF Solves, top
  <2> HIDE DEF f
  <2> QED
    BY <2>3, <2>6, <2>7, <2>8, <2>9
<1> HIDE DEF S
<1>2. \A n \in Heap : n \in S
  BY <1>0, <1>1, TreeInduction
<1>3. CASE root = NULL
  <2>1. Heap = {}
    BY <1>3 DEF Rooted, Under
  <2> QED
    BY <2>1
<1>4. CASE root # NULL
  BY <1>2, <1>4 DEF Rooted, Under, S
<1> QED
  BY <1>3, <1>4

(* How a node splits its subtree.                                          *)
Splits(U, n) ==
  /\ n \notin Under(U, Left(n)) /\ n \notin Under(U, Right(n))
  /\ Under(U, Left(n)) \cap Under(U, Right(n)) = {}
  /\ U[n] = {n} \cup Under(U, Left(n)) \cup Under(U, Right(n))
  /\ U[n] \subseteq Heap
  /\ Left(n) # NULL => Left(n) \in Under(U, Left(n)) /\ Under(U, Left(n)) = U[Left(n)]
  /\ Right(n) # NULL => Right(n) \in Under(U, Right(n)) /\ Under(U, Right(n)) = U[Right(n)]
  /\ Left(n) = NULL => Under(U, Left(n)) = {}
  /\ Right(n) = NULL => Under(U, Right(n)) = {}
  /\ Order(n) \in Nat
  /\ \A m \in Under(U, Left(n)) :
       Order(m) \in Nat /\ Order(m) < Order(n) /\ m \in U[m] /\ U[m] \subseteq Under(U, Left(n))
  /\ \A m \in Under(U, Right(n)) :
       Order(m) \in Nat /\ Order(n) < Order(m) /\ m \in U[m] /\ U[m] \subseteq Under(U, Right(n))

LEMMA NodeSplits ==
  ASSUME NEW U, IsTree(U), NEW n \in Heap
  PROVE  Splits(U, n)
<1> DEFINE L == Under(U, Left(n))
           R == Under(U, Right(n))
<1>1. n \notin L /\ n \notin R /\ U[n] = {n} \cup L \cup R /\ U[n] \subseteq Heap /\ Order(n) \in Nat
  BY DEF IsTree
<1>2. /\ \A m \in L : Order(m) < Order(n) /\ Order(m) \in Nat /\ m \in Heap
      /\ \A m \in R : Order(n) < Order(m) /\ Order(m) \in Nat /\ m \in Heap
  BY <1>1 DEF IsTree
<1>3. L \cap R = {}
  BY <1>1, <1>2
<1>4. /\ Left(n) # NULL => Left(n) \in L /\ L = U[Left(n)] /\ Left(n) \in Heap
      /\ Right(n) # NULL => Right(n) \in R /\ R = U[Right(n)] /\ Right(n) \in Heap
  BY SubtreesAre DEF IsTree, Under
<1>5. (Left(n) = NULL => L = {}) /\ (Right(n) = NULL => R = {})
  BY DEF Under
<1>6. ASSUME NEW m \in L PROVE U[m] \subseteq L /\ m \in U[m]
  <2>1. m \in Heap /\ Left(n) \in Heap /\ m \in U[Left(n)] /\ L = U[Left(n)]
    BY <1>2, <1>4, <1>5
  <2>2. U[m] \subseteq U[Left(n)]
    BY <2>1, SubtreesNest
  <2>3. m \in U[m]
    BY <2>1, SubtreesAre
  <2> QED
    BY <2>1, <2>2, <2>3
<1>7. ASSUME NEW m \in R PROVE U[m] \subseteq R /\ m \in U[m]
  <2>1. m \in Heap /\ Right(n) \in Heap /\ m \in U[Right(n)] /\ R = U[Right(n)]
    BY <1>2, <1>4, <1>5
  <2>2. U[m] \subseteq U[Right(n)]
    BY <2>1, SubtreesNest
  <2>3. m \in U[m]
    BY <2>1, SubtreesAre
  <2> QED
    BY <2>1, <2>2, <2>3
<1> QED
  BY <1>1, <1>2, <1>3, <1>4, <1>5, <1>6, <1>7 DEF Splits

(* Where the descent for a rank ends below a node.                         *)
Ends(U, n, m, r) ==
  /\ m \in U[n]
  /\ (\E j \in U[n] : Order(j) = r) => Order(m) = r
  /\ Order(m) > r => Left(m) = NULL
  /\ Order(m) < r => Right(m) = NULL
  /\ \A k \in U[n] :
       /\ m \in Under(U, Left(k)) => r < Order(k)
       /\ m \in Under(U, Right(k)) => Order(k) < r

Descends(f, r) ==
  f = [n \in Heap |->
        IF Rank(Value(n)) > r THEN IF Left(n) = NULL THEN n ELSE f[Left(n)]
        ELSE IF Rank(Value(n)) < r THEN IF Right(n) = NULL THEN n ELSE f[Right(n)]
        ELSE n]

LEMMA DescentEnds ==
  ASSUME NEW U, IsTree(U), NEW r \in Nat, NEW f, Descends(f, r)
  PROVE  \A n \in Heap : Ends(U, n, f[n], r)
<1> DEFINE S == {n \in Heap : Ends(U, n, f[n], r)}
<1>1. ASSUME NEW n \in Heap, Children(n) \subseteq S PROVE n \in S
  <2>0. Splits(U, n)
    BY NodeSplits
  <2>1. f[n] = IF Order(n) > r THEN IF Left(n) = NULL THEN n ELSE f[Left(n)]
               ELSE IF Order(n) < r THEN IF Right(n) = NULL THEN n ELSE f[Right(n)]
               ELSE n
    BY DEF Descends, Order
  <2>2. \A k \in U[n] : k # n => n \notin Under(U, Left(k)) /\ n \notin Under(U, Right(k))
    <3>1. ASSUME NEW k \in U[n], k # n PROVE n \notin U[k]
      BY <2>0, <3>1 DEF Splits
    <3>2. \A k \in U[n] : Splits(U, k)
      BY <2>0, NodeSplits DEF Splits
    <3> QED
      BY <3>1, <3>2 DEF Splits
  <2>3. CASE Order(n) > r /\ Left(n) = NULL
    <3>1. f[n] = n
      BY <2>1, <2>3
    <3> QED
      BY <2>0, <2>2, <2>3, <3>1 DEF Splits, Ends
  <2>4. CASE Order(n) > r /\ Left(n) # NULL
    <3>1. f[n] = f[Left(n)] /\ Ends(U, Left(n), f[n], r)
      BY <1>1, <2>1, <2>4 DEF Children
    <3>2. \A k \in Under(U, Right(n)) : Splits(U, k)
      BY <2>0, NodeSplits DEF Splits
    <3>3. \A k \in Under(U, Right(n)) : f[n] \notin Under(U, Left(k)) /\ f[n] \notin Under(U, Right(k))
      BY <2>0, <2>4, <3>1, <3>2 DEF Splits, Ends
    <3> QED
      BY <2>0, <2>4, <3>1, <3>3 DEF Splits, Ends
  <2>5. CASE Order(n) < r /\ Right(n) = NULL
    <3>1. f[n] = n
      BY <2>0, <2>1, <2>5 DEF Splits
    <3> QED
      BY <2>0, <2>2, <2>5, <3>1 DEF Splits, Ends
  <2>6. CASE Order(n) < r /\ Right(n) # NULL
    <3>1. f[n] = f[Right(n)] /\ Ends(U, Right(n), f[n], r)
      BY <1>1, <2>0, <2>1, <2>6 DEF Children, Splits
    <3>2. \A k \in Under(U, Left(n)) : Splits(U, k)
      BY <2>0, NodeSplits DEF Splits
    <3>3. \A k \in Under(U, Left(n)) : f[n] \notin Under(U, Left(k)) /\ f[n] \notin Under(U, Right(k))
      BY <2>0, <2>6, <3>1, <3>2 DEF Splits, Ends
    <3> QED
      BY <2>0, <2>6, <3>1, <3>3 DEF Splits, Ends
  <2>7. CASE Order(n) = r
    <3>1. f[n] = n
      BY <2>1, <2>7
    <3> QED
      BY <2>0, <2>2, <2>7, <3>1 DEF Splits, Ends
  <2> QED
    BY <2>0, <2>3, <2>4, <2>5, <2>6, <2>7 DEF Splits
<1> HIDE DEF S
<1>2. \A n \in Heap : n \in S
  BY <1>1, TreeInduction
<1> QED
  BY <1>2 DEF S

LEMMA ReachedIs ==
  ASSUME NEW U, Rooted(U), root # NULL, NEW r \in Nat
  PROVE  Reached(r) \in Heap /\ Ends(U, root, Reached(r), r)
<1> DEFINE Next1(n, a, b) ==
             IF Order(n) > r THEN IF Left(n) = NULL THEN n ELSE a
             ELSE IF Order(n) < r THEN IF Right(n) = NULL THEN n ELSE b
             ELSE n
           V == Heap \cup {NULL}
           g == [t \in Heap \X V \X V |-> Next1(t[1], t[2], t[3])]
<1>1. g \in [Heap \X V \X V -> V]
  OBVIOUS
<1>2. \A n \in Heap : \A a, b \in V : g[<<n, a, b>>] = Next1(n, a, b)
  OBVIOUS
<1> HIDE DEF g
<1>3. PICK h \in [Heap -> V] : \A n \in Heap : Solves(h, g, NULL, n)
  BY <1>1, TreeRecursion
<1>4. Descends(h, r)
  <2>1. \A n \in Heap : Left(n) \in Heap \cup {NULL} /\ Right(n) \in Heap \cup {NULL} /\ NULL \notin Heap
    BY DEF Rooted, IsTree
  <2>2. \A n \in Heap : At(h, Left(n), NULL) \in V /\ At(h, Right(n), NULL) \in V
    BY <1>3, <2>1 DEF At
  <2>3. \A n \in Heap : h[n] = Next1(n, At(h, Left(n), NULL), At(h, Right(n), NULL))
    BY <1>2, <1>3, <2>2 DEF Solves
  <2> QED
    BY <1>3, <2>3 DEF Descends, At, Order
<1> DEFINE f == CHOOSE f : Descends(f, r)
<1>5. Descends(f, r)
  BY <1>4
<1>6. Reached(r) = f[root]
  BY DEF Reached, Descends
<1> HIDE DEF f
<1>7. root \in Heap
  BY DEF Rooted
<1>8. Ends(U, root, f[root], r)
  BY <1>5, <1>7, DescentEnds DEF Rooted
<1>9. f[root] \in Heap
  BY <1>7, <1>8 DEF Ends, Rooted, IsTree
<1> QED
  BY <1>6, <1>8, <1>9

(* The leftmost node below a node has the least rank there.                *)
GoesLeft(f) == f = [m \in Heap |-> IF Left(m) = NULL THEN m ELSE f[Left(m)]]

LeastBelow(U, n, m) ==
  m \in U[n] /\ Left(m) = NULL /\ \A j \in U[n] : j # m => Order(m) < Order(j)

LEMMA LeftmostIs ==
  ASSUME NEW U, Rooted(U), NEW n \in Heap
  PROVE  Leftmost(n) \in Heap /\ LeastBelow(U, n, Leftmost(n))
<1> DEFINE V == Heap
           g == [t \in Heap \X V \X V |-> IF Left(t[1]) = NULL THEN t[1] ELSE t[2]]
<1>0. IsTree(U)
  BY DEF Rooted
<1>1. g \in [Heap \X V \X V -> V]
  OBVIOUS
<1>2. \A m \in Heap : \A a, b \in V : g[<<m, a, b>>] = IF Left(m) = NULL THEN m ELSE a
  OBVIOUS
<1> HIDE DEF g
<1>3. PICK h \in [Heap -> V] : \A m \in Heap : Solves(h, g, n, m)
  BY <1>1, TreeRecursion
<1>4. GoesLeft(h)
  <2>1. \A m \in Heap : Left(m) \in Heap \cup {NULL} /\ Right(m) \in Heap \cup {NULL} /\ NULL \notin Heap
    BY DEF Rooted, IsTree
  <2>2. \A m \in Heap : At(h, Left(m), n) \in V /\ At(h, Right(m), n) \in V
    BY <1>3, <2>1 DEF At
  <2>3. ASSUME NEW m \in Heap PROVE h[m] = IF Left(m) = NULL THEN m ELSE At(h, Left(m), n)
    <3>1. h[m] = g[<<m, At(h, Left(m), n), At(h, Right(m), n)>>]
      BY <1>3 DEF Solves
    <3> QED
      BY <1>2, <2>2, <3>1
  <2> QED
    BY <1>3, <2>3 DEF GoesLeft, At
<1> DEFINE f == CHOOSE f : GoesLeft(f)
<1>5. GoesLeft(f)
  BY <1>4
<1>6. Leftmost(n) = f[n]
  BY DEF Leftmost, GoesLeft
<1> HIDE DEF f
<1> DEFINE S == {k \in Heap : LeastBelow(U, k, f[k])}
<1>7. ASSUME NEW k \in Heap, Children(k) \subseteq S PROVE k \in S
  <2>1. f[k] = IF Left(k) = NULL THEN k ELSE f[Left(k)]
    BY <1>5 DEF GoesLeft
  <2>2. Splits(U, k)
    BY <1>0, NodeSplits
  <2>3. CASE Left(k) = NULL
    BY <2>1, <2>2, <2>3 DEF Splits, LeastBelow
  <2>4. CASE Left(k) # NULL
    <3>1. LeastBelow(U, Left(k), f[k])
      BY <1>7, <2>1, <2>4 DEF Children
    <3> QED
      BY <2>2, <2>4, <3>1 DEF Splits, LeastBelow
  <2> QED
    BY <2>3, <2>4
<1> HIDE DEF S
<1>8. n \in S
  BY <1>0, <1>7, TreeInduction
<1>9. LeastBelow(U, n, f[n])
  BY <1>8 DEF S
<1>10. f[n] \in Heap
  BY <1>0, <1>9 DEF LeastBelow, IsTree
<1> QED
  BY <1>6, <1>9, <1>10

(* -------------------------------- the walk -------------------------------- *)
(* A sequence lists a set of nodes in strictly rising order.               *)
Enumerates(T, s) ==
  /\ s \in Seq(Heap)
  /\ IsFiniteSet(T) /\ Len(s) = Cardinality(T)
  /\ \A i \in 1 .. Len(s) : s[i] \in T
  /\ \A n \in T : \E i \in 1 .. Len(s) : s[i] = n
  /\ \A i, j \in 1 .. Len(s) : i < j => Order(s[i]) < Order(s[j])

(* A sequence in three parts.                                              *)
Joins(s, l, n, r) ==
  /\ Len(s) = Len(l) + 1 + Len(r)
  /\ \A i \in 1 .. Len(l) : s[i] = l[i]
  /\ s[Len(l) + 1] = n
  /\ \A i \in 1 .. Len(r) : s[Len(l) + 1 + i] = r[i]

LEMMA JoinIs ==
  ASSUME NEW X, NEW l \in Seq(X), NEW n \in X, NEW r \in Seq(X)
  PROVE  l \o <<n>> \o r \in Seq(X) /\ Joins(l \o <<n>> \o r, l, n, r)
<1> DEFINE p == l \o <<n>>
           s == p \o r
<1>1. p \in Seq(X) /\ Len(p) = Len(l) + 1 /\ p[Len(l) + 1] = n /\ \A i \in 1 .. Len(l) : p[i] = l[i]
  OBVIOUS
<1> HIDE DEF p
<1>2. s \in Seq(X) /\ Len(s) = Len(l) + 1 + Len(r)
  BY <1>1
<1>3. \A i \in 1 .. Len(l) + 1 : s[i] = p[i]
  BY <1>1
<1>4. \A i \in 1 .. Len(r) : s[Len(l) + 1 + i] = r[i]
  BY <1>1
<1>5. Joins(s, l, n, r)
  <2>1. Len(l) \in Nat
    OBVIOUS
  <2> QED
    BY <1>1, <1>2, <1>3, <1>4, <2>1 DEF Joins
<1> QED
  BY <1>2, <1>5 DEF p

LEMMA EnumerationsJoin ==
  ASSUME NEW U, IsTree(U), NEW n \in Heap, NEW l, NEW r,
         Enumerates(Under(U, Left(n)), l), Enumerates(Under(U, Right(n)), r)
  PROVE  Enumerates(U[n], l \o <<n>> \o r)
<1> DEFINE s == l \o <<n>> \o r
           L == Under(U, Left(n))
           R == Under(U, Right(n))
<1>1. s \in Seq(Heap) /\ Joins(s, l, n, r) /\ Len(l) \in Nat /\ Len(r) \in Nat
  BY JoinIs DEF Enumerates
<1> HIDE DEF s
<1>2. Splits(U, n)
  BY NodeSplits
<1>3. IsFiniteSet(U[n])
  BY SubtreesAre
<1>4. Cardinality(U[n]) = Cardinality(L) + 1 + Cardinality(R)
  <2>1. IsFiniteSet(L) /\ IsFiniteSet(R)
    BY DEF Enumerates
  <2>2. IsFiniteSet(L \cup R)
           /\ Cardinality(L \cup R) = Cardinality(L) + Cardinality(R) - Cardinality(L \cap R)
    BY <2>1, FS_Union
  <2>3. L \cap R = {} /\ n \notin L \cup R /\ U[n] = (L \cup R) \cup {n}
    BY <1>2 DEF Splits
  <2>4. Cardinality((L \cup R) \cup {n}) = Cardinality(L \cup R) + 1
    BY <2>2, <2>3, FS_AddElement
  <2>5. Cardinality({}) = 0
    BY FS_EmptySet
  <2>6. Cardinality(L) \in Nat /\ Cardinality(R) \in Nat
    BY <2>1, FS_CardinalityType
  <2>7. Cardinality(L \cap R) = 0
    BY <2>3, <2>5
  <2>8. Cardinality(U[n]) = Cardinality(L \cup R) + 1
    BY <2>3, <2>4
  <2> HIDE DEF L, R
  <2> QED
    BY <2>2, <2>6, <2>7, <2>8
<1>5. Len(s) = Cardinality(U[n])
  BY <1>1, <1>4 DEF Enumerates, Joins
<1>6. \A i \in 1 .. Len(s) :
        \/ i \in 1 .. Len(l) /\ s[i] = l[i] /\ s[i] \in L
        \/ i = Len(l) + 1 /\ s[i] = n
        \/ /\ i - Len(l) - 1 \in 1 .. Len(r)
           /\ s[i] = r[i - Len(l) - 1] /\ s[i] \in R
  <2>1. ASSUME NEW i \in 1 .. Len(s), i > Len(l) + 1
        PROVE  i - Len(l) - 1 \in 1 .. Len(r) /\ s[i] = r[i - Len(l) - 1]
    <3>1. i - Len(l) - 1 \in 1 .. Len(r) /\ Len(l) + 1 + (i - Len(l) - 1) = i
      BY <1>1, <2>1 DEF Joins
    <3> QED
      BY <1>1, <3>1 DEF Joins
  <2> QED
    BY <1>1, <2>1 DEF Joins, Enumerates
<1>7. \A i \in 1 .. Len(s) : s[i] \in U[n]
  BY <1>2, <1>6 DEF Splits
<1>8. ASSUME NEW m \in U[n] PROVE \E i \in 1 .. Len(s) : s[i] = m
  <2>1. CASE m \in L
    <3>1. PICK i \in 1 .. Len(l) : l[i] = m
      BY <2>1 DEF Enumerates
    <3>2. i \in 1 .. Len(s) /\ s[i] = m
      BY <1>1, <3>1 DEF Joins
    <3> QED
      BY <3>2
  <2>2. CASE m = n
    <3>1. Len(l) + 1 \in 1 .. Len(s) /\ s[Len(l) + 1] = m
      BY <1>1, <2>2 DEF Joins
    <3> QED
      BY <3>1
  <2>3. CASE m \in R
    <3>1. PICK i \in 1 .. Len(r) : r[i] = m
      BY <2>3 DEF Enumerates
    <3>2. Len(l) + 1 + i \in 1 .. Len(s) /\ s[Len(l) + 1 + i] = m
      BY <1>1, <3>1 DEF Joins
    <3> QED
      BY <3>2
  <2> QED
    BY <1>2, <1>8, <2>1, <2>2, <2>3 DEF Splits
<1>9. ASSUME NEW i \in 1 .. Len(s), NEW j \in 1 .. Len(s), i < j
      PROVE  Order(s[i]) < Order(s[j])
  <2>1. \A a \in L : \A b \in R : Order(a) < Order(n) /\ Order(n) < Order(b) /\ Order(a) < Order(b)
    <3>1. Order(n) \in Nat /\ (\A a \in L : Order(a) \in Nat /\ Order(a) < Order(n))
          /\ (\A b \in R : Order(b) \in Nat /\ Order(n) < Order(b))
      BY <1>2 DEF Splits
    <3> QED
      BY <3>1
  <2>2. (\A a \in L : Order(a) < Order(n)) /\ \A b \in R : Order(n) < Order(b)
    BY <1>2 DEF Splits
  <2>3. CASE i \in 1 .. Len(l) /\ s[i] = l[i] /\ s[i] \in L
    <3>1. CASE j \in 1 .. Len(l) /\ s[j] = l[j]
      BY <1>9, <2>3, <3>1 DEF Enumerates
    <3> QED
      BY <1>6, <2>1, <2>2, <2>3, <3>1
  <2>4. CASE i = Len(l) + 1 /\ s[i] = n
    <3>1. ~ (j \in 1 .. Len(l)) /\ j # Len(l) + 1
      BY <1>1, <1>9, <2>4
    <3> QED
      BY <1>6, <2>2, <2>4, <3>1
  <2>5. CASE i - Len(l) - 1 \in 1 .. Len(r) /\ s[i] = r[i - Len(l) - 1]
    <3>1. ~ (j \in 1 .. Len(l)) /\ j # Len(l) + 1
      BY <1>1, <1>9, <2>5
    <3>2. j - Len(l) - 1 \in 1 .. Len(r) /\ s[j] = r[j - Len(l) - 1]
      BY <1>6, <3>1
    <3>3. i - Len(l) - 1 < j - Len(l) - 1
      BY <1>1, <1>9
    <3> QED
      BY <2>5, <3>2, <3>3 DEF Enumerates
  <2> QED
    BY <1>6, <2>3, <2>4, <2>5
<1>10. Enumerates(U[n], s)
  BY <1>1, <1>3, <1>5, <1>7, <1>8, <1>9 DEF Enumerates
<1> QED
  BY <1>10 DEF s

(* The sequence below a link, f giving that of each node.                  *)
SeqUnder(f, c) == IF c = NULL THEN <<>> ELSE f[c]

WalksIn(f) ==
  f = [n \in Heap |->
        (IF Left(n) = NULL THEN <<>> ELSE f[Left(n)]) \o <<n>> \o
        (IF Right(n) = NULL THEN <<>> ELSE f[Right(n)])]

Below == CHOOSE f : WalksIn(f)

LEMMA EmptyEnumerated == Enumerates({}, <<>>)
<1>1. IsFiniteSet({}) /\ Cardinality({}) = 0
  BY FS_EmptySet
<1>2. <<>> \in Seq(Heap) /\ Len(<<>>) = 0
  OBVIOUS
<1> QED
  BY <1>1, <1>2 DEF Enumerates

(* Every subtree is walked in rising order.                                *)
LEMMA BelowEnumerates ==
  ASSUME NEW U, Rooted(U)
  PROVE  /\ WalksIn(Below)
         /\ \A n \in Heap : Enumerates(U[n], Below[n])
         /\ Enumerates(Heap, Walked)
         /\ Walked = SeqUnder(Below, root)
<1>0. IsTree(U)
  BY DEF Rooted
<1> DEFINE V == Seq(Heap)
           g == [t \in Heap \X V \X V |-> t[2] \o <<t[1]>> \o t[3]]
<1>1. g \in [Heap \X V \X V -> V]
  <2>1. \A n \in Heap : \A a, b \in V : a \o <<n>> \o b \in V
    BY JoinIs
  <2> QED
    BY <2>1
<1>2. \A n \in Heap : \A a, b \in V : g[<<n, a, b>>] = a \o <<n>> \o b
  OBVIOUS
<1> HIDE DEF g
<1>3. <<>> \in V
  OBVIOUS
<1>4. PICK h \in [Heap -> V] : \A n \in Heap : Solves(h, g, <<>>, n)
  BY <1>1, <1>3, TreeRecursion
<1>5. WalksIn(h)
  <2>1. \A n \in Heap : Left(n) \in Heap \cup {NULL} /\ Right(n) \in Heap \cup {NULL} /\ NULL \notin Heap
    BY <1>0 DEF IsTree
  <2>2. \A n \in Heap : At(h, Left(n), <<>>) \in V /\ At(h, Right(n), <<>>) \in V
    BY <1>3, <1>4, <2>1 DEF At
  <2>3. ASSUME NEW n \in Heap
        PROVE  h[n] = At(h, Left(n), <<>>) \o <<n>> \o At(h, Right(n), <<>>)
    <3>1. h[n] = g[<<n, At(h, Left(n), <<>>), At(h, Right(n), <<>>)>>]
      BY <1>4 DEF Solves
    <3> QED
      BY <1>2, <2>2, <3>1
  <2>4. h = [n \in Heap |-> h[n]]
    BY <1>4
  <2> QED
    BY <2>3, <2>4 DEF WalksIn, At
<1>6. WalksIn(Below)
  BY <1>5 DEF Below
<1> DEFINE S == {n \in Heap : Enumerates(U[n], Below[n])}
<1>7. ASSUME NEW n \in Heap, Children(n) \subseteq S PROVE n \in S
  <2> DEFINE l == IF Left(n) = NULL THEN <<>> ELSE Below[Left(n)]
             r == IF Right(n) = NULL THEN <<>> ELSE Below[Right(n)]
  <2>1. Below[n] = l \o <<n>> \o r
    BY <1>6 DEF WalksIn
  <2>2. Enumerates(Under(U, Left(n)), l)
    BY <1>7, EmptyEnumerated DEF Under, Children
  <2>3. Enumerates(Under(U, Right(n)), r)
    BY <1>7, EmptyEnumerated DEF Under, Children
  <2> HIDE DEF l, r
  <2> QED
    BY <1>0, <2>1, <2>2, <2>3, EnumerationsJoin
<1> HIDE DEF S
<1>8. \A n \in Heap : n \in S
  BY <1>0, <1>7, TreeInduction
<1>9. \A n \in Heap : Enumerates(U[n], Below[n])
  BY <1>8 DEF S
<1>10. Walked = SeqUnder(Below, root)
  BY DEF Walked, Below, WalksIn, SeqUnder
<1>11. Enumerates(Under(U, root), SeqUnder(Below, root))
  BY <1>9, EmptyEnumerated DEF Rooted, Under, SeqUnder
<1> QED
  BY <1>6, <1>9, <1>10, <1>11 DEF Rooted

(* ----------------------------- the two indexes ---------------------------- *)
(* The sequences below a node and below its links.                         *)
LEMMA BelowJoins ==
  ASSUME NEW U, Rooted(U), NEW n \in Heap
  PROVE  /\ Joins(Below[n], SeqUnder(Below, Left(n)), n, SeqUnder(Below, Right(n)))
         /\ \A c \in {n, Left(n), Right(n)} :
              /\ SeqUnder(Below, c) \in Seq(Heap)
              /\ Enumerates(Under(U, c), SeqUnder(Below, c))
         /\ Left(n) \in Heap \cup {NULL} /\ Right(n) \in Heap \cup {NULL} /\ n # NULL
<1>1. IsTree(U) /\ WalksIn(Below) /\ \A m \in Heap : Enumerates(U[m], Below[m])
  BY BelowEnumerates DEF Rooted
<1>2. Left(n) \in Heap \cup {NULL} /\ Right(n) \in Heap \cup {NULL} /\ n # NULL
  BY <1>1 DEF IsTree
<1>3. ASSUME NEW c \in Heap \cup {NULL}
      PROVE  Enumerates(Under(U, c), SeqUnder(Below, c))
  BY <1>1, EmptyEnumerated DEF Under, SeqUnder
<1>4. \A c \in Heap \cup {NULL} : SeqUnder(Below, c) \in Seq(Heap)
  BY <1>3 DEF Enumerates
<1>5. Below[n] = SeqUnder(Below, Left(n)) \o <<n>> \o SeqUnder(Below, Right(n))
  BY <1>1 DEF WalksIn, SeqUnder
<1>6. Joins(Below[n], SeqUnder(Below, Left(n)), n, SeqUnder(Below, Right(n)))
  BY <1>2, <1>4, <1>5, JoinIs
<1> QED
  BY <1>2, <1>3, <1>4, <1>6

(* What the walk to an index answers below a link, and the counter after.  *)
Lands(t, n, c) ==
  LET s == SeqUnder(Below, n)
  IN  IF c <= t /\ t < c + Len(s) THEN <<s[t - c + 1], t>> ELSE <<NULL, c + Len(s)>>

LEMMA LandsInTurn ==
  ASSUME NEW U, Rooted(U), NEW n \in Heap, NEW t \in Nat, NEW c \in Nat
  PROVE  /\ Lands(t, Left(n), c)[2] \in Nat
         /\ Lands(t, n, c) =
              IF Lands(t, Left(n), c)[1] # NULL THEN Lands(t, Left(n), c)
              ELSE IF Lands(t, Left(n), c)[2] = t THEN <<n, Lands(t, Left(n), c)[2]>>
              ELSE Lands(t, Right(n), Lands(t, Left(n), c)[2] + 1)
<1> DEFINE l == SeqUnder(Below, Left(n))
           r == SeqUnder(Below, Right(n))
           s == Below[n]
<1>1. Joins(s, l, n, r) /\ l \in Seq(Heap) /\ r \in Seq(Heap) /\ s = SeqUnder(Below, n)
  BY BelowJoins DEF SeqUnder
<1>2. NULL \notin Heap
  BY DEF Rooted, IsTree
<1>3. Len(l) \in Nat /\ Len(r) \in Nat /\ Len(s) = Len(l) + 1 + Len(r)
  BY <1>1 DEF Joins
<1>4. /\ Lands(t, Left(n), c) = IF c <= t
           /\ t < c + Len(l) THEN <<l[t - c + 1], t>> ELSE <<NULL, c + Len(l)>>
      /\ \A d : Lands(t, Right(n), d) = IF d <= t
           /\ t < d + Len(r) THEN <<r[t - d + 1], t>> ELSE <<NULL, d + Len(r)>>
      /\ Lands(t, n, c) = IF c <= t /\ t < c + Len(s) THEN <<s[t - c + 1], t>> ELSE <<NULL, c + Len(s)>>
  BY <1>1 DEF Lands
<1> HIDE DEF l, r, s
<1>5. CASE c <= t /\ t < c + Len(l)
  <2>1. t - c + 1 \in 1 .. Len(l)
    BY <1>3, <1>5
  <2>2. l[t - c + 1] \in Heap /\ s[t - c + 1] = l[t - c + 1]
    BY <1>1, <2>1 DEF Joins
  <2>3. Lands(t, Left(n), c) = <<l[t - c + 1], t>> /\ Lands(t, n, c) = <<l[t - c + 1], t>>
    BY <1>3, <1>4, <1>5, <2>2
  <2> QED
    BY <1>2, <2>2, <2>3
<1>6. CASE t = c + Len(l)
  <2>1. Lands(t, Left(n), c) = <<NULL, t>>
    BY <1>3, <1>4, <1>6
  <2>2. s[t - c + 1] = n
    BY <1>1, <1>3, <1>6 DEF Joins
  <2>3. Lands(t, n, c) = <<n, t>>
    BY <1>3, <1>4, <1>6, <2>2
  <2> QED
    BY <2>1, <2>3
<1>7. CASE ~ (c <= t /\ t < c + Len(l)) /\ t # c + Len(l)
  <2> DEFINE d == c + Len(l)
  <2>1. Lands(t, Left(n), c) = <<NULL, d>> /\ d \in Nat /\ d # t
    BY <1>3, <1>4, <1>7
  <2>2. CASE d + 1 <= t /\ t < d + 1 + Len(r)
    <3>1. t - (d + 1) + 1 \in 1 .. Len(r) /\ Len(l) + 1 + (t - (d + 1) + 1) = t - c + 1
      BY <1>3, <2>2
    <3>2. s[t - c + 1] = r[t - (d + 1) + 1]
      BY <1>1, <3>1 DEF Joins
    <3>3. Lands(t, n, c) = <<s[t - c + 1], t>>
      BY <1>3, <1>4, <2>2
    <3>4. Lands(t, Right(n), d + 1) = <<r[t - (d + 1) + 1], t>>
      BY <1>4, <2>2
    <3> QED
      BY <2>1, <3>2, <3>3, <3>4
  <2>3. CASE ~ (d + 1 <= t /\ t < d + 1 + Len(r))
    <3>1. ~ (c <= t /\ t < c + Len(s)) /\ c + Len(s) = d + 1 + Len(r)
      BY <1>3, <1>7, <2>1, <2>3
    <3>2. Lands(t, n, c) = <<NULL, d + 1 + Len(r)>>
      BY <1>4, <3>1
    <3>3. Lands(t, Right(n), d + 1) = <<NULL, d + 1 + Len(r)>>
      BY <1>4, <2>3
    <3> QED
      BY <2>1, <3>2, <3>3
  <2> QED
    BY <2>2, <2>3
<1> QED
  BY <1>3, <1>5, <1>6, <1>7

Seeks(f, t) ==
  f = [n \in Heap \cup {NULL} |-> [current \in Nat |->
        IF n = NULL THEN <<NULL, current>>
        ELSE LET left == f[Left(n)][current]
             IN  IF left[1] # NULL THEN left
                 ELSE IF left[2] = t THEN <<n, left[2]>>
                 ELSE f[Right(n)][left[2] + 1]]]

LEMMA NodeAtIs ==
  ASSUME NEW U, Rooted(U), NEW t \in Nat
  PROVE  NodeAt(t) = IF t < Len(Walked) THEN Walked[t + 1] ELSE NULL
<1> DEFINE N == Heap \cup {NULL}
           h == [n \in N |-> [c \in Nat |-> Lands(t, n, c)]]
<1>1. \A c \in Nat : Lands(t, NULL, c) = <<NULL, c>>
  BY DEF Lands, SeqUnder
<1>2. \A n \in Heap : Left(n) \in N /\ Right(n) \in N /\ n # NULL
  BY DEF Rooted, IsTree
<1>3. Seeks(h, t)
  <2>1. \A n \in N : \A c \in Nat : h[n][c] = Lands(t, n, c)
    OBVIOUS
  <2>2. h = [n \in N |-> [c \in Nat |-> h[n][c]]]
    OBVIOUS
  <2> HIDE DEF h
  <2>3. ASSUME NEW n \in N, NEW c \in Nat
        PROVE  h[n][c] = IF n = NULL THEN <<NULL, c>>
                         ELSE LET left == h[Left(n)][c]
                              IN  IF left[1] # NULL THEN left
                                  ELSE IF left[2] = t THEN <<n, left[2]>>
                                  ELSE h[Right(n)][left[2] + 1]
    <3>1. CASE n = NULL
      BY <1>1, <2>1, <3>1
    <3>2. CASE n # NULL
      <4>1. n \in Heap /\ h[Left(n)][c] = Lands(t, Left(n), c) /\ h[n][c] = Lands(t, n, c)
        BY <1>2, <2>1, <3>2
      <4>2. Lands(t, Left(n), c)[2] + 1 \in Nat
        BY <4>1, LandsInTurn
      <4>3. h[Right(n)][Lands(t, Left(n), c)[2] + 1] = Lands(t, Right(n), Lands(t, Left(n), c)[2] + 1)
        BY <1>2, <2>1, <4>1, <4>2
      <4>4. Lands(t, n, c) =
              IF Lands(t, Left(n), c)[1] # NULL THEN Lands(t, Left(n), c)
              ELSE IF Lands(t, Left(n), c)[2] = t THEN <<n, Lands(t, Left(n), c)[2]>>
              ELSE Lands(t, Right(n), Lands(t, Left(n), c)[2] + 1)
        BY <4>1, LandsInTurn
      <4> QED
        BY <3>2, <4>1, <4>3, <4>4
    <3> QED
      BY <3>1, <3>2
  <2> QED
    BY <2>2, <2>3 DEF Seeks
<1> DEFINE f == CHOOSE f : Seeks(f, t)
<1>4. Seeks(f, t)
  BY <1>3
<1>5. NodeAt(t) = f[root][0][1]
  BY DEF NodeAt, Seeks
<1> HIDE DEF f
<1>6. \A c \in Nat : f[NULL][c] = <<NULL, c>>
  BY <1>4 DEF Seeks
<1>7. \A n \in Heap : \A c \in Nat :
        f[n][c] = IF f[Left(n)][c][1] # NULL THEN f[Left(n)][c]
                  ELSE IF f[Left(n)][c][2] = t THEN <<n, f[Left(n)][c][2]>>
                  ELSE f[Right(n)][f[Left(n)][c][2] + 1]
  <2>1. ASSUME NEW n \in Heap
        PROVE  f[n] = [c \in Nat |->
                 IF f[Left(n)][c][1] # NULL THEN f[Left(n)][c]
                 ELSE IF f[Left(n)][c][2] = t THEN <<n, f[Left(n)][c][2]>>
                 ELSE f[Right(n)][f[Left(n)][c][2] + 1]]
    BY <1>2, <1>4, Zenon DEF Seeks
  <2>2. ASSUME NEW n \in Heap, NEW c \in Nat
        PROVE  f[n][c] =
                 IF f[Left(n)][c][1] # NULL THEN f[Left(n)][c]
                 ELSE IF f[Left(n)][c][2] = t THEN <<n, f[Left(n)][c][2]>>
                 ELSE f[Right(n)][f[Left(n)][c][2] + 1]
    BY <2>1, Zenon
  <2> QED
    BY <2>2
<1> DEFINE S == {n \in Heap : \A c \in Nat : f[n][c] = Lands(t, n, c)}
<1>8. ASSUME NEW n \in Heap, Children(n) \subseteq S PROVE n \in S
  <2>1. \A d \in Nat : f[Left(n)][d] = Lands(t, Left(n), d) /\ f[Right(n)][d] = Lands(t, Right(n), d)
    BY <1>1, <1>6, <1>8 DEF Children
  <2>2. ASSUME NEW c \in Nat PROVE f[n][c] = Lands(t, n, c)
    <3>1. Lands(t, Left(n), c)[2] + 1 \in Nat
      BY LandsInTurn
    <3>2. Lands(t, n, c) =
            IF Lands(t, Left(n), c)[1] # NULL THEN Lands(t, Left(n), c)
            ELSE IF Lands(t, Left(n), c)[2] = t THEN <<n, Lands(t, Left(n), c)[2]>>
            ELSE Lands(t, Right(n), Lands(t, Left(n), c)[2] + 1)
      BY LandsInTurn
    <3> QED
      BY <1>7, <2>1, <3>1, <3>2
  <2> QED
    BY <2>2
<1> HIDE DEF S
<1>9. \A n \in Heap : n \in S
  BY <1>8, TreeInduction DEF Rooted
<1>10. f[root][0] = Lands(t, root, 0)
  BY <1>1, <1>6, <1>9 DEF S, Rooted
<1>11. Walked = SeqUnder(Below, root) /\ Len(Walked) \in Nat
  <2>1. Enumerates(Heap, Walked) /\ Walked = SeqUnder(Below, root)
    BY BelowEnumerates
  <2> QED
    BY <2>1 DEF Enumerates
<1>12. Lands(t, root, 0)[1] = IF t < Len(Walked) THEN Walked[t + 1] ELSE NULL
  BY <1>11 DEF Lands
<1> QED
  BY <1>5, <1>10, <1>12

(* What the walk to a node answers: the node once met, and the counter.    *)
Meets(m, n, c) ==
  LET s == SeqUnder(Below, n)
      met == {i \in 1 .. Len(s) : s[i] = m}
  IN  IF met # {} THEN <<m, c + (CHOOSE i \in met : TRUE) - 1>> ELSE <<NULL, c + Len(s)>>

MetWithin(T, n, m, c) ==
  /\ m \notin T => Meets(m, n, c) = <<NULL, c + Len(SeqUnder(Below, n))>>
  /\ \A i \in 1 .. Len(SeqUnder(Below, n)) :
       SeqUnder(Below, n)[i] = m => Meets(m, n, c) = <<m, c + i - 1>>

LEMMA MeetsIs ==
  ASSUME NEW T, NEW n, NEW m, NEW c \in Nat, Enumerates(T, SeqUnder(Below, n)),
         \A k \in T : Order(k) \in Nat
  PROVE  MetWithin(T, n, m, c)
<1> DEFINE s == SeqUnder(Below, n)
           met == {i \in 1 .. Len(s) : s[i] = m}
<1>1. m \notin T => met = {}
  BY DEF Enumerates
<1>2. ASSUME NEW i \in met, NEW j \in met PROVE i = j
  <2>1. ASSUME NEW a \in met, NEW b \in met, a < b PROVE FALSE
    <3>1. Order(s[a]) < Order(s[b]) /\ s[a] = m /\ s[b] = m /\ m \in T
      BY <2>1 DEF Enumerates
    <3> QED
      BY <3>1
  <2> QED
    BY <2>1
<1>3. Meets(m, n, c) = IF met # {} THEN <<m, c + (CHOOSE i \in met : TRUE) - 1>>
                       ELSE <<NULL, c + Len(s)>>
  BY DEF Meets
<1>4. \A i \in met : (CHOOSE j \in met : TRUE) = i
  BY <1>2
<1> QED
  BY <1>1, <1>3, <1>4 DEF MetWithin

LEMMA MeetsInTurn ==
  ASSUME NEW U, Rooted(U), NEW n \in Heap, NEW m \in Heap, NEW c \in Nat
  PROVE  /\ Meets(m, Left(n), c)[2] \in Nat
         /\ Meets(m, n, c) =
              IF Meets(m, Left(n), c)[1] # NULL THEN Meets(m, Left(n), c)
              ELSE IF n = m THEN <<n, Meets(m, Left(n), c)[2]>>
              ELSE Meets(m, Right(n), Meets(m, Left(n), c)[2] + 1)
<1> DEFINE l == SeqUnder(Below, Left(n))
           r == SeqUnder(Below, Right(n))
           s == Below[n]
           L == Under(U, Left(n))
           R == Under(U, Right(n))
<1>1. Joins(s, l, n, r) /\ l \in Seq(Heap) /\ r \in Seq(Heap) /\ s = SeqUnder(Below, n)
  BY BelowJoins DEF SeqUnder
<1>2. Enumerates(L, l) /\ Enumerates(R, r) /\ Enumerates(U[n], SeqUnder(Below, n))
  <2>1. n # NULL
    BY BelowJoins
  <2> QED
    BY <2>1, BelowJoins DEF Under
<1>3. Len(l) \in Nat /\ Len(r) \in Nat /\ Len(s) = Len(l) + 1 + Len(r)
  BY <1>1 DEF Joins
<1>4. Splits(U, n)
  BY NodeSplits DEF Rooted
<1>5. \A k \in Heap : Order(k) \in Nat
  BY DEF Rooted, IsTree
<1>6. \A d \in Nat :
        /\ m \notin L => Meets(m, Left(n), d) = <<NULL, d + Len(l)>>
        /\ \A i \in 1 .. Len(l) : l[i] = m => Meets(m, Left(n), d) = <<m, d + i - 1>>
  <2>1. \A k \in L : Order(k) \in Nat
    BY <1>4, <1>5 DEF Splits
  <2> QED
    BY <1>2, <2>1, MeetsIs DEF MetWithin
<1>7. \A d \in Nat :
        /\ m \notin R => Meets(m, Right(n), d) = <<NULL, d + Len(r)>>
        /\ \A i \in 1 .. Len(r) : r[i] = m => Meets(m, Right(n), d) = <<m, d + i - 1>>
  <2>1. \A k \in R : Order(k) \in Nat
    BY <1>4, <1>5 DEF Splits
  <2> QED
    BY <1>2, <2>1, MeetsIs DEF MetWithin
<1>8. /\ m \notin U[n] => Meets(m, n, c) = <<NULL, c + Len(s)>>
      /\ \A i \in 1 .. Len(s) : s[i] = m => Meets(m, n, c) = <<m, c + i - 1>>
  <2>1. \A k \in U[n] : Order(k) \in Nat
    BY <1>4, <1>5 DEF Splits
  <2> QED
    BY <1>1, <1>2, <2>1, MeetsIs DEF MetWithin
<1>9. n \notin L /\ n \notin R /\ L \cap R = {} /\ U[n] = {n} \cup L \cup R
  BY <1>4 DEF Splits
<1> HIDE DEF l, r, s, L, R
<1>10. CASE m \in L
  <2>1. PICK i \in 1 .. Len(l) : l[i] = m
    BY <1>2, <1>10 DEF Enumerates
  <2>2. i \in 1 .. Len(s) /\ s[i] = m
    BY <1>1, <1>3, <2>1 DEF Joins
  <2>3. Meets(m, Left(n), c) = <<m, c + i - 1>> /\ Meets(m, n, c) = <<m, c + i - 1>>
    BY <1>6, <1>8, <2>1, <2>2
  <2>4. c + i - 1 \in Nat /\ m # NULL
    BY BelowJoins
  <2> QED
    BY <2>3, <2>4
<1>11. CASE m = n
  <2>0. m \notin L
    BY <1>9, <1>11
  <2>a. Meets(m, Left(n), c) = <<NULL, c + Len(l)>>
    BY <1>6, <2>0, Zenon
  <2>b. c + Len(l) \in Nat
    BY <1>3
  <2>1. Meets(m, Left(n), c) = <<NULL, c + Len(l)>> /\ c + Len(l) \in Nat
    BY <2>a, <2>b, Zenon
  <2>2. Len(l) + 1 \in 1 .. Len(s) /\ s[Len(l) + 1] = m
    BY <1>1, <1>3, <1>11 DEF Joins
  <2>3. Meets(m, n, c) = <<m, c + (Len(l) + 1) - 1>>
    BY <1>8, <2>2
  <2>4. c + (Len(l) + 1) - 1 = c + Len(l)
    BY <1>3
  <2> QED
    BY <1>11, <2>1, <2>3, <2>4
<1>12. CASE m \in R
  <2>0. m \notin L /\ m # n
    BY <1>9, <1>12
  <2>a. Meets(m, Left(n), c) = <<NULL, c + Len(l)>>
    BY <1>6, <2>0, Zenon
  <2>b. c + Len(l) \in Nat
    BY <1>3
  <2>1. Meets(m, Left(n), c) = <<NULL, c + Len(l)>> /\ c + Len(l) \in Nat /\ m # n
    BY <2>0, <2>a, <2>b, Zenon
  <2>2. PICK i \in 1 .. Len(r) : r[i] = m
    BY <1>2, <1>12 DEF Enumerates
  <2>3. Len(l) + 1 + i \in 1 .. Len(s) /\ s[Len(l) + 1 + i] = m
    BY <1>1, <1>3, <2>2 DEF Joins
  <2>4. Meets(m, n, c) = <<m, c + (Len(l) + 1 + i) - 1>>
    BY <1>8, <2>3
  <2>5. c + Len(l) + 1 \in Nat
    BY <1>3
  <2>6. Meets(m, Right(n), c + Len(l) + 1) = <<m, (c + Len(l) + 1) + i - 1>>
    BY <1>7, <2>2, <2>5
  <2>7. c + (Len(l) + 1 + i) - 1 = (c + Len(l) + 1) + i - 1
    BY <1>3
  <2> QED
    BY <2>1, <2>4, <2>6, <2>7
<1>13. CASE m \notin U[n]
  <2>0. m \notin L /\ m # n
    BY <1>9, <1>13
  <2>a. Meets(m, Left(n), c) = <<NULL, c + Len(l)>>
    BY <1>6, <2>0, Zenon
  <2>b. c + Len(l) \in Nat
    BY <1>3
  <2>1. Meets(m, Left(n), c) = <<NULL, c + Len(l)>> /\ c + Len(l) \in Nat /\ m # n
    BY <2>0, <2>a, <2>b, Zenon
  <2>2. Meets(m, n, c) = <<NULL, c + Len(s)>>
    BY <1>8, <1>13
  <2>3. c + Len(l) + 1 \in Nat
    BY <1>3
  <2>4. Meets(m, Right(n), c + Len(l) + 1) = <<NULL, (c + Len(l) + 1) + Len(r)>>
    BY <1>7, <1>9, <1>13, <2>3
  <2>5. c + Len(s) = (c + Len(l) + 1) + Len(r)
    BY <1>3
  <2> QED
    BY <2>1, <2>2, <2>4, <2>5
<1> QED
  BY <1>9, <1>10, <1>11, <1>12, <1>13

Meeting(f, m) ==
  f = [n \in Heap \cup {NULL} |-> [current \in Nat |->
        IF n = NULL THEN <<NULL, current>>
        ELSE LET left == f[Left(n)][current]
             IN  IF left[1] # NULL THEN left
                 ELSE IF n = m THEN <<n, left[2]>>
                 ELSE f[Right(n)][left[2] + 1]]]

LEMMA MeetingUnfolds ==
  ASSUME NEW f, NEW m, Meeting(f, m), NEW n \in Heap, n # NULL, NEW c \in Nat
  PROVE  f[n][c] = IF f[Left(n)][c][1] # NULL THEN f[Left(n)][c]
                   ELSE IF n = m THEN <<n, f[Left(n)][c][2]>>
                   ELSE f[Right(n)][f[Left(n)][c][2] + 1]
<1>1. f[n] = [current \in Nat |->
        IF n = NULL THEN <<NULL, current>>
        ELSE LET left == f[Left(n)][current]
             IN  IF left[1] # NULL THEN left
                 ELSE IF n = m THEN <<n, left[2]>>
                 ELSE f[Right(n)][left[2] + 1]]
  BY DEF Meeting
<1> QED
  BY <1>1

LEMMA MeetsAll ==
  ASSUME NEW U, Rooted(U), NEW m \in Heap, NEW i \in 1 .. Len(Walked), Walked[i] = m
  PROVE  Meets(m, root, 0) = <<m, i - 1>>
<1>1. Enumerates(Heap, Walked) /\ Walked = SeqUnder(Below, root)
  BY BelowEnumerates
<1>2. Enumerates(Heap, SeqUnder(Below, root))
  BY <1>1
<1>3. \A k \in Heap : Order(k) \in Nat
  BY DEF Rooted, IsTree
<1>4. 0 \in Nat
  OBVIOUS
<1>a. ASSUME NEW c \in Nat PROVE MetWithin(Heap, root, m, c)
  BY <1>2, <1>3, MeetsIs
<1>5. \A j \in 1 .. Len(SeqUnder(Below, root)) :
        SeqUnder(Below, root)[j] = m => Meets(m, root, 0) = <<m, 0 + j - 1>>
  BY <1>4, <1>a, Zenon DEF MetWithin
<1>6. Meets(m, root, 0) = <<m, 0 + i - 1>>
  BY <1>1, <1>5, Zenon
<1>7. 0 + i - 1 = i - 1
  OBVIOUS
<1> QED
  BY <1>6, <1>7

LEMMA IndexOfIs ==
  ASSUME NEW U, Rooted(U), NEW i \in 1 .. Len(Walked)
  PROVE  IndexOf(Walked[i]) = i - 1
<1> DEFINE N == Heap \cup {NULL}
           m == Walked[i]
           h == [n \in N |-> [c \in Nat |-> Meets(m, n, c)]]
<1>0. Enumerates(Heap, Walked) /\ Walked = SeqUnder(Below, root)
  BY BelowEnumerates
<1>1. \A c \in Nat : Meets(m, NULL, c) = <<NULL, c>>
  <2>1. \A c \in Nat : Meets(m, NULL, c) = <<NULL, c + Len(<<>>)>>
    BY DEF Meets, SeqUnder
  <2> QED
    BY <2>1
<1>2. \A n \in Heap : Left(n) \in N /\ Right(n) \in N /\ n # NULL
  BY DEF Rooted, IsTree
<1>a. m \in Heap
  BY <1>0 DEF Enumerates
<1> HIDE DEF m
<1>3. Meeting(h, m)
  <2>1. \A n \in N : \A c \in Nat : h[n][c] = Meets(m, n, c)
    OBVIOUS
  <2>2. h = [n \in N |-> [c \in Nat |-> h[n][c]]]
    OBVIOUS
  <2> HIDE DEF h
  <2>3. ASSUME NEW n \in N, NEW c \in Nat
        PROVE  h[n][c] = IF n = NULL THEN <<NULL, c>>
                         ELSE LET left == h[Left(n)][c]
                              IN  IF left[1] # NULL THEN left
                                  ELSE IF n = m THEN <<n, left[2]>>
                                  ELSE h[Right(n)][left[2] + 1]
    <3>1. CASE n = NULL
      BY <1>1, <2>1, <3>1
    <3>2. CASE n # NULL
      <4>1. n \in Heap /\ h[Left(n)][c] = Meets(m, Left(n), c) /\ h[n][c] = Meets(m, n, c)
        BY <1>2, <2>1, <3>2
      <4>2. Meets(m, Left(n), c)[2] + 1 \in Nat
        BY <1>a, <4>1, MeetsInTurn
      <4>3. h[Right(n)][Meets(m, Left(n), c)[2] + 1] = Meets(m, Right(n), Meets(m, Left(n), c)[2] + 1)
        BY <1>2, <2>1, <4>1, <4>2
      <4>4. Meets(m, n, c) =
              IF Meets(m, Left(n), c)[1] # NULL THEN Meets(m, Left(n), c)
              ELSE IF n = m THEN <<n, Meets(m, Left(n), c)[2]>>
              ELSE Meets(m, Right(n), Meets(m, Left(n), c)[2] + 1)
        BY <1>a, <4>1, MeetsInTurn
      <4> QED
        BY <3>2, <4>1, <4>3, <4>4
    <3> QED
      BY <3>1, <3>2
  <2> QED
    BY <2>2, <2>3 DEF Meeting
<1> DEFINE f == CHOOSE f : Meeting(f, m)
<1>4. Meeting(f, m)
  BY <1>3
<1>5. IndexOf(m) = f[root][0][2]
  BY DEF IndexOf, Meeting
<1> HIDE DEF f
<1>6. \A c \in Nat : f[NULL][c] = <<NULL, c>>
  BY <1>4 DEF Meeting
<1>7. \A n \in Heap : \A c \in Nat :
        f[n][c] = IF f[Left(n)][c][1] # NULL THEN f[Left(n)][c]
                  ELSE IF n = m THEN <<n, f[Left(n)][c][2]>>
                  ELSE f[Right(n)][f[Left(n)][c][2] + 1]
  BY <1>2, <1>4, MeetingUnfolds
<1> DEFINE S == {n \in Heap : \A c \in Nat : f[n][c] = Meets(m, n, c)}
<1>8. ASSUME NEW n \in Heap, Children(n) \subseteq S PROVE n \in S
  <2>1. \A d \in Nat : f[Left(n)][d] = Meets(m, Left(n), d) /\ f[Right(n)][d] = Meets(m, Right(n), d)
    BY <1>1, <1>6, <1>8 DEF Children
  <2>2. ASSUME NEW c \in Nat PROVE f[n][c] = Meets(m, n, c)
    <3>1. Meets(m, Left(n), c)[2] + 1 \in Nat
      BY <1>a, MeetsInTurn
    <3>2. Meets(m, n, c) =
            IF Meets(m, Left(n), c)[1] # NULL THEN Meets(m, Left(n), c)
            ELSE IF n = m THEN <<n, Meets(m, Left(n), c)[2]>>
            ELSE Meets(m, Right(n), Meets(m, Left(n), c)[2] + 1)
      BY <1>a, MeetsInTurn
    <3> QED
      BY <1>7, <2>1, <3>1, <3>2
  <2> QED
    BY <2>2
<1> HIDE DEF S
<1>9. \A n \in Heap : n \in S
  BY <1>8, TreeInduction DEF Rooted
<1>10. f[root][0] = Meets(m, root, 0)
  BY <1>1, <1>6, <1>9 DEF S, Rooted
<1>11. Meets(m, root, 0) = <<m, i - 1>>
  BY <1>a, MeetsAll DEF m
<1> QED
  BY <1>5, <1>10, <1>11 DEF m

(* ------------------------------ the tree's shape -------------------------- *)
LEMMA OneParent ==
  ASSUME NEW U, Rooted(U), NEW n \in Heap
  PROVE  /\ n = root => \A p \in Heap : n \notin Children(p)
         /\ n # root => \E p \in Heap : n \in Children(p) /\ \A q \in Heap : n \in Children(q) => q = p
         /\ \A p \in Heap : ~ (Left(p) = n /\ Right(p) = n)
<1>1. IsTree(U) /\ NULL \notin Heap /\ root \in Heap /\ U[root] = Heap
  BY DEF Rooted, IsTree, Under
<1>2. ASSUME NEW p \in Heap, n \in Children(p), n = root PROVE FALSE
  BY <1>1, <1>2, SubtreesAre
<1>3. ASSUME n # root
      PROVE  \E p \in Heap : n \in Children(p) /\ \A q \in Heap : n \in Children(q) => q = p
  <2>1. PICK p \in Heap : n \in Children(p)
    BY <1>1, <1>3, HangsFrom
  <2>2. ASSUME NEW q \in Heap, n \in Children(q) PROVE q = p
    <3>1. n \in Children(p) \cap Children(q) /\ p \in U[root] /\ q \in U[root]
      BY <1>1, <2>1, <2>2
    <3> QED
      BY <1>1, <3>1, HangsFromOne
  <2> QED
    BY <2>1, <2>2
<1>4. ASSUME NEW p \in Heap, Left(p) = n, Right(p) = n PROVE FALSE
  <2>1. Splits(U, p)
    BY <1>1, NodeSplits
  <2>2. n # NULL
    BY <1>1
  <2> QED
    BY <1>4, <2>1, <2>2 DEF Splits
<1> QED
  BY <1>2, <1>3, <1>4

LEMMA LinksMakeTree ==
  ASSUME NEW U, Rooted(U), ~live => Heap = {}
  PROVE  TreeOfAllNodes
<1>1. IsTree(U) /\ NULL \notin Heap
  BY DEF Rooted, IsTree
<1>2. root = NULL <=> Heap = {}
  BY <1>1 DEF Rooted, Under
<1>3. ASSUME NEW n \in Heap
      PROVE  Cardinality({l \in Links : nodes[l[1]][l[2]] = n}) = IF n = root THEN 0 ELSE 1
  <2> DEFINE P == {l \in Links : nodes[l[1]][l[2]] = n}
  <2>1. \A l \in P : /\ l[1] \in Heap /\ n \in Children(l[1])
                     /\ \/ l = <<l[1], "left">> /\ Left(l[1]) = n
                        \/ l = <<l[1], "right">> /\ Right(l[1]) = n
    BY <1>1 DEF Links, Children, Left, Right
  <2>2. \A p \in Heap : /\ Left(p) = n => <<p, "left">> \in P
                        /\ Right(p) = n => <<p, "right">> \in P
    BY <1>1 DEF Links, Left, Right
  <2> HIDE DEF P
  <2>3. CASE n = root
    <3>1. P = {}
      BY <2>1, <2>3, OneParent
    <3> QED
      BY <2>3, <3>1, FS_EmptySet DEF P
  <2>4. CASE n # root
    <3>1. PICK p \in Heap : n \in Children(p) /\ \A q \in Heap : n \in Children(q) => q = p
      BY <2>4, OneParent
    <3>2. ~ (Left(p) = n /\ Right(p) = n)
      BY OneParent
    <3>3. \E l : P = {l}
      <4>1. CASE Left(p) = n
        <5>a. ASSUME NEW l \in P PROVE l = <<p, "left">>
          <6>1. l[1] = p
            BY <2>1, <3>1
          <6>2. Right(p) # n
            BY <3>2, <4>1
          <6> QED
            BY <2>1, <6>1, <6>2
        <5>b. <<p, "left">> \in P
          BY <1>1, <4>1 DEF P, Links, Left
        <5>1. P = {<<p, "left">>}
          BY <5>a, <5>b
        <5> QED
          BY <5>1
      <4>2. CASE Right(p) = n
        <5>a. ASSUME NEW l \in P PROVE l = <<p, "right">>
          <6>1. l[1] = p
            BY <2>1, <3>1
          <6>2. Left(p) # n
            BY <3>2, <4>2
          <6> QED
            BY <2>1, <6>1, <6>2
        <5>b. <<p, "right">> \in P
          BY <1>1, <4>2 DEF P, Links, Right
        <5>1. P = {<<p, "right">>}
          BY <5>a, <5>b
        <5> QED
          BY <5>1
      <4> QED
        BY <3>1, <4>1, <4>2 DEF Children
    <3>4. Cardinality(P) = 1
      BY <3>3, FS_Singleton
    <3> QED
      BY <2>4, <3>4 DEF P
  <2> QED
    BY <2>3, <2>4
<1>4. \A l \in Links : nodes[l[1]][l[2]] \in Heap
  BY <1>1 DEF Links, IsTree, Left, Right
<1>5. Freed = Heap
  <2>1. Enumerates(Heap, Walked)
    BY BelowEnumerates
  <2>2. DOMAIN Walked = 1 .. Len(Walked)
    BY <2>1 DEF Enumerates
  <2> QED
    BY <2>1, <2>2 DEF Freed, Enumerates
<1> QED
  BY <1>2, <1>3, <1>4, <1>5 DEF TreeOfAllNodes

LEMMA WalkRises ==
  ASSUME NEW U, Rooted(U), size = Cardinality(Heap)
  PROVE  InOrderRises /\ IndexesAgree
<1>1. Enumerates(Heap, Walked)
  BY BelowEnumerates
<1>2. DOMAIN Walked = 1 .. Len(Walked) /\ Len(Walked) = size /\ size \in Nat
  BY <1>1 DEF Enumerates
<1>3. InOrderRises
  BY <1>1, <1>2 DEF InOrderRises, Enumerates, Order
<1>4. \A i \in 1 .. size : Walked[i] \in Heap /\ NodeAt(i - 1) = Walked[i] /\ IndexOf(Walked[i]) = i - 1
  <2>1. ASSUME NEW i \in 1 .. size
        PROVE  Walked[i] \in Heap /\ NodeAt(i - 1) = Walked[i] /\ IndexOf(Walked[i]) = i - 1
    <3>1. i - 1 \in Nat /\ i - 1 < Len(Walked) /\ (i - 1) + 1 = i /\ i \in 1 .. Len(Walked)
      BY <1>2
    <3>2. NodeAt(i - 1) = Walked[(i - 1) + 1]
      BY <3>1, NodeAtIs
    <3>3. IndexOf(Walked[i]) = i - 1
      BY <3>1, IndexOfIs
    <3> QED
      BY <1>1, <3>1, <3>2, <3>3 DEF Enumerates
  <2> QED
    BY <2>1
<1>5. \A n \in Heap : \E i \in 1 .. size : Walked[i] = n
  BY <1>1, <1>2 DEF Enumerates
<1>6. ASSUME NEW i \in 1 .. size
      PROVE  Cardinality({j \in 0 .. size - 1 : i - 1 \in Neighbors(j)})
               = IF Walked[i] = root THEN 0 ELSE 1
  <2> DEFINE P == {j \in 0 .. size - 1 : i - 1 \in Neighbors(j)}
  <2>1. ASSUME NEW j \in 0 .. size - 1
        PROVE  j \in P <=> Walked[i] \in Children(Walked[j + 1])
    <3>1. j + 1 \in 1 .. size /\ (j + 1) - 1 = j
      BY <1>2
    <3>2. NodeAt(j) = Walked[j + 1] /\ Walked[j + 1] \in Heap
      BY <1>4, <3>1
    <3>3. \A c \in Children(Walked[j + 1]) : c \in Heap
      BY <3>2, SubtreesAre DEF Rooted
    <3>4. \A c \in Heap : IndexOf(c) = i - 1 => c = Walked[i]
      <4>1. ASSUME NEW c \in Heap, IndexOf(c) = i - 1 PROVE c = Walked[i]
        <5>1. PICK k \in 1 .. size : Walked[k] = c
          BY <1>5
        <5>2. IndexOf(c) = k - 1
          BY <1>4, <5>1
        <5>3. k = i
          BY <4>1, <5>2
        <5> QED
          BY <5>1, <5>3
      <4> QED
        BY <4>1
    <3>5. IndexOf(Walked[i]) = i - 1
      BY <1>4
    <3> QED
      BY <3>2, <3>3, <3>4, <3>5 DEF Neighbors
  <2> HIDE DEF P
  <2>2. P \subseteq 0 .. size - 1
    BY DEF P
  <2>3. CASE Walked[i] = root
    <3>1. P = {}
      <4>1. ASSUME NEW j \in P PROVE FALSE
        <5>1. j + 1 \in 1 .. size /\ j \in 0 .. size - 1
          BY <1>2, <2>2
        <5>2. Walked[j + 1] \in Heap /\ Walked[i] \in Heap
          BY <1>4, <5>1
        <5> QED
          BY <2>1, <2>3, <5>1, <5>2, OneParent
      <4> QED
        BY <4>1
    <3> QED
      BY <2>3, <3>1, FS_EmptySet DEF P
  <2>4. CASE Walked[i] # root
    <3>0. Walked[i] \in Heap
      BY <1>4
    <3>1. PICK p \in Heap : Walked[i] \in Children(p)
             /\ \A q \in Heap : Walked[i] \in Children(q) => q = p
      BY <2>4, <3>0, OneParent
    <3>2. PICK k \in 1 .. size : Walked[k] = p
      BY <1>5
    <3>3. k - 1 \in 0 .. size - 1 /\ (k - 1) + 1 = k
      BY <1>2
    <3>4. k - 1 \in P
      BY <2>1, <3>1, <3>2, <3>3
    <3>5. ASSUME NEW j \in P PROVE j = k - 1
      <4>1. j \in 0 .. size - 1 /\ j + 1 \in 1 .. size
        BY <1>2, <2>2
      <4>2. Walked[j + 1] = p
        BY <1>4, <2>1, <3>1, <4>1
      <4>3. IndexOf(p) = (j + 1) - 1 /\ IndexOf(p) = k - 1
        BY <1>4, <3>2, <4>1, <4>2
      <4> QED
        BY <4>1, <4>3
    <3>6. P = {k - 1}
      BY <3>4, <3>5
    <3>7. Cardinality(P) = 1
      BY <3>6, FS_Singleton
    <3> QED
      BY <2>4, <3>7 DEF P
  <2> QED
    BY <2>3, <2>4
<1>7. IndexesAgree
  BY <1>2, <1>4, <1>6 DEF IndexesAgree
<1> QED
  BY <1>3, <1>7

(* ------------------------------- relinking -------------------------------- *)
LEMMA OrdersDiffer ==
  ASSUME NEW U, Rooted(U), NEW m \in Heap, NEW n \in Heap, Order(m) = Order(n)
  PROVE  m = n
<1>1. Enumerates(Heap, Walked)
  BY BelowEnumerates
<1>2. PICK i \in 1 .. Len(Walked) : Walked[i] = m
  BY <1>1 DEF Enumerates
<1>3. PICK j \in 1 .. Len(Walked) : Walked[j] = n
  BY <1>1 DEF Enumerates
<1>4. Order(m) \in Nat
  BY DEF Rooted, IsTree
<1>5. ~ (i < j) /\ ~ (j < i)
  BY <1>1, <1>2, <1>3, <1>4 DEF Enumerates
<1>6. i = j
  BY <1>5
<1> QED
  BY <1>2, <1>3, <1>6

LEMMA MatchIs ==
  ASSUME NEW U, Rooted(U), NEW x, Rank(x) \in Nat
  PROVE  /\ Matches(x) <=> \E n \in Heap : Order(n) = Rank(x)
         /\ Matches(x) => Reached(Rank(x)) \in Heap /\ Order(Reached(Rank(x))) = Rank(x)
<1>1. CASE root = NULL
  <2>1. Heap = {}
    BY <1>1 DEF Rooted, Under
  <2> QED
    BY <1>1, <2>1 DEF Matches
<1>2. CASE root # NULL
  <2>1. Reached(Rank(x)) \in Heap /\ Ends(U, root, Reached(Rank(x)), Rank(x)) /\ U[root] = Heap
    BY <1>2, ReachedIs DEF Rooted, Under
  <2> QED
    BY <1>2, <2>1 DEF Matches, Order, Ends
<1> QED
  BY <1>1, <1>2

(* A new leaf hangs where the descent for its rank ended.                  *)
Hangs(at, new, r) ==
  /\ Heap' = Heap \cup {new}
  /\ \A n \in Heap :
       /\ Order(n)' = Order(n)
       /\ Left(n)' = IF n = at /\ Order(at) > r THEN new ELSE Left(n)
       /\ Right(n)' = IF n = at /\ Order(at) < r THEN new ELSE Right(n)
  /\ Left(new)' = NULL /\ Right(new)' = NULL /\ Order(new)' = r
  /\ root' = root

LEMMA HangingKeepsTree ==
  ASSUME NEW U, Rooted(U), root # NULL, NEW r \in Nat, NEW new, new \notin Heap, new # NULL,
         NEW at \in Heap, Ends(U, root, at, r), Order(at) # r, Hangs(at, new, r)
  PROVE  \E V : Rooted(V)'
<1>0. IsTree(U) /\ root \in Heap /\ U[root] = Heap /\ NULL \notin Heap
  BY DEF Rooted, Under, IsTree
<1>1. PICK V : V = [m \in Heap \cup {new} |->
                    IF m = new THEN {new} ELSE IF at \in U[m] THEN U[m] \cup {new} ELSE U[m]]
  OBVIOUS
<1>2. /\ V \in [Heap \cup {new} -> SUBSET (Heap \cup {new})]
      /\ V[new] = {new}
      /\ \A m \in Heap : V[m] = IF at \in U[m] THEN U[m] \cup {new} ELSE U[m]
  <2>1. \A m \in Heap : U[m] \subseteq Heap /\ m # new
    BY <1>0 DEF IsTree
  <2> QED
    BY <1>1, <2>1
<1>3. \A c \in Heap \cup {NULL} :
        /\ \A m : m \in Under(V, c) <=> m \in Under(U, c) \/ (m = new /\ at \in Under(U, c))
  BY <1>0, <1>2 DEF Under
<1>4. ASSUME NEW n \in Heap
      PROVE  /\ Left(n)' \in (Heap \cup {new}) \cup {NULL} /\ Right(n)' \in (Heap \cup {new}) \cup {NULL}
             /\ Order(n)' \in Nat
             /\ V[n] = {n} \cup Under(V, Left(n)') \cup Under(V, Right(n)')
             /\ \A m \in Under(V, Left(n)') : Order(m)' < Order(n)'
             /\ \A m \in Under(V, Right(n)') : Order(n)' < Order(m)'
  <2>1. Splits(U, n) /\ Left(n) \in Heap \cup {NULL} /\ Right(n) \in Heap \cup {NULL}
    BY <1>0, NodeSplits DEF IsTree
  <2>2. /\ Order(n) \in Nat /\ Order(n)' = Order(n) /\ Order(new)' = r
        /\ \A m \in Heap : Order(m)' = Order(m)
    BY <1>0 DEF Hangs, IsTree
  <2>3. Under(V, new) = {new}
    BY <1>2 DEF Under
  <2>4. /\ \A m \in Under(U, Left(n)) : m \in Heap
        /\ \A m \in Under(U, Right(n)) : m \in Heap
    BY <2>1 DEF Splits
  <2>5. CASE n # at
    <3>1. Left(n)' = Left(n) /\ Right(n)' = Right(n)
      BY <2>5 DEF Hangs
    <3>2. at \in U[n] <=> at \in Under(U, Left(n)) \/ at \in Under(U, Right(n))
      BY <2>1, <2>5 DEF Splits
    <3>3. (at \in Under(U, Left(n)) => r < Order(n)) /\ (at \in Under(U, Right(n)) => Order(n) < r)
      BY <1>0 DEF Ends
    <3>4. V[n] = {n} \cup Under(V, Left(n)) \cup Under(V, Right(n))
      BY <1>2, <1>3, <2>1, <3>2 DEF Splits
    <3>5. \A m \in Under(V, Left(n)) : Order(m)' < Order(n)
      BY <1>3, <2>1, <2>2, <2>4, <3>3 DEF Splits
    <3>6. \A m \in Under(V, Right(n)) : Order(n) < Order(m)'
      BY <1>3, <2>1, <2>2, <2>4, <3>3 DEF Splits
    <3> QED
      BY <2>1, <2>2, <3>1, <3>4, <3>5, <3>6
  <2>6. CASE n = at /\ Order(at) > r
    <3>1. Left(n)' = new /\ Right(n)' = Right(n) /\ Left(n) = NULL
      BY <2>2, <2>6 DEF Hangs, Ends
    <3>2. at \in U[n] /\ at \notin Under(U, Right(n)) /\ U[n] = {n} \cup Under(U, Right(n))
      BY <2>1, <2>6, <3>1 DEF Splits
    <3>3. V[n] = {n} \cup Under(V, new) \cup Under(V, Right(n))
      BY <1>2, <1>3, <2>1, <2>3, <3>2
    <3>4. \A m \in Under(V, Right(n)) : Order(n) < Order(m)'
      BY <1>3, <2>1, <2>2, <2>4, <3>2 DEF Splits
    <3> QED
      BY <2>1, <2>2, <2>3, <2>6, <3>1, <3>3, <3>4
  <2>7. CASE n = at /\ Order(at) < r
    <3>1. Right(n)' = new /\ Left(n)' = Left(n) /\ Right(n) = NULL
      BY <2>2, <2>7 DEF Hangs, Ends
    <3>2. at \in U[n] /\ at \notin Under(U, Left(n)) /\ U[n] = {n} \cup Under(U, Left(n))
      BY <2>1, <2>7, <3>1 DEF Splits
    <3>3. V[n] = {n} \cup Under(V, Left(n)) \cup Under(V, new)
      BY <1>2, <1>3, <2>1, <2>3, <3>2
    <3>4. \A m \in Under(V, Left(n)) : Order(m)' < Order(n)
      BY <1>3, <2>1, <2>2, <2>4, <3>2 DEF Splits
    <3> QED
      BY <2>1, <2>2, <2>3, <2>7, <3>1, <3>3, <3>4
  <2>8. Order(at) \in Nat
    BY <1>0 DEF IsTree
  <2> QED
    BY <2>5, <2>6, <2>7, <2>8
<1>5. /\ Left(new)' = NULL /\ Right(new)' = NULL /\ Order(new)' \in Nat
      /\ V[new] = {new} \cup Under(V, NULL) \cup Under(V, NULL)
      /\ Under(V, NULL) = {}
  BY <1>2 DEF Hangs, Under
<1>6. Heap' = Heap \cup {new} /\ root' = root
  BY DEF Hangs
<1>7. IsFiniteSet(Heap \cup {new}) /\ NULL \notin Heap \cup {new}
  <2>1. IsFiniteSet(Heap)
    BY <1>0 DEF IsTree
  <2> QED
    BY <1>0, <2>1, FS_AddElement
<1>8. IsTree(V)'
  <2>1. ASSUME NEW n \in Heap \cup {new}
        PROVE  /\ Left(n)' \in Heap' \cup {NULL} /\ Right(n)' \in Heap' \cup {NULL} /\ Order(n)' \in Nat
               /\ V[n] = {n} \cup Under(V, Left(n)') \cup Under(V, Right(n)')
               /\ \A m \in Under(V, Left(n)') : Order(m)' < Order(n)'
               /\ \A m \in Under(V, Right(n)') : Order(n)' < Order(m)'
    <3>1. CASE n \in Heap
      BY <1>4, <1>6, <3>1
    <3>2. CASE n = new
      BY <1>5, <1>6, <3>2
    <3> QED
      BY <3>1, <3>2
  <2> QED
    BY <1>2, <1>6, <1>7, <2>1 DEF IsTree, Under
<1>9. Under(V, root) = Heap'
  BY <1>0, <1>2, <1>6 DEF Under, Ends
<1>10. Rooted(V)'
  BY <1>0, <1>6, <1>8, <1>9 DEF Rooted, Under
<1> QED
  BY <1>10

(* A node with at most one child gives way to it, and the ranks of those   *)
(* that stay keep their places.                                            *)
Bypassed(U, drop, child) ==
  /\ Heap' = Heap \ {drop}
  /\ \A n \in Heap \ {drop} :
       /\ Left(n)' = IF Left(n) = drop THEN child ELSE Left(n)
       /\ Right(n)' = IF Right(n) = drop THEN child ELSE Right(n)
       /\ Order(n)' \in Nat
       /\ \A m \in U[n] \ {drop} :
            /\ Order(m) < Order(n) => Order(m)' < Order(n)'
            /\ Order(n) < Order(m) => Order(n)' < Order(m)'
  /\ root' = IF root = drop THEN child ELSE root

LEMMA BypassKeepsTree ==
  ASSUME NEW U, Rooted(U), NEW drop \in Heap, Left(drop) = NULL \/ Right(drop) = NULL,
         NEW child, child = OnlyChild(drop), Bypassed(U, drop, child)
  PROVE  \E V : Rooted(V)'
<1>0. IsTree(U) /\ root \in Heap /\ U[root] = Heap /\ NULL \notin Heap
  BY DEF Rooted, Under, IsTree
<1>1. PICK V : V = [m \in Heap \ {drop} |-> U[m] \ {drop}]
  OBVIOUS
<1>2. /\ V \in [Heap \ {drop} -> SUBSET (Heap \ {drop})]
      /\ \A m \in Heap \ {drop} : V[m] = U[m] \ {drop}
  <2>1. \A m \in Heap : U[m] \subseteq Heap
    BY <1>0 DEF IsTree
  <2> QED
    BY <1>1, <2>1
<1>3. Splits(U, drop)
  BY <1>0, NodeSplits
<1>4. child \in (Heap \ {drop}) \cup {NULL} /\ Under(V, child) = U[drop] \ {drop}
  <2>1. Under(U, child) = U[drop] \ {drop}
    BY <1>3 DEF Splits, OnlyChild
  <2>2. child \in Heap \cup {NULL} /\ child # drop
    <3>1. Left(drop) \in Heap \cup {NULL} /\ Right(drop) \in Heap \cup {NULL}
      BY <1>0 DEF IsTree
    <3>2. Left(drop) # drop /\ Right(drop) # drop
      BY <1>0, <1>3 DEF Splits
    <3> QED
      BY <3>1, <3>2 DEF OnlyChild
  <2>3. drop \notin Under(U, child)
    BY <2>1
  <2> QED
    BY <1>0, <1>2, <2>1, <2>2, <2>3 DEF Under
<1>5. \A c \in Heap \cup {NULL} :
        Under(V, IF c = drop THEN child ELSE c) = Under(U, c) \ {drop}
  BY <1>0, <1>2, <1>4 DEF Under
<1>6. ASSUME NEW n \in Heap \ {drop}
      PROVE  /\ Left(n)' \in Heap' \cup {NULL} /\ Right(n)' \in Heap' \cup {NULL} /\ Order(n)' \in Nat
             /\ V[n] = {n} \cup Under(V, Left(n)') \cup Under(V, Right(n)')
             /\ \A m \in Under(V, Left(n)') : Order(m)' < Order(n)'
             /\ \A m \in Under(V, Right(n)') : Order(n)' < Order(m)'
  <2>1. Splits(U, n) /\ Left(n) \in Heap \cup {NULL} /\ Right(n) \in Heap \cup {NULL}
    BY <1>0, NodeSplits DEF IsTree
  <2>2. /\ Left(n)' = IF Left(n) = drop THEN child ELSE Left(n)
        /\ Right(n)' = IF Right(n) = drop THEN child ELSE Right(n)
        /\ Order(n)' \in Nat
        /\ Heap' = Heap \ {drop}
    BY DEF Bypassed
  <2>3. Under(V, Left(n)') = Under(U, Left(n)) \ {drop}
           /\ Under(V, Right(n)') = Under(U, Right(n)) \ {drop}
    BY <1>5, <2>1, <2>2
  <2>4. V[n] = {n} \cup Under(V, Left(n)') \cup Under(V, Right(n)')
    BY <1>2, <2>1, <2>3 DEF Splits
  <2>5. \A m \in U[n] \ {drop} :
            /\ Order(m) < Order(n) => Order(m)' < Order(n)'
            /\ Order(n) < Order(m) => Order(n)' < Order(m)'
    BY DEF Bypassed
  <2>6. \A m \in Under(V, Left(n)') : Order(m)' < Order(n)'
    BY <2>1, <2>3, <2>5 DEF Splits
  <2>7. \A m \in Under(V, Right(n)') : Order(n)' < Order(m)'
    BY <2>1, <2>3, <2>5 DEF Splits
  <2>8. Left(n)' \in Heap' \cup {NULL} /\ Right(n)' \in Heap' \cup {NULL}
    BY <1>4, <2>1, <2>2
  <2> QED
    BY <2>2, <2>4, <2>6, <2>7, <2>8
<1>7. Heap' = Heap \ {drop} /\ root' = IF root = drop THEN child ELSE root
  BY DEF Bypassed
<1>8. IsFiniteSet(Heap \ {drop}) /\ NULL \notin Heap \ {drop}
  <2>1. IsFiniteSet(Heap)
    BY <1>0 DEF IsTree
  <2> QED
    BY <1>0, <2>1, FS_RemoveElement
<1>9. IsTree(V)'
  BY <1>2, <1>6, <1>7, <1>8 DEF IsTree, Under
<1>10. Under(V, root') = Heap' /\ root' \in Heap' \cup {NULL}
  <2>1. Under(V, IF root = drop THEN child ELSE root) = Under(U, root) \ {drop}
    BY <1>0, <1>5
  <2> QED
    BY <1>0, <1>4, <1>7, <2>1 DEF Under
<1>11. Rooted(V)'
  BY <1>9, <1>10 DEF Rooted, Under
<1> QED
  BY <1>11

(* --------------------------- the calls' relinking ------------------------- *)
Nodes == [value : Item, left : Address \cup {NULL}, right : Address \cup {NULL}]

(* What the caller holds is a tree, its nodes on the heap.                 *)
Holds(U) ==
  /\ Rooted(U)
  /\ live \in BOOLEAN
  /\ size = Cardinality(Heap)
  /\ Heap \subseteq Address
  /\ nodes \in [Heap -> Nodes]
  /\ ~live => Heap = {}

(* The items that are stored.                                              *)
Values == {Value(n) : n \in Heap}

LEMMA HeldNodes ==
  ASSUME NEW U, Holds(U), NEW n \in Heap
  PROVE  /\ nodes[n] \in Nodes /\ Value(n) \in Item /\ Order(n) = Rank(Value(n))
         /\ Left(n) \in Heap \cup {NULL} /\ Right(n) \in Heap \cup {NULL} /\ NULL \notin Heap
         /\ Left(n) = nodes[n].left /\ Right(n) = nodes[n].right /\ Value(n) = nodes[n].value
BY DEF Holds, Nodes, Value, Order, Left, Right, Rooted, IsTree

LEMMA InsertLeafHolds ==
  ASSUME TreeAssumption, NEW U, Holds(U), NEW x \in Item, NEW new \in Address \ Heap,
         InsertLeaf(x, new)
  PROVE  /\ \E V : Holds(V)'
         /\ Values' = Values \cup {x} /\ ~ \E n \in Heap : Order(n) = Rank(x)
<1> DEFINE r == Rank(x)
           at == Reached(r)
<1>0. r \in Nat /\ NULL \notin Address
  BY DEF TreeAssumption
<1>1. /\ live /\ root # NULL /\ ~Matches(x) /\ nodes' = Hung(x, new, at)
      /\ size' = size + 1 /\ live' = live /\ root' = root
  BY DEF InsertLeaf
<1>2. at \in Heap /\ Ends(U, root, at, r)
  BY <1>0, <1>1, ReachedIs DEF Holds
<1>3. ~ (\E n \in Heap : Order(n) = r) /\ Order(at) # r
  BY <1>0, <1>1, <1>2, MatchIs DEF Holds
<1> HIDE DEF r, at
<1>4. Order(at) \in Nat
  BY <1>2 DEF Holds, Rooted, IsTree
<1>5. /\ Heap' = Heap \cup {new} /\ DOMAIN nodes' = Heap \cup {new}
      /\ nodes'[new] = Leaf(x)
      /\ nodes'[at] = IF Order(at) > r THEN [nodes[at] EXCEPT !.left = new]
                       ELSE [nodes[at] EXCEPT !.right = new]
      /\ \A n \in Heap \ {at} : nodes'[n] = nodes[n]
  BY <1>1, <1>2 DEF Hung, Heap, Order, r
<1>6. \A n \in Heap : nodes[n] \in Nodes
  BY HeldNodes
<1>7. /\ nodes'[at] \in Nodes /\ nodes'[at].value = nodes[at].value
      /\ nodes'[at].left = IF Order(at) > r THEN new ELSE nodes[at].left
      /\ nodes'[at].right = IF Order(at) < r THEN new ELSE nodes[at].right
  BY <1>0, <1>2, <1>3, <1>4, <1>5, <1>6 DEF Nodes, r
<1>8. nodes'[new] \in Nodes /\ nodes'[new].value = x /\ nodes'[new].left = NULL
         /\ nodes'[new].right = NULL
  BY <1>5 DEF Leaf, Nodes
<1>9. Hangs(at, new, r)
  <2>1. \A n \in Heap : /\ Value(n)' = Value(n)
                        /\ Left(n)' = IF n = at /\ Order(at) > r THEN new ELSE Left(n)
                        /\ Right(n)' = IF n = at /\ Order(at) < r THEN new ELSE Right(n)
    BY <1>5, <1>7 DEF Value, Left, Right
  <2>2. Left(new)' = NULL /\ Right(new)' = NULL /\ Value(new)' = x
    BY <1>8 DEF Value, Left, Right
  <2>3. \A n \in Heap : Order(n)' = Order(n)
    BY <2>1 DEF Order
  <2>4. Order(new)' = r
    BY <2>2 DEF Order, r
  <2> QED
    BY <1>1, <1>5, <2>1, <2>2, <2>3, <2>4 DEF Hangs
<1>10. PICK V : Rooted(V)'
  <2>1. new \notin Heap /\ new # NULL /\ r \in Nat
    BY <1>0
  <2> QED
    BY <1>1, <1>2, <1>3, <1>9, <2>1, HangingKeepsTree DEF Holds
<1>11. size' = Cardinality(Heap)'
  <2>1. IsFiniteSet(Heap)
    BY DEF Holds, Rooted, IsTree
  <2>2. Cardinality(Heap \cup {new}) = Cardinality(Heap) + 1
    BY <2>1, FS_AddElement
  <2> QED
    BY <1>1, <1>5, <2>2 DEF Holds
<1>12. (nodes \in [Heap -> Nodes])'
  <2>1. nodes' = [n \in Heap \cup {new} |-> nodes'[n]]
    BY <1>1, <1>5 DEF Hung
  <2>2. \A n \in Heap \cup {new} : nodes'[n] \in Nodes
    BY <1>5, <1>6, <1>7, <1>8
  <2> QED
    BY <1>5, <2>1, <2>2
<1>13. Holds(V)'
  BY <1>1, <1>5, <1>10, <1>11, <1>12 DEF Holds
<1>14. Values' = Values \cup {x}
  <2>1. \A n \in Heap : Value(n)' = Value(n)
    BY <1>5, <1>7 DEF Value
  <2>2. Value(new)' = x
    BY <1>8 DEF Value
  <2> QED
    BY <1>5, <2>1, <2>2 DEF Values
<1> QED
  BY <1>3, <1>13, <1>14 DEF r

LEMMA InsertRootHolds ==
  ASSUME TreeAssumption, NEW U, Holds(U), NEW x \in Item, NEW new \in Address \ Heap,
         InsertRoot(x, new)
  PROVE  /\ \E V : Holds(V)'
         /\ Values' = Values \cup {x} /\ ~ \E n \in Heap : Order(n) = Rank(x)
<1>0. Rank(x) \in Nat /\ NULL \notin Address
  BY DEF TreeAssumption
<1>1. Heap = {}
  <2>1. IsFiniteSet(Heap) /\ Cardinality(Heap) = 0
    BY DEF InsertRoot, Holds, Rooted, IsTree
  <2> QED
    BY <2>1, FS_EmptySet
<1>2. /\ Heap' = {new} /\ DOMAIN nodes' = {new} /\ nodes'[new] = Leaf(x)
      /\ root' = new /\ size' = size + 1 /\ live' = live /\ live /\ size = 0
  BY <1>1 DEF InsertRoot, Heap
<1>3. nodes'[new] \in Nodes /\ nodes'[new].value = x /\ nodes'[new].left = NULL
         /\ nodes'[new].right = NULL
  BY <1>2 DEF Leaf, Nodes
<1>4. Left(new)' = NULL /\ Right(new)' = NULL /\ Value(new)' = x
  BY <1>3 DEF Left, Right, Value
<1>5. Order(new)' \in Nat
  BY <1>0, <1>4 DEF Order
<1>6. PICK V : V = [n \in {new} |-> {new}]
  OBVIOUS
<1>7. IsFiniteSet({new}) /\ Cardinality({new}) = 1
  BY FS_Singleton
<1>8. IsTree(V)'
  <2>1. V \in [Heap' -> SUBSET Heap'] /\ V[new] = {new} /\ new # NULL
    BY <1>0, <1>2, <1>6
  <2>2. Under(V, NULL) = {}
    BY DEF Under
  <2>3. V[new] = {new} \cup Under(V, Left(new)') \cup Under(V, Right(new)')
    BY <1>4, <2>1, <2>2
  <2> QED
    BY <1>2, <1>4, <1>5, <1>7, <2>1, <2>2, <2>3 DEF IsTree, Under
<1>9. Rooted(V)'
  <2>1. new # NULL
    BY <1>0
  <2> QED
    BY <1>2, <1>6, <1>8, <2>1 DEF Rooted, Under
<1>10. (nodes \in [Heap -> Nodes])'
  <2>1. nodes' = [n \in {new} |-> nodes'[n]]
    BY <1>1 DEF InsertRoot
  <2> QED
    BY <1>2, <1>3, <2>1
<1>11. Holds(V)'
  BY <1>2, <1>7, <1>9, <1>10 DEF Holds
<1>12. Values = {} /\ Values' = {x}
  BY <1>1, <1>2, <1>4 DEF Values
<1> QED
  BY <1>1, <1>11, <1>12

(* The match of a removal is the node of its rank.                         *)
LEMMA SpliceHolds ==
  ASSUME TreeAssumption, NEW U, Holds(U), NEW x \in Item, RemoveSplice(x)
  PROVE  /\ \E V : Holds(V)'
         /\ \E n \in Heap : /\ Order(n) = Rank(x) /\ reply'.out = Value(n)
                            /\ Values' = {Value(m) : m \in Heap \ {n}}
<1> DEFINE n == Reached(Rank(x))
           child == OnlyChild(n)
<1>0. Rank(x) \in Nat
  BY DEF TreeAssumption
<1>1. /\ live /\ Matches(x) /\ nodes' = Promoted(x, n, child)
      /\ size' = size - 1 /\ live' = live /\ root' = RootWithout(n, child)
      /\ Left(n) = NULL \/ Right(n) = NULL
      /\ reply'.out = Value(n)
  BY DEF RemoveSplice, Answer
<1>2. n \in Heap /\ Order(n) = Rank(x)
  BY <1>0, <1>1, MatchIs DEF Holds
<1> HIDE DEF n, child
<1>3. IsTree(U) /\ Rooted(U) /\ NULL \notin Heap
  BY DEF Holds, Rooted, IsTree
<1>4. child = OnlyChild(n) /\ child \in Heap \cup {NULL}
  BY <1>2, HeldNodes DEF child, OnlyChild
<1>5. /\ Heap' = Heap \ {n} /\ DOMAIN nodes' = Heap \ {n}
      /\ \A m \in Heap \ {n} :
           nodes'[m] = IF m # Parent(n) THEN nodes[m]
                       ELSE IF IsLeft(m, x) THEN [nodes[m] EXCEPT !.left = child]
                       ELSE [nodes[m] EXCEPT !.right = child]
  BY <1>1 DEF Promoted, Heap
<1>6. /\ n = root => Parent(n) = NULL /\ \A m \in Heap : Left(m) # n /\ Right(m) # n
      /\ n # root => /\ Parent(n) \in Heap /\ (Left(Parent(n)) = n \/ Right(Parent(n)) = n)
                     /\ \A m \in Heap : Left(m) = n \/ Right(m) = n => m = Parent(n)
  <2>1. n # NULL
    BY <1>2, <1>3
  <2>2. \A m \in Heap : n \in Children(m) <=> Left(m) = n \/ Right(m) = n
    BY <2>1 DEF Children
  <2>3. CASE n = root
    BY <1>2, <1>3, <2>2, <2>3, OneParent DEF Parent
  <2>4. CASE n # root
    <3>1. PICK p \in Heap : n \in Children(p) /\ \A q \in Heap : n \in Children(q) => q = p
      BY <1>2, <1>3, <2>4, OneParent
    <3>2. Parent(n) = CHOOSE q \in Heap : Left(q) = n \/ Right(q) = n
      BY <2>4 DEF Parent
    <3>3. Parent(n) \in Heap /\ (Left(Parent(n)) = n \/ Right(Parent(n)) = n)
      BY <2>2, <3>1, <3>2
    <3> QED
      BY <2>2, <2>4, <3>1, <3>3
  <2> QED
    BY <2>3, <2>4
<1>7. \A m \in Heap \ {n} :
        /\ Left(m) = n => IsLeft(m, x) /\ Right(m) # n
        /\ Right(m) = n => ~ IsLeft(m, x)
  <2>1. ASSUME NEW m \in Heap \ {n}
        PROVE  /\ Left(m) = n => IsLeft(m, x) /\ Right(m) # n
               /\ Right(m) = n => ~ IsLeft(m, x)
    <3>1. Splits(U, m) /\ n # NULL
      BY <1>2, <1>3, NodeSplits
    <3>2. IsLeft(m, x) <=> Order(m) > Order(n)
      BY <1>2 DEF IsLeft, Order
    <3>3. Order(m) \in Nat /\ Order(n) \in Nat
      BY <1>2, <1>3 DEF IsTree
    <3>4. Left(m) = n => n \in Under(U, Left(m)) /\ Right(m) # n
      BY <3>1 DEF Splits
    <3>5. Right(m) = n => n \in Under(U, Right(m))
      BY <3>1 DEF Splits
    <3> QED
      BY <3>1, <3>2, <3>3, <3>4, <3>5 DEF Splits
  <2> QED
    BY <2>1
<1>8. ASSUME NEW m \in Heap \ {n}
      PROVE  /\ nodes'[m] \in Nodes /\ Value(m)' = Value(m)
             /\ Left(m)' = IF Left(m) = n THEN child ELSE Left(m)
             /\ Right(m)' = IF Right(m) = n THEN child ELSE Right(m)
  <2>1. /\ nodes[m] \in Nodes /\ Left(m) = nodes[m].left /\ Right(m) = nodes[m].right
             /\ Value(m) = nodes[m].value
    BY HeldNodes
  <2>2. Left(m)' = nodes'[m].left /\ Right(m)' = nodes'[m].right /\ Value(m)' = nodes'[m].value
    BY DEF Left, Right, Value
  <2>3. child \in Address \cup {NULL} /\ m # NULL
    BY <1>3, <1>4 DEF Holds
  <2>4. CASE m # Parent(n)
    <3>1. nodes'[m] = nodes[m]
      BY <1>5, <2>4
    <3>2. Left(m) # n /\ Right(m) # n
      BY <1>6, <2>4
    <3> QED
      BY <2>1, <2>2, <3>1, <3>2
  <2>5. CASE m = Parent(n) /\ IsLeft(m, x)
    <3>1. nodes'[m] = [nodes[m] EXCEPT !.left = child]
      BY <1>5, <2>5
    <3>2. Left(m) = n /\ Right(m) # n
      BY <1>6, <1>7, <2>3, <2>5
    <3>3. /\ nodes'[m] \in Nodes /\ nodes'[m].left = child
          /\ nodes'[m].right = nodes[m].right /\ nodes'[m].value = nodes[m].value
      BY <2>1, <2>3, <3>1 DEF Nodes
    <3> QED
      BY <2>1, <2>2, <3>2, <3>3
  <2>6. CASE m = Parent(n) /\ ~ IsLeft(m, x)
    <3>1. nodes'[m] = [nodes[m] EXCEPT !.right = child]
      BY <1>5, <2>6
    <3>2. Right(m) = n /\ Left(m) # n
      BY <1>6, <1>7, <2>3, <2>6
    <3>3. /\ nodes'[m] \in Nodes /\ nodes'[m].right = child
          /\ nodes'[m].left = nodes[m].left /\ nodes'[m].value = nodes[m].value
      BY <2>1, <2>3, <3>1 DEF Nodes
    <3> QED
      BY <2>1, <2>2, <3>2, <3>3
  <2> QED
    BY <2>4, <2>5, <2>6
<1>9. Bypassed(U, n, child)
  <2>1. \A m \in Heap \ {n} : Order(m)' = Order(m) /\ Order(m) \in Nat
    BY <1>3, <1>8 DEF Order, IsTree
  <2>2. \A m \in Heap : U[m] \subseteq Heap
    BY <1>3 DEF IsTree
  <2>3. root' = IF root = n THEN child ELSE root
    BY <1>1 DEF RootWithout
  <2> QED
    BY <1>5, <1>8, <2>1, <2>2, <2>3 DEF Bypassed
<1>10. PICK V : Rooted(V)'
  BY <1>1, <1>2, <1>3, <1>4, <1>9, BypassKeepsTree
<1>11. size' = Cardinality(Heap)'
  <2>1. IsFiniteSet(Heap)
    BY <1>3 DEF IsTree
  <2>2. Cardinality(Heap \ {n}) = Cardinality(Heap) - 1
    BY <1>2, <2>1, FS_RemoveElement
  <2> QED
    BY <1>1, <1>5, <2>2 DEF Holds
<1>12. (nodes \in [Heap -> Nodes])'
  <2>1. nodes' = [m \in Heap \ {n} |-> nodes'[m]]
    BY <1>1, <1>5 DEF Promoted
  <2> QED
    BY <1>5, <1>8, <2>1
<1>13. Holds(V)'
  BY <1>1, <1>5, <1>10, <1>11, <1>12 DEF Holds
<1>14. Values' = {Value(m) : m \in Heap \ {n}}
  BY <1>5, <1>8 DEF Values
<1> QED
  BY <1>1, <1>2, <1>13, <1>14

LEMMA SuccessorHolds ==
  ASSUME TreeAssumption, NEW U, Holds(U), NEW x \in Item, RemoveSuccessor(x)
  PROVE  /\ \E V : Holds(V)'
         /\ \E n \in Heap : /\ Order(n) = Rank(x) /\ reply'.out = Value(n)
                            /\ Values' = {Value(m) : m \in Heap \ {n}}
<1> DEFINE n == Reached(Rank(x))
           next == Leftmost(Right(n))
<1>0. Rank(x) \in Nat
  BY DEF TreeAssumption
<1>1. /\ live /\ Matches(x) /\ size' = size - 1 /\ live' = live /\ root' = root
      /\ Left(n) # NULL /\ Right(n) # NULL
      /\ reply'.out = Value(n)
      /\ nodes' = [m \in Heap \ {next} |->
              IF m = n
              THEN [nodes[m] EXCEPT !.value = Value(next),
                                    !.right = IF @ = next THEN Rest(next) ELSE @]
              ELSE IF Left(m) = next THEN [nodes[m] EXCEPT !.left = Rest(next)]
              ELSE nodes[m]]
  BY DEF RemoveSuccessor, Answer
<1>2. n \in Heap /\ Order(n) = Rank(x)
  BY <1>0, <1>1, MatchIs DEF Holds
<1>3. IsTree(U) /\ Rooted(U) /\ NULL \notin Heap
  BY DEF Holds, Rooted, IsTree
<1>4. Right(n) \in Heap /\ next \in Heap /\ LeastBelow(U, Right(n), next)
  BY <1>1, <1>2, <1>3, HeldNodes, LeftmostIs
<1> HIDE DEF n, next
<1>5. Splits(U, n) /\ U[Right(n)] = Under(U, Right(n))
  BY <1>1, <1>2, <1>3, NodeSplits DEF Under
<1>6. /\ next # n /\ Left(next) = NULL /\ Order(n) < Order(next)
      /\ next \in U[n] /\ next \in Under(U, Right(n))
      /\ \A j \in Under(U, Right(n)) : j # next => Order(next) < Order(j)
  BY <1>4, <1>5 DEF LeastBelow, Splits
<1>7. root # next
  <2>1. U[root] = Heap
    BY <1>2, <1>3 DEF Rooted, Under
  <2>2. U[next] \subseteq Under(U, Right(n)) /\ n \notin Under(U, Right(n))
    BY <1>5, <1>6 DEF Splits
  <2> QED
    BY <1>2, <2>1, <2>2
<1>8. Left(n) # next
  <2>1. Left(n) \in Under(U, Left(n))
    BY <1>1, <1>5 DEF Splits
  <2> QED
    BY <1>5, <1>6, <2>1 DEF Splits
<1>9. \A m \in Heap : m # n => Right(m) # next
  <2>1. SUFFICES ASSUME NEW m \in Heap, m # n, Right(m) = next PROVE FALSE
    OBVIOUS
  <2>2. next \in Children(m) /\ next # NULL
    BY <1>3, <1>4, <2>1 DEF Children
  <2>3. next # Right(n)
    <3>1. next = Right(n) => next \in Children(n)
      BY <2>2 DEF Children
    <3> QED
      BY <1>2, <1>3, <1>4, <1>7, <2>1, <2>2, <3>1, OneParent
  <2>4. PICK p \in U[Right(n)] : next \in Children(p)
    BY <1>3, <1>4, <1>5, <1>6, <2>3, HangsFrom
  <2>5. p \in Heap
    BY <1>3, <1>4, SubtreesNest
  <2>6. p = m
    BY <1>4, <1>3, <1>7, <2>2, <2>4, <2>5, OneParent
  <2>7. Splits(U, m)
    BY <1>3, NodeSplits
  <2>8. next \in Under(U, Right(m))
    BY <2>1, <2>2, <2>7 DEF Splits
  <2>9. Order(m) < Order(next) /\ m # next /\ Order(m) \in Nat /\ Order(next) \in Nat
    BY <2>7, <2>8 DEF Splits
  <2> QED
    BY <1>5, <1>6, <2>4, <2>6, <2>9
<1>10. \A m \in Heap : Left(m) = next => Right(m) # next
  BY <1>3, <1>4, OneParent
<1> DEFINE child == Right(next)
<1>11. child = OnlyChild(next) /\ child = Rest(next) /\ child \in Heap \cup {NULL}
  BY <1>4, <1>6, HeldNodes DEF OnlyChild, Rest
<1> HIDE DEF child
<1>12. /\ Heap' = Heap \ {next} /\ DOMAIN nodes' = Heap \ {next}
       /\ nodes'[n] = [nodes[n] EXCEPT !.value = Value(next), !.right = IF @ = next THEN child ELSE @]
       /\ \A m \in Heap \ {next} : m # n =>
            nodes'[m] = IF Left(m) = next THEN [nodes[m] EXCEPT !.left = child] ELSE nodes[m]
  BY <1>1, <1>2, <1>6, <1>11 DEF Heap
<1>13. ASSUME NEW m \in Heap \ {next}
       PROVE  /\ nodes'[m] \in Nodes /\ Value(m)' = IF m = n THEN Value(next) ELSE Value(m)
              /\ Left(m)' = IF Left(m) = next THEN child ELSE Left(m)
              /\ Right(m)' = IF Right(m) = next THEN child ELSE Right(m)
  <2>1. /\ nodes[m] \in Nodes /\ Left(m) = nodes[m].left /\ Right(m) = nodes[m].right
             /\ Value(m) = nodes[m].value
    BY HeldNodes
  <2>2. Left(m)' = nodes'[m].left /\ Right(m)' = nodes'[m].right /\ Value(m)' = nodes'[m].value
    BY DEF Left, Right, Value
  <2>3. child \in Address \cup {NULL} /\ Value(next) \in Item
    BY <1>4, <1>11, HeldNodes DEF Holds
  <2>4. CASE m = n
    <3>1. /\ nodes'[m] \in Nodes /\ nodes'[m].left = nodes[m].left /\ nodes'[m].value = Value(next)
          /\ nodes'[m].right = IF nodes[m].right = next THEN child ELSE nodes[m].right
      BY <1>12, <2>1, <2>3, <2>4 DEF Nodes
    <3> QED
      BY <1>8, <2>1, <2>2, <2>4, <3>1
  <2>5. CASE m # n
    <3>1. nodes'[m] = IF Left(m) = next THEN [nodes[m] EXCEPT !.left = child] ELSE nodes[m]
      BY <1>12, <2>5
    <3>2. /\ nodes'[m] \in Nodes /\ nodes'[m].right = nodes[m].right /\ nodes'[m].value = nodes[m].value
          /\ nodes'[m].left = IF Left(m) = next THEN child ELSE nodes[m].left
      BY <2>1, <2>3, <3>1 DEF Nodes
    <3>3. Right(m) # next
      BY <1>9, <2>5
    <3> QED
      BY <2>1, <2>2, <2>5, <3>2, <3>3
  <2> QED
    BY <2>4, <2>5
<1>14. Bypassed(U, next, child)
  <2>1. \A m \in Heap \ {next} : Order(m)' = IF m = n THEN Order(next) ELSE Order(m)
    BY <1>13 DEF Order
  <2>2. \A m \in Heap : Order(m) \in Nat /\ U[m] \subseteq Heap
    BY <1>3 DEF IsTree
  <2>3. ASSUME NEW m \in Heap \ {next}, NEW k \in U[m] \ {next}
        PROVE  /\ Order(k) < Order(m) => Order(k)' < Order(m)'
               /\ Order(m) < Order(k) => Order(m)' < Order(k)'
    <3>1. k \in Heap \ {next}
      BY <2>2
    <3>2. CASE m # n /\ k # n
      BY <2>1, <3>1, <3>2
    <3>3. CASE m = n /\ k # n
      <4>1. Order(n) < Order(k) => k \in Under(U, Right(n))
        BY <1>5, <2>2, <3>1, <3>3 DEF Splits
      <4> QED
        BY <1>4, <1>6, <2>1, <2>2, <3>1, <3>3, <4>1
    <3>4. CASE m # n /\ k = n
      <4>1. Splits(U, m)
        BY <1>3, NodeSplits
      <4>2. Order(n) < Order(m) => n \in Under(U, Left(m))
        BY <2>2, <3>1, <3>4, <4>1 DEF Splits
      <4>3. Order(n) < Order(m) => Order(next) < Order(m)
        BY <1>6, <4>1, <4>2 DEF Splits
      <4> QED
        BY <1>4, <1>6, <2>1, <2>2, <3>1, <3>4, <4>3
    <3>5. CASE m = n /\ k = n
      BY <2>2, <3>1, <3>5
    <3> QED
      BY <3>2, <3>3, <3>4, <3>5
  <2>4. root' = IF root = next THEN child ELSE root
    BY <1>1, <1>7
  <2>5. \A m \in Heap \ {next} : Order(m)' \in Nat
    BY <1>4, <2>1, <2>2
  <2> QED
    BY <1>12, <1>13, <2>3, <2>4, <2>5 DEF Bypassed
<1>15. PICK V : Rooted(V)'
  BY <1>3, <1>4, <1>6, <1>11, <1>14, BypassKeepsTree
<1>16. size' = Cardinality(Heap)'
  <2>1. IsFiniteSet(Heap)
    BY <1>3 DEF IsTree
  <2>2. Cardinality(Heap \ {next}) = Cardinality(Heap) - 1
    BY <1>4, <2>1, FS_RemoveElement
  <2> QED
    BY <1>1, <1>12, <2>2 DEF Holds
<1>17. (nodes \in [Heap -> Nodes])'
  <2>1. nodes' = [m \in Heap \ {next} |-> nodes'[m]]
    BY <1>1, <1>12
  <2> QED
    BY <1>12, <1>13, <2>1
<1>18. Holds(V)'
  BY <1>1, <1>12, <1>15, <1>16, <1>17 DEF Holds
<1>19. Values' = {Value(m) : m \in Heap \ {n}}
  <2>1. Values' = {Value(m)' : m \in Heap \ {next}}
    BY <1>12 DEF Values
  <2>2. ASSUME NEW m \in Heap \ {next} PROVE Value(m)' \in {Value(k) : k \in Heap \ {n}}
    BY <1>4, <1>6, <1>13
  <2>3. ASSUME NEW k \in Heap \ {n} PROVE \E m \in Heap \ {next} : Value(m)' = Value(k)
    <3>1. CASE k = next
      BY <1>2, <1>6, <1>13, <3>1
    <3>2. CASE k # next
      BY <1>13, <3>2
    <3> QED
      BY <3>1, <3>2
  <2> QED
    BY <2>1, <2>2, <2>3
<1> QED
  BY <1>1, <1>2, <1>18, <1>19

LEMMA DestroyHolds ==
  ASSUME NEW U, Holds(U), Destroy
  PROVE  (\E V : Holds(V)') /\ Values' = {}
<1>1. Freed = Heap
  <2>1. TreeOfAllNodes
    BY LinksMakeTree DEF Holds
  <2> QED
    BY <2>1 DEF TreeOfAllNodes
<1>2. Heap' = {} /\ live' = FALSE /\ size' = 0 /\ root' = NULL /\ nodes' = [n \in {} |-> nodes[n]]
  BY <1>1 DEF Destroy, Heap
<1>3. PICK V : V = [n \in {} |-> {}]
  OBVIOUS
<1>4. IsFiniteSet({}) /\ Cardinality({}) = 0
  BY FS_EmptySet
<1>5. IsTree(V)'
  <2>1. V \in [{} -> SUBSET {}]
    BY <1>3
  <2> QED
    BY <1>2, <1>4, <2>1 DEF IsTree
<1>6. Rooted(V)'
  BY <1>2, <1>5 DEF Rooted, Under
<1>7. Holds(V)'
  BY <1>2, <1>4, <1>6 DEF Holds
<1> QED
  BY <1>2, <1>7 DEF Values

LEMMA InitHolds ==
  ASSUME Init
  PROVE  (\E V : Holds(V)) /\ Values = {}
<1>2. Heap = {} /\ live = FALSE /\ size = 0 /\ root = NULL /\ nodes = [n \in {} |-> NULL]
  BY DEF Init, Heap, NoNodes
<1>3. PICK V : V = [n \in {} |-> {}]
  OBVIOUS
<1>4. IsFiniteSet({}) /\ Cardinality({}) = 0
  BY FS_EmptySet
<1>5. IsTree(V)
  <2>1. V \in [{} -> SUBSET {}]
    BY <1>3
  <2> QED
    BY <1>2, <1>4, <2>1 DEF IsTree
<1>6. Rooted(V)
  BY <1>2, <1>5 DEF Rooted, Under
<1>7. Holds(V)
  BY <1>2, <1>4, <1>6 DEF Holds
<1> QED
  BY <1>2, <1>7 DEF Values

LEMMA SameTreeHolds ==
  ASSUME NEW U, Holds(U), UNCHANGED <<size, root, nodes>>, live' \in BOOLEAN, live => live'
  PROVE  Holds(U)' /\ Values' = Values
<1>1. size' = size /\ root' = root /\ nodes' = nodes /\ Heap' = Heap
  BY DEF Heap
<1>2. \A n : Left(n)' = Left(n) /\ Right(n)' = Right(n) /\ Value(n)' = Value(n)
  BY <1>1 DEF Left, Right, Value
<1>3. \A n : Order(n)' = Order(n)
  BY <1>2 DEF Order
<1>4. \A n : Under(U, Left(n)')= Under(U, Left(n)) /\ Under(U, Right(n)') = Under(U, Right(n))
  BY <1>2
<1>5. IsTree(U)'
  BY <1>1, <1>2, <1>3, <1>4 DEF IsTree, Holds, Rooted, Under
<1>6. Rooted(U)'
  BY <1>1, <1>5 DEF Rooted, Holds, Under
<1>7. Values' = Values
  BY <1>1, <1>2 DEF Values
<1> QED
  BY <1>1, <1>6, <1>7 DEF Holds

(* ------------------------------- the promise ------------------------------ *)
TreeHeld == \E U : Holds(U)

(* What find returns are the values of the nodes.                          *)
FindsValues ==
  /\ Values \subseteq Item
  /\ Stored = [r \in {Rank(v) : v \in Values} |-> Stored[r]]
  /\ \A v \in Values : Stored[Rank(v)] = v
  /\ \A x \in Item : Matches(x) <=> Rank(x) \in {Rank(v) : v \in Values}

LEMMA HeldIsFound == TreeAssumption /\ TreeHeld => FindsValues
<1> SUFFICES ASSUME TreeAssumption, TreeHeld PROVE FindsValues
  OBVIOUS
<1>1. PICK U : Holds(U)
  BY DEF TreeHeld
<1>2. Rooted(U) /\ (~live => Heap = {}) /\ live \in BOOLEAN
  BY <1>1 DEF Holds
<1>3. \A n \in Heap : Value(n) \in Item /\ Order(n) = Rank(Value(n))
  BY <1>1, HeldNodes
<1>4. Values \subseteq Item
  BY <1>3 DEF Values
<1>5. \A x \in Item : /\ Matches(x) <=> \E n \in Heap : Order(n) = Rank(x)
                      /\ Matches(x) => Reached(Rank(x)) \in Heap /\ Order(Reached(Rank(x))) = Rank(x)
  BY <1>2, MatchIs DEF TreeAssumption
<1>6. \A x \in Item : Matches(x) <=> \E v \in Values : Rank(v) = Rank(x)
  BY <1>3, <1>5 DEF Values
<1>7. \A x \in Item : Matches(x) => live
  BY <1>2, <1>5
<1>8. Findable = {x \in Item : Matches(x)}
  BY <1>7 DEF Findable
<1>9. {Rank(x) : x \in Findable} = {Rank(v) : v \in Values}
  BY <1>4, <1>6, <1>8
<1>10. ASSUME NEW v \in Values PROVE Stored[Rank(v)] = v
  <2>1. PICK n \in Heap : v = Value(n)
    BY DEF Values
  <2>2. v \in Item /\ Matches(v)
    BY <1>4, <1>6
  <2>3. Reached(Rank(v)) \in Heap /\ Order(Reached(Rank(v))) = Order(n)
    BY <1>3, <1>5, <2>1, <2>2
  <2>4. Reached(Rank(v)) = n
    BY <1>2, <2>3, OrdersDiffer
  <2>5. Rank(v) \in {Rank(x) : x \in Findable}
    BY <1>9
  <2> QED
    BY <2>1, <2>4, <2>5 DEF Stored
<1>11. Stored = [r \in {Rank(v) : v \in Values} |-> Stored[r]]
  BY <1>9 DEF Stored
<1> QED
  BY <1>4, <1>6, <1>10, <1>11 DEF FindsValues

LEMMA SameValuesSameStored ==
  ASSUME FindsValues, FindsValues', Values' = Values
  PROVE  Stored' = Stored
<1> DEFINE D == {Rank(v) : v \in Values}
           f == Stored
           g == Stored'
<1>1. f = [r \in D |-> f[r]] /\ \A v \in Values : f[Rank(v)] = v
  BY DEF FindsValues
<1>2. g = [r \in D |-> g[r]] /\ \A v \in Values : g[Rank(v)] = v
  BY DEF FindsValues
<1>3. \A r \in D : f[r] = g[r]
  BY <1>1, <1>2
<1> HIDE DEF D, f, g
<1>4. f = g
  BY <1>1, <1>2, <1>3
<1> QED
  BY <1>4 DEF f, g

LEMMA NoValuesNothingStored ==
  ASSUME FindsValues, Values = {}
  PROVE  Stored = Promise!Nothing
<1>1. Stored = [r \in {} |-> Stored[r]]
  BY DEF FindsValues
<1> QED
  BY <1>1 DEF Promise!Nothing

LEMMA SameTreeHeld ==
  TreeHeld /\ UNCHANGED tree => TreeHeld' /\ Values' = Values
<1> SUFFICES ASSUME TreeHeld, UNCHANGED tree PROVE TreeHeld' /\ Values' = Values
  OBVIOUS
<1>1. PICK U : Holds(U)
  BY DEF TreeHeld
<1>2. UNCHANGED <<size, root, nodes>> /\ live' \in BOOLEAN /\ (live => live')
  BY <1>1 DEF tree, Holds
<1>3. Holds(U)' /\ Values' = Values
  BY <1>1, <1>2, SameTreeHolds
<1> QED
  BY <1>3 DEF TreeHeld

(* Every call keeps the tree and does what the ordered set promises.       *)
Promised == TreeHeld' /\ (FindsValues /\ FindsValues' => Promise!Next)

LEMMA RefusedCall ==
  ASSUME TreeHeld, NEW x \in Item, NEW op \in {"insert", "remove"}, Fail(op, x),
         op = "remove" => ~Matches(x)
  PROVE  Promised
<1>1. UNCHANGED tree /\ reply' = [op |-> op, item |-> x, ok |-> FALSE, out |-> Untouched]
  BY DEF Fail, Answer
<1>2. TreeHeld' /\ Values' = Values
  BY <1>1, SameTreeHeld
<1>3. ASSUME FindsValues, FindsValues' PROVE Promise!Next
  <2>1. Stored' = Stored
    BY <1>2, <1>3, SameValuesSameStored
  <2>2. Promise!Refuse(op, x)
    BY <1>1, <2>1 DEF Promise!Refuse, Promise!Answer
  <2>3. op = "remove" => ~Promise!Present(x)
    <3>1. DOMAIN Stored = {Rank(v) : v \in Values}
             /\ (Matches(x) <=> Rank(x) \in {Rank(v) : v \in Values})
      BY <1>3 DEF FindsValues
    <3> QED
      BY <3>1 DEF Promise!Present
  <2> QED
    BY <2>2, <2>3 DEF Promise!Next
<1> QED
  BY <1>2, <1>3 DEF Promised

LEMMA CreateCall ==
  ASSUME TreeHeld, Create \/ CreateFails
  PROVE  Promised
<1>1. PICK U : Holds(U)
  BY DEF TreeHeld
<1>2. ~live /\ Heap = {} /\ Values = {}
  BY <1>1 DEF Holds, Values, Create, CreateFails
<1>3. UNCHANGED <<size, root, nodes>> /\ live' \in BOOLEAN
  BY <1>1 DEF Create, CreateFails, Fail, tree, Holds
<1>4. Holds(U)' /\ Values' = Values
  BY <1>1, <1>2, <1>3, SameTreeHolds
<1>5. ASSUME FindsValues, FindsValues' PROVE Promise!Next
  <2>1. Stored' = Stored /\ Stored = Promise!Nothing
    BY <1>2, <1>4, <1>5, SameValuesSameStored, NoValuesNothingStored
  <2>2. CASE Create
    <3>1. Promise!Reset("create")
      BY <2>1, <2>2 DEF Promise!Reset, Promise!Answer, Create, Answer, Promise!Nothing
    <3> QED
      BY <3>1 DEF Promise!Next
  <2>3. CASE CreateFails
    <3>1. Promise!Refuse("create", NULL)
      BY <2>1, <2>3 DEF Promise!Refuse, Promise!Answer, CreateFails, Fail, Answer
    <3> QED
      BY <3>1 DEF Promise!Next
  <2> QED
    BY <2>2, <2>3
<1> QED
  BY <1>4, <1>5 DEF Promised, TreeHeld

LEMMA NothingThere == FindsValues /\ Values = {} => Stored = [r \in {} |-> NULL]
BY NoValuesNothingStored DEF Promise!Nothing

LEMMA NothingThereNext == (FindsValues /\ Values = {} => Stored = [r \in {} |-> NULL])'
BY NothingThere, PTL

LEMMA DestroyCall ==
  ASSUME TreeHeld, Destroy
  PROVE  Promised
<1>1. TreeHeld' /\ Values' = {}
  BY DestroyHolds DEF TreeHeld
<1>2. ASSUME FindsValues, FindsValues' PROVE Promise!Next
  <2>1. Stored' = [r \in {} |-> NULL]
    BY <1>1, <1>2, NothingThereNext
  <2>2. Stored' = Promise!Nothing
    BY <2>1 DEF Promise!Nothing
  <2>3. Promise!Reset("destroy")
    BY <2>2 DEF Promise!Reset, Promise!Answer, Destroy, Answer
  <2> QED
    BY <2>3 DEF Promise!Next
<1> QED
  BY <1>1, <1>2 DEF Promised

LEMMA InsertCall ==
  ASSUME TreeAssumption, TreeHeld, NEW x \in Item, NEW new \in Address \ Heap,
         InsertRoot(x, new) \/ InsertLeaf(x, new)
  PROVE  Promised
<1>1. PICK U : Holds(U)
  BY DEF TreeHeld
<1>2. /\ \E V : Holds(V)'
      /\ Values' = Values \cup {x} /\ ~ \E n \in Heap : Order(n) = Rank(x)
  BY <1>1, InsertRootHolds, InsertLeafHolds
<1>3. reply' = [op |-> "insert", item |-> x, ok |-> TRUE, out |-> Untouched]
  BY DEF InsertRoot, InsertLeaf, Answer
<1>4. \A v \in Values : Rank(v) # Rank(x)
  BY <1>1, <1>2, HeldNodes DEF Values
<1>5. ASSUME FindsValues, FindsValues' PROVE Promise!Next
  <2> DEFINE D == {Rank(v) : v \in Values}
             E == {Rank(v) : v \in Values'}
             f == Stored
             g == Stored'
  <2>1. f = [r \in D |-> f[r]] /\ \A v \in Values : f[Rank(v)] = v
    BY <1>5 DEF FindsValues
  <2>2. g = [r \in E |-> g[r]] /\ \A v \in Values' : g[Rank(v)] = v
    BY <1>5 DEF FindsValues
  <2>3. E = D \cup {Rank(x)} /\ Rank(x) \notin D
    BY <1>2, <1>4
  <2>4. g[Rank(x)] = x /\ \A r \in D : g[r] = f[r] /\ r # Rank(x)
    BY <1>2, <1>4, <2>1, <2>2
  <2> HIDE DEF D, E, f, g
  <2>5. g = [r \in D \cup {Rank(x)} |-> IF r = Rank(x) THEN x ELSE f[r]]
    BY <2>2, <2>3, <2>4
  <2>6. DOMAIN f = D
    BY <2>1
  <2>7. Stored' = [r \in DOMAIN Stored \cup {Rank(x)} |-> IF r = Rank(x) THEN x ELSE Stored[r]]
    BY <2>5, <2>6 DEF f, g
  <2>8. ~Promise!Present(x)
    BY <2>3, <2>6 DEF Promise!Present, f
  <2>9. Promise!Insert(x)
    BY <1>3, <2>7, <2>8 DEF Promise!Insert, Promise!Answer
  <2> QED
    BY <2>9 DEF Promise!Next
<1> QED
  BY <1>2, <1>5 DEF Promised, TreeHeld

LEMMA RemoveCall ==
  ASSUME TreeAssumption, TreeHeld, NEW x \in Item, RemoveSplice(x) \/ RemoveSuccessor(x)
  PROVE  Promised
<1>1. PICK U : Holds(U)
  BY DEF TreeHeld
<1>2. /\ \E V : Holds(V)'
      /\ \E n \in Heap : /\ Order(n) = Rank(x) /\ reply'.out = Value(n)
                         /\ Values' = {Value(m) : m \in Heap \ {n}}
  BY <1>1, SpliceHolds, SuccessorHolds
<1>3. PICK n \in Heap : Order(n) = Rank(x) /\ reply'.out = Value(n)
         /\ Values' = {Value(m) : m \in Heap \ {n}}
  BY <1>2
<1>4. reply' = [op |-> "remove", item |-> x, ok |-> TRUE, out |-> reply'.out]
  <2>1. \E o : reply' = [op |-> "remove", item |-> x, ok |-> TRUE, out |-> o]
    <3>1. CASE RemoveSplice(x)
      BY <3>1, Zenon DEF RemoveSplice, Answer
    <3>2. CASE RemoveSuccessor(x)
      BY <3>2, Zenon DEF RemoveSuccessor, Answer
    <3> QED
      BY <3>1, <3>2
  <2>2. PICK o : reply' = [op |-> "remove", item |-> x, ok |-> TRUE, out |-> o]
    BY <2>1
  <2> QED
    BY <2>2
<1>5. Rank(Value(n)) = Rank(x) /\ Value(n) \in Values
  BY <1>1, <1>3, HeldNodes DEF Values
<1>6. \A v \in Values' : v \in Values /\ Rank(v) # Rank(x)
  <2>1. ASSUME NEW m \in Heap \ {n} PROVE Rank(Value(m)) # Rank(x)
    <3>1. Order(m) # Order(n)
      BY <1>1, OrdersDiffer DEF Holds
    <3> QED
      BY <1>1, <1>3, <3>1, HeldNodes
  <2> QED
    BY <1>3, <2>1 DEF Values
<1>7. \A v \in Values : v \in Values' \/ v = Value(n)
  BY <1>3 DEF Values
<1>8. ASSUME FindsValues, FindsValues' PROVE Promise!Next
  <2> DEFINE D == {Rank(v) : v \in Values}
             E == {Rank(v) : v \in Values'}
             f == Stored
             g == Stored'
  <2>1. f = [r \in D |-> f[r]] /\ \A v \in Values : f[Rank(v)] = v
    BY <1>8 DEF FindsValues
  <2>2. g = [r \in E |-> g[r]] /\ \A v \in Values' : g[Rank(v)] = v
    BY <1>8 DEF FindsValues
  <2>3. E = D \ {Rank(x)} /\ Rank(x) \in D
    BY <1>5, <1>6, <1>7
  <2>9. \A r \in E : g[r] = f[r]
    <3>1. ASSUME NEW v \in Values' PROVE g[Rank(v)] = f[Rank(v)]
      BY <3>1, <1>6, <2>1, <2>2
    <3> QED
      BY <3>1
  <2>4. f[Rank(x)] = Value(n) /\ \A r \in E : g[r] = f[r]
    <3>1. f[Rank(Value(n))] = Value(n)
      BY <1>5, <2>1
    <3> QED
      BY <3>1, <1>5, <2>9
  <2> HIDE DEF D, E, f, g
  <2>5. g = [r \in D \ {Rank(x)} |-> f[r]]
    BY <2>2, <2>3, <2>4
  <2>6. DOMAIN f = D
    BY <2>1
  <2>7. Stored' = [r \in DOMAIN Stored \ {Rank(x)} |-> Stored[r]]
    BY <2>5, <2>6 DEF f, g
  <2>8. Promise!Present(x) /\ reply'.out = Stored[Rank(x)]
    BY <1>3, <2>3, <2>4, <2>6 DEF Promise!Present, f
  <2>10. Promise!Remove(x)
    BY <1>4, <2>7, <2>8 DEF Promise!Remove, Promise!Answer
  <2> QED
    BY <2>10 DEF Promise!Next
<1> QED
  BY <1>2, <1>8 DEF Promised, TreeHeld

LEMMA TreeNext ==
  ASSUME TreeAssumption, TreeHeld, Next
  PROVE  Promised
<1>1. CASE Create \/ CreateFails
  BY <1>1, CreateCall
<1>2. CASE Destroy
  BY <1>2, DestroyCall
<1>3. ASSUME NEW x \in Item, NEW new \in Address \ Heap, InsertRoot(x, new) \/ InsertLeaf(x, new)
      PROVE  Promised
  BY <1>3, InsertCall
<1>4. ASSUME NEW x \in Item, InsertFails(x) PROVE Promised
  <2>1. Fail("insert", x)
    BY <1>4 DEF InsertFails
  <2> QED
    BY <2>1, RefusedCall
<1>5. ASSUME NEW x \in Item, RemoveSplice(x) \/ RemoveSuccessor(x) PROVE Promised
  BY <1>5, RemoveCall
<1>6. ASSUME NEW x \in Item, RemoveFails(x) PROVE Promised
  <2>1. Fail("remove", x) /\ ~Matches(x)
    BY <1>6 DEF RemoveFails
  <2> QED
    BY <2>1, RefusedCall
<1> QED
  BY <1>1, <1>2, <1>3, <1>4, <1>5, <1>6 DEF Next

(* The replies keep their type.                                            *)
LEMMA ReplyTyped ==
  ASSUME Next PROVE reply'.ok \in BOOLEAN
<1>1. \E op, x, out : Answer(op, x, TRUE, out) \/ Answer(op, x, FALSE, out)
  BY Zenon DEF Next, Create, CreateFails, Destroy, InsertRoot, InsertLeaf, InsertFails, RemoveSplice,
               RemoveSuccessor, RemoveFails, Fail
<1>2. PICK op, x, out : Answer(op, x, TRUE, out) \/ Answer(op, x, FALSE, out)
  BY <1>1
<1>3. reply'.ok = TRUE \/ reply'.ok = FALSE
  <2>1. CASE Answer(op, x, TRUE, out)
    BY <2>1 DEF Answer
  <2>2. CASE Answer(op, x, FALSE, out)
    BY <2>2 DEF Answer
  <2> QED
    BY <1>2, <2>1, <2>2
<1> QED
  BY <1>3

LEMMA HeldIsWellFormed == TreeHeld /\ reply.ok \in BOOLEAN => WellFormed /\ IndexesAgree
<1> SUFFICES ASSUME TreeHeld, reply.ok \in BOOLEAN PROVE WellFormed /\ IndexesAgree
  OBVIOUS
<1>1. PICK U : Holds(U)
  BY DEF TreeHeld
<1>2. TreeOfAllNodes /\ InOrderRises /\ IndexesAgree
  BY <1>1, LinksMakeTree, WalkRises DEF Holds
<1>3. size \in Nat
  BY <1>1, FS_CardinalityType DEF Holds, Rooted, IsTree
<1>4. TypeOK
  BY <1>1, <1>3 DEF TypeOK, Holds, Rooted, Nodes
<1> QED
  BY <1>2, <1>4 DEF WellFormed

------------------------------------------------------------------------------
(* ------------------------------- the queue -------------------------------- *)
LEMMA QueueAssumption == QueueMax \in Nat /\ PtrSize \in Nat \ {0}
BY ContainersAssumption, SizeAssumption

(* What a slot may hold. *)
MayHold == Pointer \cup {NULL, Garbage}

(* Without a queue there is nothing stored, and the buffer is one malloc   *)
(* could grant, so that no index computation can wrap around.              *)
Addressable ==
  /\ ~live => size = 0 /\ capacity = 0
  /\ Queue!Fits(capacity)

QueueInv == Queue!TypeOK /\ Queue!RingShape /\ Queue!OwnsItsBlocks /\ Addressable

------------------------------------------------------------------------------
(* A result that fits in a size_t is the mathematical one. *)
LEMMA WrapFits ==
  ASSUME NEW u \in 0 .. QueueMax
  PROVE  Queue!Wrap(u) = u
BY FitsInWord, QueueAssumption DEF Queue!Wrap

(* A slot count that Fits has a byte count that does not wrap, so malloc   *)
(* grants that many slots; and the count is itself a size_t.               *)
LEMMA GrantedInFull ==
  ASSUME NEW u \in Nat, Queue!Fits(u)
  PROVE  Queue!SlotsGranted(u) = u /\ u <= QueueMax
<1>1. u * PtrSize <= QueueMax /\ u <= u * PtrSize
  BY QueueAssumption DEF Queue!Fits
<1>2. u * PtrSize \in 0 .. QueueMax /\ (u * PtrSize) \div PtrSize = u
  BY <1>1, QueueAssumption
<1> QED
  BY <1>1, <1>2, WrapFits, QueueAssumption DEF Queue!SlotsGranted

(* Zero slots always fit. *)
LEMMA ZeroSlotsFit == Queue!Fits(0)
BY QueueAssumption DEF Queue!Fits

(* A step of n slots forward in a ring of c slots wraps at most once. *)
LEMMA RingStep ==
  ASSUME NEW c \in Nat \ {0}, NEW t \in Queue!Slots(c), NEW n \in 0 .. c
  PROVE  /\ Queue!RingSlot(t, n, c) = IF t + n < c THEN t + n ELSE t + n - c
         /\ Queue!RingSlot(t, n, c) \in Queue!Slots(c)
BY DEF Queue!Slots, Queue!RingSlot

(* The slot after the n-th one of a ring that starts at h, as the code     *)
(* computes it from the n-th slot: the sum cannot exceed SIZE_MAX.         *)
LEMMA RingNext ==
  ASSUME NEW c \in Nat \ {0}, c <= QueueMax, NEW h \in Queue!Slots(c),
         NEW n \in Queue!Slots(c), NEW t, t = Queue!RingSlot(h, n, c)
  PROVE  /\ t \in Queue!Slots(c)
         /\ Queue!Wrap(t + 1) % c = Queue!RingSlot(h, n + 1, c)
         /\ Queue!RingSlot(h, n + 1, c) \in Queue!Slots(c)
<1>1. n \in 0 .. c /\ n + 1 \in 0 .. c /\ 1 \in 0 .. c
  BY DEF Queue!Slots
<1>2. t = IF h + n < c THEN h + n ELSE h + n - c
  BY <1>1, RingStep
<1>3. t \in Queue!Slots(c)
  BY <1>2 DEF Queue!Slots
<1>4. (t + 1) % c = IF t + 1 < c THEN t + 1 ELSE t + 1 - c
  BY <1>1, <1>3, RingStep DEF Queue!RingSlot
<1>5. Queue!RingSlot(h, n + 1, c) = IF h + (n + 1) < c THEN h + (n + 1)
                              ELSE h + (n + 1) - c
  BY <1>1, RingStep
<1>6. t + 1 \in 0 .. QueueMax
  BY <1>3, QueueAssumption DEF Queue!Slots
<1>7. Queue!Wrap(t + 1) = t + 1
  BY <1>6, WrapFits
<1>8. Queue!RingSlot(h, n + 1, c) = (t + 1) % c
  BY <1>2, <1>3, <1>4, <1>5 DEF Queue!Slots
<1> QED
  BY <1>1, <1>3, <1>7, <1>8, RingStep

(* The items of a ring are a sequence of the expected length. *)
LEMMA RingItemsSeq ==
  ASSUME NEW c \in Nat, NEW n \in 0 .. c, NEW h, c > 0 => h \in Queue!Slots(c),
         NEW b \in [Queue!Slots(c) -> MayHold]
  PROVE  /\ Queue!RingItems(b, h, n, c) \in Seq(MayHold)
         /\ Len(Queue!RingItems(b, h, n, c)) = n
<1>1. ASSUME NEW k \in 1 .. n
      PROVE  b[Queue!RingSlot(h, k - 1, c)] \in MayHold
  <2>1. c \in Nat \ {0} /\ k - 1 \in 0 .. c /\ k - 1 < c
    BY <1>1
  <2>2. Queue!RingSlot(h, k - 1, c) \in Queue!Slots(c)
    BY <2>1, RingStep
  <2> QED
    BY <2>2
<1> QED
  BY <1>1 DEF Queue!RingItems

(* Writing the slot after the last item appends to the sequence. *)
LEMMA RingAppends ==
  ASSUME NEW c \in Nat \ {0}, NEW n \in 0 .. c - 1, NEW h \in Queue!Slots(c),
         NEW b \in [Queue!Slots(c) -> MayHold], NEW x \in MayHold
  PROVE  Queue!RingItems([b EXCEPT ![Queue!RingSlot(h, n, c)] = x], h, n + 1, c)
           = Append(Queue!RingItems(b, h, n, c), x)
<1> DEFINE t == Queue!RingSlot(h, n, c)
           nb == [b EXCEPT ![t] = x]
           old == Queue!RingItems(b, h, n, c)
           new == Queue!RingItems(nb, h, n + 1, c)
<1>1. /\ t \in Queue!Slots(c)
      /\ t = IF h + n < c THEN h + n ELSE h + n - c
  BY RingStep
<1>2. nb \in [Queue!Slots(c) -> MayHold]
  BY <1>1
<1>3. old \in Seq(MayHold) /\ Len(old) = n
  BY RingItemsSeq
<1>4. new \in Seq(MayHold) /\ Len(new) = n + 1
  <2>1. n + 1 \in 0 .. c
    OBVIOUS
  <2> HIDE DEF nb
  <2> QED
    BY <1>2, <2>1, RingItemsSeq
<1>5. /\ Append(old, x) \in Seq(MayHold) /\ Len(Append(old, x)) = n + 1
      /\ \A k \in 1 .. n : Append(old, x)[k] = old[k]
      /\ Append(old, x)[n + 1] = x
  BY <1>3, AppendProperties
<1>6. new[n + 1] = x
  BY <1>1 DEF Queue!RingItems
<1>7. ASSUME NEW k \in 1 .. n
      PROVE  new[k] = old[k]
  <2>1. k - 1 \in 0 .. c /\ k - 1 < n
    BY <1>7
  <2>2. /\ Queue!RingSlot(h, k - 1, c) \in Queue!Slots(c)
        /\ Queue!RingSlot(h, k - 1, c)
             = IF h + (k - 1) < c THEN h + (k - 1) ELSE h + (k - 1) - c
    BY <2>1, RingStep
  <2>3. Queue!RingSlot(h, k - 1, c) # t
    BY <1>1, <2>1, <2>2 DEF Queue!Slots
  <2> QED
    BY <2>2, <2>3 DEF Queue!RingItems
<1> HIDE DEF old, new
<1>8. ASSUME NEW k \in 1 .. n + 1
      PROVE  new[k] = Append(old, x)[k]
  BY <1>5, <1>6, <1>7
<1>9. new = Append(old, x)
  BY <1>4, <1>5, <1>8, SeqEqual
<1> QED
  BY <1>9 DEF old, new

(* Moving the head one slot on drops the first item, whatever is written   *)
(* to the slot it leaves.                                                  *)
DropsFront(b, h, n, c, x) ==
  /\ Queue!RingItems(b, h, n, c) # <<>>
  /\ Head(Queue!RingItems(b, h, n, c)) = b[h]
  /\ Queue!RingItems([b EXCEPT ![h] = x], Queue!RingSlot(h, 1, c), n - 1, c)
       = Tail(Queue!RingItems(b, h, n, c))

LEMMA RingDrops ==
  ASSUME NEW c \in Nat \ {0}, NEW n \in 1 .. c, NEW h \in Queue!Slots(c),
         NEW b \in [Queue!Slots(c) -> MayHold], NEW x \in MayHold
  PROVE  DropsFront(b, h, n, c, x)
<1> DEFINE g == Queue!RingSlot(h, 1, c)
           nb == [b EXCEPT ![h] = x]
           old == Queue!RingItems(b, h, n, c)
           new == Queue!RingItems(nb, g, n - 1, c)
<1>1. /\ g \in Queue!Slots(c)
      /\ g = IF h + 1 < c THEN h + 1 ELSE h + 1 - c
  BY RingStep
<1>2. nb \in [Queue!Slots(c) -> MayHold]
  OBVIOUS
<1>3. old \in Seq(MayHold) /\ Len(old) = n
  BY RingItemsSeq
<1>4. new \in Seq(MayHold) /\ Len(new) = n - 1
  <2>1. n - 1 \in 0 .. c
    OBVIOUS
  <2> HIDE DEF nb, g
  <2> QED
    BY <1>1, <1>2, <2>1, RingItemsSeq
<1>5. old # <<>>
  BY <1>3
<1>6. Tail(old) \in Seq(MayHold) /\ Len(Tail(old)) = n - 1
      /\ \A k \in 1 .. n - 1 : Tail(old)[k] = old[k + 1]
  BY <1>3, <1>5, HeadTailProperties
<1>7. Head(old) = b[h]
  <2>1. Queue!RingSlot(h, 0, c) = h
    BY RingStep DEF Queue!Slots
  <2> QED
    BY <1>3, <2>1 DEF Queue!RingItems
<1>8. ASSUME NEW k \in 1 .. n - 1
      PROVE  new[k] = old[k + 1]
  <2>1. k - 1 \in 0 .. c /\ k \in 0 .. c /\ k < c /\ k > 0
    BY <1>8
  <2>2. Queue!RingSlot(g, k - 1, c)
          = IF g + (k - 1) < c THEN g + (k - 1) ELSE g + (k - 1) - c
    BY <1>1, <2>1, RingStep
  <2>3. /\ Queue!RingSlot(h, k, c) \in Queue!Slots(c)
        /\ Queue!RingSlot(h, k, c) = IF h + k < c THEN h + k ELSE h + k - c
    BY <2>1, RingStep
  <2>4. Queue!RingSlot(g, k - 1, c) = Queue!RingSlot(h, k, c) /\ Queue!RingSlot(h, k, c) # h
    BY <1>1, <2>1, <2>2, <2>3 DEF Queue!Slots
  <2> QED
    BY <2>3, <2>4 DEF Queue!RingItems
<1> HIDE DEF old, new
<1>9. new = Tail(old)
  BY <1>4, <1>6, <1>8, SeqEqual
<1> QED
  BY <1>5, <1>7, <1>9 DEF old, new, DropsFront

(* Copied in ring order to the front of a larger buffer, the items are the *)
(* same sequence.                                                          *)
LEMMA RingUnwraps ==
  ASSUME NEW c \in Nat, NEW d \in Nat, c < d, NEW n \in 0 .. c,
         NEW h, NEW b, NEW nb,
         nb = [i \in Queue!Slots(d) |-> IF i < n THEN b[Queue!RingSlot(h, i, c)]
                                           ELSE Garbage]
  PROVE  Queue!RingItems(nb, 0, n, d) = Queue!RingItems(b, h, n, c)
<1>1. ASSUME NEW k \in 1 .. n
      PROVE  nb[Queue!RingSlot(0, k - 1, d)] = b[Queue!RingSlot(h, k - 1, c)]
  <2>1. k - 1 \in 0 .. d /\ k - 1 < n /\ 0 \in Queue!Slots(d) /\ d \in Nat \ {0}
    BY <1>1 DEF Queue!Slots
  <2>2. Queue!RingSlot(0, k - 1, d) = k - 1 /\ k - 1 \in Queue!Slots(d)
    BY <2>1, RingStep DEF Queue!Slots
  <2> QED
    BY <2>1, <2>2
<1> QED
  BY <1>1 DEF Queue!RingItems

------------------------------------------------------------------------------
(* A growth that the guards allow gets all the slots it asks for and       *)
(* copies the items into FIFO order.                                       *)
LEMMA QueueGrowth ==
  ASSUME QueueInv, Queue!CanGrow, size = capacity
  PROVE  /\ Queue!NewCapacity \in Nat
         /\ Queue!NewCapacity > capacity
         /\ Queue!NewCapacity <= QueueMax
         /\ Queue!Fits(Queue!NewCapacity)
         /\ Queue!Unwrapped = [i \in Queue!Slots(Queue!NewCapacity) |->
                           IF i < size THEN items[Queue!SlotOf(i)] ELSE Garbage]
<1>1. capacity \in Nat /\ capacity * 2 \in 0 .. QueueMax
  BY QueueAssumption DEF QueueInv, Queue!TypeOK, Queue!CanGrow
<1>2. Queue!NewCapacity = IF capacity = 0 THEN 2 ELSE capacity * 2
  BY <1>1, WrapFits DEF Queue!NewCapacity
<1>3. Queue!NewCapacity \in Nat /\ Queue!NewCapacity > capacity
  BY <1>1, <1>2
<1>4. Queue!Fits(Queue!NewCapacity)
  BY DEF Queue!CanGrow
<1>5. Queue!NewCapacity <= QueueMax
  BY <1>3, <1>4, GrantedInFull
<1>6. Queue!SlotsGranted(Queue!NewCapacity) = Queue!NewCapacity
  BY <1>3, <1>4, GrantedInFull
<1>7. ASSUME NEW i \in Queue!Slots(Queue!NewCapacity), i < size
      PROVE  Queue!Wrap(head + i) % capacity = Queue!SlotOf(i)
  <2>1. head + i \in 0 .. QueueMax
    BY <1>1, <1>3, <1>7, QueueAssumption DEF QueueInv, Queue!TypeOK, Queue!RingShape, Queue!Slots
  <2> QED
    BY <2>1, WrapFits DEF Queue!SlotOf, Queue!RingSlot
<1>8. Queue!Unwrapped = [i \in Queue!Slots(Queue!NewCapacity) |->
                     IF i < size THEN items[Queue!SlotOf(i)] ELSE Garbage]
  BY <1>6, <1>7 DEF Queue!Unwrapped
<1> QED
  BY <1>3, <1>4, <1>5, <1>8

------------------------------------------------------------------------------
LEMMA QueueInitIndInv == Queue!Init => QueueInv
<1> SUFFICES ASSUME Queue!Init PROVE QueueInv
  OBVIOUS
<1>1. Queue!TypeOK
  BY DEF Queue!Init, Queue!TypeOK, Queue!NoSlots
<1>2. Queue!RingShape
  BY DEF Queue!Init, Queue!RingShape, Queue!NoSlots, Queue!Slots
<1>3. Queue!OwnsItsBlocks /\ Addressable
  BY ZeroSlotsFit DEF Queue!Init, Queue!OwnsItsBlocks, Addressable
<1> QED
  BY <1>1, <1>2, <1>3 DEF QueueInv

(* A call that changes no field and returns an item in the buffer, or none. *)
LEMMA QueueKeepsIndInv ==
  ASSUME QueueInv, UNCHANGED <<live, Queue!fields, blocks>>,
         NEW op \in {"create", "enqueue", "dequeue", "peek"},
         NEW ok \in BOOLEAN,
         NEW item \in Pointer \cup {NULL, Garbage, Untouched},
         Queue!Answer(op, ok, item)
  PROVE  QueueInv'
<1>1. Queue!QueueSize' \in Nat
  BY DEF QueueInv, Queue!TypeOK, Queue!QueueSize, Queue!fields
<1>2. Queue!TypeOK'
  BY <1>1 DEF QueueInv, Queue!TypeOK, Queue!fields, Queue!Answer
<1>3. Queue!RingShape' /\ Addressable' /\ Queue!OwnsItsBlocks'
  BY DEF QueueInv, Queue!RingShape, Addressable, Queue!OwnsItsBlocks, Queue!fields
<1> QED
  BY <1>2, <1>3 DEF QueueInv

(* A call that leaves no buffer and the right number of blocks. *)
LEMMA QueueEmptyIndInv ==
  ASSUME Queue!EmptyQueue, live' \in BOOLEAN, blocks' = IF live' THEN 1 ELSE 0,
         NEW op \in {"create", "destroy"}, Queue!Answer(op, TRUE, Untouched)
  PROVE  QueueInv'
<1>1. Queue!QueueSize' = 0
  BY DEF Queue!QueueSize, Queue!EmptyQueue
<1>2. Queue!TypeOK'
  BY <1>1 DEF Queue!TypeOK, Queue!EmptyQueue, Queue!Answer, Queue!NoSlots
<1>3. Queue!RingShape'
  BY DEF Queue!RingShape, Queue!EmptyQueue, Queue!NoSlots, Queue!Slots
<1>4. Addressable' /\ Queue!OwnsItsBlocks'
  BY ZeroSlotsFit DEF Addressable, Queue!OwnsItsBlocks, Queue!EmptyQueue
<1> QED
  BY <1>2, <1>3, <1>4 DEF QueueInv

(* Storing at the back of a buffer of c slots whose size first ones, in    *)
(* ring order from the new head, are taken and whose others are free.      *)
LEMMA QueueStoreIndInv ==
  ASSUME QueueInv, NEW x \in Pointer, live,
         NEW b, NEW t, NEW c \in Nat \ {0},
         b \in [Queue!Slots(c) -> Pointer \cup {NULL, Garbage}],
         Queue!Fits(c), size < c, head' \in Queue!Slots(c), t = Queue!RingSlot(head', size, c),
         Queue!StoreAtBack(b, t, c, x), blocks' = 2,
         Queue!Answer("enqueue", TRUE, Untouched)
  PROVE  /\ QueueInv'
         /\ size' = size + 1 /\ capacity' = c
         /\ items' = [b EXCEPT ![t] = x]
<1>1. size \in Queue!Slots(c) /\ size \in Nat /\ c <= QueueMax
  BY GrantedInFull DEF QueueInv, Queue!TypeOK, Queue!Slots
<1>2. Queue!Wrap(size + 1) = size + 1
  <2>1. size + 1 \in 0 .. QueueMax
    BY <1>1, QueueAssumption DEF Queue!Slots
  <2> QED
    BY <2>1, WrapFits
<1>3. t \in Queue!Slots(c) /\ Queue!Wrap(t + 1) % c \in Queue!Slots(c)
      /\ Queue!Wrap(t + 1) % c = Queue!RingSlot(head', size + 1, c)
  BY <1>1, RingNext
<1>4. /\ size' = size + 1 /\ capacity' = c /\ live'
      /\ tail' \in Queue!Slots(c) /\ tail' = Queue!RingSlot(head', size', c)
      /\ items' = [b EXCEPT ![t] = x]
      /\ items' \in [Queue!Slots(c) -> Pointer \cup {NULL, Garbage}]
  BY <1>2, <1>3 DEF Queue!StoreAtBack
<1>5. Queue!TypeOK'
  <2>1. Queue!QueueSize' \in Nat /\ size' \in Nat /\ tail' \in Nat /\ head' \in Nat
    BY <1>1, <1>4 DEF Queue!QueueSize, Queue!Slots
  <2> QED
    BY <2>1, <1>4 DEF Queue!TypeOK, Queue!Answer
<1>6. Queue!RingShape'
  BY <1>1, <1>4 DEF Queue!RingShape, Queue!Slots
<1>7. Addressable' /\ Queue!OwnsItsBlocks'
  BY <1>1, <1>4 DEF Addressable, Queue!OwnsItsBlocks
<1> QED
  BY <1>4, <1>5, <1>6, <1>7 DEF QueueInv

------------------------------------------------------------------------------
(* The refinement mapping gives a sequence of as many items as size says. *)
LEMMA ContentsIsSeq ==
  ASSUME QueueInv
  PROVE  /\ Queue!Contents \in Seq(MayHold)
         /\ Len(Queue!Contents) = size
         /\ Queue!QueueSize = size
<1>1. /\ capacity \in Nat /\ size \in 0 .. capacity
      /\ capacity > 0 => head \in Queue!Slots(capacity)
      /\ items \in [Queue!Slots(capacity) -> MayHold]
  BY DEF QueueInv, Queue!TypeOK, Queue!RingShape, Queue!Slots, MayHold
<1>2. Queue!Contents \in Seq(MayHold) /\ Len(Queue!Contents) = size
  BY <1>1, RingItemsSeq DEF Queue!Contents
<1>3. Queue!QueueSize = size
  BY DEF QueueInv, Addressable, Queue!QueueSize
<1> QED
  BY <1>2, <1>3

(* A step of the queue. *)
InQueue == kind = "queue" /\ kind' = "queue"

LEMMA QueuedIs ==
  ASSUME InQueue PROVE Queued = Queue!Contents /\ Queued' = Queue!Contents'
BY DEF InQueue, Queued

(* The three shapes of step that more than one call takes. *)
LEMMA QueueFailStep ==
  ASSUME InQueue, QueueInv, NEW op \in {"create", "enqueue", "dequeue", "peek"}, Queue!Fail(op)
  PROVE  QueueInv' /\ QueuePromise!Next
<1>1. QueueInv'
  BY QueueKeepsIndInv DEF Queue!Fail
<1>2. Queue!Contents' = Queue!Contents /\ Queue!QueueSize' = Len(Queue!Contents)
  BY ContentsIsSeq DEF Queue!Fail, Queue!fields, Queue!Contents, Queue!QueueSize
<1>3. QueuePromise!Refuse(op)
  BY QueuedIs, <1>2 DEF Queue!Fail, Queue!Answer, QueuePromise!Refuse, QueuePromise!Answer
<1> QED
  BY <1>1, <1>3 DEF QueuePromise!Next

LEMMA QueueEmptyStep ==
  ASSUME InQueue, Queue!EmptyQueue, live' \in BOOLEAN, blocks' = IF live' THEN 1 ELSE 0,
         NEW op \in {"create", "destroy"}, Queue!Answer(op, TRUE, Untouched)
  PROVE  QueueInv' /\ QueuePromise!Next
<1>1. QueueInv'
  BY QueueEmptyIndInv
<1>2. Queue!Contents' = <<>> /\ Queue!QueueSize' = 0
  BY DEF Queue!EmptyQueue, Queue!Contents, Queue!RingItems, Queue!QueueSize
<1>3. QueuePromise!Reset(op)
  BY QueuedIs, <1>2 DEF Queue!Answer, QueuePromise!Reset, QueuePromise!Answer
<1> QED
  BY <1>1, <1>3 DEF QueuePromise!Next

LEMMA QueueAcceptStep ==
  ASSUME InQueue, QueueInv, NEW x \in Pointer, live, live' = live, size' = size + 1,
         Queue!Contents' = Append(Queue!Contents, x), Queue!Answer("enqueue", TRUE, Untouched)
  PROVE  QueuePromise!Next
<1>1. Queue!QueueSize' = Len(Queue!Contents) + 1
  BY ContentsIsSeq DEF Queue!QueueSize
<1>2. QueuePromise!Accept(x)
  BY QueuedIs, <1>1 DEF Queue!Answer, QueuePromise!Accept, QueuePromise!Answer
<1> QED
  BY <1>2 DEF QueuePromise!Next

------------------------------------------------------------------------------
(* One lemma per call that changes the queue: it keeps the inductive       *)
(* invariant, and it is a step of the promise.                             *)
LEMMA QueueCreateStep ==
  ASSUME InQueue, QueueInv, Queue!Create
  PROVE  QueueInv' /\ QueuePromise!Next
<1>1. CASE Queue!Fail("create")
  BY <1>1, QueueFailStep
<1>2. CASE live' /\ Queue!EmptyQueue /\ blocks' = blocks + 1
           /\ Queue!Answer("create", TRUE, Untouched)
  BY <1>2, QueueEmptyStep DEF QueueInv, Queue!OwnsItsBlocks, Queue!Create
<1> QED
  BY <1>1, <1>2 DEF Queue!Create

LEMMA QueueDestroyStep ==
  ASSUME InQueue, QueueInv, Queue!Destroy
  PROVE  QueueInv' /\ QueuePromise!Next
<1>1. live' = FALSE /\ blocks' = 0
  BY DEF Queue!Destroy, QueueInv, Queue!OwnsItsBlocks
<1> QED
  BY <1>1, QueueEmptyStep DEF Queue!Destroy

LEMMA EnqueueStep ==
  ASSUME InQueue, QueueInv, NEW x \in Pointer, Queue!Enqueue(x)
  PROVE  QueueInv' /\ QueuePromise!Next
<1>1. /\ capacity \in Nat \ {0} /\ size \in 0 .. capacity - 1
      /\ head \in Queue!Slots(capacity) /\ items \in [Queue!Slots(capacity) -> MayHold]
      /\ tail = Queue!RingSlot(head, size, capacity) /\ Queue!Fits(capacity) /\ head' = head
      /\ size < capacity /\ live
  BY DEF Queue!Enqueue, QueueInv, Queue!TypeOK, Queue!RingShape, Addressable, Queue!Slots, MayHold
<1>2. blocks' = 2
  BY <1>1 DEF Queue!Enqueue, QueueInv, Queue!OwnsItsBlocks
<1>3. QueueInv' /\ size' = size + 1 /\ capacity' = capacity
      /\ items' = [items EXCEPT ![Queue!RingSlot(head, size, capacity)] = x]
  BY <1>1, <1>2, QueueStoreIndInv DEF Queue!Enqueue, MayHold
<1>4. Queue!Contents' = Append(Queue!Contents, x)
  <2>1. Queue!RingItems([items EXCEPT ![Queue!RingSlot(head, size, capacity)] = x],
                  head, size + 1, capacity)
          = Append(Queue!RingItems(items, head, size, capacity), x)
    <3>1. x \in MayHold
      BY DEF MayHold
    <3> QED
      BY <1>1, <3>1, RingAppends
  <2> QED
    BY <1>1, <1>3, <2>1 DEF Queue!Contents
<1> QED
  BY <1>1, <1>3, <1>4, QueueAcceptStep DEF Queue!Enqueue, Queue!StoreAtBack

LEMMA EnqueueGrowingStep ==
  ASSUME InQueue, QueueInv, NEW x \in Pointer, Queue!EnqueueGrowing(x)
  PROVE  QueueInv' /\ QueuePromise!Next
<1> DEFINE d == Queue!NewCapacity
<1>1. /\ Queue!CanGrow /\ size = capacity /\ live /\ capacity \in Nat
      /\ capacity > 0 => head \in Queue!Slots(capacity)
      /\ items \in [Queue!Slots(capacity) -> MayHold]
  BY DEF Queue!EnqueueGrowing, QueueInv, Queue!TypeOK, Queue!RingShape, Queue!Slots, MayHold
<1>2. /\ d \in Nat /\ capacity < d /\ Queue!Fits(d)
      /\ Queue!Unwrapped = [i \in Queue!Slots(d) |->
                        IF i < size THEN items[Queue!SlotOf(i)] ELSE Garbage]
  BY <1>1, QueueGrowth
<1> HIDE DEF d
<1>3. Queue!Unwrapped \in [Queue!Slots(d) -> MayHold]
  <2>1. ASSUME NEW i \in Queue!Slots(d), i < size
        PROVE  items[Queue!SlotOf(i)] \in MayHold
    <3>1. /\ i \in 0 .. capacity /\ capacity \in Nat \ {0} /\ i < capacity
          /\ head \in Queue!Slots(capacity)
      BY <1>1, <2>1 DEF Queue!Slots
    <3>2. Queue!SlotOf(i) \in Queue!Slots(capacity)
      BY <3>1, RingStep DEF Queue!SlotOf
    <3> QED
      BY <1>1, <3>2
  <2> QED
    BY <1>2, <2>1 DEF MayHold
<1>4. size = Queue!RingSlot(0, size, d) /\ d \in Nat \ {0} /\ 0 \in Queue!Slots(d)
      /\ size \in 0 .. d - 1
  BY <1>1, <1>2, RingStep DEF Queue!Slots
<1>5. blocks' = 2 /\ head' = 0 /\ Queue!StoreAtBack(Queue!Unwrapped, size, d, x)
      /\ Queue!Answer("enqueue", TRUE, Untouched)
  <2>1. blocks = IF capacity = 0 THEN 1 ELSE 2
    BY <1>1 DEF QueueInv, Queue!OwnsItsBlocks
  <2>2. blocks' = 2
    BY <2>1 DEF Queue!EnqueueGrowing
  <2> QED
    BY <2>2 DEF Queue!EnqueueGrowing, d
<1>6. QueueInv' /\ size' = size + 1 /\ capacity' = d
      /\ items' = [Queue!Unwrapped EXCEPT ![Queue!RingSlot(0, size, d)] = x]
  BY <1>1, <1>2, <1>3, <1>4, <1>5, QueueStoreIndInv DEF MayHold
<1>7. Queue!Contents' = Append(Queue!RingItems(Queue!Unwrapped, 0, size, d), x)
  <2>1. Queue!RingItems([Queue!Unwrapped EXCEPT ![Queue!RingSlot(0, size, d)] = x],
                  0, size + 1, d)
          = Append(Queue!RingItems(Queue!Unwrapped, 0, size, d), x)
    BY ZenonT(60), <1>3, <1>4, RingAppends DEF MayHold
  <2> QED
    BY <1>5, <1>6, <2>1 DEF Queue!Contents
<1>8. Queue!RingItems(Queue!Unwrapped, 0, size, d) = Queue!Contents
  BY <1>1, <1>2, RingUnwraps DEF Queue!Contents, Queue!SlotOf
<1> QED
  BY <1>1, <1>5, <1>6, <1>7, <1>8, QueueAcceptStep DEF Queue!StoreAtBack

LEMMA DequeueStep ==
  ASSUME InQueue, QueueInv, Queue!Dequeue
  PROVE  QueueInv' /\ QueuePromise!Next
<1>1. /\ live /\ size > 0 /\ capacity \in Nat \ {0} /\ size \in 1 .. capacity
      /\ head \in Queue!Slots(capacity) /\ items \in [Queue!Slots(capacity) -> MayHold]
      /\ tail = Queue!RingSlot(head, size, capacity) /\ Queue!Fits(capacity)
      /\ capacity <= QueueMax /\ 0 \in Queue!Slots(capacity)
  BY GrantedInFull
     DEF Queue!Dequeue, QueueInv, Queue!TypeOK, Queue!RingShape, Addressable, Queue!Slots, MayHold
<1>2. Queue!RingSlot(head, 0, capacity) = head /\ 0 + 1 = 1
  BY <1>1, RingStep DEF Queue!Slots
<1>3. head' = Queue!RingSlot(head, 1, capacity) /\ head' \in Queue!Slots(capacity)
  BY <1>1, <1>2, RingNext DEF Queue!Dequeue
<1>4. /\ live' = live /\ tail' = tail /\ size' = size - 1
      /\ capacity' = capacity /\ blocks' = blocks
      /\ items' = [items EXCEPT ![head] = NULL]
  BY DEF Queue!Dequeue
<1>5. /\ Queue!Contents # <<>> /\ Head(Queue!Contents) = items[head]
      /\ Queue!Contents' = Tail(Queue!Contents)
  <2>1. NULL \in MayHold
    BY DEF MayHold
  <2>2. DropsFront(items, head, size, capacity, NULL)
    BY <1>1, <2>1, RingDrops
  <2> QED
    BY <1>3, <1>4, <2>2 DEF Queue!Contents, DropsFront
<1>6. items[head] \in MayHold
  BY <1>1
<1>7. Queue!TypeOK'
  <2>1. Queue!QueueSize' \in Nat /\ size' \in Nat /\ head' \in Nat
    BY <1>1, <1>3, <1>4 DEF Queue!QueueSize, Queue!Slots
  <2>2. DOMAIN items' = Queue!Slots(capacity) /\ items' \in [Queue!Slots(capacity) -> MayHold]
    BY <1>1, <1>4 DEF MayHold
  <2> QED
    BY <1>1, <1>4, <1>6, <2>1, <2>2 DEF QueueInv, Queue!TypeOK, Queue!Dequeue, Queue!Answer, MayHold
<1>8. Queue!RingShape'
  <2>1. Queue!RingSlot(head', size', capacity) = Queue!RingSlot(head, size, capacity)
    <3>1. /\ Queue!RingSlot(head, 1, capacity) = IF head + 1 < capacity
                                          THEN head + 1
                                          ELSE head + 1 - capacity
          /\ Queue!RingSlot(head, size, capacity) = IF head + size < capacity
                                             THEN head + size
                                             ELSE head + size - capacity
      BY <1>1, RingStep
    <3>2. size - 1 \in 0 .. capacity
      BY <1>1
    <3>3. Queue!RingSlot(head', size - 1, capacity)
            = IF head' + (size - 1) < capacity THEN head' + (size - 1)
              ELSE head' + (size - 1) - capacity
      BY <1>1, <1>3, <3>2, RingStep
    <3> QED
      BY <1>1, <1>3, <1>4, <3>1, <3>3 DEF Queue!Slots
  <2>2. DOMAIN items' = Queue!Slots(capacity)
    BY <1>1, <1>4
  <2> QED
    BY <1>1, <1>3, <1>4, <2>1, <2>2 DEF Queue!RingShape, Queue!Slots
<1>9. Queue!OwnsItsBlocks' /\ Addressable'
  BY <1>1, <1>4 DEF QueueInv, Queue!OwnsItsBlocks, Addressable
<1> QED
  <2>1. QueueInv'
    BY <1>7, <1>8, <1>9 DEF QueueInv
  <2>2. Queue!QueueSize' = Len(Queue!Contents) - 1
    BY <1>1, <1>4, ContentsIsSeq DEF Queue!QueueSize, QueueInv
  <2>3. QueuePromise!Deliver
    BY QueuedIs, <1>5, <2>2 DEF Queue!Dequeue, Queue!Answer, QueuePromise!Deliver, QueuePromise!Answer
  <2> QED
    BY <2>1, <2>3 DEF QueuePromise!Next

LEMMA QueuePeekStep ==
  ASSUME InQueue, QueueInv, Queue!Peek
  PROVE  QueueInv' /\ QueuePromise!Next
<1>1. /\ live /\ size > 0 /\ capacity \in Nat \ {0} /\ size \in 1 .. capacity
      /\ head \in Queue!Slots(capacity) /\ items \in [Queue!Slots(capacity) -> MayHold]
  BY DEF Queue!Peek, QueueInv, Queue!TypeOK, Queue!RingShape, Queue!Slots, MayHold
<1>2. Queue!Contents # <<>> /\ Head(Queue!Contents) = items[head] /\ Queue!Contents' = Queue!Contents
  <2>1. NULL \in MayHold
    BY DEF MayHold
  <2>2. DropsFront(items, head, size, capacity, NULL)
    BY <1>1, <2>1, RingDrops
  <2> QED
    BY <2>2 DEF Queue!Contents, DropsFront, Queue!Peek, Queue!fields
<1>3. Queue!QueueSize' = Len(Queue!Contents)
  BY <1>1, ContentsIsSeq DEF Queue!QueueSize, QueueInv, Queue!Peek, Queue!fields
<1>4. QueuePromise!Show
  BY QueuedIs, <1>2, <1>3 DEF Queue!Peek, Queue!Answer, QueuePromise!Show, QueuePromise!Answer
<1>5. QueueInv'
  BY <1>1, QueueKeepsIndInv DEF Queue!Peek, MayHold
<1> QED
  BY <1>4, <1>5 DEF QueuePromise!Next

------------------------------------------------------------------------------
(* Every step keeps the inductive invariant and is a step of the promise. *)
LEMMA QueueNextStep ==
  ASSUME InQueue, QueueInv, Queue!Next
  PROVE  QueueInv' /\ QueuePromise!Next
<1>1. CASE Queue!Create
  BY <1>1, QueueCreateStep
<1>2. CASE Queue!Destroy
  BY <1>2, QueueDestroyStep
<1>3. CASE \E x \in Pointer : Queue!Enqueue(x) \/ Queue!EnqueueGrowing(x)
  BY <1>3, EnqueueStep, EnqueueGrowingStep
<1>4. CASE Queue!EnqueueFails
  BY <1>4, QueueFailStep DEF Queue!EnqueueFails
<1>5. CASE Queue!Dequeue
  BY <1>5, DequeueStep
<1>6. CASE Queue!Peek
  BY <1>6, QueuePeekStep
<1>7. CASE Queue!RemoveFails
  BY <1>7, QueueFailStep DEF Queue!RemoveFails
<1> QED
  BY <1>1, <1>2, <1>3, <1>4, <1>5, <1>6, <1>7 DEF Queue!Next

------------------------------------------------------------------------------
(* Each call that writes the buffer leaves only cleared or fresh slots out *)
(* of use.                                                                 *)
LEMMA EnqueueStale ==
  ASSUME QueueInv, Queue!StaleSlotsClear, NEW x \in Pointer, Queue!Enqueue(x)
  PROVE  Queue!StaleSlotsClear'
<1>1. /\ size \in Nat /\ size' = size + 1 /\ head' = head
      /\ capacity' = capacity
      /\ items' = [items EXCEPT ![Queue!SlotOf(size)] = x]
      /\ tail = Queue!SlotOf(size)
  <2>1. size \in Nat /\ size + 1 \in 0 .. QueueMax
    BY GrantedInFull, QueueAssumption
       DEF QueueInv, Queue!TypeOK, Queue!RingShape, Addressable, Queue!Enqueue
  <2>2. tail = Queue!SlotOf(size)
    BY DEF QueueInv, Queue!TypeOK, Queue!RingShape, Queue!Enqueue, Queue!SlotOf
  <2> QED
    BY <2>1, <2>2, WrapFits DEF Queue!Enqueue, Queue!StoreAtBack
<1>2. ASSUME NEW i \in DOMAIN items', \A n \in 0 .. size : Queue!SlotOf(n) # i
      PROVE  items'[i] \in {NULL, Garbage}
  <2>1. size \in 0 .. size /\ \A n \in 0 .. size - 1 : n \in 0 .. size
    BY <1>1
  <2>2. i \in DOMAIN items /\ items'[i] = items[i]
    BY <1>1, <1>2, <2>1
  <2> QED
    BY <1>2, <2>1, <2>2 DEF Queue!StaleSlotsClear
<1> QED
  BY <1>1, <1>2 DEF Queue!StaleSlotsClear, Queue!SlotOf

LEMMA EnqueueGrowingStale ==
  ASSUME QueueInv, NEW x \in Pointer, Queue!EnqueueGrowing(x)
  PROVE  Queue!StaleSlotsClear'
<1> DEFINE d == Queue!NewCapacity
<1>1. /\ d \in Nat \ {0} /\ size \in 0 .. d - 1 /\ size + 1 <= QueueMax
      /\ Queue!Unwrapped = [i \in Queue!Slots(d) |->
                        IF i < size THEN items[Queue!SlotOf(i)] ELSE Garbage]
  <2>1. size = capacity /\ capacity \in Nat /\ Queue!CanGrow
    BY DEF Queue!EnqueueGrowing, QueueInv, Queue!TypeOK
  <2> QED
    BY <2>1, QueueGrowth, QueueAssumption
<1>2. /\ size' = size + 1 /\ head' = 0 /\ capacity' = d
      /\ items' = [Queue!Unwrapped EXCEPT ![size] = x]
  <2>1. size + 1 \in 0 .. QueueMax
    BY <1>1, QueueAssumption
  <2> QED
    BY <2>1, WrapFits DEF Queue!EnqueueGrowing, Queue!StoreAtBack
<1> HIDE DEF d
<1>3. ASSUME NEW i \in DOMAIN items', \A n \in 0 .. size : Queue!RingSlot(0, n, d) # i
      PROVE  items'[i] \in {NULL, Garbage}
  <2>1. i \in Queue!Slots(d)
    BY <1>1, <1>2, <1>3
  <2>2. ~(i <= size)
    <3> SUFFICES ASSUME i <= size PROVE FALSE
      OBVIOUS
    <3>1. i \in 0 .. size /\ i \in 0 .. d /\ 0 \in Queue!Slots(d) /\ i < d
      BY <1>1, <2>1 DEF Queue!Slots
    <3>2. Queue!RingSlot(0, i, d) = i
      BY <1>1, <3>1, RingStep
    <3> QED
      BY <1>3, <3>1, <3>2
  <2>3. ~(i < size) /\ i # size
    BY <1>1, <2>1, <2>2 DEF Queue!Slots
  <2> QED
    BY <1>1, <1>2, <2>1, <2>3
<1> QED
  BY <1>1, <1>2, <1>3 DEF Queue!StaleSlotsClear, Queue!SlotOf

LEMMA DequeueStale ==
  ASSUME QueueInv, Queue!StaleSlotsClear, Queue!Dequeue
  PROVE  Queue!StaleSlotsClear'
<1>1. /\ capacity \in Nat \ {0} /\ size \in 1 .. capacity
      /\ head \in Queue!Slots(capacity) /\ DOMAIN items = Queue!Slots(capacity)
      /\ capacity <= QueueMax /\ 0 \in Queue!Slots(capacity)
  BY GrantedInFull
     DEF Queue!Dequeue, QueueInv, Queue!TypeOK, Queue!RingShape, Addressable, Queue!Slots
<1>2. Queue!RingSlot(head, 0, capacity) = head /\ 0 + 1 = 1
  BY <1>1, RingStep DEF Queue!Slots
<1>3. head' = Queue!RingSlot(head, 1, capacity) /\ head' \in Queue!Slots(capacity)
  BY <1>1, <1>2, RingNext DEF Queue!Dequeue
<1>4. /\ size' = size - 1 /\ capacity' = capacity
      /\ items' = [items EXCEPT ![head] = NULL]
  BY DEF Queue!Dequeue
<1>5. ASSUME NEW n \in 1 .. size - 1
      PROVE  Queue!RingSlot(head, n, capacity) = Queue!RingSlot(head', n - 1, capacity)
  <2>1. n \in 0 .. capacity /\ n - 1 \in 0 .. capacity /\ 1 \in 0 .. capacity
    BY <1>1, <1>5
  <2>2. /\ head' = IF head + 1 < capacity THEN head + 1
                                         ELSE head + 1 - capacity
        /\ Queue!RingSlot(head, n, capacity)
             = IF head + n < capacity THEN head + n ELSE head + n - capacity
        /\ Queue!RingSlot(head', n - 1, capacity)
             = IF head' + (n - 1) < capacity THEN head' + (n - 1)
                                           ELSE head' + (n - 1) - capacity
    BY <1>1, <1>3, <2>1, RingStep
  <2> QED
    BY <1>1, <1>3, <2>1, <2>2 DEF Queue!Slots
<1>6. ASSUME NEW i \in DOMAIN items',
             \A n \in 0 .. size - 2 : Queue!RingSlot(head', n, capacity) # i,
             i # head
      PROVE  items'[i] \in {NULL, Garbage}
  <2>1. ASSUME NEW n \in 0 .. size - 1
        PROVE  Queue!SlotOf(n) # i
    <3>1. CASE n = 0
      BY <1>2, <1>6, <3>1 DEF Queue!SlotOf
    <3>2. CASE n # 0
      <4>1. n \in 1 .. size - 1 /\ n - 1 \in 0 .. size - 2
        BY <1>1, <2>1, <3>2
      <4>2. Queue!RingSlot(head, n, capacity) = Queue!RingSlot(head', n - 1, capacity)
        BY <1>5, <4>1
      <4> QED
        BY <1>6, <4>1, <4>2 DEF Queue!SlotOf
    <3> QED
      BY <3>1, <3>2
  <2> QED
    BY <1>4, <1>6, <2>1 DEF Queue!StaleSlotsClear
<1>7. items'[head] = NULL
  BY <1>1, <1>4
<1>8. size' - 1 = size - 2
  BY <1>1, <1>4
<1> QED
  BY <1>4, <1>6, <1>7, <1>8 DEF Queue!StaleSlotsClear, Queue!SlotOf

(* Without a buffer there is no slot to be stale. *)
LEMMA QueueEmptyStale == Queue!EmptyQueue => Queue!StaleSlotsClear'
BY DEF Queue!EmptyQueue, Queue!StaleSlotsClear, Queue!NoSlots

LEMMA QueueSameStale ==
  Queue!StaleSlotsClear /\ UNCHANGED Queue!fields => Queue!StaleSlotsClear'
BY DEF Queue!fields, Queue!StaleSlotsClear, Queue!SlotOf

LEMMA QueueStaleStep ==
  ASSUME QueueInv, Queue!StaleSlotsClear, Queue!Next
  PROVE  Queue!StaleSlotsClear'
<1>1. CASE Queue!Create
  BY <1>1, QueueEmptyStale, QueueSameStale DEF Queue!Create, Queue!Fail
<1>2. CASE Queue!Destroy
  BY <1>2, QueueEmptyStale DEF Queue!Destroy
<1>3. CASE \E x \in Pointer : Queue!Enqueue(x) \/ Queue!EnqueueGrowing(x)
  BY <1>3, EnqueueStale, EnqueueGrowingStale
<1>4. CASE Queue!EnqueueFails \/ Queue!Peek \/ Queue!RemoveFails
  <2>1. UNCHANGED Queue!fields
    BY <1>4 DEF Queue!EnqueueFails, Queue!Peek, Queue!RemoveFails, Queue!Fail, Queue!fields
  <2> QED
    BY <2>1, QueueSameStale
<1>5. CASE Queue!Dequeue
  BY <1>5, DequeueStale
<1> QED
  BY <1>1, <1>2, <1>3, <1>4, <1>5 DEF Queue!Next

------------------------------------------------------------------------------
(* ------------------ one item is added, taken or replaced ------------------ *)
Grows(s, t, i, x) ==
  /\ s \in Seq(Pointer) /\ t \in Seq(Pointer) /\ Len(t) = Len(s) + 1
  /\ i \in 0 .. Len(s) /\ x \in Pointer
  /\ \A j \in 1 .. Len(t) : t[j] = IF j < i + 1 THEN s[j] ELSE IF j = i + 1 THEN x ELSE s[j - 1]

Shrinks(s, t, i) ==
  /\ s \in Seq(Pointer) /\ t \in Seq(Pointer) /\ Len(s) = Len(t) + 1
  /\ i \in 0 .. Len(t)
  /\ \A j \in 1 .. Len(t) : t[j] = IF j < i + 1 THEN s[j] ELSE s[j + 1]

Changes(s, t, i, x) ==
  /\ s \in Seq(Pointer) /\ t \in Seq(Pointer) /\ Len(s) = Len(t)
  /\ i \in 0 .. Len(s) - 1 /\ x \in Pointer
  /\ \A j \in 1 .. Len(t) : t[j] = IF j = i + 1 THEN x ELSE s[j]

LEMMA GrowsInserts ==
  ASSUME NEW s, NEW t, NEW i, NEW x, Grows(s, t, i, x)
  PROVE  t = ListPromise!InsertAt(s, i + 1, x)
<1> DEFINE a == SubSeq(s, 1, i)
           b == SubSeq(s, i + 1, Len(s))
           n == Len(s)
<1>1. /\ s \in Seq(Pointer) /\ t \in Seq(Pointer) /\ n \in Nat /\ Len(t) = n + 1
      /\ i \in Nat /\ i <= n /\ x \in Pointer
  BY DEF Grows
<1>2. a \in Seq(Pointer) /\ Len(a) = i /\ \A j \in 1 .. i : a[j] = s[j]
  BY <1>1
<1>3. b \in Seq(Pointer) /\ Len(b) = n - i /\ \A j \in 1 .. n - i : b[j] = s[i + j]
  BY <1>1
<1> HIDE DEF a, b, n
<1>4. /\ a \o <<x>> \in Seq(Pointer) /\ Len(a \o <<x>>) = i + 1
      /\ \A j \in 1 .. i + 1 : (a \o <<x>>)[j] = IF j <= i THEN a[j] ELSE x
  BY <1>1, <1>2
<1> DEFINE c == a \o <<x>>
<1> HIDE DEF c
<1>5. /\ c \o b \in Seq(Pointer) /\ Len(c \o b) = n + 1
      /\ \A j \in 1 .. n + 1 : (c \o b)[j] = IF j <= i + 1 THEN c[j] ELSE b[j - (i + 1)]
  <2>1. c \in Seq(Pointer) /\ Len(c) = i + 1
    BY <1>4 DEF c
  <2>2. /\ c \o b \in Seq(Pointer) /\ Len(c \o b) = Len(c) + Len(b)
        /\ \A j \in 1 .. Len(c) + Len(b) :
              (c \o b)[j] = IF j <= Len(c) THEN c[j] ELSE b[j - Len(c)]
    BY <1>3, <2>1, ConcatProperties
  <2>3. Len(c) = i + 1 /\ Len(c) + Len(b) = n + 1
    BY <1>1, <1>3, <2>1
  <2> QED
    BY <2>2, <2>3
<1>6. \A j \in 1 .. n + 1 : t[j] = IF j < i + 1 THEN s[j] ELSE IF j = i + 1 THEN x ELSE s[j - 1]
  BY <1>1 DEF Grows
<1>7. ASSUME NEW j \in 1 .. n + 1 PROVE t[j] = (c \o b)[j]
  <2>1. CASE j <= i + 1
    <3>1. (c \o b)[j] = IF j <= i THEN a[j] ELSE x
      BY <2>1, <1>1, <1>4, <1>5 DEF c
    <3> QED
      BY <2>1, <3>1, <1>1, <1>2, <1>6
  <2>2. CASE ~(j <= i + 1)
    <3>1. j - (i + 1) \in 1 .. n - i /\ i + (j - (i + 1)) = j - 1
      BY <2>2, <1>1
    <3>2. (c \o b)[j] = b[j - (i + 1)]
      BY <2>2, <1>1, <1>5
    <3>3. b[j - (i + 1)] = s[j - 1]
      BY <3>1, <1>3
    <3>4. t[j] = s[j - 1]
      BY <2>2, <1>1, <1>6
    <3> QED
      BY <3>2, <3>3, <3>4
  <2> QED
    BY <2>1, <2>2
<1>8. t = c \o b
  BY <1>1, <1>5, <1>7, SeqEqual
<1>9. (i + 1) - 1 = i
  BY <1>1
<1> QED
  BY <1>8, <1>9 DEF ListPromise!InsertAt, a, b, c, n

LEMMA ShrinksRemoves ==
  ASSUME NEW s, NEW t, NEW i, Shrinks(s, t, i)
  PROVE  t = ListPromise!RemoveAt(s, i + 1)
<1> DEFINE a == SubSeq(s, 1, i)
           b == SubSeq(s, i + 2, Len(s))
           n == Len(s)
<1>1. /\ s \in Seq(Pointer) /\ t \in Seq(Pointer) /\ n \in Nat /\ n = Len(t) + 1
      /\ i \in Nat /\ i < n
  BY DEF Shrinks
<1>2. a \in Seq(Pointer) /\ Len(a) = i /\ \A j \in 1 .. i : a[j] = s[j]
  BY <1>1
<1>3. b \in Seq(Pointer) /\ Len(b) = n - i - 1 /\ \A j \in 1 .. n - i - 1 : b[j] = s[i + 1 + j]
  BY <1>1
<1> HIDE DEF a, b, n
<1>4. /\ a \o b \in Seq(Pointer) /\ Len(a \o b) = n - 1
      /\ \A j \in 1 .. n - 1 : (a \o b)[j] = IF j <= i THEN a[j] ELSE b[j - i]
  BY <1>1, <1>2, <1>3
<1>5. \A j \in 1 .. n - 1 : t[j] = IF j < i + 1 THEN s[j] ELSE s[j + 1]
  BY <1>1 DEF Shrinks
<1>6. ASSUME NEW j \in 1 .. n - 1 PROVE t[j] = (a \o b)[j]
  <2>1. CASE j <= i
    BY <2>1, <1>1, <1>2, <1>4, <1>5
  <2>2. CASE ~(j <= i)
    <3>1. j - i \in 1 .. n - i - 1 /\ i + 1 + (j - i) = j + 1
      BY <2>2, <1>1
    <3> QED
      BY <2>2, <3>1, <1>1, <1>3, <1>4, <1>5
  <2> QED
    BY <2>1, <2>2
<1>7. t = a \o b
  <2>1. Len(t) = n - 1
    BY <1>1
  <2> QED
    BY <1>1, <1>4, <1>6, <2>1, SeqEqual
<1>8. (i + 1) - 1 = i /\ (i + 1) + 1 = i + 2
  BY <1>1
<1> QED
  BY <1>7, <1>8 DEF ListPromise!RemoveAt, a, b, n

LEMMA ChangesReplaces ==
  ASSUME NEW s, NEW t, NEW i, NEW x, Changes(s, t, i, x)
  PROVE  t = ListPromise!ReplaceAt(s, i + 1, x)
<1>1. t = [j \in 1 .. Len(s) |-> t[j]] /\ s = [j \in 1 .. Len(s) |-> s[j]]
  BY DEF Changes
<1>2. \A j \in 1 .. Len(s) : t[j] = IF j = i + 1 THEN x ELSE s[j]
  BY DEF Changes
<1> QED
  BY <1>1, <1>2 DEF ListPromise!ReplaceAt

(* --------------------------- calls of the promise -------------------------- *)
Returns(op, i, ok, out) == result' = [op |-> op, index |-> i, ok |-> ok, out |-> out]

AddsAt(op, i) ==
  \/ op = "insert"
  \/ op = "push_front" /\ i = 0
  \/ op \in {"push_back", "push"} /\ i = Len(Listed)

TakesAt(op, i) ==
  \/ op = "remove"
  \/ op = "pop_front" /\ i = 0
  \/ op \in {"pop_back", "pop"} /\ i = Len(Listed) - 1

NotThere(op, i) ==
  \/ op = "create" /\ i = 0
  \/ op \in {"push_front", "push_back", "push", "insert"}
  \/ op \in {"pop_front", "pop_back", "pop"} /\ Len(Listed) = 0
  \/ op \in {"remove", "set"} /\ i >= Len(Listed)

LEMMA AddStep ==
  ASSUME NEW op, NEW i, NEW x, Grows(Listed, Listed', i, x), AddsAt(op, i),
         Returns(op, i, TRUE, Untouched)
  PROVE  ListPromise!Next
<1>1. Listed' = ListPromise!InsertAt(Listed, i + 1, x)
  BY GrowsInserts
<1>2. op \in DOMAIN ListPromise!Added /\ i \in ListPromise!Added[op] /\ x \in Pointer
  BY DEF Grows, AddsAt, ListPromise!Added
<1>3. ListPromise!Add(op, i, x)
  BY <1>1 DEF ListPromise!Add, ListPromise!Answer, Returns
<1> QED
  BY <1>2, <1>3 DEF ListPromise!Next

LEMMA TakeStep ==
  ASSUME NEW op, NEW i, Shrinks(Listed, Listed', i), TakesAt(op, i),
         Returns(op, i, TRUE, Listed[i + 1])
  PROVE  ListPromise!Next
<1>1. Listed' = ListPromise!RemoveAt(Listed, i + 1)
  BY ShrinksRemoves
<1>2. op \in DOMAIN ListPromise!Taken /\ i \in ListPromise!Taken[op]
  <2>1. i \in 0 .. Len(Listed) - 1 /\ i \in Nat
    BY DEF Shrinks
  <2> QED
    BY <2>1 DEF TakesAt, ListPromise!Taken
<1>3. ListPromise!Take(op, i)
  BY <1>1 DEF ListPromise!Take, ListPromise!Answer, Returns
<1> QED
  BY <1>2, <1>3 DEF ListPromise!Next

LEMMA SetStep ==
  ASSUME NEW i, NEW x, Changes(Listed, Listed', i, x), Returns("set", i, TRUE, Listed[i + 1])
  PROVE  ListPromise!Next
<1>1. Listed' = ListPromise!ReplaceAt(Listed, i + 1, x)
  BY ChangesReplaces
<1>2. i \in ListPromise!Taken.remove /\ x \in Pointer
  BY DEF Changes, ListPromise!Taken
<1>3. ListPromise!Set(i, x)
  BY <1>1 DEF ListPromise!Set, ListPromise!Answer, Returns
<1> QED
  BY <1>2, <1>3 DEF ListPromise!Next

LEMMA RefuseStep ==
  ASSUME NEW op, NEW i \in Nat, Listed \in Seq(Pointer), Listed' = Listed, NotThere(op, i),
         Returns(op, i, FALSE, Untouched)
  PROVE  ListPromise!Next
<1>1. ListPromise!Refuse(op, i) /\ result'.index = i
  BY DEF ListPromise!Refuse, ListPromise!Answer, Returns
<1>2. CASE op = "create" /\ i = 0
  BY <1>1, <1>2 DEF ListPromise!Next
<1>3. CASE op \in {"push_front", "push_back", "push", "insert"}
  <2>1. op \in DOMAIN ListPromise!Added
    BY <1>3 DEF ListPromise!Added
  <2> QED
    BY <1>1, <2>1 DEF ListPromise!Next
<1>4. CASE op \in {"pop_front", "pop_back", "pop", "remove"} /\ op # "create"
  <2>1. op \in DOMAIN ListPromise!Taken
    BY <1>4 DEF ListPromise!Taken
  <2>2. i \notin ListPromise!Taken[op]
    BY <1>4 DEF ListPromise!Taken, NotThere
  <2> QED
    BY <1>1, <2>1, <2>2 DEF ListPromise!Next
<1>5. CASE op = "set"
  <2>1. i \notin ListPromise!Taken.remove
    BY <1>5 DEF ListPromise!Taken, NotThere
  <2> QED
    BY <1>1, <1>5, <2>1 DEF ListPromise!Next
<1> QED
  BY <1>2, <1>3, <1>4, <1>5 DEF NotThere

LEMMA ResetStep ==
  ASSUME NEW op \in {"create", "destroy"}, Listed' = <<>>, Returns(op, 0, TRUE, Untouched)
  PROVE  ListPromise!Next
<1>1. ListPromise!Reset(op)
  BY DEF ListPromise!Reset, ListPromise!Answer, Returns
<1> QED
  BY <1>1 DEF ListPromise!Next

------------------------------------------------------------------------------
(* -------------------------- the growable buffers -------------------------- *)
(* A buffer b of c slots whose first n hold items of the caller's.           *)
Filled(b, n, c) ==
  /\ DOMAIN b = Slots(c) /\ n \in Nat /\ c \in Nat /\ n <= c
  /\ \A i \in 0 .. n - 1 : b[i] \in Pointer
  /\ \A i \in n .. c - 1 : b[i] \in {NULL, Garbage}

Items(b, n) == [i \in 1 .. n |-> b[i - 1]]

(* The stack and the array between calls.                                    *)
BufferInv ==
  /\ live \in BOOLEAN /\ result.ok \in BOOLEAN
  /\ Filled(items, size, capacity) /\ Fits(capacity)
  /\ blocks = IF ~live THEN 0 ELSE IF capacity = 0 THEN 1 ELSE 2
  /\ ~live => capacity = 0

LEMMA BufferIsWellFormed ==
  ASSUME BufferInv
  PROVE  /\ Pile!WellFormed /\ Pile!Contents = Items(items, size)
         /\ Array!WellFormed /\ Array!Contents = Items(items, size)
<1>1. size \in Nat /\ capacity \in Nat /\ size <= capacity /\ DOMAIN items = 0 .. capacity - 1
  BY DEF BufferInv, Filled, Slots
<1>2. /\ \A i \in 0 .. size - 1 : items[i] \in Pointer
      /\ \A i \in (0 .. capacity - 1) \ (0 .. size - 1) : items[i] \in {NULL, Garbage}
  BY <1>1 DEF BufferInv, Filled
<1>3. \A i \in 0 .. capacity - 1 : items[i] \in Pointer \cup {NULL, Garbage}
  BY <1>2
<1>4. /\ live \in BOOLEAN /\ result.ok \in BOOLEAN /\ blocks \in Nat
      /\ blocks = IF live THEN 1 + (IF capacity = 0 THEN 0 ELSE 1) ELSE 0
  BY DEF BufferInv
<1>5. Pile!WellFormed
  BY <1>1, <1>2, <1>3, <1>4
     DEF Pile!WellFormed, Pile!TypeOK, Pile!CapacityIsGranted, Pile!OnlyItemsInUse, Pile!Slots,
     Pile!Buffer
<1>6. Array!WellFormed
  BY <1>1, <1>2, <1>3, <1>4
     DEF Array!WellFormed, Array!TypeOK, Array!CapacityIsGranted, Array!OnlyItemsInUse, Array!Slots,
     Array!Buffer
<1> QED
  BY <1>5, <1>6 DEF Pile!Contents, Array!Contents, Array!Get, Items

LEMMA ItemsAre ==
  ASSUME NEW b, NEW n, NEW c, Filled(b, n, c)
  PROVE  /\ Items(b, n) \in Seq(Pointer) /\ Len(Items(b, n)) = n
         /\ \A i \in 1 .. n : Items(b, n)[i] = b[i - 1]
BY DEF Filled, Items

(* Doubling, where the guards of the code allow it.                          *)
Doubled(c, k) == IF c = 0 THEN k ELSE Wrap(c * 2)

LEMMA DoublingGrows ==
  ASSUME NEW c \in Nat, NEW k \in 1 .. 2, c <= SizeMax \div 2, Fits(Doubled(c, k))
  PROVE  /\ Doubled(c, k) \in Nat /\ Doubled(c, k) > c /\ Doubled(c, k) <= SizeMax
         /\ SlotsGranted(Doubled(c, k)) = Doubled(c, k)
<1> DEFINE d == Doubled(c, k)
<1>1. c * 2 \in 0 .. SizeMax
  BY SizeAssumption
<1>2. Wrap(c * 2) = c * 2
  BY <1>1, FitsInWord, SizeAssumption DEF Wrap
<1>3. d \in Nat /\ d > c
  BY <1>2 DEF Doubled
<1>4. d <= SizeMax \div PtrSize
  BY DEF Fits
<1> HIDE DEF d
<1>5. d * PtrSize \in 0 .. SizeMax /\ (d * PtrSize) \div PtrSize = d /\ d <= d * PtrSize
  BY <1>3, <1>4, SizeAssumption
<1>6. Wrap(d * PtrSize) = d * PtrSize
  BY <1>5, FitsInWord, SizeAssumption DEF Wrap
<1> QED
  BY <1>3, <1>5, <1>6, SizeAssumption DEF SlotsGranted, d

(* A buffer with room for one item more that holds the items there are.      *)
Roomy(b, c) ==
  /\ Filled(b, size, c) /\ size < c /\ Fits(c) /\ c <= SizeMax
  /\ \A i \in 0 .. size - 1 : b[i] = items[i]

LEMMA SpareIsRoomy ==
  ASSUME BufferInv, size # capacity
  PROVE  Roomy(items, capacity)
<1>1. capacity \in Nat /\ size \in Nat /\ size < capacity
  BY DEF BufferInv, Filled
<1>2. capacity <= SizeMax
  <2>1. capacity <= SizeMax \div PtrSize
    BY DEF BufferInv, Fits
  <2>2. capacity * PtrSize <= SizeMax /\ capacity <= capacity * PtrSize
    BY <1>1, <2>1, SizeAssumption
  <2> QED
    BY <1>1, <2>2, SizeAssumption
<1> QED
  BY <1>1, <1>2 DEF BufferInv, Roomy

LEMMA GrownIsRoomy ==
  ASSUME BufferInv, size = capacity, NEW k \in 1 .. 2, capacity <= SizeMax \div 2,
         Fits(Doubled(capacity, k)), NEW b,
         b = [i \in Slots(SlotsGranted(Doubled(capacity, k))) |->
                IF i \in DOMAIN items THEN items[i] ELSE Garbage]
  PROVE  Roomy(b, Doubled(capacity, k))
<1> DEFINE d == Doubled(capacity, k)
<1>1. capacity \in Nat
  BY DEF BufferInv, Filled
<1>2. d \in Nat /\ d > capacity /\ d <= SizeMax /\ SlotsGranted(d) = d /\ Fits(d)
  BY <1>1, DoublingGrows
<1> HIDE DEF d
<1>3. b = [i \in Slots(d) |-> IF i \in Slots(capacity) THEN items[i] ELSE Garbage]
  BY <1>2 DEF BufferInv, Filled, d
<1>4. Filled(b, size, d) /\ \A i \in 0 .. size - 1 : b[i] = items[i]
  <2>1. DOMAIN b = Slots(d)
           /\ \A i \in Slots(d) : b[i] = IF i \in Slots(capacity) THEN items[i] ELSE Garbage
    BY <1>3
  <2>2. \A i \in 0 .. size - 1 : i \in Slots(d) /\ i \in Slots(capacity)
    BY <1>1, <1>2 DEF Slots
  <2>3. \A i \in size .. d - 1 : i \in Slots(d) /\ i \notin Slots(capacity)
    BY <1>1, <1>2 DEF Slots
  <2>4. \A i \in 0 .. size - 1 : b[i] = items[i] /\ items[i] \in Pointer
    BY <2>1, <2>2 DEF BufferInv, Filled
  <2>5. \A i \in size .. d - 1 : b[i] \in {NULL, Garbage}
    BY <2>1, <2>3
  <2> QED
    BY <1>1, <1>2, <2>1, <2>4, <2>5 DEF Filled
<1> QED
  BY <1>1, <1>2, <1>4 DEF Roomy, d

(* --------------------------------- calls ----------------------------------- *)
(* A step of the stack or of the array.                                      *)
InBuffer == kind \in {"stack", "array"} /\ kind' = kind

LEMMA ListedBuffer == BufferInv /\ kind \in {"stack", "array"} => Listed = Items(items, size)
BY BufferIsWellFormed DEF Listed

LEMMA ListedBufferNext == (BufferInv /\ kind \in {"stack", "array"} => Listed = Items(items, size))'
BY ListedBuffer, PTL

LEMMA BufferIs ==
  ASSUME InBuffer, BufferInv, BufferInv'
  PROVE  /\ Listed = Items(items, size) /\ Listed' = Items(items', size')
         /\ Filled(items, size, capacity) /\ Filled(items', size', capacity')
<1>1. Listed = Items(items, size) /\ Listed' = Items(items, size)'
  BY ListedBuffer, ListedBufferNext DEF InBuffer
<1>2. Filled(items, size, capacity) /\ Filled(items, size, capacity)'
  BY DEF BufferInv
<1> QED
  BY <1>1, <1>2 DEF Items, Filled

(* A call that writes x into a slot below the new size.                      *)
LEMMA BufferGrows ==
  ASSUME InBuffer, BufferInv, NEW b, NEW c, Filled(b, size + 1, c), Fits(c), c # 0,
         NEW i \in 0 .. size, NEW x \in Pointer, NEW op, AddsAt(op, i),
         b[i] = x,
         \A j \in 0 .. size - 1 : b[IF j < i THEN j ELSE j + 1] = items[j],
         live, live' = live, items' = b, size' = size + 1, capacity' = c, blocks' = 2,
         Returns(op, i, TRUE, Untouched)
  PROVE  BufferInv' /\ ListPromise!Next
<1>1. size \in Nat /\ result'.ok = TRUE
  BY DEF BufferInv, Filled, Returns
<1>2. BufferInv'
  BY <1>1 DEF BufferInv, Filled, Slots, Fits
<1>3. /\ Listed = Items(items, size) /\ Listed' = Items(b, size + 1)
      /\ Filled(items, size, capacity)
  BY <1>2, BufferIs
<1> DEFINE s == Items(items, size)
           t == Items(b, size + 1)
<1>4. s \in Seq(Pointer) /\ Len(s) = size /\ \A j \in 1 .. size : s[j] = items[j - 1]
  BY <1>3, ItemsAre
<1>5. t \in Seq(Pointer) /\ Len(t) = size + 1 /\ \A j \in 1 .. size + 1 : t[j] = b[j - 1]
  BY ItemsAre
<1> HIDE DEF s, t
<1>6. ASSUME NEW j \in 1 .. size + 1
      PROVE  t[j] = IF j < i + 1 THEN s[j] ELSE IF j = i + 1 THEN x ELSE s[j - 1]
  <2>1. CASE j < i + 1
    <3>1. j - 1 \in 0 .. size - 1 /\ j - 1 < i /\ j \in 1 .. size
      BY <2>1, <1>1
    <3>2. b[j - 1] = items[j - 1]
      BY <3>1
    <3> QED
      BY <2>1, <3>1, <3>2, <1>4, <1>5
  <2>2. CASE j = i + 1
    <3>1. j - 1 = i
      BY <2>2
    <3> QED
      BY <2>2, <3>1, <1>5
  <2>3. CASE j > i + 1
    <3>1. /\ j - 2 \in 0 .. size - 1 /\ ~(j - 2 < i) /\ j - 1 \in 1 .. size
          /\ (j - 2) + 1 = j - 1 /\ (j - 1) - 1 = j - 2
      BY <2>3, <1>1
    <3>2. b[j - 1] = items[j - 2]
      BY <3>1
    <3>3. s[j - 1] = items[j - 2]
      BY <3>1, <1>4
    <3> QED
      BY <2>3, <3>2, <3>3, <1>5
  <2> QED
    BY <2>1, <2>2, <2>3
<1>7. Grows(s, t, i, x)
  BY <1>1, <1>4, <1>5, <1>6 DEF Grows
<1>8. Grows(Listed, Listed', i, x)
  BY <1>3, <1>7 DEF s, t
<1> QED
  BY <1>2, <1>8, AddStep

LEMMA BufferShrinks ==
  ASSUME InBuffer, BufferInv, NEW b, size # 0, Filled(b, size - 1, capacity),
         NEW i \in 0 .. size - 1, NEW op, TakesAt(op, i),
         \A j \in 0 .. size - 2 : b[j] = items[IF j < i THEN j ELSE j + 1],
         live, live' = live, items' = b, size' = size - 1, capacity' = capacity, blocks' = blocks,
         Returns(op, i, TRUE, items[i])
  PROVE  BufferInv' /\ ListPromise!Next
<1>1. size \in Nat /\ result'.ok = TRUE
  BY DEF BufferInv, Filled, Returns
<1>2. BufferInv'
  BY <1>1 DEF BufferInv, Filled, Slots, Fits
<1>3. /\ Listed = Items(items, size) /\ Listed' = Items(b, size - 1)
      /\ Filled(items, size, capacity)
  BY <1>2, BufferIs
<1> DEFINE s == Items(items, size)
           t == Items(b, size - 1)
<1>4. s \in Seq(Pointer) /\ Len(s) = size /\ \A j \in 1 .. size : s[j] = items[j - 1]
  BY <1>3, ItemsAre
<1>5. t \in Seq(Pointer) /\ Len(t) = size - 1 /\ \A j \in 1 .. size - 1 : t[j] = b[j - 1]
  BY ItemsAre
<1> HIDE DEF s, t
<1>6. ASSUME NEW j \in 1 .. size - 1
      PROVE  t[j] = IF j < i + 1 THEN s[j] ELSE s[j + 1]
  <2>1. /\ j - 1 \in 0 .. size - 2 /\ j \in 1 .. size /\ j + 1 \in 1 .. size
        /\ (j - 1) + 1 = (j + 1) - 1 /\ (j - 1 < i <=> j < i + 1)
    BY <1>1
  <2>2. t[j] = items[IF j - 1 < i THEN j - 1 ELSE (j - 1) + 1]
    BY <2>1, <1>5
  <2>3. s[j] = items[j - 1] /\ s[j + 1] = items[(j - 1) + 1]
    BY <2>1, <1>4
  <2> QED
    BY <2>1, <2>2, <2>3
<1>7. Shrinks(s, t, i)
  BY <1>1, <1>4, <1>5, <1>6 DEF Shrinks
<1>8. Shrinks(Listed, Listed', i)
  BY <1>3, <1>7 DEF s, t
<1>9. Listed[i + 1] = items[i]
  <2>1. i + 1 \in 1 .. size /\ (i + 1) - 1 = i
    BY <1>1
  <2> QED
    BY <2>1, <1>3, <1>4 DEF s
<1> QED
  BY <1>2, <1>8, <1>9, TakeStep

(* A call that changes nothing.                                              *)
LEMMA BufferRefuses ==
  ASSUME InBuffer, BufferInv, UNCHANGED <<live, size, capacity, items, blocks>>,
         NEW op, NEW i \in Nat, NotThere(op, i), Returns(op, i, FALSE, Untouched)
  PROVE  BufferInv' /\ ListPromise!Next
<1>1. result'.ok = FALSE
  BY DEF Returns
<1>2. BufferInv'
  BY <1>1 DEF BufferInv, Filled, Fits
<1>3. Listed = Items(items, size) /\ Listed' = Listed /\ Filled(items, size, capacity)
  BY <1>2, BufferIs
<1>4. Listed \in Seq(Pointer)
  BY <1>3, ItemsAre
<1> QED
  BY <1>2, <1>3, <1>4, RefuseStep

LEMMA BufferResets ==
  ASSUME InBuffer, BufferInv, live' \in BOOLEAN, size' = 0, capacity' = 0, items' = [i \in {} |-> NULL],
         blocks' = IF live' THEN 1 ELSE 0, NEW op \in {"create", "destroy"},
         Returns(op, 0, TRUE, Untouched)
  PROVE  BufferInv' /\ ListPromise!Next
<1>1. result'.ok = TRUE
  BY DEF Returns
<1>2. Fits(0)
  BY SizeAssumption DEF Fits
<1>3. BufferInv'
  <2>1. Filled(items', 0, 0)
    BY DEF Filled, Slots
  <2>2. Filled(items, size, capacity)' /\ Fits(capacity)'
    BY <1>2, <2>1 DEF Filled, Fits
  <2> QED
    BY <1>1, <2>2 DEF BufferInv
<1>4. Listed' = <<>>
  BY <1>3, BufferIs DEF Items
<1> QED
  BY <1>3, <1>4, ResetStep

------------------------------------------------------------------------------
(* ------------------------------- the stack -------------------------------- *)
LEMMA StackPushes ==
  ASSUME InBuffer, BufferInv, NEW x \in Pointer, Pile!Push(x)
  PROVE  BufferInv' /\ ListPromise!Next
<1>1. size \in Nat /\ capacity \in Nat /\ live
  BY DEF BufferInv, Filled, Pile!Push
<1>2. \E b, c : /\ Roomy(b, c) /\ items' = [b EXCEPT ![size] = x] /\ capacity' = c /\ c # 0
                /\ blocks' = 2
  <2>1. CASE size # capacity
    <3>1. Roomy(items, capacity) /\ capacity # 0
      BY <1>1, <2>1, SpareIsRoomy DEF BufferInv, Filled
    <3>2. items' = [items EXCEPT ![size] = x] /\ capacity' = capacity /\ blocks' = blocks
      BY <2>1 DEF Pile!Push
    <3>3. blocks = 2
      BY <1>1, <3>1 DEF BufferInv
    <3> QED
      BY <3>1, <3>2, <3>3
  <2>2. CASE size = capacity
    <3>1. Pile!NewCapacity = Doubled(capacity, 1)
      BY DEF Pile!NewCapacity, Doubled, Pile!Wrap, Wrap
    <3>2. /\ Pile!CanGrow /\ capacity' = Pile!NewCapacity /\ blocks' = blocks + 1 - Pile!Buffer
          /\ items' = [Pile!Reallocated EXCEPT ![size] = x]
      BY <2>2 DEF Pile!Push
    <3>3. capacity <= SizeMax \div 2 /\ Fits(Doubled(capacity, 1))
      BY <3>1, <3>2 DEF Pile!CanGrow, Pile!Fits, Fits
    <3>4. Pile!Reallocated = [i \in Slots(SlotsGranted(Doubled(capacity, 1))) |->
                                IF i \in DOMAIN items THEN items[i] ELSE Garbage]
      BY <3>1 DEF Pile!Reallocated, Pile!Slots, Slots, Pile!SlotsGranted, SlotsGranted, Pile!Wrap, Wrap
    <3>5. Roomy(Pile!Reallocated, Doubled(capacity, 1))
      BY <2>2, <3>3, <3>4, GrownIsRoomy
    <3>6. Doubled(capacity, 1) # 0
      BY <1>1, <3>3, DoublingGrows
    <3>7. blocks' = 2
      BY <1>1, <3>2 DEF BufferInv, Pile!Buffer
    <3> QED
      BY <3>1, <3>2, <3>5, <3>6, <3>7
  <2> QED
    BY <2>1, <2>2
<1>3. PICK b, c : /\ Roomy(b, c) /\ items' = [b EXCEPT ![size] = x] /\ capacity' = c /\ c # 0
                  /\ blocks' = 2
  BY <1>2
<1>4. PICK d : d = [b EXCEPT ![size] = x]
  OBVIOUS
<1>5. c \in Nat /\ size < c /\ c <= SizeMax /\ Fits(c) /\ DOMAIN b = 0 .. c - 1
  BY <1>3 DEF Roomy, Filled, Slots
<1>6. DOMAIN d = DOMAIN b /\ d[size] = x /\ \A j \in DOMAIN b \ {size} : d[j] = b[j]
  BY <1>1, <1>4, <1>5
<1>7. Filled(d, size + 1, c)
  BY <1>1, <1>3, <1>5, <1>6 DEF Roomy, Filled, Slots
<1>8. \A j \in 0 .. size - 1 : d[IF j < size THEN j ELSE j + 1] = items[j]
  BY <1>1, <1>3, <1>5, <1>6 DEF Roomy
<1>9. size' = size + 1
  <2>1. size + 1 \in 0 .. SizeMax
    BY <1>1, <1>5, SizeAssumption
  <2>2. Pile!Wrap(size + 1) = size + 1
    BY <2>1, FitsInWord, SizeAssumption DEF Pile!Wrap
  <2> QED
    BY <2>2 DEF Pile!Push
<1>10. Returns("push", size, TRUE, Untouched) /\ live' = live
  BY DEF Pile!Push, Pile!Answer, Returns
<1>11. Listed = Items(items, size) /\ Len(Listed) = size
  <2>1. Listed = Items(items, size)
    BY ListedBuffer DEF InBuffer
  <2> QED
    BY <2>1, ItemsAre DEF BufferInv
<1>12. AddsAt("push", size) /\ size \in 0 .. size
  BY <1>1, <1>11 DEF AddsAt
<1>13. items' = d
  BY <1>3, <1>4
<1> QED
  BY <1>1, <1>3, <1>5, <1>6, <1>7, <1>8, <1>9, <1>10, <1>12, <1>13, BufferGrows

LEMMA StackPops ==
  ASSUME InBuffer, BufferInv, Pile!Pop
  PROVE  BufferInv' /\ ListPromise!Next
<1>1. size \in Nat \ {0} /\ capacity \in Nat /\ live /\ size <= capacity
         /\ DOMAIN items = 0 .. capacity - 1
  BY DEF BufferInv, Filled, Pile!Pop, Slots
<1>2. PICK b : b = [items EXCEPT ![size - 1] = NULL]
  OBVIOUS
<1>3. /\ DOMAIN b = DOMAIN items /\ b[size - 1] = NULL
      /\ \A j \in DOMAIN items \ {size - 1} : b[j] = items[j]
  BY <1>1, <1>2
<1>4. Filled(b, size - 1, capacity)
  BY <1>1, <1>3 DEF BufferInv, Filled, Slots
<1>5. \A j \in 0 .. size - 2 : b[j] = items[IF j < size - 1 THEN j ELSE j + 1]
  BY <1>1, <1>3
<1>6. /\ items' = b /\ size' = size - 1 /\ UNCHANGED <<live, capacity, blocks>>
      /\ Returns("pop", size - 1, TRUE, items[size - 1])
  BY <1>2 DEF Pile!Pop, Pile!Cleared, Pile!Top, Pile!Answer, Returns
<1>7. Listed = Items(items, size) /\ Len(Listed) = size
  <2>1. Listed = Items(items, size)
    BY ListedBuffer DEF InBuffer
  <2> QED
    BY <2>1, ItemsAre DEF BufferInv
<1>8. TakesAt("pop", size - 1) /\ size - 1 \in 0 .. size - 1
  BY <1>1, <1>7 DEF TakesAt
<1> QED
  BY <1>1, <1>4, <1>5, <1>6, <1>8, BufferShrinks

LEMMA StackNext ==
  ASSUME InBuffer, BufferInv, Pile!Next
  PROVE  BufferInv' /\ ListPromise!Next
<1>0. size \in Nat /\ Len(Listed) = size
  <2>1. Listed = Items(items, size)
    BY ListedBuffer DEF InBuffer
  <2> QED
    BY <2>1, ItemsAre DEF BufferInv, Filled
<1>1. CASE Pile!Create
  <2>1. ~live /\ capacity = 0 /\ size = 0 /\ items = [i \in {} |-> NULL] /\ blocks = 0
    BY <1>1 DEF Pile!Create, BufferInv, Filled, Slots
  <2>2. live' = TRUE /\ size' = 0 /\ capacity' = 0 /\ items' = [i \in {} |-> NULL] /\ blocks' = 1
    BY <1>1, <2>1 DEF Pile!Create
  <2>3. Returns("create", 0, TRUE, Untouched)
    BY <1>1 DEF Pile!Create, Pile!Answer, Returns
  <2> QED
    BY <2>2, <2>3, BufferResets
<1>2. CASE Pile!Destroy
  <2>1. live' = FALSE /\ size' = 0 /\ capacity' = 0 /\ items' = [i \in {} |-> NULL] /\ blocks' = 0
    BY <1>2 DEF Pile!Destroy, BufferInv, Pile!NoSlots, Pile!Buffer
  <2>2. Returns("destroy", 0, TRUE, Untouched)
    BY <1>2 DEF Pile!Destroy, Pile!Answer, Returns
  <2> QED
    BY <2>1, <2>2, BufferResets
<1>3. CASE \E x \in Pointer : Pile!Push(x)
  BY <1>3, StackPushes
<1>4. CASE Pile!Pop
  BY <1>4, StackPops
<1>5. CASE Pile!CreateFails \/ Pile!PushFails \/ Pile!PopFails
  <2>1. PICK op, i : /\ UNCHANGED <<live, size, capacity, items, blocks>>
           /\ Returns(op, i, FALSE, Untouched)
                     /\ i \in Nat /\ NotThere(op, i)
    <3>1. CASE Pile!CreateFails
      BY <3>1 DEF Pile!CreateFails, Pile!Fail, Pile!stack, Pile!Answer, Returns, NotThere
    <3>2. CASE Pile!PushFails
      BY <3>2, <1>0 DEF Pile!PushFails, Pile!Fail, Pile!stack, Pile!Answer, Returns, NotThere
    <3>3. CASE Pile!PopFails
      BY <3>3, <1>0 DEF Pile!PopFails, Pile!Fail, Pile!stack, Pile!Answer, Returns, NotThere
    <3> QED
      BY <1>5, <3>1, <3>2, <3>3
  <2> QED
    BY <2>1, BufferRefuses
<1> QED
  BY <1>1, <1>2, <1>3, <1>4, <1>5 DEF Pile!Next

------------------------------------------------------------------------------
(* ------------------------------- the array -------------------------------- *)
(* The items of b from index k on, one slot up.                              *)
ShiftedBy(b, k, j) == IF j \in k + 1 .. size THEN b[j - 1] ELSE b[j]

Opens(m, b, index) ==
  m = [k \in index .. size |->
         IF k = size THEN b ELSE [m[k + 1] EXCEPT ![k + 1] = m[k + 1][k]]]

LEMMA OpeningExists ==
  ASSUME NEW c \in Nat, NEW b, DOMAIN b = 0 .. c - 1, size \in Nat, size < c, NEW index \in 0 .. size
  PROVE  \E m : Opens(m, b, index)
<1> DEFINE m == [k \in index .. size |->
                   IF k = size THEN b ELSE [j \in 0 .. c - 1 |-> ShiftedBy(b, k, j)]]
<1>1. ASSUME NEW k \in index .. size, k # size
      PROVE  m[k] = [m[k + 1] EXCEPT ![k + 1] = m[k + 1][k]]
  <2>1. k \in 0 .. c - 1 /\ k + 1 \in 0 .. c - 1 /\ k + 1 \in index .. size
    BY <1>1
  <2>2. m[k] = [j \in 0 .. c - 1 |-> ShiftedBy(b, k, j)]
    BY <1>1
  <2>3. DOMAIN m[k + 1] = 0 .. c - 1 /\ \A j \in 0 .. c - 1 : m[k + 1][j] = ShiftedBy(b, k + 1, j)
    <3>1. CASE k + 1 = size
      BY <2>1, <3>1 DEF ShiftedBy
    <3>2. CASE k + 1 # size
      BY <2>1, <3>2
    <3> QED
      BY <3>1, <3>2
  <2> HIDE DEF m
  <2>4. \A j \in 0 .. c - 1 :
          ShiftedBy(b, k, j) = IF j = k + 1 THEN m[k + 1][k] ELSE m[k + 1][j]
    <3>1. ASSUME NEW j \in 0 .. c - 1, j = k + 1 PROVE ShiftedBy(b, k, j) = m[k + 1][k]
      <4>1. j \in k + 1 .. size /\ j - 1 = k /\ ~(k \in (k + 1) + 1 .. size)
        BY <3>1, <1>1
      <4> QED
        BY <4>1, <2>1, <2>3 DEF ShiftedBy
    <3>2. ASSUME NEW j \in 0 .. c - 1, j # k + 1 PROVE ShiftedBy(b, k, j) = m[k + 1][j]
      <4>1. j \in k + 1 .. size <=> j \in (k + 1) + 1 .. size
        BY <3>2
      <4> QED
        BY <4>1, <2>3 DEF ShiftedBy
    <3> QED
      BY <3>1, <3>2
  <2> QED
    BY <2>2, <2>3, <2>4
<1>2. \A k \in index .. size : m[k] = IF k = size THEN b ELSE [m[k + 1] EXCEPT ![k + 1] = m[k + 1][k]]
  BY <1>1
<1>3. m = [k \in index .. size |-> m[k]]
  OBVIOUS
<1> HIDE DEF m
<1>4. Opens(m, b, index)
  BY <1>2, <1>3 DEF Opens
<1> QED
  BY <1>4

LEMMA OpenedIs ==
  ASSUME NEW c \in Nat, NEW b, DOMAIN b = 0 .. c - 1, size \in Nat, size < c, NEW index \in 0 .. size
  PROVE  /\ DOMAIN Array!Opened(b, index) = 0 .. c - 1
         /\ \A j \in 0 .. c - 1 : Array!Opened(b, index)[j] = ShiftedBy(b, index, j)
<1> DEFINE m == CHOOSE m : Opens(m, b, index)
<1>1. Opens(m, b, index)
  BY OpeningExists
<1>2. Array!Opened(b, index) = m[index]
  BY DEF Array!Opened, Opens
<1> HIDE DEF m
<1> DEFINE Moved(k) == DOMAIN m[k] = 0 .. c - 1 /\ \A j \in 0 .. c - 1 : m[k][j] = ShiftedBy(b, k, j)
           S == {k \in 0 .. size - index : Moved(size - k)}
<1>3. \A k \in index .. size : m[k] = IF k = size THEN b ELSE [m[k + 1] EXCEPT ![k + 1] = m[k + 1][k]]
  BY <1>1 DEF Opens
<1>4. 0 \in S
  <2>1. m[size] = b
    <3>1. size \in index .. size
      OBVIOUS
    <3> QED
      BY <1>3, <3>1
  <2>2. Moved(size)
    BY <2>1 DEF ShiftedBy
  <2> QED
    BY <2>2
<1>5. ASSUME NEW k \in 1 .. size - index, k - 1 \in S PROVE k \in S
  <2> DEFINE n == size - k
  <2>1. /\ n \in index .. size /\ n # size /\ n + 1 = size - (k - 1)
        /\ n \in 0 .. c - 1 /\ n + 1 \in 0 .. c - 1
    OBVIOUS
  <2>2. Moved(n + 1)
    BY <1>5, <2>1
  <2>3. m[n] = [m[n + 1] EXCEPT ![n + 1] = m[n + 1][n]]
    BY <1>3, <2>1
  <2> HIDE DEF n
  <2>4. DOMAIN m[n] = 0 .. c - 1
    BY <2>2, <2>3
  <2>5. ASSUME NEW j \in 0 .. c - 1 PROVE m[n][j] = ShiftedBy(b, n, j)
    <3>1. CASE j = n + 1
      <4>1. j \in n + 1 .. size /\ j - 1 = n /\ ~(n \in (n + 1) + 1 .. size)
        BY <3>1, <2>1
      <4>2. m[n][j] = m[n + 1][n]
        BY <2>1, <2>2, <2>3, <3>1
      <4> QED
        BY <4>1, <4>2, <2>1, <2>2 DEF ShiftedBy
    <3>2. CASE j # n + 1
      <4>1. j \in n + 1 .. size <=> j \in (n + 1) + 1 .. size
        BY <3>2, <2>1
      <4>2. m[n][j] = m[n + 1][j]
        BY <2>2, <2>3, <3>2
      <4> QED
        BY <4>1, <4>2, <2>2 DEF ShiftedBy
    <3> QED
      BY <3>1, <3>2
  <2>6. Moved(n)
    BY <2>4, <2>5
  <2> QED
    BY <2>6 DEF n
<1>6. size - index \in Nat /\ size - (size - index) = index
  OBVIOUS
<1> HIDE DEF S
<1>7. size - index \in S
  <2>1. PICK n \in Nat : n = size - index
    BY <1>6
  <2>2. \A k \in 1 .. n : k - 1 \in S => k \in S
    BY <1>5, <2>1
  <2>3. \A k \in 0 .. n : k \in S
    BY <1>4, <2>2, Upward
  <2> QED
    BY <2>1, <2>3
<1>8. Moved(index)
  BY <1>6, <1>7 DEF S
<1> QED
  BY <1>2, <1>8

LEMMA ArrayInserts ==
  ASSUME InBuffer, BufferInv, NEW i \in Nat, NEW x \in Pointer, Array!Insert(i, x)
  PROVE  BufferInv' /\ ListPromise!Next
<1>1. size \in Nat /\ capacity \in Nat /\ live /\ i \in 0 .. size
  BY DEF BufferInv, Filled, Array!Insert
<1>2. \E b, c : /\ Roomy(b, c) /\ items' = [Array!Opened(b, i) EXCEPT ![i] = x] /\ capacity' = c /\ c # 0
                /\ blocks' = 2
  <2>1. CASE size # capacity
    <3>1. Roomy(items, capacity) /\ capacity # 0
      BY <1>1, <2>1, SpareIsRoomy DEF BufferInv, Filled
    <3>2. items' = [Array!Opened(items, i) EXCEPT ![i] = x] /\ capacity' = capacity /\ blocks' = blocks
      BY <2>1 DEF Array!Insert
    <3>3. blocks = 2
      BY <1>1, <3>1 DEF BufferInv
    <3> QED
      BY <3>1, <3>2, <3>3
  <2>2. CASE size = capacity
    <3>1. Array!NewCapacity = Doubled(capacity, 2)
      BY DEF Array!NewCapacity, Doubled, Array!Wrap, Wrap
    <3>2. /\ Array!CanGrow /\ capacity' = Array!NewCapacity /\ blocks' = blocks + 1 - Array!Buffer
          /\ items' = [Array!Opened(Array!Reallocated, i) EXCEPT ![i] = x]
      BY <2>2 DEF Array!Insert
    <3>3. capacity <= SizeMax \div 2 /\ Fits(Doubled(capacity, 2))
      BY <3>1, <3>2 DEF Array!CanGrow, Array!Fits, Fits
    <3>4. Array!Reallocated = [j \in Slots(SlotsGranted(Doubled(capacity, 2))) |->
                                 IF j \in DOMAIN items THEN items[j] ELSE Garbage]
      BY <3>1 DEF Array!Reallocated, Array!Slots, Slots, Array!SlotsGranted, SlotsGranted, Array!Wrap,
         Wrap
    <3>5. Roomy(Array!Reallocated, Doubled(capacity, 2))
      BY <2>2, <3>3, <3>4, GrownIsRoomy
    <3>6. Doubled(capacity, 2) # 0
      BY <1>1, <3>3, DoublingGrows
    <3>7. blocks' = 2
      BY <1>1, <3>2 DEF BufferInv, Array!Buffer
    <3> QED
      BY <3>1, <3>2, <3>5, <3>6, <3>7
  <2> QED
    BY <2>1, <2>2
<1>3. PICK b, c : /\ Roomy(b, c) /\ items' = [Array!Opened(b, i) EXCEPT ![i] = x] /\ capacity' = c
         /\ c # 0
                  /\ blocks' = 2
  BY <1>2
<1>4. PICK d : d = [Array!Opened(b, i) EXCEPT ![i] = x]
  OBVIOUS
<1>5. c \in Nat /\ size < c /\ c <= SizeMax /\ Fits(c) /\ DOMAIN b = 0 .. c - 1
  BY <1>3 DEF Roomy, Filled, Slots
<1>6. /\ DOMAIN Array!Opened(b, i) = 0 .. c - 1
      /\ \A j \in 0 .. c - 1 : Array!Opened(b, i)[j] = ShiftedBy(b, i, j)
  BY <1>1, <1>5, OpenedIs
<1>7. DOMAIN d = 0 .. c - 1 /\ d[i] = x /\ \A j \in (0 .. c - 1) \ {i} : d[j] = ShiftedBy(b, i, j)
  BY <1>1, <1>4, <1>5, <1>6
<1>8. \A j \in 0 .. size - 1 : d[IF j < i THEN j ELSE j + 1] = items[j]
  <2>1. ASSUME NEW j \in 0 .. size - 1, j < i PROVE d[j] = items[j]
    <3>1. j \in (0 .. c - 1) \ {i} /\ ~(j \in i + 1 .. size)
      BY <2>1, <1>1, <1>5
    <3> QED
      BY <3>1, <1>3, <1>7 DEF ShiftedBy, Roomy
  <2>2. ASSUME NEW j \in 0 .. size - 1, ~(j < i) PROVE d[j + 1] = items[j]
    <3>1. j + 1 \in (0 .. c - 1) \ {i} /\ j + 1 \in i + 1 .. size /\ (j + 1) - 1 = j
      BY <2>2, <1>1, <1>5
    <3>2. d[j + 1] = b[j]
      BY <3>1, <1>7 DEF ShiftedBy
    <3> QED
      BY <3>2, <1>3 DEF Roomy
  <2> QED
    BY <2>1, <2>2
<1>9. Filled(d, size + 1, c)
  <2>1. ASSUME NEW j \in 0 .. size PROVE d[j] \in Pointer
    <3>1. CASE j = i
      BY <3>1, <1>7
    <3>2. CASE j < i
      <4>1. j \in 0 .. size - 1
        BY <3>2, <1>1
      <4>2. d[j] = items[j]
        BY <1>8, <3>2, <4>1
      <4> QED
        BY <4>1, <4>2 DEF BufferInv, Filled
    <3>3. CASE j > i
      <4>1. j - 1 \in 0 .. size - 1 /\ ~(j - 1 < i) /\ (j - 1) + 1 = j
        BY <3>3, <1>1
      <4>2. d[j] = items[j - 1]
        BY <1>8, <4>1
      <4> QED
        BY <4>1, <4>2 DEF BufferInv, Filled
    <3> QED
      BY <1>1, <3>1, <3>2, <3>3
  <2>2. ASSUME NEW j \in size + 1 .. c - 1 PROVE d[j] \in {NULL, Garbage}
    <3>1. j \in (0 .. c - 1) \ {i} /\ ~(j \in i + 1 .. size) /\ j \in size .. c - 1
      BY <2>2, <1>1, <1>5
    <3> QED
      BY <3>1, <1>3, <1>7 DEF ShiftedBy, Roomy, Filled
  <2> QED
    BY <1>1, <1>5, <1>7, <2>1, <2>2 DEF Filled, Slots
<1>10. size' = size + 1
  <2>1. size + 1 \in 0 .. SizeMax
    BY <1>1, <1>5, SizeAssumption
  <2>2. Array!Wrap(size + 1) = size + 1
    BY <2>1, FitsInWord, SizeAssumption DEF Array!Wrap
  <2> QED
    BY <2>2 DEF Array!Insert
<1>11. Returns("insert", i, TRUE, Untouched) /\ live' = live
  BY DEF Array!Insert, Array!Answer, Returns
<1>12. AddsAt("insert", i)
  BY DEF AddsAt
<1>13. items' = d
  BY <1>3, <1>4
<1> QED
  BY <1>1, <1>3, <1>5, <1>7, <1>8, <1>9, <1>10, <1>11, <1>12, <1>13, BufferGrows

LEMMA ArrayRemoves ==
  ASSUME InBuffer, BufferInv, NEW i \in Nat, Array!Remove(i)
  PROVE  BufferInv' /\ ListPromise!Next
<1>1. /\ size \in Nat \ {0} /\ capacity \in Nat /\ live /\ size <= capacity
      /\ DOMAIN items = 0 .. capacity - 1 /\ i \in 0 .. size - 1
  BY DEF BufferInv, Filled, Array!Remove, Slots
<1>2. PICK b : b = Array!Closed(i)
  OBVIOUS
<1>3. /\ DOMAIN b = 0 .. capacity - 1
      /\ \A j \in 0 .. capacity - 1 : b[j] = IF j = size - 1 THEN NULL
                                             ELSE IF j \in i .. size - 2 THEN items[j + 1] ELSE items[j]
  BY <1>1, <1>2 DEF Array!Closed
<1>4. \A j \in 0 .. size - 2 : b[j] = items[IF j < i THEN j ELSE j + 1]
  BY <1>1, <1>3
<1>5. Filled(b, size - 1, capacity)
  <2>1. ASSUME NEW j \in 0 .. size - 2 PROVE b[j] \in Pointer
    <3>1. j \in 0 .. size - 1 /\ j + 1 \in 0 .. size - 1
      BY <1>1
    <3> QED
      BY <3>1, <1>4 DEF BufferInv, Filled
  <2>2. ASSUME NEW j \in size - 1 .. capacity - 1 PROVE b[j] \in {NULL, Garbage}
    <3>1. CASE j = size - 1
      BY <3>1, <1>1, <1>3
    <3>2. CASE j # size - 1
      <4>1. j \in size .. capacity - 1 /\ j \in 0 .. capacity - 1 /\ ~(j \in i .. size - 2)
        BY <3>2, <1>1
      <4>2. b[j] = items[j]
        BY <3>2, <4>1, <1>3
      <4> QED
        BY <4>1, <4>2 DEF BufferInv, Filled
    <3> QED
      BY <3>1, <3>2
  <2>3. (size - 1) - 1 = size - 2
    BY <1>1
  <2> QED
    BY <1>1, <1>3, <2>1, <2>2, <2>3 DEF Filled, Slots
<1>6. /\ items' = b /\ size' = size - 1 /\ UNCHANGED <<live, capacity, blocks>>
      /\ Returns("remove", i, TRUE, items[i])
  BY <1>2 DEF Array!Remove, Array!Answer, Returns
<1>7. TakesAt("remove", i)
  BY DEF TakesAt
<1> QED
  BY <1>1, <1>4, <1>5, <1>6, <1>7, BufferShrinks

LEMMA ArraySets ==
  ASSUME InBuffer, BufferInv, NEW i \in Nat, NEW x \in Pointer, Array!Set(i, x)
  PROVE  BufferInv' /\ ListPromise!Next
<1>1. /\ size \in Nat /\ capacity \in Nat /\ live /\ size <= capacity
      /\ DOMAIN items = 0 .. capacity - 1 /\ i \in 0 .. size - 1
  BY DEF BufferInv, Filled, Array!Set, Slots
<1>2. PICK b : b = [items EXCEPT ![i] = x]
  OBVIOUS
<1>3. DOMAIN b = 0 .. capacity - 1 /\ b[i] = x /\ \A j \in (0 .. capacity - 1) \ {i} : b[j] = items[j]
  BY <1>1, <1>2
<1>4. Filled(b, size, capacity)
  BY <1>1, <1>3 DEF BufferInv, Filled, Slots
<1>5. /\ items' = b /\ UNCHANGED <<live, size, capacity, blocks>>
      /\ Returns("set", i, TRUE, items[i]) /\ result'.ok = TRUE
  BY <1>2 DEF Array!Set, Array!Answer, Returns
<1>6. BufferInv'
  BY <1>4, <1>5 DEF BufferInv, Filled, Slots, Fits
<1>7. Listed = Items(items, size) /\ Listed' = Items(b, size) /\ Filled(items, size, capacity)
  BY <1>5, <1>6, BufferIs
<1> DEFINE s == Items(items, size)
           t == Items(b, size)
<1>8. s \in Seq(Pointer) /\ Len(s) = size /\ \A j \in 1 .. size : s[j] = items[j - 1]
  BY <1>7, ItemsAre
<1>9. t \in Seq(Pointer) /\ Len(t) = size /\ \A j \in 1 .. size : t[j] = b[j - 1]
  BY <1>4, ItemsAre
<1> HIDE DEF s, t
<1>10. ASSUME NEW j \in 1 .. size PROVE t[j] = IF j = i + 1 THEN x ELSE s[j]
  <2>1. j - 1 \in 0 .. capacity - 1 /\ (j - 1 = i <=> j = i + 1)
    BY <1>1
  <2> QED
    BY <2>1, <1>3, <1>8, <1>9
<1>11. Changes(s, t, i, x)
  BY <1>1, <1>8, <1>9, <1>10 DEF Changes
<1>12. Changes(Listed, Listed', i, x)
  BY <1>7, <1>11 DEF s, t
<1>13. Listed[i + 1] = items[i]
  <2>1. i + 1 \in 1 .. size /\ (i + 1) - 1 = i
    BY <1>1
  <2> QED
    BY <2>1, <1>7, <1>8 DEF s
<1> QED
  BY <1>5, <1>6, <1>12, <1>13, SetStep

LEMMA ArrayNext ==
  ASSUME InBuffer, BufferInv, Array!Next
  PROVE  BufferInv' /\ ListPromise!Next
<1>0. size \in Nat /\ Len(Listed) = size
  <2>1. Listed = Items(items, size)
    BY ListedBuffer DEF InBuffer
  <2> QED
    BY <2>1, ItemsAre DEF BufferInv, Filled
<1>1. CASE Array!Create
  <2>1. ~live /\ capacity = 0 /\ size = 0 /\ items = [i \in {} |-> NULL] /\ blocks = 0
    BY <1>1 DEF Array!Create, BufferInv, Filled, Slots
  <2>2. live' = TRUE /\ size' = 0 /\ capacity' = 0 /\ items' = [i \in {} |-> NULL] /\ blocks' = 1
    BY <1>1, <2>1 DEF Array!Create
  <2>3. Returns("create", 0, TRUE, Untouched)
    BY <1>1 DEF Array!Create, Array!Answer, Returns
  <2> QED
    BY <2>2, <2>3, BufferResets
<1>2. CASE Array!Destroy
  <2>1. live' = FALSE /\ size' = 0 /\ capacity' = 0 /\ items' = [i \in {} |-> NULL] /\ blocks' = 0
    BY <1>2 DEF Array!Destroy, BufferInv, Array!NoSlots, Array!Buffer
  <2>2. Returns("destroy", 0, TRUE, Untouched)
    BY <1>2 DEF Array!Destroy, Array!Answer, Returns
  <2> QED
    BY <2>1, <2>2, BufferResets
<1>3. ASSUME NEW i \in Nat, NEW x \in Pointer, Array!Set(i, x) \/ Array!Insert(i, x) \/ Array!Remove(i)
      PROVE  BufferInv' /\ ListPromise!Next
  BY <1>3, ArraySets, ArrayInserts, ArrayRemoves
<1>4. ASSUME NEW op, NEW i \in Nat, Array!Fail(op, i), NotThere(op, i)
      PROVE  BufferInv' /\ ListPromise!Next
  <2>1. UNCHANGED <<live, size, capacity, items, blocks>> /\ Returns(op, i, FALSE, Untouched)
    BY <1>4 DEF Array!Fail, Array!array, Array!Answer, Returns
  <2> QED
    BY <1>4, <2>1, BufferRefuses
<1>5. CASE Array!CreateFails
  BY <1>4, <1>5 DEF Array!CreateFails, NotThere
<1>6. ASSUME NEW i \in Nat, Array!InsertFails(i) PROVE BufferInv' /\ ListPromise!Next
  BY <1>4, <1>6 DEF Array!InsertFails, NotThere
<1>7. ASSUME NEW i \in Nat, NEW op \in {"set", "remove"}, Array!OutOfRange(op, i)
      PROVE  BufferInv' /\ ListPromise!Next
  BY <1>0, <1>4, <1>7 DEF Array!OutOfRange, NotThere
<1>8. 0 .. size + 1 \subseteq Nat
  BY <1>0
<1>9. ASSUME NEW i \in 0 .. size + 1, Array!Remove(i) PROVE BufferInv' /\ ListPromise!Next
  BY <1>8, <1>9, ArrayRemoves
<1> QED
  BY <1>1, <1>2, <1>3, <1>5, <1>6, <1>7, <1>8, <1>9 DEF Array!Next

------------------------------------------------------------------------------
(* ------------------------------- the lists -------------------------------- *)
(* The n nodes H in a row.                                                   *)
Threaded(s, H, n) ==
  /\ n \in Nat
  /\ \A i \in 1 .. n : s[i] \in H
  /\ \A i, j \in 1 .. n : s[i] = s[j] => i = j
  /\ \A m \in H : \E i \in 1 .. n : m = s[i]

(* t is s with a node more, or one less, behind its first i.                 *)
GrownAt(t, s, n, i, new) ==
  \A j \in 1 .. n + 1 : t[j] = IF j < i + 1 THEN s[j] ELSE IF j = i + 1 THEN new ELSE s[j - 1]
ShrunkAt(t, s, n, i) ==
  \A j \in 1 .. n - 1 : t[j] = IF j < i + 1 THEN s[j] ELSE s[j + 1]

LEMMA ThreadGrows ==
  ASSUME NEW s, NEW t, NEW H, NEW n, Threaded(s, H, n), NEW new, new \notin H, NEW i \in 0 .. n,
         GrownAt(t, s, n, i, new)
  PROVE  Threaded(t, H \cup {new}, n + 1)
<1>1. n \in Nat /\ \A j \in 1 .. n : s[j] \in H
  BY DEF Threaded
<1>2. /\ \A j \in 1 .. i : t[j] = s[j] /\ j \in 1 .. n
      /\ t[i + 1] = new
      /\ \A j \in i + 2 .. n + 1 : t[j] = s[j - 1] /\ j - 1 \in 1 .. n
  BY <1>1 DEF GrownAt
<1>3. \A j \in 1 .. n + 1 : j \in 1 .. i \/ j = i + 1 \/ j \in i + 2 .. n + 1
  BY <1>1
<1>4. ASSUME NEW j \in 1 .. n + 1 PROVE t[j] \in H \cup {new}
  BY <1>1, <1>2, <1>3
<1>5. ASSUME NEW j \in 1 .. n + 1, NEW k \in 1 .. n + 1, t[j] = t[k] PROVE j = k
  <2>1. \A l, m \in 1 .. n : s[l] = s[m] => l = m
    BY DEF Threaded
  <2>2. CASE j = i + 1
    <3>1. k = i + 1
      BY <1>1, <1>2, <1>3, <1>5, <2>2
    <3> QED
      BY <2>2, <3>1
  <2>3. CASE j \in 1 .. i
    <3>1. k # i + 1
      BY <1>1, <1>2, <1>5, <2>3
    <3>2. CASE k \in 1 .. i
      BY <1>2, <1>5, <2>1, <2>3, <3>2
    <3>3. CASE k \in i + 2 .. n + 1
      <4>1. j = k - 1
        BY <1>2, <1>5, <2>1, <2>3, <3>3
      <4> QED
        BY <4>1, <2>3, <3>3
    <3> QED
      BY <1>3, <3>1, <3>2, <3>3
  <2>4. CASE j \in i + 2 .. n + 1
    <3>1. k # i + 1
      BY <1>1, <1>2, <1>5, <2>4
    <3>2. CASE k \in 1 .. i
      <4>1. j - 1 = k
        BY <1>2, <1>5, <2>1, <2>4, <3>2
      <4> QED
        BY <4>1, <2>4, <3>2
    <3>3. CASE k \in i + 2 .. n + 1
      <4>1. j - 1 = k - 1
        BY <1>2, <1>5, <2>1, <2>4, <3>3
      <4> QED
        BY <4>1, <2>4, <3>3
    <3> QED
      BY <1>3, <3>1, <3>2, <3>3
  <2> QED
    BY <1>3, <2>2, <2>3, <2>4
<1>6. ASSUME NEW m \in H \cup {new} PROVE \E j \in 1 .. n + 1 : m = t[j]
  <2>1. CASE m = new
    <3>1. i + 1 \in 1 .. n + 1
      BY <1>1
    <3> QED
      BY <2>1, <3>1, <1>2
  <2>2. CASE m \in H
    <3>1. PICK j \in 1 .. n : m = s[j]
      BY <2>2 DEF Threaded
    <3>2. CASE j <= i
      <4>1. j \in 1 .. i /\ j \in 1 .. n + 1
        BY <1>1, <3>2
      <4> QED
        BY <3>1, <4>1, <1>2
    <3>3. CASE ~(j <= i)
      <4>1. j + 1 \in i + 2 .. n + 1 /\ j + 1 \in 1 .. n + 1 /\ (j + 1) - 1 = j
        BY <1>1, <3>3
      <4>2. t[j + 1] = s[j]
        BY <4>1, <1>2
      <4> QED
        BY <3>1, <4>1, <4>2
    <3> QED
      BY <3>2, <3>3
  <2> QED
    BY <2>1, <2>2
<1> QED
  BY <1>1, <1>4, <1>5, <1>6 DEF Threaded

LEMMA ThreadShrinks ==
  ASSUME NEW s, NEW t, NEW H, NEW n, Threaded(s, H, n), NEW i \in 0 .. n - 1, ShrunkAt(t, s, n, i)
  PROVE  Threaded(t, H \ {s[i + 1]}, n - 1)
<1>1. n \in Nat /\ n # 0 /\ i + 1 \in 1 .. n /\ \A j \in 1 .. n : s[j] \in H
  BY DEF Threaded
<1>2. \A l, m \in 1 .. n : s[l] = s[m] => l = m
  BY DEF Threaded
<1>3. /\ \A j \in 1 .. i : t[j] = s[j] /\ j \in 1 .. n /\ j # i + 1
      /\ \A j \in i + 1 .. n - 1 : t[j] = s[j + 1] /\ j + 1 \in 1 .. n /\ j + 1 # i + 1
  BY <1>1 DEF ShrunkAt
<1>4. \A j \in 1 .. n - 1 : j \in 1 .. i \/ j \in i + 1 .. n - 1
  BY <1>1
<1>5. ASSUME NEW j \in 1 .. n - 1 PROVE t[j] \in H \ {s[i + 1]}
  <2>1. CASE j \in 1 .. i
    BY <1>1, <1>2, <1>3, <2>1
  <2>2. CASE j \in i + 1 .. n - 1
    BY <1>1, <1>2, <1>3, <2>2
  <2> QED
    BY <1>4, <2>1, <2>2
<1>6. ASSUME NEW j \in 1 .. n - 1, NEW k \in 1 .. n - 1, t[j] = t[k] PROVE j = k
  <2>1. CASE j \in 1 .. i /\ k \in 1 .. i
    BY <1>2, <1>3, <1>6, <2>1
  <2>2. CASE j \in 1 .. i /\ k \in i + 1 .. n - 1
    <3>1. j = k + 1
      BY <1>2, <1>3, <1>6, <2>2
    <3> QED
      BY <3>1, <2>2
  <2>3. CASE j \in i + 1 .. n - 1 /\ k \in 1 .. i
    <3>1. j + 1 = k
      BY <1>2, <1>3, <1>6, <2>3
    <3> QED
      BY <3>1, <2>3
  <2>4. CASE j \in i + 1 .. n - 1 /\ k \in i + 1 .. n - 1
    <3>1. j + 1 = k + 1
      BY <1>2, <1>3, <1>6, <2>4
    <3> QED
      BY <3>1, <2>4
  <2> QED
    BY <1>4, <2>1, <2>2, <2>3, <2>4
<1>7. ASSUME NEW m \in H \ {s[i + 1]} PROVE \E j \in 1 .. n - 1 : m = t[j]
  <2>1. PICK j \in 1 .. n : m = s[j]
    BY DEF Threaded
  <2>2. CASE j <= i
    <3>1. j \in 1 .. i /\ j \in 1 .. n - 1
      BY <1>1, <2>2
    <3> QED
      BY <2>1, <3>1, <1>3
  <2>3. CASE ~(j <= i)
    <3>1. j # i + 1
      BY <1>7, <2>1
    <3>2. j - 1 \in i + 1 .. n - 1 /\ j - 1 \in 1 .. n - 1 /\ (j - 1) + 1 = j
      BY <1>1, <2>3, <3>1
    <3>3. t[j - 1] = s[j]
      BY <3>2, <1>3
    <3> QED
      BY <2>1, <3>2, <3>3
  <2> QED
    BY <2>2, <2>3
<1> QED
  BY <1>1, <1>5, <1>6, <1>7 DEF Threaded

------------------------------------------------------------------------------
(* The links along the row.                                                  *)
NextAt(s, n, i) == IF i = n THEN NULL ELSE s[i + 1]
PrevAt(s, i) == IF i = 1 THEN NULL ELSE s[i - 1]

Forwards(s, N, n) == \A i \in 1 .. n : N[s[i]].next = NextAt(s, n, i)
Backwards(s, N, n) == \A i \in 1 .. n : N[s[i]].prev = PrevAt(s, i)

LEMMA ForwardsGrow ==
  ASSUME NEW s, NEW t, NEW H, NEW n, Threaded(s, H, n), NEW new, NEW i \in 0 .. n,
         GrownAt(t, s, n, i, new), NEW N, NEW M, Forwards(s, N, n),
         M[new].next = NextAt(s, n, i),
         \A j \in 1 .. n : M[s[j]].next = IF j = i THEN new ELSE N[s[j]].next
  PROVE  Forwards(t, M, n + 1)
<1>1. n \in Nat
  BY DEF Threaded
<1>2. /\ \A j \in 1 .. i : t[j] = s[j]
      /\ t[i + 1] = new
      /\ \A j \in i + 2 .. n + 1 : t[j] = s[j - 1]
  BY <1>1 DEF GrownAt
<1>3. \A j \in 1 .. n : N[s[j]].next = NextAt(s, n, j)
  BY DEF Forwards
<1>4. ASSUME NEW j \in 1 .. n + 1 PROVE M[t[j]].next = NextAt(t, n + 1, j)
  <2>1. CASE j < i
    <3>1. j \in 1 .. i /\ j + 1 \in 1 .. i /\ j \in 1 .. n /\ j # n /\ j # n + 1 /\ j # i
      BY <1>1, <2>1
    <3>2. M[t[j]].next = s[j + 1] /\ t[j + 1] = s[j + 1]
      BY <3>1, <1>2, <1>3 DEF NextAt
    <3> QED
      BY <3>1, <3>2 DEF NextAt
  <2>2. CASE j = i
    <3>1. i \in 1 .. i /\ i \in 1 .. n /\ i # n + 1
      BY <1>1, <2>2
    <3>2. M[t[i]].next = new
      BY <3>1, <1>2
    <3> QED
      BY <2>2, <3>1, <3>2, <1>2 DEF NextAt
  <2>3. CASE j = i + 1 /\ i = n
    BY <2>3, <1>2 DEF NextAt
  <2>4. CASE j = i + 1 /\ i # n
    <3>1. i + 2 \in i + 2 .. n + 1 /\ (i + 2) - 1 = i + 1 /\ (i + 1) + 1 = i + 2 /\ i + 1 # n + 1
      BY <1>1, <2>4
    <3>2. t[i + 2] = s[i + 1]
      BY <3>1, <1>2
    <3>3. M[t[i + 1]].next = s[i + 1]
      BY <2>4, <1>2 DEF NextAt
    <3> QED
      BY <2>4, <3>1, <3>2, <3>3 DEF NextAt
  <2>5. CASE j > i + 1
    <3>1. j \in i + 2 .. n + 1 /\ j - 1 \in 1 .. n /\ j - 1 # i /\ (j - 1) + 1 = j
             /\ (j - 1 = n <=> j = n + 1)
      BY <1>1, <2>5
    <3>2. M[t[j]].next = NextAt(s, n, j - 1)
      BY <3>1, <1>2, <1>3
    <3>3. CASE j = n + 1
      BY <3>1, <3>2, <3>3 DEF NextAt
    <3>4. CASE j # n + 1
      <4>1. j + 1 \in i + 2 .. n + 1 /\ (j + 1) - 1 = j
        BY <1>1, <2>5, <3>4
      <4>2. t[j + 1] = s[j]
        BY <4>1, <1>2
      <4> QED
        BY <3>1, <3>2, <3>4, <4>2 DEF NextAt
    <3> QED
      BY <3>3, <3>4
  <2> QED
    BY <2>1, <2>2, <2>3, <2>4, <2>5
<1> QED
  BY <1>4 DEF Forwards

LEMMA ForwardsShrink ==
  ASSUME NEW s, NEW t, NEW H, NEW n, Threaded(s, H, n), NEW i \in 0 .. n - 1,
         ShrunkAt(t, s, n, i), NEW N, NEW M, Forwards(s, N, n),
         \A j \in 1 .. n : j # i + 1 =>
           M[s[j]].next = IF j = i THEN NextAt(s, n, i + 1) ELSE N[s[j]].next
  PROVE  Forwards(t, M, n - 1)
<1>1. n \in Nat /\ n # 0
  BY DEF Threaded
<1>2. /\ \A j \in 1 .. i : t[j] = s[j]
      /\ \A j \in i + 1 .. n - 1 : t[j] = s[j + 1]
  BY <1>1 DEF ShrunkAt
<1>3. \A j \in 1 .. n : N[s[j]].next = NextAt(s, n, j)
  BY DEF Forwards
<1>4. ASSUME NEW j \in 1 .. n - 1 PROVE M[t[j]].next = NextAt(t, n - 1, j)
  <2>1. CASE j < i
    <3>1. j \in 1 .. i /\ j + 1 \in 1 .. i /\ j \in 1 .. n /\ j # n /\ j # n - 1 /\ j # i /\ j # i + 1
      BY <1>1, <2>1
    <3>2. M[t[j]].next = s[j + 1] /\ t[j + 1] = s[j + 1]
      BY <3>1, <1>2, <1>3 DEF NextAt
    <3> QED
      BY <3>1, <3>2 DEF NextAt
  <2>2. CASE j = i
    <3>1. i \in 1 .. i /\ i \in 1 .. n /\ i # i + 1 /\ (i + 1) + 1 = i + 2 /\ (i = n - 1 <=> i + 1 = n)
      BY <1>1, <2>2
    <3>2. M[t[i]].next = NextAt(s, n, i + 1)
      BY <3>1, <1>2
    <3>3. CASE i = n - 1
      BY <2>2, <3>1, <3>2, <3>3 DEF NextAt
    <3>4. CASE i # n - 1
      <4>1. i + 1 \in i + 1 .. n - 1
        BY <1>1, <3>4
      <4>2. t[i + 1] = s[i + 2]
        BY <4>1, <3>1, <1>2
      <4> QED
        BY <2>2, <3>1, <3>2, <3>4, <4>2 DEF NextAt
    <3> QED
      BY <3>3, <3>4
  <2>3. CASE j > i
    <3>1. /\ j \in i + 1 .. n - 1 /\ j + 1 \in 1 .. n /\ j + 1 # i + 1 /\ j + 1 # i
          /\ (j + 1 = n <=> j = n - 1)
      BY <1>1, <2>3
    <3>2. M[t[j]].next = NextAt(s, n, j + 1)
      BY <3>1, <1>2, <1>3
    <3>3. CASE j = n - 1
      BY <3>1, <3>2, <3>3 DEF NextAt
    <3>4. CASE j # n - 1
      <4>1. j + 1 \in i + 1 .. n - 1
        BY <1>1, <2>3, <3>4
      <4>2. t[j + 1] = s[(j + 1) + 1]
        BY <4>1, <1>2
      <4> QED
        BY <3>1, <3>2, <3>4, <4>2 DEF NextAt
    <3> QED
      BY <3>3, <3>4
  <2> QED
    BY <2>1, <2>2, <2>3
<1> QED
  BY <1>4 DEF Forwards

LEMMA BackwardsGrow ==
  ASSUME NEW s, NEW t, NEW H, NEW n, Threaded(s, H, n), NEW new, NEW i \in 0 .. n,
         GrownAt(t, s, n, i, new), NEW N, NEW M, Backwards(s, N, n),
         M[new].prev = IF i = 0 THEN NULL ELSE s[i],
         \A j \in 1 .. n : M[s[j]].prev = IF j = i + 1 THEN new ELSE N[s[j]].prev
  PROVE  Backwards(t, M, n + 1)
<1>1. n \in Nat
  BY DEF Threaded
<1>2. /\ \A j \in 1 .. i : t[j] = s[j]
      /\ t[i + 1] = new
      /\ \A j \in i + 2 .. n + 1 : t[j] = s[j - 1]
  BY <1>1 DEF GrownAt
<1>3. \A j \in 1 .. n : N[s[j]].prev = PrevAt(s, j)
  BY DEF Backwards
<1>4. ASSUME NEW j \in 1 .. n + 1 PROVE M[t[j]].prev = PrevAt(t, j)
  <2>1. CASE j <= i
    <3>1. j \in 1 .. i /\ j \in 1 .. n /\ j # i + 1
      BY <1>1, <2>1
    <3>2. M[t[j]].prev = PrevAt(s, j)
      BY <3>1, <1>2, <1>3
    <3>3. CASE j = 1
      BY <3>2, <3>3 DEF PrevAt
    <3>4. CASE j # 1
      <4>1. j - 1 \in 1 .. i
        BY <3>1, <3>4
      <4> QED
        BY <3>2, <3>4, <4>1, <1>2 DEF PrevAt
    <3> QED
      BY <3>3, <3>4
  <2>2. CASE j = i + 1 /\ i = 0
    BY <2>2, <1>2 DEF PrevAt
  <2>3. CASE j = i + 1 /\ i # 0
    <3>1. i \in 1 .. i /\ (i + 1) - 1 = i /\ i + 1 # 1
      BY <2>3
    <3>2. t[i] = s[i]
      BY <3>1, <1>2
    <3> QED
      BY <2>3, <3>1, <3>2, <1>2 DEF PrevAt
  <2>4. CASE j = i + 2
    <3>1. j \in i + 2 .. n + 1 /\ j - 1 \in 1 .. n /\ j - 1 = i + 1 /\ j # 1
      BY <1>1, <2>4
    <3>2. M[t[j]].prev = new
      BY <3>1, <1>2
    <3> QED
      BY <3>1, <3>2, <1>2 DEF PrevAt
  <2>5. CASE j > i + 2
    <3>1. /\ j \in i + 2 .. n + 1 /\ j - 1 \in 1 .. n /\ j - 1 # i + 1 /\ j # 1 /\ j - 1 # 1
          /\ j - 1 \in i + 2 .. n + 1
      BY <1>1, <2>5
    <3>2. M[t[j]].prev = s[(j - 1) - 1]
      BY <3>1, <1>2, <1>3 DEF PrevAt
    <3>3. t[j - 1] = s[(j - 1) - 1]
      BY <3>1, <1>2
    <3> QED
      BY <3>1, <3>2, <3>3 DEF PrevAt
  <2> QED
    BY <2>1, <2>2, <2>3, <2>4, <2>5
<1> QED
  BY <1>4 DEF Backwards

LEMMA BackwardsShrink ==
  ASSUME NEW s, NEW t, NEW H, NEW n, Threaded(s, H, n), NEW i \in 0 .. n - 1,
         ShrunkAt(t, s, n, i), NEW N, NEW M, Backwards(s, N, n),
         \A j \in 1 .. n : j # i + 1 =>
           M[s[j]].prev = IF j = i + 2 THEN PrevAt(s, i + 1) ELSE N[s[j]].prev
  PROVE  Backwards(t, M, n - 1)
<1>1. n \in Nat /\ n # 0
  BY DEF Threaded
<1>2. /\ \A j \in 1 .. i : t[j] = s[j]
      /\ \A j \in i + 1 .. n - 1 : t[j] = s[j + 1]
  BY <1>1 DEF ShrunkAt
<1>3. \A j \in 1 .. n : N[s[j]].prev = PrevAt(s, j)
  BY DEF Backwards
<1>4. ASSUME NEW j \in 1 .. n - 1 PROVE M[t[j]].prev = PrevAt(t, j)
  <2>1. CASE j <= i
    <3>1. j \in 1 .. i /\ j \in 1 .. n /\ j # i + 1 /\ j # i + 2
      BY <1>1, <2>1
    <3>2. M[t[j]].prev = PrevAt(s, j)
      BY <3>1, <1>2, <1>3
    <3>3. CASE j = 1
      BY <3>2, <3>3 DEF PrevAt
    <3>4. CASE j # 1
      <4>1. j - 1 \in 1 .. i
        BY <3>1, <3>4
      <4> QED
        BY <3>2, <3>4, <4>1, <1>2 DEF PrevAt
    <3> QED
      BY <3>3, <3>4
  <2>2. CASE j = i + 1
    <3>1. /\ j \in i + 1 .. n - 1 /\ j + 1 \in 1 .. n /\ j + 1 # i + 1 /\ j + 1 = i + 2
          /\ (i + 1) - 1 = i /\ (i + 1 = 1 <=> i = 0)
      BY <1>1, <2>2
    <3>2. M[t[j]].prev = PrevAt(s, i + 1)
      BY <3>1, <1>2
    <3>3. CASE i = 0
      BY <2>2, <3>1, <3>2, <3>3 DEF PrevAt
    <3>4. CASE i # 0
      <4>1. i \in 1 .. i
        BY <3>4
      <4>2. t[i] = s[i]
        BY <4>1, <1>2
      <4> QED
        BY <2>2, <3>1, <3>2, <3>4, <4>2 DEF PrevAt
    <3> QED
      BY <3>3, <3>4
  <2>3. CASE j > i + 1
    <3>1. /\ j \in i + 1 .. n - 1 /\ j + 1 \in 1 .. n /\ j + 1 # i + 1 /\ j + 1 # i + 2
          /\ j - 1 \in i + 1 .. n - 1 /\ (j + 1) - 1 = j /\ (j - 1) + 1 = j /\ j # 1 /\ j + 1 # 1
      BY <1>1, <2>3
    <3>2. M[t[j]].prev = s[j]
      BY <3>1, <1>2, <1>3 DEF PrevAt
    <3>3. t[j - 1] = s[j]
      BY <3>1, <1>2
    <3> QED
      BY <3>1, <3>2, <3>3 DEF PrevAt
  <2> QED
    BY <2>1, <2>2, <2>3
<1> QED
  BY <1>4 DEF Backwards

------------------------------------------------------------------------------
(* The values along the row.                                                 *)
Along(s, N, n) == [i \in 1 .. n |-> N[s[i]].value]

LEMMA AlongIs ==
  ASSUME NEW s, NEW N, NEW n \in Nat, \A i \in 1 .. n : N[s[i]].value \in Pointer
  PROVE  /\ Along(s, N, n) \in Seq(Pointer) /\ Len(Along(s, N, n)) = n
         /\ \A i \in 1 .. n : Along(s, N, n)[i] = N[s[i]].value
BY DEF Along

LEMMA AlongGrows ==
  ASSUME NEW s, NEW t, NEW n \in Nat, NEW new, NEW i \in 0 .. n, NEW x \in Pointer,
         GrownAt(t, s, n, i, new), NEW N, NEW M,
         \A j \in 1 .. n : N[s[j]].value \in Pointer,
         M[new].value = x, \A j \in 1 .. n : M[s[j]].value = N[s[j]].value
  PROVE  /\ Grows(Along(s, N, n), Along(t, M, n + 1), i, x)
         /\ \A j \in 1 .. n + 1 : M[t[j]].value \in Pointer
<1>1. ASSUME NEW j \in 1 .. n + 1
      PROVE  /\ M[t[j]].value =
                    IF j < i + 1 THEN N[s[j]].value
                    ELSE IF j = i + 1 THEN x ELSE N[s[j - 1]].value
             /\ M[t[j]].value \in Pointer
  <2>1. CASE j < i + 1
    <3>1. j \in 1 .. n /\ t[j] = s[j]
      BY <2>1 DEF GrownAt
    <3> QED
      BY <2>1, <3>1
  <2>2. CASE j = i + 1
    <3>1. t[j] = new
      BY <2>2 DEF GrownAt
    <3> QED
      BY <2>2, <3>1
  <2>3. CASE j > i + 1
    <3>1. j - 1 \in 1 .. n /\ t[j] = s[j - 1]
      BY <2>3 DEF GrownAt
    <3> QED
      BY <2>3, <3>1
  <2> QED
    BY <2>1, <2>2, <2>3
<1> DEFINE a == Along(s, N, n)
           b == Along(t, M, n + 1)
<1>2. a \in Seq(Pointer) /\ Len(a) = n /\ \A j \in 1 .. n : a[j] = N[s[j]].value
  BY AlongIs
<1>3. b \in Seq(Pointer) /\ Len(b) = n + 1 /\ \A j \in 1 .. n + 1 : b[j] = M[t[j]].value
  BY <1>1, AlongIs
<1> HIDE DEF a, b
<1>4. ASSUME NEW j \in 1 .. n + 1
      PROVE  b[j] = IF j < i + 1 THEN a[j] ELSE IF j = i + 1 THEN x ELSE a[j - 1]
  <2>1. CASE j < i + 1
    BY <2>1, <1>1, <1>2, <1>3
  <2>2. CASE j = i + 1
    BY <2>2, <1>1, <1>3
  <2>3. CASE j > i + 1
    <3>1. j - 1 \in 1 .. n
      BY <2>3
    <3> QED
      BY <2>3, <3>1, <1>1, <1>2, <1>3
  <2> QED
    BY <2>1, <2>2, <2>3
<1>5. Grows(a, b, i, x)
  BY <1>2, <1>3, <1>4 DEF Grows
<1> QED
  BY <1>1, <1>5 DEF a, b

LEMMA AlongShrinks ==
  ASSUME NEW s, NEW t, NEW n \in Nat, NEW i \in 0 .. n - 1,
         ShrunkAt(t, s, n, i), NEW N, NEW M,
         \A j \in 1 .. n : N[s[j]].value \in Pointer,
         \A j \in 1 .. n : j # i + 1 => M[s[j]].value = N[s[j]].value
  PROVE  /\ Shrinks(Along(s, N, n), Along(t, M, n - 1), i)
         /\ Along(s, N, n)[i + 1] = N[s[i + 1]].value
         /\ \A j \in 1 .. n - 1 : M[t[j]].value \in Pointer
<1>1. ASSUME NEW j \in 1 .. n - 1
      PROVE  /\ M[t[j]].value = IF j < i + 1 THEN N[s[j]].value ELSE N[s[j + 1]].value
             /\ M[t[j]].value \in Pointer
  <2>1. CASE j < i + 1
    <3>1. j \in 1 .. n /\ j # i + 1 /\ t[j] = s[j]
      BY <2>1 DEF ShrunkAt
    <3> QED
      BY <2>1, <3>1
  <2>2. CASE ~(j < i + 1)
    <3>1. j + 1 \in 1 .. n /\ j + 1 # i + 1 /\ t[j] = s[j + 1]
      BY <2>2 DEF ShrunkAt
    <3> QED
      BY <2>2, <3>1
  <2> QED
    BY <2>1, <2>2
<1> DEFINE a == Along(s, N, n)
           b == Along(t, M, n - 1)
<1>2. a \in Seq(Pointer) /\ Len(a) = n /\ \A j \in 1 .. n : a[j] = N[s[j]].value
  BY AlongIs
<1>3. b \in Seq(Pointer) /\ Len(b) = n - 1 /\ \A j \in 1 .. n - 1 : b[j] = M[t[j]].value
  <2>1. n - 1 \in Nat
    OBVIOUS
  <2> QED
    BY <2>1, <1>1, AlongIs
<1> HIDE DEF a, b
<1>4. ASSUME NEW j \in 1 .. n - 1 PROVE b[j] = IF j < i + 1 THEN a[j] ELSE a[j + 1]
  <2>1. j \in 1 .. n /\ j + 1 \in 1 .. n
    OBVIOUS
  <2> QED
    BY <2>1, <1>1, <1>2, <1>3
<1>5. Shrinks(a, b, i)
  BY <1>2, <1>3, <1>4 DEF Shrinks
<1>6. i + 1 \in 1 .. n
  OBVIOUS
<1> QED
  BY <1>1, <1>2, <1>5, <1>6 DEF a, b

------------------------------------------------------------------------------
(* ----------------------------- singly linked ------------------------------ *)
SinglyNodes(N, H) == N \in [H -> [value : Pointer, next : H \cup {NULL}]]

SinglyHolds(s) ==
  /\ live \in BOOLEAN /\ result.ok \in BOOLEAN /\ (~live => size = 0)
  /\ Threaded(s, Heap, size)
  /\ IsFiniteSet(Heap) /\ Cardinality(Heap) = size /\ Heap \subseteq Address
  /\ first = IF size = 0 THEN NULL ELSE s[1]
  /\ SinglyNodes(nodes, Heap) /\ Forwards(s, nodes, size)

LEMMA AddressIsNotNull == NULL \notin Address
BY ContainersAssumption DEF TreeAssumption

LEMMA SinglyFacts ==
  ASSUME NEW s, SinglyHolds(s)
  PROVE  /\ size \in Nat /\ NULL \notin Heap /\ Singly!Heap = Heap
         /\ \A j \in 1 .. size : /\ s[j] \in Heap /\ s[j] # NULL
                                 /\ Singly!NextOf(s[j]) = NextAt(s, size, j)
                                 /\ nodes[s[j]].value \in Pointer
         /\ \A j, k \in 1 .. size : s[j] = s[k] => j = k
         /\ first = NextAt(s, size, 0)
<1>1. size \in Nat /\ NULL \notin Heap
  BY AddressIsNotNull DEF SinglyHolds, Threaded
<1>2. Singly!Heap = Heap
  BY DEF Singly!Heap, Heap
<1>3. ASSUME NEW j \in 1 .. size
      PROVE  /\ s[j] \in Heap /\ s[j] # NULL /\ Singly!NextOf(s[j]) = NextAt(s, size, j)
             /\ nodes[s[j]].value \in Pointer
  <2>1. s[j] \in Heap
    BY DEF SinglyHolds, Threaded
  <2>2. nodes[s[j]] \in [value : Pointer, next : Heap \cup {NULL}]
    BY <2>1 DEF SinglyHolds, SinglyNodes
  <2>3. nodes[s[j]].next = NextAt(s, size, j)
    BY DEF SinglyHolds, Forwards
  <2> QED
    BY <1>1, <1>2, <2>1, <2>2, <2>3 DEF Singly!NextOf
<1>4. \A j, k \in 1 .. size : s[j] = s[k] => j = k
  BY DEF SinglyHolds, Threaded
<1>5. first = NextAt(s, size, 0)
  BY <1>1 DEF SinglyHolds, NextAt
<1> QED
  BY <1>1, <1>2, <1>3, <1>4, <1>5

LEMMA SinglyWalk ==
  ASSUME NEW s, SinglyHolds(s), NEW i \in 0 .. size - 1
  PROVE  Singly!NodeAt(i) = s[i + 1]
<1> DEFINE Walks(f) == f = [n \in 0 .. i |-> IF n = 0 THEN first ELSE Singly!NextOf(f[n - 1])]
           g == [n \in 0 .. i |-> s[n + 1]]
           f == CHOOSE f : Walks(f)
           S == {k \in 0 .. i : f[k] = s[k + 1]}
<1>1. size \in Nat /\ size # 0 /\ i \in Nat
  BY SinglyFacts
<1>2. first = s[1] /\ \A n \in 1 .. i : Singly!NextOf(s[n]) = s[n + 1]
  <2>1. first = s[1]
    BY <1>1 DEF SinglyHolds
  <2>2. ASSUME NEW n \in 1 .. i PROVE Singly!NextOf(s[n]) = s[n + 1]
    <3>1. n \in 1 .. size /\ n # size
      BY <1>1
    <3> QED
      BY <3>1, SinglyFacts DEF NextAt
  <2> QED
    BY <2>1, <2>2
<1>3. Walks(g)
  <2>1. ASSUME NEW n \in 0 .. i PROVE g[n] = IF n = 0 THEN first ELSE Singly!NextOf(g[n - 1])
    <3>1. CASE n = 0
      BY <3>1, <1>2
    <3>2. CASE n # 0
      <4>1. n \in 1 .. i /\ n - 1 \in 0 .. i /\ (n - 1) + 1 = n
        BY <3>2
      <4> QED
        BY <3>2, <4>1, <1>2
    <3> QED
      BY <3>1, <3>2
  <2>2. g = [n \in 0 .. i |-> g[n]]
    OBVIOUS
  <2> HIDE DEF g
  <2> QED
    BY <2>1, <2>2
<1>4. Walks(f)
  <2> HIDE DEF Walks, g
  <2> QED
    BY <1>3
<1>5. Singly!NodeAt(i) = f[i]
  BY DEF Singly!NodeAt
<1> HIDE DEF f, g
<1>6. 0 \in S
  BY <1>1, <1>2, <1>4
<1>7. ASSUME NEW k \in 1 .. i, k - 1 \in S PROVE k \in S
  <2>1. f[k - 1] = s[k]
    BY <1>7
  <2>2. f[k] = Singly!NextOf(f[k - 1])
    BY <1>4
  <2> QED
    BY <1>2, <2>1, <2>2
<1> HIDE DEF S
<1>8. \A k \in 0 .. i : k \in S
  BY <1>1, <1>6, <1>7, Upward
<1>9. i \in S
  BY <1>1, <1>8
<1> QED
  BY <1>5, <1>9 DEF S

LEMMA SinglyCardinality == \A S : Singly!Cardinality(S) = Cardinality(S)
BY DEF Singly!Cardinality, Cardinality

LEMMA SinglyFreesAll ==
  ASSUME NEW s, SinglyHolds(s)
  PROVE  Singly!Freed = Heap
<1> DEFINE Reach(k) == {m \in Heap : \E j \in 1 .. size : j <= k + 1 /\ m = s[j]}
           Frees(f) == f = [n \in 0 .. size |->
                              IF n = 0 THEN {first} \ {NULL}
                              ELSE f[n - 1] \cup ({Singly!NextOf(m) : m \in f[n - 1]} \ {NULL})]
           g == [n \in 0 .. size |-> Reach(n)]
           f == CHOOSE f : Frees(f)
           S == {k \in 0 .. size : f[k] = Reach(k)}
<1>1. size \in Nat /\ NULL \notin Heap
  BY SinglyFacts
<1>2. \A j \in 1 .. size : s[j] \in Heap /\ s[j] # NULL /\ Singly!NextOf(s[j]) = NextAt(s, size, j)
  BY SinglyFacts
<1>3. Reach(0) = {first} \ {NULL}
  <2>1. CASE size = 0
    BY <2>1, <1>1 DEF SinglyHolds
  <2>2. CASE size # 0
    <3>1. first = s[1] /\ 1 \in 1 .. size /\ \A j \in 1 .. size : j <= 0 + 1 <=> j = 1
      BY <2>2, <1>1 DEF SinglyHolds
    <3> QED
      BY <3>1, <1>2
  <2> QED
    BY <2>1, <2>2
<1>4. ASSUME NEW n \in 1 .. size
      PROVE  Reach(n) = Reach(n - 1) \cup ({Singly!NextOf(m) : m \in Reach(n - 1)} \ {NULL})
  <2>1. (n - 1) + 1 = n
    OBVIOUS
  <2>2. ASSUME NEW m \in Reach(n)
        PROVE  m \in Reach(n - 1) \cup ({Singly!NextOf(k) : k \in Reach(n - 1)} \ {NULL})
    <3>1. PICK j \in 1 .. size : j <= n + 1 /\ m = s[j]
      BY <2>2
    <3>2. CASE j <= n
      BY <3>1, <3>2, <2>1, <1>2
    <3>3. CASE j > n
      <4>1. j - 1 \in 1 .. size /\ j - 1 <= n /\ j - 1 # size /\ (j - 1) + 1 = j
        BY <3>1, <3>3, <1>1
      <4>2. s[j - 1] \in Reach(n - 1) /\ Singly!NextOf(s[j - 1]) = m
        BY <3>1, <4>1, <2>1, <1>2 DEF NextAt
      <4>3. m # NULL
        BY <3>1, <1>2
      <4> QED
        BY <4>2, <4>3
    <3> QED
      BY <3>1, <3>2, <3>3, <1>1
  <2>3. ASSUME NEW m \in Reach(n - 1) PROVE m \in Reach(n)
    <3>1. PICK j \in 1 .. size : j <= n /\ m = s[j]
      BY <2>1, <2>3
    <3>2. j <= n + 1
      BY <3>1
    <3> QED
      BY <3>1, <3>2, <1>2
  <2>4. ASSUME NEW k \in Reach(n - 1), Singly!NextOf(k) # NULL PROVE Singly!NextOf(k) \in Reach(n)
    <3>1. PICK j \in 1 .. size : j <= n /\ k = s[j]
      BY <2>1, <2>4
    <3>2. j # size /\ Singly!NextOf(k) = s[j + 1]
      BY <2>4, <3>1, <1>2 DEF NextAt
    <3>3. j + 1 \in 1 .. size /\ j + 1 <= n + 1
      BY <3>1, <3>2, <1>1
    <3> QED
      BY <3>2, <3>3, <1>2
  <2> HIDE DEF Reach
  <2> QED
    BY <2>2, <2>3, <2>4
<1> HIDE DEF Reach
<1>5. Frees(g)
  <2>1. ASSUME NEW n \in 0 .. size
        PROVE  g[n] = IF n = 0 THEN {first} \ {NULL}
                      ELSE g[n - 1] \cup ({Singly!NextOf(m) : m \in g[n - 1]} \ {NULL})
    <3>1. CASE n = 0
      BY <3>1, <1>3
    <3>2. CASE n # 0
      <4>1. n \in 1 .. size /\ n - 1 \in 0 .. size
        BY <3>2, <1>1
      <4>2. g[n] = Reach(n) /\ g[n - 1] = Reach(n - 1)
        BY <4>1
      <4> QED
        BY <3>2, <4>1, <4>2, <1>4
    <3> QED
      BY <3>1, <3>2
  <2>2. g = [n \in 0 .. size |-> g[n]]
    OBVIOUS
  <2> HIDE DEF g
  <2> QED
    BY <2>1, <2>2
<1>6. Frees(f)
  <2> HIDE DEF Frees, g
  <2> QED
    BY <1>5
<1>7. Singly!Freed = f[size]
  <2>1. Singly!Cardinality(Singly!Heap) = size
    BY SinglyCardinality, SinglyFacts DEF SinglyHolds
  <2> QED
    BY <2>1 DEF Singly!Freed
<1> HIDE DEF f, g
<1>8. 0 \in S
  BY <1>1, <1>3, <1>6
<1>9. ASSUME NEW k \in 1 .. size, k - 1 \in S PROVE k \in S
  <2>1. f[k - 1] = Reach(k - 1)
    BY <1>9
  <2>2. f[k] = f[k - 1] \cup ({Singly!NextOf(m) : m \in f[k - 1]} \ {NULL})
    <3>1. k \in 0 .. size /\ k # 0
      BY <1>1
    <3>2. f[k] = IF k = 0 THEN {first} \ {NULL}
                 ELSE f[k - 1] \cup ({Singly!NextOf(m) : m \in f[k - 1]} \ {NULL})
      BY <1>6, <3>1, Zenon
    <3> QED
      BY <3>1, <3>2
  <2> QED
    BY <1>4, <2>1, <2>2
<1> HIDE DEF S
<1>10. \A k \in 0 .. size : k \in S
  BY <1>1, <1>8, <1>9, Upward
<1>11. f[size] = Reach(size)
  BY <1>1, <1>10 DEF S
<1>12. Reach(size) = Heap
  <2>1. \A m \in Heap : \E j \in 1 .. size : m = s[j] /\ j <= size + 1
    <3>1. \A m \in Heap : \E j \in 1 .. size : m = s[j]
      BY DEF SinglyHolds, Threaded
    <3>2. \A j \in 1 .. size : j <= size + 1
      BY <1>1
    <3> QED
      BY <3>1, <3>2
  <2> QED
    BY <2>1 DEF Reach
<1> QED
  BY <1>7, <1>11, <1>12

LEMMA SinglyIsWellFormed ==
  ASSUME NEW s, SinglyHolds(s)
  PROVE  Singly!WellFormed /\ Singly!ViewIsPath /\ Singly!Contents = Along(s, nodes, size)
<1>1. size \in Nat /\ NULL \notin Heap /\ Singly!Heap = Heap
  BY SinglyFacts
<1>2. \A i \in 0 .. size - 1 : Singly!NodeAt(i) = s[i + 1] /\ i + 1 \in 1 .. size
  BY <1>1, SinglyWalk
<1>3. Singly!TypeOK
  <2>1. first \in Heap \cup {NULL}
    <3>1. CASE size = 0
      BY <3>1 DEF SinglyHolds
    <3>2. CASE size # 0
      <4>1. 1 \in 1 .. size
        BY <3>2, <1>1
      <4> QED
        BY <3>2, <4>1, SinglyFacts DEF SinglyHolds
    <3> QED
      BY <3>1, <3>2
  <2> QED
    BY <1>1, <2>1 DEF Singly!TypeOK, SinglyHolds, SinglyNodes
<1>4. {Singly!NodeAt(i) : i \in 0 .. size - 1} = Heap
  <2>1. ASSUME NEW i \in 0 .. size - 1 PROVE Singly!NodeAt(i) \in Heap
    BY <1>2, SinglyFacts
  <2>2. ASSUME NEW m \in Heap PROVE \E i \in 0 .. size - 1 : m = Singly!NodeAt(i)
    <3>1. PICK j \in 1 .. size : m = s[j]
      BY DEF SinglyHolds, Threaded
    <3>2. j - 1 \in 0 .. size - 1 /\ (j - 1) + 1 = j
      BY <1>1
    <3>3. Singly!NodeAt(j - 1) = m
      BY <3>1, <3>2, <1>2
    <3> QED
      BY <3>2, <3>3
  <2> QED
    BY <2>1, <2>2
<1>5. Singly!ChainOfAllNodes
  <2>1. Singly!Cardinality(Singly!Heap) = size
    BY <1>1, SinglyCardinality DEF SinglyHolds
  <2>2. ~live => Heap = {}
    <3>1. size = 0 => Heap = {}
      BY DEF SinglyHolds, Threaded
    <3> QED
      BY <3>1 DEF SinglyHolds
  <2> QED
    BY <1>1, <1>4, <2>1, <2>2, SinglyFreesAll DEF Singly!ChainOfAllNodes
<1>6. Singly!ViewIsPath
  <2>1. ASSUME NEW i \in 0 .. size - 1 PROVE Singly!Neighbors(i) = {i + 1} \cap 0 .. size - 1
    <3>1. Singly!NextOf(Singly!NodeAt(i)) = NextAt(s, size, i + 1)
      BY <1>2, SinglyFacts
    <3>2. CASE i + 1 = size
      <4>1. Singly!NextOf(Singly!NodeAt(i)) = NULL /\ i + 1 \notin 0 .. size - 1
        BY <1>1, <3>1, <3>2 DEF NextAt
      <4> QED
        BY <4>1 DEF Singly!Neighbors
    <3>3. CASE i + 1 # size
      <4>1. i + 1 \in 0 .. size - 1 /\ (i + 1) + 1 \in 1 .. size
        BY <1>1, <3>3
      <4>2. Singly!NextOf(Singly!NodeAt(i)) # NULL
        BY <3>1, <3>3, <4>1, SinglyFacts DEF NextAt
      <4> QED
        BY <4>1, <4>2 DEF Singly!Neighbors
    <3> QED
      BY <3>2, <3>3
  <2> QED
    BY <2>1 DEF Singly!ViewIsPath
<1>7. Singly!Contents = Along(s, nodes, size)
  <2>1. ASSUME NEW i \in 1 .. size PROVE Singly!Get(i - 1) = nodes[s[i]].value
    <3>1. i - 1 \in 0 .. size - 1 /\ (i - 1) + 1 = i
      BY <1>1
    <3> QED
      BY <3>1, <1>2 DEF Singly!Get
  <2> QED
    BY <2>1 DEF Singly!Contents, Along
<1> QED
  BY <1>3, <1>5, <1>6, <1>7 DEF Singly!WellFormed

(* --------------------------------- calls ----------------------------------- *)
InSingly == kind = "singly" /\ kind' = "singly"

(* The list between calls.                                                   *)
SinglyInv == \E s : SinglyHolds(s)

LEMMA ListedSingly == kind = "singly" => \A s : SinglyHolds(s) => Listed = Along(s, nodes, size)
BY SinglyIsWellFormed DEF Listed

LEMMA ListedSinglyNext == (kind = "singly" => \A s : SinglyHolds(s) => Listed = Along(s, nodes, size))'
BY ListedSingly, PTL

LEMMA SinglyIs ==
  ASSUME InSingly, NEW s, SinglyHolds(s)
  PROVE  Listed = Along(s, nodes, size) /\ Len(Listed) = size /\ Listed \in Seq(Pointer)
<1>1. Listed = Along(s, nodes, size)
  BY ListedSingly DEF InSingly
<1>2. size \in Nat /\ \A i \in 1 .. size : nodes[s[i]].value \in Pointer
  BY SinglyFacts
<1> QED
  BY <1>1, <1>2, AlongIs

LEMMA SinglyNextIs ==
  ASSUME InSingly, NEW t, SinglyHolds(t)'
  PROVE  SinglyInv' /\ Listed' = Along(t, nodes', size')
BY ListedSinglyNext DEF InSingly, SinglyInv, Along

LEMMA SinglyGrows ==
  ASSUME InSingly, NEW s, SinglyHolds(s), NEW i \in 0 .. size, NEW new \in Address \ Heap,
         NEW x \in Pointer, NEW op, AddsAt(op, i), live, live' = live, size' = size + 1,
         first' = IF i = 0 THEN new ELSE first,
         nodes' = Singly!With(new, x, NextAt(s, size, i), IF i = 0 THEN NULL ELSE s[i]),
         Returns(op, i, TRUE, Untouched)
  PROVE  SinglyInv' /\ ListPromise!Next
<1>0. PICK t : t = [j \in 1 .. size + 1 |->
                      IF j < i + 1 THEN s[j] ELSE IF j = i + 1 THEN new ELSE s[j - 1]]
  OBVIOUS
<1>1. PICK n, H, N, M : n = size /\ H = Heap /\ N = nodes /\ M = nodes'
  OBVIOUS
<1>2. n \in Nat /\ NULL \notin H /\ Singly!Heap = H
  BY <1>1, SinglyFacts
<1>3. /\ \A j \in 1 .. n : s[j] \in H /\ s[j] # NULL /\ N[s[j]].value \in Pointer
      /\ \A j, k \in 1 .. n : s[j] = s[k] => j = k
  BY <1>1, SinglyFacts
<1>4. Threaded(s, H, n) /\ SinglyNodes(N, H) /\ Forwards(s, N, n)
  BY <1>1 DEF SinglyHolds
<1>5. GrownAt(t, s, n, i, new)
  BY <1>0, <1>1 DEF GrownAt
<1> DEFINE p == IF i = 0 THEN NULL ELSE s[i]
<1>6. M = [m \in H \cup {new} |->
             IF m = new THEN [value |-> x, next |-> NextAt(s, n, i)]
             ELSE IF m = p THEN [N[m] EXCEPT !.next = new] ELSE N[m]]
  BY <1>1, <1>2 DEF Singly!With
<1>7. new \notin H /\ new # NULL /\ new \in Address
  BY <1>1, AddressIsNotNull
<1>8. NextAt(s, n, i) \in H \cup {NULL}
  <2>1. i # n => i + 1 \in 1 .. n
    BY <1>1, <1>2
  <2> QED
    BY <2>1, <1>3 DEF NextAt
<1>9. \A m \in H : N[m] \in [value : Pointer, next : H \cup {NULL}]
  BY <1>4 DEF SinglyNodes
<1>10. M[new] = [value |-> x, next |-> NextAt(s, n, i)]
  BY <1>6
<1>11. \A m \in H : M[m] = IF m = p THEN [N[m] EXCEPT !.next = new] ELSE N[m]
  BY <1>6, <1>7
<1>12. \A m \in H : /\ M[m] \in [value : Pointer, next : H \cup {new} \cup {NULL}]
                    /\ M[m].value = N[m].value
                    /\ M[m].next = IF m = p THEN new ELSE N[m].next
  BY <1>9, <1>11
<1>13. \A j \in 1 .. n : s[j] = p <=> j = i
  <2>1. CASE i = 0
    BY <2>1, <1>3
  <2>2. CASE i # 0
    <3>1. i \in 1 .. n
      BY <2>2, <1>1, <1>2
    <3> QED
      BY <2>2, <3>1, <1>3
  <2> QED
    BY <2>1, <2>2
<1> HIDE DEF p
<1>14. \A j \in 1 .. n : M[s[j]].value = N[s[j]].value
          /\ M[s[j]].next = IF j = i THEN new ELSE N[s[j]].next
  BY <1>3, <1>12, <1>13
<1>15. M[new].value = x /\ M[new].next = NextAt(s, n, i)
  BY <1>10
<1>16. Threaded(t, H \cup {new}, n + 1)
  BY <1>1, <1>4, <1>5, <1>7, ThreadGrows
<1>17. Forwards(t, M, n + 1)
  BY <1>1, <1>4, <1>5, <1>14, <1>15, ForwardsGrow
<1>18. SinglyNodes(M, H \cup {new})
  <2>1. DOMAIN M = H \cup {new}
    BY <1>6
  <2>2. M[new] \in [value : Pointer, next : H \cup {new} \cup {NULL}]
    BY <1>8, <1>10
  <2>3. M = [m \in H \cup {new} |-> M[m]]
    BY <1>6
  <2> QED
    BY <2>2, <2>3, <1>12 DEF SinglyNodes
<1>19. Heap' = H \cup {new}
  BY <1>1, <1>6 DEF Heap
<1>20. IsFiniteSet(H \cup {new}) /\ Cardinality(H \cup {new}) = n + 1 /\ H \cup {new} \subseteq Address
  <2>1. IsFiniteSet(H) /\ Cardinality(H) = n /\ H \subseteq Address
    BY <1>1 DEF SinglyHolds
  <2> QED
    BY <2>1, <1>7, FS_AddElement
<1>21. first' = t[1]
  <2>1. CASE i = 0
    BY <2>1, <1>2, <1>5 DEF GrownAt
  <2>2. CASE i # 0
    <3>1. 1 < i + 1 /\ 1 \in 1 .. n + 1 /\ n # 0
      BY <2>2, <1>1, <1>2
    <3>2. t[1] = s[1]
      BY <3>1, <1>5 DEF GrownAt
    <3>3. first = s[1]
      BY <3>1, <1>1 DEF SinglyHolds
    <3> QED
      BY <2>2, <3>2, <3>3
  <2> QED
    BY <2>1, <2>2
<1>22. SinglyHolds(t)'
  <2>1. result'.ok = TRUE /\ size' = n + 1 /\ size' # 0
    BY <1>1, <1>2 DEF Returns
  <2> QED
    BY <2>1, <1>1, <1>16, <1>17, <1>18, <1>19, <1>20, <1>21 DEF SinglyHolds
<1>23. Listed' = Along(t, M, n + 1) /\ Listed = Along(s, N, n) /\ SinglyInv'
  BY <1>1, <1>22, SinglyIs, SinglyNextIs
<1>24. Grows(Listed, Listed', i, x)
  <2>1. i \in 0 .. n /\ n \in Nat
    BY <1>1, <1>2
  <2>2. \A j \in 1 .. n : N[s[j]].value \in Pointer
    BY <1>3
  <2>3. M[new].value = x /\ \A j \in 1 .. n : M[s[j]].value = N[s[j]].value
    BY <1>14, <1>15
  <2>4. Grows(Along(s, N, n), Along(t, M, n + 1), i, x)
    BY <2>1, <2>2, <2>3, <1>5, AlongGrows
  <2> QED
    BY <2>4, <1>23
<1> QED
  BY <1>23, <1>24, AddStep

LEMMA SinglyShrinks ==
  ASSUME InSingly, NEW s, SinglyHolds(s), NEW i \in 0 .. size - 1, NEW p, NEW q,
         i = 0 => p = NULL, i # 0 => p = s[i] /\ q = NextAt(s, size, i + 1),
         NEW op, TakesAt(op, i), live, live' = live, size' = size - 1,
         first' = IF i = 0 THEN NextAt(s, size, 1) ELSE first,
         nodes' = Singly!Without(s[i + 1], p, q),
         Returns(op, i, TRUE, nodes[s[i + 1]].value)
  PROVE  SinglyInv' /\ ListPromise!Next
<1>0. PICK t : t = [j \in 1 .. size - 1 |-> IF j < i + 1 THEN s[j] ELSE s[j + 1]]
  OBVIOUS
<1>1. PICK n, H, N, M, gone : n = size /\ H = Heap /\ N = nodes /\ M = nodes' /\ gone = s[i + 1]
  OBVIOUS
<1>2. n \in Nat /\ n # 0 /\ NULL \notin H /\ Singly!Heap = H /\ i + 1 \in 1 .. n /\ n - 1 \in Nat
  BY <1>1, SinglyFacts
<1>3. /\ \A j \in 1 .. n : s[j] \in H /\ s[j] # NULL /\ N[s[j]].value \in Pointer
      /\ \A j, k \in 1 .. n : s[j] = s[k] => j = k
  BY <1>1, SinglyFacts
<1>4. Threaded(s, H, n) /\ SinglyNodes(N, H) /\ Forwards(s, N, n)
  BY <1>1 DEF SinglyHolds
<1>5. ShrunkAt(t, s, n, i)
  BY <1>0, <1>1 DEF ShrunkAt
<1>6. M = [m \in H \ {gone} |-> IF m = p THEN [N[m] EXCEPT !.next = q] ELSE N[m]]
  BY <1>1, <1>2 DEF Singly!Without
<1>7. \A m \in H : N[m] \in [value : Pointer, next : H \cup {NULL}]
  BY <1>4 DEF SinglyNodes
<1>8. \A j \in 1 .. n : s[j] = p <=> (i # 0 /\ j = i)
  <2>1. CASE i = 0
    BY <2>1, <1>3
  <2>2. CASE i # 0
    <3>1. i \in 1 .. n
      BY <2>2, <1>1, <1>2
    <3> QED
      BY <2>2, <3>1, <1>3
  <2> QED
    BY <2>1, <2>2
<1>9. \A m \in H \ {gone} : /\ M[m].value = N[m].value /\ M[m].value \in Pointer
                            /\ M[m].next = IF m = p THEN q ELSE N[m].next
                            /\ DOMAIN M[m] = {"value", "next"}
                            /\ M[m] = [value |-> M[m].value, next |-> M[m].next]
  BY <1>6, <1>7
<1>10. \A j \in 1 .. n : j # i + 1 => s[j] \in H \ {gone}
  BY <1>1, <1>2, <1>3
<1>11. \A j \in 1 .. n : j # i + 1 =>
         /\ M[s[j]].value = N[s[j]].value
         /\ M[s[j]].next = IF j = i THEN NextAt(s, n, i + 1) ELSE N[s[j]].next
  <2>1. ASSUME NEW j \in 1 .. n, j # i + 1
        PROVE  /\ M[s[j]].value = N[s[j]].value
               /\ M[s[j]].next = IF j = i THEN NextAt(s, n, i + 1) ELSE N[s[j]].next
    <3>1. /\ M[s[j]].value = N[s[j]].value
          /\ M[s[j]].next = IF s[j] = p THEN q ELSE N[s[j]].next
      BY <2>1, <1>9, <1>10
    <3>2. j # 0
      OBVIOUS
    <3> QED
      BY <3>1, <3>2, <1>1, <1>8
  <2> QED
    BY <2>1
<1>12. Threaded(t, H \ {gone}, n - 1)
  BY <1>1, <1>4, <1>5, ThreadShrinks
<1>13. Forwards(t, M, n - 1)
  BY <1>1, <1>4, <1>5, <1>11, ForwardsShrink
<1>14. \A j \in 1 .. n - 1 : t[j] \in H \ {gone} /\ (j # n - 1 => t[j + 1] \in H \ {gone})
  <2>1. \A j \in 1 .. n - 1 : t[j] \in H \ {gone}
    BY <1>12 DEF Threaded
  <2>2. \A j \in 1 .. n - 1 : j # n - 1 => j + 1 \in 1 .. n - 1
    BY <1>2
  <2> QED
    BY <2>1, <2>2
<1>15. SinglyNodes(M, H \ {gone})
  <2>1. ASSUME NEW m \in H \ {gone} PROVE M[m] \in [value : Pointer, next : (H \ {gone}) \cup {NULL}]
    <3>1. PICK j \in 1 .. n - 1 : m = t[j]
      BY <1>12 DEF Threaded
    <3>2. M[m].next = NextAt(t, n - 1, j)
      BY <3>1, <1>13 DEF Forwards
    <3>3. M[m].next \in (H \ {gone}) \cup {NULL}
      BY <3>2, <1>14 DEF NextAt
    <3>4. PICK v, w : v = M[m].value /\ w = M[m].next
      OBVIOUS
    <3>5. M[m] = [value |-> v, next |-> w] /\ v \in Pointer
      BY <3>4, <1>9
    <3>6. w \in (H \ {gone}) \cup {NULL}
      BY <3>3, <3>4
    <3>7. [value |-> v, next |-> w] \in [value : Pointer, next : (H \ {gone}) \cup {NULL}]
      BY <3>5, <3>6
    <3> QED
      BY <3>5, <3>7
  <2>2. M = [m \in H \ {gone} |-> M[m]]
    BY <1>6
  <2> QED
    BY <2>1, <2>2 DEF SinglyNodes
<1>16. Heap' = H \ {gone}
  BY <1>1, <1>6 DEF Heap
<1>17. IsFiniteSet(H \ {gone}) /\ Cardinality(H \ {gone}) = n - 1 /\ H \ {gone} \subseteq Address
  <2>1. IsFiniteSet(H) /\ Cardinality(H) = n /\ H \subseteq Address
    BY <1>1 DEF SinglyHolds
  <2>2. gone \in H
    BY <1>1, <1>2, <1>3
  <2> QED
    BY <2>1, <2>2, FS_RemoveElement
<1>18. first' = IF n - 1 = 0 THEN NULL ELSE t[1]
  <2>1. CASE i = 0 /\ n = 1
    BY <2>1, <1>1 DEF NextAt
  <2>2. CASE i = 0 /\ n # 1
    <3>1. 1 \in 1 .. n - 1 /\ 1 + 1 = 2 /\ ~(1 < i + 1)
      BY <2>2, <1>2
    <3>2. t[1] = s[2]
      BY <3>1, <1>5 DEF GrownAt, ShrunkAt
    <3>3. first' = s[2]
      BY <2>2, <3>1, <1>1 DEF NextAt
    <3> QED
      BY <2>2, <3>2, <3>3, <1>2
  <2>3. CASE i # 0
    <3>1. 1 < i + 1 /\ 1 \in 1 .. n - 1
      BY <2>3, <1>1, <1>2
    <3>2. t[1] = s[1]
      BY <3>1, <1>5 DEF ShrunkAt
    <3>3. first = s[1]
      BY <1>1, <1>2 DEF SinglyHolds
    <3> QED
      BY <2>3, <3>1, <3>2, <3>3
  <2> QED
    BY <2>1, <2>2, <2>3
<1>19. SinglyHolds(t)'
  <2>1. result'.ok = TRUE /\ size' = n - 1
    BY <1>1 DEF Returns
  <2> QED
    BY <2>1, <1>1, <1>12, <1>13, <1>15, <1>16, <1>17, <1>18 DEF SinglyHolds
<1>20. Listed' = Along(t, M, n - 1) /\ Listed = Along(s, N, n) /\ SinglyInv'
  BY <1>1, <1>19, SinglyIs, SinglyNextIs
<1>21. Shrinks(Listed, Listed', i) /\ Listed[i + 1] = N[gone].value
  <2>1. i \in 0 .. n - 1 /\ \A j \in 1 .. n : j # i + 1 => M[s[j]].value = N[s[j]].value
    BY <1>1, <1>11
  <2>2. \A j \in 1 .. n : N[s[j]].value \in Pointer
    BY <1>3
  <2>3. Shrinks(Along(s, N, n), Along(t, M, n - 1), i) /\ Along(s, N, n)[i + 1] = N[s[i + 1]].value
    BY <2>1, <2>2, <1>2, <1>5, AlongShrinks
  <2> QED
    BY <2>3, <1>1, <1>20
<1> QED
  BY <1>1, <1>20, <1>21, TakeStep

LEMMA SinglyRefuses ==
  ASSUME InSingly, NEW s, SinglyHolds(s), UNCHANGED <<live, size, first, nodes>>,
         NEW op, NEW i \in Nat, NotThere(op, i), Returns(op, i, FALSE, Untouched)
  PROVE  SinglyInv' /\ ListPromise!Next
<1>1. result'.ok = FALSE /\ Heap' = Heap
  BY DEF Returns, Heap
<1>2. SinglyHolds(s)'
  BY <1>1 DEF SinglyHolds
<1>3. SinglyInv' /\ Listed' = Listed /\ Listed \in Seq(Pointer)
  BY <1>2, SinglyIs, SinglyNextIs
<1> QED
  BY <1>3, RefuseStep

LEMMA SinglyResets ==
  ASSUME InSingly, live' \in BOOLEAN, size' = 0, first' = NULL, nodes' = [m \in {} |-> NULL],
         NEW op \in {"create", "destroy"}, Returns(op, 0, TRUE, Untouched)
  PROVE  SinglyInv' /\ ListPromise!Next
<1>1. result'.ok = TRUE
  BY DEF Returns
<1>2. PICK M : M = [m \in {} |-> NULL]
  OBVIOUS
<1>3. Threaded(<<>>, {}, 0) /\ Forwards(<<>>, M, 0) /\ SinglyNodes(M, {})
  BY <1>2 DEF Threaded, Forwards, SinglyNodes
<1>4. IsFiniteSet({}) /\ Cardinality({}) = 0
  BY FS_EmptySet
<1>5. Heap' = {} /\ nodes' = M
  BY <1>2 DEF Heap
<1>6. SinglyHolds(<<>>)'
  BY <1>1, <1>3, <1>4, <1>5 DEF SinglyHolds
<1>7. SinglyInv' /\ Listed' = <<>>
  BY <1>6, SinglyNextIs DEF Along
<1> QED
  BY <1>7, ResetStep

LEMMA SinglyAdds ==
  ASSUME InSingly, NEW s, SinglyHolds(s), NEW x \in Pointer, NEW new \in Address \ Heap,
         \/ \E op \in {"push_front", "insert"} : Singly!AddHead(op, x, new)
         \/ Singly!PushBack(x, new)
         \/ \E i \in 0 .. size : Singly!InsertInside(i, x, new)
  PROVE  SinglyInv' /\ ListPromise!Next
<1>1. size \in Nat /\ first = NextAt(s, size, 0) /\ Len(Listed) = size
  BY SinglyFacts, SinglyIs
<1>2. ASSUME NEW op \in {"push_front", "insert"}, Singly!AddHead(op, x, new)
      PROVE  SinglyInv' /\ ListPromise!Next
  <2>1. nodes' = Singly!With(new, x, NextAt(s, size, 0), IF 0 = 0 THEN NULL ELSE s[0])
    BY <1>1, <1>2 DEF Singly!AddHead
  <2>2. /\ live /\ live' = live /\ size' = size + 1 /\ first' = IF 0 = 0 THEN new ELSE first
        /\ Returns(op, 0, TRUE, Untouched) /\ AddsAt(op, 0) /\ 0 \in 0 .. size
    BY <1>1, <1>2 DEF Singly!AddHead, Singly!Answer, Returns, AddsAt
  <2> QED
    BY <2>1, <2>2, SinglyGrows
<1>3. ASSUME Singly!PushBack(x, new)
      PROVE  SinglyInv' /\ ListPromise!Next
  <2>1. (IF size = 0 THEN NULL ELSE Singly!NodeAt(size - 1)) = IF size = 0 THEN NULL ELSE s[size]
    <3>1. size # 0 => size - 1 \in 0 .. size - 1 /\ (size - 1) + 1 = size
      BY <1>1
    <3> QED
      BY <3>1, SinglyWalk
  <2>2. NextAt(s, size, size) = NULL
    BY DEF NextAt
  <2>3. nodes' = Singly!With(new, x, NextAt(s, size, size), IF size = 0 THEN NULL ELSE s[size])
    BY <1>3, <2>1, <2>2 DEF Singly!PushBack
  <2>4. /\ live /\ live' = live /\ size' = size + 1 /\ first' = IF size = 0 THEN new ELSE first
        /\ Returns("push_back", size, TRUE, Untouched) /\ AddsAt("push_back", size) /\ size \in 0 .. size
    BY <1>1, <1>3 DEF Singly!PushBack, Singly!Answer, Returns, AddsAt
  <2> QED
    BY <2>3, <2>4, SinglyGrows
<1>4. ASSUME NEW i \in 0 .. size, Singly!InsertInside(i, x, new)
      PROVE  SinglyInv' /\ ListPromise!Next
  <2>1. i \in 1 .. size /\ i # 0 /\ i - 1 \in 0 .. size - 1 /\ (i - 1) + 1 = i
    BY <1>1, <1>4 DEF Singly!InsertInside
  <2>2. Singly!Before(i) = s[i]
    BY <2>1, SinglyWalk DEF Singly!Before
  <2>3. Singly!NextOf(s[i]) = NextAt(s, size, i)
    BY <2>1, SinglyFacts
  <2>4. nodes' = Singly!With(new, x, NextAt(s, size, i), IF i = 0 THEN NULL ELSE s[i])
    BY <1>4, <2>1, <2>2, <2>3 DEF Singly!InsertInside
  <2>5. /\ live /\ live' = live /\ size' = size + 1 /\ first' = IF i = 0 THEN new ELSE first
        /\ Returns("insert", i, TRUE, Untouched) /\ AddsAt("insert", i)
    BY <1>4, <2>1 DEF Singly!InsertInside, Singly!Answer, Returns, AddsAt
  <2> QED
    BY <2>4, <2>5, SinglyGrows
<1> QED
  BY <1>2, <1>3, <1>4

LEMMA SinglyTakes ==
  ASSUME InSingly, NEW s, SinglyHolds(s),
         \/ \E op \in {"pop_front", "remove"} : Singly!TakeHead(op)
         \/ Singly!PopBack
         \/ \E i \in 0 .. size : Singly!RemoveInside(i)
  PROVE  SinglyInv' /\ ListPromise!Next
<1>1. size \in Nat /\ Len(Listed) = size
  BY SinglyFacts, SinglyIs
<1>2. ASSUME NEW op \in {"pop_front", "remove"}, Singly!TakeHead(op)
      PROVE  SinglyInv' /\ ListPromise!Next
  <2>1. size # 0 /\ 0 \in 0 .. size - 1 /\ 1 \in 1 .. size /\ 0 + 1 = 1
    BY <1>1, <1>2 DEF Singly!TakeHead
  <2>2. first = s[1] /\ Singly!NextOf(s[1]) = NextAt(s, size, 1)
    BY <2>1, SinglyFacts DEF SinglyHolds
  <2>3. nodes' = Singly!Without(s[0 + 1], NULL, NULL)
    BY <1>2, <2>1, <2>2 DEF Singly!TakeHead
  <2>4. /\ live /\ live' = live /\ size' = size - 1
        /\ first' = IF 0 = 0 THEN NextAt(s, size, 1) ELSE first
    BY <1>2, <2>2 DEF Singly!TakeHead
  <2>5. Returns(op, 0, TRUE, nodes[s[0 + 1]].value) /\ TakesAt(op, 0)
    BY <1>1, <1>2, <2>1, <2>2 DEF Singly!TakeHead, Singly!Answer, Returns, TakesAt
  <2>6. /\ 0 = 0 => NULL = NULL
        /\ 0 # 0 => NULL = s[0] /\ NULL = NextAt(s, size, 0 + 1)
    OBVIOUS
  <2> HIDE DEF Returns
  <2> QED
    BY <2>1, <2>3, <2>4, <2>5, <2>6, SinglyShrinks
<1>3. ASSUME Singly!PopBack
      PROVE  SinglyInv' /\ ListPromise!Next
  <2> DEFINE i == size - 1
  <2>1. size # 0 /\ i \in 0 .. size - 1 /\ i \in Nat /\ i + 1 = size /\ (i = 0 <=> size = 1)
    BY <1>1, <1>3 DEF Singly!PopBack
  <2>2. Singly!Forelast = IF size = 1 THEN NULL ELSE s[i]
    <3>1. size # 1 => size - 2 \in 0 .. size - 1 /\ (size - 2) + 1 = i
      BY <2>1
    <3> QED
      BY <3>1, SinglyWalk DEF Singly!Forelast
  <2>3. (IF size = 1 THEN first ELSE Singly!NextOf(Singly!Forelast)) = s[i + 1]
    <3>1. CASE size = 1
      BY <2>1, <3>1 DEF SinglyHolds
    <3>2. CASE size # 1
      <4>1. i \in 1 .. size /\ i # size
        BY <2>1, <3>2
      <4>2. Singly!NextOf(s[i]) = s[i + 1]
        BY <4>1, SinglyFacts DEF NextAt
      <4> QED
        BY <2>2, <3>2, <4>2
    <3> QED
      BY <3>1, <3>2
  <2>4. /\ live /\ live' = live /\ size' = size - 1
        /\ first' = IF size = 1 THEN NULL ELSE first
        /\ nodes' = Singly!Without(s[i + 1], Singly!Forelast, NULL)
        /\ Returns("pop_back", i, TRUE, nodes[s[i + 1]].value)
    BY <1>3, <2>3 DEF Singly!PopBack, Singly!Shortened, Singly!Answer, Returns
  <2>5. /\ i = 0 => Singly!Forelast = NULL
        /\ i # 0 => Singly!Forelast = s[i] /\ NULL = NextAt(s, size, i + 1)
    BY <2>1, <2>2 DEF NextAt
  <2>6. first' = IF i = 0 THEN NextAt(s, size, 1) ELSE first
    BY <2>1, <2>4 DEF NextAt
  <2>7. TakesAt("pop_back", i)
    BY <1>1 DEF TakesAt
  <2> HIDE DEF i
  <2> QED
    BY <2>1, <2>4, <2>5, <2>6, <2>7, SinglyShrinks
<1>4. ASSUME NEW i \in 0 .. size, Singly!RemoveInside(i)
      PROVE  SinglyInv' /\ ListPromise!Next
  <2>1. /\ i \in 1 .. size - 1 /\ i # 0 /\ i - 1 \in 0 .. size - 1 /\ (i - 1) + 1 = i
        /\ i \in 0 .. size - 1 /\ i \in 1 .. size /\ i + 1 \in 1 .. size /\ i # size
    BY <1>1, <1>4 DEF Singly!RemoveInside
  <2>2. Singly!Before(i) = s[i]
    BY <2>1, SinglyWalk DEF Singly!Before
  <2>3. Singly!NextOf(s[i]) = s[i + 1] /\ Singly!NextOf(s[i + 1]) = NextAt(s, size, i + 1)
    <3>1. /\ Singly!NextOf(s[i]) = NextAt(s, size, i)
          /\ Singly!NextOf(s[i + 1]) = NextAt(s, size, i + 1)
      BY <2>1, SinglyFacts
    <3> QED
      BY <2>1, <3>1 DEF NextAt
  <2>4. /\ nodes' = Singly!Without(s[i + 1], s[i], NextAt(s, size, i + 1))
        /\ Returns("remove", i, TRUE, nodes[s[i + 1]].value)
    BY <1>4, <2>2, <2>3 DEF Singly!RemoveInside, Singly!After, Singly!Answer, Returns
  <2>5. /\ live /\ live' = live /\ size' = size - 1
        /\ TakesAt("remove", i)
        /\ first' = IF i = 0 THEN NextAt(s, size, 1) ELSE first
    BY <1>4, <2>1 DEF Singly!RemoveInside, TakesAt
  <2> QED
    BY <2>1, <2>4, <2>5, SinglyShrinks
<1> QED
  BY <1>2, <1>3, <1>4

LEMMA SinglyNext ==
  ASSUME InSingly, SinglyInv, Singly!Next
  PROVE  SinglyInv' /\ ListPromise!Next
<1>0. PICK s : SinglyHolds(s)
  BY DEF SinglyInv
<1>1. size \in Nat /\ Len(Listed) = size
  BY <1>0, SinglyFacts, SinglyIs
<1>2. CASE Singly!Create
  <2>1. ~live /\ size = 0 /\ first = NULL /\ nodes = [m \in {} |-> NULL]
    <3>1. ~live /\ size = 0 /\ first = NULL /\ Heap = {}
      BY <1>0, <1>2 DEF Singly!Create, SinglyHolds, Threaded
    <3>2. nodes \in [{} -> [value : Pointer, next : {} \cup {NULL}]]
      BY <1>0, <3>1 DEF SinglyHolds, SinglyNodes
    <3> QED
      BY <3>1, <3>2
  <2>2. live' = TRUE /\ size' = 0 /\ first' = NULL /\ nodes' = [m \in {} |-> NULL]
    BY <1>2, <2>1 DEF Singly!Create
  <2>3. Returns("create", 0, TRUE, Untouched)
    BY <1>2 DEF Singly!Create, Singly!Answer, Returns
  <2> QED
    BY <2>2, <2>3, SinglyResets
<1>3. CASE Singly!Destroy
  <2>1. live' = FALSE /\ size' = 0 /\ first' = NULL /\ nodes' = [m \in {} |-> NULL]
    <3>1. Singly!Heap \ Singly!Freed = {}
      BY <1>0, SinglyFacts, SinglyFreesAll
    <3>2. nodes' = [m \in Singly!Heap \ Singly!Freed |-> nodes[m]]
      BY <1>3 DEF Singly!Destroy
    <3>3. nodes' = [m \in {} |-> nodes[m]]
      BY <3>1, <3>2
    <3> QED
      BY <1>3, <3>3 DEF Singly!Destroy
  <2>2. Returns("destroy", 0, TRUE, Untouched)
    BY <1>3 DEF Singly!Destroy, Singly!Answer, Returns
  <2> QED
    BY <2>1, <2>2, SinglyResets
<1>4. CASE \E x \in Pointer, new \in Address \ Singly!Heap :
             \/ Singly!AddHead("push_front", x, new) \/ Singly!PushBack(x, new)
             \/ \E i \in 0 .. size : Singly!Insert(i, x, new)
  <2>1. Singly!Heap = Heap
    BY <1>0, SinglyFacts
  <2>2. PICK x \in Pointer, new \in Address \ Heap :
             \/ Singly!AddHead("push_front", x, new) \/ Singly!PushBack(x, new)
             \/ \E i \in 0 .. size : Singly!Insert(i, x, new)
    BY <1>4, <2>1
  <2>3. \/ \E op \in {"push_front", "insert"} : Singly!AddHead(op, x, new)
        \/ Singly!PushBack(x, new)
        \/ \E i \in 0 .. size : Singly!InsertInside(i, x, new)
    BY <2>2 DEF Singly!Insert
  <2> QED
    BY <1>0, <2>3, SinglyAdds
<1>5. CASE \/ Singly!TakeHead("pop_front") \/ Singly!PopBack
           \/ \E i \in 0 .. size : Singly!Remove(i)
  <2>1. \/ \E op \in {"pop_front", "remove"} : Singly!TakeHead(op)
        \/ Singly!PopBack
        \/ \E i \in 0 .. size : Singly!RemoveInside(i)
    BY <1>5 DEF Singly!Remove
  <2> QED
    BY <1>0, <2>1, SinglyTakes
<1>6. CASE \/ Singly!CreateFails
           \/ Singly!AddFails("push_front", 0) \/ Singly!AddFails("push_back", size)
           \/ \E i \in 0 .. size + 1 : Singly!AddFails("insert", i)
           \/ \E op \in {"pop_front", "pop_back"} : Singly!PopFails(op)
           \/ \E i \in 0 .. size : Singly!RemoveFails(i)
  <2>1. PICK op, i : Singly!Fail(op, i) /\ i \in Nat /\ NotThere(op, i)
    <3>1. CASE Singly!CreateFails
      BY <3>1 DEF Singly!CreateFails, NotThere
    <3>2. CASE Singly!AddFails("push_front", 0) \/ Singly!AddFails("push_back", size)
      BY <3>2, <1>1 DEF Singly!AddFails, NotThere
    <3>3. CASE \E i \in 0 .. size + 1 : Singly!AddFails("insert", i)
      BY <3>3, <1>1 DEF Singly!AddFails, NotThere
    <3>4. CASE \E op \in {"pop_front", "pop_back"} : Singly!PopFails(op)
      BY <3>4, <1>1 DEF Singly!PopFails, NotThere
    <3>5. CASE \E i \in 0 .. size : Singly!RemoveFails(i)
      BY <3>5, <1>1 DEF Singly!RemoveFails, NotThere
    <3> QED
      BY <1>6, <3>1, <3>2, <3>3, <3>4, <3>5
  <2>2. UNCHANGED <<live, size, first, nodes>> /\ Returns(op, i, FALSE, Untouched)
    BY <2>1 DEF Singly!Fail, Singly!list, Singly!Answer, Returns
  <2> QED
    BY <1>0, <2>1, <2>2, SinglyRefuses
<1> QED
  BY <1>2, <1>3, <1>4, <1>5, <1>6 DEF Singly!Next

------------------------------------------------------------------------------
(* ----------------------------- doubly linked ------------------------------ *)
DoublyNodes(N, H) == N \in [H -> [value : Pointer, prev : H \cup {NULL}, next : H \cup {NULL}]]

DoublyHolds(s) ==
  /\ live \in BOOLEAN /\ result.ok \in BOOLEAN /\ (~live => size = 0)
  /\ Threaded(s, Heap, size)
  /\ IsFiniteSet(Heap) /\ Cardinality(Heap) = size /\ Heap \subseteq Address
  /\ first = IF size = 0 THEN NULL ELSE s[1]
  /\ last = IF size = 0 THEN NULL ELSE s[size]
  /\ DoublyNodes(nodes, Heap) /\ Forwards(s, nodes, size) /\ Backwards(s, nodes, size)

LEMMA DoublyFacts ==
  ASSUME NEW s, DoublyHolds(s)
  PROVE  /\ size \in Nat /\ NULL \notin Heap /\ Doubly!Heap = Heap
         /\ \A j \in 1 .. size : /\ s[j] \in Heap /\ s[j] # NULL
                                 /\ Doubly!NextOf(s[j]) = NextAt(s, size, j)
                                 /\ Doubly!PrevOf(s[j]) = PrevAt(s, j)
                                 /\ nodes[s[j]].value \in Pointer
         /\ \A j, k \in 1 .. size : s[j] = s[k] => j = k
         /\ first = NextAt(s, size, 0)
<1>1. size \in Nat /\ NULL \notin Heap
  BY AddressIsNotNull DEF DoublyHolds, Threaded
<1>2. Doubly!Heap = Heap
  BY DEF Doubly!Heap, Heap
<1>3. ASSUME NEW j \in 1 .. size
      PROVE  /\ s[j] \in Heap /\ s[j] # NULL
             /\ Doubly!NextOf(s[j]) = NextAt(s, size, j) /\ Doubly!PrevOf(s[j]) = PrevAt(s, j)
             /\ nodes[s[j]].value \in Pointer
  <2>1. s[j] \in Heap
    BY DEF DoublyHolds, Threaded
  <2>2. nodes[s[j]] \in [value : Pointer, prev : Heap \cup {NULL}, next : Heap \cup {NULL}]
    BY <2>1 DEF DoublyHolds, DoublyNodes
  <2>3. nodes[s[j]].next = NextAt(s, size, j) /\ nodes[s[j]].prev = PrevAt(s, j)
    BY DEF DoublyHolds, Forwards, Backwards
  <2> QED
    BY <1>1, <1>2, <2>1, <2>2, <2>3 DEF Doubly!NextOf, Doubly!PrevOf
<1>4. \A j, k \in 1 .. size : s[j] = s[k] => j = k
  BY DEF DoublyHolds, Threaded
<1>5. first = NextAt(s, size, 0)
  BY <1>1 DEF DoublyHolds, NextAt
<1> QED
  BY <1>1, <1>2, <1>3, <1>4, <1>5

LEMMA DoublyForward ==
  ASSUME NEW s, DoublyHolds(s), NEW i \in 0 .. size - 1
  PROVE  Doubly!Forward[i] = s[i + 1]
<1> DEFINE Walks(f) == f = [n \in 0 .. i |-> IF n = 0 THEN first ELSE Doubly!NextOf(f[n - 1])]
           g == [n \in 0 .. i |-> s[n + 1]]
           f == CHOOSE f : Walks(f)
           S == {k \in 0 .. i : f[k] = s[k + 1]}
<1>1. size \in Nat /\ size # 0 /\ i \in Nat
  BY DoublyFacts
<1>2. first = s[1] /\ \A n \in 1 .. i : Doubly!NextOf(s[n]) = s[n + 1]
  <2>1. first = s[1]
    BY <1>1 DEF DoublyHolds
  <2>2. ASSUME NEW n \in 1 .. i PROVE Doubly!NextOf(s[n]) = s[n + 1]
    <3>1. n \in 1 .. size /\ n # size
      BY <1>1
    <3> QED
      BY <3>1, DoublyFacts DEF NextAt
  <2> QED
    BY <2>1, <2>2
<1>3. Walks(g)
  <2>1. ASSUME NEW n \in 0 .. i PROVE g[n] = IF n = 0 THEN first ELSE Doubly!NextOf(g[n - 1])
    <3>1. CASE n = 0
      BY <3>1, <1>2
    <3>2. CASE n # 0
      <4>1. n \in 1 .. i /\ n - 1 \in 0 .. i /\ (n - 1) + 1 = n
        BY <3>2
      <4> QED
        BY <3>2, <4>1, <1>2
    <3> QED
      BY <3>1, <3>2
  <2>2. g = [n \in 0 .. i |-> g[n]]
    OBVIOUS
  <2> HIDE DEF g
  <2> QED
    BY <2>1, <2>2
<1>4. Walks(f)
  <2> HIDE DEF Walks, g
  <2> QED
    BY <1>3
<1>5. Doubly!Forward[i] = f[i]
  BY DEF Doubly!Forward
<1> HIDE DEF f, g
<1>6. 0 \in S
  BY <1>1, <1>2, <1>4
<1>7. ASSUME NEW k \in 1 .. i, k - 1 \in S PROVE k \in S
  <2>1. f[k - 1] = s[k]
    BY <1>7
  <2>2. f[k] = Doubly!NextOf(f[k - 1])
    BY <1>4
  <2> QED
    BY <1>2, <2>1, <2>2
<1> HIDE DEF S
<1>8. \A k \in 0 .. i : k \in S
  BY <1>1, <1>6, <1>7, Upward
<1>9. i \in S
  BY <1>1, <1>8
<1> QED
  BY <1>5, <1>9 DEF S

LEMMA DoublyBackward ==
  ASSUME NEW s, DoublyHolds(s), NEW i \in 0 .. size - 1
  PROVE  Doubly!Backward[i] = s[i + 1]
<1> DEFINE Walks(f) == f = [n \in i .. size - 1 |->
                              IF n = size - 1 THEN last ELSE Doubly!PrevOf(f[n + 1])]
           g == [n \in i .. size - 1 |-> s[n + 1]]
           f == CHOOSE f : Walks(f)
<1>1. size \in Nat /\ size # 0 /\ i \in Nat
  BY DoublyFacts
<1>2. last = s[size] /\ \A n \in i .. size - 2 : Doubly!PrevOf(s[n + 2]) = s[n + 1]
  <2>1. last = s[size]
    BY <1>1 DEF DoublyHolds
  <2>2. ASSUME NEW n \in i .. size - 2 PROVE Doubly!PrevOf(s[n + 2]) = s[n + 1]
    <3>1. n + 2 \in 1 .. size /\ n + 2 # 1 /\ (n + 2) - 1 = n + 1
      BY <1>1
    <3> QED
      BY <3>1, DoublyFacts DEF PrevAt
  <2> QED
    BY <2>1, <2>2
<1>3. Walks(g)
  <2>1. ASSUME NEW n \in i .. size - 1
        PROVE  g[n] = IF n = size - 1 THEN last ELSE Doubly!PrevOf(g[n + 1])
    <3>1. CASE n = size - 1
      <4>1. n + 1 = size
        BY <3>1, <1>1
      <4> QED
        BY <3>1, <4>1, <1>2
    <3>2. CASE n # size - 1
      <4>1. n \in i .. size - 2 /\ n + 1 \in i .. size - 1 /\ (n + 1) + 1 = n + 2
        BY <3>2, <1>1
      <4> QED
        BY <3>2, <4>1, <1>2
    <3> QED
      BY <3>1, <3>2
  <2>2. g = [n \in i .. size - 1 |-> g[n]]
    OBVIOUS
  <2> HIDE DEF g
  <2> QED
    BY <2>1, <2>2
<1>4. Walks(f)
  <2> HIDE DEF Walks, g
  <2> QED
    BY <1>3
<1>5. Doubly!Backward[i] = f[i]
  BY DEF Doubly!Backward
<1> HIDE DEF f, g
<1>6. PICK z : z = size - 1 - i /\ z \in Nat
  BY <1>1
<1> DEFINE S == {k \in 0 .. z : f[size - 1 - k] = s[size - k]}
<1>7. 0 \in S
  <2>1. size - 1 \in i .. size - 1 /\ size - 1 - 0 = size - 1 /\ size - 0 = size
    BY <1>1
  <2> QED
    BY <2>1, <1>1, <1>2, <1>4, <1>6
<1>8. ASSUME NEW k \in 1 .. z, k - 1 \in S PROVE k \in S
  <2>1. PICK n : n = size - 1 - k
    OBVIOUS
  <2>2. /\ n \in i .. size - 2 /\ n \in i .. size - 1 /\ n # size - 1
        /\ size - 1 - (k - 1) = n + 1 /\ size - (k - 1) = n + 2 /\ size - k = n + 1
    BY <2>1, <1>1, <1>6
  <2>3. f[n + 1] = s[n + 2]
    BY <1>8, <2>2
  <2>4. f[n] = Doubly!PrevOf(f[n + 1])
    BY <1>4, <2>2
  <2>5. f[n] = s[n + 1]
    BY <2>2, <2>3, <2>4, <1>2
  <2> QED
    BY <2>1, <2>2, <2>5
<1> HIDE DEF S
<1>9. \A k \in 0 .. z : k \in S
  BY <1>6, <1>7, <1>8, Upward
<1>10. z \in S /\ size - 1 - z = i /\ size - z = i + 1
  BY <1>1, <1>6, <1>9
<1> QED
  BY <1>5, <1>10 DEF S

LEMMA DoublyWalk ==
  ASSUME NEW s, DoublyHolds(s), NEW i \in 0 .. size - 1
  PROVE  Doubly!NodeAt(i) = s[i + 1]
BY DoublyForward, DoublyBackward DEF Doubly!NodeAt

LEMMA DoublyCardinality == \A S : Doubly!Cardinality(S) = Cardinality(S)
BY DEF Doubly!Cardinality, Cardinality

LEMMA DoublyReaches ==
  ASSUME NEW s, DoublyHolds(s)
  PROVE  Doubly!Reachable = Heap
<1>1. size \in Nat
  BY DoublyFacts
<1>2. DOMAIN Doubly!Forward = 0 .. size - 1
  BY DEF Doubly!Forward
<1>3. ASSUME NEW i \in 0 .. size - 1 PROVE Doubly!Forward[i] \in Heap
  <2>1. i + 1 \in 1 .. size
    BY <1>1
  <2> QED
    BY <2>1, DoublyFacts, DoublyForward
<1>4. ASSUME NEW m \in Heap PROVE \E i \in 0 .. size - 1 : m = Doubly!Forward[i]
  <2>1. PICK j \in 1 .. size : m = s[j]
    BY DEF DoublyHolds, Threaded
  <2>2. j - 1 \in 0 .. size - 1 /\ (j - 1) + 1 = j
    BY <1>1
  <2>3. Doubly!Forward[j - 1] = m
    BY <2>1, <2>2, DoublyForward
  <2> QED
    BY <2>2, <2>3
<1> QED
  BY <1>2, <1>3, <1>4 DEF Doubly!Reachable

LEMMA DoublyIsWellFormed ==
  ASSUME NEW s, DoublyHolds(s)
  PROVE  Doubly!WellFormed /\ Doubly!ViewIsPath /\ Doubly!Contents = Along(s, nodes, size)
<1>1. size \in Nat /\ NULL \notin Heap /\ Doubly!Heap = Heap
  BY DoublyFacts
<1>2. \A i \in 0 .. size - 1 : Doubly!NodeAt(i) = s[i + 1] /\ i + 1 \in 1 .. size
  BY <1>1, DoublyWalk
<1>3. \A j \in 1 .. size : /\ s[j] \in Heap /\ s[j] # NULL
                           /\ Doubly!NextOf(s[j]) = NextAt(s, size, j)
                           /\ Doubly!PrevOf(s[j]) = PrevAt(s, j)
  BY DoublyFacts
<1>4. \A j, k \in 1 .. size : s[j] = s[k] => j = k
  BY DoublyFacts
<1>5. Doubly!TypeOK
  <2>1. first \in Heap \cup {NULL} /\ last \in Heap \cup {NULL}
    <3>1. CASE size = 0
      BY <3>1 DEF DoublyHolds
    <3>2. CASE size # 0
      <4>1. 1 \in 1 .. size /\ size \in 1 .. size
        BY <3>2, <1>1
      <4> QED
        BY <3>2, <4>1, <1>3 DEF DoublyHolds
    <3> QED
      BY <3>1, <3>2
  <2>2. nodes \in [Heap -> [value : Pointer, prev : Address \cup {NULL}, next : Address \cup {NULL}]]
    BY DEF DoublyHolds, DoublyNodes
  <2>3. live \in BOOLEAN /\ result.ok \in BOOLEAN
    BY DEF DoublyHolds
  <2> QED
    BY <1>1, <2>1, <2>2, <2>3 DEF Doubly!TypeOK
<1>6. Doubly!Reciprocal
  <2>1. \A m \in Heap : \E j \in 1 .. size : m = s[j]
    BY DEF DoublyHolds, Threaded
  <2>2. ASSUME NEW m \in Heap, NEW k \in Heap
        PROVE  Doubly!NextOf(m) = k <=> Doubly!PrevOf(k) = m
    <3>1. PICK j \in 1 .. size, l \in 1 .. size : m = s[j] /\ k = s[l]
      BY <2>1
    <3>2. Doubly!NextOf(m) = k <=> l = j + 1
      <4>1. j # size => j + 1 \in 1 .. size
        BY <1>1
      <4>2. l = j + 1 => j # size
        BY <1>1
      <4> QED
        BY <3>1, <4>1, <4>2, <1>3, <1>4 DEF NextAt
    <3>3. Doubly!PrevOf(k) = m <=> l = j + 1
      <4>1. l # 1 => l - 1 \in 1 .. size
        BY <1>1
      <4>2. l = j + 1 <=> (l # 1 /\ l - 1 = j)
        BY <1>1
      <4> QED
        BY <3>1, <4>1, <4>2, <1>3, <1>4 DEF PrevAt
    <3> QED
      BY <3>2, <3>3
  <2>3. ASSUME NEW m \in Heap
        PROVE  (m = first <=> Doubly!PrevOf(m) = NULL) /\ (m = last <=> Doubly!NextOf(m) = NULL)
    <3>1. PICK j \in 1 .. size : m = s[j]
      BY <2>1
    <3>2. size # 0 /\ 1 \in 1 .. size /\ size \in 1 .. size
      BY <1>1, <3>1
    <3>3. first = s[1] /\ last = s[size]
      BY <3>2 DEF DoublyHolds
    <3>4. Doubly!PrevOf(m) = NULL <=> j = 1
      <4>1. j # 1 => j - 1 \in 1 .. size
        BY <1>1
      <4> QED
        BY <3>1, <4>1, <1>3 DEF PrevAt
    <3>5. Doubly!NextOf(m) = NULL <=> j = size
      <4>1. j # size => j + 1 \in 1 .. size
        BY <1>1
      <4> QED
        BY <3>1, <4>1, <1>3 DEF NextAt
    <3> QED
      BY <3>1, <3>2, <3>3, <3>4, <3>5, <1>4
  <2> QED
    BY <1>1, <2>2, <2>3 DEF Doubly!Reciprocal
<1>7. Doubly!WalksMeet
  <2>1. Doubly!Forward = Doubly!Backward
    <3>1. \A i \in 0 .. size - 1 : Doubly!Forward[i] = Doubly!Backward[i]
      BY DoublyForward, DoublyBackward
    <3>2. /\ Doubly!Forward = [i \in 0 .. size - 1 |-> Doubly!Forward[i]]
          /\ Doubly!Backward = [i \in 0 .. size - 1 |-> Doubly!Backward[i]]
      BY DEF Doubly!Forward, Doubly!Backward
    <3> QED
      BY <3>1, <3>2
  <2>2. Doubly!Cardinality(Doubly!Heap) = size
    BY <1>1, DoublyCardinality DEF DoublyHolds
  <2>3. ~live => Heap = {}
    <3>1. size = 0 => Heap = {}
      BY DEF DoublyHolds, Threaded
    <3> QED
      BY <3>1 DEF DoublyHolds
  <2> QED
    BY <1>1, <2>1, <2>2, <2>3, DoublyReaches DEF Doubly!WalksMeet
<1>8. Doubly!ViewIsPath
  <2>1. ASSUME NEW i \in 0 .. size - 1 PROVE Doubly!Neighbors(i) = {i - 1, i + 1} \cap 0 .. size - 1
    <3>1. /\ Doubly!NextOf(Doubly!NodeAt(i)) = NextAt(s, size, i + 1)
          /\ Doubly!PrevOf(Doubly!NodeAt(i)) = PrevAt(s, i + 1)
      BY <1>2, <1>3
    <3>2. Doubly!NextOf(Doubly!NodeAt(i)) # NULL <=> i + 1 \in 0 .. size - 1
      <4>1. CASE i + 1 = size
        BY <1>1, <3>1, <4>1 DEF NextAt
      <4>2. CASE i + 1 # size
        <5>1. i + 1 \in 0 .. size - 1 /\ (i + 1) + 1 \in 1 .. size
          BY <1>1, <4>2
        <5> QED
          BY <3>1, <4>2, <5>1, <1>3 DEF NextAt
      <4> QED
        BY <4>1, <4>2
    <3>3. Doubly!PrevOf(Doubly!NodeAt(i)) # NULL <=> i - 1 \in 0 .. size - 1
      <4>1. CASE i = 0
        BY <1>1, <3>1, <4>1 DEF PrevAt
      <4>2. CASE i # 0
        <5>1. i - 1 \in 0 .. size - 1 /\ (i + 1) - 1 \in 1 .. size /\ i + 1 # 1
          BY <1>1, <4>2
        <5> QED
          BY <3>1, <5>1, <1>3 DEF PrevAt
      <4> QED
        BY <4>1, <4>2
    <3> QED
      BY <3>2, <3>3 DEF Doubly!Neighbors
  <2> QED
    BY <2>1 DEF Doubly!ViewIsPath
<1>9. Doubly!Contents = Along(s, nodes, size)
  <2>1. ASSUME NEW i \in 1 .. size PROVE Doubly!Get(i - 1) = nodes[s[i]].value
    <3>1. i - 1 \in 0 .. size - 1 /\ (i - 1) + 1 = i
      BY <1>1
    <3> QED
      BY <3>1, <1>2 DEF Doubly!Get
  <2> QED
    BY <2>1 DEF Doubly!Contents, Along
<1> QED
  BY <1>5, <1>6, <1>7, <1>8, <1>9 DEF Doubly!WellFormed

(* --------------------------------- calls ----------------------------------- *)
InDoubly == kind = "doubly" /\ kind' = "doubly"

(* The list between calls.                                                   *)
DoublyInv == \E s : DoublyHolds(s)

LEMMA ListedDoubly == kind = "doubly" => \A s : DoublyHolds(s) => Listed = Along(s, nodes, size)
BY DoublyIsWellFormed DEF Listed

LEMMA ListedDoublyNext == (kind = "doubly" => \A s : DoublyHolds(s) => Listed = Along(s, nodes, size))'
BY ListedDoubly, PTL

LEMMA DoublyIs ==
  ASSUME InDoubly, NEW s, DoublyHolds(s)
  PROVE  Listed = Along(s, nodes, size) /\ Len(Listed) = size /\ Listed \in Seq(Pointer)
<1>1. Listed = Along(s, nodes, size)
  BY ListedDoubly DEF InDoubly
<1>2. size \in Nat /\ \A i \in 1 .. size : nodes[s[i]].value \in Pointer
  BY DoublyFacts
<1> QED
  BY <1>1, <1>2, AlongIs

LEMMA DoublyNextIs ==
  ASSUME InDoubly, NEW t, DoublyHolds(t)'
  PROVE  DoublyInv' /\ Listed' = Along(t, nodes', size')
BY ListedDoublyNext DEF InDoubly, DoublyInv, Along

(* The links to both sides of a node, p before it and q behind it.           *)
LinksMade(N, M, H, new, x, p, q) ==
  /\ M = [m \in H \cup {new} |-> M[m]]
  /\ M[new] = [value |-> x, prev |-> p, next |-> q]
  /\ \A m \in H : /\ M[m] \in [value : Pointer, prev : H \cup {new, NULL}, next : H \cup {new, NULL}]
                  /\ M[m].value = N[m].value
                  /\ M[m].next = IF m = p THEN new ELSE N[m].next
                  /\ M[m].prev = IF m = q THEN new ELSE N[m].prev

LinksCut(N, M, H, gone, p, q) ==
  /\ M = [m \in H \ {gone} |-> M[m]]
  /\ \A m \in H \ {gone} : /\ M[m] \in [value : Pointer, prev : H \cup {NULL}, next : H \cup {NULL}]
                           /\ M[m].value = N[m].value
                           /\ M[m].next = IF m = p THEN q ELSE N[m].next
                           /\ M[m].prev = IF m = q THEN p ELSE N[m].prev

(* A heap h whose links lead into A, and what one write to a link makes it.  *)
Linking(h, A) ==
  /\ h = [m \in DOMAIN h |-> h[m]] /\ NULL \notin DOMAIN h
  /\ \A m \in DOMAIN h : h[m] \in [value : Pointer, prev : A, next : A]

NextWritten(h, k, n, to) ==
  /\ DOMAIN k = DOMAIN h
  /\ \A m \in DOMAIN h : /\ k[m].value = h[m].value /\ k[m].prev = h[m].prev
                         /\ k[m].next = IF m = n THEN to ELSE h[m].next

PrevWritten(h, k, n, to) ==
  /\ DOMAIN k = DOMAIN h
  /\ \A m \in DOMAIN h : /\ k[m].value = h[m].value /\ k[m].next = h[m].next
                         /\ k[m].prev = IF m = n THEN to ELSE h[m].prev

LEMMA LinkedNext ==
  ASSUME NEW h, NEW A, Linking(h, A), NEW n \in DOMAIN h \cup {NULL}, NEW to \in A,
         NEW k, k = Doubly!Linked(h, n, "next", to)
  PROVE  Linking(k, A) /\ NextWritten(h, k, n, to)
<1>1. CASE n = NULL
  BY <1>1 DEF Doubly!Linked, Linking, NextWritten
<1>2. CASE n # NULL
  <2>1. k = [h EXCEPT ![n]["next"] = to]
    BY <1>2 DEF Doubly!Linked
  <2>2. /\ k = [m \in DOMAIN h |-> k[m]] /\ DOMAIN k = DOMAIN h
        /\ \A m \in DOMAIN h : k[m] = IF m = n THEN [h[m] EXCEPT !["next"] = to] ELSE h[m]
    BY <2>1
  <2>3. /\ NULL \notin DOMAIN h
        /\ \A m \in DOMAIN h : h[m] \in [value : Pointer, prev : A, next : A]
    BY DEF Linking
  <2> QED
    BY <2>2, <2>3 DEF Linking, NextWritten
<1> QED
  BY <1>1, <1>2

LEMMA LinkedPrev ==
  ASSUME NEW h, NEW A, Linking(h, A), NEW n \in DOMAIN h \cup {NULL}, NEW to \in A,
         NEW k, k = Doubly!Linked(h, n, "prev", to)
  PROVE  Linking(k, A) /\ PrevWritten(h, k, n, to)
<1>1. CASE n = NULL
  BY <1>1 DEF Doubly!Linked, Linking, PrevWritten
<1>2. CASE n # NULL
  <2>1. k = [h EXCEPT ![n]["prev"] = to]
    BY <1>2 DEF Doubly!Linked
  <2>2. /\ k = [m \in DOMAIN h |-> k[m]] /\ DOMAIN k = DOMAIN h
        /\ \A m \in DOMAIN h : k[m] = IF m = n THEN [h[m] EXCEPT !["prev"] = to] ELSE h[m]
    BY <2>1
  <2>3. /\ NULL \notin DOMAIN h
        /\ \A m \in DOMAIN h : h[m] \in [value : Pointer, prev : A, next : A]
    BY DEF Linking
  <2> QED
    BY <2>2, <2>3 DEF Linking, PrevWritten
<1> QED
  BY <1>1, <1>2

LEMMA LinksAreMade ==
  ASSUME NEW s, DoublyHolds(s), NEW new \in Address \ Heap, NEW x \in Pointer,
         NEW p \in Heap \cup {NULL}, NEW q \in Heap \cup {NULL}, NEW M,
         M = Doubly!Linked(Doubly!Linked(Doubly!With(new, x, p, q), p, "next", new), q, "prev", new)
  PROVE  LinksMade(nodes, M, Heap, new, x, p, q)
<1>1. PICK N, H : N = nodes /\ H = Heap
  OBVIOUS
<1>2. /\ NULL \notin H /\ Doubly!Heap = H /\ new \notin H /\ new # NULL
      /\ \A m \in H : N[m] \in [value : Pointer, prev : H \cup {NULL}, next : H \cup {NULL}]
  BY <1>1, DoublyFacts, AddressIsNotNull DEF DoublyHolds, DoublyNodes
<1>3. PICK h : h = Doubly!With(new, x, p, q)
  OBVIOUS
<1>4. PICK k : k = Doubly!Linked(h, p, "next", new)
  OBVIOUS
<1>5. M = Doubly!Linked(k, q, "prev", new)
  BY <1>3, <1>4
<1>6. PICK A : A = H \cup {new, NULL}
  OBVIOUS
<1>7. h = [m \in H \cup {new} |-> IF m = new THEN [value |-> x, prev |-> p, next |-> q] ELSE N[m]]
  BY <1>1, <1>2, <1>3 DEF Doubly!With
<1>8. h = [m \in DOMAIN h |-> h[m]] /\ DOMAIN h = H \cup {new}
         /\ h[new] = [value |-> x, prev |-> p, next |-> q] /\ \A m \in H : h[m] = N[m]
  BY <1>2, <1>7
<1>9. Linking(h, A)
  BY <1>1, <1>2, <1>6, <1>8 DEF Linking
<1>10. new \in A /\ NULL \notin DOMAIN h /\ p \in DOMAIN h \cup {NULL} /\ q \in DOMAIN h \cup {NULL}
  BY <1>1, <1>2, <1>6, <1>8
<1>11. Linking(k, A) /\ NextWritten(h, k, p, new)
  BY <1>4, <1>9, <1>10, LinkedNext
<1>12. Linking(M, A) /\ PrevWritten(k, M, q, new)
  <2>1. q \in DOMAIN k \cup {NULL}
    BY <1>10, <1>11 DEF NextWritten
  <2> QED
    BY <2>1, <1>5, <1>10, <1>11, LinkedPrev
<1>13. \A m \in H : /\ M[m] \in [value : Pointer, prev : A, next : A]
                    /\ M[m].value = N[m].value
                    /\ M[m].next = IF m = p THEN new ELSE N[m].next
                    /\ M[m].prev = IF m = q THEN new ELSE N[m].prev
  BY <1>8, <1>11, <1>12 DEF Linking, NextWritten, PrevWritten
<1>14. M[new] = [value |-> x, prev |-> p, next |-> q]
  <2>1. new \in DOMAIN h /\ new \in DOMAIN k /\ new # p /\ new # q
    BY <1>1, <1>2, <1>8, <1>11 DEF NextWritten
  <2>2. M[new].value = x /\ M[new].next = q /\ M[new].prev = p
    BY <2>1, <1>8, <1>11, <1>12 DEF NextWritten, PrevWritten
  <2>3. M[new] \in [value : Pointer, prev : A, next : A]
    BY <2>1, <1>12 DEF Linking, PrevWritten
  <2> QED
    BY <2>2, <2>3
<1> QED
  BY <1>1, <1>6, <1>8, <1>11, <1>12, <1>13, <1>14 DEF LinksMade, Linking, NextWritten, PrevWritten

LEMMA LinksAreCut ==
  ASSUME NEW s, DoublyHolds(s), NEW gone \in Heap,
         NEW p \in (Heap \ {gone}) \cup {NULL}, NEW q \in (Heap \ {gone}) \cup {NULL}, NEW M,
         M = Doubly!Linked(Doubly!Linked(Doubly!Without(gone), p, "next", q), q, "prev", p)
  PROVE  LinksCut(nodes, M, Heap, gone, p, q)
<1>1. PICK N, H : N = nodes /\ H = Heap
  OBVIOUS
<1>2. /\ NULL \notin H /\ Doubly!Heap = H
      /\ \A m \in H : N[m] \in [value : Pointer, prev : H \cup {NULL}, next : H \cup {NULL}]
  BY <1>1, DoublyFacts DEF DoublyHolds, DoublyNodes
<1>3. PICK h : h = Doubly!Without(gone)
  OBVIOUS
<1>4. PICK k : k = Doubly!Linked(h, p, "next", q)
  OBVIOUS
<1>5. M = Doubly!Linked(k, q, "prev", p)
  BY <1>3, <1>4
<1>6. PICK A : A = H \cup {NULL}
  OBVIOUS
<1>7. h = [m \in H \ {gone} |-> N[m]]
  BY <1>1, <1>2, <1>3 DEF Doubly!Without
<1>8. h = [m \in DOMAIN h |-> h[m]] /\ DOMAIN h = H \ {gone} /\ \A m \in H \ {gone} : h[m] = N[m]
  BY <1>7
<1>9. Linking(h, A)
  BY <1>2, <1>6, <1>8 DEF Linking
<1>10. p \in A /\ q \in A /\ NULL \notin DOMAIN h /\ p \in DOMAIN h \cup {NULL}
          /\ q \in DOMAIN h \cup {NULL}
  BY <1>1, <1>2, <1>6, <1>8
<1>11. Linking(k, A) /\ NextWritten(h, k, p, q)
  BY <1>4, <1>9, <1>10, LinkedNext
<1>12. Linking(M, A) /\ PrevWritten(k, M, q, p)
  <2>1. q \in DOMAIN k \cup {NULL}
    BY <1>10, <1>11 DEF NextWritten
  <2> QED
    BY <2>1, <1>5, <1>10, <1>11, LinkedPrev
<1>13. \A m \in H \ {gone} : /\ M[m] \in [value : Pointer, prev : A, next : A]
                             /\ M[m].value = N[m].value
                             /\ M[m].next = IF m = p THEN q ELSE N[m].next
                             /\ M[m].prev = IF m = q THEN p ELSE N[m].prev
  BY <1>8, <1>11, <1>12 DEF Linking, NextWritten, PrevWritten
<1> QED
  BY <1>1, <1>6, <1>8, <1>11, <1>12, <1>13 DEF LinksCut, Linking, NextWritten, PrevWritten

LEMMA DoublyGrows ==
  ASSUME InDoubly, NEW s, DoublyHolds(s), NEW i \in 0 .. size, NEW new \in Address \ Heap,
         NEW x \in Pointer, NEW op, AddsAt(op, i), live, live' = live, size' = size + 1,
         first' = IF i = 0 THEN new ELSE first, last' = IF i = size THEN new ELSE last,
         LinksMade(nodes, nodes', Heap, new, x, IF i = 0 THEN NULL ELSE s[i], NextAt(s, size, i)),
         Returns(op, i, TRUE, Untouched)
  PROVE  DoublyInv' /\ ListPromise!Next
<1>0. PICK t : t = [j \in 1 .. size + 1 |->
                      IF j < i + 1 THEN s[j] ELSE IF j = i + 1 THEN new ELSE s[j - 1]]
  OBVIOUS
<1>1. PICK n, H, N, M, p, q : /\ n = size /\ H = Heap /\ N = nodes /\ M = nodes'
                              /\ p = (IF i = 0 THEN NULL ELSE s[i]) /\ q = NextAt(s, n, i)
  OBVIOUS
<1>2. n \in Nat /\ NULL \notin H /\ i \in 0 .. n
  BY <1>1, DoublyFacts
<1>3. /\ \A j \in 1 .. n : s[j] \in H /\ s[j] # NULL /\ N[s[j]].value \in Pointer
      /\ \A j, k \in 1 .. n : s[j] = s[k] => j = k
  BY <1>1, DoublyFacts
<1>4. Threaded(s, H, n) /\ DoublyNodes(N, H) /\ Forwards(s, N, n) /\ Backwards(s, N, n)
  BY <1>1 DEF DoublyHolds
<1>5. GrownAt(t, s, n, i, new)
  BY <1>0, <1>1 DEF GrownAt
<1>6. new \notin H /\ new # NULL /\ new \in Address
  BY <1>1, AddressIsNotNull
<1>7. /\ M = [m \in H \cup {new} |-> M[m]]
      /\ M[new] = [value |-> x, prev |-> p, next |-> q]
      /\ \A m \in H : /\ M[m] \in [value : Pointer, prev : H \cup {new, NULL}, next : H \cup {new, NULL}]
                      /\ M[m].value = N[m].value
                      /\ M[m].next = IF m = p THEN new ELSE N[m].next
                      /\ M[m].prev = IF m = q THEN new ELSE N[m].prev
  BY <1>1 DEF LinksMade
<1>8. p \in H \cup {NULL} /\ q \in H \cup {NULL}
  <2>1. i # n => i + 1 \in 1 .. n
    BY <1>2
  <2>2. i # 0 => i \in 1 .. n
    BY <1>2
  <2> QED
    BY <2>1, <2>2, <1>1, <1>3 DEF NextAt
<1>9. \A j \in 1 .. n : (s[j] = p <=> j = i) /\ (s[j] = q <=> j = i + 1)
  <2>1. ASSUME NEW j \in 1 .. n PROVE s[j] = p <=> j = i
    <3>1. CASE i = 0
      BY <3>1, <1>1, <1>3
    <3>2. CASE i # 0
      <4>1. i \in 1 .. n
        BY <3>2, <1>2
      <4> QED
        BY <3>2, <4>1, <1>1, <1>3
    <3> QED
      BY <3>1, <3>2
  <2>2. ASSUME NEW j \in 1 .. n PROVE s[j] = q <=> j = i + 1
    <3>1. CASE i = n
      <4>1. j # i + 1
        BY <3>1, <1>2
      <4> QED
        BY <3>1, <4>1, <1>1, <1>3 DEF NextAt
    <3>2. CASE i # n
      <4>1. i + 1 \in 1 .. n
        BY <3>2, <1>2
      <4> QED
        BY <3>2, <4>1, <1>1, <1>3 DEF NextAt
    <3> QED
      BY <3>1, <3>2
  <2> QED
    BY <2>1, <2>2
<1>10. \A j \in 1 .. n : /\ M[s[j]].value = N[s[j]].value
                         /\ M[s[j]].next = IF j = i THEN new ELSE N[s[j]].next
                         /\ M[s[j]].prev = IF j = i + 1 THEN new ELSE N[s[j]].prev
  BY <1>3, <1>7, <1>9
<1>11. /\ M[new].value = x /\ M[new].next = NextAt(s, n, i)
       /\ M[new].prev = IF i = 0 THEN NULL ELSE s[i]
  BY <1>1, <1>7
<1>12. Threaded(t, H \cup {new}, n + 1)
  BY <1>2, <1>4, <1>5, <1>6, ThreadGrows
<1>13. Forwards(t, M, n + 1)
  <2>1. M[new].next = NextAt(s, n, i)
           /\ \A j \in 1 .. n : M[s[j]].next = IF j = i THEN new ELSE N[s[j]].next
    BY <1>10, <1>11
  <2> QED
    BY <2>1, <1>2, <1>4, <1>5, ForwardsGrow
<1>14. Backwards(t, M, n + 1)
  <2>1. /\ M[new].prev = IF i = 0 THEN NULL ELSE s[i]
        /\ \A j \in 1 .. n : M[s[j]].prev = IF j = i + 1 THEN new ELSE N[s[j]].prev
    BY <1>10, <1>11
  <2> QED
    BY <2>1, <1>2, <1>4, <1>5, BackwardsGrow
<1>15. DoublyNodes(M, H \cup {new})
  <2>1. PICK G : G = H \cup {new}
    OBVIOUS
  <2>2. G \cup {NULL} = H \cup {new, NULL}
    BY <2>1
  <2>3. \A m \in G : M[m] \in [value : Pointer, prev : G \cup {NULL}, next : G \cup {NULL}]
    <3>1. M[new] \in [value : Pointer, prev : G \cup {NULL}, next : G \cup {NULL}]
      BY <2>2, <1>7, <1>8
    <3>2. \A m \in H : M[m] \in [value : Pointer, prev : G \cup {NULL}, next : G \cup {NULL}]
      BY <2>2, <1>7
    <3> QED
      BY <2>1, <3>1, <3>2
  <2>4. M = [m \in G |-> M[m]]
    BY <2>1, <1>7
  <2> QED
    BY <2>1, <2>3, <2>4 DEF DoublyNodes
<1>16. Heap' = H \cup {new}
  BY <1>1, <1>7 DEF Heap
<1>17. IsFiniteSet(H \cup {new}) /\ Cardinality(H \cup {new}) = n + 1 /\ H \cup {new} \subseteq Address
  <2>1. IsFiniteSet(H) /\ Cardinality(H) = n /\ H \subseteq Address
    BY <1>1 DEF DoublyHolds
  <2> QED
    BY <2>1, <1>6, FS_AddElement
<1>18. first' = t[1]
  <2>1. CASE i = 0
    <3>1. t[1] = new
      BY <2>1, <1>2, <1>5 DEF GrownAt
    <3> QED
      BY <2>1, <3>1
  <2>2. CASE i # 0
    <3>1. 1 < i + 1 /\ 1 \in 1 .. n + 1 /\ n # 0
      BY <2>2, <1>2
    <3>2. t[1] = s[1]
      BY <3>1, <1>5 DEF GrownAt
    <3>3. first = s[1]
      BY <3>1, <1>1 DEF DoublyHolds
    <3> QED
      BY <2>2, <3>2, <3>3
  <2> QED
    BY <2>1, <2>2
<1>19. last' = t[n + 1]
  <2>1. CASE i = n
    <3>1. t[n + 1] = new
      BY <2>1, <1>2, <1>5 DEF GrownAt
    <3> QED
      BY <2>1, <3>1, <1>1
  <2>2. CASE i # n
    <3>1. ~(n + 1 < i + 1) /\ n + 1 # i + 1 /\ n + 1 \in 1 .. n + 1 /\ n # 0 /\ (n + 1) - 1 = n
      BY <2>2, <1>2
    <3>2. t[n + 1] = s[n]
      BY <3>1, <1>5 DEF GrownAt
    <3>3. last = s[n]
      BY <3>1, <1>1 DEF DoublyHolds
    <3> QED
      BY <2>2, <3>2, <3>3, <1>1
  <2> QED
    BY <2>1, <2>2
<1>20. DoublyHolds(t)'
  <2>1. result'.ok = TRUE /\ size' = n + 1 /\ size' # 0
    BY <1>1, <1>2 DEF Returns
  <2> QED
    BY <2>1, <1>1, <1>12, <1>13, <1>14, <1>15, <1>16, <1>17, <1>18, <1>19 DEF DoublyHolds
<1>21. Listed' = Along(t, M, n + 1) /\ Listed = Along(s, N, n) /\ DoublyInv'
  BY <1>1, <1>20, DoublyIs, DoublyNextIs
<1>22. Grows(Listed, Listed', i, x)
  <2>1. \A j \in 1 .. n : N[s[j]].value \in Pointer
    BY <1>3
  <2>2. M[new].value = x /\ \A j \in 1 .. n : M[s[j]].value = N[s[j]].value
    BY <1>10, <1>11
  <2>3. Grows(Along(s, N, n), Along(t, M, n + 1), i, x)
    BY <2>1, <2>2, <1>2, <1>5, AlongGrows
  <2> QED
    BY <2>3, <1>21
<1> QED
  BY <1>21, <1>22, AddStep

LEMMA DoublyShrinks ==
  ASSUME InDoubly, NEW s, DoublyHolds(s), NEW i \in 0 .. size - 1,
         NEW op, TakesAt(op, i), live, live' = live, size' = size - 1,
         first' = IF i = 0 THEN NextAt(s, size, 1) ELSE first,
         last' = IF i = size - 1 THEN PrevAt(s, size) ELSE last,
         LinksCut(nodes, nodes', Heap, s[i + 1], PrevAt(s, i + 1), NextAt(s, size, i + 1)),
         Returns(op, i, TRUE, nodes[s[i + 1]].value)
  PROVE  DoublyInv' /\ ListPromise!Next
<1>0. PICK t : t = [j \in 1 .. size - 1 |-> IF j < i + 1 THEN s[j] ELSE s[j + 1]]
  OBVIOUS
<1>1. PICK n, H, N, M, p, q, gone : /\ n = size /\ H = Heap /\ N = nodes /\ M = nodes' /\ gone = s[i + 1]
                                    /\ p = PrevAt(s, i + 1) /\ q = NextAt(s, n, i + 1)
  OBVIOUS
<1>2. n \in Nat /\ n # 0 /\ NULL \notin H /\ i + 1 \in 1 .. n /\ n - 1 \in Nat /\ i \in 0 .. n - 1
  BY <1>1, DoublyFacts
<1>3. /\ \A j \in 1 .. n : s[j] \in H /\ s[j] # NULL /\ N[s[j]].value \in Pointer
      /\ \A j, k \in 1 .. n : s[j] = s[k] => j = k
  BY <1>1, DoublyFacts
<1>4. Threaded(s, H, n) /\ DoublyNodes(N, H) /\ Forwards(s, N, n) /\ Backwards(s, N, n)
  BY <1>1 DEF DoublyHolds
<1>5. ShrunkAt(t, s, n, i)
  BY <1>0, <1>1 DEF ShrunkAt
<1>6. /\ M = [m \in H \ {gone} |-> M[m]]
      /\ \A m \in H \ {gone} : /\ M[m] \in [value : Pointer, prev : H \cup {NULL}, next : H \cup {NULL}]
                               /\ M[m].value = N[m].value
                               /\ M[m].next = IF m = p THEN q ELSE N[m].next
                               /\ M[m].prev = IF m = q THEN p ELSE N[m].prev
  BY <1>1 DEF LinksCut
<1>7. \A j \in 1 .. n : (j = i => s[j] = p) /\ (j # i => s[j] # p)
  <2>1. CASE i = 0
    <3>1. p = NULL
      BY <2>1, <1>1 DEF PrevAt
    <3> QED
      BY <2>1, <3>1, <1>3
  <2>2. CASE i # 0
    <3>1. i \in 1 .. n /\ i + 1 # 1 /\ (i + 1) - 1 = i
      BY <2>2, <1>2
    <3>2. p = s[i]
      BY <3>1, <1>1 DEF PrevAt
    <3> QED
      BY <3>1, <3>2, <1>3
  <2> QED
    BY <2>1, <2>2
<1>8. \A j \in 1 .. n : (j = i + 2 => s[j] = q) /\ (j # i + 2 => s[j] # q)
  <2>1. CASE i + 1 = n
    <3>1. q = NULL
      BY <2>1, <1>1 DEF NextAt
    <3>2. \A j \in 1 .. n : j # i + 2
      BY <2>1, <1>2
    <3> QED
      BY <3>1, <3>2, <1>3
  <2>2. CASE i + 1 # n
    <3>1. i + 2 \in 1 .. n /\ (i + 1) + 1 = i + 2
      BY <2>2, <1>2
    <3>2. q = s[i + 2]
      BY <2>2, <3>1, <1>1 DEF NextAt
    <3> QED
      BY <3>1, <3>2, <1>3
  <2> QED
    BY <2>1, <2>2
<1>9. \A j \in 1 .. n : j # i + 1 => s[j] \in H \ {gone}
  BY <1>1, <1>2, <1>3
<1>10. \A j \in 1 .. n : j # i + 1 =>
         /\ M[s[j]].value = N[s[j]].value
         /\ M[s[j]].next = IF j = i THEN NextAt(s, n, i + 1) ELSE N[s[j]].next
         /\ M[s[j]].prev = IF j = i + 2 THEN PrevAt(s, i + 1) ELSE N[s[j]].prev
  <2>1. ASSUME NEW j \in 1 .. n, j # i + 1
        PROVE  /\ M[s[j]].value = N[s[j]].value
               /\ M[s[j]].next = IF j = i THEN NextAt(s, n, i + 1) ELSE N[s[j]].next
               /\ M[s[j]].prev = IF j = i + 2 THEN PrevAt(s, i + 1) ELSE N[s[j]].prev
    <3>1. /\ M[s[j]].value = N[s[j]].value
          /\ M[s[j]].next = IF s[j] = p THEN q ELSE N[s[j]].next
          /\ M[s[j]].prev = IF s[j] = q THEN p ELSE N[s[j]].prev
      BY <2>1, <1>6, <1>9
    <3> QED
      BY <3>1, <1>1, <1>7, <1>8
  <2> QED
    BY <2>1
<1>11. Threaded(t, H \ {gone}, n - 1)
  BY <1>1, <1>2, <1>4, <1>5, ThreadShrinks
<1>12. Forwards(t, M, n - 1)
  <2>1. \A j \in 1 .. n : j # i + 1 =>
          M[s[j]].next = IF j = i THEN NextAt(s, n, i + 1) ELSE N[s[j]].next
    BY <1>10
  <2> QED
    BY <2>1, <1>2, <1>4, <1>5, ForwardsShrink
<1>13. Backwards(t, M, n - 1)
  <2>1. \A j \in 1 .. n : j # i + 1 =>
          M[s[j]].prev = IF j = i + 2 THEN PrevAt(s, i + 1) ELSE N[s[j]].prev
    BY <1>10
  <2> QED
    BY <2>1, <1>2, <1>4, <1>5, BackwardsShrink
<1>14. DoublyNodes(M, H \ {gone})
  <2>1. \A j \in 1 .. n - 1 : t[j] \in H \ {gone}
    BY <1>11 DEF Threaded
  <2>2. ASSUME NEW m \in H \ {gone}
        PROVE  M[m] \in [value : Pointer, prev : (H \ {gone}) \cup {NULL},
                         next : (H \ {gone}) \cup {NULL}]
    <3>1. PICK j \in 1 .. n - 1 : m = t[j]
      BY <1>11 DEF Threaded
    <3>2. M[m].next = NextAt(t, n - 1, j) /\ M[m].prev = PrevAt(t, j)
      BY <3>1, <1>12, <1>13 DEF Forwards, Backwards
    <3>3. (j # n - 1 => j + 1 \in 1 .. n - 1) /\ (j # 1 => j - 1 \in 1 .. n - 1)
      BY <1>2
    <3>4. PICK u, v : u = M[m].next /\ v = M[m].prev
      OBVIOUS
    <3>5. u \in (H \ {gone}) \cup {NULL} /\ v \in (H \ {gone}) \cup {NULL}
      BY <3>2, <3>3, <3>4, <2>1 DEF NextAt, PrevAt
    <3>6. PICK w : w = M[m].value
      OBVIOUS
    <3>7. M[m] = [value |-> w, prev |-> v, next |-> u] /\ w \in Pointer
      BY <3>4, <3>6, <1>6
    <3>8. [value |-> w, prev |-> v, next |-> u]
            \in [value : Pointer, prev : (H \ {gone}) \cup {NULL}, next : (H \ {gone}) \cup {NULL}]
      BY <3>5, <3>7
    <3> QED
      BY <3>7, <3>8
  <2> QED
    BY <2>2, <1>6 DEF DoublyNodes
<1>15. Heap' = H \ {gone}
  BY <1>1, <1>6 DEF Heap
<1>16. IsFiniteSet(H \ {gone}) /\ Cardinality(H \ {gone}) = n - 1 /\ H \ {gone} \subseteq Address
  <2>1. IsFiniteSet(H) /\ Cardinality(H) = n /\ H \subseteq Address
    BY <1>1 DEF DoublyHolds
  <2>2. gone \in H
    BY <1>1, <1>2, <1>3
  <2> QED
    BY <2>1, <2>2, FS_RemoveElement
<1>17. first' = IF n - 1 = 0 THEN NULL ELSE t[1]
  <2>1. CASE i = 0 /\ n = 1
    BY <2>1, <1>1 DEF NextAt
  <2>2. CASE i = 0 /\ n # 1
    <3>1. 1 \in 1 .. n - 1 /\ 1 + 1 = 2 /\ ~(1 < i + 1)
      BY <2>2, <1>2
    <3>2. t[1] = s[2]
      BY <3>1, <1>5 DEF ShrunkAt
    <3>3. first' = s[2]
      BY <2>2, <3>1, <1>1 DEF NextAt
    <3> QED
      BY <2>2, <3>2, <3>3, <1>2
  <2>3. CASE i # 0
    <3>1. 1 < i + 1 /\ 1 \in 1 .. n - 1
      BY <2>3, <1>2
    <3>2. t[1] = s[1]
      BY <3>1, <1>5 DEF ShrunkAt
    <3>3. first = s[1]
      BY <1>1, <1>2 DEF DoublyHolds
    <3> QED
      BY <2>3, <3>1, <3>2, <3>3
  <2> QED
    BY <2>1, <2>2, <2>3
<1>18. last' = IF n - 1 = 0 THEN NULL ELSE t[n - 1]
  <2>1. CASE n = 1
    <3>1. i = n - 1 /\ n = 1
      BY <2>1, <1>2
    <3> QED
      BY <3>1, <1>1 DEF PrevAt
  <2>2. CASE i = n - 1 /\ n # 1
    <3>1. n - 1 \in 1 .. n - 1 /\ n - 1 < i + 1
      BY <2>2, <1>2
    <3>2. t[n - 1] = s[n - 1]
      BY <3>1, <1>5 DEF ShrunkAt
    <3>3. last' = s[n - 1]
      BY <2>2, <1>1 DEF PrevAt
    <3> QED
      BY <2>2, <3>2, <3>3, <1>2
  <2>3. CASE i # n - 1
    <3>1. n - 1 \in 1 .. n - 1 /\ ~(n - 1 < i + 1) /\ (n - 1) + 1 = n /\ n - 1 # 0
      BY <2>3, <1>2
    <3>2. t[n - 1] = s[n]
      BY <3>1, <1>5 DEF ShrunkAt
    <3>3. last = s[n]
      BY <1>1, <1>2 DEF DoublyHolds
    <3> QED
      BY <2>3, <3>1, <3>2, <3>3, <1>1
  <2> QED
    BY <2>1, <2>2, <2>3
<1>19. DoublyHolds(t)'
  <2>1. result'.ok = TRUE /\ size' = n - 1
    BY <1>1 DEF Returns
  <2> QED
    BY <2>1, <1>1, <1>11, <1>12, <1>13, <1>14, <1>15, <1>16, <1>17, <1>18 DEF DoublyHolds
<1>20. Listed' = Along(t, M, n - 1) /\ Listed = Along(s, N, n) /\ DoublyInv'
  BY <1>1, <1>19, DoublyIs, DoublyNextIs
<1>21. Shrinks(Listed, Listed', i) /\ Listed[i + 1] = N[gone].value
  <2>1. \A j \in 1 .. n : j # i + 1 => M[s[j]].value = N[s[j]].value
    BY <1>10
  <2>2. \A j \in 1 .. n : N[s[j]].value \in Pointer
    BY <1>3
  <2>3. Shrinks(Along(s, N, n), Along(t, M, n - 1), i) /\ Along(s, N, n)[i + 1] = N[s[i + 1]].value
    BY <2>1, <2>2, <1>2, <1>5, AlongShrinks
  <2> QED
    BY <2>3, <1>1, <1>20
<1> QED
  BY <1>1, <1>20, <1>21, TakeStep

LEMMA DoublyRefuses ==
  ASSUME InDoubly, NEW s, DoublyHolds(s), UNCHANGED <<live, size, first, last, nodes>>,
         NEW op, NEW i \in Nat, NotThere(op, i), Returns(op, i, FALSE, Untouched)
  PROVE  DoublyInv' /\ ListPromise!Next
<1>1. result'.ok = FALSE /\ Heap' = Heap
  BY DEF Returns, Heap
<1>2. DoublyHolds(s)'
  BY <1>1 DEF DoublyHolds
<1>3. DoublyInv' /\ Listed' = Listed /\ Listed \in Seq(Pointer)
  BY <1>2, DoublyIs, DoublyNextIs
<1> QED
  BY <1>3, RefuseStep

LEMMA DoublyResets ==
  ASSUME InDoubly, live' \in BOOLEAN, size' = 0, first' = NULL, last' = NULL,
         nodes' = [m \in {} |-> NULL],
         NEW op \in {"create", "destroy"}, Returns(op, 0, TRUE, Untouched)
  PROVE  DoublyInv' /\ ListPromise!Next
<1>1. result'.ok = TRUE
  BY DEF Returns
<1>2. PICK M : M = [m \in {} |-> NULL]
  OBVIOUS
<1>3. Threaded(<<>>, {}, 0) /\ Forwards(<<>>, M, 0) /\ Backwards(<<>>, M, 0) /\ DoublyNodes(M, {})
  BY <1>2 DEF Threaded, Forwards, Backwards, DoublyNodes
<1>4. IsFiniteSet({}) /\ Cardinality({}) = 0
  BY FS_EmptySet
<1>5. Heap' = {} /\ nodes' = M
  BY <1>2 DEF Heap
<1>6. DoublyHolds(<<>>)'
  BY <1>1, <1>3, <1>4, <1>5 DEF DoublyHolds
<1>7. DoublyInv' /\ Listed' = <<>>
  BY <1>6, DoublyNextIs DEF Along
<1> QED
  BY <1>7, ResetStep

LEMMA DoublyAdds ==
  ASSUME InDoubly, NEW s, DoublyHolds(s), NEW x \in Pointer, NEW new \in Address \ Heap,
         \/ \E op \in {"push_front", "insert"} : Doubly!PushFront(op, x, new)
         \/ \E op \in {"push_back", "insert"} : Doubly!PushBack(op, x, new)
         \/ \E i \in 0 .. size : Doubly!InsertInside(i, x, new)
  PROVE  DoublyInv' /\ ListPromise!Next
<1>1. size \in Nat /\ first = NextAt(s, size, 0) /\ Len(Listed) = size
  BY DoublyFacts, DoublyIs
<1>2. \A j \in 1 .. size : s[j] \in Heap /\ s[j] # NULL
  BY DoublyFacts
<1>3. last = IF size = 0 THEN NULL ELSE s[size]
  BY DEF DoublyHolds
<1>4. NULL \in Heap \cup {NULL} /\ first \in Heap \cup {NULL} /\ last \in Heap \cup {NULL}
  <2>1. size # 0 => 1 \in 1 .. size /\ size \in 1 .. size /\ 0 + 1 = 1
    BY <1>1
  <2> QED
    BY <2>1, <1>1, <1>2, <1>3 DEF NextAt
<1>5. (last = NULL <=> size = 0) /\ (first = NULL <=> size = 0)
  <2>1. size # 0 => 1 \in 1 .. size /\ size \in 1 .. size /\ 0 + 1 = 1
    BY <1>1
  <2> QED
    BY <2>1, <1>1, <1>2, <1>3 DEF NextAt
<1>6. ASSUME NEW op \in {"push_front", "insert"}, Doubly!PushFront(op, x, new)
      PROVE  DoublyInv' /\ ListPromise!Next
  <2>1. nodes' = Doubly!Linked(Doubly!Linked(Doubly!With(new, x, NULL, first), NULL, "next", new),
                               first, "prev", new)
    BY <1>6 DEF Doubly!PushFront, Doubly!Linked
  <2>2. LinksMade(nodes, nodes', Heap, new, x, NULL, first)
    BY <2>1, <1>4, LinksAreMade
  <2>3. LinksMade(nodes, nodes', Heap, new, x, IF 0 = 0 THEN NULL ELSE s[0], NextAt(s, size, 0))
    BY <2>2, <1>1
  <2>4. /\ live /\ live' = live /\ size' = size + 1
        /\ Returns(op, 0, TRUE, Untouched) /\ AddsAt(op, 0) /\ 0 \in 0 .. size
    BY <1>1, <1>6 DEF Doubly!PushFront, Doubly!Answer, Returns, AddsAt
  <2>5. /\ first' = IF 0 = 0 THEN new ELSE first
        /\ last' = IF 0 = size THEN new ELSE last
    BY <1>5, <1>6 DEF Doubly!PushFront
  <2> QED
    BY <2>3, <2>4, <2>5, DoublyGrows
<1>7. ASSUME NEW op \in {"push_back", "insert"}, Doubly!PushBack(op, x, new)
      PROVE  DoublyInv' /\ ListPromise!Next
  <2>1. nodes' = Doubly!Linked(Doubly!Linked(Doubly!With(new, x, last, NULL), last, "next", new),
                               NULL, "prev", new)
    BY <1>7 DEF Doubly!PushBack, Doubly!Linked
  <2>2. LinksMade(nodes, nodes', Heap, new, x, last, NULL)
    BY <2>1, <1>4, LinksAreMade
  <2>3. NextAt(s, size, size) = NULL
    BY DEF NextAt
  <2>4. LinksMade(nodes, nodes', Heap, new, x, IF size = 0 THEN NULL ELSE s[size], NextAt(s, size, size))
    BY <2>2, <2>3, <1>3
  <2>5. /\ live /\ live' = live /\ size' = size + 1
        /\ Returns(op, size, TRUE, Untouched) /\ AddsAt(op, size) /\ size \in 0 .. size
    BY <1>1, <1>7 DEF Doubly!PushBack, Doubly!Answer, Returns, AddsAt
  <2>6. /\ first' = IF size = 0 THEN new ELSE first
        /\ last' = IF size = size THEN new ELSE last
    BY <1>5, <1>7 DEF Doubly!PushBack
  <2> QED
    BY <2>4, <2>5, <2>6, DoublyGrows
<1>8. ASSUME NEW i \in 0 .. size, Doubly!InsertInside(i, x, new)
      PROVE  DoublyInv' /\ ListPromise!Next
  <2>1. /\ i \in 1 .. size - 1 /\ i # 0 /\ i # size /\ i \in 0 .. size - 1 /\ i \in 1 .. size
        /\ i + 1 \in 1 .. size /\ i + 1 # 1 /\ (i + 1) - 1 = i
    BY <1>1, <1>8 DEF Doubly!InsertInside
  <2>2. Doubly!NodeAt(i) = s[i + 1]
    BY <2>1, DoublyWalk
  <2>3. Doubly!PrevOf(s[i + 1]) = s[i]
    BY <2>1, DoublyFacts DEF PrevAt
  <2>4. s[i] \in Heap \cup {NULL} /\ s[i + 1] \in Heap \cup {NULL}
    BY <2>1, <1>2
  <2>5. nodes' = Doubly!Linked(Doubly!Linked(Doubly!With(new, x, s[i], s[i + 1]), s[i], "next", new),
                               s[i + 1], "prev", new)
    BY <1>8, <2>2, <2>3 DEF Doubly!InsertInside, Doubly!Spliced
  <2>6. LinksMade(nodes, nodes', Heap, new, x, s[i], s[i + 1])
    BY <2>4, <2>5, LinksAreMade
  <2>7. LinksMade(nodes, nodes', Heap, new, x, IF i = 0 THEN NULL ELSE s[i], NextAt(s, size, i))
    BY <2>1, <2>6 DEF NextAt
  <2>8. /\ live /\ live' = live /\ size' = size + 1
        /\ Returns("insert", i, TRUE, Untouched) /\ AddsAt("insert", i)
    BY <1>8 DEF Doubly!InsertInside, Doubly!Answer, Returns, AddsAt
  <2>9. /\ first' = IF i = 0 THEN new ELSE first
        /\ last' = IF i = size THEN new ELSE last
    BY <1>8, <2>1 DEF Doubly!InsertInside
  <2> QED
    BY <2>7, <2>8, <2>9, DoublyGrows
<1> QED
  BY <1>6, <1>7, <1>8

LEMMA DoublyTakes ==
  ASSUME InDoubly, NEW s, DoublyHolds(s),
         \/ \E op \in {"pop_front", "remove"} : Doubly!PopFront(op)
         \/ \E op \in {"pop_back", "remove"} : Doubly!PopBack(op)
         \/ \E i \in 0 .. size : Doubly!RemoveInside(i)
  PROVE  DoublyInv' /\ ListPromise!Next
<1>1. size \in Nat /\ Len(Listed) = size
  BY DoublyFacts, DoublyIs
<1>2. /\ \A j \in 1 .. size : /\ s[j] \in Heap /\ s[j] # NULL
                              /\ Doubly!NextOf(s[j]) = NextAt(s, size, j)
                              /\ Doubly!PrevOf(s[j]) = PrevAt(s, j)
      /\ \A j, k \in 1 .. size : s[j] = s[k] => j = k
  BY DoublyFacts
<1>3. /\ first = IF size = 0 THEN NULL ELSE s[1]
      /\ last = IF size = 0 THEN NULL ELSE s[size]
  BY DEF DoublyHolds
<1>4. \A j \in 1 .. size : /\ NextAt(s, size, j) \in (Heap \ {s[j]}) \cup {NULL}
                           /\ PrevAt(s, j) \in (Heap \ {s[j]}) \cup {NULL}
                           /\ (NextAt(s, size, j) = NULL <=> j = size)
                           /\ (PrevAt(s, j) = NULL <=> j = 1)
  <2>1. ASSUME NEW j \in 1 .. size
        PROVE  /\ NextAt(s, size, j) \in (Heap \ {s[j]}) \cup {NULL}
               /\ (NextAt(s, size, j) = NULL <=> j = size)
    <3>1. j # size => j + 1 \in 1 .. size /\ j + 1 # j
      BY <1>1
    <3> QED
      BY <3>1, <1>2 DEF NextAt
  <2>2. ASSUME NEW j \in 1 .. size
        PROVE  /\ PrevAt(s, j) \in (Heap \ {s[j]}) \cup {NULL}
               /\ (PrevAt(s, j) = NULL <=> j = 1)
    <3>1. j # 1 => j - 1 \in 1 .. size /\ j - 1 # j
      BY <1>1
    <3> QED
      BY <3>1, <1>2 DEF PrevAt
  <2> QED
    BY <2>1, <2>2
<1>5. ASSUME NEW op \in {"pop_front", "remove"}, Doubly!PopFront(op)
      PROVE  DoublyInv' /\ ListPromise!Next
  <2>1. size # 0 /\ 0 \in 0 .. size - 1 /\ 1 \in 1 .. size /\ 0 + 1 = 1 /\ (1 = size <=> 0 = size - 1)
    BY <1>1, <1>5 DEF Doubly!PopFront
  <2>2. first = s[1] /\ Doubly!NextOf(s[1]) = NextAt(s, size, 1) /\ PrevAt(s, 1) = NULL
    BY <2>1, <1>2, <1>3 DEF PrevAt
  <2>3. nodes' = Doubly!Linked(Doubly!Linked(Doubly!Without(s[1]),
                                             PrevAt(s, 1), "next", NextAt(s, size, 1)),
                               NextAt(s, size, 1), "prev", PrevAt(s, 1))
    BY <1>5, <2>2 DEF Doubly!PopFront, Doubly!Linked
  <2>4. LinksCut(nodes, nodes', Heap, s[1], PrevAt(s, 1), NextAt(s, size, 1))
    BY <2>1, <2>3, <1>2, <1>4, LinksAreCut
  <2>5. /\ live /\ live' = live /\ size' = size - 1
        /\ first' = IF 0 = 0 THEN NextAt(s, size, 1) ELSE first
    BY <1>5, <2>2 DEF Doubly!PopFront
  <2>6. last' = IF 0 = size - 1 THEN PrevAt(s, size) ELSE last
    <3>1. last' = IF NextAt(s, size, 1) = NULL THEN NULL ELSE last
      BY <1>5, <2>2 DEF Doubly!PopFront, Doubly!LastWithoutFirst
    <3>2. NextAt(s, size, 1) = NULL <=> 1 = size
      BY <2>1, <1>4
    <3> QED
      BY <2>1, <2>2, <3>1, <3>2
  <2>7. Returns(op, 0, TRUE, nodes[s[0 + 1]].value) /\ TakesAt(op, 0)
    BY <1>5, <2>1, <2>2 DEF Doubly!PopFront, Doubly!Answer, Returns, TakesAt
  <2>8. LinksCut(nodes, nodes', Heap, s[0 + 1], PrevAt(s, 0 + 1), NextAt(s, size, 0 + 1))
    BY <2>1, <2>4
  <2> QED
    BY <2>1, <2>5, <2>6, <2>7, <2>8, DoublyShrinks
<1>6. ASSUME NEW op \in {"pop_back", "remove"}, Doubly!PopBack(op)
      PROVE  DoublyInv' /\ ListPromise!Next
  <2>1. PICK i : i = size - 1
    OBVIOUS
  <2>2. /\ size # 0 /\ i \in 0 .. size - 1 /\ i \in Nat /\ i + 1 = size /\ size \in 1 .. size
        /\ (i = 0 <=> size = 1)
    BY <1>1, <1>6, <2>1 DEF Doubly!PopBack
  <2>3. last = s[size] /\ Doubly!PrevOf(s[size]) = PrevAt(s, size) /\ NextAt(s, size, size) = NULL
    BY <2>2, <1>2, <1>3 DEF NextAt
  <2>4. nodes' = Doubly!Linked(Doubly!Linked(Doubly!Without(s[size]),
                                             PrevAt(s, size), "next", NextAt(s, size, size)),
                               NextAt(s, size, size), "prev", PrevAt(s, size))
    BY <1>6, <2>3 DEF Doubly!PopBack, Doubly!Linked
  <2>5. LinksCut(nodes, nodes', Heap, s[size], PrevAt(s, size), NextAt(s, size, size))
    BY <2>2, <2>4, <1>2, <1>4, LinksAreCut
  <2>6. /\ live /\ live' = live /\ size' = size - 1
        /\ last' = IF i = size - 1 THEN PrevAt(s, size) ELSE last
    BY <1>6, <2>1, <2>3 DEF Doubly!PopBack
  <2>7. first' = IF i = 0 THEN NextAt(s, size, 1) ELSE first
    <3>1. first' = IF PrevAt(s, size) = NULL THEN NULL ELSE first
      BY <1>6, <2>3 DEF Doubly!PopBack
    <3>2. PrevAt(s, size) = NULL <=> size = 1
      BY <2>2, <1>4
    <3> QED
      BY <2>2, <2>3, <3>1, <3>2
  <2>8. Returns(op, i, TRUE, nodes[s[i + 1]].value)
    BY <1>6, <2>1, <2>2, <2>3 DEF Doubly!PopBack, Doubly!Answer, Returns
  <2>9. LinksCut(nodes, nodes', Heap, s[i + 1], PrevAt(s, i + 1), NextAt(s, size, i + 1))
    BY <2>2, <2>5
  <2>10. TakesAt(op, i)
    BY <1>1, <2>1 DEF TakesAt
  <2> QED
    BY <2>2, <2>6, <2>7, <2>8, <2>9, <2>10, DoublyShrinks
<1>7. ASSUME NEW i \in 0 .. size, Doubly!RemoveInside(i)
      PROVE  DoublyInv' /\ ListPromise!Next
  <2>1. i \in 1 .. size - 2 /\ i # 0 /\ i # size - 1 /\ i \in 0 .. size - 1 /\ i + 1 \in 1 .. size
    BY <1>1, <1>7 DEF Doubly!RemoveInside
  <2>2. Doubly!NodeAt(i) = s[i + 1]
    BY <2>1, DoublyWalk
  <2>3. /\ Doubly!NextOf(s[i + 1]) = NextAt(s, size, i + 1)
        /\ Doubly!PrevOf(s[i + 1]) = PrevAt(s, i + 1)
    BY <2>1, <1>2
  <2>4. nodes' = Doubly!Linked(Doubly!Linked(Doubly!Without(s[i + 1]),
                                             PrevAt(s, i + 1), "next", NextAt(s, size, i + 1)),
                               NextAt(s, size, i + 1), "prev", PrevAt(s, i + 1))
    BY <1>7, <2>2, <2>3 DEF Doubly!RemoveInside, Doubly!Unspliced
  <2>5. LinksCut(nodes, nodes', Heap, s[i + 1], PrevAt(s, i + 1), NextAt(s, size, i + 1))
    BY <2>1, <2>4, <1>2, <1>4, LinksAreCut
  <2>6. /\ live /\ live' = live /\ size' = size - 1 /\ TakesAt("remove", i)
        /\ Returns("remove", i, TRUE, nodes[s[i + 1]].value)
    BY <1>7, <2>2 DEF Doubly!RemoveInside, Doubly!Get, Doubly!Answer, Returns, TakesAt
  <2>7. /\ first' = IF i = 0 THEN NextAt(s, size, 1) ELSE first
        /\ last' = IF i = size - 1 THEN PrevAt(s, size) ELSE last
    BY <1>7, <2>1 DEF Doubly!RemoveInside
  <2> QED
    BY <2>1, <2>5, <2>6, <2>7, DoublyShrinks
<1> QED
  BY <1>5, <1>6, <1>7

LEMMA DoublyNext ==
  ASSUME InDoubly, DoublyInv, Doubly!Next
  PROVE  DoublyInv' /\ ListPromise!Next
<1>0. PICK s : DoublyHolds(s)
  BY DEF DoublyInv
<1>1. size \in Nat /\ Len(Listed) = size
  BY <1>0, DoublyFacts, DoublyIs
<1>2. CASE Doubly!Create
  <2>1. ~live /\ size = 0 /\ first = NULL /\ last = NULL /\ nodes = [m \in {} |-> NULL]
    <3>1. ~live /\ size = 0 /\ first = NULL /\ last = NULL /\ Heap = {}
      BY <1>0, <1>2 DEF Doubly!Create, DoublyHolds, Threaded
    <3>2. nodes \in [{} -> [value : Pointer, prev : {} \cup {NULL}, next : {} \cup {NULL}]]
      BY <1>0, <3>1 DEF DoublyHolds, DoublyNodes
    <3> QED
      BY <3>1, <3>2
  <2>2. live' = TRUE /\ size' = 0 /\ first' = NULL /\ last' = NULL /\ nodes' = [m \in {} |-> NULL]
    BY <1>2, <2>1 DEF Doubly!Create
  <2>3. Returns("create", 0, TRUE, Untouched)
    BY <1>2 DEF Doubly!Create, Doubly!Answer, Returns
  <2> QED
    BY <2>2, <2>3, DoublyResets
<1>3. CASE Doubly!Destroy
  <2>1. live' = FALSE /\ size' = 0 /\ first' = NULL /\ last' = NULL /\ nodes' = [m \in {} |-> NULL]
    <3>1. Doubly!Heap \ Doubly!Reachable = {}
      BY <1>0, DoublyFacts, DoublyReaches
    <3>2. nodes' = [m \in Doubly!Heap \ Doubly!Reachable |-> nodes[m]]
      BY <1>3 DEF Doubly!Destroy
    <3>3. nodes' = [m \in {} |-> nodes[m]]
      BY <3>1, <3>2
    <3> QED
      BY <1>3, <3>3 DEF Doubly!Destroy
  <2>2. Returns("destroy", 0, TRUE, Untouched)
    BY <1>3 DEF Doubly!Destroy, Doubly!Answer, Returns
  <2> QED
    BY <2>1, <2>2, DoublyResets
<1>4. CASE \E x \in Pointer, new \in Address \ Doubly!Heap :
             \/ Doubly!PushFront("push_front", x, new) \/ Doubly!PushBack("push_back", x, new)
             \/ \E i \in 0 .. size : Doubly!Insert(i, x, new)
  <2>1. Doubly!Heap = Heap
    BY <1>0, DoublyFacts
  <2>2. PICK x \in Pointer, new \in Address \ Heap :
             \/ Doubly!PushFront("push_front", x, new) \/ Doubly!PushBack("push_back", x, new)
             \/ \E i \in 0 .. size : Doubly!Insert(i, x, new)
    BY <1>4, <2>1
  <2>3. \/ \E op \in {"push_front", "insert"} : Doubly!PushFront(op, x, new)
        \/ \E op \in {"push_back", "insert"} : Doubly!PushBack(op, x, new)
        \/ \E i \in 0 .. size : Doubly!InsertInside(i, x, new)
    BY <2>2 DEF Doubly!Insert
  <2> QED
    BY <1>0, <2>3, DoublyAdds
<1>5. CASE \/ Doubly!PopFront("pop_front") \/ Doubly!PopBack("pop_back")
           \/ \E i \in 0 .. size : Doubly!Remove(i)
  <2>1. \/ \E op \in {"pop_front", "remove"} : Doubly!PopFront(op)
        \/ \E op \in {"pop_back", "remove"} : Doubly!PopBack(op)
        \/ \E i \in 0 .. size : Doubly!RemoveInside(i)
    BY <1>5 DEF Doubly!Remove
  <2> QED
    BY <1>0, <2>1, DoublyTakes
<1>6. CASE \/ Doubly!CreateFails
           \/ Doubly!AddFails("push_front", 0) \/ Doubly!AddFails("push_back", size)
           \/ \E i \in 0 .. size + 1 : Doubly!AddFails("insert", i)
           \/ \E op \in {"pop_front", "pop_back"} : Doubly!PopFails(op)
           \/ \E i \in 0 .. size : Doubly!RemoveFails(i)
  <2>1. PICK op, i : Doubly!Fail(op, i) /\ i \in Nat /\ NotThere(op, i)
    <3>1. CASE Doubly!CreateFails
      BY <3>1 DEF Doubly!CreateFails, NotThere
    <3>2. CASE Doubly!AddFails("push_front", 0) \/ Doubly!AddFails("push_back", size)
      BY <3>2, <1>1 DEF Doubly!AddFails, NotThere
    <3>3. CASE \E i \in 0 .. size + 1 : Doubly!AddFails("insert", i)
      BY <3>3, <1>1 DEF Doubly!AddFails, NotThere
    <3>4. CASE \E op \in {"pop_front", "pop_back"} : Doubly!PopFails(op)
      BY <3>4, <1>1 DEF Doubly!PopFails, NotThere
    <3>5. CASE \E i \in 0 .. size : Doubly!RemoveFails(i)
      BY <3>5, <1>1 DEF Doubly!RemoveFails, NotThere
    <3> QED
      BY <1>6, <3>1, <3>2, <3>3, <3>4, <3>5
  <2>2. UNCHANGED <<live, size, first, last, nodes>> /\ Returns(op, i, FALSE, Untouched)
    BY <2>1 DEF Doubly!Fail, Doubly!list, Doubly!Answer, Returns
  <2> QED
    BY <1>0, <2>1, <2>2, DoublyRefuses
<1> QED
  BY <1>2, <1>3, <1>4, <1>5, <1>6 DEF Doubly!Next

------------------------------------------------------------------------------
(* ----------------------------- the containers ----------------------------- *)
(* What holds between the calls of any of the containers.                    *)
ContainersInv ==
  /\ kind \in Kinds
  /\ kind = "tree" => TreeHeld /\ reply.ok \in BOOLEAN
  /\ kind # "tree" => root = NULL
  /\ kind = "queue" => QueueInv /\ Queue!StaleSlotsClear
  /\ kind \in {"stack", "array"} => BufferInv
  /\ kind = "singly" => SinglyInv
  /\ kind = "doubly" => DoublyInv

(* The three promises stutter.                                               *)
SetStutters == UNCHANGED Promise!vars
QueueStutters == UNCHANGED QueuePromise!vars
ListStutters == UNCHANGED ListPromise!vars

(* A container that is not a tree, not a queue or not a list shows nothing.  *)
LEMMA NoTreeStoresNothing == root = NULL => Stored = [r \in {} |-> NULL]
<1> SUFFICES ASSUME root = NULL PROVE Stored = [r \in {} |-> NULL]
  OBVIOUS
<1>1. Findable = {}
  BY DEF Findable, Matches
<1>2. {Rank(x) : x \in {}} = {}
  OBVIOUS
<1>3. Stored = [r \in {} |-> Value(Reached(r))]
  BY <1>1, <1>2 DEF Stored
<1> QED
  BY <1>3

LEMMA NoTreeStoresNothingNext == (root = NULL => Stored = [r \in {} |-> NULL])'
BY NoTreeStoresNothing, PTL

LEMMA HeldIsFoundNext == (TreeAssumption /\ TreeHeld => FindsValues)'
BY HeldIsFound, PTL

LEMMA NoTreeStutters ==
  ASSUME root = NULL, root' = NULL, reply' = reply
  PROVE  SetStutters
BY NoTreeStoresNothing, NoTreeStoresNothingNext DEF SetStutters, Promise!vars

LEMMA NoQueueStutters ==
  ASSUME kind # "queue", kind' = kind, answer' = answer
  PROVE  QueueStutters
BY DEF QueueStutters, QueuePromise!vars, Queued

LEMMA NoListStutters ==
  ASSUME kind \in {"tree", "queue"}, kind' = kind, result' = result
  PROVE  ListStutters
<1>1. Listed = <<>> /\ Listed' = <<>>
  BY DEF Listed
<1> QED
  BY <1>1 DEF ListStutters, ListPromise!vars

------------------------------------------------------------------------------
LEMMA ContainersInitInv == ContainersInit => ContainersInv
<1> SUFFICES ASSUME ContainersInit PROVE ContainersInv
  OBVIOUS
<1>1. /\ kind \in Kinds /\ Init /\ Queue!Init /\ Pile!Init /\ Array!Init
      /\ Singly!Init /\ Doubly!Init
  BY DEF ContainersInit
<1>2. TreeHeld /\ reply.ok \in BOOLEAN /\ root = NULL
  BY <1>1, InitHolds DEF TreeHeld, Init
<1>3. QueueInv /\ Queue!StaleSlotsClear
  BY <1>1, QueueInitIndInv DEF Queue!Init, Queue!StaleSlotsClear, Queue!NoSlots
<1>4. /\ live = FALSE /\ size = 0 /\ capacity = 0 /\ items = [i \in {} |-> NULL] /\ blocks = 0
      /\ first = NULL /\ last = NULL /\ nodes = [m \in {} |-> NULL] /\ result.ok = TRUE
  BY <1>1 DEF Pile!Init, Pile!NoSlots, Doubly!Init, Doubly!NoNodes
<1>5. BufferInv
  <2>1. Fits(0)
    BY SizeAssumption DEF Fits
  <2>2. Filled(items, 0, 0)
    BY <1>4 DEF Filled, Slots
  <2> QED
    BY <1>4, <2>1, <2>2 DEF BufferInv
<1>6. PICK M : M = [m \in {} |-> NULL]
  OBVIOUS
<1>7. Heap = {} /\ nodes = M /\ IsFiniteSet({}) /\ Cardinality({}) = 0
  BY <1>4, <1>6, FS_EmptySet DEF Heap
<1>8. Threaded(<<>>, {}, 0) /\ Forwards(<<>>, M, 0) /\ Backwards(<<>>, M, 0)
  BY DEF Threaded, Forwards, Backwards
<1>9. SinglyNodes(M, {}) /\ DoublyNodes(M, {})
  BY <1>6 DEF SinglyNodes, DoublyNodes
<1>10. SinglyHolds(<<>>)
  BY <1>4, <1>7, <1>8, <1>9 DEF SinglyHolds
<1>11. DoublyHolds(<<>>)
  BY <1>4, <1>7, <1>8, <1>9 DEF DoublyHolds
<1> QED
  BY <1>1, <1>2, <1>3, <1>5, <1>10, <1>11 DEF ContainersInv, SinglyInv, DoublyInv

LEMMA ContainersInitPromises ==
  ContainersInit => Promise!Init /\ QueuePromise!Init /\ ListPromise!Init
<1> SUFFICES ASSUME ContainersInit PROVE Promise!Init /\ QueuePromise!Init /\ ListPromise!Init
  OBVIOUS
<1>1. /\ kind \in Kinds /\ Init /\ Queue!Init /\ Pile!Init /\ Singly!Init /\ Doubly!Init
  BY DEF ContainersInit
<1>2. Promise!Init
  BY <1>1, NoTreeStoresNothing DEF Init, Promise!Init, Promise!Nothing
<1>3. QueuePromise!Init
  <2>1. Queue!Contents = <<>>
    BY <1>1 DEF Queue!Init, Queue!Contents, Queue!RingItems
  <2>2. Queued = <<>>
    BY <2>1 DEF Queued
  <2> QED
    BY <1>1, <2>2 DEF Queue!Init, QueuePromise!Init, QueuePromise!Answer
<1>4. ListPromise!Init
  <2>1. ContainersInv /\ size = 0
    BY <1>1, ContainersInitInv DEF Pile!Init
  <2>2. Listed = <<>>
    <3>1. CASE kind \in {"tree", "queue"}
      BY <3>1 DEF Listed
    <3>2. CASE kind \in {"stack", "array"}
      BY <2>1, <3>2, ListedBuffer DEF ContainersInv, Items
    <3>3. CASE kind = "singly"
      BY <2>1, <3>3, ListedSingly DEF ContainersInv, SinglyInv, Along
    <3>4. CASE kind = "doubly"
      BY <2>1, <3>4, ListedDoubly DEF ContainersInv, DoublyInv, Along
    <3> QED
      BY <1>1, <3>1, <3>2, <3>3, <3>4 DEF Kinds
  <2> QED
    BY <1>1, <2>2 DEF Pile!Init, ListPromise!Init
<1> QED
  BY <1>2, <1>3, <1>4

------------------------------------------------------------------------------
(* What one step does to the invariant and to the promises.                  *)
KeepsPromises ==
  /\ ContainersInv'
  /\ Promise!Next \/ SetStutters
  /\ QueuePromise!Next \/ QueueStutters
  /\ ListPromise!Next \/ ListStutters

LEMMA TreeKeeps == ASSUME ContainersInv, TreeStep PROVE KeepsPromises
<1>1. /\ kind = "tree" /\ kind' = "tree" /\ Next /\ answer' = answer /\ result' = result
  BY DEF TreeStep, ring
<1>2. TreeAssumption /\ TreeHeld
  BY <1>1, ContainersAssumption DEF ContainersInv
<1>3. TreeHeld' /\ (FindsValues /\ FindsValues' => Promise!Next) /\ reply'.ok \in BOOLEAN
  BY <1>1, <1>2, TreeNext, ReplyTyped DEF Promised
<1>4. FindsValues /\ FindsValues'
  BY <1>2, <1>3, HeldIsFound, HeldIsFoundNext
<1>5. ContainersInv'
  BY <1>1, <1>3 DEF ContainersInv, Kinds
<1> QED
  BY <1>1, <1>3, <1>4, <1>5, NoQueueStutters, NoListStutters DEF KeepsPromises

LEMMA QueueKeeps == ASSUME ContainersInv, QueueStep PROVE KeepsPromises
<1>1. /\ InQueue /\ kind = "queue" /\ kind' = kind /\ Queue!Next
      /\ root' = root /\ reply' = reply /\ result' = result
  BY DEF QueueStep, InQueue, treeLinks
<1>2. QueueInv /\ Queue!StaleSlotsClear /\ root = NULL
  BY <1>1 DEF ContainersInv
<1>3. QueueInv' /\ QueuePromise!Next /\ Queue!StaleSlotsClear'
  BY <1>1, <1>2, QueueNextStep, QueueStaleStep
<1>4. ContainersInv'
  BY <1>1, <1>2, <1>3 DEF ContainersInv, Kinds
<1> QED
  BY <1>1, <1>2, <1>3, <1>4, NoTreeStutters, NoListStutters DEF KeepsPromises

LEMMA BufferKeeps == ASSUME ContainersInv, StackStep \/ ArrayStep PROVE KeepsPromises
<1>1. /\ InBuffer /\ kind \in {"stack", "array"} /\ kind' = kind
      /\ Pile!Next \/ Array!Next
      /\ root' = root /\ reply' = reply /\ answer' = answer
  BY DEF StackStep, ArrayStep, InBuffer, treeLinks, ring
<1>2. BufferInv /\ root = NULL
  BY <1>1 DEF ContainersInv
<1>3. BufferInv' /\ ListPromise!Next
  BY <1>1, <1>2, StackNext, ArrayNext
<1>4. ContainersInv'
  BY <1>1, <1>2, <1>3 DEF ContainersInv, Kinds
<1> QED
  BY <1>1, <1>2, <1>3, <1>4, NoTreeStutters, NoQueueStutters DEF KeepsPromises

LEMMA SinglyKeeps == ASSUME ContainersInv, SinglyStep PROVE KeepsPromises
<1>1. /\ InSingly /\ kind = "singly" /\ kind' = kind /\ Singly!Next
      /\ root' = root /\ reply' = reply /\ answer' = answer
  BY DEF SinglyStep, InSingly, treeLinks, ring
<1>2. SinglyInv /\ root = NULL
  BY <1>1 DEF ContainersInv
<1>3. SinglyInv' /\ ListPromise!Next
  BY <1>1, <1>2, SinglyNext
<1>4. ContainersInv'
  BY <1>1, <1>2, <1>3 DEF ContainersInv, Kinds
<1> QED
  BY <1>1, <1>2, <1>3, <1>4, NoTreeStutters, NoQueueStutters DEF KeepsPromises

LEMMA DoublyKeeps == ASSUME ContainersInv, DoublyStep PROVE KeepsPromises
<1>1. /\ InDoubly /\ kind = "doubly" /\ kind' = kind /\ Doubly!Next
      /\ root' = root /\ reply' = reply /\ answer' = answer
  BY DEF DoublyStep, InDoubly, treeLinks, ring
<1>2. DoublyInv /\ root = NULL
  BY <1>1 DEF ContainersInv
<1>3. DoublyInv' /\ ListPromise!Next
  BY <1>1, <1>2, DoublyNext
<1>4. ContainersInv'
  BY <1>1, <1>2, <1>3 DEF ContainersInv, Kinds
<1> QED
  BY <1>1, <1>2, <1>3, <1>4, NoTreeStutters, NoQueueStutters DEF KeepsPromises

(* A step in which no variable changes.                                      *)
LEMMA StutterKeeps == ASSUME ContainersInv, UNCHANGED containersVars PROVE KeepsPromises
<1>1. /\ kind' = kind /\ UNCHANGED <<live, size, root, nodes, reply>>
      /\ UNCHANGED <<capacity, items, blocks, head, tail, answer>>
      /\ UNCHANGED <<first, last, result>>
  BY DEF containersVars, vars, tree, memory, ring, ends
<1>2. SetStutters /\ (kind = "tree" => TreeHeld')
  <2>1. CASE kind = "tree"
    <3>1. TreeHeld /\ TreeAssumption /\ UNCHANGED tree
      BY <1>1, <2>1, ContainersAssumption DEF ContainersInv, tree
    <3>2. TreeHeld' /\ Values' = Values
      BY <3>1, SameTreeHeld
    <3>3. Stored' = Stored
      BY <3>1, <3>2, HeldIsFound, HeldIsFoundNext, SameValuesSameStored
    <3> QED
      BY <1>1, <3>2, <3>3 DEF SetStutters, Promise!vars
  <2>2. CASE kind # "tree"
    BY <1>1, <2>2, NoTreeStutters DEF ContainersInv
  <2> QED
    BY <2>1, <2>2
<1>3. QueueStutters /\ (kind = "queue" => QueueInv' /\ Queue!StaleSlotsClear')
  <2>1. Queued' = Queued
    BY <1>1 DEF Queued, Queue!Contents, Queue!RingItems, Queue!RingSlot
  <2>2. kind = "queue" => QueueInv' /\ Queue!StaleSlotsClear'
    BY <1>1, QueueSameStale
       DEF ContainersInv, QueueInv, Queue!TypeOK, Queue!RingShape, Queue!OwnsItsBlocks, Addressable,
           Queue!fields
  <2> QED
    BY <1>1, <2>1, <2>2 DEF QueueStutters, QueuePromise!vars
<1>4. /\ kind \in {"stack", "array"} => BufferInv' /\ Listed' = Listed
      /\ kind = "singly" => SinglyInv' /\ Listed' = Listed
      /\ kind = "doubly" => DoublyInv' /\ Listed' = Listed
  <2>0. Heap' = Heap
    BY <1>1 DEF Heap
  <2>1. CASE kind \in {"stack", "array"}
    <3>1. BufferInv /\ InBuffer
      BY <1>1, <2>1 DEF ContainersInv, InBuffer
    <3>2. BufferInv'
      BY <1>1, <3>1 DEF BufferInv
    <3> QED
      BY <1>1, <2>1, <3>1, <3>2, BufferIs
  <2>2. CASE kind = "singly"
    <3>1. PICK s : SinglyHolds(s)
      BY <2>2 DEF ContainersInv, SinglyInv
    <3>2. SinglyHolds(s)' /\ InSingly
      BY <1>1, <2>0, <2>2, <3>1 DEF SinglyHolds, InSingly
    <3> QED
      BY <1>1, <2>2, <3>1, <3>2, SinglyIs, SinglyNextIs
  <2>3. CASE kind = "doubly"
    <3>1. PICK s : DoublyHolds(s)
      BY <2>3 DEF ContainersInv, DoublyInv
    <3>2. DoublyHolds(s)' /\ InDoubly
      BY <1>1, <2>0, <2>3, <3>1 DEF DoublyHolds, InDoubly
    <3> QED
      BY <1>1, <2>3, <3>1, <3>2, DoublyIs, DoublyNextIs
  <2> QED
    BY <2>1, <2>2, <2>3
<1>5. ListStutters
  <2>1. CASE kind \in {"tree", "queue"}
    BY <1>1, <2>1, NoListStutters
  <2>2. CASE kind \notin {"tree", "queue"}
    <3>1. kind \in {"stack", "array"} \/ kind = "singly" \/ kind = "doubly"
      BY <2>2 DEF ContainersInv, Kinds
    <3>2. Listed' = Listed
      BY <1>4, <3>1
    <3> QED
      BY <1>1, <3>2 DEF ListStutters, ListPromise!vars
  <2> QED
    BY <2>1, <2>2
<1>6. ContainersInv'
  BY <1>1, <1>2, <1>3, <1>4 DEF ContainersInv
<1> QED
  BY <1>2, <1>3, <1>5, <1>6 DEF KeepsPromises

LEMMA ContainersStep ==
  ContainersInv /\ [ContainersNext]_containersVars => KeepsPromises
BY TreeKeeps, QueueKeeps, BufferKeeps, SinglyKeeps, DoublyKeeps, StutterKeeps DEF ContainersNext

LEMMA ContainersInvariance == ContainersSpec => []ContainersInv
<1>1. ContainersInv /\ [ContainersNext]_containersVars => ContainersInv'
  BY ContainersStep DEF KeepsPromises
<1> QED
  BY <1>1, ContainersInitInv, PTL DEF ContainersSpec

------------------------------------------------------------------------------
(* In every reachable state the pointers, indexes and counters of each     *)
(* container agree, for every set of items and addresses and every         *)
(* SIZE_MAX: one search tree of all nodes, numbered by the adapter as      *)
(* in_order visits them; a ring and buffers inside the granted memory; and *)
(* lists whose walks meet every node once.                                 *)
THEOREM ContainersStayWellFormed == ContainersSpec => []ContainersWellFormed
<1>1. ContainersInv => ContainersWellFormed
  <2> SUFFICES ASSUME ContainersInv PROVE ContainersWellFormed
    OBVIOUS
  <2>1. CASE kind = "tree"
    BY <2>1, HeldIsWellFormed DEF ContainersInv, ContainersWellFormed
  <2>2. CASE kind = "queue"
    BY <2>2 DEF ContainersInv, QueueInv, Queue!WellFormed, ContainersWellFormed
  <2>3. CASE kind = "stack"
    BY <2>3, BufferIsWellFormed DEF ContainersInv, ContainersWellFormed
  <2>4. CASE kind = "array"
    BY <2>4, BufferIsWellFormed DEF ContainersInv, ContainersWellFormed
  <2>5. CASE kind = "singly"
    BY <2>5, SinglyIsWellFormed DEF ContainersInv, SinglyInv, ContainersWellFormed
  <2>6. CASE kind = "doubly"
    BY <2>6, DoublyIsWellFormed DEF ContainersInv, DoublyInv, ContainersWellFormed
  <2> QED
    BY <2>1, <2>2, <2>3, <2>4, <2>5, <2>6 DEF ContainersInv, Kinds
<1> QED
  BY <1>1, ContainersInvariance, PTL

(* Neither queue_dequeue nor the growth in queue_enqueue ever leaves an    *)
(* item pointer behind in a slot that is out of use, wherever the ring     *)
(* wraps.                                                                  *)
THEOREM NoStalePointer == ContainersSpec => []StaleSlotsClear
<1>1. ContainersInv => StaleSlotsClear
  BY DEF ContainersInv, StaleSlotsClear
<1> QED
  BY <1>1, ContainersInvariance, PTL

(* queue.c implements a first-in-first-out queue, for every SIZE_MAX, every *)
(* pointer size and every set of items: no sequence of calls, growth at    *)
(* any wrap position and failed allocation loses, duplicates or reorders   *)
(* an item.                                                                *)
THEOREM QueueIsFifo == ContainersSpec => ImplementsFifo
<1>1. ContainersInv /\ [ContainersNext]_containersVars => [QueuePromise!Next]_(QueuePromise!vars)
  BY ContainersStep DEF KeepsPromises, QueueStutters
<1>2. ContainersInit => QueuePromise!Init
  BY ContainersInitPromises
<1> QED
  BY <1>1, <1>2, ContainersInvariance, PTL DEF ContainersSpec, ImplementsFifo, QueuePromise!Spec

(* stack.c, dynamic_array.c, singly_linked_list.c and doubly_linked_list.c *)
(* implement the promised sequence: whichever walk, shift, splice or       *)
(* growth a call takes, it adds, takes or replaces the one item at the     *)
(* place it names, and a failed call changes nothing.                      *)
THEOREM ListsKeepItems == ContainersSpec => ImplementsItemList
<1>1. ContainersInv /\ [ContainersNext]_containersVars => [ListPromise!Next]_(ListPromise!vars)
  BY ContainersStep DEF KeepsPromises, ListStutters
<1>2. ContainersInit => ListPromise!Init
  BY ContainersInitPromises
<1> QED
  BY <1>1, <1>2, ContainersInvariance, PTL DEF ContainersSpec, ImplementsItemList, ListPromise!Spec

(* binary_search_tree.c implements the promised set: find returns exactly  *)
(* the items inserted and not removed, whichever node a removal promotes.  *)
THEOREM TreeIsOrderedSet == ContainersSpec => ImplementsOrderedSet
<1>1. ContainersInv /\ [ContainersNext]_containersVars => [Promise!Next]_(Promise!vars)
  BY ContainersStep DEF KeepsPromises, SetStutters
<1>2. ContainersInit => Promise!Init
  BY ContainersInitPromises
<1> QED
  BY <1>1, <1>2, ContainersInvariance, PTL DEF ContainersSpec, ImplementsOrderedSet, Promise!Spec
==============================================================================
