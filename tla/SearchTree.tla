------------------------------ MODULE SearchTree ------------------------------
(***************************************************************************)
(* The binary search tree of                                               *)
(* src/data-structures/trees/binary-search-trees/binary-search-tree/       *)
(* binary_search_tree.c, down to its child pointers.  One action is one    *)
(* call; the ways a removal relinks the tree are actions of their own.     *)
(***************************************************************************)
EXTENDS Naturals, Sequences, FiniteSets

CONSTANTS
  Item,        (* the pointers a caller stores                             *)
  Rank(_),     (* compare(a, b) has the sign of Rank(a) - Rank(b)          *)
  Address,     (* the addresses malloc can give to nodes                   *)
  NULL,
  Untouched    (* an output location the call did not write                *)

TreeAssumption ==
  /\ IsFiniteSet(Address) /\ NULL \notin Address
  /\ \A x \in Item : Rank(x) \in Nat

VARIABLES
  live,        (* whether the caller holds a tree                          *)
  size, root,
  nodes,       (* the nodes on the heap: value, left and right             *)
  reply        (* what the last call returned                              *)

tree == <<live, size, root, nodes>>
vars == <<tree, reply>>

Heap == DOMAIN nodes
Left(n) == nodes[n].left
Right(n) == nodes[n].right
Value(n) == nodes[n].value

Answer(op, x, ok, out) == reply' = [op |-> op, item |-> x, ok |-> ok, out |-> out]

Fail(op, x) == UNCHANGED tree /\ Answer(op, x, FALSE, Untouched)

NoNodes == [n \in {} |-> NULL]

Init ==
  /\ live = FALSE /\ size = 0 /\ root = NULL /\ nodes = NoNodes
  /\ reply = [op |-> "none", item |-> NULL, ok |-> TRUE, out |-> Untouched]

Create ==
  /\ ~live
  /\ live' = TRUE
  /\ UNCHANGED <<size, root, nodes>>
  /\ Answer("create", NULL, TRUE, Untouched)

CreateFails == ~live /\ Fail("create", NULL)

------------------------------------------------------------------------------
(* traverse_tree: the nodes in the order of the action that is applied to  *)
(* them, each after its left and before its right subtree.                 *)
Walked ==
  LET below[n \in Heap] ==
        (IF Left(n) = NULL THEN <<>> ELSE below[Left(n)])
        \o <<n>> \o
        (IF Right(n) = NULL THEN <<>> ELSE below[Right(n)])
  IN  IF root = NULL THEN <<>> ELSE below[root]

Freed == {Walked[i] : i \in DOMAIN Walked}

Destroy ==
  /\ live
  /\ live' = FALSE /\ size' = 0 /\ root' = NULL
  /\ nodes' = [n \in Heap \ Freed |-> nodes[n]]
  /\ Answer("destroy", NULL, TRUE, Untouched)

(* The node where the descent of insert, find and remove for a rank ends:  *)
(* the match, or the node that has no child on the side of the rank.       *)
Reached(r) ==
  LET from[n \in Heap] ==
        IF Rank(Value(n)) > r THEN IF Left(n) = NULL THEN n ELSE from[Left(n)]
        ELSE IF Rank(Value(n)) < r THEN IF Right(n) = NULL THEN n ELSE from[Right(n)]
        ELSE n
  IN  from[root]

Matches(x) == root # NULL /\ Rank(Value(Reached(Rank(x)))) = Rank(x)

(* What find and contains answer. *)
Found(x) == Value(Reached(Rank(x)))

------------------------------------------------------------------------------
Leaf(x) == [value |-> x, left |-> NULL, right |-> NULL]

(* A new leaf for x below the node where the descent ended. *)
Hung(x, new, at) ==
  [n \in Heap \cup {new} |->
     IF n = new THEN Leaf(x)
     ELSE IF n # at THEN nodes[n]
     ELSE IF Rank(Value(n)) > Rank(x) THEN [nodes[n] EXCEPT !.left = new]
     ELSE [nodes[n] EXCEPT !.right = new]]

InsertRoot(x, new) ==
  /\ live /\ size = 0
  /\ nodes' = [n \in Heap \cup {new} |-> IF n = new THEN Leaf(x) ELSE nodes[n]]
  /\ root' = new
  /\ size' = size + 1
  /\ UNCHANGED live
  /\ Answer("insert", x, TRUE, Untouched)

InsertLeaf(x, new) ==
  /\ live /\ size # 0 /\ root # NULL
  /\ ~Matches(x)
  /\ nodes' = Hung(x, new, Reached(Rank(x)))
  /\ size' = size + 1
  /\ UNCHANGED <<live, root>>
  /\ Answer("insert", x, TRUE, Untouched)

(* malloc returned NULL, or the rank is taken. *)
InsertFails(x) == live /\ Fail("insert", x)

------------------------------------------------------------------------------
(* The parent of a node of the search path, NULL for the root. *)
Parent(n) ==
  IF n = root THEN NULL ELSE CHOOSE p \in Heap : Left(p) = n \/ Right(p) = n

(* Which link of the parent leads to the match: its value is compared with *)
(* the key once more.                                                      *)
IsLeft(p, x) == Rank(Value(p)) > Rank(x)

(* Fault: a single lower child is taken for none. *)
HigherChild(n) == Right(n)

OnlyChild(n) == IF Right(n) = NULL THEN Left(n) ELSE Right(n)

(* The match gives way to its only child, or to nothing. *)
Promoted(x, n, child) ==
  [m \in Heap \ {n} |->
     IF m # Parent(n) THEN nodes[m]
     ELSE IF IsLeft(m, x) THEN [nodes[m] EXCEPT !.left = child]
     ELSE [nodes[m] EXCEPT !.right = child]]

RootWithout(n, child) == IF n = root THEN child ELSE root

RemoveSplice(x) ==
  /\ live /\ Matches(x)
  /\ LET n == Reached(Rank(x))
         child == OnlyChild(n)
     IN  /\ Left(n) = NULL \/ Right(n) = NULL
         /\ nodes' = Promoted(x, n, child)
         /\ root' = RootWithout(n, child)
         /\ Answer("remove", x, TRUE, Value(n))
  /\ size' = size - 1
  /\ UNCHANGED live

(* The leftmost node below a node. *)
Leftmost(n) ==
  LET from[m \in Heap] == IF Left(m) = NULL THEN m ELSE from[Left(m)]
  IN  from[n]

(* Fault: the successor's right subtree is dropped. *)
RestDropped(next) == NULL

Rest(next) == Right(next)

(* The match has two children: it takes the value of its successor, whose  *)
(* right subtree moves up to the successor's parent.                       *)
RemoveSuccessor(x) ==
  /\ live /\ Matches(x)
  /\ LET n == Reached(Rank(x))
         next == Leftmost(Right(n))
     IN  /\ Left(n) # NULL /\ Right(n) # NULL
         /\ nodes' = [m \in Heap \ {next} |->
              IF m = n
              THEN [nodes[m] EXCEPT !.value = Value(next),
                                    !.right = IF @ = next THEN Rest(next) ELSE @]
              ELSE IF Left(m) = next THEN [nodes[m] EXCEPT !.left = Rest(next)]
              ELSE nodes[m]]
         /\ Answer("remove", x, TRUE, Value(n))
  /\ size' = size - 1
  /\ UNCHANGED <<live, root>>

RemoveFails(x) ==
  /\ live
  /\ ~Matches(x)
  /\ Fail("remove", x)

Next ==
  \/ Create \/ CreateFails \/ Destroy
  \/ \E x \in Item :
       \/ \E new \in Address \ Heap : InsertRoot(x, new) \/ InsertLeaf(x, new)
       \/ InsertFails(x)
       \/ RemoveSplice(x) \/ RemoveSuccessor(x) \/ RemoveFails(x)

Spec == Init /\ [][Next]_vars

------------------------------------------------------------------------------
(* The GraphView adapter numbers the nodes with a counter that both walks  *)
(* share with their recursion: each walk is a function of the node and the *)
(* counter on entry, to its result and the counter on exit.                *)
(* Fault: the counter is advanced before it is compared. *)
NodeAtLate(target) ==
  LET walk[n \in Heap \cup {NULL}] == [current \in Nat |->
        IF n = NULL THEN <<NULL, current>>
        ELSE LET left == walk[Left(n)][current]
             IN  IF left[1] # NULL THEN left
                 ELSE IF left[2] + 1 = target THEN <<n, left[2]>>
                 ELSE walk[Right(n)][left[2] + 1]]
  IN  walk[root][0][1]

(* binary_search_tree_node_at: the node with a dense index. *)
NodeAt(target) ==
  LET walk[n \in Heap \cup {NULL}] == [current \in Nat |->
        IF n = NULL THEN <<NULL, current>>
        ELSE LET left == walk[Left(n)][current]
             IN  IF left[1] # NULL THEN left
                 ELSE IF left[2] = target THEN <<n, left[2]>>
                 ELSE walk[Right(n)][left[2] + 1]]
  IN  walk[root][0][1]

(* binary_search_tree_index_of: the dense index of a node.  Its answers    *)
(* true and false are the node that is met and NULL.                       *)
IndexOf(target) ==
  LET walk[n \in Heap \cup {NULL}] == [current \in Nat |->
        IF n = NULL THEN <<NULL, current>>
        ELSE LET left == walk[Left(n)][current]
             IN  IF left[1] # NULL THEN left
                 ELSE IF n = target THEN <<n, left[2]>>
                 ELSE walk[Right(n)][left[2] + 1]]
  IN  walk[root][0][2]

(* The edges of the view: the indexes of a node's children. *)
Children(n) == {Left(n), Right(n)} \ {NULL}
Neighbors(i) == {IndexOf(c) : c \in Children(NodeAt(i))}

------------------------------------------------------------------------------
(* Every variable has its type. *)
TypeOK ==
  /\ live \in BOOLEAN /\ size \in Nat
  /\ root \in Heap \cup {NULL}
  /\ nodes \in [Heap -> [value : Item, left : Address \cup {NULL}, right : Address \cup {NULL}]]
  /\ reply.ok \in BOOLEAN

(* The pointers make a tree of all the nodes there are: the root and every *)
(* child link lead to a different node on the heap, and to each one, so a  *)
(* removal neither loses a subtree nor leaves a link to a freed node.      *)
Links == {l \in Heap \X {"left", "right"} : nodes[l[1]][l[2]] # NULL}
TreeOfAllNodes ==
  /\ root = NULL <=> Heap = {}
  /\ \A n \in Heap :
       Cardinality({l \in Links : nodes[l[1]][l[2]] = n}) = IF n = root THEN 0 ELSE 1
  /\ \A l \in Links : nodes[l[1]][l[2]] \in Heap
  /\ Freed = Heap
  /\ ~live => Heap = {}

(* in_order visits as many items as size says, in strictly rising order.   *)
InOrderRises ==
  /\ Len(Walked) = size
  /\ \A i, j \in DOMAIN Walked : i < j => Rank(Value(Walked[i])) < Rank(Value(Walked[j]))

(* The nodes are a binary search tree of all the items.                    *)
WellFormed == TypeOK /\ TreeOfAllNodes /\ InOrderRises

(* The two walks of the GraphView adapter agree with in_order and so with  *)
(* each other: an index leads to a node and that node back to the index.   *)
(* So the view shows a tree: every index but the root's has one parent.    *)
IndexesAgree ==
  \A i \in DOMAIN Walked :
    /\ NodeAt(i - 1) = Walked[i]
    /\ IndexOf(Walked[i]) = i - 1
    /\ Cardinality({j \in 0 .. size - 1 : i - 1 \in Neighbors(j)})
         = IF Walked[i] = root THEN 0 ELSE 1

------------------------------------------------------------------------------
(* The items that find returns. *)
Findable == {x \in Item : live /\ Matches(x)}

(* The item that find returns for each rank. *)
Stored == [r \in {Rank(x) : x \in Findable} |-> Value(Reached(r))]

Promise == INSTANCE OrderedSet WITH stored <- Stored

(* The tree is the promised set: every removal keeps all other items where *)
(* a descent finds them.                                                   *)
ImplementsOrderedSet == Promise!Spec
==============================================================================
