--------------------------- MODULE DoublyLinkedList ---------------------------
(***************************************************************************)
(* The list of                                                             *)
(* src/data-structures/linear/linked/doubly-linked-list/                   *)
(* doubly_linked_list.c, down to its pointers in both directions.  One     *)
(* action is one call of the API.                                          *)
(***************************************************************************)
EXTENDS Naturals, Sequences, FiniteSets

CONSTANTS
  Item,        (* the pointers a caller stores; NULL may be one of them    *)
  Address,     (* the addresses malloc can give to nodes                   *)
  NULL,
  Untouched    (* an output location the call did not write                *)

ListAssumption ==
  IsFiniteSet(Address) /\ NULL \notin Address /\ Untouched \notin Item

VARIABLES
  live,        (* whether the caller holds a list                          *)
  size, first, last,
  nodes,       (* the nodes on the heap: value, prev and next              *)
  reply        (* what the last call returned                              *)

list == <<live, size, first, last, nodes>>
vars == <<list, reply>>

Heap == DOMAIN nodes

(* A link that is followed from anything but a node leads to NULL here;    *)
(* WalksMeet says that the code follows none.                              *)
NextOf(n) == IF n \in Heap THEN nodes[n].next ELSE NULL
PrevOf(n) == IF n \in Heap THEN nodes[n].prev ELSE NULL

Answer(op, i, ok, out) == reply' = [op |-> op, index |-> i, ok |-> ok, out |-> out]

Fail(op, i) == UNCHANGED list /\ Answer(op, i, FALSE, Untouched)

NoNodes == [n \in {} |-> NULL]

Init ==
  /\ live = FALSE /\ size = 0 /\ first = NULL /\ last = NULL /\ nodes = NoNodes
  /\ reply = [op |-> "none", index |-> 0, ok |-> TRUE, out |-> Untouched]

Create ==
  /\ ~live
  /\ live' = TRUE
  /\ UNCHANGED <<size, first, last, nodes>>
  /\ Answer("create", 0, TRUE, Untouched)

CreateFails == ~live /\ Fail("create", 0)

------------------------------------------------------------------------------
(* The node at an index, counted forward from first or back from last. *)
Forward ==
  [i \in 0 .. size - 1 |->
     LET step[n \in 0 .. i] == IF n = 0 THEN first ELSE NextOf(step[n - 1]) IN step[i]]

Backward ==
  [i \in 0 .. size - 1 |->
     LET step[n \in i .. size - 1] == IF n = size - 1 THEN last ELSE PrevOf(step[n + 1])
     IN  step[i]]

(* Fault: the walk from the end starts one place early. *)
NodeAtEarly(i) == IF i < size \div 2 THEN Forward[i] ELSE PrevOf(Backward[i])

(* Every walk to an index starts at the nearer end. *)
NodeAt(i) == IF i < size \div 2 THEN Forward[i] ELSE Backward[i]

(* doubly_linked_list_get *)
Get(i) == nodes[NodeAt(i)].value

(* The arcs of the GraphView adapter. *)
Neighbors(i) ==
  (IF NextOf(NodeAt(i)) # NULL THEN {i + 1} ELSE {})
    \cup (IF PrevOf(NodeAt(i)) # NULL THEN {i - 1} ELSE {})

Reachable == {Forward[i] : i \in DOMAIN Forward}

Destroy ==
  /\ live
  /\ live' = FALSE /\ size' = 0 /\ first' = NULL /\ last' = NULL
  /\ nodes' = [n \in Heap \ Reachable |-> nodes[n]]
  /\ Answer("destroy", 0, TRUE, Untouched)

------------------------------------------------------------------------------
(* The heap with a new node, or without one. *)
With(n, x, p, q) ==
  [m \in Heap \cup {n} |-> IF m = n THEN [value |-> x, prev |-> p, next |-> q] ELSE nodes[m]]
Without(n) == [m \in Heap \ {n} |-> nodes[m]]

(* The heap h after n->side = to, which the code leaves out for a NULL n. *)
Linked(h, n, side, to) == IF n = NULL THEN h ELSE [h EXCEPT ![n][side] = to]

PushFront(op, x, new) ==
  /\ live
  /\ nodes' = Linked(With(new, x, NULL, first), first, "prev", new)
  /\ first' = new
  /\ last' = IF last = NULL THEN new ELSE last
  /\ size' = size + 1
  /\ UNCHANGED live
  /\ Answer(op, 0, TRUE, Untouched)

PushBack(op, x, new) ==
  /\ live
  /\ nodes' = Linked(With(new, x, last, NULL), last, "next", new)
  /\ last' = new
  /\ first' = IF first = NULL THEN new ELSE first
  /\ size' = size + 1
  /\ UNCHANGED live
  /\ Answer(op, size, TRUE, Untouched)

(* The new node goes before temp, which has a predecessor. *)
Spliced(x, new, temp) ==
  Linked(Linked(With(new, x, PrevOf(temp), temp), PrevOf(temp), "next", new), temp, "prev", new)

InsertInside(i, x, new) ==
  /\ live
  /\ i \in 1 .. size - 1
  /\ nodes' = Spliced(x, new, NodeAt(i))
  /\ size' = size + 1
  /\ UNCHANGED <<live, first, last>>
  /\ Answer("insert", i, TRUE, Untouched)

Insert(i, x, new) ==
  \/ i = 0 /\ PushFront("insert", x, new)
  \/ i = size /\ i # 0 /\ PushBack("insert", x, new)
  \/ InsertInside(i, x, new)

(* malloc returned NULL, or the index is beyond the end. *)
AddFails(op, i) == live /\ Fail(op, i)

------------------------------------------------------------------------------
LastWithoutFirst == IF NextOf(first) = NULL THEN NULL ELSE last

PopFront(op) ==
  /\ live /\ size # 0
  /\ first' = NextOf(first)
  /\ last' = LastWithoutFirst
  /\ nodes' = Linked(Without(first), NextOf(first), "prev", NULL)
  /\ size' = size - 1
  /\ UNCHANGED live
  /\ Answer(op, 0, TRUE, nodes[first].value)

PopBack(op) ==
  /\ live /\ size # 0
  /\ last' = PrevOf(last)
  /\ first' = IF PrevOf(last) = NULL THEN NULL ELSE first
  /\ nodes' = Linked(Without(last), PrevOf(last), "next", NULL)
  /\ size' = size - 1
  /\ UNCHANGED live
  /\ Answer(op, size - 1, TRUE, nodes[last].value)

(* Fault: the node after the removed one keeps its prev. *)
UnsplicedForward(temp) == Linked(Without(temp), PrevOf(temp), "next", NextOf(temp))

Unspliced(temp) ==
  Linked(Linked(Without(temp), PrevOf(temp), "next", NextOf(temp)),
         NextOf(temp), "prev", PrevOf(temp))

RemoveInside(i) ==
  /\ live
  /\ i \in 1 .. size - 2
  /\ nodes' = Unspliced(NodeAt(i))
  /\ size' = size - 1
  /\ UNCHANGED <<live, first, last>>
  /\ Answer("remove", i, TRUE, Get(i))

Remove(i) ==
  \/ i = 0 /\ PopFront("remove")
  \/ i # 0 /\ i = size - 1 /\ PopBack("remove")
  \/ RemoveInside(i)

RemoveFails(i) == live /\ i >= size /\ Fail("remove", i)
PopFails(op) == live /\ size = 0 /\ Fail(op, 0)

Next ==
  \/ Create \/ CreateFails \/ Destroy
  \/ \E x \in Item, new \in Address \ Heap :
       \/ PushFront("push_front", x, new) \/ PushBack("push_back", x, new)
       \/ \E i \in 0 .. size : Insert(i, x, new)
  \/ AddFails("push_front", 0) \/ AddFails("push_back", size)
  \/ \E i \in 0 .. size + 1 : AddFails("insert", i)
  \/ PopFront("pop_front") \/ PopBack("pop_back")
  \/ \E op \in {"pop_front", "pop_back"} : PopFails(op)
  \/ \E i \in 0 .. size : Remove(i) \/ RemoveFails(i)

Spec == Init /\ [][Next]_vars

------------------------------------------------------------------------------
(* Every variable has its type. *)
TypeOK ==
  /\ live \in BOOLEAN /\ size \in Nat
  /\ {first, last} \subseteq Heap \cup {NULL}
  /\ nodes \in [Heap -> [value : Item, prev : Address \cup {NULL}, next : Address \cup {NULL}]]
  /\ reply.ok \in BOOLEAN

(* README.md: "neighboring nodes maintain reciprocal links", and only the  *)
(* ends have none outward: whatever splice or unlink came before.          *)
Reciprocal ==
  /\ \A m, n \in Heap : NextOf(m) = n <=> PrevOf(n) = m
  /\ \A n \in Heap : (n = first <=> PrevOf(n) = NULL) /\ (n = last <=> NextOf(n) = NULL)

(* Both walks reach the same node at every index and all the nodes there   *)
(* are, so the nearer end never changes the answer, no link leads to a     *)
(* freed node, and destroy, which walks forward, frees every node.         *)
WalksMeet ==
  /\ Forward = Backward
  /\ Reachable = Heap
  /\ Cardinality(Heap) = size
  /\ ~live => Heap = {}

(* The links and the counter make one list of all the nodes.               *)
WellFormed == TypeOK /\ Reciprocal /\ WalksMeet

(* The GraphView adapter shows the list as a path between its indexes.     *)
ViewIsPath == \A i \in 0 .. size - 1 : Neighbors(i) = {i - 1, i + 1} \cap 0 .. size - 1

Contents == [i \in 1 .. size |-> Get(i - 1)]
==============================================================================
