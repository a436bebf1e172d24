--------------------------- MODULE SinglyLinkedList ---------------------------
(***************************************************************************)
(* The list of                                                             *)
(* src/data-structures/linear/linked/singly-linked-list/                   *)
(* singly_linked_list.c, down to its pointers.  The code ends its walks by *)
(* counting up to size, so size and the links have to agree.  One action   *)
(* is one call of the API.                                                 *)
(***************************************************************************)
EXTENDS Naturals, Sequences, FiniteSets

CONSTANTS
  Item,        (* the pointers a caller stores; NULL may be one of them    *)
  Address,     (* the addresses malloc can give to nodes                   *)
  NULL,
  Untouched    (* an output location the call did not write                *)

ListAssumption ==
  IsFiniteSet(Address) /\ NULL \notin Address /\ Untouched \notin Item

VARIABLES
  live,        (* whether the caller holds a list                          *)
  size, head,
  nodes,       (* the nodes on the heap: value and next                    *)
  reply        (* what the last call returned                              *)

list == <<live, size, head, nodes>>
vars == <<list, reply>>

Heap == DOMAIN nodes

(* A link that is followed from anything but a node leads to NULL here;    *)
(* ChainOfAllNodes says that the code follows none.                        *)
NextOf(n) == IF n \in Heap THEN nodes[n].next ELSE NULL

Answer(op, i, ok, out) == reply' = [op |-> op, index |-> i, ok |-> ok, out |-> out]

Fail(op, i) == UNCHANGED list /\ Answer(op, i, FALSE, Untouched)

NoNodes == [n \in {} |-> NULL]

Init ==
  /\ live = FALSE /\ size = 0 /\ head = NULL /\ nodes = NoNodes
  /\ reply = [op |-> "none", index |-> 0, ok |-> TRUE, out |-> Untouched]

Create ==
  /\ ~live
  /\ live' = TRUE
  /\ UNCHANGED <<size, head, nodes>>
  /\ Answer("create", 0, TRUE, Untouched)

CreateFails == ~live /\ Fail("create", 0)

(* The node at an index, counted from the head. *)
NodeAt(i) ==
  LET step[n \in 0 .. i] == IF n = 0 THEN head ELSE NextOf(step[n - 1]) IN step[i]

(* singly_linked_list_get *)
Get(i) == nodes[NodeAt(i)].value

(* The arcs of the GraphView adapter. *)
Neighbors(i) == IF NextOf(NodeAt(i)) = NULL THEN {} ELSE {i + 1}

(* The nodes that destroy frees: it follows the links up to NULL.          *)
Freed ==
  LET within[n \in 0 .. Cardinality(Heap)] ==
        IF n = 0 THEN {head} \ {NULL}
        ELSE LET closer == within[n - 1]
             IN  closer \cup ({NextOf(m) : m \in closer} \ {NULL})
  IN  within[Cardinality(Heap)]

Destroy ==
  /\ live
  /\ live' = FALSE /\ size' = 0 /\ head' = NULL
  /\ nodes' = [n \in Heap \ Freed |-> nodes[n]]
  /\ Answer("destroy", 0, TRUE, Untouched)

------------------------------------------------------------------------------
(* The heap with a new node, or without one, after prev->next = to. *)
With(new, x, next, prev) ==
  [n \in Heap \cup {new} |->
     IF n = new THEN [value |-> x, next |-> next]
     ELSE IF n = prev THEN [nodes[n] EXCEPT !.next = new]
     ELSE nodes[n]]

Without(gone, prev, next) ==
  [n \in Heap \ {gone} |-> IF n = prev THEN [nodes[n] EXCEPT !.next = next] ELSE nodes[n]]

AddHead(op, x, new) ==
  /\ live
  /\ nodes' = With(new, x, head, NULL)
  /\ head' = new
  /\ size' = size + 1
  /\ UNCHANGED live
  /\ Answer(op, 0, TRUE, Untouched)

PushBack(x, new) ==
  /\ live
  /\ nodes' = With(new, x, NULL, IF size = 0 THEN NULL ELSE NodeAt(size - 1))
  /\ head' = IF size = 0 THEN new ELSE head
  /\ size' = size + 1
  /\ UNCHANGED live
  /\ Answer("push_back", size, TRUE, Untouched)

(* The walks of insert and remove stop before the index. *)
Before(i) == NodeAt(i - 1)

InsertInside(i, x, new) ==
  /\ live
  /\ i \in 1 .. size
  /\ nodes' = With(new, x, NextOf(Before(i)), Before(i))
  /\ size' = size + 1
  /\ UNCHANGED <<live, head>>
  /\ Answer("insert", i, TRUE, Untouched)

Insert(i, x, new) == (i = 0 /\ AddHead("insert", x, new)) \/ InsertInside(i, x, new)

(* malloc returned NULL, or the index is beyond the end. *)
AddFails(op, i) == live /\ Fail(op, i)

------------------------------------------------------------------------------
TakeHead(op) ==
  /\ live /\ size # 0
  /\ head' = NextOf(head)
  /\ nodes' = Without(head, NULL, NULL)
  /\ size' = size - 1
  /\ UNCHANGED live
  /\ Answer(op, 0, TRUE, nodes[head].value)

(* The last node but one, whose next is cleared; NULL for a single node.   *)
Forelast == IF size = 1 THEN NULL ELSE NodeAt(size - 2)

Shortened(gone) == Without(gone, Forelast, NULL)

PopBack ==
  /\ live /\ size # 0
  /\ LET gone == IF size = 1 THEN head ELSE NextOf(Forelast)
     IN  /\ nodes' = Shortened(gone)
         /\ Answer("pop_back", size - 1, TRUE, nodes[gone].value)
  /\ head' = IF size = 1 THEN NULL ELSE head
  /\ size' = size - 1
  /\ UNCHANGED live

After(gone) == NextOf(gone)

RemoveInside(i) ==
  /\ live
  /\ i \in 1 .. size - 1
  /\ LET gone == NextOf(Before(i))
     IN  /\ nodes' = Without(gone, Before(i), After(gone))
         /\ Answer("remove", i, TRUE, nodes[gone].value)
  /\ size' = size - 1
  /\ UNCHANGED <<live, head>>

Remove(i) == (i = 0 /\ TakeHead("remove")) \/ RemoveInside(i)

RemoveFails(i) == live /\ i >= size /\ Fail("remove", i)
PopFails(op) == live /\ size = 0 /\ Fail(op, 0)

Next ==
  \/ Create \/ CreateFails \/ Destroy
  \/ \E x \in Item, new \in Address \ Heap :
       \/ AddHead("push_front", x, new) \/ PushBack(x, new)
       \/ \E i \in 0 .. size : Insert(i, x, new)
  \/ AddFails("push_front", 0) \/ AddFails("push_back", size)
  \/ \E i \in 0 .. size + 1 : AddFails("insert", i)
  \/ TakeHead("pop_front") \/ PopBack
  \/ \E op \in {"pop_front", "pop_back"} : PopFails(op)
  \/ \E i \in 0 .. size : Remove(i) \/ RemoveFails(i)

Spec == Init /\ [][Next]_vars

------------------------------------------------------------------------------
(* Every variable has its type; no link leads to a freed node.             *)
TypeOK ==
  /\ live \in BOOLEAN /\ size \in Nat
  /\ head \in Heap \cup {NULL}
  /\ nodes \in [Heap -> [value : Item, next : Heap \cup {NULL}]]
  /\ reply.ok \in BOOLEAN

(* The walks that count to size and the walk of destroy that stops at NULL *)
(* see the same nodes, all there are: the node at the last index has no    *)
(* successor and no two indexes lead to one node.                          *)
ChainOfAllNodes ==
  /\ {NodeAt(i) : i \in 0 .. size - 1} = Heap
  /\ Cardinality(Heap) = size
  /\ Freed = Heap
  /\ ~live => Heap = {}

(* The links and the counter make one list of all the nodes.               *)
WellFormed == TypeOK /\ ChainOfAllNodes

(* The GraphView adapter shows the list as a directed path.                *)
ViewIsPath == \A i \in 0 .. size - 1 : Neighbors(i) = {i + 1} \cap 0 .. size - 1

Contents == [i \in 1 .. size |-> Get(i - 1)]
==============================================================================
