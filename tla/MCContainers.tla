----------------------------- MODULE MCContainers ------------------------------
(***************************************************************************)
(* Small instances, for TLC, of the search tree, the queue, the stack, the *)
(* growable array and both linked lists, and the promises they make.  A    *)
(* container keeps its kind; the kinds share the variables they have in    *)
(* common.  With five nodes both walks to an index of a doubly linked list *)
(* take more than one step, and a successor that has a right child need    *)
(* not be the child of the node a search tree removes.  The tree stores    *)
(* items of five ranks, two of the third.                                  *)
(***************************************************************************)
EXTENDS SearchTree, CSize, TLC

CONSTANTS
  Pointer,     (* the pointers a caller stores in the other containers     *)
  Garbage,     (* what a slot of a fresh malloc block holds                *)
  QueueMax,    (* SIZE_MAX for the queue: a ring of eight slots wraps at   *)
               (* more places than the four that SizeMax gives the others  *)
  pointer      (* a pointer that is not NULL                               *)

VARIABLES
  kind,        (* which of the containers it is                            *)
  capacity, items, blocks,
  head, tail,  (* the ends of the queue                                    *)
  first, last, (* the ends of a list                                       *)
  answer,      (* what the last call of the queue returned                 *)
  result       (* and of the stack, the array and the lists                *)

Queue == INSTANCE RingQueue WITH SizeMax <- QueueMax, Item <- Pointer, reply <- answer
Pile == INSTANCE Stack WITH Item <- Pointer, reply <- result
Array == INSTANCE DynamicArray WITH Item <- Pointer, reply <- result
Singly == INSTANCE SinglyLinkedList WITH Item <- Pointer, head <- first, reply <- result
Doubly == INSTANCE DoublyLinkedList WITH Item <- Pointer, reply <- result

ASSUME ContainersAssumption ==
  /\ TreeAssumption
  /\ QueueMax \in Nat
  /\ Queue!ItemAssumption /\ Pile!StackAssumption /\ Array!ArrayAssumption
  /\ Singly!ListAssumption /\ Doubly!ListAssumption

MCItem == {10, 20, 30, 31, 40, 50}
MCRank(i) == i \div 10
MCPointer == {pointer, NULL}

(* Addresses are compared for equality only. *)
Addresses == Permutations(Address)

Kinds == {"tree", "queue", "stack", "array", "singly", "doubly"}

ContainersInit ==
  /\ kind \in Kinds
  /\ Init /\ Queue!Init /\ Pile!Init /\ Array!Init /\ Singly!Init /\ Doubly!Init

memory == <<capacity, items, blocks>>
ring == <<head, tail, answer>>
ends == <<first, last>>
treeLinks == <<root, reply>>
containersVars == <<vars, kind, memory, ring, ends, result>>

TreeStep == kind = "tree" /\ Next /\ UNCHANGED <<kind, memory, ring, ends, result>>
QueueStep == kind = "queue" /\ Queue!Next /\ UNCHANGED <<kind, nodes, treeLinks, ends, result>>
StackStep == kind = "stack" /\ Pile!Next /\ UNCHANGED <<kind, nodes, treeLinks, ring, ends>>
ArrayStep == kind = "array" /\ Array!Next /\ UNCHANGED <<kind, nodes, treeLinks, ring, ends>>
SinglyStep == kind = "singly" /\ Singly!Next /\ UNCHANGED <<kind, memory, treeLinks, ring, last>>
DoublyStep == kind = "doubly" /\ Doubly!Next /\ UNCHANGED <<kind, memory, treeLinks, ring>>

ContainersNext ==
  TreeStep \/ QueueStep \/ StackStep \/ ArrayStep \/ SinglyStep \/ DoublyStep

ContainersSpec == ContainersInit /\ [][ContainersNext]_containersVars

------------------------------------------------------------------------------
(* In binary_search_tree.c the pointers make one ordered tree of all       *)
(* nodes, which the GraphView adapter numbers as in_order visits them; in  *)
(* queue.c the indexes agree with the memory that was granted; in stack.c  *)
(* and dynamic_array.c no slot beyond the granted ones is used and no      *)
(* removed item stays behind; in singly_linked_list.c and                  *)
(* doubly_linked_list.c the links, in both directions, and the counter     *)
(* that ends the walks agree, so that no node is lost or met after it was  *)
(* freed, and the adapter shows a path.                                    *)
ContainersWellFormed ==
  CASE kind = "tree" -> WellFormed /\ IndexesAgree
    [] kind = "queue" -> Queue!WellFormed
    [] kind = "stack" -> Pile!WellFormed
    [] kind = "array" -> Array!WellFormed
    [] kind = "singly" -> Singly!WellFormed /\ Singly!ViewIsPath
    [] kind = "doubly" -> Doubly!WellFormed /\ Doubly!ViewIsPath

(* queue_dequeue and the growth in queue_enqueue leave no item pointer     *)
(* behind in a slot that is not in use, wherever the ring wraps.           *)
StaleSlotsClear == kind = "queue" => Queue!StaleSlotsClear

Queued == IF kind = "queue" THEN Queue!Contents ELSE <<>>

QueuePromise == INSTANCE Fifo WITH Item <- Pointer, contents <- Queued, reply <- answer

(* queue.c implements a first-in-first-out queue: across wrap-around and   *)
(* growth no item is lost, duplicated or reordered, no uninitialised slot  *)
(* is returned, and a failed call changes nothing.                         *)
ImplementsFifo == QueuePromise!Spec

Listed ==
  CASE kind = "stack" -> Pile!Contents
    [] kind = "array" -> Array!Contents
    [] kind = "singly" -> Singly!Contents
    [] kind = "doubly" -> Doubly!Contents
    [] kind \in {"tree", "queue"} -> <<>>

ListPromise == INSTANCE ItemList WITH Item <- Pointer, contents <- Listed, reply <- result

(* The four lists are the promised sequence: an item is added, taken or    *)
(* replaced at the place the call names and no other one moves, across     *)
(* every growth, splice and unlink; a failed call changes nothing.         *)
ImplementsItemList == ListPromise!Spec
==============================================================================
