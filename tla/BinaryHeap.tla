------------------------------ MODULE BinaryHeap -----------------------------
(***************************************************************************)
(* The array heap of                                                       *)
(* src/data-structures/trees/heaps/binary-heap/binary_heap.c.              *)
(*                                                                         *)
(* push and pop are loops: one action begins the call and one action is    *)
(* one turn of its sift loop, so that the state between two turns, where   *)
(* the array is not a heap, is a state of the model.  malloc and realloc   *)
(* may fail.  The comparator is the caller's; it orders items as Rank.     *)
(***************************************************************************)
EXTENDS CSize, FiniteSets

CONSTANTS
  Item,        (* pointers a caller pushes                                 *)
  Rank,        (* the order the comparator gives them; ties are possible   *)
  NULL,        (* the null pointer                                         *)
  Garbage,     (* what a fresh slot holds                                  *)
  Untouched    (* an output location the call did not write                *)

ASSUME HeapAssumption ==
  /\ Rank \in [Item -> Nat]
  /\ NULL \notin Item /\ Garbage \notin Item /\ Untouched \notin Item
  /\ PtrSize >= 2
  /\ Fits(3)

VARIABLES
  live,        (* whether the caller holds a heap                          *)
  size, capacity,
  items,       (* the slots really allocated                               *)
  blocks,      (* live heap blocks this heap's calls allocated             *)
  pc,          (* "idle" between calls, "up" or "down" in a sift loop      *)
  n,           (* the index the sift loop stands at                        *)
  reply        (* what the last call returned, or is going to return       *)

vars == <<live, size, capacity, items, blocks, pc, n, reply>>

Answer(op, ok, item) == reply' = [op |-> op, ok |-> ok, item |-> item]

Parent(i) == (i - 1) \div 2
(* Fault: the children of a heap that starts at index 1. *)
LeftOfOneBased(i) == Wrap(i * 2)

Left(i) == Wrap(i * 2 + 1)
Right(i) == Wrap(i * 2 + 2)

(* compare(x, y) > 0; only items that were pushed have a rank. *)
Above(x, y) == Rank[x] > Rank[y]

(* Fault: a swap without a temporary. *)
SwappedWithoutTemporary(i, j) == [items EXCEPT ![i] = items[j], ![j] = items[j]]

Swapped(i, j) == [items EXCEPT ![i] = items[j], ![j] = items[i]]

NoSlots == [i \in {} |-> NULL]

Init ==
  /\ live = FALSE
  /\ size = 0 /\ capacity = 0 /\ items = NoSlots
  /\ blocks = 0
  /\ pc = "idle" /\ n = 0
  /\ reply = [op |-> "none", ok |-> TRUE, item |-> Untouched]

Fail(op) ==
  /\ pc = "idle"
  /\ UNCHANGED <<live, size, capacity, items, blocks, pc, n>>
  /\ Answer(op, FALSE, Untouched)

------------------------------------------------------------------------------
(* The three slots of a new heap are allocated with the heap. *)
Create ==
  /\ pc = "idle" /\ ~live
  /\ live' = TRUE
  /\ size' = 0 /\ capacity' = 3
  /\ items' = [i \in Slots(3) |-> Garbage]
  /\ blocks' = blocks + 2
  /\ UNCHANGED <<pc, n>>
  /\ Answer("create", TRUE, Untouched)

(* No comparator, or either malloc returned NULL: the heap structure is    *)
(* freed again.                                                            *)
CreateFails == ~live /\ Fail("create")

Destroy ==
  /\ pc = "idle" /\ live
  /\ live' = FALSE
  /\ size' = 0 /\ capacity' = 0 /\ items' = NoSlots
  /\ blocks' = blocks - 2
  /\ UNCHANGED <<pc, n>>
  /\ Answer("destroy", TRUE, Untouched)

------------------------------------------------------------------------------
NewCapacity == Wrap(capacity * 2 + 1)

CanGrow ==
  /\ capacity <= (SizeMax - 1) \div 2
  /\ Fits(NewCapacity)

(* realloc keeps the items and leaves the rest of the block uninitialised. *)
Reallocated ==
  [i \in Slots(SlotsGranted(NewCapacity)) |->
     IF i \in DOMAIN items THEN items[i] ELSE Garbage]

(* The store of binary_heap_push, into buffer b. *)
Place(b, x) ==
  /\ items' = [b EXCEPT ![size] = x]
  /\ size' = Wrap(size + 1)
  /\ pc' = "up" /\ n' = size
  /\ UNCHANGED <<live, blocks>>
  /\ Answer("push", TRUE, Untouched)

Push(x) ==
  /\ pc = "idle" /\ live
  /\ size # capacity
  /\ Place(items, x)
  /\ UNCHANGED capacity

PushGrowing(x) ==
  /\ pc = "idle" /\ live
  /\ size = capacity
  /\ CanGrow
  /\ Place(Reallocated, x)
  /\ capacity' = NewCapacity

(* No heap, no room for a larger buffer, or realloc returned NULL. *)
PushFails ==
  /\ live => size = capacity
  /\ Fail("push")

SiftUp ==
  /\ pc = "up" /\ n > 0
  /\ Above(items[Parent(n)], items[n])
  /\ items' = Swapped(n, Parent(n))
  /\ n' = Parent(n)
  /\ UNCHANGED <<live, size, capacity, blocks, pc, reply>>

SiftUpEnds ==
  /\ pc = "up"
  /\ n > 0 => ~Above(items[Parent(n)], items[n])
  /\ pc' = "idle" /\ n' = 0
  /\ UNCHANGED <<live, size, capacity, items, blocks, reply>>

------------------------------------------------------------------------------
(* Fault: the vacated slot keeps its pointer. *)
PopKeepsPointer ==
  /\ pc = "idle" /\ live
  /\ size > 0
  /\ items' = [items EXCEPT ![0] = items[size - 1]]
  /\ size' = size - 1
  /\ pc' = "down" /\ n' = 0
  /\ UNCHANGED <<live, capacity, blocks>>
  /\ Answer("pop", TRUE, items[0])

(* The output is the root; the last item moves to the root, and its slot   *)
(* is cleared second, which also clears the root of a heap of one item.    *)
Pop ==
  /\ pc = "idle" /\ live
  /\ size > 0
  /\ items' = [items EXCEPT ![0] = items[size - 1], ![size - 1] = NULL]
  /\ size' = size - 1
  /\ pc' = "down" /\ n' = 0
  /\ UNCHANGED <<live, capacity, blocks>>
  /\ Answer("pop", TRUE, items[0])

(* Fault: the right child is never considered. *)
LeftChildOnly == Left(n)

(* The child to compare with: the left one unless the right is lower. *)
Child ==
  IF Right(n) < size /\ Above(items[Left(n)], items[Right(n)])
  THEN Right(n) ELSE Left(n)

SiftDown ==
  /\ pc = "down" /\ Left(n) < size
  /\ Above(items[n], items[Child])
  /\ items' = Swapped(n, Child)
  /\ n' = Child
  /\ UNCHANGED <<live, size, capacity, blocks, pc, reply>>

SiftDownEnds ==
  /\ pc = "down"
  /\ Left(n) < size => ~Above(items[n], items[Child])
  /\ pc' = "idle" /\ n' = 0
  /\ UNCHANGED <<live, size, capacity, items, blocks, reply>>

Peek ==
  /\ pc = "idle" /\ live
  /\ size > 0
  /\ UNCHANGED <<live, size, capacity, items, blocks, pc, n>>
  /\ Answer("peek", TRUE, items[0])

(* No heap, no output location, or no item. *)
TakeFails == \E op \in {"pop", "peek"} : Fail(op)

------------------------------------------------------------------------------
Sift == SiftUp \/ SiftUpEnds \/ SiftDown \/ SiftDownEnds

Next ==
  \/ Create
  \/ CreateFails
  \/ Destroy
  \/ \E x \in Item : Push(x) \/ PushGrowing(x)
  \/ PushFails
  \/ Pop
  \/ Peek
  \/ TakeFails
  \/ Sift

Spec == Init /\ [][Next]_vars

------------------------------------------------------------------------------
(* Every variable has its type, and the slots in use hold pushed items:    *)
(* the comparator is never given a cleared or an uninitialised slot.       *)
TypeOK ==
  /\ live \in BOOLEAN
  /\ size \in Nat /\ capacity \in Nat /\ blocks \in Nat
  /\ items \in [DOMAIN items -> Item \cup {NULL, Garbage}]
  /\ \A i \in Slots(size) : items[i] \in Item
  /\ pc \in {"idle", "up", "down"}
  /\ n \in Nat
  /\ reply \in [op : {"none", "create", "destroy", "push", "pop", "peek"},
                ok : BOOLEAN,
                item : Item \cup {Untouched}]

(* The buffer has the slots capacity says, whatever its byte count wrapped *)
(* to, and the blocks allocated are the ones destroy will free.            *)
MemoryMatches ==
  /\ DOMAIN items = Slots(capacity)
  /\ size <= capacity
  /\ blocks = IF live THEN 2 ELSE 0
  /\ ~live => capacity = 0 /\ pc = "idle"

(* pop leaves no item pointer behind in a slot that is not in use. *)
StaleSlotsClear ==
  \A i \in DOMAIN items : i >= size => items[i] \in {NULL, Garbage}

(* Whatever the sift loops are at, the heap's memory is in order.          *)
WellFormed == TypeOK /\ MemoryMatches /\ StaleSlotsClear

Ordered(i) == Rank[items[Parent(i)]] <= Rank[items[i]]

(* The loop invariant of both sift loops: the heap order can only be       *)
(* broken at the index the loop stands at (towards its parent while        *)
(* sifting up, towards its children while sifting down), and what is       *)
(* around that index is already in order.  Between calls the array is a    *)
(* heap.                                                                   *)
SiftInvariant ==
  /\ pc = "up" => n < size
  /\ pc = "down" => n < capacity
  /\ \A i \in 1 .. size - 1 :
       /\ (pc = "up" => i # n) /\ (pc = "down" => Parent(i) # n) => Ordered(i)
       /\ pc # "idle" /\ n > 0 /\ Parent(i) = n =>
            Rank[items[Parent(n)]] <= Rank[items[i]]

(* Between calls the root is an item of the lowest rank, so that is what   *)
(* pop and peek return.                                                    *)
LeastAtRoot ==
  pc = "idle" => \A i \in Slots(size) : Rank[items[0]] <= Rank[items[i]]

------------------------------------------------------------------------------
(* The GraphView adapter: whether it enumerates the children of a slot,    *)
(* and the occupied slots it calls the visitor with.                       *)
ViewAnswers(i) == i < size /\ i <= (SizeMax - 2) \div 2
Neighbors(i) == {c \in {Left(i), Right(i)} : c < size}

(* Between calls the view is a tree that is in order along every edge: the *)
(* guard against a wrapped child index refuses no occupied slot, and each  *)
(* slot but the root is met once, from its parent, with no higher item.    *)
ViewIsHeap ==
  pc = "idle" =>
    /\ \A i \in Slots(size) :
         ViewAnswers(i) /\ \A c \in Neighbors(i) : Rank[items[i]] <= Rank[items[c]]
    /\ \A i, c \in Slots(size) : c \in Neighbors(i) <=> c > 0 /\ i = Parent(c)

------------------------------------------------------------------------------
Stored == [x \in Item |-> Cardinality({i \in Slots(size) : items[i] = x})]

Promise == INSTANCE PriorityQueue WITH stored <- Stored

(* The array heap implements the bag with lowest-ranked removal: the swaps *)
(* of a sift loop and the growth of the buffer lose and duplicate nothing, *)
(* and a failed call changes nothing.                                      *)
ImplementsPriorityQueue == Promise!Spec
==============================================================================
