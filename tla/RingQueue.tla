------------------------------ MODULE RingQueue ------------------------------
(***************************************************************************)
(* The circular-buffer queue of                                            *)
(* src/data-structures/linear/queues/queue/queue.c.                        *)
(*                                                                         *)
(* One action is one call of the API.  The library is single-threaded, so  *)
(* a call is atomic; what a call cannot control is whether malloc returns  *)
(* memory, and that is a nondeterministic choice.                          *)
(***************************************************************************)
EXTENDS CSize, Sequences

CONSTANTS
  Item,        (* pointers a caller enqueues; NULL may be one of them      *)
  NULL,        (* the null pointer                                         *)
  Garbage,     (* what a slot of a fresh malloc block holds                *)
  Untouched    (* an output location the call did not write                *)

ItemAssumption == Garbage \notin Item /\ Untouched \notin Item

VARIABLES
  live,        (* whether the caller holds a queue (FALSE: queue == NULL)  *)
  head, tail, size, capacity,
  items,       (* the slots really allocated for the buffer                *)
  blocks,      (* live heap blocks this queue's calls allocated            *)
  reply        (* what the last call returned                              *)

fields == <<head, tail, size, capacity, items>>
vars == <<live, head, tail, size, capacity, items, blocks, reply>>

QueueSize == IF live THEN size ELSE 0

(* The calls return a bool and at most one item; queue_size is what a      *)
(* caller can observe next.                                                *)
Answer(op, ok, item) ==
  reply' = [op |-> op, ok |-> ok, item |-> item, size |-> QueueSize']

Fail(op) ==
  /\ UNCHANGED <<live, fields, blocks>>
  /\ Answer(op, FALSE, Untouched)

NoSlots == [i \in {} |-> NULL]

Init ==
  /\ live = FALSE
  /\ head = 0 /\ tail = 0 /\ size = 0 /\ capacity = 0
  /\ items = NoSlots
  /\ blocks = 0
  /\ reply = [op |-> "none", ok |-> TRUE, item |-> Untouched, size |-> 0]

EmptyQueue ==
  /\ head' = 0 /\ tail' = 0 /\ size' = 0 /\ capacity' = 0
  /\ items' = NoSlots

Create ==
  /\ ~live
  /\ \/ Fail("create")
     \/ /\ live' = TRUE
        /\ EmptyQueue
        /\ blocks' = blocks + 1
        /\ Answer("create", TRUE, Untouched)

Destroy ==
  /\ live
  /\ live' = FALSE
  /\ EmptyQueue
  /\ blocks' = blocks - (IF capacity = 0 THEN 1 ELSE 2)
  /\ Answer("destroy", TRUE, Untouched)

------------------------------------------------------------------------------
NewCapacity == IF capacity = 0 THEN 2 ELSE Wrap(capacity * 2)

(* Fault: growth does not check the byte count. *)
CanGrowUnchecked == capacity <= SizeMax \div 2

CanGrow ==
  /\ capacity <= SizeMax \div 2
  /\ Fits(NewCapacity)

(* Fault: growth copies the buffer as it lies, not from head on. *)
CopiedAsItLies ==
  [i \in Slots(SlotsGranted(NewCapacity)) |->
     IF i < size THEN items[i] ELSE Garbage]

(* The new buffer holds the items in FIFO order from slot 0 on. *)
Unwrapped ==
  [i \in Slots(SlotsGranted(NewCapacity)) |->
     IF i < size THEN items[Wrap(head + i) % capacity] ELSE Garbage]

(* The tail of queue_enqueue, on a buffer b of c slots with back slot t. *)
StoreAtBack(b, t, c, x) ==
  /\ items' = [b EXCEPT ![t] = x]
  /\ size' = Wrap(size + 1)
  /\ tail' = Wrap(t + 1) % c
  /\ capacity' = c
  /\ UNCHANGED live

Enqueue(x) ==
  /\ live
  /\ size < capacity
  /\ StoreAtBack(items, tail, capacity, x)
  /\ UNCHANGED <<head, blocks>>
  /\ Answer("enqueue", TRUE, Untouched)

(* Every slot is occupied: the buffer grows first. *)
EnqueueGrowing(x) ==
  /\ live
  /\ size = capacity
  /\ CanGrow
  /\ head' = 0
  /\ StoreAtBack(Unwrapped, size, NewCapacity, x)
  /\ blocks' = blocks + 1 - (IF capacity = 0 THEN 0 ELSE 1)
  /\ Answer("enqueue", TRUE, Untouched)

(* No queue, no room for a larger buffer, or malloc returned NULL. *)
EnqueueFails ==
  /\ live => size = capacity
  /\ Fail("enqueue")

(* Fault: the slot of the dequeued item is not cleared. *)
DequeueKeepsPointer ==
  /\ live
  /\ size > 0
  /\ head' = Wrap(head + 1) % capacity
  /\ size' = size - 1
  /\ UNCHANGED <<live, tail, capacity, items, blocks>>
  /\ Answer("dequeue", TRUE, items[head])

Dequeue ==
  /\ live
  /\ size > 0
  /\ items' = [items EXCEPT ![head] = NULL]
  /\ head' = Wrap(head + 1) % capacity
  /\ size' = size - 1
  /\ UNCHANGED <<live, tail, capacity, blocks>>
  /\ Answer("dequeue", TRUE, items[head])

Peek ==
  /\ live
  /\ size > 0
  /\ UNCHANGED <<live, fields, blocks>>
  /\ Answer("peek", TRUE, items[head])

(* No queue, no item, or no output location. *)
RemoveFails == \E op \in {"dequeue", "peek"} : Fail(op)

Next ==
  \/ Create
  \/ Destroy
  \/ \E x \in Item : Enqueue(x) \/ EnqueueGrowing(x)
  \/ EnqueueFails
  \/ Dequeue
  \/ Peek
  \/ RemoveFails

Spec == Init /\ [][Next]_vars

------------------------------------------------------------------------------
(* Every variable has its type. *)
TypeOK ==
  /\ live \in BOOLEAN
  /\ head \in Nat /\ tail \in Nat /\ size \in Nat /\ capacity \in Nat
  /\ items \in [DOMAIN items -> Item \cup {NULL, Garbage}]
  /\ blocks \in Nat
  /\ reply \in [op : {"none", "create", "destroy", "enqueue", "dequeue", "peek"},
                ok : BOOLEAN,
                item : Item \cup {NULL, Garbage, Untouched},
                size : Nat]

(* head, tail, size and capacity agree with each other and with the memory *)
(* malloc really granted, whatever wrapped around: no call indexes past    *)
(* the buffer, and tail is where head and size say it is.                  *)
RingShape ==
  /\ DOMAIN items = Slots(capacity)
  /\ size <= capacity
  /\ capacity = 0 => head = 0 /\ tail = 0
  /\ capacity > 0 => head < capacity /\ tail = RingSlot(head, size, capacity)

(* The slot of the n-th stored item, the front being item 0. *)
SlotOf(n) == RingSlot(head, n, capacity)

(* The blocks on the heap are exactly the ones the queue can still free:   *)
(* nothing leaks when a buffer is replaced or the queue is destroyed.      *)
OwnsItsBlocks ==
  blocks = IF ~live THEN 0 ELSE IF capacity = 0 THEN 1 ELSE 2

(* Between calls queue.c is in order: the fields have their types, agree   *)
(* with each other and with the memory malloc granted, and nothing leaked. *)
WellFormed == TypeOK /\ RingShape /\ OwnsItsBlocks

(* Dequeue and growth leave no item pointer behind in a slot that is not   *)
(* in use.                                                                 *)
StaleSlotsClear ==
  \A i \in DOMAIN items :
    (\A n \in 0 .. size - 1 : SlotOf(n) # i) => items[i] \in {NULL, Garbage}

------------------------------------------------------------------------------
(* The n items of a ring of c slots that starts at slot h of buffer b. *)
RingItems(b, h, n, c) == [k \in 1 .. n |-> b[RingSlot(h, k - 1, c)]]

Contents == RingItems(items, head, size, capacity)
==============================================================================
