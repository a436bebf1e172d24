----------------------------- MODULE DynamicArray -----------------------------
(***************************************************************************)
(* The growable array of                                                   *)
(* src/data-structures/linear/arrays/dynamic-array/dynamic_array.c.  One   *)
(* action is one call; realloc may fail.                                   *)
(***************************************************************************)
EXTENDS CSize, Sequences

CONSTANTS
  Item,        (* the pointers a caller stores; NULL may be one of them    *)
  NULL,
  Garbage,     (* what a slot holds that realloc added                     *)
  Untouched    (* an output location the call did not write                *)

ArrayAssumption == Garbage \notin Item /\ Untouched \notin Item

VARIABLES
  live,        (* whether the caller holds an array                        *)
  capacity, size,
  items,       (* the slots really allocated                               *)
  blocks,      (* live heap blocks of the array                            *)
  reply        (* what the last call returned                              *)

array == <<live, capacity, size, items, blocks>>
vars == <<array, reply>>

Answer(op, i, ok, out) == reply' = [op |-> op, index |-> i, ok |-> ok, out |-> out]

Fail(op, i) == UNCHANGED array /\ Answer(op, i, FALSE, Untouched)

NoSlots == [i \in {} |-> NULL]

Init ==
  /\ live = FALSE /\ capacity = 0 /\ size = 0 /\ items = NoSlots /\ blocks = 0
  /\ reply = [op |-> "none", index |-> 0, ok |-> TRUE, out |-> Untouched]

Create ==
  /\ ~live
  /\ live' = TRUE /\ blocks' = blocks + 1
  /\ UNCHANGED <<capacity, size, items>>
  /\ Answer("create", 0, TRUE, Untouched)

CreateFails == ~live /\ Fail("create", 0)

(* The buffer, once there is one. *)
Buffer == IF capacity = 0 THEN 0 ELSE 1

Destroy ==
  /\ live
  /\ live' = FALSE /\ capacity' = 0 /\ size' = 0 /\ items' = NoSlots
  /\ blocks' = blocks - (1 + Buffer)
  /\ Answer("destroy", 0, TRUE, Untouched)

(* dynamic_array_get *)
Get(i) == items[i]

Set(i, x) ==
  /\ live
  /\ i < size
  /\ items' = [items EXCEPT ![i] = x]
  /\ UNCHANGED <<live, capacity, size, blocks>>
  /\ Answer("set", i, TRUE, items[i])

OutOfRange(op, i) == live /\ i >= size /\ Fail(op, i)

------------------------------------------------------------------------------
NewCapacity == IF capacity = 0 THEN 2 ELSE Wrap(capacity * 2)

CanGrow == capacity <= SizeMax \div 2 /\ Fits(NewCapacity)

(* realloc keeps the slots there were. *)
Reallocated ==
  [i \in Slots(SlotsGranted(NewCapacity)) |-> IF i \in DOMAIN items THEN items[i] ELSE Garbage]

(* Fault: the loop runs upward and copies one item over all others. *)
OpenedUpward(b, index) ==
  LET moved[i \in index .. size] ==
        IF i = index THEN b ELSE [moved[i - 1] EXCEPT ![i] = moved[i - 1][i - 1]]
  IN  moved[size]

(* The buffer b after the loop of insert moved the items from index on one *)
(* slot up, the last first.                                                *)
Opened(b, index) ==
  LET moved[i \in index .. size] ==
        IF i = size THEN b ELSE [moved[i + 1] EXCEPT ![i + 1] = moved[i + 1][i]]
  IN  moved[index]

Insert(i, x) ==
  /\ live
  /\ i <= size
  /\ IF size = capacity
     THEN /\ CanGrow
          /\ capacity' = NewCapacity
          /\ items' = [Opened(Reallocated, i) EXCEPT ![i] = x]
          /\ blocks' = blocks + 1 - Buffer
     ELSE /\ items' = [Opened(items, i) EXCEPT ![i] = x]
          /\ UNCHANGED <<capacity, blocks>>
  /\ size' = Wrap(size + 1)
  /\ UNCHANGED live
  /\ Answer("insert", i, TRUE, Untouched)

(* The index is beyond the end, the growth is refused, or realloc failed.  *)
InsertFails(i) == live /\ (i > size \/ size = capacity) /\ Fail("insert", i)

(* The loop of remove moves the items behind the index one slot down, and  *)
(* the slot that becomes free is cleared.                                  *)
Closed(index) ==
  [i \in DOMAIN items |->
     IF i = size - 1 THEN NULL
     ELSE IF i \in index .. size - 2 THEN items[i + 1]
     ELSE items[i]]

Remove(i) ==
  /\ live
  /\ i < size
  /\ items' = Closed(i)
  /\ size' = size - 1
  /\ UNCHANGED <<live, capacity, blocks>>
  /\ Answer("remove", i, TRUE, items[i])

Next ==
  \/ Create \/ CreateFails \/ Destroy
  \/ \E i \in 0 .. size + 1 :
       \/ \E x \in Item : Set(i, x) \/ Insert(i, x)
       \/ InsertFails(i)
       \/ Remove(i)
       \/ \E op \in {"set", "remove"} : OutOfRange(op, i)

Spec == Init /\ [][Next]_vars

------------------------------------------------------------------------------
(* Every variable has its type. *)
TypeOK ==
  /\ live \in BOOLEAN /\ capacity \in Nat /\ size \in Nat /\ blocks \in Nat
  /\ \A i \in DOMAIN items : items[i] \in Item \cup {NULL, Garbage}
  /\ reply.ok \in BOOLEAN

(* capacity counts the slots that were granted, through every growth up to *)
(* the limit of size_t, nothing is used beyond it and nothing leaks.       *)
CapacityIsGranted ==
  /\ DOMAIN items = Slots(capacity)
  /\ size <= capacity
  /\ blocks = IF live THEN 1 + Buffer ELSE 0

(* Below size lie items, and no slot from size on still holds a pointer of *)
(* the caller's: a removed item is forgotten wherever it was.              *)
OnlyItemsInUse ==
  /\ \A i \in Slots(size) : items[i] \in Item
  /\ \A i \in DOMAIN items \ Slots(size) : items[i] \in {NULL, Garbage}

(* The array's memory is in order and holds the caller's items only.       *)
WellFormed == TypeOK /\ CapacityIsGranted /\ OnlyItemsInUse

Contents == [i \in 1 .. size |-> Get(i - 1)]
==============================================================================
