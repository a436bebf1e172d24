-------------------------------- MODULE Stack ---------------------------------
(***************************************************************************)
(* The stack of src/data-structures/linear/stacks/stack/stack.c.  One      *)
(* action is one call; realloc may fail.                                   *)
(***************************************************************************)
EXTENDS CSize, Sequences

CONSTANTS
  Item,        (* the pointers a caller stores; NULL may be one of them    *)
  NULL,
  Garbage,     (* what a slot holds that realloc added                     *)
  Untouched    (* an output location the call did not write                *)

StackAssumption == Garbage \notin Item /\ Untouched \notin Item

VARIABLES
  live,        (* whether the caller holds a stack                         *)
  size, capacity,
  items,       (* the slots really allocated                               *)
  blocks,      (* live heap blocks of the stack                            *)
  reply        (* what the last call returned                              *)

stack == <<live, size, capacity, items, blocks>>
vars == <<stack, reply>>

Answer(op, i, ok, out) == reply' = [op |-> op, index |-> i, ok |-> ok, out |-> out]

Fail(op, i) == UNCHANGED stack /\ Answer(op, i, FALSE, Untouched)

NoSlots == [i \in {} |-> NULL]

Init ==
  /\ live = FALSE /\ size = 0 /\ capacity = 0 /\ items = NoSlots /\ blocks = 0
  /\ reply = [op |-> "none", index |-> 0, ok |-> TRUE, out |-> Untouched]

Create ==
  /\ ~live
  /\ live' = TRUE /\ blocks' = blocks + 1
  /\ UNCHANGED <<size, capacity, items>>
  /\ Answer("create", 0, TRUE, Untouched)

CreateFails == ~live /\ Fail("create", 0)

(* The buffer, once there is one. *)
Buffer == IF capacity = 0 THEN 0 ELSE 1

Destroy ==
  /\ live
  /\ live' = FALSE /\ size' = 0 /\ capacity' = 0 /\ items' = NoSlots
  /\ blocks' = blocks - (1 + Buffer)
  /\ Answer("destroy", 0, TRUE, Untouched)

NewCapacity == IF capacity = 0 THEN 1 ELSE Wrap(capacity * 2)

CanGrow == capacity <= SizeMax \div 2 /\ Fits(NewCapacity)

(* realloc keeps the slots there were. *)
Reallocated ==
  [i \in Slots(SlotsGranted(NewCapacity)) |-> IF i \in DOMAIN items THEN items[i] ELSE Garbage]

Push(x) ==
  /\ live
  /\ IF size = capacity
     THEN /\ CanGrow
          /\ capacity' = NewCapacity
          /\ items' = [Reallocated EXCEPT ![size] = x]
          /\ blocks' = blocks + 1 - Buffer
     ELSE /\ items' = [items EXCEPT ![size] = x]
          /\ UNCHANGED <<capacity, blocks>>
  /\ size' = Wrap(size + 1)
  /\ UNCHANGED live
  /\ Answer("push", size, TRUE, Untouched)

(* The growth is refused, or realloc failed.                               *)
PushFails == live /\ size = capacity /\ Fail("push", size)

(* stack_peek *)
Top == items[size - 1]

Cleared == [items EXCEPT ![size - 1] = NULL]

Pop ==
  /\ live /\ size # 0
  /\ items' = Cleared
  /\ size' = size - 1
  /\ UNCHANGED <<live, capacity, blocks>>
  /\ Answer("pop", size - 1, TRUE, Top)

PopFails == live /\ size = 0 /\ Fail("pop", 0)

Next ==
  \/ Create \/ CreateFails \/ Destroy
  \/ \E x \in Item : Push(x)
  \/ PushFails \/ Pop \/ PopFails

Spec == Init /\ [][Next]_vars

------------------------------------------------------------------------------
(* Every variable has its type. *)
TypeOK ==
  /\ live \in BOOLEAN /\ capacity \in Nat /\ size \in Nat /\ blocks \in Nat
  /\ \A i \in DOMAIN items : items[i] \in Item \cup {NULL, Garbage}
  /\ reply.ok \in BOOLEAN

(* capacity counts the slots that were granted, through every growth up to *)
(* the limit of size_t, nothing is used beyond it and nothing leaks.       *)
CapacityIsGranted ==
  /\ DOMAIN items = Slots(capacity)
  /\ size <= capacity
  /\ blocks = IF live THEN 1 + Buffer ELSE 0

(* Below size lie items, and no slot from size on still holds a pointer of *)
(* the caller's: a popped item is forgotten.                               *)
OnlyItemsInUse ==
  /\ \A i \in Slots(size) : items[i] \in Item
  /\ \A i \in DOMAIN items \ Slots(size) : items[i] \in {NULL, Garbage}

(* The stack's memory is in order and holds the caller's items only.       *)
WellFormed == TypeOK /\ CapacityIsGranted /\ OnlyItemsInUse

Contents == [i \in 1 .. size |-> items[i - 1]]
==============================================================================
