------------------------------ MODULE ItemList -------------------------------
(***************************************************************************)
(* What the linear containers but the queue promise: a sequence of items   *)
(* that a call changes at one place, counted from 0.  A call that reports  *)
(* failure has no effect; only where memory is needed may one fail that    *)
(* has a valid place.                                                      *)
(***************************************************************************)
EXTENDS Naturals, SequencesExt

CONSTANTS
  Item,        (* the pointers a caller stores                             *)
  Untouched    (* an output location the call did not write                *)

VARIABLES
  contents,    (* the stored items                                         *)
  reply        (* what the last call returned                              *)

vars == <<contents, reply>>

Answer(op, i, ok, out) == reply' = [op |-> op, index |-> i, ok |-> ok, out |-> out]

(* Where a call that adds an item may put it, and one that takes an item   *)
(* may take it.                                                            *)
Added ==
  [push_front |-> {0}, push_back |-> {Len(contents)}, push |-> {Len(contents)},
   insert |-> 0 .. Len(contents)]
Taken ==
  LET last == {Len(contents) - 1} \cap Nat
      used == 0 .. Len(contents) - 1
  IN  [pop_front |-> {0} \cap used, pop_back |-> last, pop |-> last, remove |-> used]

Init ==
  /\ contents = <<>>
  /\ reply = [op |-> "none", index |-> 0, ok |-> TRUE, out |-> Untouched]

Reset(op) == Answer(op, 0, TRUE, Untouched) /\ contents' = <<>>

Refuse(op, i) == Answer(op, i, FALSE, Untouched) /\ UNCHANGED contents

Add(op, i, x) ==
  /\ Answer(op, i, TRUE, Untouched)
  /\ contents' = InsertAt(contents, i + 1, x)

Take(op, i) ==
  /\ Answer(op, i, TRUE, contents[i + 1])
  /\ contents' = RemoveAt(contents, i + 1)

Set(i, x) ==
  /\ Answer("set", i, TRUE, contents[i + 1])
  /\ contents' = ReplaceAt(contents, i + 1, x)

Next ==
  \/ \E op \in {"create", "destroy"} : Reset(op)
  \/ Refuse("create", 0)
  \/ \E op \in DOMAIN Added :
       \/ \E i \in Added[op], x \in Item : Add(op, i, x)
       \/ Refuse(op, reply'.index)
  \/ \E op \in DOMAIN Taken :
       \/ \E i \in Taken[op] : Take(op, i)
       \/ Refuse(op, reply'.index) /\ reply'.index \notin Taken[op]
  \/ \E i \in Taken.remove, x \in Item : Set(i, x)
  \/ Refuse("set", reply'.index) /\ reply'.index \notin Taken.remove

Spec == Init /\ [][Next]_vars
==============================================================================
