---------------------------- MODULE PriorityQueue ----------------------------
(***************************************************************************)
(* What a binary heap promises its caller: a bag of items from which every *)
(* pop or peek takes one that no other stored item ranks below.  Which of  *)
(* several lowest-ranked items it takes is not promised.                   *)
(***************************************************************************)
EXTENDS Naturals

CONSTANTS
  Item,        (* the items a caller may store                             *)
  Rank,        (* the order the caller's comparator gives them             *)
  Untouched    (* an output location the call did not write                *)

VARIABLES
  stored,      (* how many times each item is stored                       *)
  reply        (* what the last call returned                              *)

vars == <<stored, reply>>

Answer(op, ok, item) == [op |-> op, ok |-> ok, item |-> item]

Nothing == [x \in Item |-> 0]

Lowest(x) ==
  /\ stored[x] > 0
  /\ \A y \in Item : stored[y] > 0 => Rank[x] <= Rank[y]

Init ==
  /\ stored = Nothing
  /\ reply = Answer("none", TRUE, Untouched)

Push(x) ==
  /\ stored' = [stored EXCEPT ![x] = @ + 1]
  /\ reply' = Answer("push", TRUE, Untouched)

Pop(x) ==
  /\ Lowest(x)
  /\ stored' = [stored EXCEPT ![x] = @ - 1]
  /\ reply' = Answer("pop", TRUE, x)

Peek(x) ==
  /\ Lowest(x)
  /\ reply' = Answer("peek", TRUE, x)
  /\ UNCHANGED stored

Refuse(op) ==
  /\ reply' = Answer(op, FALSE, Untouched)
  /\ UNCHANGED stored

Reset(op) ==
  /\ stored' = Nothing
  /\ reply' = Answer(op, TRUE, Untouched)

Next ==
  \/ \E x \in Item : Push(x) \/ Pop(x) \/ Peek(x)
  \/ \E op \in {"create", "push", "pop", "peek"} : Refuse(op)
  \/ \E op \in {"create", "destroy"} : Reset(op)

Spec == Init /\ [][Next]_vars
==============================================================================
