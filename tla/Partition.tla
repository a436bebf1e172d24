------------------------------ MODULE Partition ------------------------------
(***************************************************************************)
(* What a disjoint-set structure promises its caller: every element of     *)
(* 0 .. n-1 is in exactly one group, each group answers for all its        *)
(* elements with the same representative, which is one of them, and groups *)
(* only ever merge.  Which of two representatives survives a merge is not  *)
(* promised.                                                               *)
(***************************************************************************)
EXTENDS Naturals

CONSTANTS
  MaxElements,  (* bound on the number of elements of a set                *)
  Untouched     (* an output location the call did not write               *)

VARIABLES
  label,        (* the representative of each element                      *)
  reply         (* what the last call returned                             *)

vars == <<label, reply>>

Answer(op, ok, rep, flag) == [op |-> op, ok |-> ok, rep |-> rep, flag |-> flag]

Elements == DOMAIN label

Init ==
  /\ label = [x \in {} |-> x]
  /\ reply = Answer("none", TRUE, Untouched, Untouched)

Create(count) ==
  /\ label' = [x \in 0 .. count - 1 |-> x]
  /\ reply' = Answer("create", TRUE, Untouched, Untouched)

Destroy ==
  /\ label' = [x \in {} |-> x]
  /\ reply' = Answer("destroy", TRUE, Untouched, Untouched)

Find(x) ==
  /\ reply' = Answer("find", TRUE, label[x], Untouched)
  /\ UNCHANGED label

Connected(x, y) ==
  /\ reply' = Answer("connected", TRUE, Untouched, label[x] = label[y])
  /\ UNCHANGED label

AlreadyOne(x, y) ==
  /\ label[x] = label[y]
  /\ reply' = Answer("union", TRUE, Untouched, FALSE)
  /\ UNCHANGED label

Merge(x, y) ==
  /\ label[x] # label[y]
  /\ \E winner \in {label[x], label[y]} :
       label' = [z \in Elements |->
                   IF label[z] \in {label[x], label[y]} THEN winner ELSE label[z]]
  /\ reply' = Answer("union", TRUE, Untouched, TRUE)

Refuse(op) ==
  /\ reply' = Answer(op, FALSE, Untouched, Untouched)
  /\ UNCHANGED label

Next ==
  \/ \E count \in 0 .. MaxElements : Create(count)
  \/ Destroy
  \/ \E x \in Elements : Find(x)
  \/ \E x, y \in Elements : Connected(x, y) \/ AlreadyOne(x, y) \/ Merge(x, y)
  \/ \E op \in {"create", "find", "union", "connected"} : Refuse(op)

Spec == Init /\ [][Next]_vars
==============================================================================
