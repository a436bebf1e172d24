-------------------------------- MODULE Fifo ---------------------------------
(***************************************************************************)
(* What a queue promises its caller, whatever it keeps inside: items leave *)
(* in the order they entered, a call that reports failure has no effect,   *)
(* and every answer carries the number of items the queue then holds.      *)
(***************************************************************************)
EXTENDS Sequences, Naturals

CONSTANTS
  Item,        (* the values a caller may store                            *)
  Untouched    (* an output location the call did not write                *)

VARIABLES
  contents,    (* the stored items, front first                            *)
  reply        (* what the last call returned                              *)

vars == <<contents, reply>>

Answer(op, ok, item, count) ==
  [op |-> op, ok |-> ok, item |-> item, size |-> count]

Init ==
  /\ contents = <<>>
  /\ reply = Answer("none", TRUE, Untouched, 0)

Accept(x) ==
  /\ contents' = Append(contents, x)
  /\ reply' = Answer("enqueue", TRUE, Untouched, Len(contents) + 1)

Deliver ==
  /\ contents # <<>>
  /\ contents' = Tail(contents)
  /\ reply' = Answer("dequeue", TRUE, Head(contents), Len(contents) - 1)

Show ==
  /\ contents # <<>>
  /\ reply' = Answer("peek", TRUE, Head(contents), Len(contents))
  /\ UNCHANGED contents

Refuse(op) ==
  /\ reply' = Answer(op, FALSE, Untouched, Len(contents))
  /\ UNCHANGED contents

(* Creating or destroying leaves a queue that holds nothing. *)
Reset(op) ==
  /\ contents' = <<>>
  /\ reply' = Answer(op, TRUE, Untouched, 0)

Next ==
  \/ \E x \in Item : Accept(x)
  \/ Deliver
  \/ Show
  \/ \E op \in {"create", "enqueue", "dequeue", "peek"} : Refuse(op)
  \/ \E op \in {"create", "destroy"} : Reset(op)

Spec == Init /\ [][Next]_vars
==============================================================================
