------------------------------ MODULE Dictionary ------------------------------
(***************************************************************************)
(* What a table promises: a finite map.  Keys are pointers, and two of     *)
(* them may stand for the same logical key; the map keeps the pointer that *)
(* came first.  A call that reports failure has no effect.                 *)
(***************************************************************************)
EXTENDS Functions

CONSTANTS
  Key, Value,  (* the pointers a caller stores                             *)
  Id(_),       (* the logical key a pointer stands for                     *)
  NULL,
  Untouched    (* an output location the call did not write                *)

VARIABLES
  map,         (* the pointer and the value stored under each logical key  *)
  reply        (* what the last call returned                              *)

vars == <<map, reply>>

Answer(op, k, ok, out) == reply' = [op |-> op, key |-> k, ok |-> ok, out |-> out]

Present(k) == Id(k) \in DOMAIN map
Nothing == [i \in {} |-> NULL]

Init ==
  /\ map = Nothing
  /\ reply = [op |-> "none", key |-> NULL, ok |-> TRUE, out |-> Untouched]

Reset(op) == Answer(op, NULL, TRUE, Untouched) /\ map' = Nothing

Refuse(op, k) == Answer(op, k, FALSE, Untouched) /\ UNCHANGED map

Insert(op, k, v) ==
  /\ Answer(op, k, TRUE, NULL)
  /\ ~Present(k)
  /\ map' = [i \in DOMAIN map \cup {Id(k)} |->
               IF i = Id(k) THEN [key |-> k, value |-> v] ELSE map[i]]

Replace(op, k, v) ==
  /\ Answer(op, k, TRUE, reply'.out)
  /\ Present(k) /\ reply'.out = map[Id(k)].value
  /\ map' = [map EXCEPT ![Id(k)].value = v]

Remove(k) ==
  /\ Answer("remove", k, TRUE, reply'.out)
  /\ Present(k) /\ reply'.out = map[Id(k)].value
  /\ map' = Restrict(map, DOMAIN map \ {Id(k)})

(* A new key may find no memory; nothing else fails on a key that is there. *)
Next ==
  \/ \E op \in {"create", "destroy"} : Reset(op)
  \/ Refuse("create", NULL)
  \/ \E k \in Key :
       /\ reply'.key = k
       /\ \/ \E op \in {"set", "set_resizing"} :
               \/ \E v \in Value : Insert(op, k, v) \/ Replace(op, k, v)
               \/ Refuse(op, k) /\ ~Present(k)
          \/ Remove(k)
          \/ Refuse("remove", k) /\ ~Present(k)

Spec == Init /\ [][Next]_vars
==============================================================================
