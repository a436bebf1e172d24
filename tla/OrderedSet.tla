------------------------------ MODULE OrderedSet ------------------------------
(***************************************************************************)
(* What a search tree promises: a set of items with different ranks.  Of   *)
(* two items with one rank the first stays.  A call that reports failure   *)
(* has no effect.                                                          *)
(***************************************************************************)
CONSTANTS
  Item,        (* the pointers a caller stores                             *)
  Rank(_),     (* the place of an item in the caller's order               *)
  NULL,
  Untouched    (* an output location the call did not write                *)

VARIABLES
  stored,      (* the item of each rank that is present                    *)
  reply        (* what the last call returned                              *)

vars == <<stored, reply>>

Answer(op, x, ok, out) == reply' = [op |-> op, item |-> x, ok |-> ok, out |-> out]

Present(x) == Rank(x) \in DOMAIN stored
Nothing == [r \in {} |-> NULL]

Init ==
  /\ stored = Nothing
  /\ reply = [op |-> "none", item |-> NULL, ok |-> TRUE, out |-> Untouched]

Reset(op) == Answer(op, NULL, TRUE, Untouched) /\ stored' = Nothing

Refuse(op, x) == Answer(op, x, FALSE, Untouched) /\ UNCHANGED stored

Insert(x) ==
  /\ Answer("insert", x, TRUE, Untouched)
  /\ ~Present(x)
  /\ stored' = [r \in DOMAIN stored \cup {Rank(x)} |-> IF r = Rank(x) THEN x ELSE stored[r]]

Remove(x) ==
  /\ Answer("remove", x, TRUE, reply'.out)
  /\ Present(x) /\ reply'.out = stored[Rank(x)]
  /\ stored' = [r \in DOMAIN stored \ {Rank(x)} |-> stored[r]]

Next ==
  \/ \E op \in {"create", "destroy"} : Reset(op)
  \/ Refuse("create", NULL)
  \/ \E x \in Item :
       \/ Insert(x) \/ Refuse("insert", x)
       \/ Remove(x)
       \/ Refuse("remove", x) /\ ~Present(x)

Spec == Init /\ [][Next]_vars
==============================================================================
