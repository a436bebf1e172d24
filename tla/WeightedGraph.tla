---------------------------- MODULE WeightedGraph ----------------------------
(***************************************************************************)
(* What both graph representations promise: nodes get dense indexes that   *)
(* never change, a pair of nodes is joined by at most one edge, the edges  *)
(* of an undirected graph run both ways with one weight and are counted    *)
(* once, and a call that reports failure has no effect.                    *)
(***************************************************************************)
EXTENDS Naturals, FiniteSets

CONSTANTS
  Weight,      (* the weights of edges                                     *)
  Untouched,   (* an output location the call did not write                *)
  Reweighs     (* whether adding an edge that is there changes its weight, *)
               (* or fails                                                 *)

VARIABLES
  directed,
  count,       (* the nodes are 0 .. count - 1                             *)
  weight,      (* the weight of each ordered pair that is joined           *)
  edges,       (* the number of logical edges                              *)
  reply        (* what the last call returned                              *)

graph == <<directed, count, weight, edges>>
vars == <<graph, reply>>

Nodes == 0 .. (count - 1)
Joined == DOMAIN weight

Both(i, j) == IF directed THEN {<<i, j>>} ELSE {<<i, j>>, <<j, i>>}

(* The logical edges of a graph with these joined pairs. *)
Logical(pairs) == IF directed THEN pairs ELSE {{e[1], e[2]} : e \in pairs}

Answer(op, args, ok, out) == reply' = [op |-> op, args |-> args, ok |-> ok, out |-> out]

Refuse(op, args) == Answer(op, args, FALSE, Untouched) /\ UNCHANGED graph

NoWeights == [e \in {} |-> 0]

Empty(d) == directed' = d /\ count' = 0 /\ weight' = NoWeights /\ edges' = 0

Init ==
  /\ directed = FALSE /\ count = 0 /\ weight = NoWeights /\ edges = 0
  /\ reply = [op |-> "none", args |-> <<>>, ok |-> TRUE, out |-> Untouched]

Create(d) == Answer("create", <<>>, TRUE, Untouched) /\ Empty(d)

Destroy == Answer("destroy", <<>>, TRUE, Untouched) /\ Empty(FALSE)

AddNode ==
  /\ Answer("add_node", <<>>, TRUE, count)
  /\ count' = count + 1
  /\ UNCHANGED <<directed, weight, edges>>

(* The graph with these weights and as many logical edges as they make. *)
Reweighted(new) ==
  /\ weight' = new
  /\ edges' = Cardinality(Logical(DOMAIN new))
  /\ UNCHANGED <<directed, count>>

AddEdge(i, j, w) ==
  /\ Answer("add_edge", <<i, j>>, TRUE, Untouched)
  /\ <<i, j>> \in Joined => Reweighs
  /\ Reweighted([e \in Joined \cup Both(i, j) |-> IF e \in Both(i, j) THEN w ELSE weight[e]])

(* Memory may be lacking for an edge that is new. *)
AddEdgeFails(i, j) ==
  /\ Refuse("add_edge", <<i, j>>)
  /\ <<i, j>> \in Joined => ~Reweighs

RemoveEdge(i, j) ==
  /\ Answer("remove_edge", <<i, j>>, TRUE, Untouched)
  /\ <<i, j>> \in Joined
  /\ Reweighted([e \in Joined \ Both(i, j) |-> weight[e]])

RemoveEdgeFails(i, j) ==
  /\ Refuse("remove_edge", <<i, j>>)
  /\ <<i, j>> \notin Joined

Next ==
  \/ \E d \in BOOLEAN : Create(d)
  \/ Destroy
  \/ AddNode
  \/ \E i, j \in Nodes :
       \/ \E w \in Weight : AddEdge(i, j, w)
       \/ AddEdgeFails(i, j)
       \/ RemoveEdge(i, j) \/ RemoveEdgeFails(i, j)
  \/ \E op \in {"create", "add_node"} : Refuse(op, <<>>)

Spec == Init /\ [][Next]_vars
==============================================================================
