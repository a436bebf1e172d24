--------------------------- MODULE AdjacencyMatrix ---------------------------
(***************************************************************************)
(* The weighted graph of                                                   *)
(* src/data-structures/graphs/representations/adjacency-matrix/            *)
(* adjacency_matrix.c: one flat array of cells whose row width is the node *)
(* capacity, so every growth has to move the cells it keeps.               *)
(*                                                                         *)
(* A node is its dense index and one action is one call.                   *)
(***************************************************************************)
EXTENDS CSize, FiniteSets

CONSTANTS
  EdgeSize,    (* the size of a cell, in bytes                             *)
  MaxEdges,    (* bound on the number of logical edges                     *)
  Weight,      (* the weights a caller gives                               *)
  Absent,      (* a cell whose target is NULL                              *)
  Untouched    (* an output location the call did not write                *)

ASSUME MatrixAssumption ==
  /\ EdgeSize \in Nat \ {0} /\ MaxEdges \in Nat
  /\ Absent \notin [to : Nat, weight : Weight]

VARIABLES
  live,        (* whether the caller holds a graph                         *)
  directed, edge_count, node_capacity, node_count,
  edges,       (* the cells really allocated                               *)
  blocks,      (* live heap blocks of the graph                            *)
  reply        (* what the last call returned                              *)

graph == <<live, directed, edge_count, node_capacity, node_count, edges, blocks>>
vars == <<graph, reply>>

Nodes == 0 .. (node_count - 1)

Answer(op, args, ok, out) == reply' = [op |-> op, args |-> args, ok |-> ok, out |-> out]

Fail(op, args) == UNCHANGED graph /\ Answer(op, args, FALSE, Untouched)

NoCells == [n \in {} |-> Absent]

Init ==
  /\ live = FALSE /\ directed = FALSE
  /\ edge_count = 0 /\ node_capacity = 0 /\ node_count = 0
  /\ edges = NoCells
  /\ blocks = 0
  /\ reply = [op |-> "none", args |-> <<>>, ok |-> TRUE, out |-> Untouched]

Create(d) ==
  /\ ~live
  /\ live' = TRUE /\ directed' = d
  /\ blocks' = blocks + 1
  /\ UNCHANGED <<edge_count, node_capacity, node_count, edges>>
  /\ Answer("create", <<>>, TRUE, Untouched)

CreateFails == ~live /\ Fail("create", <<>>)

(* The array of nodes and the array of cells, once there are any. *)
Arrays == IF node_capacity = 0 THEN 0 ELSE 2

Freed == 1 + Arrays + node_count

Destroy ==
  /\ live
  /\ live' = FALSE /\ directed' = FALSE
  /\ edge_count' = 0 /\ node_capacity' = 0 /\ node_count' = 0
  /\ edges' = NoCells
  /\ blocks' = blocks - Freed
  /\ Answer("destroy", <<>>, TRUE, Untouched)

------------------------------------------------------------------------------
NewCapacity == IF node_capacity = 0 THEN 1 ELSE Wrap(node_capacity * 2)
NewCells == Wrap(NewCapacity * NewCapacity)

(* Fault: the byte count of the cells is not checked. *)
CanGrowUnchecked ==
  /\ node_capacity <= SizeMax \div 2
  /\ Fits(NewCapacity)
  /\ NewCapacity <= SizeMax \div NewCapacity

CanGrow ==
  /\ node_capacity <= SizeMax \div 2
  /\ Fits(NewCapacity)
  /\ NewCapacity <= SizeMax \div NewCapacity
  /\ NewCells <= SizeMax \div EdgeSize

CellsGranted(cells) == Wrap(cells * EdgeSize) \div EdgeSize

(* The new cells are absent, but for those that keep their row and column. *)
Remapped ==
  [n \in Slots(CellsGranted(NewCells)) |->
     LET row == n \div NewCapacity
         column == n % NewCapacity
     IN  IF row < node_capacity /\ column < node_capacity
         THEN edges[row * node_capacity + column] ELSE Absent]

Replaced == Arrays

AddNode ==
  /\ live
  /\ IF node_count = node_capacity
     THEN /\ CanGrow
          /\ node_capacity' = NewCapacity
          /\ edges' = Remapped
          /\ blocks' = blocks + 3 - Replaced
     ELSE /\ blocks' = blocks + 1
          /\ UNCHANGED <<node_capacity, edges>>
  /\ node_count' = Wrap(node_count + 1)
  /\ UNCHANGED <<live, directed, edge_count>>
  /\ Answer("add_node", <<>>, TRUE, node_count)

(* What a call that fails has allocated: nothing; the node, before a check *)
(* or the first array failed; or both, before the array of cells did.      *)
Partial ==
  {made \in {{}, {"node"}, {"node", "nodes"}} :
     /\ made # {} => live /\ node_count = node_capacity
     /\ "nodes" \in made => CanGrow}

(* Fault: the array of nodes is forgotten when the one of cells fails. *)
DiscardedNodeOnly(made) == made \cap {"node"}

(* The blocks it frees again. *)
Discarded(made) == made

AddNodeFails ==
  /\ \E made \in Partial :
       blocks' = blocks + Cardinality(made) - Cardinality(Discarded(made))
  /\ UNCHANGED <<live, directed, edge_count, node_capacity, node_count, edges>>
  /\ Answer("add_node", <<>>, FALSE, Untouched)

------------------------------------------------------------------------------
Address(from, to) == Wrap(Wrap(from * node_capacity) + to)

HasEdge(from, to) == edges[Address(from, to)] # Absent

(* The cells of a logical edge. *)
Both(from, to) ==
  IF directed THEN {Address(from, to)} ELSE {Address(from, to), Address(to, from)}

Stored(from, to, w) ==
  [n \in DOMAIN edges |->
     IF n = Address(from, to) THEN [to |-> to, weight |-> w]
     ELSE IF n \in Both(from, to) THEN [to |-> from, weight |-> w]
     ELSE edges[n]]

AddEdge(from, to, w) ==
  /\ live
  /\ ~HasEdge(from, to)
  /\ edge_count < MaxEdges
  /\ edges' = Stored(from, to, w)
  /\ edge_count' = Wrap(edge_count + 1)
  /\ UNCHANGED <<live, directed, node_capacity, node_count, blocks>>
  /\ Answer("add_edge", <<from, to>>, TRUE, Untouched)

(* An edge that is there is not changed. *)
AddEdgeFails(from, to) == live /\ HasEdge(from, to) /\ Fail("add_edge", <<from, to>>)

Cleared(from, to) == [n \in DOMAIN edges |-> IF n \in Both(from, to) THEN Absent ELSE edges[n]]

RemoveEdge(from, to) ==
  /\ live
  /\ HasEdge(from, to)
  /\ edges' = Cleared(from, to)
  /\ edge_count' = Wrap(edge_count - 1)
  /\ UNCHANGED <<live, directed, node_capacity, node_count, blocks>>
  /\ Answer("remove_edge", <<from, to>>, TRUE, Untouched)

RemoveEdgeFails(from, to) == live /\ ~HasEdge(from, to) /\ Fail("remove_edge", <<from, to>>)

Next ==
  \/ \E d \in BOOLEAN : Create(d)
  \/ CreateFails
  \/ Destroy
  \/ AddNode
  \/ AddNodeFails
  \/ \E i, j \in Nodes :
       \/ \E w \in Weight : AddEdge(i, j, w)
       \/ AddEdgeFails(i, j)
       \/ RemoveEdge(i, j) \/ RemoveEdgeFails(i, j)

Spec == Init /\ [][Next]_vars

------------------------------------------------------------------------------
(* Every variable has its type; no block is freed that was not allocated.  *)
TypeOK ==
  /\ live \in BOOLEAN /\ directed \in BOOLEAN
  /\ edge_count \in 0 .. MaxEdges /\ node_capacity \in Nat /\ node_count \in Nat
  /\ \A n \in DOMAIN edges : edges[n] = Absent \/ edges[n].weight \in Weight
  /\ blocks \in Nat

(* The memory granted is a square of the width that the addresses use, so  *)
(* no address of two nodes leaves it or wraps around.                      *)
SquareOfCapacity ==
  /\ DOMAIN edges = Slots(node_capacity * node_capacity)
  /\ node_count <= node_capacity
  /\ \A i, j \in Nodes : Address(i, j) = i * node_capacity + j

(* A present cell lies in the row and the column of two nodes, and its     *)
(* target is the node of its column: no growth leaves a cell behind at an  *)
(* old offset, where a later node would find it as an edge of its own.     *)
CellsLieRight ==
  \A n \in DOMAIN edges : edges[n] # Absent =>
    /\ n \div node_capacity \in Nodes
    /\ edges[n].to = n % node_capacity
    /\ edges[n].to \in Nodes

(* The cells of an undirected graph are symmetric, so looking at the       *)
(* direct cell decides about both.                                         *)
Mirrored ==
  ~directed => \A i, j \in Nodes :
    /\ HasEdge(i, j) <=> HasEdge(j, i)
    /\ HasEdge(i, j) => edges[Address(i, j)].weight = edges[Address(j, i)].weight

(* Nothing leaks when the arrays are replaced, when one of the two that    *)
(* are to replace them is lacking, or when the graph is destroyed.         *)
OwnsItsBlocks == blocks = IF live THEN 1 + Arrays + node_count ELSE 0

(* The cells, their addresses and the heap blocks agree.                   *)
WellFormed == TypeOK /\ SquareOfCapacity /\ CellsLieRight /\ OwnsItsBlocks

------------------------------------------------------------------------------
(* What has_edge, get_edge_weight and neighbors read. *)
Shown ==
  [e \in {e \in Nodes \X Nodes : HasEdge(e[1], e[2])} |-> edges[Address(e[1], e[2])].weight]

Promise == INSTANCE WeightedGraph WITH
  Reweighs <- FALSE, count <- node_count, edges <- edge_count, weight <- Shown
==============================================================================
