---------------------------- MODULE AdjacencyList ----------------------------
(***************************************************************************)
(* The weighted graph of                                                   *)
(* src/data-structures/graphs/representations/adjacency-list/              *)
(* adjacency_list.c: an array of nodes, each with a growing array of       *)
(* separately allocated edge records.                                      *)
(*                                                                         *)
(* A node is its dense index.  Adding an edge to an undirected graph is    *)
(* two actions, one per stored direction, because memory may be lacking    *)
(* for the second; every other call is one action.                         *)
(***************************************************************************)
EXTENDS CSize, Sequences, FiniteSets

CONSTANTS
  MaxNodes,    (* bound on the number of nodes                             *)
  MaxEdges,    (* bound on the number of logical edges                     *)
  Weight,      (* the weights a caller gives                               *)
  Untouched    (* an output location the call did not write                *)

GraphAssumption ==
  /\ MaxNodes \in Nat /\ MaxEdges \in Nat
  /\ MaxEdges <= SizeMax  (* edge records have addresses of their own *)

VARIABLES
  live,        (* whether the caller holds a graph                         *)
  directed, node_count, node_capacity, edge_count,
  edges,       (* each node's edge records, in slot order                  *)
  edge_capacity,
  half,        (* the locals of adjacency_list_add_edge between its two    *)
               (* directions, or NoHalf                                    *)
  blocks,      (* live heap blocks of the graph                            *)
  reply        (* what the last call returned                              *)

storage == <<node_count, node_capacity, edge_count, edges, edge_capacity, blocks>>
graph == <<live, directed, storage>>
vars == <<graph, half, reply>>

Nodes == 0 .. (node_count - 1)
Records(i) == 1 .. Len(edges[i])

NoHalf == [from |-> MaxNodes, to |-> MaxNodes, weight |-> 0, inserted |-> FALSE, previous |-> 0]
Idle == half = NoHalf

Answer(op, args, ok, out) ==
  reply' = [op |-> op, args |-> args, ok |-> ok, out |-> out]

Fail(op, args) ==
  /\ Idle
  /\ UNCHANGED <<graph, half>>
  /\ Answer(op, args, FALSE, Untouched)

NoNodes == [i \in {} |-> 0]

Init ==
  /\ live = FALSE /\ directed = FALSE
  /\ node_count = 0 /\ node_capacity = 0 /\ edge_count = 0
  /\ edges = NoNodes /\ edge_capacity = NoNodes
  /\ half = NoHalf
  /\ blocks = 0
  /\ reply = [op |-> "none", args |-> <<>>, ok |-> TRUE, out |-> Untouched]

Create(d) ==
  /\ ~live
  /\ live' = TRUE /\ directed' = d
  /\ blocks' = blocks + 1
  /\ UNCHANGED <<node_count, node_capacity, edge_count, edges, edge_capacity, half>>
  /\ Answer("create", <<>>, TRUE, Untouched)

CreateFails == ~live /\ Fail("create", <<>>)

(* The blocks of the nodes: each node, its array of edges if it ever had   *)
(* one, and each edge record.                                              *)
NodeBlocks ==
  node_count + Cardinality({i \in Nodes : edge_capacity[i] > 0})
             + Cardinality(UNION {{i} \X Records(i) : i \in Nodes})

NodeArray == IF node_capacity > 0 THEN 1 ELSE 0

Destroy ==
  /\ live /\ Idle
  /\ live' = FALSE /\ directed' = FALSE
  /\ node_count' = 0 /\ node_capacity' = 0 /\ edge_count' = 0
  /\ edges' = NoNodes /\ edge_capacity' = NoNodes
  /\ blocks' = blocks - (1 + NodeArray + NodeBlocks)
  /\ UNCHANGED half
  /\ Answer("destroy", <<>>, TRUE, Untouched)

------------------------------------------------------------------------------
(* An array of pointers starts with one slot and doubles. *)
Doubled(capacity) == IF capacity = 0 THEN 1 ELSE Wrap(capacity * 2)
CanGrow(capacity) == capacity <= SizeMax \div 2 /\ Fits(Doubled(capacity))

AddNode ==
  /\ live /\ Idle
  /\ node_count < MaxNodes
  /\ IF node_count = node_capacity
     THEN /\ CanGrow(node_capacity)
          /\ node_capacity' = Doubled(node_capacity)
          /\ blocks' = blocks + 2 - NodeArray
     ELSE /\ blocks' = blocks + 1
          /\ UNCHANGED node_capacity
  /\ edges' = [i \in 0 .. node_count |-> IF i < node_count THEN edges[i] ELSE <<>>]
  /\ edge_capacity' = [i \in 0 .. node_count |-> IF i < node_count THEN edge_capacity[i] ELSE 0]
  /\ node_count' = Wrap(node_count + 1)
  /\ UNCHANGED <<live, directed, edge_count, half>>
  /\ Answer("add_node", <<>>, TRUE, node_count)

(* What a call has allocated that fails to store a new node or record: not *)
(* even that, or that alone, when the array that is to hold it is full and *)
(* grows too many bytes or finds no memory.                                *)
Partial(new, full) == {made \in SUBSET {new} : made # {} => full}

(* Fault: the node or record is forgotten. *)
DiscardedNothing(made) == {}

(* The blocks such a call frees again. *)
Discarded(made) == made

(* How many of the blocks that were made are still there. *)
LeftOver(made) == Cardinality(made) - Cardinality(Discarded(made))

(* No graph, or no memory for the node or a larger array. *)
AddNodeFails ==
  /\ Idle
  /\ \E made \in Partial("node", live /\ node_count = node_capacity) :
       blocks' = blocks + LeftOver(made)
  /\ UNCHANGED <<live, directed, node_count, node_capacity, edge_count, edges, edge_capacity, half>>
  /\ Answer("add_node", <<>>, FALSE, Untouched)

------------------------------------------------------------------------------
(* The slot of the record of from that has the target to, 0 if none. *)
SlotOf(from, to) ==
  LET hits == {n \in Records(from) : edges[from][n].to = to}
  IN  IF hits = {} THEN 0 ELSE CHOOSE n \in hits : \A m \in hits : n <= m

HasRecord(from, to) == SlotOf(from, to) # 0

Reweighted(from, to, w) == [edges EXCEPT ![from][SlotOf(from, to)].weight = w]

(* add_directed_edge when the record is there. *)
Reweigh(from, to, w) ==
  /\ HasRecord(from, to)
  /\ edges' = Reweighted(from, to, w)
  /\ UNCHANGED <<edge_capacity, blocks>>

IsFull(i) == Len(edges[i]) = edge_capacity[i]

(* add_directed_edge when the record is new and memory suffices. *)
AppendRecord(from, to, w) ==
  /\ ~HasRecord(from, to)
  /\ edge_count < MaxEdges
  /\ IF IsFull(from)
     THEN /\ CanGrow(edge_capacity[from])
          /\ edge_capacity' = [edge_capacity EXCEPT ![from] = Doubled(@)]
          /\ blocks' = blocks + (IF edge_capacity[from] = 0 THEN 2 ELSE 1)
     ELSE /\ blocks' = blocks + 1
          /\ UNCHANGED edge_capacity
  /\ edges' = [edges EXCEPT ![from] = Append(@, [to |-> to, weight |-> w])]

AddDirected(from, to, w) == Reweigh(from, to, w) \/ AppendRecord(from, to, w)

(* A directed edge or a loop is stored once, and the call is over. *)
AddSingle(from, to, w) ==
  /\ live /\ Idle
  /\ directed \/ from = to
  /\ AddDirected(from, to, w)
  /\ edge_count' = IF HasRecord(from, to) THEN edge_count ELSE Wrap(edge_count + 1)
  /\ UNCHANGED <<live, directed, node_count, node_capacity, half>>
  /\ Answer("add_edge", <<from, to>>, TRUE, Untouched)

AddForward(from, to, w) ==
  /\ live /\ Idle
  /\ ~directed /\ from # to
  /\ AddDirected(from, to, w)
  /\ half' = [from |-> from, to |-> to, weight |-> w, inserted |-> ~HasRecord(from, to),
              previous |-> IF HasRecord(from, to) THEN edges[from][SlotOf(from, to)].weight ELSE 0]
  /\ UNCHANGED <<live, directed, node_count, node_capacity, edge_count, reply>>

(* Fault: the reverse record keeps its old weight. *)
MirrorKeepsWeight ==
  \/ AppendRecord(half.to, half.from, half.weight)
  \/ HasRecord(half.to, half.from) /\ UNCHANGED <<edges, edge_capacity, blocks>>

Mirror == AddDirected(half.to, half.from, half.weight)

AddReverse ==
  /\ ~Idle
  /\ Mirror
  /\ edge_count' = IF half.inserted /\ ~HasRecord(half.to, half.from)
                   THEN Wrap(edge_count + 1) ELSE edge_count
  /\ half' = NoHalf
  /\ UNCHANGED <<live, directed, node_count, node_capacity>>
  /\ Answer("add_edge", <<half.from, half.to>>, TRUE, Untouched)

(* The last record moves into the slot that is freed. *)
Compacted(s, n) == [m \in 1 .. Len(s) - 1 |-> IF m = n THEN s[Len(s)] ELSE s[m]]

(* Fault: an inserted record is not taken out. *)
RolledBackWeightOnly == Reweighted(half.from, half.to, half.previous)

(* rollback_directed_edge: the records before the first half.              *)
RolledBack ==
  IF half.inserted
  THEN [edges EXCEPT ![half.from] = Compacted(@, SlotOf(half.from, half.to))]
  ELSE Reweighted(half.from, half.to, half.previous)

Freed == IF half.inserted THEN 1 ELSE 0

(* No memory for the reverse record: the first direction is undone.  The   *)
(* larger array it may have got stays.                                     *)
RollBack ==
  /\ ~Idle
  /\ ~HasRecord(half.to, half.from)
  /\ edges' = RolledBack
  /\ \E made \in Partial("edge", IsFull(half.to)) : blocks' = blocks + LeftOver(made) - Freed
  /\ half' = NoHalf
  /\ UNCHANGED <<live, directed, node_count, node_capacity, edge_count, edge_capacity>>
  /\ Answer("add_edge", <<half.from, half.to>>, FALSE, Untouched)

(* No memory for the first record, or for the larger array it needs. *)
AddEdgeFails(from, to) ==
  /\ live /\ Idle
  /\ ~HasRecord(from, to)
  /\ \E made \in Partial("edge", IsFull(from)) : blocks' = blocks + LeftOver(made)
  /\ UNCHANGED <<live, directed, node_count, node_capacity, edge_count, edges, edge_capacity, half>>
  /\ Answer("add_edge", <<from, to>>, FALSE, Untouched)

------------------------------------------------------------------------------
Next ==
  \/ \E d \in BOOLEAN : Create(d)
  \/ CreateFails
  \/ Destroy
  \/ AddNode
  \/ AddNodeFails
  \/ \E i, j \in Nodes : \E w \in Weight : AddSingle(i, j, w) \/ AddForward(i, j, w)
  \/ AddReverse
  \/ RollBack
  \/ \E i, j \in Nodes : AddEdgeFails(i, j)

Spec == Init /\ [][Next]_vars

------------------------------------------------------------------------------
(* Every variable has its type. *)
TypeOK ==
  /\ live \in BOOLEAN /\ directed \in BOOLEAN
  /\ node_count \in 0 .. MaxNodes /\ node_capacity \in Nat /\ edge_count \in Nat
  /\ DOMAIN edges = Nodes /\ DOMAIN edge_capacity = Nodes
  /\ \A i \in Nodes : \A n \in Records(i) :
       edges[i][n].to \in Nodes /\ edges[i][n].weight \in Weight
  /\ \A i \in Nodes : edge_capacity[i] \in Nat
  /\ ~Idle => {half.from, half.to} \subseteq Nodes /\ half.weight \in Weight
  /\ blocks \in Nat

(* A target has one record per source, so an update never meets a second   *)
(* record that would keep the old weight.                                  *)
OneRecordPerTarget ==
  \A i \in Nodes : \A m, n \in Records(i) :
    m # n => edges[i][m].to # edges[i][n].to

(* Counts stay within the memory granted, and no node's array of edges is  *)
(* larger than the array of nodes: the arrays grow along the same ladder,  *)
(* so where the nodes of a graph fit, its edge arrays pass every check     *)
(* against SIZE_MAX.                                                       *)
ArraysFit ==
  /\ node_count <= node_capacity
  /\ SlotsGranted(node_capacity) = node_capacity
  /\ \A i \in Nodes : Len(edges[i]) <= edge_capacity[i] /\ edge_capacity[i] <= node_capacity

(* Between calls an undirected edge is stored both ways with one weight;   *)
(* within a call only the half being added may differ.  So an update never *)
(* has to be rolled back: when its forward record was there, so is the     *)
(* reverse one.                                                            *)
Mirrored ==
  /\ ~directed => \A i, j \in Nodes :
       {i, j} # {half.from, half.to} =>
         /\ HasRecord(i, j) <=> HasRecord(j, i)
         /\ HasRecord(i, j) => edges[i][SlotOf(i, j)].weight = edges[j][SlotOf(j, i)].weight
  /\ ~Idle /\ ~half.inserted => HasRecord(half.to, half.from)

(* Nothing leaks: not the node or the record whose array could not grow,   *)
(* not the record of an edge that is rolled back.                          *)
OwnsItsBlocks == blocks = IF live THEN 1 + NodeArray + NodeBlocks ELSE 0

(* The records, the arrays and the heap blocks agree.                      *)
WellFormed == TypeOK /\ OneRecordPerTarget /\ ArraysFit /\ OwnsItsBlocks

------------------------------------------------------------------------------
(* The weight that has_edge and neighbors show of each pair. *)
Shown ==
  [e \in UNION {{<<i, edges[i][n].to>> : n \in Records(i)} : i \in Nodes} |->
     edges[e[1]][SlotOf(e[1], e[2])].weight]

(* The half of a call that has not returned does not count. *)
Settled ==
  LET e == <<half.from, half.to>>
  IN  IF Idle THEN Shown
      ELSE IF half.inserted THEN [f \in DOMAIN Shown \ {e} |-> Shown[f]]
      ELSE [Shown EXCEPT ![e] = half.previous]

Promise == INSTANCE WeightedGraph WITH
  Reweighs <- TRUE, count <- node_count, edges <- edge_count, weight <- Settled
==============================================================================
