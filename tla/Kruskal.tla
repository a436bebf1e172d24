------------------------------- MODULE Kruskal --------------------------------
(***************************************************************************)
(* src/algorithms/minimum-spanning-trees/kruskal/kruskal.c: a minimum      *)
(* spanning forest of an undirected graph of two or more vertices.         *)
(*                                                                         *)
(* One action is one call of the callback that collects candidate edges or *)
(* one turn of a loop.  The union-find structure is used as module         *)
(* Partition promises, and quick_sort as a sort by its comparison.  Memory *)
(* may be lacking at every allocation.                                     *)
(***************************************************************************)
EXTENDS CSize, Sequences, SequencesExt, FiniteSets, FiniteSetsExt

CONSTANTS
  VertexCount,  (* the number of vertices of the graph                     *)
  EdgeSize,     (* the size of a KruskalEdge, in bytes                     *)
  Weights,      (* the weights an edge may have                            *)
  WeightMax,    (* UINT64_MAX                                              *)
  OutCapacities,(* the room the caller's array of edges may have           *)
  NoEdge,       (* the weight of a pair that is not joined                 *)
  Unset         (* an output the call did not write                        *)

Vertices == 0 .. VertexCount - 1
Pairs == {p \in Vertices \X Vertices : p[1] < p[2]}

KruskalAssumption ==
  /\ VertexCount \in Nat \ {0, 1} /\ EdgeSize \in Nat \ {0}
  /\ WeightMax \in Nat /\ Weights \subseteq 0 .. WeightMax
  /\ OutCapacities \subseteq Nat
  /\ NoEdge \notin Weights

VARIABLES
  weight,       (* the graph the caller lends: the weight of each pair     *)
  out_capacity, (* the room in the caller's array                          *)
  from, pending,(* the vertex whose neighbors are enumerated, and those    *)
                (* not enumerated yet                                      *)
  candidates, candidate_capacity,
  sorted,       (* the edges the sort pointers point at                    *)
  index, selected_count, total_weight,
  groups,       (* the partition that union-find keeps                     *)
  out,          (* the edges and the weight the call put out               *)
  blocks,       (* blocks the call has allocated; the union-find is one    *)
  pc,           (* "idle", "collect", "select", "done"                     *)
  ok            (* what the call returned                                  *)

locals == <<from, pending, candidates, candidate_capacity, sorted, index, selected_count,
            total_weight, groups>>
vars == <<weight, out_capacity, locals, out, blocks, pc, ok>>

Edges == {p \in Pairs : weight[p] # NoEdge}
Neighbors(u) == {v \in Vertices : <<u, v>> \in Edges \/ <<v, u>> \in Edges}

Edge(p) == [from |-> p[1], to |-> p[2], weight |-> weight[p]]

(* kruskal_quick_sort_compare *)
Before(e, f) ==
  \/ e.weight < f.weight
  \/ e.weight = f.weight /\ e.from < f.from
  \/ e.weight = f.weight /\ e.from = f.from /\ e.to < f.to

Init ==
  /\ weight \in [Pairs -> Weights \cup {NoEdge}]
  /\ out_capacity \in OutCapacities
  /\ from = 0 /\ pending = {}
  /\ candidates = <<>> /\ candidate_capacity = 0 /\ sorted = <<>>
  /\ index = 0 /\ selected_count = 0 /\ total_weight = 0
  /\ groups = {{v} : v \in Vertices}
  /\ out = Unset /\ blocks = 0
  /\ pc = "idle" /\ ok = FALSE

(* Leaving the call with b blocks allocated: all of them are freed.        *)
Return(result, b) ==
  /\ blocks' = b - (1 + (IF candidate_capacity = 0 THEN 0 ELSE 1) + (IF sorted = <<>> THEN 0 ELSE 1))
  /\ pc' = "done" /\ ok' = result
  /\ UNCHANGED <<weight, out_capacity, locals>>

Begin ==
  /\ pc = "idle"
  /\ blocks' = blocks + 1
  /\ pending' = Neighbors(0)
  /\ pc' = "collect"
  /\ UNCHANGED <<weight, out_capacity, from, candidates, candidate_capacity, sorted, index,
                 selected_count, total_weight, groups, out, ok>>

(* An argument is invalid or directed, or the union-find cannot be created.*)
Refuse ==
  /\ pc = "idle"
  /\ pc' = "done" /\ ok' = FALSE
  /\ UNCHANGED <<weight, out_capacity, locals, out, blocks>>

------------------------------------------------------------------------------
(* The callback takes an edge from its lower end only, and no loop. *)
Mirror(v) == from >= v

Passed(v) ==
  /\ pc = "collect" /\ v \in pending
  /\ Mirror(v)
  /\ pending' = pending \ {v}
  /\ UNCHANGED <<weight, out_capacity, from, candidates, candidate_capacity, sorted, index,
                 selected_count, total_weight, groups, out, blocks, pc, ok>>

IsFull == Len(candidates) = candidate_capacity
Doubled == IF candidate_capacity = 0 THEN 1 ELSE Wrap(candidate_capacity * 2)
CanGrow == candidate_capacity <= SizeMax \div 2 /\ Doubled <= SizeMax \div EdgeSize

WeightOf(u, v) == weight[IF u < v THEN <<u, v>> ELSE <<v, u>>]

Collect(v) ==
  /\ pc = "collect" /\ v \in pending
  /\ ~Mirror(v)
  /\ IF IsFull
     THEN /\ CanGrow
          /\ candidate_capacity' = Doubled
          /\ blocks' = blocks + (IF candidate_capacity = 0 THEN 1 ELSE 0)
     ELSE UNCHANGED <<candidate_capacity, blocks>>
  /\ candidates' = Append(candidates, [from |-> from, to |-> v, weight |-> WeightOf(from, v)])
  /\ pending' = pending \ {v}
  /\ UNCHANGED <<weight, out_capacity, from, sorted, index, selected_count, total_weight,
                 groups, out, pc, ok>>

(* The view fails, or the candidates cannot grow. *)
CollectFails ==
  /\ pc = "collect"
  /\ Return(FALSE, blocks)
  /\ UNCHANGED out

NextFrom ==
  /\ pc = "collect" /\ pending = {}
  /\ from + 1 < VertexCount
  /\ from' = from + 1
  /\ pending' = Neighbors(from + 1)
  /\ UNCHANGED <<weight, out_capacity, candidates, candidate_capacity, sorted, index,
                 selected_count, total_weight, groups, out, blocks, pc, ok>>

Collected == pc = "collect" /\ pending = {} /\ from + 1 = VertexCount

Output(edges, total) == out' = [edges |-> edges, total |-> total]

NoCandidates ==
  /\ Collected /\ candidates = <<>>
  /\ Output(<<>>, 0)
  /\ Return(TRUE, blocks)

(* Fault: the candidates are taken as they were collected. *)
Unsorted == candidates

RangeOf(s) == {s[i] : i \in DOMAIN s}

(* quick_sort puts a candidate behind all that come before it.             *)
PlaceOf(e) == Cardinality({i \in DOMAIN candidates : Before(candidates[i], e)}) + 1
Sorted == [i \in DOMAIN candidates |-> CHOOSE e \in RangeOf(candidates) : PlaceOf(e) = i]

(* The array of pointers is allocated and sorted. *)
Sort ==
  /\ Collected /\ candidates # <<>>
  /\ sorted' = Sorted
  /\ blocks' = blocks + 1
  /\ pc' = "select"
  /\ UNCHANGED <<weight, out_capacity, from, pending, candidates, candidate_capacity, index,
                 selected_count, total_weight, groups, out, ok>>

(* No memory for the pointers. *)
SortFails ==
  /\ Collected /\ candidates # <<>>
  /\ Return(FALSE, blocks)
  /\ UNCHANGED out

------------------------------------------------------------------------------
Read == sorted[index + 1]
GroupOf(v) == CHOOSE g \in groups : v \in g
Joins(e) == GroupOf(e.from) # GroupOf(e.to)
Overflows(e) == e.weight > WeightMax - total_weight

(* Fault: the slot behind the selected prefix is left out. *)
StoredLate(e) == [sorted EXCEPT ![IF selected_count + 2 > Len(sorted) THEN 1 ELSE selected_count + 2] = e]

(* The selected edges are kept in the front of the array that is read.     *)
Stored(e) == [sorted EXCEPT ![selected_count + 1] = e]

Select ==
  /\ pc = "select" /\ index < Len(sorted)
  /\ Joins(Read) /\ ~Overflows(Read)
  /\ groups' = (groups \ {GroupOf(Read.from), GroupOf(Read.to)})
                 \cup {GroupOf(Read.from) \cup GroupOf(Read.to)}
  /\ sorted' = Stored(Read)
  /\ selected_count' = selected_count + 1
  /\ total_weight' = total_weight + Read.weight
  /\ index' = index + 1
  /\ UNCHANGED <<weight, out_capacity, from, pending, candidates, candidate_capacity, out,
                 blocks, pc, ok>>

Reject ==
  /\ pc = "select" /\ index < Len(sorted)
  /\ ~Joins(Read)
  /\ index' = index + 1
  /\ UNCHANGED <<weight, out_capacity, from, pending, candidates, candidate_capacity, sorted,
                 selected_count, total_weight, groups, out, blocks, pc, ok>>

(* Fault: an edge that joins nothing counts for the overflow. *)
TooHeavyAlways ==
  /\ pc = "select" /\ index < Len(sorted)
  /\ Overflows(Read)
  /\ Return(FALSE, blocks)
  /\ UNCHANGED out

(* The groups are joined before the weight is looked at, and then freed.   *)
TooHeavy ==
  /\ pc = "select" /\ index < Len(sorted)
  /\ Joins(Read) /\ Overflows(Read)
  /\ Return(FALSE, blocks)
  /\ UNCHANGED out

Selected == SubSeq(sorted, 1, selected_count)

(* Fault: what fits is put out, and the call fails.                        *)
NoRoomTruncates ==
  /\ pc = "select" /\ index = Len(sorted)
  /\ selected_count > out_capacity
  /\ Output(SubSeq(Selected, 1, out_capacity), total_weight)
  /\ Return(FALSE, blocks)

(* The caller's array is too small: it is not written.                     *)
NoRoom ==
  /\ pc = "select" /\ index = Len(sorted)
  /\ selected_count > out_capacity
  /\ Return(FALSE, blocks)
  /\ UNCHANGED out

PutOut ==
  /\ pc = "select" /\ index = Len(sorted)
  /\ selected_count <= out_capacity
  /\ Output(Selected, total_weight)
  /\ Return(TRUE, blocks)

Turn ==
  \/ \E v \in Vertices : Passed(v) \/ Collect(v)
  \/ CollectFails \/ NextFrom \/ NoCandidates \/ Sort \/ SortFails
  \/ Select \/ Reject \/ TooHeavy \/ NoRoom \/ PutOut

Next == Begin \/ Refuse \/ Turn

(* The loops of a call run without waiting for anything. *)
Spec == Init /\ [][Next]_vars /\ WF_vars(Turn)

------------------------------------------------------------------------------
(* The sets of vertices that no edge of es leaves. *)
Closed(es) == {S \in SUBSET Vertices : \A e \in es : e.from \in S <=> e.to \in S}

(* The groups that a set of edges joins the vertices into: with a vertex   *)
(* go all that no closed set keeps apart from it.                          *)
Component(es, v) ==
  LET closed == Closed(es)
  IN  {u \in Vertices : \A S \in closed : v \in S => u \in S}
Components(es) == {Component(es, v) : v \in Vertices}

(* The sum of the weights of es: a weight is as many as the numbers below. *)
WeightOfAll(es) == Cardinality({u \in es \X (0 .. WeightMax) : u[2] < u[1].weight})

AllEdges == {Edge(p) : p \in Edges}

(* The sets of edges that join what the graph joins. *)
Spanning ==
  LET all == Components(AllEdges)
  IN  {es \in SUBSET AllEdges : Components(es) = all}

(* The least weight that joins what the graph joins.                       *)
LeastWeight == Min({WeightOfAll(es) : es \in Spanning})

(* Every variable has its type; the candidates fit their array.            *)
TypeOK ==
  /\ out_capacity \in Nat /\ from \in Vertices /\ pending \subseteq Vertices
  /\ RangeOf(candidates) \subseteq AllEdges /\ RangeOf(sorted) \subseteq AllEdges
  /\ Len(candidates) <= candidate_capacity /\ candidate_capacity <= SizeMax \div EdgeSize
  /\ index \in 0 .. Len(sorted) /\ total_weight \in 0 .. WeightMax
  /\ blocks \in Nat /\ ok \in BOOLEAN

(* Keeping the selected edges in the array that is still being read does   *)
(* no harm: what has not been read is as it was sorted, and the selected   *)
(* edges are a forest over the groups of union-find.                       *)
ForestSoFar ==
  /\ pc = "select" =>
       /\ selected_count <= index
       /\ Len(sorted) = Len(candidates)
       /\ \A i \in index + 1 .. Len(sorted) : sorted[i] = Sorted[i]
  /\ Components(RangeOf(Selected)) = groups
  /\ Cardinality(RangeOf(Selected)) = selected_count
  /\ selected_count = VertexCount - Cardinality(groups)

(* What a successful call puts out: distinct edges of the graph with       *)
(* from < to in the order of their weights, that join what the graph joins *)
(* with the least weight there is, and that weight.                        *)
LeastForest ==
  pc = "done" /\ ok =>
    /\ RangeOf(out.edges) \subseteq AllEdges
    /\ Components(RangeOf(out.edges)) = Components(AllEdges)
    /\ out.total = LeastWeight
    /\ out.total = WeightOfAll(RangeOf(out.edges))
    /\ Len(out.edges) = VertexCount - Cardinality(groups)
    /\ Len(out.edges) <= out_capacity
    /\ \A i, j \in DOMAIN out.edges : i < j => Before(out.edges[i], out.edges[j])

(* The weights only make a call fail when no spanning forest at all has a  *)
(* total that a uint64_t can hold: an edge that joins nothing never does.  *)
(* The other way to fail is a forest that is complete and has no room.     *)
FailsWhenTooHeavy ==
  [][pc = "select" /\ pc' = "done" /\ ~ok' =>
       LeastWeight > WeightMax \/ (index = Len(sorted) /\ selected_count > out_capacity)]_vars

(* Every way out frees the union-find, the candidates and the pointers.    *)
NothingLeaks == pc \in {"idle", "done"} => blocks = 0

(* No output is written by a call that fails, however far it had come, nor *)
(* by one that goes on: the edges selected so far and their weight stay in *)
(* the memory of the call until nothing can fail any more.                 *)
OutputIsLast == out = Unset \/ (pc = "done" /\ ok)

(* The invariant of both loops, and what they leave.                       *)
WellFormed == TypeOK /\ ForestSoFar /\ NothingLeaks /\ OutputIsLast

(* The call ends.                                                          *)
CallEnds == pc # "idle" ~> pc = "done"
==============================================================================
