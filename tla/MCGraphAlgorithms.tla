-------------------------- MODULE MCGraphAlgorithms ---------------------------
(***************************************************************************)
(* Small instances, for TLC, of the algorithms that borrow a graph and     *)
(* keep their own frontier or candidates: the two traversals and Kruskal's.*)
(* The graphs to traverse may have cycles, converging paths and a loop of  *)
(* one vertex; the graphs to span are all 729 of four vertices with        *)
(* weights 1 and 3 below a largest total of 5, where some forests are too  *)
(* heavy and some only if a rejected edge is counted.                      *)
(***************************************************************************)
EXTENDS Traversal

CONSTANTS
  SizeMax, PtrSize, EdgeSize, Weights, WeightMax, OutCapacities, NoEdge, Unset

VARIABLES
  kind,        (* which of the algorithms a caller uses                    *)
  weight, out_capacity, from, candidates, candidate_capacity, sorted, index,
  selected_count, total_weight, groups, out

Span == INSTANCE Kruskal

ASSUME SpanAssumption == Span!KruskalAssumption /\ Span!SizeAssumption

MCJoinable ==
  {<<0, 1>>, <<0, 2>>, <<0, 3>>, <<1, 2>>, <<2, 1>>, <<1, 3>>, <<3, 2>>, <<3, 0>>, <<2, 2>>}
MCWeights == {1, 3}

AlgorithmsInit ==
  \/ /\ kind = "traverse"
     /\ weight = [p \in Span!Pairs |-> NoEdge] /\ out_capacity = 2
     /\ Init /\ Span!Init
  \/ /\ kind = "span"
     /\ edges = {} /\ search = "bfs"
     /\ Init /\ Span!Init

spanOnly == <<weight, out_capacity, from, candidates, candidate_capacity, sorted, index,
              selected_count, total_weight, groups, out>>
traverseOnly == <<edges, search, source, marked, frontier, visits>>
algorithmsVars == <<vars, spanOnly, kind>>

TraverseTurn == kind = "traverse" /\ Turn /\ UNCHANGED <<kind, spanOnly>>
SpanTurn == kind = "span" /\ Span!Turn /\ UNCHANGED <<kind, traverseOnly>>

AlgorithmsNext ==
  \/ kind = "traverse" /\ Next /\ UNCHANGED <<kind, spanOnly>>
  \/ kind = "span" /\ Span!Next /\ UNCHANGED <<kind, traverseOnly>>

AlgorithmsSpec ==
  /\ AlgorithmsInit /\ [][AlgorithmsNext]_algorithmsVars
  /\ WF_algorithmsVars(TraverseTurn) /\ WF_algorithmsVars(SpanTurn)

------------------------------------------------------------------------------
(* The invariants of the loops of breadth_first_search.c and               *)
(* depth_first_search.c (a vertex is marked, put and visited once, and the *)
(* frontier separates what was visited from what was not) and of kruskal.c *)
(* (the selected edges are a forest over the groups of union-find, kept in *)
(* the array that is still being read; a call that fails writes no         *)
(* output), and every way out frees all.                                   *)
LoopsWellFormed == IF kind = "span" THEN Span!WellFormed ELSE WellFormed

(* The edges kruskal.c puts out join what the graph joins, with the least  *)
(* weight there is, in order.                                              *)
SpanIsLeast == kind = "span" => Span!LeastForest

(* kruskal.c fails over weights only when no spanning forest has a total   *)
(* that a uint64_t can hold; otherwise, over the room for a complete one.  *)
FailsWhenTooHeavy ==
  [][kind = "span" /\ pc = "select" /\ pc' = "done" /\ ~ok'
       => \/ Span!LeastWeight > WeightMax
          \/ index = Len(sorted) /\ selected_count > out_capacity]_algorithmsVars

(* A call of any of the three returns, on cyclic graphs too.               *)
EveryCallEnds == pc \notin {"idle", "done"} ~> pc \in {"idle", "done"}
==============================================================================
