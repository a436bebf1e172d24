---------------------------- MODULE MCShortestPaths ---------------------------
(***************************************************************************)
(* Small instances, for TLC, of the two searches for shortest paths; one   *)
(* of them runs, the other rests.  Dijkstra's meets every graph of three   *)
(* vertices with the edges of MCJoinable.  A* meets, with the constants    *)
(* below, graphs of four vertices in which the goal hangs from vertex 1    *)
(* and two routes, closed to a cycle, lead to vertex 1, with estimates     *)
(* that are admissible or not and consistent or not: so vertices are       *)
(* opened again, and the goal is proposed more than once.                  *)
(***************************************************************************)
EXTENDS MCDijkstra, Sequences

CONSTANTS
  StarVertexCount, StarJoinable, StarWeights, StarHeuristics, StarRequests,
  StarInfinity

MCStarJoinable == {<<0, 1>>, <<0, 2>>, <<1, 2>>, <<2, 1>>, <<1, 3>>}
MCStarHeuristics ==
  {h \in [0 .. 3 -> {0, 2, 4}] : h[0] = 0 /\ h[1] < 4 /\ h[2] < 4 /\ h[3] # 2}
MCStarRequests == {<<0, 3>>}

VARIABLES
  kind,        (* which of the searches a caller uses                      *)
  borrowed, estimate, from, goal, g_scores, trail, heap, expanded, unseen, path,
  held, at, answer

Star == INSTANCE AStar WITH
  VertexCount <- StarVertexCount, Joinable <- StarJoinable, Weights <- StarWeights,
  Heuristics <- StarHeuristics, Requests <- StarRequests, Infinity <- StarInfinity,
  weight <- borrowed, source <- from, parents <- trail, frontier <- heap,
  current <- expanded, pending <- unseen, blocks <- held, pc <- at, ok <- answer

ASSUME StarAssumption == Star!RouteAssumption

SearchesInit ==
  /\ \/ /\ kind = "dijkstra"
        /\ borrowed = [e \in StarJoinable |-> NoEdge]
        /\ estimate = CHOOSE h \in StarHeuristics : TRUE
     \/ kind = "a_star" /\ weight = [e \in Joinable |-> NoEdge]
  /\ Init /\ Star!Init

starVars == <<borrowed, estimate, from, goal, g_scores, trail, heap, expanded, unseen,
              path, held, at, answer>>
searchVars == <<vars, starVars, kind>>

DijkstraTurn == kind = "dijkstra" /\ Step /\ UNCHANGED <<kind, starVars>>
StarTurn == kind = "a_star" /\ Star!Step /\ UNCHANGED <<kind, vars>>

SearchesNext ==
  \/ kind = "dijkstra" /\ Next /\ UNCHANGED <<kind, starVars>>
  \/ kind = "a_star" /\ Star!Next /\ UNCHANGED <<kind, vars>>

SearchesSpec ==
  /\ SearchesInit /\ [][SearchesNext]_searchVars
  /\ WF_searchVars(DijkstraTurn) /\ WF_searchVars(StarTurn)

------------------------------------------------------------------------------
(* In a_star.c a score is either waiting in the heap or has been carried   *)
(* to all neighbours, the parents lead to the source however often they    *)
(* were rewritten, and every way out of the call frees all.                *)
StarInvariant == Star!WellFormed /\ Star!SearchInvariant

(* The path a_star.c puts out is a simple one of the graph, a lightest one *)
(* if the estimate is admissible; no route is reported missing that is     *)
(* lighter than UINT64_MAX.                                                *)
RouteIsLightest == Star!RouteIsLightest

(* A call of either search returns: reopening, cycles and edges of weight  *)
(* zero cannot keep it going.                                              *)
SearchesEnd == CallsEnd /\ Star!CallsEnd
==============================================================================
