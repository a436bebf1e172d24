-------------------------------- MODULE AStar --------------------------------
(***************************************************************************)
(* src/algorithms/shortest-paths/a-star/a_star.c: one path from a source   *)
(* to a goal, guided by an estimate the caller supplies.                   *)
(*                                                                         *)
(* Unlike dijkstra.c it keeps no settled flags: a vertex whose score falls *)
(* after it was expanded is expanded again, and a proposal is out of date  *)
(* when its score is not the recorded one.  One action is one turn of the  *)
(* main loop, one call of the relaxation callback, or one step of the walk *)
(* back from the goal.  The view enumerates neighbours in any order, the   *)
(* heap is used as module PriorityQueue promises, and an allocation may    *)
(* fail at every place that makes one.                                     *)
(***************************************************************************)
EXTENDS Naturals, Sequences, FiniteSets

CONSTANTS
  VertexCount,  (* the number of vertices of the graph                     *)
  Joinable,     (* the ordered pairs of vertices an edge may join          *)
  Weights,      (* the weights an edge may have                            *)
  Heuristics,   (* what heuristic may be: functions of the vertices        *)
  Requests,     (* the <<source, goal>> pairs callers ask for              *)
  Infinity,     (* UINT64_MAX: the largest score                           *)
  NoParent,     (* SIZE_MAX as a parent                                    *)
  NoEdge        (* the weight of a pair that is not joined                 *)

Vertices == 0 .. VertexCount - 1

RouteAssumption ==
  /\ VertexCount \in Nat \ {0}
  /\ Joinable \subseteq Vertices \X Vertices
  /\ Requests \subseteq Vertices \X Vertices
  /\ Infinity \in Nat \ {0}
  /\ Weights \subseteq 0 .. Infinity
  /\ Heuristics \subseteq [Vertices -> 0 .. Infinity]
  /\ NoParent \notin Vertices
  /\ NoEdge \notin Weights

VARIABLES
  weight,     (* the graph the caller lends                                *)
  estimate,   (* what heuristic returns for each vertex                    *)
  source, goal,
  g_scores, parents,
  frontier,   (* the proposals in the heap                                 *)
  current,    (* the proposal being expanded                               *)
  pending,    (* the neighbours of current not enumerated yet              *)
  path,       (* the vertices from where the walk back has come to up to   *)
              (* the goal; after a call that succeeded, what it put out    *)
  blocks,     (* blocks the call has allocated: both arrays, the heap, and *)
              (* one for each proposal                                     *)
  pc,         (* "idle", "loop", "relax" in the callback, "walk"           *)
  ok          (* what the last call returned                               *)

lent == <<weight, estimate>>
scores == <<g_scores, parents>>
vars == <<lent, source, goal, scores, frontier, current, pending, path,
          blocks, pc, ok>>

Edges == {e \in Joinable : weight[e] # NoEdge}
Neighbors(u) == {v \in Vertices : <<u, v>> \in Edges}

(* The sum of a proposal is checked before it is made, save the first one, *)
(* whose score is zero.                                                    *)
Proposal(v, g) == [index |-> v, g_score |-> g, f_score |-> g + estimate[v]]

(* Fault: the frontier is ordered by the estimate alone. *)
BeforeByEstimate(p, q) ==
  \/ p.f_score - p.g_score < q.f_score - q.g_score
  \/ /\ p.f_score - p.g_score = q.f_score - q.g_score
     /\ p.index < q.index \/ (p.index = q.index /\ p.g_score < q.g_score)

(* compare: by f, then by g, then by index. *)
Before(p, q) ==
  \/ p.f_score < q.f_score
  \/ p.f_score = q.f_score /\ p.g_score < q.g_score
  \/ p.f_score = q.f_score /\ p.g_score = q.g_score /\ p.index < q.index

NextUp(p) == p \in frontier /\ \A q \in frontier \ {p} : Before(p, q)

NoScores == [v \in Vertices |-> Infinity]
NoParents == [v \in Vertices |-> NoParent]
NoProposal == [index |-> 0, g_score |-> 0, f_score |-> 0]

Init ==
  /\ weight \in [Joinable -> Weights \cup {NoEdge}]
  /\ estimate \in Heuristics
  /\ source = 0 /\ goal = 0
  /\ g_scores = NoScores /\ parents = NoParents
  /\ frontier = {} /\ pending = {} /\ path = <<>>
  /\ current = NoProposal
  /\ blocks = 0
  /\ pc = "idle" /\ ok = FALSE

------------------------------------------------------------------------------
(* A call ends: whatever it holds is freed. *)
Return(result) ==
  /\ blocks' = blocks - (Cardinality(frontier) + 3 + IF pc = "relax" THEN 1 ELSE 0)
  /\ g_scores' = NoScores /\ parents' = NoParents
  /\ frontier' = {} /\ pending' = {}
  /\ current' = NoProposal
  /\ path' = IF result THEN path ELSE <<>>
  /\ pc' = "idle" /\ ok' = result
  /\ UNCHANGED <<lent, source, goal>>

Begin(s, t) ==
  /\ pc = "idle" /\ s # t
  /\ source' = s /\ goal' = t
  /\ g_scores' = [NoScores EXCEPT ![s] = 0]
  /\ frontier' = {Proposal(s, 0)}
  /\ blocks' = blocks + 4
  /\ path' = <<>>
  /\ pc' = "loop" /\ ok' = FALSE
  /\ UNCHANGED <<lent, parents, current, pending>>

(* The path of one vertex takes no memory. *)
SourceIsGoal(s) ==
  /\ pc = "idle"
  /\ source' = s /\ goal' = s
  /\ path' = <<s>>
  /\ ok' = TRUE
  /\ UNCHANGED <<lent, scores, frontier, current, pending, blocks, pc>>

(* An argument is missing or out of range, or one of the arrays, the heap, *)
(* the first proposal or its slot could not be allocated.                  *)
Refuse ==
  /\ pc = "idle"
  /\ path' = <<>>
  /\ ok' = FALSE
  /\ UNCHANGED <<lent, source, goal, scores, frontier, current, pending, blocks, pc>>

------------------------------------------------------------------------------
(* A proposal is current while its score is the recorded one. *)
IsCurrent(p) == p.g_score = g_scores[p.index]

Expand ==
  /\ pc = "loop"
  /\ \E p \in frontier :
       /\ NextUp(p) /\ IsCurrent(p) /\ p.index # goal
       /\ frontier' = frontier \ {p}
       /\ current' = p
       /\ pending' = Neighbors(p.index)
  /\ pc' = "relax"
  /\ UNCHANGED <<lent, source, goal, scores, path, blocks, ok>>

(* Fault: a proposal that is out of date is not freed. *)
DropStaleLeaks ==
  /\ pc = "loop"
  /\ \E p \in frontier :
       /\ NextUp(p) /\ ~IsCurrent(p)
       /\ frontier' = frontier \ {p}
  /\ UNCHANGED <<lent, source, goal, scores, current, pending, path, blocks, pc, ok>>

DropStale ==
  /\ pc = "loop"
  /\ \E p \in frontier :
       /\ NextUp(p) /\ ~IsCurrent(p)
       /\ frontier' = frontier \ {p}
  /\ blocks' = blocks - 1
  /\ UNCHANGED <<lent, source, goal, scores, current, pending, path, pc, ok>>

(* The goal comes up: the search stops and the walk back begins. *)
FindGoal ==
  /\ pc = "loop"
  /\ \E p \in frontier :
       /\ NextUp(p) /\ IsCurrent(p) /\ p.index = goal
       /\ frontier' = frontier \ {p}
  /\ blocks' = blocks - 1
  /\ path' = <<goal>>
  /\ pc' = "walk"
  /\ UNCHANGED <<lent, source, goal, scores, current, pending, ok>>

(* The heap has drained: no route. *)
Drained ==
  /\ pc = "loop" /\ frontier = {}
  /\ Return(FALSE)

------------------------------------------------------------------------------
(* A sum of two uint64_t. *)
Candidate(v) == (current.g_score + weight[<<current.index, v>>]) % (Infinity + 1)

GOverflows(v) == weight[<<current.index, v>>] > Infinity - current.g_score

(* Fault: a route of the same weight replaces the recorded one. *)
ImprovesOrTies(v) == ~GOverflows(v) /\ v # source /\ Candidate(v) <= g_scores[v]

Improves(v) == ~GOverflows(v) /\ Candidate(v) < g_scores[v]

FOverflows(v) == Candidate(v) > Infinity - estimate[v]

(* One call of a_star_push_neighbors that changes nothing. *)
RelaxKeeps(v) ==
  /\ pc = "relax" /\ v \in pending
  /\ ~GOverflows(v) /\ ~Improves(v)
  /\ pending' = pending \ {v}
  /\ UNCHANGED <<lent, source, goal, scores, frontier, current, path, blocks, pc, ok>>

(* One that found a better route; the arrays are written last. *)
RelaxImproves(v) ==
  /\ pc = "relax" /\ v \in pending
  /\ Improves(v) /\ ~FOverflows(v)
  /\ frontier' = frontier \cup {Proposal(v, Candidate(v))}
  /\ blocks' = blocks + 1
  /\ g_scores' = [g_scores EXCEPT ![v] = Candidate(v)]
  /\ parents' = [parents EXCEPT ![v] = current.index]
  /\ pending' = pending \ {v}
  /\ UNCHANGED <<lent, source, goal, current, path, pc, ok>>

(* A sum overflows, or there is no memory for the proposal or its slot: it *)
(* ends the call.                                                          *)
RelaxFails(v) ==
  /\ pc = "relax" /\ v \in pending
  /\ GOverflows(v) \/ Improves(v)
  /\ Return(FALSE)

Expanded ==
  /\ pc = "relax" /\ pending = {}
  /\ blocks' = blocks - 1
  /\ current' = NoProposal
  /\ pc' = "loop"
  /\ UNCHANGED <<lent, source, goal, scores, frontier, pending, path, ok>>

------------------------------------------------------------------------------
(* The walk back gives up at a vertex without a parent, and when it has    *)
(* met as many vertices as there are.                                      *)
LostTrack == parents[Head(path)] = NoParent \/ Len(path) = VertexCount

WalkBack ==
  /\ pc = "walk" /\ Head(path) # source
  /\ IF LostTrack THEN Return(FALSE)
     ELSE /\ path' = <<parents[Head(path)]>> \o path
          /\ UNCHANGED <<lent, source, goal, scores, frontier, current, pending,
                         blocks, pc, ok>>

(* The capacity of the caller's array matters here only. *)
PutOut(capacity) ==
  /\ pc = "walk" /\ Head(path) = source
  /\ Return(Len(path) <= capacity)

------------------------------------------------------------------------------
Step ==
  \/ Expand \/ DropStale \/ FindGoal \/ Drained
  \/ \E v \in Vertices : RelaxKeeps(v) \/ RelaxImproves(v) \/ RelaxFails(v)
  \/ Expanded
  \/ WalkBack
  \/ \E capacity \in 1 .. VertexCount : PutOut(capacity)

Next ==
  \/ \E r \in Requests : Begin(r[1], r[2])
  \/ \E s \in Vertices : SourceIsGoal(s)
  \/ Refuse
  \/ Step

(* A call that has begun runs on: nothing in its loops waits. *)
Spec == Init /\ [][Next]_vars /\ WF_vars(Step)

------------------------------------------------------------------------------
(* Every variable has its type; no score leaves uint64_t. *)
Proposals == [index : Vertices, g_score : 0 .. Infinity, f_score : 0 .. Infinity]

TypeOK ==
  /\ weight \in [Joinable -> Weights \cup {NoEdge}]
  /\ estimate \in Heuristics
  /\ source \in Vertices /\ goal \in Vertices
  /\ g_scores \in [Vertices -> 0 .. Infinity]
  /\ parents \in [Vertices -> Vertices \cup {NoParent}]
  /\ frontier \subseteq Proposals
  /\ current \in Proposals
  /\ pending \subseteq Vertices
  /\ path \in Seq(Vertices)
  /\ blocks \in Nat
  /\ pc \in {"idle", "loop", "relax", "walk"}
  /\ ok \in BOOLEAN

Running == pc # "idle"

(* Every block is accounted for while the call runs, and a call that ended *)
(* freed what it allocated, on every path out of it.                       *)
NothingLeaks ==
  blocks = IF Running THEN Cardinality(frontier) + 3 + IF pc = "relax" THEN 1 ELSE 0
           ELSE 0

WellFormed == TypeOK /\ NothingLeaks

Reached == {v \in Vertices : g_scores[v] # Infinity}

(* Where k steps along the parents lead from v. *)
Ancestor(v) ==
  LET up[k \in 0 .. VertexCount - 1] ==
        IF k = 0 THEN v
        ELSE IF up[k - 1] \in {source, NoParent} THEN up[k - 1]
        ELSE parents[up[k - 1]]
  IN  up

(* The parent of a reached vertex is joined to it and accounts for its     *)
(* score, or for more than that when the parent has been improved since;   *)
(* and however parents were rewritten, they lead to the source.            *)
ParentsLeadToSource ==
  Running =>
    /\ g_scores[source] = 0
    /\ \A v \in Reached \ {source} :
         /\ <<parents[v], v>> \in Edges /\ parents[v] \in Reached
         /\ g_scores[v] >= g_scores[parents[v]] + weight[<<parents[v], v>>]
    /\ \A v \in Reached : Ancestor(v)[VertexCount - 1] = source

(* The edges of a vertex out to which its score has been carried. *)
Carried(v, x) ==
  \/ g_scores[x] <= g_scores[v] + weight[<<v, x>>]
  \/ pc = "relax" /\ current.index = v /\ x \in pending

(* Reopening loses nothing: the score of a vertex is either still waiting  *)
(* in the heap or has been carried to all its neighbours, and the heap has *)
(* no better score than the recorded one.                                  *)
ScoresWaitOrCarried ==
  pc \in {"loop", "relax"} =>
    /\ \A p \in frontier :
         p = Proposal(p.index, p.g_score) /\ p.g_score >= g_scores[p.index]
    /\ \A v \in Reached :
         \/ Proposal(v, g_scores[v]) \in frontier
         \/ \A x \in Neighbors(v) : Carried(v, x)

(* The walk back only meets vertices the search has reached, each once. *)
WalkStaysOnRoute ==
  pc = "walk" =>
    /\ \A i \in 1 .. Len(path) : path[i] \in Reached
    /\ \A i \in 1 .. Len(path) - 1 : path[i] = parents[path[i + 1]]
    /\ Head(path) = source \/ ~LostTrack

(* The invariant of the search and of the walk. *)
SearchInvariant == ParentsLeadToSource /\ ScoresWaitOrCarried /\ WalkStaysOnRoute

------------------------------------------------------------------------------
LeastOf(S) == CHOOSE m \in S : \A x \in S : m <= x
Farther == VertexCount * Infinity + 1

(* The weight of a lightest route to the goal of at most k edges. *)
Remaining[k \in 0 .. VertexCount - 1] ==
  [v \in Vertices |->
     LeastOf(
       {IF v = goal THEN 0 ELSE Farther} \cup
       IF k = 0 THEN {}
       ELSE {Remaining[k - 1][x] + weight[<<v, x>>] : x \in Neighbors(v)})]

ToGoal == Remaining[VertexCount - 1]

(* The estimate never exceeds what is left to go. *)
Admissible == \A v \in Vertices : estimate[v] <= ToGoal[v]

Cost(route) ==
  LET upto[i \in 1 .. Len(route)] ==
        IF i = 1 THEN 0 ELSE upto[i - 1] + weight[<<route[i - 1], route[i]>>]
  IN  upto[Len(route)]

IsRoute(route) ==
  /\ route # <<>> /\ Head(route) = source /\ route[Len(route)] = goal
  /\ \A i \in 1 .. Len(route) - 1 : <<route[i], route[i + 1]>> \in Edges
  /\ \A i, j \in 1 .. Len(route) : i # j => route[i] # route[j]

(* A call that succeeded put out a simple path of the graph from source to *)
(* goal, a lightest one if the estimate is admissible; and the heap drains *)
(* only if no route is lighter than UINT64_MAX.                            *)
RouteIsLightest ==
  /\ ~Running /\ ok =>
       /\ IsRoute(path)
       /\ Admissible => Cost(path) = ToGoal[source]
  /\ pc = "loop" /\ frontier = {} => ToGoal[source] >= Infinity

(* Every call ends. *)
CallsEnd == Running ~> ~Running
==============================================================================
