------------------------------- MODULE Dijkstra ------------------------------
(***************************************************************************)
(* src/algorithms/shortest-paths/dijkstra/dijkstra.c: single-source        *)
(* shortest paths with a heap of proposals in which stale ones stay until  *)
(* they are popped.                                                        *)
(*                                                                         *)
(* One action is one turn of the main loop or one call of the relaxation   *)
(* callback that graph_view_neighbors makes.  The view may be backed by    *)
(* either graph representation, so the neighbours come in any order.       *)
(* The heap is used as module PriorityQueue promises: a pop takes a least  *)
(* proposal.  An allocation may fail at every place that makes one.        *)
(***************************************************************************)
EXTENDS Naturals, FiniteSets

CONSTANTS
  VertexCount,  (* the number of vertices of the graph                     *)
  Joinable,     (* the ordered pairs of vertices an edge may join          *)
  Weights,      (* the weights an edge may have                            *)
  Infinity,     (* UINT64_MAX: the largest distance, DIJKSTRA_INFINITY     *)
  NoParent,     (* SIZE_MAX as a parent                                    *)
  NoEdge        (* the weight of a pair that is not joined                 *)

Vertices == 0 .. VertexCount - 1

ASSUME GraphAssumption ==
  /\ VertexCount \in Nat \ {0}
  /\ Joinable \subseteq Vertices \X Vertices
  /\ Infinity \in Nat \ {0}
  /\ Weights \subseteq 0 .. Infinity
  /\ NoParent \notin Vertices
  /\ NoEdge \notin Weights

VARIABLES
  weight,     (* the graph the caller lends                                *)
  source,
  distances, parents,       (* the output arrays                           *)
  settled,    (* the vertices whose settled flag is set                    *)
  frontier,   (* the proposals in the heap                                 *)
  current,    (* the proposal being expanded                               *)
  pending,    (* the neighbours of current not enumerated yet              *)
  blocks,     (* blocks the call has allocated: the settled array, the     *)
              (* heap, and one for each proposal                           *)
  pc,         (* "idle", "loop" in the main loop, "relax" in the callback  *)
  ok          (* what the last call returned                               *)

output == <<distances, parents>>
vars == <<weight, source, output, settled, frontier, current, pending,
          blocks, pc, ok>>

Edges == {e \in Joinable : weight[e] # NoEdge}
Neighbors(u) == {v \in Vertices : <<u, v>> \in Edges}

Proposal(v, d) == [index |-> v, total |-> d]

(* compare: by total distance, then by index. *)
Before(p, q) ==
  \/ p.total < q.total
  \/ p.total = q.total /\ p.index < q.index

(* Fault: a frontier without an order. *)
AnyProposal(p) == p \in frontier

NextUp(p) == p \in frontier /\ \A q \in frontier \ {p} : Before(p, q)

Init ==
  /\ weight \in [Joinable -> Weights \cup {NoEdge}]
  /\ source = 0
  /\ distances = [v \in Vertices |-> 0]
  /\ parents = [v \in Vertices |-> NoParent]
  /\ settled = {} /\ frontier = {} /\ pending = {}
  /\ current = Proposal(0, 0)
  /\ blocks = 0
  /\ pc = "idle" /\ ok = FALSE

------------------------------------------------------------------------------
(* The arrays are reset before anything is allocated. *)
Reset(dist, par) ==
  /\ distances' = dist
  /\ parents' = par

NoDistances == [v \in Vertices |-> Infinity]
NoParents == [v \in Vertices |-> NoParent]

Begin(s) ==
  /\ pc = "idle"
  /\ Reset([NoDistances EXCEPT ![s] = 0], [NoParents EXCEPT ![s] = s])
  /\ source' = s
  /\ frontier' = {Proposal(s, 0)}
  /\ blocks' = blocks + 3
  /\ pc' = "loop"
  /\ UNCHANGED <<weight, settled, current, pending, ok>>

(* An argument is missing or source is out of range. *)
Refuse ==
  /\ pc = "idle"
  /\ ok' = FALSE
  /\ UNCHANGED <<weight, source, output, settled, frontier, current, pending,
                 blocks, pc>>

(* The settled array, the heap, the first proposal or its slot in the heap *)
(* could not be allocated: what was allocated is freed.                    *)
BeginFails ==
  /\ pc = "idle"
  /\ Reset(NoDistances, NoParents)
  /\ ok' = FALSE
  /\ UNCHANGED <<weight, source, settled, frontier, current, pending, blocks, pc>>

(* Leaving the call: the proposals left in the heap, the heap and the      *)
(* settled array are freed, and in the loop body the current proposal.     *)
Return(result) ==
  /\ blocks' = blocks - (Cardinality(frontier) + 2 + IF pc = "relax" THEN 1 ELSE 0)
  /\ frontier' = {} /\ settled' = {} /\ pending' = {}
  /\ current' = Proposal(0, 0)
  /\ pc' = "idle" /\ ok' = result
  /\ UNCHANGED <<weight, source>>

Finish ==
  /\ pc = "loop" /\ frontier = {}
  /\ Return(TRUE)
  /\ UNCHANGED output

------------------------------------------------------------------------------
Fresh(p) == p.total = distances[p.index] /\ p.index \notin settled

Settle ==
  /\ pc = "loop"
  /\ \E p \in frontier :
       /\ NextUp(p) /\ Fresh(p)
       /\ frontier' = frontier \ {p}
       /\ settled' = settled \cup {p.index}
       /\ current' = p
       /\ pending' = Neighbors(p.index)
  /\ pc' = "relax"
  /\ UNCHANGED <<weight, source, output, blocks, ok>>

(* Fault: a stale proposal is not freed. *)
DropStaleLeaks ==
  /\ pc = "loop"
  /\ \E p \in frontier :
       /\ NextUp(p) /\ ~Fresh(p)
       /\ frontier' = frontier \ {p}
  /\ UNCHANGED <<weight, source, output, settled, current, pending, blocks, pc, ok>>

(* Fault: the loop looks at a stale proposal without taking it. *)
DropStalePeeks ==
  /\ pc = "loop"
  /\ \E p \in frontier : NextUp(p) /\ ~Fresh(p)
  /\ UNCHANGED vars

DropStale ==
  /\ pc = "loop"
  /\ \E p \in frontier :
       /\ NextUp(p) /\ ~Fresh(p)
       /\ frontier' = frontier \ {p}
  /\ blocks' = blocks - 1
  /\ UNCHANGED <<weight, source, output, settled, current, pending, pc, ok>>

------------------------------------------------------------------------------
(* A sum of two uint64_t. *)
Candidate(v) == (current.total + weight[<<current.index, v>>]) % (Infinity + 1)

(* Fault: the sum is not checked for overflow. *)
NeverOverflows(v) == FALSE

Overflows(v) == weight[<<current.index, v>>] > Infinity - current.total

(* Fault: only the first path found to a vertex counts. *)
FirstPathOnly(v) == ~Overflows(v) /\ Candidate(v) < Infinity /\ distances[v] = Infinity

Improves(v) == ~Overflows(v) /\ Candidate(v) < distances[v]

(* One call of heap_push_neighbors that changes nothing. *)
RelaxKeeps(v) ==
  /\ pc = "relax" /\ v \in pending
  /\ ~Overflows(v) /\ ~Improves(v)
  /\ pending' = pending \ {v}
  /\ UNCHANGED <<weight, source, output, settled, frontier, current, blocks, pc, ok>>

(* Fault: no second proposal for a vertex that has one. *)
RelaxPushesOnce(v) ==
  /\ pc = "relax" /\ v \in pending
  /\ Improves(v)
  /\ IF \E p \in frontier : p.index = v
     THEN UNCHANGED <<frontier, blocks>>
     ELSE /\ frontier' = frontier \cup {Proposal(v, Candidate(v))}
          /\ blocks' = blocks + 1
  /\ distances' = [distances EXCEPT ![v] = Candidate(v)]
  /\ parents' = [parents EXCEPT ![v] = current.index]
  /\ pending' = pending \ {v}
  /\ UNCHANGED <<weight, source, settled, current, pc, ok>>

(* One that found a shorter path. *)
RelaxImproves(v) ==
  /\ pc = "relax" /\ v \in pending
  /\ Improves(v)
  /\ frontier' = frontier \cup {Proposal(v, Candidate(v))}
  /\ blocks' = blocks + 1
  /\ distances' = [distances EXCEPT ![v] = Candidate(v)]
  /\ parents' = [parents EXCEPT ![v] = current.index]
  /\ pending' = pending \ {v}
  /\ UNCHANGED <<weight, source, settled, current, pc, ok>>

(* The sum overflows, or there is no memory for the proposal or its slot.  *)
RelaxFails(v) ==
  /\ pc = "relax" /\ v \in pending
  /\ Overflows(v) \/ Improves(v)
  /\ Return(FALSE)
  /\ UNCHANGED output

Expanded ==
  /\ pc = "relax" /\ pending = {}
  /\ blocks' = blocks - 1
  /\ current' = Proposal(0, 0)
  /\ pc' = "loop"
  /\ UNCHANGED <<weight, source, output, settled, frontier, pending, ok>>

------------------------------------------------------------------------------
Step ==
  \/ Finish
  \/ Settle \/ DropStale
  \/ \E v \in Vertices : RelaxKeeps(v) \/ RelaxImproves(v) \/ RelaxFails(v)
  \/ Expanded

Next ==
  \/ \E s \in Vertices : Begin(s)
  \/ Refuse
  \/ BeginFails
  \/ Step

(* A call that has begun runs on: nothing in its loops waits. *)
Spec == Init /\ [][Next]_vars /\ WF_vars(Step)

------------------------------------------------------------------------------
(* Every variable has its type; no distance leaves uint64_t. *)
TypeOK ==
  /\ weight \in [Joinable -> Weights \cup {NoEdge}]
  /\ source \in Vertices
  /\ distances \in [Vertices -> 0 .. Infinity]
  /\ parents \in [Vertices -> Vertices \cup {NoParent}]
  /\ settled \subseteq Vertices
  /\ frontier \subseteq [index : Vertices, total : 0 .. Infinity]
  /\ current \in [index : Vertices, total : 0 .. Infinity]
  /\ pending \subseteq Vertices
  /\ blocks \in Nat
  /\ pc \in {"idle", "loop", "relax"}
  /\ ok \in BOOLEAN

Reached == {v \in Vertices : distances[v] # Infinity}
Running == pc # "idle"
Complete == ~Running /\ ok

(* The parent links of the vertices reached so far are a tree of real      *)
(* edges that accounts for every distance, and while the call runs it only *)
(* branches at vertices that are settled.                                  *)
ParentsAreTight ==
  Running \/ Complete =>
    /\ distances[source] = 0 /\ parents[source] = source
    /\ \A v \in Vertices \ {source} :
         /\ v \in Reached <=> parents[v] # NoParent
         /\ v \in Reached =>
              /\ <<parents[v], v>> \in Edges
              /\ distances[v] = distances[parents[v]] + weight[<<parents[v], v>>]
              /\ Running => parents[v] \in settled

(* The heap holds the current proposal of every vertex that was reached    *)
(* and is not settled, and no proposal better than a recorded distance:    *)
(* dropping stale proposals drops nothing that is needed.                  *)
FrontierIsComplete ==
  Running =>
    /\ \A v \in Reached \ settled : Proposal(v, distances[v]) \in frontier
    /\ \A p \in frontier : distances[p.index] <= p.total

(* Vertices are settled in order of distance, and the edges of an expanded *)
(* vertex are relaxed.                                                     *)
SettledInOrder ==
  Running =>
    \A u \in settled :
      /\ \A v \in Vertices \ settled : distances[u] <= distances[v]
      /\ \A v \in Neighbors(u) :
           (pc = "relax" /\ u = current.index /\ v \in pending)
             \/ distances[v] <= distances[u] + weight[<<u, v>>]

(* The invariant of the outer loop.                                        *)
LoopInvariant == FrontierIsComplete /\ SettledInOrder

(* What is settled stays: neither the distance nor the parent of a settled *)
(* vertex changes again.                                                   *)
SettledIsFinal ==
  [][Running =>
       \A v \in settled : distances'[v] = distances[v] /\ parents'[v] = parents[v]]_vars

(* Every block is accounted for while the call runs, and a call that ended *)
(* freed what it allocated, on every path out of it.                       *)
NothingLeaks ==
  blocks = IF Running THEN Cardinality(frontier) + 2 + IF pc = "relax" THEN 1 ELSE 0
           ELSE 0

(* The variables of the call have their types and nothing leaks.           *)
WellFormed == TypeOK /\ NothingLeaks

(* Every call ends. *)
CallsEnd == Running ~> ~Running

------------------------------------------------------------------------------
(* The length of a shortest path of at most k edges from the source; the   *)
(* distances of Bellman and Ford, and of no bounded word.  Farther is more *)
(* than any path is long.                                                  *)
Farther == VertexCount * Infinity + 1

LeastOf(S) == CHOOSE m \in S : \A x \in S : m <= x

Shortest[k \in 0 .. VertexCount - 1] ==
  [v \in Vertices |->
     LeastOf(
       {IF v = source THEN 0 ELSE Farther} \cup
       IF k = 0 THEN {}
       ELSE {Shortest[k - 1][u] + weight[<<u, v>>] :
               u \in {u \in Vertices : <<u, v>> \in Edges}})]

Distance(v) == Shortest[VertexCount - 1][v]

(* A call that succeeded reports the distance of every vertex, as far as   *)
(* a uint64_t can tell: what is farther away reads as Infinity.            *)
ShortestWhenComplete ==
  Complete =>
    \A v \in Vertices :
      distances[v] = IF Distance(v) < Infinity THEN Distance(v) ELSE Infinity

(* dijkstra.h says of DIJKSTRA_INFINITY that it "Marks an unreachable Node *)
(* distance": a vertex some path leads to does not get it.                 *)
InfinityMeansUnreachable ==
  Complete => \A v \in Vertices : Distance(v) < Farther => v \in Reached
==============================================================================
