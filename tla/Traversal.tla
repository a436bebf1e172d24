------------------------------ MODULE Traversal -------------------------------
(***************************************************************************)
(* The two traversals of src/algorithms/graph-traversal:                   *)
(* breadth_first_search.c, over a queue, and depth_first_search.c, over a  *)
(* stack.  They differ in the end of the frontier an entry is taken from.  *)
(*                                                                         *)
(* One action is one turn of the main loop or one call of the callback     *)
(* that graph_view_neighbors makes.  The neighbors come in any order, the  *)
(* visitor and the view may stop the call, and memory may be lacking at    *)
(* every allocation.                                                       *)
(***************************************************************************)
EXTENDS Naturals, Sequences, FiniteSets, SequencesExt

CONSTANTS
  VertexCount,  (* the number of vertices of the graph                     *)
  Joinable,     (* the ordered pairs of vertices an edge may join          *)
  Searches      (* the functions a caller calls: "bfs", "dfs"              *)

Vertices == 0 .. VertexCount - 1

ASSUME TraversalAssumption ==
  /\ VertexCount \in Nat \ {0}
  /\ Joinable \subseteq Vertices \X Vertices
  /\ Searches \subseteq {"bfs", "dfs"}

VARIABLES
  edges,      (* the graph the caller lends                                *)
  search,     (* which function was called last                            *)
  source,
  marked,     (* the vertices whose queued or stacked flag is set          *)
  frontier,   (* the indexes in the queue, front first, or in the stack,   *)
              (* top last                                                  *)
  pending,    (* the neighbors of the vertex visited last that are not     *)
              (* enumerated yet                                            *)
  visits,     (* the vertices shown to the visitor, in order               *)
  blocks,     (* blocks the call has allocated: the flags, the indexes,    *)
              (* the queue or stack and its buffer                         *)
  pc,         (* "idle", "loop" in the main loop, "expand" in the callback *)
  ok          (* what the last call returned                               *)

vars == <<edges, search, source, marked, frontier, pending, visits, blocks, pc, ok>>

Neighbors(u) == {v \in Vertices : <<u, v>> \in edges}

Init ==
  /\ edges \in SUBSET Joinable
  /\ search \in Searches /\ source = 0
  /\ marked = {} /\ frontier = <<>> /\ pending = {} /\ visits = <<>>
  /\ blocks = 0
  /\ pc = "idle" /\ ok = FALSE

------------------------------------------------------------------------------
Begin(f, s) ==
  /\ pc = "idle"
  /\ search' = f /\ source' = s
  /\ marked' = {s} /\ frontier' = <<s>> /\ visits' = <<>>
  /\ blocks' = blocks + 4
  /\ pc' = "loop"
  /\ UNCHANGED <<edges, pending, ok>>

(* An argument is invalid, or the flags, the indexes, the frontier or its  *)
(* first slot could not be allocated: what was allocated is freed.         *)
BeginFails(f) ==
  /\ pc = "idle"
  /\ search' = f /\ visits' = <<>> /\ ok' = FALSE
  /\ UNCHANGED <<edges, source, marked, frontier, pending, blocks, pc>>

Return(result) ==
  /\ marked' = {} /\ frontier' = <<>> /\ pending' = {}
  /\ blocks' = blocks - 4
  /\ pc' = "idle" /\ ok' = result
  /\ UNCHANGED <<edges, search, source>>

(* Fault: the last entry stays in the frontier. *)
FinishEarly ==
  /\ pc = "loop" /\ Len(frontier) <= 1
  /\ Return(TRUE)
  /\ UNCHANGED visits

Finish ==
  /\ pc = "loop" /\ frontier = <<>>
  /\ Return(TRUE)
  /\ UNCHANGED visits

Popped(u) == u = Last(frontier) /\ frontier' = Front(frontier)
Dequeued(u) == u = Head(frontier) /\ frontier' = Tail(frontier)

Taken(u) ==
  /\ pc = "loop" /\ frontier # <<>>
  /\ IF search = "bfs" THEN Dequeued(u) ELSE Popped(u)

Visit(u) ==
  /\ Taken(u)
  /\ visits' = Append(visits, u)
  /\ pending' = Neighbors(u)
  /\ pc' = "expand"
  /\ UNCHANGED <<edges, search, source, marked, blocks, ok>>

(* The visitor returns false. *)
VisitStops ==
  /\ pc = "loop" /\ frontier # <<>>
  /\ visits' = Append(visits, IF search = "bfs" THEN Head(frontier) ELSE Last(frontier))
  /\ Return(FALSE)

------------------------------------------------------------------------------
(* queue_enqueue and stack_push put the new entry at the end.              *)
Put(v) ==
  /\ pc = "expand" /\ v \in pending
  /\ v \notin marked
  /\ marked' = marked \cup {v}
  /\ frontier' = Append(frontier, v)
  /\ pending' = pending \ {v}
  /\ UNCHANGED <<edges, search, source, visits, blocks, pc, ok>>

Skip(v) ==
  /\ pc = "expand" /\ v \in pending
  /\ v \in marked
  /\ pending' = pending \ {v}
  /\ UNCHANGED <<edges, search, source, marked, frontier, visits, blocks, pc, ok>>

(* The frontier cannot grow for a new entry. *)
PutFails(v) ==
  /\ pc = "expand" /\ v \in pending
  /\ v \notin marked
  /\ Return(FALSE)
  /\ UNCHANGED visits

(* The view fails in the middle of the enumeration. *)
ViewFails ==
  /\ pc = "expand"
  /\ Return(FALSE)
  /\ UNCHANGED visits

(* Fault: the enumeration starts over. *)
ExpandedAgain ==
  /\ pc = "expand" /\ pending = {}
  /\ pending' = Neighbors(Last(visits))
  /\ UNCHANGED <<edges, search, source, marked, frontier, visits, blocks, pc, ok>>

Expanded ==
  /\ pc = "expand" /\ pending = {}
  /\ pc' = "loop"
  /\ UNCHANGED <<edges, search, source, marked, frontier, pending, visits, blocks, ok>>

Turn ==
  \/ Finish
  \/ VisitStops
  \/ ViewFails
  \/ Expanded
  \/ \E u \in Vertices : Visit(u) \/ Put(u) \/ Skip(u) \/ PutFails(u)

Next ==
  \/ \E f \in Searches : BeginFails(f) \/ \E s \in Vertices : Begin(f, s)
  \/ Turn

(* The loops of a call run without waiting for anything. *)
Spec == Init /\ [][Next]_vars /\ WF_vars(Turn)

------------------------------------------------------------------------------
Visited == {visits[i] : i \in DOMAIN visits}
Waiting == {frontier[i] : i \in DOMAIN frontier}

(* Every variable has its type. *)
TypeOK ==
  /\ edges \subseteq Joinable
  /\ search \in Searches /\ source \in Vertices
  /\ marked \subseteq Vertices /\ pending \subseteq Vertices
  /\ frontier \in Seq(Vertices) /\ visits \in Seq(Vertices)
  /\ blocks \in Nat
  /\ pc \in {"idle", "loop", "expand"} /\ ok \in BOOLEAN

(* README.md: "cycles and converging paths cannot visit it twice".  A      *)
(* vertex is marked once: then it waits once, and then it was visited      *)
(* once.  So the frontier never holds more entries than there are vertices.*)
MarkedOnce ==
  /\ \A i, j \in DOMAIN visits : i # j => visits[i] # visits[j]
  /\ \A i, j \in DOMAIN frontier : i # j => frontier[i] # frontier[j]
  /\ pc # "idle" => Visited \cap Waiting = {} /\ marked = Visited \cup Waiting

(* The sets of vertices no edge leads out of, with the source.             *)
Closed(S) == source \in S /\ \A e \in edges : e[1] \in S => e[2] \in S

(* The loop invariant: the marked vertices are reachable, and an edge from *)
(* a visited vertex leads to a marked one or is still to be enumerated.    *)
FrontierSeparates ==
  pc # "idle" =>
    /\ source \in marked
    /\ \A S \in SUBSET Vertices : Closed(S) => marked \subseteq S
    /\ \A e \in edges :
         e[1] \in Visited => e[2] \in marked \/ (visits[Len(visits)] = e[1] /\ e[2] \in pending)

(* A call that returns true has visited the vertices that can be reached   *)
(* from the source, that is the least closed set, and no other.            *)
VisitsReachable ==
  pc = "idle" /\ ok =>
    Closed(Visited) /\ \A S \in SUBSET Vertices : Closed(S) => Visited \subseteq S

(* The vertices that paths of at most n edges from the source reach, and   *)
(* the number of edges on a shortest path.                                 *)
Within[n \in 0 .. VertexCount] ==
  IF n = 0 THEN {source}
  ELSE LET closer == Within[n - 1]
       IN  closer \cup {e[2] : e \in {f \in edges : f[1] \in closer}}

Level ==
  [v \in Within[VertexCount] |->
     CHOOSE n \in 0 .. VertexCount : v \in Within[n] /\ (n > 0 => v \notin Within[n - 1])]

(* Breadth first: what was visited and what waits is in order of distance  *)
(* from the source, over at most two levels in the frontier.               *)
LayerByLayer ==
  search = "bfs" =>
    LET line == visits \o frontier
    IN  /\ \A i, j \in DOMAIN line : i < j => Level[line[i]] <= Level[line[j]]
        /\ \A i, j \in DOMAIN frontier : Level[frontier[j]] <= Level[frontier[i]] + 1

(* Every way out of a call frees what it allocated. *)
NothingLeaks == blocks = IF pc = "idle" THEN 0 ELSE 4

(* The loop invariant of both traversals.                                  *)
WellFormed == TypeOK /\ NothingLeaks /\ MarkedOnce /\ FrontierSeparates

(* A call returns, on cyclic graphs too. *)
CallsEnd == pc # "idle" ~> pc = "idle"
==============================================================================
