------------------------ MODULE MCShortestPathsProofs ------------------------
(***************************************************************************)
(* Both searches for shortest paths are correct for every graph, every     *)
(* size of the distance word and every order of the neighbours.            *)
(*                                                                         *)
(* First Dijkstra's, as dijkstra.c runs it, whose names MCShortestPaths    *)
(* shares.  That the distances are the shortest ones is proved twice.      *)
(* Without paths, by duality: a potential is an assignment of numbers that *)
(* is 0 at the source and grows along an edge by the edge's weight at      *)
(* most, so it is at most the length of any path; and the shortest         *)
(* distances are the greatest potential.  And as what Shortest says, the   *)
(* least weights of paths of at most so many edges, by least               *)
(* counterexamples to it.                                                  *)
(*                                                                         *)
(* Then A*, as a_star.c runs it, which may open a vertex again: that the   *)
(* parents stay a tree, that the goal comes up only when nothing that      *)
(* waits could still lead to a lighter route, and that the walk back adds  *)
(* up to no more than the goal's score.                                    *)
(***************************************************************************)
EXTENDS MCShortestPaths, Arithmetic, FiniteSetTheorems, TLAPS

(* What the main loop relies on: no set outlives the call, the proposal    *)
(* being expanded is the one just settled, and nothing in the heap is      *)
(* nearer than what is settled.                                            *)
Bookkeeping ==
  /\ ~Running => settled = {} /\ frontier = {} /\ pending = {}
  /\ pc = "relax" =>
       /\ current.index \in settled
       /\ current.total = distances[current.index]
       /\ pending \subseteq Neighbors(current.index)
       /\ \A u \in settled : distances[u] <= current.total
  /\ \A p \in frontier, u \in settled : distances[u] <= p.total
  /\ IsFiniteSet(frontier)

IndInv ==
  /\ TypeOK
  /\ Bookkeeping
  /\ ParentsAreTight
  /\ FrontierIsComplete
  /\ SettledInOrder
  /\ NothingLeaks

------------------------------------------------------------------------------
(* The vertex 0, the distance 0 and Infinity are in the types they should. *)
LEMMA Constants ==
  /\ 0 \in Vertices /\ Vertices \subseteq Nat
  /\ Infinity \in Nat /\ 0 \in 0 .. Infinity /\ Infinity \in 0 .. Infinity
BY GraphAssumption DEF Vertices

(* An edge has a weight, which is a uint64_t. *)
LEMMA EdgeWeight ==
  ASSUME TypeOK, NEW u \in Vertices, NEW v \in Neighbors(u)
  PROVE  v \in Vertices /\ <<u, v>> \in Edges /\ weight[<<u, v>>] \in 0 .. Infinity
BY GraphAssumption DEF TypeOK, Neighbors, Edges

(* A value of a uint64_t is its own residue. *)
LEMMA WordIsExact ==
  ASSUME NEW w \in Nat, NEW x \in 0 .. w
  PROVE  x % (w + 1) = x
OBVIOUS

(* The relaxation test means what it is meant to mean: the sum is computed *)
(* only when it does not wrap around.                                      *)
LEMMA ImprovesMeans ==
  ASSUME TypeOK, NEW v \in Neighbors(current.index), Improves(v)
  PROVE  /\ Candidate(v) = current.total + weight[<<current.index, v>>]
         /\ Candidate(v) \in 0 .. Infinity
         /\ Candidate(v) < distances[v]
         /\ Candidate(v) >= current.total
<1> DEFINE w == weight[<<current.index, v>>]
<1>1. current.index \in Vertices /\ current.total \in 0 .. Infinity
  BY DEF TypeOK
<1>2. w \in 0 .. Infinity
  BY <1>1, EdgeWeight
<1>3. Infinity \in Nat
  BY GraphAssumption
<1>4. current.total + w \in 0 .. Infinity
  BY <1>1, <1>2, <1>3 DEF Improves, Overflows
<1>5. Candidate(v) = current.total + w
  BY <1>3, <1>4, WordIsExact DEF Candidate
<1> QED
  BY <1>1, <1>2, <1>4, <1>5 DEF Improves

(* One that does not improve leaves the edge relaxed. *)
LEMMA KeepsMeans ==
  ASSUME TypeOK, NEW v \in Neighbors(current.index), ~Overflows(v), ~Improves(v)
  PROVE  distances[v] <= current.total + weight[<<current.index, v>>]
<1> DEFINE w == weight[<<current.index, v>>]
<1>1. current.index \in Vertices /\ current.total \in 0 .. Infinity
  BY DEF TypeOK
<1>2. w \in 0 .. Infinity /\ v \in Vertices
  BY <1>1, EdgeWeight
<1>3. Infinity \in Nat
  BY GraphAssumption
<1>4. current.total + w \in 0 .. Infinity
  BY <1>1, <1>2, <1>3 DEF Overflows
<1>5. Candidate(v) = current.total + w
  BY <1>3, <1>4, WordIsExact DEF Candidate
<1>6. distances[v] \in 0 .. Infinity
  BY <1>2 DEF TypeOK
<1> QED
  BY <1>1, <1>2, <1>4, <1>5, <1>6 DEF Improves

------------------------------------------------------------------------------
(* The initial state satisfies the invariant. *)
LEMMA InitIndInv == Init => IndInv
<1> SUFFICES ASSUME Init PROVE IndInv
  OBVIOUS
<1>1. TypeOK
  BY Constants DEF Init, TypeOK, Proposal
<1>2. Bookkeeping
  BY FS_EmptySet DEF Init, Bookkeeping, Running
<1>3. ParentsAreTight /\ FrontierIsComplete /\ SettledInOrder
  BY DEF Init, ParentsAreTight, FrontierIsComplete, SettledInOrder, Running, Complete
<1>4. NothingLeaks
  BY DEF Init, NothingLeaks, Running
<1> QED
  BY <1>1, <1>2, <1>3, <1>4 DEF IndInv

------------------------------------------------------------------------------
(* An improving relaxation pushes a proposal the heap does not hold: the   *)
(* proposals for one vertex differ in their distance.                      *)
LEMMA NewProposal ==
  ASSUME IndInv, NEW v \in Vertices, RelaxImproves(v)
  PROVE  Proposal(v, Candidate(v)) \notin frontier
<1>1. v \in Neighbors(current.index)
  BY DEF IndInv, Bookkeeping, RelaxImproves
<1>2. Candidate(v) < distances[v] /\ Candidate(v) \in 0 .. Infinity
  BY <1>1, ImprovesMeans DEF RelaxImproves, IndInv
<1>3. \A p \in frontier : distances[p.index] <= p.total
  BY DEF IndInv, FrontierIsComplete, RelaxImproves, Running
<1>4. distances[v] \in 0 .. Infinity
  BY DEF IndInv, TypeOK
<1> QED
  BY <1>2, <1>3, <1>4, GraphAssumption DEF Proposal

(* Every step keeps the account of the blocks, and the heap finite. *)
LEMMA MemoryStep ==
  ASSUME IndInv, [Next]_vars
  PROVE  NothingLeaks' /\ IsFiniteSet(frontier') /\ blocks' \in Nat
<1> USE DEF NothingLeaks, Running
<1>1. /\ NothingLeaks /\ IsFiniteSet(frontier) /\ Cardinality(frontier) \in Nat
      /\ blocks \in Nat /\ pc \in {"idle", "loop", "relax"}
  BY FS_CardinalityType DEF IndInv, Bookkeeping, TypeOK
<1>2. ASSUME NEW s \in Vertices, Begin(s)
      PROVE  NothingLeaks' /\ IsFiniteSet(frontier') /\ blocks' \in Nat
  <2>1. IsFiniteSet(frontier') /\ Cardinality(frontier') = 1
    BY <1>2, FS_Singleton DEF Begin
  <2> QED
    BY <1>1, <1>2, <2>1 DEF Begin
<1>3. ASSUME NEW r, Return(r), Running
      PROVE  NothingLeaks' /\ IsFiniteSet(frontier') /\ blocks' \in Nat
  BY <1>1, <1>3, FS_EmptySet DEF Return
<1>4. ASSUME NEW p \in frontier, frontier' = frontier \ {p}
      PROVE  /\ IsFiniteSet(frontier')
             /\ Cardinality(frontier') = Cardinality(frontier) - 1
             /\ Cardinality(frontier') \in Nat
  BY <1>1, <1>4, FS_RemoveElement, FS_CardinalityType
<1>5. CASE Settle
  <2>1. PICK p \in frontier : frontier' = frontier \ {p}
    BY <1>5 DEF Settle
  <2>2. /\ IsFiniteSet(frontier')
        /\ Cardinality(frontier') = Cardinality(frontier) - 1
        /\ Cardinality(frontier') \in Nat
    BY <1>4, <2>1
  <2>3. pc' # "idle" /\ blocks' = blocks
    BY <1>5 DEF Settle
  <2> QED
    BY <1>1, <1>5, <2>2, <2>3 DEF Settle
<1>6. CASE DropStale
  <2>1. PICK p \in frontier : frontier' = frontier \ {p}
    BY <1>6 DEF DropStale
  <2>2. /\ IsFiniteSet(frontier')
        /\ Cardinality(frontier') = Cardinality(frontier) - 1
        /\ Cardinality(frontier') \in Nat
    BY <1>4, <2>1
  <2>3. pc' # "idle" /\ blocks' = blocks - 1
    BY <1>6 DEF DropStale
  <2> QED
    BY <1>1, <1>6, <2>2, <2>3 DEF DropStale
<1>7. ASSUME NEW v \in Vertices, RelaxImproves(v)
      PROVE  NothingLeaks' /\ IsFiniteSet(frontier') /\ blocks' \in Nat
  <2>1. Proposal(v, Candidate(v)) \notin frontier
    BY <1>7, NewProposal
  <2>2. /\ IsFiniteSet(frontier')
        /\ Cardinality(frontier') = Cardinality(frontier) + 1
    BY <1>1, <1>7, <2>1, FS_AddElement DEF RelaxImproves
  <2> QED
    BY <1>1, <1>7, <2>2 DEF RelaxImproves
<1>8. ASSUME UNCHANGED <<frontier, blocks, pc>>
      PROVE  NothingLeaks' /\ IsFiniteSet(frontier') /\ blocks' \in Nat
  BY <1>1, <1>8
<1>9. CASE Expanded
  BY <1>1, <1>9 DEF Expanded
<1> QED
  BY <1>1, <1>2, <1>3, <1>5, <1>6, <1>7, <1>8, <1>9
     DEF Next, Step, Refuse, BeginFails, Finish, RelaxKeeps, RelaxFails, vars

(* Every step keeps the types. *)
LEMMA TypeStep ==
  ASSUME IndInv, [Next]_vars
  PROVE  TypeOK'
<1>1. blocks' \in Nat
  BY MemoryStep
<1>2. TypeOK /\ Bookkeeping
  BY DEF IndInv
<1>3. 0 \in Vertices /\ 0 \in 0 .. Infinity /\ Infinity \in 0 .. Infinity
  BY Constants
<1>4. ASSUME NEW s \in Vertices, Begin(s)
      PROVE  TypeOK'
  <2>1. /\ distances' \in [Vertices -> 0 .. Infinity]
        /\ parents' \in [Vertices -> Vertices \cup {NoParent}]
    <3>1. NoDistances \in [Vertices -> 0 .. Infinity]
      BY <1>3 DEF NoDistances
    <3>2. NoParents \in [Vertices -> Vertices \cup {NoParent}]
      BY DEF NoParents
    <3> QED
      BY <1>3, <1>4, <3>1, <3>2 DEF Begin, Reset
  <2>2. frontier' \subseteq [index : Vertices, total : 0 .. Infinity]
    BY <1>3, <1>4 DEF Begin, Proposal
  <2> QED
    BY <1>1, <1>2, <1>4, <2>1, <2>2 DEF TypeOK, Begin
<1>5. CASE Refuse
  BY <1>2, <1>5 DEF TypeOK, Refuse, output
<1>6. CASE BeginFails
  <2>1. /\ distances' \in [Vertices -> 0 .. Infinity]
        /\ parents' \in [Vertices -> Vertices \cup {NoParent}]
    BY <1>3, <1>6 DEF BeginFails, Reset, NoDistances, NoParents
  <2> QED
    BY <1>1, <1>2, <1>6, <2>1 DEF TypeOK, BeginFails
<1>7. ASSUME NEW r \in BOOLEAN, Return(r), UNCHANGED output
      PROVE  TypeOK'
  BY <1>1, <1>2, <1>3, <1>7 DEF TypeOK, Return, output, Proposal
<1>8. CASE Settle
  <2>1. PICK p \in frontier :
          /\ frontier' = frontier \ {p} /\ settled' = settled \cup {p.index}
          /\ current' = p /\ pending' = Neighbors(p.index)
    BY <1>8 DEF Settle
  <2> QED
    BY <1>1, <1>2, <1>8, <2>1 DEF TypeOK, Settle, output, Neighbors
<1>9. CASE DropStale
  BY <1>1, <1>2, <1>9 DEF TypeOK, DropStale, output
<1>10. ASSUME NEW v \in Vertices, RelaxKeeps(v)
       PROVE  TypeOK'
  BY <1>1, <1>2, <1>10 DEF TypeOK, RelaxKeeps, output
<1>11. ASSUME NEW v \in Vertices, RelaxImproves(v)
       PROVE  TypeOK'
  <2>1. v \in Neighbors(current.index)
    BY <1>2, <1>11 DEF Bookkeeping, RelaxImproves
  <2>2. Candidate(v) \in 0 .. Infinity
    BY <1>2, <1>11, <2>1, ImprovesMeans DEF RelaxImproves
  <2> HIDE DEF Candidate
  <2> QED
    BY <1>1, <1>2, <1>11, <2>2 DEF TypeOK, RelaxImproves, Proposal
<1>12. CASE Expanded
  BY <1>1, <1>2, <1>3, <1>12 DEF TypeOK, Expanded, output, Proposal
<1>13. CASE UNCHANGED vars
  BY <1>2, <1>13 DEF TypeOK, vars, output
<1> QED
  BY <1>4, <1>5, <1>6, <1>7, <1>8, <1>9, <1>10, <1>11, <1>12, <1>13
     DEF Next, Step, Finish, RelaxFails

------------------------------------------------------------------------------
(* What a successful relaxation changes: one vertex that is not settled,   *)
(* to a smaller distance, not smaller than the current one's.              *)
LEMMA ImprovesUnsettled ==
  ASSUME IndInv, NEW v \in Vertices, RelaxImproves(v)
  PROVE  /\ v \in Neighbors(current.index) /\ v \notin settled
         /\ current.index \in settled /\ current.total = distances[current.index]
         /\ \A u \in settled : distances[u] <= current.total
         /\ Candidate(v) = distances[current.index] + weight[<<current.index, v>>]
         /\ Candidate(v) \in 0 .. Infinity
         /\ Candidate(v) < distances[v]
         /\ Candidate(v) >= current.total
         /\ distances' = [distances EXCEPT ![v] = Candidate(v)]
         /\ parents' = [parents EXCEPT ![v] = current.index]
<1>1. TypeOK /\ Bookkeeping
  BY DEF IndInv
<1>2. /\ v \in Neighbors(current.index) /\ current.index \in settled
      /\ current.total = distances[current.index]
      /\ \A u \in settled : distances[u] <= current.total
  BY <1>1 DEF Bookkeeping, RelaxImproves
<1>3. /\ Candidate(v) = current.total + weight[<<current.index, v>>]
      /\ Candidate(v) \in 0 .. Infinity
      /\ Candidate(v) < distances[v]
      /\ Candidate(v) >= current.total
  BY <1>1, <1>2, ImprovesMeans DEF RelaxImproves
<1>4. v \notin settled
  BY <1>1, <1>2, <1>3 DEF TypeOK
<1> QED
  BY <1>2, <1>3, <1>4 DEF RelaxImproves

(* What settling does: a least proposal, that is current, leaves the heap. *)
LEMMA SettleMeans ==
  ASSUME IndInv, Settle
  PROVE  \E p \in frontier :
           /\ p.index \in Vertices \ settled /\ p.total = distances[p.index]
           /\ p.total \in 0 .. Infinity
           /\ \A q \in frontier : q.total \in 0 .. Infinity /\ p.total <= q.total
           /\ frontier' = frontier \ {p} /\ settled' = settled \cup {p.index}
           /\ current' = p /\ pending' = Neighbors(p.index)
<1>1. PICK p \in frontier :
        /\ NextUp(p) /\ Fresh(p)
        /\ frontier' = frontier \ {p} /\ settled' = settled \cup {p.index}
        /\ current' = p /\ pending' = Neighbors(p.index)
  BY DEF Settle
<1>2. \A q \in frontier : q.total \in 0 .. Infinity /\ q.index \in Vertices
  BY DEF IndInv, TypeOK
<1>3. \A q \in frontier : p.total <= q.total
  BY <1>1, <1>2, Constants DEF NextUp, Before
<1> QED
  BY <1>1, <1>2, <1>3 DEF Fresh

(* Every step keeps the loop's bookkeeping. *)
LEMMA BookkeepingStep ==
  ASSUME IndInv, [Next]_vars
  PROVE  Bookkeeping'
<1>1. TypeOK /\ Bookkeeping /\ IsFiniteSet(frontier')
  BY MemoryStep DEF IndInv
<1>2. ASSUME NEW s \in Vertices, Begin(s)
      PROVE  Bookkeeping'
  BY <1>1, <1>2 DEF Bookkeeping, Running, Begin
<1>3. ASSUME NEW r \in BOOLEAN, Return(r)
      PROVE  Bookkeeping'
  BY <1>1, <1>3 DEF Bookkeeping, Running, Return
<1>4. CASE Settle
  <2>1. PICK p \in frontier :
           /\ p.index \in Vertices \ settled /\ p.total = distances[p.index]
           /\ p.total \in 0 .. Infinity
           /\ \A q \in frontier : q.total \in 0 .. Infinity /\ p.total <= q.total
           /\ frontier' = frontier \ {p} /\ settled' = settled \cup {p.index}
           /\ current' = p /\ pending' = Neighbors(p.index)
    BY <1>4, SettleMeans
  <2>2. pc' = "relax" /\ weight' = weight /\ distances' = distances
    BY <1>4 DEF Settle, output
  <2>3. pending' \subseteq Neighbors(current.index)'
    BY <2>1, <2>2 DEF Neighbors, Edges
  <2>4. \A u \in settled' : distances'[u] <= p.total
    BY <1>1, <2>1, <2>2 DEF Bookkeeping
  <2>5. \A q \in frontier', u \in settled' : distances'[u] <= q.total
    BY <1>1, <2>1, <2>2 DEF Bookkeeping
  <2> QED
    BY <1>1, <2>1, <2>2, <2>3, <2>4, <2>5 DEF Bookkeeping, Running
<1>5. CASE DropStale
  BY <1>1, <1>5 DEF Bookkeeping, Running, DropStale, output
<1>6. ASSUME NEW v \in Vertices, RelaxKeeps(v)
      PROVE  Bookkeeping'
  BY <1>1, <1>6 DEF Bookkeeping, Running, RelaxKeeps, output, Neighbors, Edges
<1>7. ASSUME NEW v \in Vertices, RelaxImproves(v)
      PROVE  Bookkeeping'
  <2>1. /\ v \notin settled
        /\ \A u \in settled : distances[u] <= current.total
        /\ Candidate(v) \in 0 .. Infinity /\ Candidate(v) >= current.total
        /\ distances' = [distances EXCEPT ![v] = Candidate(v)]
    BY <1>7, ImprovesUnsettled
  <2>2. \A u \in settled : distances'[u] = distances[u]
    BY <1>1, <2>1 DEF TypeOK
  <2>3. \A p \in frontier', u \in settled : distances[u] <= p.total
    <3> HIDE DEF Candidate
    <3>1. ASSUME NEW u \in settled
          PROVE  distances[u] <= Candidate(v)
      BY <1>1, <2>1 DEF TypeOK
    <3> QED
      BY <1>1, <1>7, <3>1 DEF Bookkeeping, RelaxImproves, Proposal
  <2>4. Neighbors(current.index)' = Neighbors(current.index)
    BY <1>7 DEF RelaxImproves, Neighbors, Edges
  <2> QED
    BY <1>1, <1>7, <2>2, <2>3, <2>4 DEF Bookkeeping, RelaxImproves, Running
<1>8. CASE Expanded
  BY <1>1, <1>8 DEF Bookkeeping, Running, Expanded, output
<1>9. CASE Refuse \/ BeginFails \/ UNCHANGED vars
  BY <1>1, <1>9
     DEF Bookkeeping, Running, Refuse, BeginFails, vars, output, Neighbors, Edges
<1> QED
  BY <1>2, <1>3, <1>4, <1>5, <1>6, <1>7, <1>8, <1>9
     DEF Next, Step, Finish, RelaxFails

------------------------------------------------------------------------------
(* Every step keeps the heap complete. *)
LEMMA FrontierStep ==
  ASSUME IndInv, [Next]_vars
  PROVE  FrontierIsComplete'
<1>1. TypeOK /\ FrontierIsComplete
  BY DEF IndInv
<1>2. ASSUME NEW s \in Vertices, Begin(s)
      PROVE  FrontierIsComplete'
  <2>1. /\ distances'[s] = 0 /\ \A v \in Vertices \ {s} : distances'[v] = Infinity
    BY <1>2 DEF Begin, Reset, NoDistances
  <2> QED
    BY <1>2, <2>1 DEF FrontierIsComplete, Running, Reached, Begin, Proposal
<1>3. CASE pc' = "idle"
  BY <1>3 DEF FrontierIsComplete, Running
<1>4. CASE Settle
  <2>1. PICK p \in frontier :
           /\ p.index \in Vertices \ settled /\ p.total = distances[p.index]
           /\ frontier' = frontier \ {p} /\ settled' = settled \cup {p.index}
    BY <1>4, SettleMeans
  <2>2. distances' = distances /\ Running
    BY <1>4 DEF Settle, output, Running
  <2>3. ASSUME NEW v \in Reached \ settled'
        PROVE  Proposal(v, distances[v]) \in frontier'
    BY <1>1, <2>1, <2>2, <2>3 DEF FrontierIsComplete, Proposal
  <2> QED
    BY <1>1, <2>1, <2>2, <2>3 DEF FrontierIsComplete, Reached
<1>5. CASE DropStale
  <2>1. PICK p \in frontier : frontier' = frontier \ {p} /\ ~Fresh(p)
    BY <1>5 DEF DropStale
  <2>2. distances' = distances /\ settled' = settled /\ Running
    BY <1>5 DEF DropStale, output, Running
  <2>3. ASSUME NEW v \in Reached \ settled
        PROVE  Proposal(v, distances[v]) \in frontier'
    BY <1>1, <2>1, <2>2, <2>3 DEF FrontierIsComplete, Proposal, Fresh
  <2> QED
    BY <1>1, <2>1, <2>2, <2>3 DEF FrontierIsComplete, Reached
<1>6. ASSUME NEW v \in Vertices, RelaxImproves(v)
      PROVE  FrontierIsComplete'
  <2>1. /\ Candidate(v) \in 0 .. Infinity /\ Candidate(v) < distances[v]
        /\ distances' = [distances EXCEPT ![v] = Candidate(v)]
    BY <1>6, ImprovesUnsettled
  <2>2. /\ frontier' = frontier \cup {Proposal(v, Candidate(v))}
        /\ settled' = settled /\ Running
    BY <1>6 DEF RelaxImproves, Running
  <2> HIDE DEF Candidate
  <2>3. ASSUME NEW u \in Reached' \ settled'
        PROVE  Proposal(u, distances'[u]) \in frontier'
    BY <1>1, <2>1, <2>2, <2>3 DEF FrontierIsComplete, Reached, TypeOK
  <2>4. ASSUME NEW p \in frontier'
        PROVE  distances'[p.index] <= p.total
    <3>1. CASE p \in frontier
      BY <1>1, <2>1, <2>2, <3>1 DEF FrontierIsComplete, TypeOK
    <3>2. CASE p = Proposal(v, Candidate(v))
      BY <1>1, <2>1, <3>2 DEF Proposal, TypeOK
    <3> QED
      BY <2>2, <3>1, <3>2
  <2> QED
    BY <2>3, <2>4 DEF FrontierIsComplete
<1>7. ASSUME UNCHANGED <<distances, settled, frontier>>, Running \/ ~Running'
      PROVE  FrontierIsComplete'
  BY <1>1, <1>7 DEF FrontierIsComplete, Reached, Running
<1> QED
  BY <1>2, <1>3, <1>4, <1>5, <1>6, <1>7
     DEF Next, Step, Finish, RelaxFails, RelaxKeeps, Return, Expanded, Refuse,
         BeginFails, Running, vars, output

------------------------------------------------------------------------------
(* Every step keeps the parents tight. *)
LEMMA ParentsStep ==
  ASSUME IndInv, [Next]_vars
  PROVE  ParentsAreTight'
<1>1. TypeOK /\ Bookkeeping /\ ParentsAreTight
  BY DEF IndInv
<1>2. ASSUME NEW s \in Vertices, Begin(s)
      PROVE  ParentsAreTight'
  <2>1. /\ source' = s
        /\ distances'[s] = 0 /\ parents'[s] = s
        /\ \A v \in Vertices \ {s} :
             distances'[v] = Infinity /\ parents'[v] = NoParent
    BY <1>2 DEF Begin, Reset, NoDistances, NoParents
  <2> QED
    BY <2>1 DEF ParentsAreTight, Reached
<1>3. CASE Refuse \/ BeginFails
  BY <1>3 DEF ParentsAreTight, Running, Complete, Refuse, BeginFails
<1>4. ASSUME UNCHANGED <<weight, source, distances, parents>>,
             settled \subseteq settled' \/ ~Running',
             Running \/ (Complete /\ ~Running') \/ ~(Running \/ Complete)'
      PROVE  ParentsAreTight'
  BY <1>1, <1>4 DEF ParentsAreTight, Reached, Edges
<1>5. ASSUME NEW r \in BOOLEAN, Return(r), UNCHANGED output, Running
      PROVE  ParentsAreTight'
  BY <1>4, <1>5 DEF Return, output, Running
<1>6. CASE Settle \/ DropStale \/ Expanded
  <2>1. UNCHANGED <<weight, source, distances, parents>> /\ Running
    BY <1>6 DEF Settle, DropStale, Expanded, output, Running
  <2>2. settled \subseteq settled'
    BY <1>6 DEF Settle, DropStale, Expanded
  <2> QED
    BY <1>4, <2>1, <2>2
<1>7. ASSUME NEW v \in Vertices, RelaxKeeps(v)
      PROVE  ParentsAreTight'
  BY <1>4, <1>7 DEF RelaxKeeps, output, Running
<1>8. ASSUME NEW v \in Vertices, RelaxImproves(v)
      PROVE  ParentsAreTight'
  <2>1. /\ v \in Neighbors(current.index) /\ v \notin settled
        /\ current.index \in settled
        /\ Candidate(v) = distances[current.index] + weight[<<current.index, v>>]
        /\ Candidate(v) \in 0 .. Infinity /\ Candidate(v) < distances[v]
        /\ distances' = [distances EXCEPT ![v] = Candidate(v)]
        /\ parents' = [parents EXCEPT ![v] = current.index]
    BY <1>8, ImprovesUnsettled
  <2>2. /\ weight' = weight /\ source' = source /\ settled' = settled
        /\ pc = "relax" /\ pc' = "relax"
    BY <1>8 DEF RelaxImproves
  <2>3. v # source
    BY <1>1, <2>1, <2>2 DEF ParentsAreTight, Running, TypeOK
  <2>4. <<current.index, v>> \in Edges /\ current.index \in Vertices
    BY <1>1, <2>1, EdgeWeight DEF TypeOK
  <2>5. distances'[source] = 0 /\ parents'[source] = source
    BY <1>1, <2>1, <2>2, <2>3 DEF ParentsAreTight, Running, TypeOK
  <2> HIDE DEF Candidate
  <2>6. ASSUME NEW u \in Vertices \ {source}
        PROVE  /\ distances'[u] # Infinity <=> parents'[u] # NoParent
               /\ distances'[u] # Infinity =>
                    /\ <<parents'[u], u>> \in Edges
                    /\ distances'[u] = distances'[parents'[u]] + weight[<<parents'[u], u>>]
                    /\ parents'[u] \in settled
    <3>1. CASE u = v
      <4>1. distances'[v] = Candidate(v) /\ parents'[v] = current.index
        BY <1>1, <2>1 DEF TypeOK
      <4>2. distances'[current.index] = distances[current.index]
        BY <1>1, <2>1, <2>4 DEF TypeOK
      <4>3. distances'[v] # Infinity
        BY <1>1, <2>1, <4>1 DEF TypeOK
      <4>4. parents'[v] # NoParent
        BY <2>4, <4>1, GraphAssumption
      <4> QED
        BY <2>1, <2>4, <3>1, <4>1, <4>2, <4>3, <4>4
    <3>2. CASE u # v
      <4>1. distances'[u] = distances[u] /\ parents'[u] = parents[u]
        BY <1>1, <2>1, <3>2 DEF TypeOK
      <4>2. /\ distances[u] # Infinity <=> parents[u] # NoParent
            /\ distances[u] # Infinity =>
                 /\ <<parents[u], u>> \in Edges
                 /\ distances[u] = distances[parents[u]] + weight[<<parents[u], u>>]
                 /\ parents[u] \in settled
        BY <1>1, <2>2 DEF ParentsAreTight, Running, Reached
      <4>3. distances[u] # Infinity => distances'[parents[u]] = distances[parents[u]]
        BY <1>1, <2>1, <4>2 DEF TypeOK
      <4> QED
        BY <4>1, <4>2, <4>3
    <3> QED
      BY <3>1, <3>2
  <2>7. Edges' = Edges
    BY <2>2 DEF Edges
  <2> QED
    BY <2>2, <2>5, <2>6, <2>7 DEF ParentsAreTight, Reached
<1>9. CASE UNCHANGED vars
  BY <1>4, <1>9 DEF vars, output, Running, Complete
<1> QED
  BY <1>2, <1>3, <1>5, <1>6, <1>7, <1>8, <1>9
     DEF Next, Step, Finish, RelaxFails, Running

------------------------------------------------------------------------------
(* Every step keeps the settled vertices in order and their edges relaxed. *)
LEMMA SettledStep ==
  ASSUME IndInv, [Next]_vars
  PROVE  SettledInOrder'
<1>1. TypeOK /\ Bookkeeping /\ SettledInOrder /\ FrontierIsComplete
  BY DEF IndInv
<1>2. CASE ~Running' \/ settled' = {}
  BY <1>2 DEF SettledInOrder
<1>3. CASE Settle
  <2>1. PICK p \in frontier :
           /\ p.index \in Vertices \ settled /\ p.total = distances[p.index]
           /\ p.total \in 0 .. Infinity
           /\ \A q \in frontier : q.total \in 0 .. Infinity /\ p.total <= q.total
           /\ settled' = settled \cup {p.index}
           /\ current' = p /\ pending' = Neighbors(p.index)
    BY <1>3, SettleMeans
  <2>2. /\ distances' = distances /\ weight' = weight
        /\ pc = "loop" /\ pc' = "relax"
    BY <1>3 DEF Settle, output
  <2>3. ASSUME NEW v \in Vertices \ settled
        PROVE  distances[p.index] <= distances[v]
    <3>1. CASE v \in Reached
      <4>1. Proposal(v, distances[v]) \in frontier
        BY <1>1, <2>2, <3>1 DEF FrontierIsComplete, Running
      <4> QED
        BY <2>1, <4>1 DEF Proposal
    <3>2. CASE v \notin Reached
      BY <2>1, <3>2, Constants DEF Reached
    <3> QED
      BY <3>1, <3>2
  <2>4. ASSUME NEW u \in settled', NEW v \in Vertices \ settled'
        PROVE  distances'[u] <= distances'[v]
    BY <1>1, <2>1, <2>2, <2>3 DEF SettledInOrder, Running
  <2>5. ASSUME NEW u \in settled', NEW v \in Neighbors(u)
        PROVE  \/ u = p.index /\ v \in pending'
               \/ distances[v] <= distances[u] + weight[<<u, v>>]
    BY <1>1, <2>1, <2>2 DEF SettledInOrder, Running
  <2>6. \A u \in Vertices : Neighbors(u)' = Neighbors(u)
    BY <2>2 DEF Neighbors, Edges
  <2>7. settled' \subseteq Vertices
    BY <1>1, <2>1 DEF TypeOK
  <2> QED
    BY <2>1, <2>2, <2>4, <2>5, <2>6, <2>7 DEF SettledInOrder
<1>4. ASSUME NEW v \in Vertices, RelaxImproves(v)
      PROVE  SettledInOrder'
  <2>1. /\ v \in Neighbors(current.index) /\ v \notin settled
        /\ current.index \in settled /\ current.total = distances[current.index]
        /\ \A u \in settled : distances[u] <= current.total
        /\ Candidate(v) = distances[current.index] + weight[<<current.index, v>>]
        /\ Candidate(v) \in 0 .. Infinity /\ Candidate(v) < distances[v]
        /\ Candidate(v) >= current.total
        /\ distances' = [distances EXCEPT ![v] = Candidate(v)]
    BY <1>4, ImprovesUnsettled
  <2>2. /\ weight' = weight /\ settled' = settled /\ current' = current
        /\ pending' = pending \ {v} /\ pc = "relax" /\ pc' = "relax"
    BY <1>4 DEF RelaxImproves
  <2> HIDE DEF Candidate
  <2>3. \A u \in Vertices : distances'[u] = IF u = v THEN Candidate(v) ELSE distances[u]
    BY <1>1, <2>1 DEF TypeOK
  <2>4. ASSUME NEW u \in settled
        PROVE  \A x \in Vertices \ settled : distances'[u] <= distances'[x]
    BY <1>1, <2>1, <2>2, <2>3 DEF SettledInOrder, Running, TypeOK
  <2>5. ASSUME NEW u \in settled, NEW x \in Neighbors(u)
        PROVE  \/ u = current.index /\ x \in pending'
               \/ distances'[x] <= distances'[u] + weight[<<u, x>>]
    <3>1. /\ u \in Vertices /\ x \in Vertices /\ u # v
          /\ weight[<<u, x>>] \in 0 .. Infinity
      BY <1>1, <2>1, EdgeWeight DEF TypeOK
    <3>2. /\ distances[u] \in 0 .. Infinity /\ distances[x] \in 0 .. Infinity
          /\ distances'[u] = distances[u] /\ distances'[x] <= distances[x]
      BY <1>1, <2>1, <2>3, <3>1 DEF TypeOK
    <3>3. CASE u = current.index /\ x = v
      BY <2>1, <2>3, <3>1, <3>2, <3>3
    <3>4. CASE ~(u = current.index /\ x = v)
      <4>1. \/ u = current.index /\ x \in pending
            \/ distances[x] <= distances[u] + weight[<<u, x>>]
        BY <1>1, <2>2 DEF SettledInOrder, Running
      <4>2. distances'[x] \in 0 .. Infinity
        BY <2>1, <2>3, <3>1, <3>2
      <4> QED
        BY <2>2, <3>1, <3>2, <3>4, <4>1, <4>2
    <3> QED
      BY <3>3, <3>4
  <2>6. \A u \in Vertices : Neighbors(u)' = Neighbors(u)
    BY <2>2 DEF Neighbors, Edges
  <2>7. settled \subseteq Vertices
    BY <1>1 DEF TypeOK
  <2> QED
    BY <2>2, <2>4, <2>5, <2>6, <2>7 DEF SettledInOrder
<1>5. ASSUME NEW v \in Vertices, RelaxKeeps(v)
      PROVE  SettledInOrder'
  <2>1. v \in Neighbors(current.index) /\ current.total = distances[current.index]
    BY <1>1, <1>5 DEF Bookkeeping, RelaxKeeps
  <2>2. distances[v] <= distances[current.index] + weight[<<current.index, v>>]
    BY <1>1, <1>5, <2>1, KeepsMeans DEF RelaxKeeps
  <2> QED
    BY <1>1, <1>5, <2>2
       DEF SettledInOrder, Running, RelaxKeeps, output, Neighbors, Edges
<1>6. CASE Expanded \/ DropStale \/ UNCHANGED vars
  BY <1>1, <1>6
     DEF SettledInOrder, Running, Expanded, DropStale, output, vars, Neighbors, Edges
<1> QED
  BY <1>1, <1>2, <1>3, <1>4, <1>5, <1>6
     DEF Next, Step, Begin, Refuse, BeginFails, Finish, RelaxFails, Return, Running,
         Bookkeeping

------------------------------------------------------------------------------
(* The invariant is inductive. *)
LEMMA Inductive == Spec => []IndInv
<1>1. IndInv /\ [Next]_vars => IndInv'
  <2> SUFFICES ASSUME IndInv, [Next]_vars PROVE IndInv'
    OBVIOUS
  <2>1. TypeOK'
    BY TypeStep
  <2>2. Bookkeeping'
    BY BookkeepingStep
  <2>3. ParentsAreTight'
    BY ParentsStep
  <2>4. FrontierIsComplete'
    BY FrontierStep
  <2>5. SettledInOrder'
    BY SettledStep
  <2>6. NothingLeaks'
    BY MemoryStep
  <2> QED
    BY <2>1, <2>2, <2>3, <2>4, <2>5, <2>6 DEF IndInv
<1> QED
  BY <1>1, InitIndInv, PTL DEF Spec

(* No variable leaves its type: for every UINT64_MAX, no distance          *)
(* overflows; and every path out of dijkstra() frees what it allocated.    *)
THEOREM MemoryCorrect == Spec => []WellFormed
BY Inductive, PTL DEF IndInv, WellFormed

(* The parent array is a tree of edges that accounts for the distances.    *)
THEOREM ParentsCorrect == Spec => []ParentsAreTight
BY Inductive, PTL DEF IndInv

(* Stale proposals can be dropped: the heap always holds what is needed,   *)
(* and vertices settle in the order of their distances.                    *)
THEOREM LoopCorrect == Spec => []LoopInvariant
BY Inductive, PTL DEF IndInv, LoopInvariant

(* A settled vertex keeps its distance and its parent: expanding every     *)
(* vertex once is enough.                                                  *)
THEOREM SettledStays == Spec => SettledIsFinal
<1> DEFINE Stays ==
      Running => \A v \in settled : distances'[v] = distances[v] /\ parents'[v] = parents[v]
<1>1. IndInv /\ [Next]_vars => Stays
  <2> SUFFICES ASSUME IndInv, [Next]_vars, Running,
                      NEW u \in settled
               PROVE  distances'[u] = distances[u] /\ parents'[u] = parents[u]
    OBVIOUS
  <2>1. ASSUME NEW v \in Vertices, RelaxImproves(v)
        PROVE  distances'[u] = distances[u] /\ parents'[u] = parents[u]
    <3>1. /\ v \notin settled
          /\ distances' = [distances EXCEPT ![v] = Candidate(v)]
          /\ parents' = [parents EXCEPT ![v] = current.index]
      BY <2>1, ImprovesUnsettled
    <3> QED
      BY <3>1 DEF IndInv, TypeOK
  <2>2. CASE UNCHANGED output
    BY <2>2 DEF output
  <2> QED
    BY <2>1, <2>2
       DEF Next, Step, Begin, Refuse, BeginFails, Finish, Settle, DropStale,
           RelaxKeeps, RelaxFails, Expanded, vars, output, Running
<1>2. Stays => [Stays]_vars
  OBVIOUS
<1> HIDE DEF Stays
<1>3. IndInv /\ [Next]_vars => [Stays]_vars
  BY <1>1, <1>2
<1>4. Spec => [][Stays]_vars
  BY <1>3, Inductive, PTL DEF Spec
<1> QED
  BY <1>4 DEF Stays, SettledIsFinal

------------------------------------------------------------------------------
(* An assignment that is 0 at the source and grows along an edge by its    *)
(* weight at most; its value at a vertex bounds from below the length of   *)
(* every path that leads there.                                            *)
IsPotential(pi) ==
  /\ pi \in [Vertices -> Nat]
  /\ pi[source] = 0
  /\ \A u \in Vertices : \A v \in Neighbors(u) : pi[v] <= pi[u] + weight[<<u, v>>]

(* No distance recorded is shorter than the shortest path.                 *)
NotTooShort ==
  Running \/ Complete =>
    \A pi : IsPotential(pi) => \A v \in Reached : pi[v] <= distances[v]

(* The distances of a complete call are the greatest potential, where they *)
(* can be told from Infinity.                                              *)
GreatestPotential ==
  Complete =>
    /\ distances[source] = 0
    /\ \A u \in Reached : \A v \in Neighbors(u) :
         distances[v] <= distances[u] + weight[<<u, v>>]
    /\ \A pi : IsPotential(pi) => \A v \in Reached : pi[v] <= distances[v]

(* A complete call has relaxed the edges of every vertex it reached.       *)
AllRelaxed ==
  Complete =>
    \A u \in Reached : \A v \in Neighbors(u) :
      distances[v] <= distances[u] + weight[<<u, v>>]

LEMMA NotTooShortStep ==
  ASSUME IndInv, NotTooShort, [Next]_vars
  PROVE  NotTooShort'
<1>1. TypeOK /\ TypeOK'
  BY TypeStep DEF IndInv
<1>2. ASSUME NEW s \in Vertices, Begin(s)
      PROVE  NotTooShort'
  <2>1. /\ source' = s /\ distances'[s] = 0
        /\ \A v \in Vertices \ {s} : distances'[v] = Infinity
    BY <1>2 DEF Begin, Reset, NoDistances
  <2>2. Reached' \subseteq {s}
    BY <2>1 DEF Reached
  <2> QED
    BY <2>1, <2>2 DEF NotTooShort, IsPotential
<1>3. CASE Refuse \/ BeginFails
  BY <1>3 DEF NotTooShort, Running, Complete, Refuse, BeginFails
<1>4. ASSUME UNCHANGED <<weight, source, distances>>,
             Running \/ Complete \/ ~(Running \/ Complete)'
      PROVE  NotTooShort'
  <2>1. \A pi : IsPotential(pi)' => IsPotential(pi)
    BY <1>4 DEF IsPotential, Neighbors, Edges
  <2> QED
    BY <1>4, <2>1 DEF NotTooShort, Reached
<1>5. ASSUME NEW v \in Vertices, RelaxImproves(v)
      PROVE  NotTooShort'
  <2>1. /\ v \in Neighbors(current.index)
        /\ Candidate(v) = distances[current.index] + weight[<<current.index, v>>]
        /\ Candidate(v) \in 0 .. Infinity /\ Candidate(v) < distances[v]
        /\ distances' = [distances EXCEPT ![v] = Candidate(v)]
    BY <1>5, ImprovesUnsettled
  <2>2. /\ current.index \in Vertices
        /\ weight[<<current.index, v>>] \in 0 .. Infinity
        /\ distances[v] \in 0 .. Infinity /\ distances[current.index] \in 0 .. Infinity
    BY <1>1, <2>1, EdgeWeight DEF TypeOK
  <2>3. UNCHANGED <<weight, source>> /\ Running
    BY <1>5 DEF RelaxImproves, Running
  <2> HIDE DEF Candidate
  <2>4. ASSUME NEW pi, IsPotential(pi)', NEW u \in Reached'
        PROVE  pi[u] <= distances'[u]
    <3>1. IsPotential(pi)
      BY <2>3, <2>4 DEF IsPotential, Neighbors, Edges
    <3>2. \A x \in Reached : pi[x] <= distances[x]
      BY <2>3, <3>1 DEF NotTooShort
    <3>3. CASE u = v
      <4>1. current.index \in Reached
        BY <2>1, <2>2 DEF Reached
      <4>2. pi[current.index] <= distances[current.index]
        BY <3>2, <4>1
      <4>3. pi[v] <= pi[current.index] + weight[<<current.index, v>>]
        BY <2>1, <2>2, <3>1 DEF IsPotential
      <4>4. pi[v] \in Nat /\ pi[current.index] \in Nat
        BY <2>2, <3>1 DEF IsPotential
      <4>5. distances'[v] = Candidate(v)
        BY <1>1, <2>1 DEF TypeOK
      <4> QED
        BY <2>1, <2>2, <3>3, <4>2, <4>3, <4>4, <4>5
    <3>4. CASE u # v
      <4>1. distances'[u] = distances[u] /\ u \in Reached
        BY <1>1, <2>1, <3>4 DEF TypeOK, Reached
      <4> QED
        BY <3>2, <4>1
    <3> QED
      BY <3>3, <3>4
  <2> QED
    BY <2>4 DEF NotTooShort
<1>6. CASE UNCHANGED vars
  BY <1>4, <1>6 DEF vars, output, Running, Complete
<1> QED
  BY <1>2, <1>3, <1>4, <1>5, <1>6
     DEF Next, Step, Finish, Settle, DropStale, RelaxKeeps, RelaxFails, Expanded,
         Return, Running, output

LEMMA AllRelaxedStep ==
  ASSUME IndInv, AllRelaxed, [Next]_vars
  PROVE  AllRelaxed'
<1>1. CASE ~Complete'
  BY <1>1 DEF AllRelaxed
<1>2. CASE Finish
  <2>1. /\ UNCHANGED <<weight, distances>> /\ pc = "loop" /\ Running /\ frontier = {}
    BY <1>2 DEF Finish, Return, output, Running
  <2>2. Reached \subseteq settled
    BY <2>1 DEF IndInv, FrontierIsComplete
  <2>3. \A u \in Reached : \A v \in Neighbors(u) :
          distances[v] <= distances[u] + weight[<<u, v>>]
    BY <2>1, <2>2 DEF IndInv, SettledInOrder
  <2> QED
    BY <2>1, <2>3 DEF AllRelaxed, Reached, Neighbors, Edges
<1>3. CASE UNCHANGED vars
  BY <1>3 DEF AllRelaxed, Complete, Running, Reached, Neighbors, Edges, vars, output
<1> QED
  BY <1>1, <1>2, <1>3
     DEF Next, Step, Begin, Refuse, BeginFails, Settle, DropStale, RelaxKeeps,
         RelaxImproves, RelaxFails, Return, Expanded, Complete, Running

(* dijkstra() returns the shortest distances, whatever the graph, the      *)
(* source, the order of the neighbours and the size of the word: the       *)
(* distances it reports are the greatest potential.                        *)
THEOREM DistancesCorrect == Spec => []GreatestPotential
<1>1. Init => NotTooShort /\ AllRelaxed
  BY DEF Init, NotTooShort, AllRelaxed, Running, Complete
<1>2. IndInv /\ NotTooShort /\ AllRelaxed /\ [Next]_vars => NotTooShort' /\ AllRelaxed'
  BY NotTooShortStep, AllRelaxedStep
<1>3. IndInv /\ NotTooShort /\ AllRelaxed => GreatestPotential
  BY DEF IndInv, ParentsAreTight, NotTooShort, AllRelaxed, GreatestPotential
<1> QED
  BY <1>1, <1>2, <1>3, Inductive, PTL DEF Spec

------------------------------------------------------------------------------
(* The recursion of Shortest: a row of it from the row before, and the     *)
(* rows up to n.                                                           *)
Unjoined(v) == IF v = source THEN 0 ELSE Farther

Row(prev, k) ==
  [v \in Vertices |->
     LeastOf(
       {IF v = source THEN 0 ELSE Farther} \cup
       IF k = 0 THEN {}
       ELSE {prev[u] + weight[<<u, v>>] :
               u \in {u \in Vertices : <<u, v>> \in Edges}})]

Unfolds(f, n) == f = [k \in 0 .. n |-> Row(f[k - 1], k)]

LEMMA LeastOfIsLeast ==
  ASSUME NEW S, S \subseteq Nat, S # {}
  PROVE  LeastOf(S) \in S /\ \A x \in S : LeastOf(S) <= x
BY LeastExists DEF LeastOf

LEMMA RowsExist ==
  ASSUME NEW n \in Nat
  PROVE  \E f : Unfolds(f, n)
<1> DEFINE S == {m \in 0 .. n : \E f : Unfolds(f, m)}
<1>1. 0 \in S
  <2> DEFINE f == [k \in 0 .. 0 |-> Row(0, 0)]
  <2>1. \A x : Row(x, 0) = Row(0, 0)
    BY DEF Row
  <2>2. \A k \in 0 .. 0 : Row(0, 0) = Row(f[k - 1], k)
    BY <2>1
  <2>3. f = [k \in 0 .. 0 |-> Row(f[k - 1], k)]
    BY <2>2
  <2> HIDE DEF f
  <2>4. Unfolds(f, 0)
    BY <2>3 DEF Unfolds
  <2> QED
    BY <2>4
<1>2. ASSUME NEW m \in 1 .. n, m - 1 \in S
      PROVE  m \in S
  <2>1. PICK f : Unfolds(f, m - 1)
    BY <1>2
  <2> DEFINE g == [k \in 0 .. m |-> IF k = m THEN Row(f[m - 1], m) ELSE f[k]]
  <2>2. ASSUME NEW k \in 0 .. m
        PROVE  g[k] = Row(g[k - 1], k)
    <3>1. CASE k = m
      <4>1. k - 1 \in 0 .. m /\ k - 1 # m
        BY <3>1
      <4>2. g[k - 1] = f[m - 1]
        BY <3>1, <4>1
      <4> QED
        BY <3>1, <4>2
    <3>2. CASE k # m
      <4>1. k \in 0 .. m - 1 /\ g[k] = f[k]
        BY <3>2
      <4>2. f[k] = Row(f[k - 1], k)
        BY <2>1, <4>1 DEF Unfolds
      <4>3. CASE k = 0
        <5>1. Row(f[k - 1], k) = Row(g[k - 1], k)
          BY <4>3 DEF Row
        <5> QED
          BY <4>1, <4>2, <5>1
      <4>4. CASE k # 0
        <5>1. k - 1 \in 0 .. m /\ k - 1 # m
          BY <4>1, <4>4
        <5>2. g[k - 1] = f[k - 1]
          BY <5>1
        <5> QED
          BY <4>1, <4>2, <5>2
      <4> QED
        BY <4>3, <4>4
    <3> QED
      BY <3>1, <3>2
  <2>3. g = [k \in 0 .. m |-> g[k]]
    OBVIOUS
  <2> HIDE DEF g
  <2>4. Unfolds(g, m)
    BY <2>2, <2>3 DEF Unfolds
  <2> QED
    BY <2>4
<1> HIDE DEF S
<1>3. n \in S
  <2>1. \A m \in 0 .. n : m \in S
    BY <1>1, <1>2, Upward
  <2> QED
    BY <2>1
<1> QED
  BY <1>3 DEF S

LEMMA ShortestUnfolds ==
  \A k \in 0 .. VertexCount - 1 : Shortest[k] = Row(Shortest[k - 1], k)
<1>1. VertexCount - 1 \in Nat
  BY GraphAssumption
<1>2. \E f : Unfolds(f, VertexCount - 1)
  BY <1>1, RowsExist
<1>3. Shortest = CHOOSE f : Unfolds(f, VertexCount - 1)
  BY DEF Shortest, Unfolds, Row
<1>4. Unfolds(Shortest, VertexCount - 1)
  BY <1>2, <1>3
<1> QED
  BY <1>4 DEF Unfolds

(* What a row is, from a row of numbers.                                   *)
LEMMA RowIsLeast ==
  ASSUME TypeOK, NEW prev \in [Vertices -> Nat], NEW k, NEW v \in Vertices
  PROVE  /\ Row(prev, k)[v] \in Nat
         /\ Row(prev, k)[v] <= Unjoined(v)
         /\ \/ Row(prev, k)[v] = Unjoined(v)
            \/ k # 0 /\ \E u \in Vertices : /\ v \in Neighbors(u)
                                           /\ Row(prev, k)[v] = prev[u] + weight[<<u, v>>]
         /\ k # 0 => \A u \in Vertices :
                       v \in Neighbors(u) => Row(prev, k)[v] <= prev[u] + weight[<<u, v>>]
<1> DEFINE Near == {u \in Vertices : <<u, v>> \in Edges}
           Options == {Unjoined(v)} \cup IF k = 0 THEN {} ELSE {prev[u] + weight[<<u, v>>] : u \in Near}
<1>1. \A u \in Near : prev[u] + weight[<<u, v>>] \in Nat
  <2> TAKE u \in Near
  <2>1. weight[<<u, v>>] \in 0 .. Infinity /\ prev[u] \in Nat
    BY EdgeWeight DEF Neighbors
  <2> QED
    BY <2>1, Constants
<1>2. Unjoined(v) \in Nat
  BY GraphAssumption DEF Unjoined, Farther
<1>3. Options \subseteq Nat /\ Options # {}
  BY <1>1, <1>2
<1>4. Row(prev, k)[v] = LeastOf(Options)
  BY DEF Row, Unjoined
<1>5. LeastOf(Options) \in Options /\ \A x \in Options : LeastOf(Options) <= x
  BY <1>3, LeastOfIsLeast
<1>6. \A u \in Vertices : v \in Neighbors(u) <=> u \in Near
  BY DEF Neighbors
<1> DEFINE least == LeastOf(Options)
<1>7. /\ least \in Nat /\ least <= Unjoined(v)
      /\ \/ least = Unjoined(v)
         \/ k # 0 /\ \E u \in Near : least = prev[u] + weight[<<u, v>>]
      /\ k # 0 => \A u \in Near : least <= prev[u] + weight[<<u, v>>]
  <2>1. least \in Options /\ Options \subseteq Nat /\ \A x \in Options : least <= x
    BY <1>3, <1>5
  <2> HIDE DEF least, Near
  <2> QED
    BY <2>1
<1>8. Row(prev, k)[v] = least
  BY <1>4
<1> HIDE DEF Near, least
<1>9. \A u \in Near : u \in Vertices
  BY DEF Near
<1> QED
  BY <1>6, <1>7, <1>8, <1>9

LEMMA ShortestInNat ==
  ASSUME TypeOK
  PROVE  \A k \in 0 .. VertexCount - 1 : Shortest[k] \in [Vertices -> Nat]
<1> DEFINE S == {k \in 0 .. VertexCount - 1 : Shortest[k] \in [Vertices -> Nat]}
<1>1. ASSUME NEW prev \in [Vertices -> Nat], NEW k
      PROVE  Row(prev, k) \in [Vertices -> Nat]
  <2>1. \A v \in Vertices : Row(prev, k)[v] \in Nat
    BY RowIsLeast
  <2>2. Row(prev, k) = [v \in Vertices |-> Row(prev, k)[v]]
    BY DEF Row
  <2> QED
    BY <2>1, <2>2
<1>2. VertexCount - 1 \in Nat /\ 0 \in 0 .. VertexCount - 1
  BY GraphAssumption
<1>3. 0 \in S
  <2>1. Shortest[0] = Row(Shortest[0 - 1], 0)
    BY <1>2, ShortestUnfolds
  <2>2. Row(Shortest[0 - 1], 0) = Row([v \in Vertices |-> 0], 0)
    BY DEF Row
  <2>3. Row([v \in Vertices |-> 0], 0) \in [Vertices -> Nat]
    BY <1>1
  <2> QED
    BY <1>2, <2>1, <2>2, <2>3
<1>4. ASSUME NEW k \in 1 .. VertexCount - 1, k - 1 \in S
      PROVE  k \in S
  <2>1. k \in 0 .. VertexCount - 1 /\ Shortest[k - 1] \in [Vertices -> Nat]
    BY <1>2, <1>4
  <2>2. Shortest[k] = Row(Shortest[k - 1], k)
    BY <2>1, ShortestUnfolds
  <2> QED
    BY <1>1, <2>1, <2>2
<1> HIDE DEF S
<1>5. \A k \in 0 .. VertexCount - 1 : k \in S
  BY <1>2, <1>3, <1>4, Upward
<1> QED
  BY <1>5 DEF S

(* What Shortest is at each number of edges.                               *)
LEMMA ShortestSteps ==
  ASSUME TypeOK, NEW v \in Vertices
  PROVE  /\ Shortest[0][v] = Unjoined(v)
         /\ \A k \in 0 .. VertexCount - 1 : Shortest[k][v] \in Nat /\ Shortest[k][v] <= Unjoined(v)
         /\ \A k \in 1 .. VertexCount - 1 :
              /\ \/ Shortest[k][v] = Unjoined(v)
                 \/ \E u \in Vertices : /\ v \in Neighbors(u)
                                       /\ Shortest[k][v] = Shortest[k - 1][u] + weight[<<u, v>>]
              /\ \A u \in Vertices :
                   v \in Neighbors(u) => Shortest[k][v] <= Shortest[k - 1][u] + weight[<<u, v>>]
<1>1. VertexCount - 1 \in Nat /\ 0 \in 0 .. VertexCount - 1
  BY GraphAssumption
<1>2. /\ Shortest[0][v] = Unjoined(v)
      /\ Shortest[0][v] \in Nat /\ Shortest[0][v] <= Unjoined(v)
  <2> DEFINE zero == [u \in Vertices |-> 0]
  <2>1. Shortest[0] = Row(Shortest[0 - 1], 0)
    BY <1>1, ShortestUnfolds
  <2>2. Row(Shortest[0 - 1], 0) = Row(zero, 0)
    BY DEF Row
  <2>3. zero \in [Vertices -> Nat]
    OBVIOUS
  <2> HIDE DEF zero
  <2>4. /\ Row(zero, 0)[v] \in Nat /\ Row(zero, 0)[v] <= Unjoined(v)
        /\ Row(zero, 0)[v] = Unjoined(v) \/ 0 # 0
    BY <2>3, RowIsLeast
  <2> QED
    BY <2>1, <2>2, <2>4
<1>3. ASSUME NEW k \in 1 .. VertexCount - 1
      PROVE  /\ Shortest[k][v] \in Nat /\ Shortest[k][v] <= Unjoined(v)
             /\ \/ Shortest[k][v] = Unjoined(v)
                \/ \E u \in Vertices : /\ v \in Neighbors(u)
                                      /\ Shortest[k][v] = Shortest[k - 1][u] + weight[<<u, v>>]
             /\ \A u \in Vertices :
                  v \in Neighbors(u) => Shortest[k][v] <= Shortest[k - 1][u] + weight[<<u, v>>]
  <2>1. k \in 0 .. VertexCount - 1 /\ k - 1 \in 0 .. VertexCount - 1 /\ k # 0
    BY <1>1
  <2> DEFINE prev == Shortest[k - 1]
  <2>2. prev \in [Vertices -> Nat]
    BY <2>1, ShortestInNat
  <2>3. Shortest[k] = Row(prev, k)
    BY <2>1, ShortestUnfolds
  <2> HIDE DEF prev
  <2>4. /\ Shortest[k][v] \in Nat /\ Shortest[k][v] <= Unjoined(v)
        /\ \/ Shortest[k][v] = Unjoined(v)
           \/ \E u \in Vertices : /\ v \in Neighbors(u)
                                 /\ Shortest[k][v] = prev[u] + weight[<<u, v>>]
        /\ \A u \in Vertices :
             v \in Neighbors(u) => Shortest[k][v] <= prev[u] + weight[<<u, v>>]
    BY <2>1, <2>2, <2>3, RowIsLeast
  <2> QED
    BY <2>4 DEF prev
<1>4. \A k \in 0 .. VertexCount - 1 : k = 0 \/ k \in 1 .. VertexCount - 1
  BY <1>1
<1> QED
  BY <1>2, <1>3, <1>4

------------------------------------------------------------------------------
(* The order in which vertices settle shows that the parents do not lead   *)
(* in a circle, not even along edges of weight 0: they lead from a vertex  *)
(* to the source in fewer steps than there are vertices.                   *)
Hops(h, S, n) ==
  /\ h \in [Vertices -> Nat]
  /\ \A v \in S : /\ h[v] < n
                  /\ v \in Reached \ {source} => h[parents[v]] < h[v]

NoCircle ==
  /\ Running => \E h : Hops(h, settled, Cardinality(settled))
  /\ Complete => \E h : Hops(h, Reached, VertexCount)

LEMMA SettledIsFinite ==
  ASSUME TypeOK
  PROVE  /\ IsFiniteSet(settled) /\ Cardinality(settled) \in Nat
         /\ Cardinality(settled) <= VertexCount
<1>1. IsFiniteSet(Vertices) /\ Cardinality(Vertices) = VertexCount
  BY GraphAssumption, FS_Interval DEF Vertices
<1>2. settled \in SUBSET Vertices
  BY DEF TypeOK
<1> QED
  BY <1>1, <1>2, FS_Subset, FS_CardinalityType

LEMMA NoCircleStep ==
  ASSUME IndInv, NoCircle, [Next]_vars
  PROVE  NoCircle'
<1>1. TypeOK /\ TypeOK'
  BY TypeStep DEF IndInv
<1>2. ASSUME ~Running, UNCHANGED settled, ~Complete'
      PROVE  NoCircle'
  <2>1. settled' = {}
    BY <1>2 DEF IndInv, Bookkeeping
  <2> DEFINE h == [v \in Vertices |-> 0]
  <2>2. h \in [Vertices -> Nat]
    OBVIOUS
  <2> HIDE DEF h
  <2>3. Hops(h, settled, Cardinality(settled))'
    BY <2>1, <2>2 DEF Hops
  <2> QED
    BY <1>2, <2>3 DEF NoCircle
<1>3. CASE Finish
  <2>1. /\ Running /\ frontier = {} /\ ~Running'
        /\ UNCHANGED <<source, distances, parents>>
    BY <1>3 DEF Finish, Return, output, Running
  <2>2. Reached \subseteq settled
    BY <1>3, <2>1 DEF IndInv, FrontierIsComplete
  <2>3. PICK h : Hops(h, settled, Cardinality(settled))
    BY <2>1 DEF NoCircle
  <2>4. \A v \in Reached : h[v] \in Nat /\ h[v] < VertexCount
    BY <1>1, <2>2, <2>3, SettledIsFinite, GraphAssumption DEF Hops, Reached
  <2>5. Hops(h, Reached, VertexCount)
    BY <2>2, <2>3, <2>4 DEF Hops
  <2>6. Hops(h, Reached, VertexCount)'
    BY <2>1, <2>5 DEF Hops, Reached
  <2> QED
    BY <2>1, <2>6 DEF NoCircle
<1>4. CASE Settle
  <2>1. PICK p \in frontier : /\ p.index \in Vertices \ settled
                              /\ settled' = settled \cup {p.index}
    BY <1>4, SettleMeans
  <2>2. Running /\ Running' /\ UNCHANGED <<source, distances, parents, weight>>
    BY <1>4 DEF Settle, Running, output
  <2>3. PICK h : Hops(h, settled, Cardinality(settled))
    BY <2>2 DEF NoCircle
  <2> DEFINE s == p.index
             n == Cardinality(settled)
  <2>4. n \in Nat /\ Cardinality(settled') = n + 1
    BY <1>1, <2>1, SettledIsFinite, FS_AddElement
  <2>5. s \in Vertices /\ s \notin settled /\ settled' = settled \cup {s}
    BY <2>1
  <2> HIDE DEF s, n
  <2>6. PICK g : /\ g \in [Vertices -> Nat] /\ g[s] = n
                 /\ \A v \in settled : g[v] = h[v] /\ h[v] < n
    <3>1. LET g == [h EXCEPT ![s] = n]
          IN  /\ g \in [Vertices -> Nat] /\ g[s] = n
              /\ \A v \in settled : g[v] = h[v] /\ h[v] < n
      BY <1>1, <2>3, <2>4, <2>5 DEF Hops, TypeOK, n
    <3> QED
      BY <3>1
  <2>7. \A v \in Reached \ {source} : parents[v] \in settled
    BY <2>2 DEF IndInv, ParentsAreTight, Reached
  <2>8. ASSUME NEW v \in settled'
        PROVE  g[v] < n + 1 /\ (v \in Reached \ {source} => g[parents[v]] < g[v])
    <3>1. CASE v = s
      BY <2>4, <2>6, <2>7, <3>1
    <3>2. CASE v # s
      <4>1. v \in settled /\ h[v] \in Nat /\ h[v] < n /\ g[v] = h[v]
        BY <1>1, <2>3, <2>5, <2>6, <3>2 DEF Hops, TypeOK
      <4>2. v \in Reached \ {source} => h[parents[v]] < h[v] /\ g[parents[v]] = h[parents[v]]
        BY <2>3, <2>6, <2>7, <4>1 DEF Hops
      <4> QED
        BY <2>4, <4>1, <4>2
    <3> QED
      BY <3>1, <3>2
  <2>9. Hops(g, settled, Cardinality(settled))'
    BY <2>2, <2>4, <2>6, <2>8 DEF Hops, Reached
  <2> QED
    BY <2>2, <2>9 DEF NoCircle, Complete
<1>5. ASSUME NEW v \in Vertices, RelaxImproves(v)
      PROVE  NoCircle'
  <2>1. /\ v \notin settled /\ Running /\ Running'
        /\ UNCHANGED <<source, settled>>
        /\ distances' = [distances EXCEPT ![v] = Candidate(v)]
        /\ parents' = [parents EXCEPT ![v] = current.index]
    BY <1>5, ImprovesUnsettled DEF RelaxImproves, Running
  <2>2. PICK h : Hops(h, settled, Cardinality(settled))
    BY <2>1 DEF NoCircle
  <2>3. \A u \in settled : distances'[u] = distances[u] /\ parents'[u] = parents[u]
    BY <1>1, <2>1 DEF TypeOK
  <2>4. Hops(h, settled, Cardinality(settled))'
    BY <1>1, <2>1, <2>2, <2>3 DEF Hops, Reached, TypeOK
  <2> QED
    BY <2>1, <2>4 DEF NoCircle, Complete
<1>6. ASSUME UNCHANGED <<source, distances, parents, settled>>,
             Running' => Running, Complete' => Complete
      PROVE  NoCircle'
  BY <1>6 DEF NoCircle, Hops, Reached
<1>7. ASSUME ~Running', ~Complete'
      PROVE  NoCircle'
  BY <1>7 DEF NoCircle
<1>8. ASSUME NEW s \in Vertices, Begin(s)
      PROVE  NoCircle'
  BY <1>2, <1>8 DEF Begin, Running, Complete
<1>9. CASE Refuse \/ BeginFails
  BY <1>7, <1>9 DEF Refuse, BeginFails, Running, Complete
<1>10. ASSUME NEW v \in Vertices, RelaxFails(v)
       PROVE  NoCircle'
  BY <1>7, <1>10 DEF RelaxFails, Return, Running, Complete
<1>11. ASSUME NEW v \in Vertices, RelaxKeeps(v)
       PROVE  NoCircle'
  BY <1>6, <1>11 DEF RelaxKeeps, output, Running, Complete
<1>12. CASE DropStale \/ Expanded \/ UNCHANGED vars
  BY <1>6, <1>12 DEF DropStale, Expanded, vars, output, Running, Complete
<1> QED
  BY <1>3, <1>4, <1>5, <1>8, <1>9, <1>10, <1>11, <1>12 DEF Next, Step

(* No path is shorter than a distance, of however many edges it is: the    *)
(* edges of what was reached are relaxed, and the rest is at Infinity.     *)
LEMMA ShortestIsNotBelow ==
  ASSUME IndInv, AllRelaxed, Complete, NEW k \in 0 .. VertexCount - 1, NEW w \in Vertices
  PROVE  distances[w] <= Shortest[k][w]
<1> DEFINE S == {j \in 0 .. VertexCount - 1 : \A v \in Vertices : distances[v] <= Shortest[j][v]}
<1>1. TypeOK /\ VertexCount - 1 \in Nat /\ 0 \in 0 .. VertexCount - 1
  BY GraphAssumption DEF IndInv
<1>2. \A v \in Vertices : distances[v] \in 0 .. Infinity /\ distances[v] <= Unjoined(v)
  <2> TAKE v \in Vertices
  <2>1. distances[v] \in 0 .. Infinity
    BY <1>1 DEF TypeOK
  <2>2. CASE v = source
    BY <2>1, <2>2 DEF IndInv, ParentsAreTight, Unjoined
  <2>3. CASE v # source
    <3>1. Infinity <= Farther /\ Farther \in Nat
      BY GraphAssumption DEF Farther
    <3> QED
      BY <2>1, <2>3, <3>1, GraphAssumption DEF Unjoined
  <2> QED
    BY <2>2, <2>3
<1>3. 0 \in S
  BY <1>1, <1>2, ShortestSteps
<1>4. ASSUME NEW j \in 1 .. VertexCount - 1, j - 1 \in S
      PROVE  j \in S
  <2> SUFFICES ASSUME NEW v \in Vertices
               PROVE  distances[v] <= Shortest[j][v]
    BY <1>1
  <2>1. CASE Shortest[j][v] = Unjoined(v)
    BY <1>2, <2>1
  <2>2. ASSUME NEW u \in Vertices, v \in Neighbors(u),
               Shortest[j][v] = Shortest[j - 1][u] + weight[<<u, v>>]
        PROVE  distances[v] <= Shortest[j][v]
    <3>1. weight[<<u, v>>] \in 0 .. Infinity
      BY <1>1, <2>2, EdgeWeight
    <3>2. j - 1 \in 0 .. VertexCount - 1 /\ distances[u] <= Shortest[j - 1][u]
      BY <1>1, <1>4
    <3>3. Shortest[j - 1][u] \in Nat
      BY <1>1, <3>2, ShortestSteps
    <3>4. distances[v] <= distances[u] + weight[<<u, v>>]
      <4>1. CASE u \in Reached
        BY <2>2, <4>1 DEF AllRelaxed
      <4>2. CASE u \notin Reached
        <5>1. distances[u] = Infinity
          BY <4>2 DEF Reached
        <5> QED
          BY <1>2, <3>1, <5>1, GraphAssumption
      <4> QED
        BY <4>1, <4>2
    <3>5. distances[u] \in 0 .. Infinity /\ distances[v] \in 0 .. Infinity
      BY <1>2
    <3> QED
      BY <2>2, <3>1, <3>2, <3>3, <3>4, <3>5, GraphAssumption
  <2> QED
    BY <1>1, <2>1, <2>2, ShortestSteps
<1> HIDE DEF S
<1>5. \A j \in 0 .. VertexCount - 1 : j \in S
  BY <1>1, <1>3, <1>4, Upward
<1> QED
  BY <1>5 DEF S

(* A vertex that was reached has a path of its distance: the one its       *)
(* parents form, which has fewer edges than there are vertices.            *)
LEMMA ShortestIsNotAbove ==
  ASSUME IndInv, NoCircle, Complete, NEW w \in Reached
  PROVE  Shortest[VertexCount - 1][w] <= distances[w]
<1>1. TypeOK /\ VertexCount - 1 \in Nat /\ 0 \in 0 .. VertexCount - 1
  BY GraphAssumption DEF IndInv
<1>2. PICK h : Hops(h, Reached, VertexCount)
  BY DEF NoCircle
<1>3. \A v \in Reached : v \in Vertices /\ h[v] \in Nat /\ h[v] < VertexCount
  BY <1>2 DEF Hops, Reached
<1>4. ASSUME NEW v \in Reached \ {source}
      PROVE  /\ parents[v] \in Reached /\ h[parents[v]] < h[v] /\ v \in Neighbors(parents[v])
             /\ distances[v] = distances[parents[v]] + weight[<<parents[v], v>>]
  <2>1. /\ <<parents[v], v>> \in Edges
        /\ distances[v] = distances[parents[v]] + weight[<<parents[v], v>>]
        /\ v \in Vertices
    BY DEF IndInv, ParentsAreTight, Reached
  <2>2. parents[v] \in Vertices /\ v \in Neighbors(parents[v])
    BY <2>1, GraphAssumption DEF Edges, Neighbors
  <2>3. weight[<<parents[v], v>>] \in 0 .. Infinity
    BY <1>1, <2>2, EdgeWeight
  <2>4. /\ distances[v] \in 0 .. Infinity /\ distances[v] # Infinity
        /\ distances[parents[v]] \in 0 .. Infinity
    BY <1>1, <2>1, <2>2 DEF TypeOK, Reached
  <2>5. distances[parents[v]] # Infinity
    BY <2>1, <2>3, <2>4, GraphAssumption
  <2> QED
    BY <1>2, <2>1, <2>2, <2>5 DEF Hops, Reached
<1> DEFINE Short(j) == \A v \in Reached : h[v] <= j => Shortest[j][v] <= distances[v]
           S == {j \in 0 .. VertexCount - 1 : Short(j)}
<1>5. \A j \in 0 .. VertexCount - 1 : source \in Reached => Shortest[j][source] <= distances[source]
  <2> TAKE j \in 0 .. VertexCount - 1
  <2>1. distances[source] = 0 /\ source \in Vertices /\ Unjoined(source) = 0
    BY <1>1 DEF IndInv, ParentsAreTight, TypeOK, Unjoined
  <2>2. Shortest[j][source] <= Unjoined(source)
    BY <1>1, <2>1, ShortestSteps
  <2> QED
    BY <2>1, <2>2
<1>6. 0 \in S
  <2> SUFFICES ASSUME NEW v \in Reached, h[v] <= 0
               PROVE  Shortest[0][v] <= distances[v]
    BY <1>1
  <2>1. v = source
    <3>1. ASSUME v # source PROVE FALSE
      <4>1. parents[v] \in Reached /\ h[parents[v]] < h[v]
        BY <1>4, <3>1
      <4> QED
        BY <1>3, <4>1
    <3> QED
      BY <3>1
  <2> QED
    BY <1>1, <1>5, <2>1
<1>7. ASSUME NEW j \in 1 .. VertexCount - 1, j - 1 \in S
      PROVE  j \in S
  <2>1. j \in 0 .. VertexCount - 1 /\ j - 1 \in 0 .. VertexCount - 1 /\ Short(j - 1)
    BY <1>1, <1>7
  <2> SUFFICES ASSUME NEW v \in Reached, h[v] <= j
               PROVE  Shortest[j][v] <= distances[v]
    BY <2>1
  <2>2. CASE v = source
    BY <1>5, <2>1, <2>2
  <2>3. CASE v # source
    <3> DEFINE u == parents[v]
    <3>1. /\ u \in Reached /\ h[u] < h[v] /\ v \in Neighbors(u)
          /\ distances[v] = distances[u] + weight[<<u, v>>]
      BY <1>4, <2>3
    <3> HIDE DEF u
    <3>2. u \in Vertices /\ v \in Vertices /\ h[u] \in Nat /\ h[v] \in Nat
      BY <1>3, <3>1
    <3>3. Shortest[j - 1][u] <= distances[u]
      BY <2>1, <3>1, <3>2
    <3>4. /\ Shortest[j][v] <= Shortest[j - 1][u] + weight[<<u, v>>]
          /\ Shortest[j][v] \in Nat /\ Shortest[j - 1][u] \in Nat
      BY <1>1, <2>1, <3>1, <3>2, ShortestSteps
    <3>5. weight[<<u, v>>] \in 0 .. Infinity /\ distances[u] \in 0 .. Infinity
      BY <1>1, <3>1, <3>2, EdgeWeight DEF TypeOK
    <3> QED
      BY <3>1, <3>3, <3>4, <3>5, GraphAssumption
  <2> QED
    BY <2>2, <2>3
<1> HIDE DEF S, Short
<1>8. \A j \in 0 .. VertexCount - 1 : j \in S
  BY <1>1, <1>6, <1>7, Upward
<1>9. Short(VertexCount - 1)
  <2>1. VertexCount - 1 \in 0 .. VertexCount - 1
    BY <1>1
  <2> QED
    BY <1>8, <2>1 DEF S
<1>10. h[w] <= VertexCount - 1
  BY <1>1, <1>3, GraphAssumption
<1> QED
  BY <1>9, <1>10 DEF Short

(* A call that succeeds reports the distances of Bellman and Ford at every *)
(* vertex, on every graph, with weights of 0 too, wherever they are less   *)
(* than Infinity.                                                          *)
THEOREM ShortestCorrect == Spec => []ShortestWhenComplete
<1>1. Init => AllRelaxed /\ NoCircle
  BY DEF Init, AllRelaxed, NoCircle, Running, Complete
<1>2. IndInv /\ AllRelaxed /\ NoCircle /\ [Next]_vars => AllRelaxed' /\ NoCircle'
  BY AllRelaxedStep, NoCircleStep
<1>3. IndInv /\ AllRelaxed /\ NoCircle => ShortestWhenComplete
  <2> SUFFICES ASSUME IndInv, AllRelaxed, NoCircle, Complete, NEW v \in Vertices
               PROVE  distances[v] = IF Distance(v) < Infinity THEN Distance(v) ELSE Infinity
    BY DEF ShortestWhenComplete
  <2>1. VertexCount - 1 \in 0 .. VertexCount - 1 /\ TypeOK
    BY GraphAssumption DEF IndInv
  <2>2. distances[v] \in 0 .. Infinity /\ Distance(v) \in Nat
    BY <2>1, ShortestSteps DEF TypeOK, Distance
  <2>3. distances[v] <= Distance(v)
    BY <2>1, ShortestIsNotBelow DEF Distance
  <2>4. distances[v] # Infinity => Distance(v) <= distances[v]
    BY ShortestIsNotAbove DEF Distance, Reached
  <2> QED
    BY <2>2, <2>3, <2>4, GraphAssumption
<1> QED
  BY <1>1, <1>2, <1>3, Inductive, PTL DEF Spec

------------------------------------------------------------------------------
(* A*: the same questions of a_star.c. *)

(* What the main loop relies on: nothing outlives the call, the proposal   *)
(* being expanded is that of a vertex reached and has its score.           *)
StarBookkeeping ==
  /\ ~Star!Running => heap = {} /\ unseen = {}
  /\ Star!Running => from # goal
  /\ at = "relax" =>
       /\ expanded.index \in Star!Reached
       /\ expanded.g_score = g_scores[expanded.index]
       /\ unseen \subseteq Star!Neighbors(expanded.index)
  /\ \A p \in heap : p.g_score # StarInfinity
  /\ IsFiniteSet(heap)

(* The parents form a tree: the score of a vertex is at least that of its  *)
(* parent and the edge between them, and no set of vertices holds the      *)
(* parents of all of its members.                                          *)
StarTight ==
  Star!Running =>
    /\ g_scores[from] = 0
    /\ \A v \in Star!Reached \ {from} :
         /\ <<trail[v], v>> \in Star!Edges /\ trail[v] \in Star!Reached
         /\ g_scores[v] >= g_scores[trail[v]] + borrowed[<<trail[v], v>>]

StarRooted ==
  Star!Running =>
    \A S \in SUBSET (Star!Reached \ {from}) :
      S # {} => \E x \in S : trail[x] \notin S

(* A goal that was reached waits in the heap until it comes up.            *)
StarGoalWaits ==
  at \in {"loop", "relax"} /\ goal \in Star!Reached =>
    Star!Proposal(goal, g_scores[goal]) \in heap

(* The walk back follows the parents and has not met the source before.    *)
StarWalkFollows ==
  at = "walk" =>
    /\ Len(path) \in 1 .. StarVertexCount /\ path[Len(path)] = goal
    /\ \A i \in 1 .. Len(path) : path[i] \in Star!Reached
    /\ \A i \in 2 .. Len(path) : path[i] # from
    /\ \A i \in 1 .. Len(path) - 1 : path[i] = trail[path[i + 1]]

StarIndInv ==
  /\ Star!TypeOK
  /\ Star!NothingLeaks
  /\ StarBookkeeping
  /\ StarTight /\ StarRooted
  /\ Star!ScoresWaitOrCarried
  /\ StarGoalWaits
  /\ StarWalkFollows

------------------------------------------------------------------------------
(* An instance has a copy of Cardinality of its own; the copies are equal. *)
LEMMA StarCardinality == \A S : Star!Cardinality(S) = Cardinality(S)
BY DEF Star!Cardinality, Cardinality

LEMMA StarConstants ==
  /\ StarVertexCount \in Nat /\ StarVertexCount >= 1
  /\ 0 \in Star!Vertices /\ Star!Vertices \subseteq Nat
     /\ StarRequests \subseteq Star!Vertices \X Star!Vertices
  /\ StarInfinity \in Nat /\ 0 \in 0 .. StarInfinity /\ StarInfinity \in 0 .. StarInfinity
     /\ StarInfinity # 0
  /\ NoParent \notin Star!Vertices
  /\ \A h \in StarHeuristics : h \in [Star!Vertices -> 0 .. StarInfinity]
BY StarAssumption DEF Star!RouteAssumption, Star!Vertices

(* An edge has a weight, which is a uint64_t. *)
LEMMA StarEdgeWeight ==
  ASSUME Star!TypeOK, NEW u, NEW v, <<u, v>> \in Star!Edges
  PROVE  u \in Star!Vertices /\ v \in Star!Vertices /\ v \in Star!Neighbors(u)
         /\ borrowed[<<u, v>>] \in 0 .. StarInfinity
BY StarAssumption DEF Star!RouteAssumption, Star!TypeOK, Star!Neighbors, Star!Edges

LEMMA StarNeighborEdge ==
  ASSUME NEW u, NEW v \in Star!Neighbors(u)
  PROVE  v \in Star!Vertices /\ <<u, v>> \in Star!Edges
BY DEF Star!Neighbors

(* The relaxation test means what it is meant to mean. *)
LEMMA StarImprovesMeans ==
  ASSUME Star!TypeOK, NEW v \in Star!Neighbors(expanded.index), Star!Improves(v)
  PROVE  /\ Star!Candidate(v) = expanded.g_score + borrowed[<<expanded.index, v>>]
         /\ Star!Candidate(v) \in 0 .. StarInfinity
         /\ Star!Candidate(v) < g_scores[v]
         /\ Star!Candidate(v) >= expanded.g_score
<1> DEFINE w == borrowed[<<expanded.index, v>>]
<1>1. expanded.index \in Star!Vertices /\ expanded.g_score \in 0 .. StarInfinity
  BY DEF Star!TypeOK, Star!Proposals
<1>2. w \in 0 .. StarInfinity /\ v \in Star!Vertices
  BY StarEdgeWeight, StarNeighborEdge
<1>3. StarInfinity \in Nat /\ ~(w > StarInfinity - expanded.g_score)
  BY StarConstants DEF Star!Improves, Star!GOverflows
<1> HIDE DEF w
<1>4. expanded.g_score + w \in 0 .. StarInfinity
  BY <1>1, <1>2, <1>3
<1>5. Star!Candidate(v) = expanded.g_score + w
  BY <1>3, <1>4, FitsInWord DEF Star!Candidate, w
<1>6. Star!Candidate(v) < g_scores[v]
  BY DEF Star!Improves
<1>7. /\ Star!Candidate(v) \in 0 .. StarInfinity
      /\ Star!Candidate(v) >= expanded.g_score
  BY <1>1, <1>2, <1>3, <1>4, <1>5
<1> QED
  BY <1>5, <1>6, <1>7 DEF w

(* One that does not improve leaves the score carried. *)
LEMMA StarKeepsMeans ==
  ASSUME Star!TypeOK, NEW v \in Star!Neighbors(expanded.index), ~Star!GOverflows(v),
         ~Star!Improves(v)
  PROVE  g_scores[v] <= expanded.g_score + borrowed[<<expanded.index, v>>]
<1> DEFINE w == borrowed[<<expanded.index, v>>]
<1>1. expanded.index \in Star!Vertices /\ expanded.g_score \in 0 .. StarInfinity
  BY DEF Star!TypeOK, Star!Proposals
<1>2. w \in 0 .. StarInfinity /\ v \in Star!Vertices
  BY StarEdgeWeight, StarNeighborEdge
<1>3. StarInfinity \in Nat /\ ~(w > StarInfinity - expanded.g_score)
  BY StarConstants DEF Star!GOverflows
<1> HIDE DEF w
<1>4. expanded.g_score + w \in 0 .. StarInfinity
  BY <1>1, <1>2, <1>3
<1>5. Star!Candidate(v) = expanded.g_score + w
  BY <1>3, <1>4, FitsInWord DEF Star!Candidate, w
<1>6. g_scores[v] \in 0 .. StarInfinity
  BY <1>2 DEF Star!TypeOK
<1>7. ~(Star!Candidate(v) < g_scores[v])
  BY DEF Star!Improves
<1> QED
  BY <1>1, <1>2, <1>3, <1>4, <1>5, <1>6, <1>7 DEF w

(* What a successful call of the callback does. *)
StarOpened(v) ==
  /\ v \in Star!Vertices /\ v \in unseen
  /\ expanded.index \in Star!Reached /\ <<expanded.index, v>> \in Star!Edges
  /\ expanded.g_score = g_scores[expanded.index]
  /\ v # expanded.index /\ v # from
  /\ Star!Candidate(v) = g_scores[expanded.index] + borrowed[<<expanded.index, v>>]
  /\ Star!Candidate(v) \in 0 .. StarInfinity /\ Star!Candidate(v) # StarInfinity
  /\ Star!Candidate(v) < g_scores[v]
  /\ Star!Candidate(v) >= g_scores[expanded.index]
  /\ g_scores' = [g_scores EXCEPT ![v] = Star!Candidate(v)]
  /\ g_scores'[v] = Star!Candidate(v)
  /\ \A x \in Star!Vertices \ {v} : g_scores'[x] = g_scores[x]
  /\ \A x \in Star!Vertices : g_scores'[x] \in Nat /\ g_scores'[x] <= g_scores[x]
  /\ Star!Reached' = Star!Reached \cup {v}
  /\ trail' = [trail EXCEPT ![v] = expanded.index]
  /\ trail'[v] = expanded.index
  /\ \A x \in Star!Vertices \ {v} : trail'[x] = trail[x]
  /\ heap' = heap \cup {Star!Proposal(v, Star!Candidate(v))}
  /\ Star!Proposal(v, Star!Candidate(v)) \notin heap
  /\ Star!Proposal(v, Star!Candidate(v)) \in Star!Proposals
  /\ unseen' = unseen \ {v}
  /\ held' = held + 1
  /\ UNCHANGED <<Star!lent, from, goal, expanded, path, at, answer>>
  /\ at = "relax" /\ Star!Running

LEMMA StarImprovesOpens ==
  ASSUME StarIndInv, NEW v \in Star!Vertices, Star!RelaxImproves(v)
  PROVE  StarOpened(v)
<1>1. Star!TypeOK /\ at = "relax" /\ Star!Running /\ v \in unseen
  BY DEF StarIndInv, Star!RelaxImproves, Star!Running
<1>2. /\ expanded.index \in Star!Reached /\ expanded.index \in Star!Vertices
      /\ expanded.g_score = g_scores[expanded.index]
      /\ v \in Star!Neighbors(expanded.index) /\ <<expanded.index, v>> \in Star!Edges
  BY <1>1, StarNeighborEdge DEF StarIndInv, StarBookkeeping, Star!Reached
<1>3. /\ Star!Candidate(v) = g_scores[expanded.index] + borrowed[<<expanded.index, v>>]
      /\ Star!Candidate(v) \in 0 .. StarInfinity
      /\ Star!Candidate(v) < g_scores[v]
      /\ Star!Candidate(v) >= g_scores[expanded.index]
  BY <1>1, <1>2, StarImprovesMeans DEF Star!RelaxImproves
<1>4. g_scores \in [Star!Vertices -> 0 .. StarInfinity]
      /\ trail \in [Star!Vertices -> Star!Vertices \cup {NoParent}]
  BY <1>1 DEF Star!TypeOK
<1>5. g_scores[from] = 0
  BY <1>1 DEF StarIndInv, StarTight
<1>6. v # expanded.index /\ v # from /\ Star!Candidate(v) # StarInfinity
  BY <1>2, <1>3, <1>4, <1>5, StarConstants
<1>7. /\ heap' = heap \cup {Star!Proposal(v, Star!Candidate(v))}
      /\ g_scores' = [g_scores EXCEPT ![v] = Star!Candidate(v)]
      /\ trail' = [trail EXCEPT ![v] = expanded.index]
      /\ unseen' = unseen \ {v}
      /\ held' = held + 1
      /\ UNCHANGED <<Star!lent, from, goal, expanded, path, at, answer>>
      /\ ~Star!FOverflows(v)
  BY DEF Star!RelaxImproves
<1> DEFINE cand == Star!Candidate(v)
<1>8. estimate[v] \in 0 .. StarInfinity
  BY <1>1, StarConstants DEF Star!TypeOK
<1>9. Star!Proposal(v, cand) \in Star!Proposals
  <2>1. ~(cand > StarInfinity - estimate[v]) /\ cand \in 0 .. StarInfinity
    BY <1>3, <1>7 DEF Star!FOverflows
  <2> HIDE DEF cand
  <2>2. cand + estimate[v] \in 0 .. StarInfinity
    BY <1>8, <2>1, StarConstants
  <2> QED
    BY <2>1, <2>2 DEF Star!Proposal, Star!Proposals
<1>10. Star!Proposal(v, cand) \notin heap
  <2>1. \A p \in heap : p.g_score >= g_scores[p.index]
    BY <1>1 DEF StarIndInv, Star!ScoresWaitOrCarried
  <2>2. cand < g_scores[v] /\ cand \in 0 .. StarInfinity /\ g_scores[v] \in 0 .. StarInfinity
    BY <1>3, <1>4
  <2> HIDE DEF cand
  <2> QED
    BY <2>1, <2>2, StarConstants DEF Star!Proposal
<1>11. cand \in 0 .. StarInfinity /\ cand < g_scores[v]
       /\ g_scores' = [g_scores EXCEPT ![v] = cand] /\ cand # StarInfinity
  BY <1>3, <1>6, <1>7
<1>12. /\ g_scores'[v] = cand
       /\ \A x \in Star!Vertices \ {v} : g_scores'[x] = g_scores[x]
       /\ \A x \in Star!Vertices : g_scores'[x] \in Nat /\ g_scores'[x] <= g_scores[x]
       /\ Star!Reached' = Star!Reached \cup {v}
  <2> HIDE DEF cand
  <2> QED
    BY <1>4, <1>11, StarConstants DEF Star!Reached
<1>13. /\ trail'[v] = expanded.index
       /\ \A x \in Star!Vertices \ {v} : trail'[x] = trail[x]
  BY <1>4, <1>7
<1> QED
  BY <1>1, <1>2, <1>3, <1>6, <1>7, <1>9, <1>10, <1>12, <1>13 DEF StarOpened

(* The steps that leave the arrays, the graph and the call alone. *)
StarSameScores == UNCHANGED <<Star!lent, from, goal, Star!scores>>

LEMMA StarSameEdges ==
  ASSUME StarSameScores
  PROVE  /\ Star!Reached' = Star!Reached /\ Star!Edges' = Star!Edges
         /\ g_scores' = g_scores /\ trail' = trail /\ borrowed' = borrowed
         /\ estimate' = estimate /\ from' = from /\ goal' = goal
         /\ \A u \in Star!Vertices : Star!Neighbors(u)' = Star!Neighbors(u)
BY DEF StarSameScores, Star!lent, Star!scores, Star!Reached, Star!Edges, Star!Neighbors

(* A proposal leaves the heap: it is a least one. *)
StarPopped(p) ==
  /\ p \in heap /\ Star!NextUp(p)
  /\ heap' = heap \ {p}
  /\ p.index \in Star!Vertices /\ p.g_score \in 0 .. StarInfinity /\ p.g_score # StarInfinity
  /\ p = Star!Proposal(p.index, p.g_score)
  /\ IsFiniteSet(heap')
  /\ Star!Cardinality(heap') = Star!Cardinality(heap) - 1
  /\ at = "loop" /\ StarSameScores
  /\ path' = path \/ at' = "walk"
  /\ answer' = answer

LEMMA StarPopsOne ==
  ASSUME StarIndInv, Star!Expand \/ Star!DropStale \/ Star!FindGoal
  PROVE  \E p \in heap :
           /\ StarPopped(p)
           /\ Star!Expand => /\ Star!IsCurrent(p) /\ p.index # goal
                        /\ expanded' = p /\ unseen' = Star!Neighbors(p.index)
                        /\ at' = "relax" /\ UNCHANGED <<path, held>>
           /\ Star!DropStale => ~Star!IsCurrent(p) /\ at' = "loop" /\ held' = held - 1
                           /\ UNCHANGED <<expanded, unseen, path>>
           /\ Star!FindGoal => Star!IsCurrent(p) /\ p.index = goal /\ at' = "walk"
              /\ held' = held - 1
                          /\ path' = <<goal>> /\ UNCHANGED <<expanded, unseen>>
<1>1. Star!TypeOK /\ IsFiniteSet(heap) /\ \A p \in heap : p.g_score # StarInfinity
  BY DEF StarIndInv, StarBookkeeping
<1>2. at = "loop" /\ StarSameScores /\ answer' = answer
  BY DEF Star!Expand, Star!DropStale, Star!FindGoal, StarSameScores
<1>3. \A p \in heap : p = Star!Proposal(p.index, p.g_score)
  BY <1>2 DEF StarIndInv, Star!ScoresWaitOrCarried
<1>4. ASSUME NEW p \in heap, Star!NextUp(p), heap' = heap \ {p}, path' = path \/ at' = "walk"
      PROVE  StarPopped(p)
  <2>1. p.index \in Star!Vertices /\ p.g_score \in 0 .. StarInfinity
    BY <1>1 DEF Star!TypeOK, Star!Proposals
  <2>2. IsFiniteSet(heap') /\ Star!Cardinality(heap') = Star!Cardinality(heap) - 1
    BY <1>1, <1>4, FS_RemoveElement, StarCardinality
  <2> QED
    BY <1>1, <1>2, <1>3, <1>4, <2>1, <2>2 DEF StarPopped
<1>5. CASE Star!Expand
  <2>1. PICK p \in heap :
          /\ Star!NextUp(p) /\ Star!IsCurrent(p) /\ p.index # goal
          /\ heap' = heap \ {p} /\ expanded' = p /\ unseen' = Star!Neighbors(p.index)
    BY <1>5 DEF Star!Expand
  <2>2. at' = "relax" /\ UNCHANGED <<path, held>> /\ ~Star!DropStale /\ ~Star!FindGoal
    BY <1>5 DEF Star!Expand, Star!DropStale, Star!FindGoal
  <2>3. StarPopped(p)
    BY <1>4, <2>1, <2>2
  <2> QED
    BY <2>1, <2>2, <2>3
<1>6. CASE Star!DropStale
  <2>1. PICK p \in heap : Star!NextUp(p) /\ ~Star!IsCurrent(p) /\ heap' = heap \ {p}
    BY <1>6 DEF Star!DropStale
  <2>2. /\ at' = "loop" /\ held' = held - 1 /\ UNCHANGED <<expanded, unseen, path>>
        /\ ~Star!Expand /\ ~Star!FindGoal
    BY <1>6 DEF Star!Expand, Star!DropStale, Star!FindGoal
  <2>3. StarPopped(p)
    BY <1>4, <2>1, <2>2
  <2> QED
    BY <2>1, <2>2, <2>3
<1>7. CASE Star!FindGoal
  <2>1. PICK p \in heap :
          Star!NextUp(p) /\ Star!IsCurrent(p) /\ p.index = goal /\ heap' = heap \ {p}
    BY <1>7 DEF Star!FindGoal
  <2>2. /\ at' = "walk" /\ held' = held - 1 /\ path' = <<goal>> /\ UNCHANGED <<expanded, unseen>>
        /\ ~Star!Expand /\ ~Star!DropStale
    BY <1>7 DEF Star!Expand, Star!DropStale, Star!FindGoal
  <2>3. StarPopped(p)
    BY <1>4, <2>1, <2>2
  <2> QED
    BY <2>1, <2>2, <2>3
<1> QED
  BY <1>5, <1>6, <1>7

------------------------------------------------------------------------------
(* The initial state satisfies the invariant. *)
LEMMA StarInitIndInv == Star!Init => StarIndInv
<1> SUFFICES ASSUME Star!Init PROVE StarIndInv
  OBVIOUS
<1>1. Star!TypeOK
  <2>1. /\ g_scores \in [Star!Vertices -> 0 .. StarInfinity]
        /\ trail \in [Star!Vertices -> Star!Vertices \cup {NoParent}]
    BY StarConstants DEF Star!Init, Star!NoScores, Star!NoParents
  <2>2. path = <<>> /\ answer \in BOOLEAN
    BY Zenon DEF Star!Init
  <2>3. expanded \in Star!Proposals /\ heap \subseteq Star!Proposals
    BY StarConstants DEF Star!Init, Star!NoProposal, Star!Proposals
  <2> QED
    BY <2>1, <2>2, <2>3, StarConstants DEF Star!Init, Star!TypeOK
<1>2. StarBookkeeping /\ Star!NothingLeaks
  BY FS_EmptySet, StarCardinality DEF Star!Init, StarBookkeeping, Star!NothingLeaks, Star!Running
<1>3. StarTight /\ StarRooted /\ Star!ScoresWaitOrCarried /\ StarGoalWaits /\ StarWalkFollows
  BY DEF Star!Init, StarTight, StarRooted, Star!ScoresWaitOrCarried, StarGoalWaits,
         StarWalkFollows, Star!Running
<1> QED
  BY <1>1, <1>2, <1>3 DEF StarIndInv

------------------------------------------------------------------------------
(* Every step keeps the account of the blocks, and the heap finite. *)
LEMMA StarMemoryStep ==
  ASSUME StarIndInv, [Star!Next]_starVars
  PROVE  Star!NothingLeaks' /\ IsFiniteSet(heap') /\ held' \in Nat
<1> USE DEF Star!NothingLeaks, Star!Running
<1>1. /\ Star!NothingLeaks /\ IsFiniteSet(heap) /\ Star!Cardinality(heap) \in Nat
      /\ held \in Nat /\ at \in {"idle", "loop", "relax", "walk"}
  BY FS_CardinalityType, StarCardinality DEF StarIndInv, StarBookkeeping, Star!TypeOK
<1>2. ASSUME NEW s, NEW t, Star!Begin(s, t)
      PROVE  Star!NothingLeaks' /\ IsFiniteSet(heap') /\ held' \in Nat
  <2>1. IsFiniteSet(heap') /\ Star!Cardinality(heap') = 1
    BY <1>2, FS_Singleton, StarCardinality DEF Star!Begin
  <2> QED
    BY <1>1, <1>2, <2>1 DEF Star!Begin
<1>3. ASSUME NEW r, Star!Return(r), Star!Running
      PROVE  Star!NothingLeaks' /\ IsFiniteSet(heap') /\ held' \in Nat
  BY <1>1, <1>3, FS_EmptySet, StarCardinality DEF Star!Return
<1>4. CASE Star!Expand \/ Star!DropStale \/ Star!FindGoal
  <2>1. PICK p \in heap :
           /\ StarPopped(p)
           /\ Star!Expand => at' = "relax" /\ held' = held
           /\ Star!DropStale => at' = "loop" /\ held' = held - 1
           /\ Star!FindGoal => at' = "walk" /\ held' = held - 1
    BY <1>4, StarPopsOne
  <2>2. IsFiniteSet(heap') /\ Star!Cardinality(heap') = Star!Cardinality(heap) - 1 /\ at = "loop"
    BY <2>1 DEF StarPopped
  <2>3. Star!Cardinality(heap') \in Nat
    BY <2>2, FS_CardinalityType, StarCardinality
  <2> QED
    BY <1>1, <1>4, <2>1, <2>2, <2>3
<1>5. ASSUME NEW v \in Star!Vertices, Star!RelaxImproves(v)
      PROVE  Star!NothingLeaks' /\ IsFiniteSet(heap') /\ held' \in Nat
  <2>1. StarOpened(v)
    BY <1>5, StarImprovesOpens
  <2>2. /\ IsFiniteSet(heap')
        /\ Star!Cardinality(heap') = Star!Cardinality(heap) + 1
    BY <1>1, <2>1, FS_AddElement, StarCardinality DEF StarOpened
  <2> QED
    BY <1>1, <2>1, <2>2 DEF StarOpened
<1>6. ASSUME UNCHANGED <<heap, held, at>>
      PROVE  Star!NothingLeaks' /\ IsFiniteSet(heap') /\ held' \in Nat
  BY <1>1, <1>6
<1>7. CASE Star!Expanded
  BY <1>1, <1>7 DEF Star!Expanded
<1>8. CASE Star!WalkBack
  BY <1>3, <1>6, <1>8 DEF Star!WalkBack
<1>9. ASSUME NEW c, Star!PutOut(c)
      PROVE  Star!NothingLeaks' /\ IsFiniteSet(heap') /\ held' \in Nat
  BY <1>3, <1>9 DEF Star!PutOut
<1> QED
  BY <1>1, <1>2, <1>3, <1>4, <1>5, <1>6, <1>7, <1>8, <1>9
     DEF Star!Next, Star!Step, Star!Refuse, Star!SourceIsGoal, Star!Drained, Star!RelaxKeeps,
         Star!RelaxFails, starVars

(* The parent the walk back goes to is a vertex that was reached. *)
LEMMA StarWalksToParent ==
  ASSUME StarIndInv, Star!WalkBack, ~Star!LostTrack
  PROVE  /\ Len(path) \in 1 .. StarVertexCount - 1 /\ Head(path) = path[1]
            /\ path \in Seq(Star!Vertices)
         /\ path[1] \in Star!Reached /\ path[1] # from
         /\ trail[path[1]] \in Star!Reached /\ trail[path[1]] \in Star!Vertices
         /\ path' = <<trail[path[1]]>> \o path
         /\ at = "walk" /\ StarSameScores
         /\ UNCHANGED <<heap, expanded, unseen, held, at, answer>>
<1>1. /\ at = "walk" /\ Head(path) # from
      /\ path' = <<trail[Head(path)]>> \o path
      /\ UNCHANGED <<Star!lent, from, goal, Star!scores, heap, expanded, unseen, held, at, answer>>
  BY DEF Star!WalkBack
<1>2. /\ Len(path) \in 1 .. StarVertexCount /\ path \in Seq(Star!Vertices)
      /\ \A i \in 1 .. Len(path) : path[i] \in Star!Reached
  BY <1>1 DEF StarIndInv, StarWalkFollows, Star!TypeOK
<1>3. Head(path) = path[1] /\ path[1] \in Star!Reached
  BY <1>2
<1>4. Len(path) \in 1 .. StarVertexCount - 1
  BY <1>2, StarConstants DEF Star!LostTrack
<1>5. trail[path[1]] \in Star!Reached
  BY <1>1, <1>3 DEF StarIndInv, StarTight, Star!Running
<1> QED
  BY <1>1, <1>2, <1>3, <1>4, <1>5 DEF StarSameScores, Star!Reached

(* Every step keeps the types. *)
LEMMA StarTypeStep ==
  ASSUME StarIndInv, [Star!Next]_starVars
  PROVE  Star!TypeOK'
<1>1. held' \in Nat
  BY StarMemoryStep
<1>2. Star!TypeOK /\ StarBookkeeping
  BY DEF StarIndInv
<1>3. /\ Star!NoScores \in [Star!Vertices -> 0 .. StarInfinity]
      /\ Star!NoParents \in [Star!Vertices -> Star!Vertices \cup {NoParent}]
      /\ Star!NoProposal \in Star!Proposals
  BY StarConstants DEF Star!NoScores, Star!NoParents, Star!NoProposal, Star!Proposals
<1>4. ASSUME NEW s \in Star!Vertices, NEW t \in Star!Vertices, Star!Begin(s, t)
      PROVE  Star!TypeOK'
  <2>1. g_scores' \in [Star!Vertices -> 0 .. StarInfinity]
    BY <1>3, <1>4, StarConstants DEF Star!Begin
  <2>2. heap' \subseteq Star!Proposals
    <3>1. estimate[s] \in 0 .. StarInfinity
      BY <1>2, StarConstants DEF Star!TypeOK
    <3> QED
      BY <1>4, <3>1, StarConstants DEF Star!Begin, Star!Proposal, Star!Proposals
  <2>3. path' \in Seq(Star!Vertices)
    BY <1>4 DEF Star!Begin
  <2> QED
    BY <1>1, <1>2, <1>4, <2>1, <2>2, <2>3 DEF Star!TypeOK, Star!Begin, Star!lent
<1>5. ASSUME NEW s \in Star!Vertices, Star!SourceIsGoal(s)
      PROVE  Star!TypeOK'
  <2>1. path' \in Seq(Star!Vertices)
    BY <1>5 DEF Star!SourceIsGoal
  <2> QED
    BY <1>1, <1>2, <1>5, <2>1 DEF Star!TypeOK, Star!SourceIsGoal, Star!lent, Star!scores
<1>6. CASE Star!Refuse
  <2>1. path' \in Seq(Star!Vertices)
    BY <1>6 DEF Star!Refuse
  <2> QED
    BY <1>1, <1>2, <1>6, <2>1 DEF Star!TypeOK, Star!Refuse, Star!lent, Star!scores
<1>7. ASSUME NEW r \in BOOLEAN, Star!Return(r)
      PROVE  Star!TypeOK'
  <2>1. path' \in Seq(Star!Vertices)
    BY <1>2, <1>7 DEF Star!Return, Star!TypeOK
  <2>2. /\ g_scores' = Star!NoScores /\ trail' = Star!NoParents /\ heap' = {} /\ unseen' = {}
        /\ expanded' = Star!NoProposal /\ at' = "idle"
        /\ UNCHANGED <<Star!lent, from, goal>>
    BY <1>7 DEF Star!Return
  <2>3. answer' \in BOOLEAN
    BY <1>7, Zenon DEF Star!Return
  <2> QED
    BY <1>1, <1>2, <1>3, <2>1, <2>2, <2>3 DEF Star!TypeOK, Star!lent
<1>8. CASE Star!Expand \/ Star!DropStale \/ Star!FindGoal
  <2>1. PICK p \in heap :
           /\ StarPopped(p)
           /\ Star!Expand => expanded' = p /\ unseen' = Star!Neighbors(p.index) /\ at' = "relax"
              /\ path' = path
           /\ Star!DropStale => at' = "loop" /\ UNCHANGED <<expanded, unseen, path>>
           /\ Star!FindGoal => at' = "walk" /\ path' = <<goal>> /\ UNCHANGED <<expanded, unseen>>
    BY <1>8, StarPopsOne
  <2>2. heap' \subseteq heap /\ StarSameScores /\ answer' = answer
    BY <2>1 DEF StarPopped
  <2>3. p \in Star!Proposals /\ Star!Neighbors(p.index) \subseteq Star!Vertices
        /\ <<goal>> \in Seq(Star!Vertices)
    BY <1>2 DEF Star!TypeOK, Star!Neighbors
  <2>4. /\ expanded' \in {p, expanded} /\ unseen' \in {Star!Neighbors(p.index), unseen}
        /\ path' \in {<<goal>>, path}
    BY <1>8, <2>1
  <2>5. unseen' \subseteq Star!Vertices /\ expanded' \in Star!Proposals
        /\ path' \in Seq(Star!Vertices)
    BY <1>2, <2>3, <2>4 DEF Star!TypeOK
  <2> QED
    BY <1>1, <1>2, <1>8, <2>1, <2>2, <2>5 DEF Star!TypeOK, StarSameScores, Star!lent, Star!scores
<1>9. ASSUME NEW v \in Star!Vertices, Star!RelaxKeeps(v)
      PROVE  Star!TypeOK'
  BY <1>1, <1>2, <1>9 DEF Star!TypeOK, Star!RelaxKeeps, Star!lent, Star!scores
<1>10. ASSUME NEW v \in Star!Vertices, Star!RelaxImproves(v)
       PROVE  Star!TypeOK'
  <2>1. StarOpened(v)
    BY <1>10, StarImprovesOpens
  <2>2. /\ Star!Candidate(v) \in 0 .. StarInfinity /\ expanded.index \in Star!Vertices
        /\ Star!Proposal(v, Star!Candidate(v)) \in Star!Proposals
    BY <2>1 DEF StarOpened, Star!Reached
  <2> HIDE DEF Star!Candidate, Star!Proposals
  <2>3. g_scores' \in [Star!Vertices -> 0 .. StarInfinity]
    BY <1>2, <2>1, <2>2 DEF StarOpened, Star!TypeOK
  <2>4. trail' \in [Star!Vertices -> Star!Vertices \cup {NoParent}]
    BY <1>2, <2>1, <2>2 DEF StarOpened, Star!TypeOK
  <2>5. heap' \subseteq Star!Proposals
    BY <1>2, <2>1, <2>2 DEF StarOpened, Star!TypeOK
  <2> QED
    BY <1>1, <1>2, <2>1, <2>3, <2>4, <2>5 DEF Star!TypeOK, StarOpened, Star!lent
<1>11. CASE Star!Expanded
  BY <1>1, <1>2, <1>3, <1>11 DEF Star!TypeOK, Star!Expanded, Star!lent, Star!scores
<1>12. CASE Star!WalkBack
  <2>1. CASE Star!LostTrack
    BY <1>7, <1>12, <2>1 DEF Star!WalkBack
  <2>2. CASE ~Star!LostTrack
    <3>1. /\ trail[path[1]] \in Star!Vertices /\ path \in Seq(Star!Vertices)
          /\ path' = <<trail[path[1]]>> \o path
          /\ StarSameScores
          /\ UNCHANGED <<heap, expanded, unseen, held, at, answer>>
      BY <1>12, <2>2, StarWalksToParent
    <3>2. path' \in Seq(Star!Vertices)
      BY <3>1
    <3> QED
      BY <1>1, <1>2, <3>1, <3>2 DEF Star!TypeOK, StarSameScores, Star!lent, Star!scores
  <2> QED
    BY <2>1, <2>2
<1>13. ASSUME NEW c, Star!PutOut(c)
       PROVE  Star!TypeOK'
  <2>1. (Len(path) <= c) \in BOOLEAN
    OBVIOUS
  <2> QED
    BY <1>7, <1>13, <2>1 DEF Star!PutOut
<1>14. CASE UNCHANGED starVars
  BY <1>2, <1>14 DEF Star!TypeOK, starVars, Star!lent, Star!scores
<1>15. \A r \in StarRequests : r[1] \in Star!Vertices /\ r[2] \in Star!Vertices
  BY StarConstants
<1> QED
  BY <1>4, <1>5, <1>6, <1>7, <1>8, <1>9, <1>10, <1>11, <1>12, <1>13, <1>14, <1>15
     DEF Star!Next, Star!Step, Star!Drained, Star!RelaxFails

------------------------------------------------------------------------------
(* Every step keeps the loop's bookkeeping. *)
LEMMA StarBookkeepingStep ==
  ASSUME StarIndInv, [Star!Next]_starVars
  PROVE  StarBookkeeping'
<1>1. Star!TypeOK /\ StarBookkeeping /\ IsFiniteSet(heap')
  BY StarMemoryStep DEF StarIndInv
<1>2. ASSUME NEW s, NEW t, Star!Begin(s, t)
      PROVE  StarBookkeeping'
  <2>1. /\ heap' = {Star!Proposal(s, 0)} /\ Star!Proposal(s, 0).g_score = 0
        /\ at' = "loop" /\ s # t /\ from' = s /\ goal' = t
    BY <1>2 DEF Star!Begin, Star!Proposal
  <2> QED
    BY <1>1, <2>1, StarConstants DEF StarBookkeeping, Star!Running
<1>3. ASSUME NEW r, Star!Return(r)
      PROVE  StarBookkeeping'
  BY <1>1, <1>3 DEF StarBookkeeping, Star!Running, Star!Return
<1>4. CASE Star!Expand \/ Star!DropStale \/ Star!FindGoal
  <2>1. PICK p \in heap :
           /\ StarPopped(p)
           /\ Star!Expand => Star!IsCurrent(p) /\ expanded' = p
              /\ unseen' = Star!Neighbors(p.index) /\ at' = "relax"
           /\ Star!DropStale => at' = "loop"
           /\ Star!FindGoal => at' = "walk"
    BY <1>4, StarPopsOne
  <2>2. /\ heap' \subseteq heap /\ StarSameScores /\ at = "loop"
        /\ p.index \in Star!Vertices /\ p.g_score # StarInfinity
    BY <2>1 DEF StarPopped
  <2>3. /\ Star!Reached' = Star!Reached /\ g_scores' = g_scores /\ from' = from /\ goal' = goal
        /\ \A u \in Star!Vertices : Star!Neighbors(u)' = Star!Neighbors(u)
    BY <2>2, StarSameEdges
  <2>4. at' = "relax" =>
          /\ expanded'.index \in Star!Reached'
          /\ expanded'.g_score = g_scores'[expanded'.index]
          /\ unseen' \subseteq Star!Neighbors(p.index)' /\ expanded' = p
    <3>1. ASSUME Star!Expand
          PROVE  /\ expanded' = p /\ unseen' = Star!Neighbors(p.index)
                 /\ p.g_score = g_scores[p.index] /\ p.index \in Star!Reached
      BY <2>1, <2>2, <3>1 DEF Star!IsCurrent, Star!Reached
    <3> QED
      BY <1>4, <2>1, <2>2, <2>3, <3>1
  <2>5. at' = "relax" => unseen' \subseteq Star!Neighbors(expanded.index)'
    BY <2>4
  <2>6. \A q \in heap' : q.g_score # StarInfinity'
    BY <1>1, <2>2 DEF StarBookkeeping
  <2>7. Star!Running' => from' # goal'
    BY <1>1, <2>2, <2>3 DEF StarBookkeeping, Star!Running
  <2>8. Star!Running'
    BY <1>4, <2>1 DEF Star!Running
  <2> QED
    BY <1>1, <2>4, <2>5, <2>6, <2>7, <2>8 DEF StarBookkeeping
<1>5. ASSUME NEW v \in Star!Vertices, Star!RelaxKeeps(v)
      PROVE  StarBookkeeping'
  <2>1. StarSameScores
    BY <1>5 DEF Star!RelaxKeeps, StarSameScores
  <2>2. Star!Reached' = Star!Reached /\ Star!Edges' = Star!Edges
    BY <2>1, StarSameEdges
  <2> QED
    BY <1>1, <1>5, <2>2
       DEF StarBookkeeping, Star!Running, Star!RelaxKeeps, Star!scores, Star!Neighbors
<1>6. ASSUME NEW v \in Star!Vertices, Star!RelaxImproves(v)
      PROVE  StarBookkeeping'
  <2>1. StarOpened(v)
    BY <1>6, StarImprovesOpens
  <2>2. /\ Star!Neighbors(expanded.index)' = Star!Neighbors(expanded.index)
        /\ expanded' = expanded /\ expanded.index \in Star!Vertices \ {v}
    BY <2>1 DEF StarOpened, Star!Neighbors, Star!Edges, Star!lent, Star!Reached
  <2>3. g_scores'[expanded.index] = g_scores[expanded.index]
    BY <2>1, <2>2 DEF StarOpened
  <2>4. \A p \in heap' : p.g_score # StarInfinity
    BY <1>1, <2>1 DEF StarBookkeeping, StarOpened, Star!Proposal
  <2>5. /\ unseen' \subseteq unseen /\ Star!Running' = Star!Running /\ at = "relax"
           /\ Star!Running
        /\ from' = from /\ goal' = goal /\ Star!Reached \subseteq Star!Reached'
    BY <2>1 DEF StarOpened, Star!Running
  <2> QED
    BY <1>1, <2>2, <2>3, <2>4, <2>5 DEF StarBookkeeping
<1>7. CASE Star!Expanded
  BY <1>1, <1>7 DEF StarBookkeeping, Star!Running, Star!Expanded
<1>8. CASE Star!WalkBack
  BY <1>1, <1>3, <1>8 DEF StarBookkeeping, Star!Running, Star!WalkBack
<1>9. ASSUME NEW c, Star!PutOut(c)
      PROVE  StarBookkeeping'
  BY <1>3, <1>9 DEF Star!PutOut
<1>10. ASSUME UNCHANGED <<heap, unseen, at>>, at = "idle"
       PROVE  StarBookkeeping'
  BY <1>1, <1>10 DEF StarBookkeeping, Star!Running
<1>11. CASE UNCHANGED starVars
  <2>1. Star!Reached' = Star!Reached /\ Star!Edges' = Star!Edges
    BY <1>11 DEF starVars, Star!lent, Star!scores, Star!Reached, Star!Edges
  <2> QED
    BY <1>1, <1>11, <2>1
       DEF StarBookkeeping, Star!Running, starVars, Star!lent, Star!scores, Star!Neighbors
<1> QED
  BY <1>2, <1>3, <1>4, <1>5, <1>6, <1>7, <1>8, <1>9, <1>10, <1>11
     DEF Star!Next, Star!Step, Star!Refuse, Star!SourceIsGoal, Star!Drained, Star!RelaxFails

------------------------------------------------------------------------------
(* Reopening a vertex hangs it from a vertex that is nearer than it was:   *)
(* the tree stays a tree.                                                  *)
LEMMA StarOpenedStaysRooted ==
  ASSUME StarIndInv, NEW v, StarOpened(v)
  PROVE  StarRooted'
<1>1. /\ Star!TypeOK /\ StarTight /\ StarRooted /\ Star!Running
      /\ g_scores \in [Star!Vertices -> 0 .. StarInfinity]
  BY DEF StarIndInv, StarOpened, Star!TypeOK
<1> DEFINE u == expanded.index
<1>2. /\ v # from /\ v # u /\ u \in Star!Reached /\ trail'[v] = u /\ from' = from
      /\ g_scores[u] < g_scores[v]
      /\ \A x \in Star!Vertices \ {v} : trail'[x] = trail[x]
      /\ Star!Reached' = Star!Reached \cup {v}
  <2>1. /\ Star!Candidate(v) < g_scores[v] /\ Star!Candidate(v) >= g_scores[u]
           /\ Star!Candidate(v) \in 0 .. StarInfinity
        /\ u \in Star!Vertices /\ v \in Star!Vertices
    BY DEF StarOpened, Star!Reached
  <2>2. g_scores[u] \in 0 .. StarInfinity /\ g_scores[v] \in 0 .. StarInfinity
    BY <1>1, <2>1
  <2>3. g_scores[u] < g_scores[v]
    BY <2>1, <2>2, StarConstants
  <2> QED
    BY <2>3 DEF StarOpened
<1>3. ASSUME NEW S \in SUBSET (Star!Reached' \ {from}), S # {},
             \A x \in S : trail'[x] \in S
      PROVE  FALSE
  <2>1. ASSUME NEW T \in SUBSET (Star!Reached \ {from}), T # {},
               \A x \in T : trail[x] \in T
        PROVE  FALSE
    BY <1>1, <2>1 DEF StarRooted
  <2>2. v \in S
    <3>1. ASSUME v \notin S PROVE FALSE
      <4>1. S \in SUBSET (Star!Reached \ {from}) /\ \A x \in S : trail'[x] = trail[x]
        BY <1>2, <3>1 DEF Star!Reached
      <4> QED
        BY <1>3, <2>1, <4>1
    <3> QED
      BY <3>1
  <2>3. u \in S
    BY <1>2, <1>3, <2>2
  <2> DEFINE T == {x \in S \ {v} : g_scores[x] <= g_scores[u]}
  <2>4. T \in SUBSET (Star!Reached \ {from}) /\ u \in T
    <3>1. g_scores[u] \in Int
      BY <1>1, <1>2 DEF Star!Reached
    <3> QED
      BY <1>2, <2>3, <3>1
  <2>5. ASSUME NEW x \in T
        PROVE  trail[x] \in T
    <3>1. /\ x \in Star!Reached \ {from} /\ x \in S /\ x # v /\ g_scores[x] <= g_scores[u]
          /\ x \in Star!Vertices
      BY <2>4, <2>5 DEF Star!Reached
    <3>2. trail[x] \in S
      BY <1>2, <1>3, <3>1
    <3>3. /\ <<trail[x], x>> \in Star!Edges /\ trail[x] \in Star!Reached
          /\ g_scores[x] >= g_scores[trail[x]] + borrowed[<<trail[x], x>>]
      BY <1>1, <3>1 DEF StarTight
    <3>4. borrowed[<<trail[x], x>>] \in 0 .. StarInfinity /\ trail[x] \in Star!Vertices
      BY <1>1, <3>3, StarEdgeWeight
    <3>5. /\ g_scores[x] \in 0 .. StarInfinity /\ g_scores[trail[x]] \in 0 .. StarInfinity
          /\ g_scores[u] \in 0 .. StarInfinity
      BY <1>1, <1>2, <3>1, <3>4 DEF Star!Reached
    <3>6. g_scores[trail[x]] <= g_scores[u]
      BY <3>1, <3>3, <3>4, <3>5, StarConstants
    <3>7. trail[x] # v
      BY <1>2, <3>5, <3>6
    <3> QED
      BY <3>2, <3>6, <3>7
  <2> HIDE DEF T
  <2> QED
    BY <2>1, <2>4, <2>5
<1> QED
  BY <1>2, <1>3 DEF StarRooted

LEMMA StarOpenedStaysTight ==
  ASSUME StarIndInv, NEW v, StarOpened(v)
  PROVE  StarTight'
<1>1. /\ Star!TypeOK /\ StarTight /\ Star!Running
         /\ g_scores \in [Star!Vertices -> 0 .. StarInfinity]
  BY DEF StarIndInv, StarOpened, Star!TypeOK
<1> DEFINE u == expanded.index
<1>2. /\ v \in Star!Vertices /\ v # from /\ v # u /\ u \in Star!Reached /\ u \in Star!Vertices
      /\ <<u, v>> \in Star!Edges
      /\ trail'[v] = u /\ from' = from /\ borrowed' = borrowed /\ Star!Edges' = Star!Edges
      /\ g_scores'[v] = g_scores[u] + borrowed[<<u, v>>]
      /\ \A x \in Star!Vertices \ {v} : trail'[x] = trail[x] /\ g_scores'[x] = g_scores[x]
      /\ \A x \in Star!Vertices : g_scores'[x] \in Nat /\ g_scores'[x] <= g_scores[x]
      /\ Star!Reached' = Star!Reached \cup {v}
  BY DEF StarOpened, Star!Reached, Star!Edges, Star!lent
<1>3. g_scores'[from] = 0
  BY <1>1, <1>2 DEF StarTight, Star!TypeOK
<1>4. ASSUME NEW x \in Star!Reached' \ {from}
      PROVE  /\ <<trail'[x], x>> \in Star!Edges /\ trail'[x] \in Star!Reached'
             /\ g_scores'[x] >= g_scores'[trail'[x]] + borrowed[<<trail'[x], x>>]
  <2>1. CASE x = v
    <3>1. g_scores'[u] = g_scores[u] /\ g_scores[u] \in Nat /\ borrowed[<<u, v>>] \in Nat
      <4>1. borrowed[<<u, v>>] \in 0 .. StarInfinity
        BY <1>1, <1>2, StarEdgeWeight
      <4>2. g_scores[u] \in 0 .. StarInfinity /\ u \in Star!Vertices \ {v}
        BY <1>1, <1>2
      <4>3. g_scores'[u] = g_scores[u]
        BY <1>2, <4>2
      <4> QED
        BY <4>1, <4>2, <4>3, StarConstants
    <3> HIDE DEF u
    <3> QED
      BY <1>2, <2>1, <3>1
  <2>2. CASE x # v
    <3> DEFINE y == trail[x]
    <3>1. /\ x \in Star!Reached \ {from} /\ trail'[x] = y /\ g_scores'[x] = g_scores[x]
          /\ x \in Star!Vertices
      BY <1>2, <2>2 DEF Star!Reached
    <3>2. /\ <<y, x>> \in Star!Edges /\ y \in Star!Reached
          /\ g_scores[x] >= g_scores[y] + borrowed[<<y, x>>]
      BY <1>1, <3>1 DEF StarTight
    <3>3. y \in Star!Vertices /\ borrowed[<<y, x>>] \in 0 .. StarInfinity
      BY <1>1, <3>2, StarEdgeWeight
    <3>4. g_scores[x] \in 0 .. StarInfinity /\ g_scores[y] \in 0 .. StarInfinity
      BY <1>1, <3>1, <3>3
    <3> HIDE DEF y
    <3> QED
      BY <1>2, <3>1, <3>2, <3>3, <3>4, StarConstants
  <2> QED
    BY <2>1, <2>2
<1> QED
  BY <1>2, <1>3, <1>4 DEF StarTight

(* Every step keeps the tree. *)
LEMMA StarTreeStep ==
  ASSUME StarIndInv, [Star!Next]_starVars
  PROVE  StarTight' /\ StarRooted'
<1>1. Star!TypeOK /\ StarTight /\ StarRooted
  BY DEF StarIndInv
<1>2. ASSUME NEW s \in Star!Vertices, NEW t, Star!Begin(s, t)
      PROVE  StarTight' /\ StarRooted'
  <2>1. Star!Reached' \subseteq {s} /\ from' = s /\ g_scores'[s] = 0
    BY <1>2, StarConstants DEF Star!Begin, Star!Reached, Star!NoScores
  <2> QED
    BY <2>1 DEF StarTight, StarRooted
<1>3. ASSUME ~Star!Running'
      PROVE  StarTight' /\ StarRooted'
  BY <1>3 DEF StarTight, StarRooted
<1>4. ASSUME StarSameScores, Star!Running
      PROVE  StarTight' /\ StarRooted'
  <2>1. /\ Star!Reached' = Star!Reached /\ Star!Edges' = Star!Edges /\ borrowed' = borrowed
           /\ from' = from
        /\ g_scores' = g_scores /\ trail' = trail
    BY <1>4, StarSameEdges
  <2> QED
    BY <1>1, <1>4, <2>1 DEF StarTight, StarRooted
<1>5. ASSUME NEW v \in Star!Vertices, Star!RelaxImproves(v)
      PROVE  StarTight' /\ StarRooted'
  BY <1>5, StarImprovesOpens, StarOpenedStaysTight, StarOpenedStaysRooted
<1>6. ASSUME NEW r, Star!Return(r)
      PROVE  ~Star!Running'
  BY <1>6 DEF Star!Return, Star!Running
<1>7. CASE Star!Expand \/ Star!DropStale \/ Star!FindGoal
  BY <1>4, <1>7 DEF Star!Expand, Star!DropStale, Star!FindGoal, StarSameScores, Star!Running
<1>8. CASE Star!Expanded \/ \E v \in Star!Vertices : Star!RelaxKeeps(v)
  BY <1>4, <1>8 DEF Star!Expanded, Star!RelaxKeeps, StarSameScores, Star!Running
<1>9. CASE Star!WalkBack
  BY <1>3, <1>4, <1>6, <1>9 DEF Star!WalkBack, StarSameScores, Star!Running
<1>10. CASE Star!Refuse \/ \E s \in Star!Vertices : Star!SourceIsGoal(s)
  BY <1>3, <1>10 DEF Star!Refuse, Star!SourceIsGoal, Star!Running
<1>11. CASE UNCHANGED starVars
  BY <1>3, <1>4, <1>11 DEF starVars, Star!lent, Star!scores, StarSameScores, Star!Running
<1>12. \A r \in StarRequests : r[1] \in Star!Vertices
  BY StarConstants
<1> QED
  BY <1>2, <1>3, <1>5, <1>6, <1>7, <1>8, <1>9, <1>10, <1>11, <1>12
     DEF Star!Next, Star!Step, Star!Drained, Star!RelaxFails, Star!PutOut

------------------------------------------------------------------------------
(* A step that leaves the scores alone keeps what was carried.             *)
LEMMA StarCarriedStays ==
  ASSUME StarSameScores, NEW u \in Star!Vertices, NEW x,
         g_scores[x] <= g_scores[u] + borrowed[<<u, x>>]
  PROVE  Star!Carried(u, x)'
BY StarSameEdges DEF Star!Carried

(* Every step keeps the account of the scores. *)
LEMMA StarScoresStep ==
  ASSUME StarIndInv, [Star!Next]_starVars
  PROVE  Star!ScoresWaitOrCarried'
<1>1. Star!TypeOK /\ StarBookkeeping /\ Star!ScoresWaitOrCarried
  BY DEF StarIndInv
<1>2. ASSUME NEW s \in Star!Vertices, NEW t, Star!Begin(s, t)
      PROVE  Star!ScoresWaitOrCarried'
  <2>1. /\ heap' = {Star!Proposal(s, 0)} /\ estimate' = estimate
        /\ g_scores' = [x \in Star!Vertices |-> IF x = s THEN 0 ELSE StarInfinity]
    BY <1>2 DEF Star!Begin, Star!NoScores, Star!lent
  <2>2. Star!Reached' \subseteq {s} /\ g_scores'[s] = 0
    BY <2>1 DEF Star!Reached
  <2>3. Star!Proposal(s, 0)' = Star!Proposal(s, 0)
    BY <2>1 DEF Star!Proposal
  <2>4. \A p \in heap' : p = Star!Proposal(p.index, p.g_score)' /\ p.g_score >= g_scores'[p.index]
    <3>1. Star!Proposal(s, 0).index = s /\ Star!Proposal(s, 0).g_score = 0
      BY DEF Star!Proposal
    <3> QED
      BY <2>1, <2>2, <2>3, <3>1
  <2>5. \A v \in Star!Reached' : Star!Proposal(v, g_scores[v])' \in heap'
    BY <2>1, <2>2, <2>3
  <2> QED
    BY <2>4, <2>5 DEF Star!ScoresWaitOrCarried
<1>3. ASSUME at' \in {"idle", "walk"}
      PROVE  Star!ScoresWaitOrCarried'
  BY <1>3 DEF Star!ScoresWaitOrCarried
<1>4. ASSUME StarSameScores, at \in {"loop", "relax"}, heap' \subseteq heap,
             \A v \in Star!Reached :
               \/ Star!Proposal(v, g_scores[v]) \in heap'
               \/ \A x \in Star!Neighbors(v) : Star!Carried(v, x)'
      PROVE  Star!ScoresWaitOrCarried'
  <2>1. /\ Star!Reached' = Star!Reached /\ g_scores' = g_scores /\ estimate' = estimate
        /\ \A u \in Star!Vertices : Star!Neighbors(u)' = Star!Neighbors(u)
    BY <1>4, StarSameEdges
  <2>2. \A x : \A g : Star!Proposal(x, g)' = Star!Proposal(x, g)
    BY <2>1 DEF Star!Proposal
  <2>3. \A p \in heap' : p = Star!Proposal(p.index, p.g_score)' /\ p.g_score >= g_scores'[p.index]
    BY <1>1, <1>4, <2>1, <2>2 DEF Star!ScoresWaitOrCarried
  <2>4. ASSUME NEW v \in Star!Reached'
        PROVE  \/ Star!Proposal(v, g_scores[v])' \in heap'
               \/ \A x \in Star!Neighbors(v)' : Star!Carried(v, x)'
    <3>1. v \in Star!Vertices /\ v \in Star!Reached /\ Star!Neighbors(v)' = Star!Neighbors(v)
      BY <2>1, <2>4 DEF Star!Reached
    <3>2. Star!Proposal(v, g_scores[v])' = Star!Proposal(v, g_scores[v])
      BY <2>1 DEF Star!Proposal
    <3> QED
      BY <1>4, <3>1, <3>2
  <2> QED
    BY <2>3, <2>4 DEF Star!ScoresWaitOrCarried
<1>5. CASE Star!Expand
  <2>1. PICK p \in heap : StarPopped(p) /\ expanded' = p /\ unseen' = Star!Neighbors(p.index)
        /\ at' = "relax"
    BY <1>5, StarPopsOne
  <2>2. StarSameScores /\ at = "loop" /\ heap' = heap \ {p}
    BY <2>1 DEF StarPopped
  <2>3. ASSUME NEW v \in Star!Reached
        PROVE  \/ Star!Proposal(v, g_scores[v]) \in heap'
               \/ \A x \in Star!Neighbors(v) : Star!Carried(v, x)'
    <3>1. v \in Star!Vertices
      BY DEF Star!Reached
    <3>2. CASE v = p.index
      <4>1. \A x \in Star!Neighbors(v) : x \in unseen' /\ expanded'.index = v
        BY <2>1, <3>2
      <4> QED
        BY <2>1, <4>1 DEF Star!Carried
    <3>3. CASE v # p.index
      <4>1. Star!Proposal(v, g_scores[v]) # p
        BY <3>3 DEF Star!Proposal
      <4>2. CASE Star!Proposal(v, g_scores[v]) \in heap
        BY <2>2, <4>1, <4>2
      <4>3. CASE \A x \in Star!Neighbors(v) : Star!Carried(v, x)
        <5>1. \A x \in Star!Neighbors(v) : g_scores[x] <= g_scores[v] + borrowed[<<v, x>>]
          BY <2>2, <4>3 DEF Star!Carried
        <5> QED
          BY <2>2, <3>1, <5>1, StarCarriedStays
      <4> QED
        BY <1>1, <2>2, <4>2, <4>3 DEF Star!ScoresWaitOrCarried
    <3> QED
      BY <3>2, <3>3
  <2> QED
    BY <1>4, <2>2, <2>3
<1>6. CASE Star!DropStale
  <2>1. PICK p \in heap : StarPopped(p) /\ ~Star!IsCurrent(p) /\ at' = "loop"
    BY <1>6, StarPopsOne
  <2>2. StarSameScores /\ at = "loop" /\ heap' = heap \ {p}
    BY <2>1 DEF StarPopped
  <2>3. ASSUME NEW v \in Star!Reached
        PROVE  \/ Star!Proposal(v, g_scores[v]) \in heap'
               \/ \A x \in Star!Neighbors(v) : Star!Carried(v, x)'
    <3>1. v \in Star!Vertices
      BY DEF Star!Reached
    <3>2. Star!Proposal(v, g_scores[v]) # p
      BY <2>1 DEF Star!Proposal, Star!IsCurrent
    <3>3. CASE Star!Proposal(v, g_scores[v]) \in heap
      BY <2>2, <3>2, <3>3
    <3>4. CASE \A x \in Star!Neighbors(v) : Star!Carried(v, x)
      <4>1. \A x \in Star!Neighbors(v) : g_scores[x] <= g_scores[v] + borrowed[<<v, x>>]
        BY <2>2, <3>4 DEF Star!Carried
      <4> QED
        BY <2>2, <3>1, <4>1, StarCarriedStays
    <3> QED
      BY <1>1, <2>2, <3>3, <3>4 DEF Star!ScoresWaitOrCarried
  <2> QED
    BY <1>4, <2>2, <2>3
<1>7. ASSUME NEW y \in Star!Vertices, Star!RelaxKeeps(y)
      PROVE  Star!ScoresWaitOrCarried'
  <2>1. /\ StarSameScores /\ at = "relax" /\ at' = "relax" /\ heap' = heap
        /\ y \in unseen /\ unseen' = unseen \ {y} /\ expanded' = expanded
        /\ ~Star!GOverflows(y) /\ ~Star!Improves(y)
    BY <1>7 DEF Star!RelaxKeeps, StarSameScores
  <2>2. /\ y \in Star!Neighbors(expanded.index) /\ expanded.g_score = g_scores[expanded.index]
    BY <1>1, <2>1 DEF StarBookkeeping
  <2>3. g_scores[y] <= g_scores[expanded.index] + borrowed[<<expanded.index, y>>]
    BY <1>1, <2>1, <2>2, StarKeepsMeans
  <2>4. ASSUME NEW v \in Star!Reached, NEW x, Star!Carried(v, x)
        PROVE  Star!Carried(v, x)'
    <3>1. v \in Star!Vertices
      BY DEF Star!Reached
    <3>2. CASE g_scores[x] <= g_scores[v] + borrowed[<<v, x>>]
      BY <2>1, <3>1, <3>2, StarCarriedStays
    <3>3. CASE expanded.index = v /\ x \in unseen /\ x # y
      BY <2>1, <3>3 DEF Star!Carried
    <3>4. CASE expanded.index = v /\ x = y
      BY <2>1, <2>3, <3>1, <3>4, StarCarriedStays
    <3> QED
      BY <2>4, <3>2, <3>3, <3>4 DEF Star!Carried
  <2> QED
    BY <1>1, <1>4, <2>1, <2>4 DEF Star!ScoresWaitOrCarried
<1>8. ASSUME NEW y \in Star!Vertices, Star!RelaxImproves(y)
      PROVE  Star!ScoresWaitOrCarried'
  <2>1. StarOpened(y)
    BY <1>8, StarImprovesOpens
  <2> DEFINE u == expanded.index
             cand == Star!Candidate(y)
  <2>2. /\ u \in Star!Vertices \ {y} /\ u \in Star!Reached /\ y \in unseen
           /\ unseen' = unseen \ {y}
        /\ g_scores'[y] = cand /\ cand = g_scores[u] + borrowed[<<u, y>>]
        /\ \A x \in Star!Vertices \ {y} : g_scores'[x] = g_scores[x]
        /\ \A x \in Star!Vertices : g_scores'[x] \in Nat /\ g_scores'[x] <= g_scores[x]
        /\ Star!Reached' = Star!Reached \cup {y}
        /\ heap' = heap \cup {Star!Proposal(y, cand)}
        /\ expanded' = expanded /\ at = "relax" /\ at' = "relax"
        /\ borrowed' = borrowed /\ estimate' = estimate /\ Star!Edges' = Star!Edges
    BY <2>1 DEF StarOpened, Star!Reached, Star!lent, Star!Edges
  <2> HIDE DEF cand, u
  <2>3. \A x : \A g : Star!Proposal(x, g)' = Star!Proposal(x, g)
    BY <2>2 DEF Star!Proposal
  <2>4. ASSUME NEW p \in heap'
        PROVE  p = Star!Proposal(p.index, p.g_score)' /\ p.g_score >= g_scores'[p.index]
    <3>1. CASE p \in heap
      <4>1. /\ p = Star!Proposal(p.index, p.g_score) /\ p.g_score >= g_scores[p.index]
            /\ p.index \in Star!Vertices /\ p.g_score \in 0 .. StarInfinity
            /\ g_scores[p.index] \in 0 .. StarInfinity
        BY <1>1, <2>2, <3>1 DEF Star!ScoresWaitOrCarried, Star!TypeOK, Star!Proposals
      <4>2. g_scores'[p.index] \in Nat /\ g_scores'[p.index] <= g_scores[p.index]
        BY <2>2, <4>1
      <4> QED
        BY <2>2, <4>1, <4>2, StarConstants DEF Star!Proposal
    <3>2. CASE p = Star!Proposal(y, cand)
      <4>1. p.index = y /\ p.g_score = cand
        BY <3>2 DEF Star!Proposal
      <4>2. cand \in Nat
        BY <2>2
      <4> QED
        BY <2>2, <3>2, <4>1, <4>2 DEF Star!Proposal
    <3> QED
      BY <2>2, <3>1, <3>2
  <2>5. ASSUME NEW v \in Star!Reached'
        PROVE  \/ Star!Proposal(v, g_scores[v])' \in heap'
               \/ \A x \in Star!Neighbors(v)' : Star!Carried(v, x)'
    <3>1. CASE v = y
      <4>1. Star!Proposal(v, g_scores[v])' = Star!Proposal(y, cand)
        BY <2>2, <3>1 DEF Star!Proposal
      <4> QED
        BY <2>2, <4>1
    <3>2. CASE v # y
      <4>1. v \in Star!Vertices \ {y} /\ v \in Star!Reached /\ g_scores'[v] = g_scores[v]
        BY <2>2, <2>5, <3>2 DEF Star!Reached
      <4>2. Star!Neighbors(v)' = Star!Neighbors(v)
        BY <2>2 DEF Star!Neighbors
      <4>3. CASE Star!Proposal(v, g_scores[v]) \in heap
        <5>1. Star!Proposal(v, g_scores[v])' = Star!Proposal(v, g_scores[v])
          BY <2>2, <4>1 DEF Star!Proposal
        <5> QED
          BY <2>2, <4>3, <5>1
      <4>4. ASSUME NEW x \in Star!Neighbors(v), Star!Carried(v, x)
            PROVE  Star!Carried(v, x)'
        <5>1. x \in Star!Vertices /\ borrowed[<<v, x>>] \in 0 .. StarInfinity
          BY <1>1, StarEdgeWeight, StarNeighborEdge
        <5>2. g_scores[v] \in 0 .. StarInfinity /\ g_scores[x] \in 0 .. StarInfinity
          BY <1>1, <4>1, <5>1 DEF Star!TypeOK
        <5>3. g_scores'[x] \in Nat /\ g_scores'[x] <= g_scores[x]
          BY <2>2, <5>1
        <5>4. CASE g_scores[x] <= g_scores[v] + borrowed[<<v, x>>]
          <6>1. g_scores'[x] <= g_scores'[v] + borrowed'[<<v, x>>]
            BY <2>2, <4>1, <5>1, <5>2, <5>3, <5>4, StarConstants
          <6> QED
            BY <6>1 DEF Star!Carried
        <5>5. CASE u = v /\ x \in unseen /\ x # y
          BY <2>2, <5>5 DEF Star!Carried, u
        <5>6. CASE u = v /\ x = y
          <6>1. g_scores'[x] = g_scores'[v] + borrowed'[<<v, x>>]
            BY <2>2, <4>1, <5>6
          <6>2. g_scores'[x] <= g_scores'[v] + borrowed'[<<v, x>>]
            BY <5>3, <6>1
          <6> QED
            BY <6>2 DEF Star!Carried
        <5> QED
          BY <4>4, <5>4, <5>5, <5>6 DEF Star!Carried, u
      <4> QED
        BY <1>1, <2>2, <4>1, <4>2, <4>3, <4>4 DEF Star!ScoresWaitOrCarried
    <3> QED
      BY <3>1, <3>2
  <2> QED
    BY <2>4, <2>5 DEF Star!ScoresWaitOrCarried
<1>9. CASE Star!Expanded
  <2>1. /\ StarSameScores /\ at = "relax" /\ heap' = heap /\ unseen = {}
    BY <1>9 DEF Star!Expanded, StarSameScores
  <2>2. ASSUME NEW v \in Star!Reached, NEW x, Star!Carried(v, x)
        PROVE  Star!Carried(v, x)'
    <3>1. v \in Star!Vertices /\ g_scores[x] <= g_scores[v] + borrowed[<<v, x>>]
      BY <2>1, <2>2 DEF Star!Reached, Star!Carried
    <3> QED
      BY <2>1, <3>1, StarCarriedStays
  <2> QED
    BY <1>1, <1>4, <2>1, <2>2 DEF Star!ScoresWaitOrCarried
<1>10. ASSUME NEW r, Star!Return(r)
      PROVE  Star!ScoresWaitOrCarried'
  BY <1>3, <1>10 DEF Star!Return
<1>11. CASE Star!WalkBack
  BY <1>3, <1>10, <1>11 DEF Star!WalkBack
<1>12. CASE Star!FindGoal \/ Star!Refuse \/ \E s \in Star!Vertices : Star!SourceIsGoal(s)
  BY <1>3, <1>12 DEF Star!FindGoal, Star!Refuse, Star!SourceIsGoal
<1>13. CASE UNCHANGED starVars
  <2>1. StarSameScores /\ heap' = heap /\ at' = at /\ expanded' = expanded /\ unseen' = unseen
    BY <1>13 DEF starVars, Star!lent, Star!scores, StarSameScores
  <2>2. ASSUME NEW v \in Star!Reached, NEW x, Star!Carried(v, x)
        PROVE  Star!Carried(v, x)'
    BY <2>1, <2>2, StarSameEdges DEF Star!Carried
  <2>3. CASE at \in {"loop", "relax"}
    BY <1>1, <1>4, <2>1, <2>2, <2>3 DEF Star!ScoresWaitOrCarried
  <2>4. CASE at \notin {"loop", "relax"}
    BY <2>1, <2>4 DEF Star!ScoresWaitOrCarried
  <2> QED
    BY <2>3, <2>4
<1>14. \A r \in StarRequests : r[1] \in Star!Vertices
  BY StarConstants
<1> QED
  BY <1>2, <1>5, <1>6, <1>7, <1>8, <1>9, <1>10, <1>11, <1>12, <1>13, <1>14
     DEF Star!Next, Star!Step, Star!Drained, Star!RelaxFails, Star!PutOut

(* A goal that was reached waits until it comes up. *)
LEMMA StarGoalWaitsStep ==
  ASSUME StarIndInv, [Star!Next]_starVars
  PROVE  StarGoalWaits'
<1>1. Star!TypeOK /\ StarBookkeeping /\ StarGoalWaits /\ goal \in Star!Vertices
  BY DEF StarIndInv, Star!TypeOK
<1>2. ASSUME NEW s, NEW t \in Star!Vertices, Star!Begin(s, t)
      PROVE  StarGoalWaits'
  <2>1. g_scores' = [Star!NoScores EXCEPT ![s] = 0] /\ goal' = t /\ t # s
    BY <1>2 DEF Star!Begin
  <2>2. g_scores'[t] = StarInfinity
    BY <2>1 DEF Star!NoScores
  <2> QED
    BY <2>1, <2>2 DEF StarGoalWaits, Star!Reached
<1>3. ASSUME at' \in {"idle", "walk"}
      PROVE  StarGoalWaits'
  BY <1>3 DEF StarGoalWaits
<1>4. ASSUME StarSameScores, at \in {"loop", "relax"},
             goal \in Star!Reached => Star!Proposal(goal, g_scores[goal]) \in heap'
      PROVE  StarGoalWaits'
  <2>1. Star!Reached' = Star!Reached /\ g_scores' = g_scores /\ estimate' = estimate
        /\ goal' = goal
    BY <1>4, StarSameEdges
  <2>2. Star!Proposal(goal, g_scores[goal])' = Star!Proposal(goal, g_scores[goal])
    BY <2>1 DEF Star!Proposal
  <2> QED
    BY <1>4, <2>1, <2>2 DEF StarGoalWaits
<1>5. CASE Star!Expand \/ Star!DropStale
  <2>1. PICK p \in heap :
          /\ StarPopped(p)
          /\ Star!Expand => p.index # goal
          /\ Star!DropStale => ~Star!IsCurrent(p)
    BY <1>5, StarPopsOne
  <2>2. StarSameScores /\ at = "loop" /\ heap' = heap \ {p}
    BY <2>1 DEF StarPopped
  <2>3. Star!Proposal(goal, g_scores[goal]) # p
    BY <1>5, <2>1 DEF Star!Proposal, Star!IsCurrent
  <2> QED
    BY <1>1, <1>4, <2>2, <2>3 DEF StarGoalWaits
<1>6. CASE Star!Expanded \/ \E v \in Star!Vertices : Star!RelaxKeeps(v)
  <2>1. StarSameScores /\ heap' = heap /\ at = "relax"
    BY <1>6 DEF Star!Expanded, Star!RelaxKeeps, StarSameScores
  <2> QED
    BY <1>1, <1>4, <2>1 DEF StarGoalWaits
<1>7. ASSUME NEW y \in Star!Vertices, Star!RelaxImproves(y)
      PROVE  StarGoalWaits'
  <2> DEFINE cand == Star!Candidate(y)
  <2>1. /\ g_scores'[y] = cand
        /\ \A x \in Star!Vertices \ {y} : g_scores'[x] = g_scores[x]
        /\ Star!Reached' = Star!Reached \cup {y} /\ goal' = goal
        /\ heap' = heap \cup {Star!Proposal(y, cand)}
        /\ at = "relax" /\ estimate' = estimate
    BY <1>7, StarImprovesOpens DEF StarOpened, Star!lent
  <2> HIDE DEF cand
  <2>2. Star!Proposal(goal, g_scores[goal])' = Star!Proposal(goal, g_scores'[goal])
    BY <2>1 DEF Star!Proposal
  <2>3. CASE goal = y
    BY <2>1, <2>2, <2>3 DEF StarGoalWaits
  <2>4. CASE goal # y
    <3>1. g_scores'[goal] = g_scores[goal]
      BY <1>1, <2>1, <2>4
    <3> QED
      BY <1>1, <2>1, <2>2, <2>4, <3>1 DEF StarGoalWaits
  <2> QED
    BY <2>3, <2>4
<1>8. ASSUME NEW r, Star!Return(r)
      PROVE  StarGoalWaits'
  BY <1>3, <1>8 DEF Star!Return
<1>9. CASE Star!WalkBack
  BY <1>3, <1>8, <1>9 DEF Star!WalkBack
<1>10. CASE Star!FindGoal \/ Star!Refuse \/ \E s \in Star!Vertices : Star!SourceIsGoal(s)
  BY <1>3, <1>10 DEF Star!FindGoal, Star!Refuse, Star!SourceIsGoal
<1>11. CASE UNCHANGED starVars
  BY <1>1, <1>11 DEF starVars, Star!lent, Star!scores, StarGoalWaits, Star!Reached, Star!Proposal
<1>12. \A r \in StarRequests : r[2] \in Star!Vertices
  BY StarConstants
<1> QED
  BY <1>2, <1>5, <1>6, <1>7, <1>8, <1>9, <1>10, <1>11, <1>12
     DEF Star!Next, Star!Step, Star!Drained, Star!RelaxFails, Star!PutOut

------------------------------------------------------------------------------
(* Whoever climbs from parent to parent meets no vertex twice, and has met *)
(* the source before as many vertices as there are.                        *)
LEMMA StarClimb ==
  ASSUME Star!TypeOK, Star!Running, StarRooted, NEW n \in Nat,
         NEW c \in [0 .. n -> Star!Reached \ {from}],
         \A m \in 1 .. n : c[m] = trail[c[m - 1]]
  PROVE  /\ \A i, j \in 0 .. n : i # j => c[i] # c[j]
         /\ n + 2 <= StarVertexCount
<1>1. ASSUME NEW i \in 0 .. n, NEW j \in 0 .. n, i < j, c[i] = c[j]
      PROVE  FALSE
  <2> DEFINE S == {x \in Star!Reached \ {from} : \E m \in i .. j - 1 : x = c[m]}
  <2>1. i \in i .. j - 1
    BY <1>1
  <2>2. c[i] \in S
    BY <2>1
  <2>3. ASSUME NEW x \in S
        PROVE  trail[x] \in S
    <3>1. PICK m \in i .. j - 1 : x = c[m]
      OBVIOUS
    <3>2. m + 1 \in 1 .. n /\ (m + 1) - 1 = m /\ m + 1 \in 0 .. n
      BY <1>1
    <3>3. trail[x] = c[m + 1] /\ c[m + 1] \in Star!Reached \ {from}
      BY <3>1, <3>2, SMTT(30)
    <3>4. CASE m + 1 \in i .. j - 1
      BY <3>3, <3>4
    <3>5. CASE m + 1 = j
      BY <1>1, <2>2, <3>3, <3>5
    <3>6. m + 1 \in i .. j - 1 \/ m + 1 = j
      BY <1>1
    <3> QED
      BY <3>4, <3>5, <3>6
  <2>4. S \in SUBSET (Star!Reached \ {from})
    OBVIOUS
  <2> HIDE DEF S
  <2> QED
    BY <2>2, <2>3, <2>4 DEF StarRooted
<1>2. \A i, j \in 0 .. n : i # j => c[i] # c[j]
  <2> SUFFICES ASSUME NEW i \in 0 .. n, NEW j \in 0 .. n, i # j, c[i] = c[j]
               PROVE  FALSE
    OBVIOUS
  <2>1. i < j \/ j < i
    OBVIOUS
  <2> QED
    BY <1>1, <2>1
<1>3. n + 2 <= StarVertexCount
  <2> DEFINE T == Star!Vertices \ {from}
  <2>1. c \in Injection(0 .. n, T)
    BY <1>2 DEF Injection, IsInjective, Star!Reached
  <2>2. IsFiniteSet(Star!Vertices) /\ Star!Cardinality(Star!Vertices) = StarVertexCount
    <3>1. 0 \in Int /\ StarVertexCount - 1 \in Int /\ StarVertexCount \in Nat
          /\ StarVertexCount >= 1
      BY StarConstants
    <3> QED
      BY <3>1, FS_Interval, StarCardinality DEF Star!Vertices
  <2>3. from \in Star!Vertices
    BY DEF Star!TypeOK
  <2>4. IsFiniteSet(T) /\ Star!Cardinality(T) = StarVertexCount - 1
    BY <2>2, <2>3, FS_RemoveElement, StarCardinality
  <2>5. Star!Cardinality(0 .. n) = n + 1
    BY FS_Interval, StarCardinality
  <2> HIDE DEF T
  <2>6. Star!Cardinality(0 .. n) <= Star!Cardinality(T)
    BY <2>1, <2>4, FS_Injection, StarCardinality
  <2> QED
    BY <2>4, <2>5, <2>6, StarConstants
<1> QED
  BY <1>2, <1>3

(* The vertices of the walk differ, and until it has met the source there  *)
(* is room for one more.                                                   *)
LEMMA StarWalkClimbs ==
  ASSUME StarIndInv, at = "walk"
  PROVE  /\ \A i, j \in 1 .. Len(path) : i # j => path[i] # path[j]
         /\ path[1] = from \/ Len(path) < StarVertexCount
<1>1. /\ Star!TypeOK /\ Star!Running /\ StarRooted
      /\ path \in Seq(Star!Vertices) /\ Len(path) \in 1 .. StarVertexCount
      /\ \A i \in 1 .. Len(path) : path[i] \in Star!Reached
      /\ \A i \in 2 .. Len(path) : path[i] # from
      /\ \A i \in 1 .. Len(path) - 1 : path[i] = trail[path[i + 1]]
  BY DEF StarIndInv, Star!Running, StarWalkFollows, Star!TypeOK
<1> DEFINE L == Len(path)
<1>2. L \in Nat /\ L >= 1 /\ StarVertexCount \in Nat
  BY <1>1, StarConstants
<1>3. ASSUME NEW low \in 1 .. L, path[low] # from
      PROVE  /\ \A i, j \in low .. L : i # j => path[i] # path[j]
             /\ L - low + 2 <= StarVertexCount
  <2> DEFINE n == L - low
             c == [m \in 0 .. n |-> path[L - m]]
  <2>1. n \in Nat /\ \A m \in 0 .. n : L - m \in low .. L /\ c[m] = path[L - m]
    BY <1>2
  <2>2. c \in [0 .. n -> Star!Reached \ {from}]
    <3>1. ASSUME NEW k \in low .. L PROVE path[k] \in Star!Reached \ {from}
      <4>1. k \in 1 .. L /\ (k = low \/ k \in 2 .. L)
        BY <1>2
      <4> QED
        BY <1>1, <1>3, <4>1
    <3> QED
      BY <2>1, <3>1
  <2>3. \A m \in 1 .. n : c[m] = trail[c[m - 1]]
    <3> TAKE m \in 1 .. n
    <3>1. /\ m \in 0 .. n /\ m - 1 \in 0 .. n /\ L - m \in 1 .. L - 1
          /\ L - (m - 1) = (L - m) + 1
      BY <1>2, <2>1
    <3>2. c[m] = path[L - m] /\ c[m - 1] = path[(L - m) + 1]
      BY <2>1, <3>1
    <3> QED
      BY <1>1, <3>1, <3>2
  <2> HIDE DEF c, n
  <2>4. /\ \A i, j \in 0 .. n : i # j => c[i] # c[j]
        /\ n + 2 <= StarVertexCount
    BY <1>1, <2>1, <2>2, <2>3, StarClimb
  <2>5. ASSUME NEW i \in low .. L, NEW j \in low .. L, i # j
        PROVE  path[i] # path[j]
    <3>1. L - i \in 0 .. n /\ L - j \in 0 .. n /\ L - i # L - j /\ L - (L - i) = i
          /\ L - (L - j) = j
      BY <1>2, <2>5 DEF n
    <3>2. c[L - i] = path[i] /\ c[L - j] = path[j]
      BY <2>1, <3>1
    <3> QED
      BY <2>4, <3>1, <3>2
  <2> QED
    BY <2>4, <2>5 DEF n
<1>4. CASE path[1] # from
  <2>1. 1 \in 1 .. L
    BY <1>2
  <2> HIDE DEF L
  <2>2. (\A i, j \in 1 .. L : i # j => path[i] # path[j]) /\ L - 1 + 2 <= StarVertexCount
    BY <1>3, <1>4, <2>1
  <2> QED
    BY <1>2, <2>2 DEF L
<1>5. CASE path[1] = from
  <2>1. ASSUME NEW i \in 1 .. L, NEW j \in 1 .. L, i < j, path[i] = path[j]
        PROVE  FALSE
    <3>1. i # 1
      BY <1>1, <1>5, <2>1
    <3>2. i \in 2 .. L /\ i \in i .. L /\ j \in i .. L
      BY <1>2, <2>1, <3>1
    <3>3. path[i] # from
      BY <1>1, <3>2
    <3> HIDE DEF L
    <3> QED
      BY <1>3, <2>1, <3>2, <3>3
  <2>2. \A i, j \in 1 .. L : i # j => i < j \/ j < i
    BY <1>2
  <2> HIDE DEF L
  <2>3. \A i, j \in 1 .. L : i # j => path[i] # path[j]
    BY <2>1, <2>2
  <2> QED
    BY <1>5, <2>3 DEF L
<1> QED
  BY <1>4, <1>5

(* So the walk never loses track. *)
LEMMA StarNeverLost ==
  ASSUME StarIndInv, at = "walk"
  PROVE  /\ Head(path) = path[1]
         /\ Head(path) = from \/ ~Star!LostTrack
<1>1. /\ path \in Seq(Star!Vertices) /\ Len(path) \in 1 .. StarVertexCount
      /\ path[1] \in Star!Reached
  BY DEF StarIndInv, Star!Running, StarWalkFollows, Star!TypeOK
<1>2. Head(path) = path[1]
  BY <1>1
<1>3. path[1] # from => trail[path[1]] \in Star!Reached
  BY <1>1 DEF StarIndInv, StarTight, Star!Running
<1>4. path[1] # from => trail[path[1]] # NoParent
  BY <1>3, StarConstants DEF Star!Reached
<1>5. path[1] # from => Len(path) # StarVertexCount
  BY <1>1, StarWalkClimbs, StarConstants
<1> QED
  BY <1>2, <1>4, <1>5 DEF Star!LostTrack

(* Every step keeps the walk on the parents. *)
LEMMA StarWalkStep ==
  ASSUME StarIndInv, [Star!Next]_starVars
  PROVE  StarWalkFollows'
<1>1. Star!TypeOK /\ StarBookkeeping /\ StarWalkFollows
  BY DEF StarIndInv
<1>2. ASSUME at' # "walk"
      PROVE  StarWalkFollows'
  BY <1>2 DEF StarWalkFollows
<1>3. CASE Star!FindGoal
  <2>1. PICK p \in heap :
          StarPopped(p) /\ Star!IsCurrent(p) /\ p.index = goal /\ at' = "walk" /\ path' = <<goal>>
    BY <1>3, StarPopsOne
  <2>2. StarSameScores /\ goal \in Star!Vertices /\ goal \in Star!Reached /\ from # goal
    BY <1>1, <2>1
       DEF StarPopped, Star!IsCurrent, Star!Reached, Star!TypeOK, StarBookkeeping, Star!Running
  <2>3. Star!Reached' = Star!Reached /\ goal' = goal /\ from' = from
    BY <2>2, StarSameEdges
  <2>4. Len(path') = 1 /\ path'[1] = goal
    BY <2>1
  <2>5. Len(path') \in 1 .. StarVertexCount
    BY <2>4, StarConstants
  <2>6. /\ \A i \in 1 .. Len(path') : i = 1
        /\ \A i \in 2 .. Len(path') : FALSE
        /\ \A i \in 1 .. Len(path') - 1 : FALSE
    BY <2>4
  <2> QED
    BY <2>2, <2>3, <2>4, <2>5, <2>6 DEF StarWalkFollows
<1>4. CASE Star!WalkBack
  <2>1. at = "walk" /\ Head(path) # from
    BY <1>4 DEF Star!WalkBack
  <2>2. ~Star!LostTrack
    BY <2>1, StarNeverLost
  <2> DEFINE y == trail[path[1]]
  <2>3. /\ Len(path) \in 1 .. StarVertexCount - 1 /\ path \in Seq(Star!Vertices)
        /\ path[1] # from /\ y \in Star!Reached /\ y \in Star!Vertices
        /\ path' = <<y>> \o path
        /\ StarSameScores
    BY <1>4, <2>2, StarWalksToParent
  <2>4. Star!Reached' = Star!Reached /\ goal' = goal /\ from' = from /\ trail' = trail
    BY <2>3, StarSameEdges
  <2>5. /\ path[Len(path)] = goal
        /\ \A i \in 1 .. Len(path) : path[i] \in Star!Reached
        /\ \A i \in 2 .. Len(path) : path[i] # from
        /\ \A i \in 1 .. Len(path) - 1 : path[i] = trail[path[i + 1]]
    BY <1>1, <2>1 DEF StarWalkFollows
  <2> DEFINE L == Len(path)
  <2>6. L \in Nat /\ L >= 1 /\ StarVertexCount \in Nat /\ L + 1 \in 1 .. StarVertexCount
    BY <2>3, StarConstants
  <2>7. Len(path') = L + 1 /\ path'[1] = y /\ \A i \in 2 .. L + 1 : path'[i] = path[i - 1]
    <3> HIDE DEF y
    <3> QED
      BY <2>3
  <2> HIDE DEF L
  <2>8. path'[L + 1] = goal
    <3>1. L + 1 \in 2 .. L + 1 /\ (L + 1) - 1 = L
      BY <2>6
    <3> QED
      BY <2>5, <2>7, <3>1 DEF L
  <2>9. \A i \in 1 .. L + 1 : path'[i] \in Star!Reached
    <3> TAKE i \in 1 .. L + 1
    <3>1. i = 1 \/ (i \in 2 .. L + 1 /\ i - 1 \in 1 .. L)
      BY <2>6
    <3> QED
      BY <2>3, <2>5, <2>7, <3>1 DEF L
  <2>10. \A i \in 2 .. L + 1 : path'[i] # from
    <3> TAKE i \in 2 .. L + 1
    <3>1. i - 1 = 1 \/ i - 1 \in 2 .. L
      BY <2>6
    <3> QED
      BY <2>3, <2>5, <2>7, <3>1 DEF L
  <2>11. \A i \in 1 .. L : path'[i] = trail[path'[i + 1]]
    <3> TAKE i \in 1 .. L
    <3>1. i + 1 \in 2 .. L + 1 /\ (i + 1) - 1 = i
      BY <2>6
    <3>2. path'[i + 1] = path[i]
      BY <2>7, <3>1
    <3>3. CASE i = 1
      BY <2>7, <3>2, <3>3
    <3>4. CASE i # 1
      <4>1. i \in 2 .. L + 1 /\ i - 1 \in 1 .. L - 1 /\ (i - 1) + 1 = i
        BY <2>6, <3>4
      <4>2. path'[i] = path[i - 1] /\ path[i - 1] = trail[path[(i - 1) + 1]]
        BY <2>5, <2>7, <4>1 DEF L
      <4> QED
        BY <3>2, <4>1, <4>2
    <3> QED
      BY <3>3, <3>4
  <2>12. (L + 1) - 1 = L
    BY <2>6
  <2> QED
    BY <2>4, <2>6, <2>7, <2>8, <2>9, <2>10, <2>11, <2>12 DEF StarWalkFollows
<1>5. CASE UNCHANGED starVars
  BY <1>1, <1>5 DEF starVars, Star!lent, Star!scores, StarWalkFollows, Star!Reached
<1>6. CASE Star!Expand \/ Star!DropStale
  BY <1>2, <1>6 DEF Star!Expand, Star!DropStale
<1>7. CASE Star!Expanded \/ \E v \in Star!Vertices : Star!RelaxKeeps(v) \/ Star!RelaxImproves(v)
  BY <1>2, <1>7 DEF Star!Expanded, Star!RelaxKeeps, Star!RelaxImproves
<1>8. CASE Star!Refuse \/ (\E s \in Star!Vertices : Star!SourceIsGoal(s))
           \/ \E r \in StarRequests : Star!Begin(r[1], r[2])
  BY <1>2, <1>8 DEF Star!Refuse, Star!SourceIsGoal, Star!Begin
<1>9. ASSUME NEW r, Star!Return(r)
      PROVE  StarWalkFollows'
  BY <1>2, <1>9 DEF Star!Return
<1> QED
  BY <1>3, <1>4, <1>5, <1>6, <1>7, <1>8, <1>9
     DEF Star!Next, Star!Step, Star!Drained, Star!RelaxFails, Star!PutOut

LEMMA StarInductive ==
  /\ Star!Init => StarIndInv
  /\ StarIndInv /\ [Star!Next]_starVars => StarIndInv'
BY StarInitIndInv, StarTypeStep, StarMemoryStep, StarBookkeepingStep, StarTreeStep,
   StarScoresStep, StarGoalWaitsStep, StarWalkStep
   DEF StarIndInv

------------------------------------------------------------------------------
(* The recursion of Ancestor. *)
StarClimbs(f, v) ==
  f = [k \in 0 .. StarVertexCount - 1 |->
         IF k = 0 THEN v
         ELSE IF f[k - 1] \in {from, NoParent} THEN f[k - 1]
         ELSE trail[f[k - 1]]]

LEMMA StarAncestorClimbs ==
  ASSUME Star!TypeOK, NEW v \in Star!Vertices
  PROVE  /\ Star!Ancestor(v)[0] = v
         /\ \A k \in 1 .. StarVertexCount - 1 :
              Star!Ancestor(v)[k] = IF Star!Ancestor(v)[k - 1] \in {from, NoParent} THEN Star!Ancestor(v)[k - 1]
                               ELSE trail[Star!Ancestor(v)[k - 1]]
<1> DEFINE X == Star!Vertices \cup {NoParent}
           n == StarVertexCount - 1
           up == [x \in X |-> IF x \in {from, NoParent} THEN x ELSE trail[x]]
           step == [k \in 1 .. n |-> up]
<1>1. n \in Nat
  BY StarConstants
<1>2. up \in [X -> X]
  BY DEF Star!TypeOK
<1>3. step \in [1 .. n -> [X -> X]] /\ v \in X
  BY <1>2
<1>4. PICK f \in [0 .. n -> X] : Recurs(f, n, v, step)
  <2> HIDE DEF X, n, up, step
  <2> QED
    BY <1>1, <1>3, RecursionExists
<1>5. f[0] = v /\ \A k \in 1 .. n : f[k] = step[k][f[k - 1]]
  BY <1>4 DEF Recurs
<1> DEFINE body(g, k) == IF k = 0 THEN v
                         ELSE IF g[k - 1] \in {from, NoParent} THEN g[k - 1]
                         ELSE trail[g[k - 1]]
<1>6. ASSUME NEW k \in 0 .. n
      PROVE  f[k] = body(f, k)
  <2>1. CASE k = 0
    BY <1>5, <2>1
  <2>2. CASE k # 0
    <3>1. k \in 1 .. n /\ k - 1 \in 0 .. n
      BY <1>1, <2>2
    <3>2. f[k - 1] \in X /\ f[k] = step[k][f[k - 1]] /\ step[k] = up
      BY <1>5, <3>1
    <3>3. f[k] = up[f[k - 1]]
      BY <3>2
    <3> QED
      BY <2>2, <3>2, <3>3
  <2> QED
    BY <2>1, <2>2
<1>7. f = [k \in 0 .. n |-> body(f, k)]
  <2> HIDE DEF body, n, X
  <2> QED
    BY <1>5, <1>6
<1>8. StarClimbs(f, v)
  BY <1>7 DEF StarClimbs
<1>9. Star!Ancestor(v) = CHOOSE g : StarClimbs(g, v)
  BY DEF Star!Ancestor, StarClimbs
<1>10. StarClimbs(Star!Ancestor(v), v)
  BY <1>8, <1>9
<1> DEFINE a == Star!Ancestor(v)
<1>11. a = [k \in 0 .. n |-> body(a, k)]
  BY <1>10 DEF StarClimbs
<1> HIDE DEF a
<1>12. 0 \in 0 .. n /\ \A k \in 1 .. n : k \in 0 .. n /\ k # 0
  BY <1>1
<1>13. \A k \in 0 .. n : a[k] = body(a, k)
  <2> HIDE DEF n, body
  <2> QED
    BY <1>11
<1>14. a[0] = v
  BY <1>12, <1>13
<1>15. \A k \in 1 .. n : a[k] = IF a[k - 1] \in {from, NoParent} THEN a[k - 1] ELSE trail[a[k - 1]]
  BY <1>12, <1>13
<1> QED
  BY <1>14, <1>15 DEF a

(* From every vertex that was reached, the parents lead to the source.     *)
LEMMA StarAncestorIsSource ==
  ASSUME StarIndInv, Star!Running, NEW v \in Star!Reached
  PROVE  Star!Ancestor(v)[StarVertexCount - 1] = from
<1> DEFINE up == Star!Ancestor(v)
           n == StarVertexCount - 1
<1>1. /\ Star!TypeOK /\ StarRooted /\ v \in Star!Vertices /\ n \in Nat /\ StarVertexCount = n + 1
      /\ \A x \in Star!Reached \ {from} : trail[x] \in Star!Reached
      /\ NoParent \notin Star!Reached
  <2>1. n \in Nat /\ StarVertexCount = n + 1
    BY StarConstants
  <2>2. v \in Star!Vertices /\ NoParent \notin Star!Reached
    BY StarConstants DEF Star!Reached
  <2> QED
    BY <2>1, <2>2 DEF StarIndInv, StarTight
<1>2. /\ up[0] = v
      /\ \A k \in 1 .. n : up[k] = IF up[k - 1] \in {from, NoParent} THEN up[k - 1]
                                   ELSE trail[up[k - 1]]
  BY <1>1, StarAncestorClimbs
<1> HIDE DEF up, n
<1>3. \A k \in 0 .. n : up[k] \in Star!Reached
  <2> DEFINE S == {k \in 0 .. n : up[k] \in Star!Reached}
  <2>1. 0 \in S
    BY <1>1, <1>2
  <2>2. ASSUME NEW k \in 1 .. n, k - 1 \in S PROVE k \in S
    BY <1>1, <1>2, <2>2
  <2>3. \A k \in 0 .. n : k \in S
    <3> HIDE DEF S
    <3> QED
      BY <1>1, <2>1, <2>2, Upward
  <2> QED
    BY <2>3
<1>4. ASSUME up[n] # from PROVE FALSE
  <2>1. \A k \in 0 .. n : up[n - k] # from
    <3> DEFINE S == {k \in 0 .. n : up[n - k] # from}
    <3>1. 0 \in S
      BY <1>1, <1>4
    <3>2. ASSUME NEW k \in 1 .. n, k - 1 \in S PROVE k \in S
      <4>1. n - (k - 1) \in 1 .. n /\ (n - (k - 1)) - 1 = n - k /\ k \in 0 .. n
        BY <1>1
      <4>2. up[n - k] = from => up[n - (k - 1)] = up[n - k]
        BY <1>2, <4>1
      <4> QED
        BY <3>2, <4>1, <4>2
    <3>3. \A k \in 0 .. n : k \in S
      <4> HIDE DEF S
      <4> QED
        BY <1>1, <3>1, <3>2, Upward
    <3> QED
      BY <3>3
  <2>2. ASSUME NEW k \in 0 .. n PROVE up[k] # from
    <3>1. n - k \in 0 .. n /\ n - (n - k) = k
      BY <1>1
    <3> QED
      BY <2>1, <3>1
  <2> DEFINE c == [k \in 0 .. n |-> up[k]]
  <2>3. c \in [0 .. n -> Star!Reached \ {from}]
    BY <1>3, <2>2
  <2>4. \A m \in 1 .. n : c[m] = trail[c[m - 1]]
    <3> TAKE m \in 1 .. n
    <3>1. m \in 0 .. n /\ m - 1 \in 0 .. n
      BY <1>1
    <3>2. up[m - 1] \notin {from, NoParent}
      BY <1>1, <1>3, <2>2, <3>1
    <3> QED
      BY <1>2, <3>1, <3>2
  <2> HIDE DEF c
  <2>5. n + 2 <= StarVertexCount
    BY <1>1, <2>3, <2>4, StarClimb
  <2> QED
    BY <1>1, <2>5
<1> QED
  BY <1>4 DEF up, n

LEMMA StarIndInvImplies == StarIndInv => Star!WellFormed /\ Star!SearchInvariant
<1> SUFFICES ASSUME StarIndInv PROVE Star!WellFormed /\ Star!SearchInvariant
  OBVIOUS
<1>1. Star!ParentsLeadToSource
  BY StarAncestorIsSource DEF StarIndInv, StarTight, Star!ParentsLeadToSource
<1>2. Star!WalkStaysOnRoute
  BY StarNeverLost DEF StarIndInv, StarWalkFollows, Star!WalkStaysOnRoute
<1> QED
  BY <1>1, <1>2 DEF StarIndInv, Star!WellFormed, Star!SearchInvariant

------------------------------------------------------------------------------
(* The recursion of Remaining: from a row of numbers to the next.          *)
StarLast(v) == IF v = goal THEN 0 ELSE Star!Farther
StarOnward(prev, v) == {StarLast(v)} \cup {prev[x] + borrowed[<<v, x>>] : x \in Star!Neighbors(v)}

LEMMA StarLeastOfIsLeast ==
  ASSUME NEW S, S \subseteq Nat, S # {}
  PROVE  Star!LeastOf(S) \in S /\ \A x \in S : Star!LeastOf(S) <= x
BY LeastExists DEF Star!LeastOf

LEMMA StarLastInNat == \A v : StarLast(v) \in Nat /\ (v # goal => StarLast(v) > StarInfinity)
<1>1. Star!Farther \in Nat /\ Star!Farther > StarInfinity
  BY StarConstants DEF Star!Farther
<1> QED
  BY <1>1, StarConstants DEF StarLast

LEMMA StarOnwardIsLeast ==
  ASSUME Star!TypeOK, NEW prev \in [Star!Vertices -> Nat], NEW v \in Star!Vertices
  PROVE  /\ Star!LeastOf(StarOnward(prev, v)) \in Nat
         /\ Star!LeastOf(StarOnward(prev, v)) <= StarLast(v)
         /\ \/ Star!LeastOf(StarOnward(prev, v)) = StarLast(v)
            \/ \E x \in Star!Neighbors(v) : Star!LeastOf(StarOnward(prev, v)) = prev[x] + borrowed[<<v, x>>]
         /\ \A x \in Star!Neighbors(v) : Star!LeastOf(StarOnward(prev, v)) <= prev[x] + borrowed[<<v, x>>]
<1>1. \A x \in Star!Neighbors(v) : prev[x] + borrowed[<<v, x>>] \in Nat
  <2> TAKE x \in Star!Neighbors(v)
  <2>1. borrowed[<<v, x>>] \in 0 .. StarInfinity /\ prev[x] \in Nat
    BY StarEdgeWeight, StarNeighborEdge
  <2> QED
    BY <2>1, StarConstants
<1>2. StarOnward(prev, v) \subseteq Nat /\ StarLast(v) \in StarOnward(prev, v)
  BY <1>1, StarLastInNat DEF StarOnward
<1> DEFINE least == Star!LeastOf(StarOnward(prev, v))
<1>3. least \in StarOnward(prev, v) /\ \A x \in StarOnward(prev, v) : least <= x
  BY <1>2, StarLeastOfIsLeast
<1> HIDE DEF least
<1>4. /\ least \in Nat /\ least <= StarLast(v)
      /\ \/ least = StarLast(v)
         \/ \E x \in Star!Neighbors(v) : least = prev[x] + borrowed[<<v, x>>]
      /\ \A x \in Star!Neighbors(v) : least <= prev[x] + borrowed[<<v, x>>]
  BY <1>2, <1>3 DEF StarOnward
<1> QED
  BY <1>4 DEF least

StarRemainingBody(f, k) ==
  [v \in Star!Vertices |->
     Star!LeastOf(
       {IF v = goal THEN 0 ELSE Star!Farther} \cup
       IF k = 0 THEN {}
       ELSE {f[k - 1][x] + borrowed[<<v, x>>] : x \in Star!Neighbors(v)})]
StarRemainsBy(f) == f = [k \in 0 .. StarVertexCount - 1 |-> StarRemainingBody(f, k)]

LEMMA StarRemainingSteps ==
  ASSUME Star!TypeOK
  PROVE  /\ \A v \in Star!Vertices : Star!Remaining[0][v] = StarLast(v)
         /\ \A k \in 0 .. StarVertexCount - 1 : Star!Remaining[k] \in [Star!Vertices -> Nat]
         /\ \A k \in 1 .. StarVertexCount - 1 : \A v \in Star!Vertices :
              Star!Remaining[k][v] = Star!LeastOf(StarOnward(Star!Remaining[k - 1], v))
<1> DEFINE X == [Star!Vertices -> Nat]
           n == StarVertexCount - 1
           first == [v \in Star!Vertices |-> StarLast(v)]
           next == [prev \in X |-> [v \in Star!Vertices |-> Star!LeastOf(StarOnward(prev, v))]]
           step == [k \in 1 .. n |-> next]
<1>1. n \in Nat
  BY StarConstants
<1>2. first \in X
  BY StarLastInNat
<1>3. next \in [X -> X]
  <2>1. \A prev \in X : [v \in Star!Vertices |-> Star!LeastOf(StarOnward(prev, v))] \in X
    BY StarOnwardIsLeast
  <2> QED
    BY <2>1
<1>4. step \in [1 .. n -> [X -> X]]
  BY <1>3
<1>5. PICK f \in [0 .. n -> X] : Recurs(f, n, first, step)
  <2> HIDE DEF X, n, first, next, step
  <2> QED
    BY <1>1, <1>2, <1>4, RecursionExists
<1>6. f[0] = first /\ \A k \in 1 .. n : f[k] = next[f[k - 1]]
  BY <1>5 DEF Recurs
<1>7. \A g, k : k = 0 => StarRemainingBody(g, k) = first
  <2> SUFFICES ASSUME NEW g, NEW k, k = 0 PROVE StarRemainingBody(g, k) = first
    OBVIOUS
  <2>1. \A v : Star!LeastOf({StarLast(v)}) = StarLast(v)
    BY StarLastInNat, StarLeastOfIsLeast
  <2>2. \A v : {StarLast(v)} \cup {} = {StarLast(v)}
    OBVIOUS
  <2> QED
    BY <2>1, <2>2 DEF StarRemainingBody, StarLast
<1>8. ASSUME NEW g, NEW k, k # 0, g[k - 1] \in X
      PROVE  StarRemainingBody(g, k) = next[g[k - 1]]
  <2>1. StarRemainingBody(g, k) = [v \in Star!Vertices |-> Star!LeastOf(StarOnward(g[k - 1], v))]
    BY <1>8 DEF StarRemainingBody, StarOnward, StarLast
  <2> QED
    BY <1>8, <2>1
<1> HIDE DEF X, first, next
<1>9. ASSUME NEW k \in 0 .. n PROVE f[k] = StarRemainingBody(f, k)
  <2>1. CASE k = 0
    BY <1>6, <1>7, <2>1
  <2>2. CASE k # 0
    <3>1. k \in 1 .. n /\ k - 1 \in 0 .. n
      BY <1>1, <2>2
    <3>2. f[k - 1] \in X
      BY <1>5, <3>1
    <3> QED
      BY <1>6, <1>8, <2>2, <3>1, <3>2
  <2> QED
    BY <2>1, <2>2
<1>10. StarRemainsBy(f)
  BY <1>5, <1>9 DEF StarRemainsBy
<1>11. Star!Remaining = CHOOSE g : StarRemainsBy(g)
  BY DEF Star!Remaining, StarRemainsBy, StarRemainingBody
<1>12. StarRemainsBy(Star!Remaining)
  BY <1>10, <1>11
<1>13. \A k \in 0 .. n : Star!Remaining[k] = StarRemainingBody(Star!Remaining, k)
  BY <1>12 DEF StarRemainsBy
<1>14. Star!Remaining[0] = first
  <2>1. 0 \in 0 .. n
    BY <1>1
  <2> QED
    BY <1>7, <1>13, <2>1
<1>15. \A k \in 1 .. n : Star!Remaining[k - 1] \in X
       => Star!Remaining[k] = next[Star!Remaining[k - 1]]
  <2> TAKE k \in 1 .. n
  <2>1. k \in 0 .. n /\ k # 0
    BY <1>1
  <2> QED
    BY <1>8, <1>13, <2>1
<1>16. \A k \in 0 .. n : Star!Remaining[k] \in X
  <2> DEFINE S == {k \in 0 .. n : Star!Remaining[k] \in X}
  <2>1. 0 \in S
    BY <1>1, <1>2, <1>14
  <2>2. ASSUME NEW k \in 1 .. n, k - 1 \in S PROVE k \in S
    BY <1>1, <1>3, <1>15, <2>2
  <2>3. \A k \in 0 .. n : k \in S
    <3> HIDE DEF S, n
    <3> QED
      BY <1>1, <2>1, <2>2, Upward
  <2> QED
    BY <2>3
<1>17. ASSUME NEW k \in 1 .. n, NEW v \in Star!Vertices
       PROVE  Star!Remaining[k][v] = Star!LeastOf(StarOnward(Star!Remaining[k - 1], v))
  <2>1. k - 1 \in 0 .. n
    BY <1>1
  <2>2. Star!Remaining[k - 1] \in X
    BY <1>16, <2>1
  <2>3. Star!Remaining[k] = next[Star!Remaining[k - 1]]
    BY <1>15, <2>2
  <2> QED
    BY <2>2, <2>3 DEF next
<1> QED
  BY <1>14, <1>16, <1>17 DEF first, X

LEMMA StarRemainingIs ==
  ASSUME Star!TypeOK, NEW k \in 1 .. StarVertexCount - 1, NEW v \in Star!Vertices
  PROVE  /\ k - 1 \in 0 .. StarVertexCount - 1 /\ k \in 0 .. StarVertexCount - 1
         /\ Star!Remaining[k][v] <= StarLast(v)
         /\ \/ Star!Remaining[k][v] = StarLast(v)
            \/ \E x \in Star!Neighbors(v) : Star!Remaining[k][v] = Star!Remaining[k - 1][x] + borrowed[<<v, x>>]
         /\ \A x \in Star!Neighbors(v) : Star!Remaining[k][v] <= Star!Remaining[k - 1][x] + borrowed[<<v, x>>]
<1>1. k - 1 \in 0 .. StarVertexCount - 1 /\ k \in 0 .. StarVertexCount - 1
  BY StarConstants
<1>2. Star!Remaining[k - 1] \in [Star!Vertices -> Nat]
  BY <1>1, StarRemainingSteps
<1>3. Star!Remaining[k][v] = Star!LeastOf(StarOnward(Star!Remaining[k - 1], v))
  BY StarRemainingSteps
<1> QED
  BY <1>1, <1>2, <1>3, StarOnwardIsLeast

(* More edges make a lightest route no heavier. *)
LEMMA StarRemainingFalls ==
  ASSUME Star!TypeOK
  PROVE  \A k \in 1 .. StarVertexCount - 1 : \A v \in Star!Vertices : Star!Remaining[k][v] <= Star!Remaining[k - 1][v]
<1> DEFINE n == StarVertexCount - 1
           S == {k \in 0 .. n : k = 0 \/ \A v \in Star!Vertices : Star!Remaining[k][v] <= Star!Remaining[k - 1][v]}
<1>1. n \in Nat
  BY StarConstants
<1>2. 0 \in S
  BY <1>1
<1>3. ASSUME NEW k \in 1 .. n, k - 1 \in S PROVE k \in S
  <2> SUFFICES ASSUME NEW v \in Star!Vertices PROVE Star!Remaining[k][v] <= Star!Remaining[k - 1][v]
    BY <1>1
  <2>1. k - 1 \in 0 .. n /\ Star!Remaining[k][v] <= StarLast(v)
    BY StarRemainingIs
  <2>2. CASE k - 1 = 0
    <3>1. Star!Remaining[k - 1][v] = StarLast(v)
      BY <2>2, StarRemainingSteps
    <3> QED
      BY <2>1, <3>1
  <2>3. CASE k - 1 # 0
    <3>1. k - 1 \in 1 .. n
      BY <2>1, <2>3
    <3>2. \/ Star!Remaining[k - 1][v] = StarLast(v)
          \/ \E x \in Star!Neighbors(v) : Star!Remaining[k - 1][v] = Star!Remaining[k - 1 - 1][x] + borrowed[<<v, x>>]
      BY <3>1, StarRemainingIs
    <3>3. ASSUME NEW x \in Star!Neighbors(v),
                 Star!Remaining[k - 1][v] = Star!Remaining[k - 1 - 1][x] + borrowed[<<v, x>>]
          PROVE  Star!Remaining[k][v] <= Star!Remaining[k - 1][v]
      <4>1. x \in Star!Vertices /\ borrowed[<<v, x>>] \in 0 .. StarInfinity
        BY StarEdgeWeight, StarNeighborEdge
      <4>2. Star!Remaining[k - 1][x] <= Star!Remaining[k - 1 - 1][x]
        BY <1>3, <2>3, <4>1
      <4>3. Star!Remaining[k][v] <= Star!Remaining[k - 1][x] + borrowed[<<v, x>>]
        BY StarRemainingIs
      <4>4. k \in 0 .. n /\ k - 1 \in 0 .. n /\ k - 1 - 1 \in 0 .. n
        BY <1>1, <3>1
      <4>5. /\ Star!Remaining[k] \in [Star!Vertices -> Nat]
               /\ Star!Remaining[k - 1] \in [Star!Vertices -> Nat]
            /\ Star!Remaining[k - 1 - 1] \in [Star!Vertices -> Nat]
        BY <4>4, StarRemainingSteps
      <4>6. Star!Remaining[k][v] \in Nat /\ Star!Remaining[k - 1][x] \in Nat
            /\ Star!Remaining[k - 1 - 1][x] \in Nat
        BY <4>1, <4>5
      <4> HIDE DEF n
      <4> QED
        BY <3>3, <4>1, <4>2, <4>3, <4>6, StarConstants
    <3> QED
      BY <2>1, <3>2, <3>3
  <2> QED
    BY <2>2, <2>3
<1>4. \A k \in 0 .. n : k \in S
  <2> HIDE DEF S, n
  <2> QED
    BY <1>1, <1>2, <1>3, Upward
<1> QED
  BY <1>1, <1>4

LEMMA StarToGoalIsLeast ==
  ASSUME Star!TypeOK, NEW v \in Star!Vertices
  PROVE  /\ Star!ToGoal[v] \in Nat
         /\ \A k \in 0 .. StarVertexCount - 1 : Star!Remaining[k][v] \in Nat
            /\ Star!ToGoal[v] <= Star!Remaining[k][v]
<1> DEFINE n == StarVertexCount - 1
           S == {k \in 0 .. n : Star!ToGoal[v] <= Star!Remaining[n - k][v]}
<1>1. n \in Nat
  BY StarConstants
<1>2. \A k \in 0 .. n : Star!Remaining[k][v] \in Nat
  BY StarRemainingSteps
<1>3. Star!ToGoal[v] = Star!Remaining[n][v] /\ Star!ToGoal[v] \in Nat
  <2>1. n \in 0 .. n
    BY <1>1
  <2> QED
    BY <1>2, <2>1 DEF Star!ToGoal
<1>4. 0 \in S
  <2>1. n - 0 = n /\ 0 \in 0 .. n
    BY <1>1
  <2> QED
    BY <1>3, <2>1
<1>5. ASSUME NEW k \in 1 .. n, k - 1 \in S PROVE k \in S
  <2>1. n - (k - 1) \in 1 .. n /\ (n - (k - 1)) - 1 = n - k /\ k \in 0 .. n /\ n - k \in 0 .. n
        /\ n - (k - 1) \in 0 .. n
    BY <1>1
  <2>2. Star!Remaining[n - (k - 1)][v] <= Star!Remaining[n - k][v]
    BY <2>1, StarRemainingFalls
  <2> QED
    BY <1>2, <1>3, <1>5, <2>1, <2>2
<1>6. \A k \in 0 .. n : k \in S
  <2> HIDE DEF S, n
  <2> QED
    BY <1>1, <1>4, <1>5, Upward
<1>7. ASSUME NEW k \in 0 .. n PROVE Star!ToGoal[v] <= Star!Remaining[k][v]
  <2>1. n - k \in 0 .. n /\ n - (n - k) = k
    BY <1>1
  <2> QED
    BY <1>6, <2>1
<1> QED
  BY <1>2, <1>3, <1>7

------------------------------------------------------------------------------
LEMMA StarSameQuestion ==
  ASSUME UNCHANGED <<Star!lent, from, goal>>
  PROVE  /\ Star!ToGoal' = Star!ToGoal /\ Star!Admissible' = Star!Admissible
         /\ \A route : Star!Cost(route)' = Star!Cost(route)
            /\ Star!IsRoute(route)' = Star!IsRoute(route)
<1>1. borrowed' = borrowed /\ estimate' = estimate /\ from' = from /\ goal' = goal
  BY DEF Star!lent
<1>2. Star!Edges' = Star!Edges /\ \A v \in Star!Vertices : Star!Neighbors(v)' = Star!Neighbors(v)
  BY <1>1 DEF Star!Edges, Star!Neighbors
<1>3. Star!Remaining' = Star!Remaining
  BY <1>1 DEF Star!Remaining, Star!Neighbors, Star!Edges
<1>4. Star!ToGoal' = Star!ToGoal
  BY <1>3 DEF Star!ToGoal
<1>5. Star!Admissible' = Star!Admissible
  BY <1>1, <1>4 DEF Star!Admissible
<1>6. \A route : Star!Cost(route)' = Star!Cost(route)
  BY <1>1 DEF Star!Cost
<1>7. \A route : Star!IsRoute(route)' = Star!IsRoute(route)
  BY <1>1, <1>2 DEF Star!IsRoute
<1> QED
  BY <1>4, <1>5, <1>6, <1>7

(* While the main loop runs, a route that is lighter than what the goal's  *)
(* score says has a vertex that waits in the heap.                         *)
LEMMA StarWaitsOnTheWay ==
  ASSUME StarIndInv, at = "loop", NEW b \in Nat, b < StarInfinity,
         NEW k \in 0 .. StarVertexCount - 1,
         NEW v \in Star!Reached, g_scores[v] + Star!Remaining[k][v] <= b
  PROVE  \/ g_scores[goal] <= b
         \/ \E y \in Star!Reached : /\ Star!Proposal(y, g_scores[y]) \in heap
                               /\ g_scores[y] + Star!ToGoal[y] <= b
<1> DEFINE n == StarVertexCount - 1
           Waits(y) == /\ Star!Proposal(y, g_scores[y]) \in heap
                       /\ g_scores[y] + Star!ToGoal[y] <= b
           Found == g_scores[goal] <= b \/ \E y \in Star!Reached : Waits(y)
           S == {j \in 0 .. n : \A u \in Star!Reached : g_scores[u] + Star!Remaining[j][u] <= b => Found}
<1>1. n \in Nat /\ Star!TypeOK /\ StarInfinity \in Nat
  BY StarConstants DEF StarIndInv
<1>2. \A u \in Star!Vertices : g_scores[u] \in 0 .. StarInfinity
  BY <1>1 DEF Star!TypeOK
<1>3. \A u \in Star!Reached : u \in Star!Vertices
  BY DEF Star!Reached
<1>4. \A j \in 0 .. n : \A u \in Star!Vertices : Star!Remaining[j][u] \in Nat
      /\ Star!ToGoal[u] \in Nat /\ Star!ToGoal[u] <= Star!Remaining[j][u]
  BY <1>1, StarToGoalIsLeast
<1>5. ASSUME NEW j \in 0 .. n, NEW u \in Star!Reached, g_scores[u] + Star!Remaining[j][u] <= b,
             Star!Remaining[j][u] = StarLast(u)
      PROVE  g_scores[goal] <= b
  <2>1. /\ Star!Remaining[j][u] \in Nat /\ g_scores[u] \in 0 .. StarInfinity
        /\ StarLast(u) \in Nat /\ (u # goal => StarLast(u) > StarInfinity)
    BY <1>2, <1>3, <1>4, StarLastInNat
  <2>2. u = goal
    BY <1>1, <1>5, <2>1
  <2>3. StarLast(u) = 0
    BY <2>2 DEF StarLast
  <2> QED
    BY <1>1, <1>5, <2>1, <2>2, <2>3
<1>6. 0 \in S
  <2> SUFFICES ASSUME NEW u \in Star!Reached, g_scores[u] + Star!Remaining[0][u] <= b PROVE Found
    BY <1>1
  <2>1. Star!Remaining[0][u] = StarLast(u) /\ 0 \in 0 .. n
    BY <1>1, <1>3, StarRemainingSteps
  <2>2. g_scores[goal] <= b
    BY <1>5, <2>1
  <2> QED
    BY <2>2
<1>7. ASSUME NEW j \in 1 .. n, j - 1 \in S PROVE j \in S
  <2>1. j \in 0 .. n /\ j - 1 \in 0 .. n
    BY <1>1
  <2> SUFFICES ASSUME NEW u \in Star!Reached, g_scores[u] + Star!Remaining[j][u] <= b PROVE Found
    BY <2>1
  <2>2. CASE Star!Remaining[j][u] = StarLast(u)
    BY <1>5, <2>1, <2>2
  <2>3. CASE Star!Proposal(u, g_scores[u]) \in heap
    <3>1. /\ Star!Remaining[j][u] \in Nat /\ g_scores[u] \in 0 .. StarInfinity
          /\ Star!ToGoal[u] \in Nat /\ Star!ToGoal[u] <= Star!Remaining[j][u]
      BY <1>2, <1>3, <1>4, <2>1
    <3>2. g_scores[u] + Star!ToGoal[u] <= b
      BY <1>1, <3>1
    <3> QED
      BY <2>3, <3>2
  <2>4. ASSUME NEW x \in Star!Neighbors(u),
               Star!Remaining[j][u] = Star!Remaining[j - 1][x] + borrowed[<<u, x>>],
               Star!Carried(u, x)
        PROVE  Found
    <3>1. x \in Star!Vertices /\ u \in Star!Vertices /\ borrowed[<<u, x>>] \in 0 .. StarInfinity
      BY <1>1, <1>3, StarEdgeWeight, StarNeighborEdge
    <3>2. g_scores[x] <= g_scores[u] + borrowed[<<u, x>>]
      BY <2>4 DEF Star!Carried
    <3>3. /\ g_scores[x] \in 0 .. StarInfinity /\ g_scores[u] \in 0 .. StarInfinity
          /\ Star!Remaining[j - 1][x] \in Nat
      BY <1>2, <1>4, <2>1, <3>1
    <3>4. g_scores[x] + Star!Remaining[j - 1][x] <= b /\ g_scores[x] # StarInfinity
      BY <1>1, <2>4, <3>1, <3>2, <3>3
    <3>5. x \in Star!Reached
      BY <3>1, <3>4 DEF Star!Reached
    <3> HIDE DEF Found
    <3> QED
      BY <1>7, <3>4, <3>5
  <2>5. \/ Star!Proposal(u, g_scores[u]) \in heap
        \/ \A x \in Star!Neighbors(u) : Star!Carried(u, x)
    BY DEF StarIndInv, Star!ScoresWaitOrCarried
  <2>6. \/ Star!Remaining[j][u] = StarLast(u)
        \/ \E x \in Star!Neighbors(u) : Star!Remaining[j][u] = Star!Remaining[j - 1][x] + borrowed[<<u, x>>]
    BY <1>1, <1>3, StarRemainingIs
  <2> HIDE DEF Found
  <2> QED
    BY <2>2, <2>3, <2>4, <2>5, <2>6
<1>8. \A j \in 0 .. n : j \in S
  <2> HIDE DEF S, n
  <2> QED
    BY <1>1, <1>6, <1>7, Upward
<1> QED
  BY <1>8

(* The source has been reached, with the score 0. *)
LEMMA StarSourceIsReached ==
  ASSUME StarIndInv, Star!Running
  PROVE  from \in Star!Reached /\ g_scores[from] = 0 /\ from \in Star!Vertices
BY StarConstants DEF StarIndInv, StarTight, Star!Reached, Star!TypeOK

(* When the heap has drained, every route is at least as heavy as          *)
(* UINT64_MAX.                                                             *)
LEMMA StarDrainedMeans ==
  ASSUME StarIndInv, at = "loop", heap = {}
  PROVE  Star!ToGoal[from] >= StarInfinity
<1>1. Star!TypeOK /\ Star!Running /\ from \in Star!Reached /\ g_scores[from] = 0
      /\ from \in Star!Vertices
  BY StarSourceIsReached DEF StarIndInv, Star!Running
<1>2. goal \in Star!Vertices /\ goal \notin Star!Reached
  BY <1>1 DEF StarIndInv, StarGoalWaits, Star!TypeOK
<1>3. g_scores[goal] = StarInfinity /\ Star!ToGoal[from] \in Nat /\ StarInfinity \in Nat
  BY <1>1, <1>2, StarToGoalIsLeast, StarConstants DEF Star!Reached
<1> DEFINE b == Star!ToGoal[from]
<1>4. ASSUME b < StarInfinity PROVE FALSE
  <2>1. StarVertexCount - 1 \in 0 .. StarVertexCount - 1
    BY StarConstants
  <2>2. g_scores[from] + Star!Remaining[StarVertexCount - 1][from] <= b
    BY <1>1, <1>3 DEF Star!ToGoal
  <2> HIDE DEF b
  <2>3. b \in Nat
    BY <1>3 DEF b
  <2>4. g_scores[goal] <= b
    BY <1>1, <1>4, <2>1, <2>2, <2>3, StarWaitsOnTheWay
  <2> QED
    BY <1>3, <1>4, <2>3, <2>4
<1> QED
  BY <1>3, <1>4

(* When the goal comes up, an admissible estimate has kept anything        *)
(* lighter from waiting behind it.                                         *)
LEMMA StarGoalIsNearest ==
  ASSUME StarIndInv, Star!FindGoal, Star!Admissible
  PROVE  g_scores[goal] <= Star!ToGoal[from]
<1>1. PICK p \in heap : StarPopped(p) /\ Star!IsCurrent(p) /\ p.index = goal
  BY StarPopsOne
<1>2. Star!TypeOK /\ at = "loop" /\ Star!NextUp(p) /\ p = Star!Proposal(p.index, p.g_score)
  BY <1>1 DEF StarIndInv, StarPopped
<1>3. Star!Running /\ from \in Star!Reached /\ g_scores[from] = 0 /\ from \in Star!Vertices
  BY <1>2, StarSourceIsReached DEF Star!Running
<1>4. /\ goal \in Star!Vertices /\ g_scores[goal] \in 0 .. StarInfinity
         /\ Star!ToGoal[from] \in Nat
      /\ estimate[goal] \in 0 .. StarInfinity
  BY <1>2, <1>3, StarToGoalIsLeast, StarConstants DEF Star!TypeOK
<1> DEFINE b == Star!ToGoal[from]
<1>5. ASSUME b < g_scores[goal] PROVE FALSE
  <2>1. StarVertexCount - 1 \in 0 .. StarVertexCount - 1 /\ 0 \in 0 .. StarVertexCount - 1
    BY StarConstants
  <2>2. g_scores[from] + Star!Remaining[StarVertexCount - 1][from] <= b
    BY <1>3, <1>4 DEF Star!ToGoal
  <2> HIDE DEF b
  <2>3. b \in Nat /\ b < StarInfinity
    BY <1>4, <1>5, StarConstants DEF b
  <2>4. \E y \in Star!Reached : /\ Star!Proposal(y, g_scores[y]) \in heap
                           /\ g_scores[y] + Star!ToGoal[y] <= b
    <3>1. ~(g_scores[goal] <= b)
      BY <1>4, <1>5, <2>3
    <3> QED
      BY <1>2, <1>3, <2>1, <2>2, <2>3, <3>1, StarWaitsOnTheWay
  <2>5. PICK y \in Star!Reached : /\ Star!Proposal(y, g_scores[y]) \in heap
                             /\ g_scores[y] + Star!ToGoal[y] <= b
    BY <2>4
  <2>6. /\ y \in Star!Vertices /\ g_scores[y] \in 0 .. StarInfinity /\ Star!ToGoal[y] \in Nat
        /\ estimate[y] \in 0 .. StarInfinity /\ estimate[y] <= Star!ToGoal[y]
    BY <1>2, StarToGoalIsLeast, StarConstants DEF Star!TypeOK, Star!Reached, Star!Admissible
  <2> DEFINE q == Star!Proposal(y, g_scores[y])
  <2>7. q.f_score = g_scores[y] + estimate[y] /\ q \in heap /\ q.f_score \in Nat /\ q.f_score <= b
    <3>1. q.f_score = g_scores[y] + estimate[y]
      BY DEF Star!Proposal
    <3> HIDE DEF q
    <3>2. q.f_score \in Nat /\ q.f_score <= b
      BY <2>3, <2>5, <2>6, <3>1, StarConstants
    <3> QED
      BY <2>5, <3>1, <3>2 DEF q
  <2>8. p.f_score = g_scores[goal] + estimate[goal]
    BY <1>1, <1>2 DEF Star!Proposal, Star!IsCurrent
  <2> HIDE DEF q
  <2>9. q = p \/ p.f_score <= q.f_score
    <3>1. q # p => Star!Before(p, q)
      BY <1>2, <2>7 DEF Star!NextUp
    <3>2. p.f_score \in Nat
      BY <1>4, <2>8, StarConstants
    <3> QED
      BY <2>7, <3>1, <3>2 DEF Star!Before
  <2> QED
    BY <1>4, <1>5, <2>3, <2>7, <2>8, <2>9, StarConstants
<1> QED
  BY <1>4, <1>5

------------------------------------------------------------------------------
(* The recursion of Cost. *)
StarCostBody(f, route) ==
  [i \in 1 .. Len(route) |->
     IF i = 1 THEN 0 ELSE f[i - 1] + borrowed[<<route[i - 1], route[i]>>]]
StarAdds(f, route) == f = StarCostBody(f, route)

LEMMA StarCostAdds ==
  ASSUME Star!TypeOK, NEW route \in Seq(Star!Vertices), Len(route) >= 1,
         \A i \in 1 .. Len(route) - 1 : <<route[i], route[i + 1]>> \in Star!Edges
  PROVE  \E upto \in [1 .. Len(route) -> Nat] :
           /\ Star!Cost(route) = upto[Len(route)]
           /\ upto[1] = 0
           /\ \A i \in 2 .. Len(route) :
                upto[i] = upto[i - 1] + borrowed[<<route[i - 1], route[i]>>]
<1> DEFINE L == Len(route)
           n == L - 1
           w(i) == borrowed[<<route[i], route[i + 1]>>]
           more(i) == [x \in Nat |-> x + w(i)]
           step == [i \in 1 .. n |-> more(i)]
<1>1. L \in Nat /\ L >= 1 /\ n \in Nat
  OBVIOUS
<1>2. \A i \in 1 .. n : w(i) \in Nat
  <2> TAKE i \in 1 .. n
  <2>1. borrowed[<<route[i], route[i + 1]>>] \in 0 .. StarInfinity
    BY StarEdgeWeight
  <2> QED
    BY <2>1, StarConstants
<1>3. step \in [1 .. n -> [Nat -> Nat]]
  <2> HIDE DEF w, n
  <2>1. \A i \in 1 .. n : more(i) \in [Nat -> Nat]
    BY <1>2
  <2> HIDE DEF more
  <2> QED
    BY <2>1
<1>4. PICK f \in [0 .. n -> Nat] : Recurs(f, n, 0, step)
  <2> HIDE DEF n, step
  <2>1. 0 \in Nat
    OBVIOUS
  <2> QED
    BY <1>1, <1>3, <2>1, RecursionExists
<1>5. f[0] = 0 /\ \A i \in 1 .. n : f[i] = f[i - 1] + w(i)
  <2>1. f[0] = 0 /\ \A i \in 1 .. n : f[i] = step[i][f[i - 1]]
    BY <1>4 DEF Recurs
  <2>2. ASSUME NEW i \in 1 .. n PROVE f[i] = f[i - 1] + w(i)
    <3>1. i - 1 \in 0 .. n
      BY <1>1
    <3>2. f[i - 1] \in Nat
      BY <3>1
    <3>3. f[i] = more(i)[f[i - 1]]
      BY <2>1
    <3> HIDE DEF w
    <3> QED
      BY <3>2, <3>3
  <2> QED
    BY <2>1, <2>2
<1> DEFINE g == [i \in 1 .. L |-> f[i - 1]]
<1>6. ASSUME NEW i \in 1 .. L
      PROVE  g[i] = IF i = 1 THEN 0 ELSE g[i - 1] + borrowed[<<route[i - 1], route[i]>>]
  <2>1. CASE i = 1
    BY <1>5, <2>1
  <2>2. CASE i # 1
    <3>1. i - 1 \in 1 .. n /\ i - 1 \in 1 .. L /\ (i - 1) + 1 = i
      BY <1>1, <2>2
    <3>2. g[i] = f[i - 1] /\ g[i - 1] = f[i - 1 - 1]
      BY <3>1
    <3>3. f[i - 1] = f[i - 1 - 1] + w(i - 1)
      BY <1>5, <3>1
    <3> QED
      BY <2>2, <3>1, <3>2, <3>3
  <2> QED
    BY <2>1, <2>2
<1>7. g = [i \in 1 .. L |-> g[i]]
  OBVIOUS
<1> HIDE DEF g
<1>8. StarAdds(g, route)
  BY <1>6, <1>7 DEF StarAdds, StarCostBody
<1> DEFINE u == CHOOSE h : StarAdds(h, route)
<1>9. Star!Cost(route) = u[L]
  BY DEF Star!Cost, StarAdds, StarCostBody
<1>10. StarAdds(u, route)
  BY <1>8
<1> HIDE DEF u
<1>11. /\ \A i \in 1 .. L : u[i] = IF i = 1 THEN 0 ELSE u[i - 1] + borrowed[<<route[i - 1], route[i]>>]
       /\ u = [i \in 1 .. L |-> u[i]]
  BY <1>10 DEF StarAdds, StarCostBody
<1>12. u[1] = 0 /\ \A i \in 2 .. L : u[i] = u[i - 1] + borrowed[<<route[i - 1], route[i]>>]
  BY <1>1, <1>11
<1>13. \A i \in 1 .. L : u[i] \in Nat
  <2> DEFINE S == {k \in 0 .. n : u[k + 1] \in Nat}
  <2>1. 0 \in S
    BY <1>1, <1>12
  <2>2. ASSUME NEW k \in 1 .. n, k - 1 \in S PROVE k \in S
    <3>1. k + 1 \in 2 .. L /\ (k + 1) - 1 = k /\ (k - 1) + 1 = k /\ k \in 0 .. n
      BY <1>1
    <3>2. u[k + 1] = u[k] + w(k)
      BY <1>12, <3>1
    <3> HIDE DEF w
    <3> QED
      BY <1>2, <2>2, <3>1, <3>2
  <2>3. \A k \in 0 .. n : k \in S
    <3> HIDE DEF S, n
    <3> QED
      BY <1>1, <2>1, <2>2, Upward
  <2> TAKE i \in 1 .. L
  <2>4. i - 1 \in 0 .. n /\ (i - 1) + 1 = i
    BY <1>1
  <2> QED
    BY <2>3, <2>4
<1>14. u \in [1 .. L -> Nat]
  BY <1>11, <1>13
<1> QED
  BY <1>9, <1>12, <1>14

(* No route of the graph to the goal, of fewer edges than there are        *)
(* vertices, is lighter than what is left to go.                           *)
LEMMA StarCostIsNotBelow ==
  ASSUME Star!TypeOK, NEW route \in Seq(Star!Vertices), Len(route) \in 1 .. StarVertexCount,
         route[Len(route)] = goal,
         \A i \in 1 .. Len(route) - 1 : <<route[i], route[i + 1]>> \in Star!Edges
  PROVE  Star!Cost(route) \in Nat /\ Star!ToGoal[route[1]] <= Star!Cost(route)
<1> DEFINE L == Len(route)
           n == L - 1
<1>1. L \in Nat /\ L >= 1 /\ n \in Nat /\ n <= StarVertexCount - 1 /\ StarVertexCount \in Nat
  BY StarConstants
<1>2. PICK upto \in [1 .. L -> Nat] :
        /\ Star!Cost(route) = upto[L]
        /\ upto[1] = 0
        /\ \A i \in 2 .. L :
             upto[i] = upto[i - 1] + borrowed[<<route[i - 1], route[i]>>]
  BY <1>1, StarCostAdds
<1>3. \A i \in 1 .. L : route[i] \in Star!Vertices /\ upto[i] \in Nat
  OBVIOUS
<1>4. Star!Cost(route) \in Nat
  BY <1>1, <1>2, <1>3
<1> DEFINE S == {k \in 0 .. n : upto[L - k] + Star!Remaining[k][route[L - k]] <= Star!Cost(route)}
<1>5. 0 \in S
  <2>1. L - 0 = L /\ 0 \in 0 .. n /\ L \in 1 .. L
    BY <1>1
  <2>2. Star!Remaining[0][route[L]] = 0
    BY <1>3, <2>1, StarRemainingSteps DEF StarLast
  <2> QED
    BY <1>2, <1>3, <2>1, <2>2
<1>6. ASSUME NEW k \in 1 .. n, k - 1 \in S PROVE k \in S
  <2> DEFINE i == L - (k - 1)
             x == route[i - 1]
             y == route[i]
  <2>1. /\ i \in 2 .. L /\ i - 1 = L - k /\ i \in 1 .. L /\ i - 1 \in 1 .. L /\ k \in 0 .. n
        /\ i - 1 \in 1 .. L - 1 /\ (i - 1) + 1 = i
        /\ k \in 1 .. StarVertexCount - 1 /\ k - 1 \in 0 .. StarVertexCount - 1
           /\ k \in 0 .. StarVertexCount - 1
    BY <1>1
  <2>2. upto[i] = upto[i - 1] + borrowed[<<x, y>>]
    BY <1>2, <2>1
  <2>3. <<x, y>> \in Star!Edges
    BY <2>1
  <2>4. x \in Star!Vertices /\ y \in Star!Neighbors(x) /\ borrowed[<<x, y>>] \in 0 .. StarInfinity
        /\ y \in Star!Vertices
    BY <2>3, StarEdgeWeight
  <2>5. upto[i] + Star!Remaining[k - 1][y] <= Star!Cost(route)
    BY <1>6
  <2> HIDE DEF x, y, i
  <2>6. Star!Remaining[k][x] <= Star!Remaining[k - 1][y] + borrowed[<<x, y>>]
    BY <2>1, <2>4, StarRemainingIs
  <2>7. Star!Remaining[k] \in [Star!Vertices -> Nat]
        /\ Star!Remaining[k - 1] \in [Star!Vertices -> Nat]
    BY <2>1, StarRemainingSteps
  <2>8. upto[i] \in Nat /\ upto[i - 1] \in Nat /\ Star!Remaining[k][x] \in Nat
        /\ Star!Remaining[k - 1][y] \in Nat
    BY <1>3, <2>1, <2>4, <2>7
  <2>9. upto[i - 1] + Star!Remaining[k][x] <= Star!Cost(route)
    <3> DEFINE a == upto[i - 1]
               b == upto[i]
               r == Star!Remaining[k][x]
               s == Star!Remaining[k - 1][y]
               w == borrowed[<<x, y>>]
               c == Star!Cost(route)
    <3>1. /\ b = a + w /\ b + s <= c /\ r <= s + w
          /\ a \in Nat /\ b \in Nat /\ r \in Nat /\ s \in Nat /\ c \in Nat
             /\ w \in 0 .. StarInfinity
      BY <1>4, <2>2, <2>4, <2>5, <2>6, <2>8
    <3> HIDE DEF a, b, r, s, w, c
    <3>2. a + r <= c
      BY <3>1, StarConstants
    <3> QED
      BY <3>2 DEF a, r, c
  <2>10. upto[L - k] + Star!Remaining[k][route[L - k]] <= Star!Cost(route)
    BY <2>1, <2>9 DEF x, i
  <2> QED
    BY <2>1, <2>10
<1>7. \A k \in 0 .. n : k \in S
  <2> HIDE DEF S, n
  <2> QED
    BY <1>1, <1>5, <1>6, Upward
<1>8. n \in 0 .. n /\ L - n = 1 /\ n \in 0 .. StarVertexCount - 1 /\ 1 \in 1 .. L
  BY <1>1
<1>9. Star!Remaining[n][route[1]] <= Star!Cost(route)
  <2>1. upto[L - n] + Star!Remaining[n][route[L - n]] <= Star!Cost(route)
    BY <1>7, <1>8
  <2>2. Star!Remaining[n][route[1]] \in Nat
    BY <1>3, <1>8, StarRemainingSteps
  <2> QED
    BY <1>2, <1>8, <2>1, <2>2
<1>10. Star!ToGoal[route[1]] \in Nat /\ Star!Remaining[n][route[1]] \in Nat
       /\ Star!ToGoal[route[1]] <= Star!Remaining[n][route[1]]
  BY <1>3, <1>8, StarToGoalIsLeast
<1> QED
  BY <1>4, <1>9, <1>10

(* The walk that has met the source is a route, and weighs no more than    *)
(* the goal's score.                                                       *)
LEMMA StarWalkIsRoute ==
  ASSUME StarIndInv, at = "walk", path[1] = from
  PROVE  /\ Star!IsRoute(path)
         /\ Star!Cost(path) \in Nat
         /\ Star!ToGoal[from] <= Star!Cost(path)
         /\ Star!Cost(path) <= g_scores[goal]
<1> DEFINE L == Len(path)
<1>1. /\ Star!TypeOK /\ Star!Running
      /\ path \in Seq(Star!Vertices) /\ Len(path) \in 1 .. StarVertexCount
         /\ path[Len(path)] = goal
      /\ \A i \in 1 .. Len(path) : path[i] \in Star!Reached
      /\ \A i \in 2 .. Len(path) : path[i] # from
      /\ \A i \in 1 .. Len(path) - 1 : path[i] = trail[path[i + 1]]
  BY DEF StarIndInv, Star!Running, StarWalkFollows, Star!TypeOK
<1>2. L \in Nat /\ L >= 1
  BY <1>1
<1>3. ASSUME NEW i \in 1 .. L - 1
      PROVE  /\ <<path[i], path[i + 1]>> \in Star!Edges
             /\ g_scores[path[i + 1]] >= g_scores[path[i]] + borrowed[<<path[i], path[i + 1]>>]
  <2>1. i + 1 \in 2 .. L /\ i + 1 \in 1 .. L
    BY <1>2
  <2>2. path[i + 1] \in Star!Reached \ {from} /\ path[i] = trail[path[i + 1]]
    BY <1>1, <2>1
  <2> QED
    BY <1>1, <2>2 DEF StarIndInv, StarTight
<1>4. Star!IsRoute(path)
  <2>1. Head(path) = path[1] /\ path # <<>>
    BY <1>1
  <2>2. \A i, j \in 1 .. L : i # j => path[i] # path[j]
    BY StarWalkClimbs
  <2> QED
    BY <1>1, <1>3, <2>1, <2>2 DEF Star!IsRoute
<1>5. Star!Cost(path) \in Nat /\ Star!ToGoal[from] <= Star!Cost(path)
  BY <1>1, <1>3, StarCostIsNotBelow
<1>6. PICK upto \in [1 .. L -> Nat] :
        /\ Star!Cost(path) = upto[L]
        /\ upto[1] = 0
        /\ \A i \in 2 .. L : upto[i] = upto[i - 1] + borrowed[<<path[i - 1], path[i]>>]
  BY <1>1, <1>2, <1>3, StarCostAdds
<1>7. \A i \in 1 .. L : path[i] \in Star!Vertices /\ g_scores[path[i]] \in 0 .. StarInfinity
      /\ upto[i] \in Nat
  BY <1>1 DEF Star!TypeOK
<1> DEFINE n == L - 1
           S == {k \in 0 .. n : upto[k + 1] <= g_scores[path[k + 1]]}
<1>8. 0 \in S
  <2>1. 1 \in 1 .. L /\ 0 \in 0 .. n /\ 0 + 1 = 1
    BY <1>2
  <2>2. upto[1] <= g_scores[path[1]]
    BY <1>6, <1>7, <2>1, StarConstants
  <2> QED
    BY <2>1, <2>2
<1>9. ASSUME NEW k \in 1 .. n, k - 1 \in S PROVE k \in S
  <2>1. /\ k + 1 \in 2 .. L /\ (k + 1) - 1 = k /\ (k - 1) + 1 = k /\ k \in 0 .. n
        /\ k \in 1 .. L /\ k + 1 \in 1 .. L /\ k \in 1 .. L - 1
    BY <1>2
  <2> DEFINE w == borrowed[<<path[k], path[k + 1]>>]
  <2>2. upto[k + 1] = upto[k] + w
    BY <1>6, <2>1
  <2>3. w \in 0 .. StarInfinity
    BY <1>1, <1>3, <2>1, StarEdgeWeight
  <2>4. g_scores[path[k + 1]] >= g_scores[path[k]] + w
    BY <1>3, <2>1
  <2> HIDE DEF w
  <2>5. upto[k] <= g_scores[path[k]]
    BY <1>9, <2>1
  <2>6. /\ upto[k] \in Nat /\ upto[k + 1] \in Nat
        /\ g_scores[path[k]] \in 0 .. StarInfinity /\ g_scores[path[k + 1]] \in 0 .. StarInfinity
    BY <1>7, <2>1
  <2>7. upto[k + 1] <= g_scores[path[k + 1]]
    BY <2>2, <2>3, <2>4, <2>5, <2>6, StarConstants
  <2> QED
    BY <2>1, <2>7
<1>10. \A k \in 0 .. n : k \in S
  <2>1. n \in Nat
    BY <1>2
  <2> HIDE DEF S, n
  <2> QED
    BY <1>8, <1>9, <2>1, Upward
<1>11. Star!Cost(path) <= g_scores[goal]
  <2>1. n \in 0 .. n /\ n + 1 = L
    BY <1>2
  <2> QED
    BY <1>1, <1>6, <1>10, <2>1
<1> QED
  BY <1>4, <1>5, <1>11

------------------------------------------------------------------------------
(* What is known of the answer: when the walk begins, and when it is given.*)
StarWalkIsLightest == at = "walk" /\ Star!Admissible => g_scores[goal] <= Star!ToGoal[from]

StarReported ==
  ~Star!Running /\ answer =>
    /\ Star!IsRoute(path)
    /\ Star!Admissible => Star!Cost(path) = Star!ToGoal[from]

(* The path of a source that is the goal. *)
LEMMA StarRouteOfOne ==
  Star!TypeOK /\ from = goal /\ path = <<from>> =>
    Star!IsRoute(path) /\ Star!Cost(path) = Star!ToGoal[from]
<1> SUFFICES ASSUME Star!TypeOK, from = goal, path = <<from>>
             PROVE  Star!IsRoute(path) /\ Star!Cost(path) = Star!ToGoal[from]
  OBVIOUS
<1>1. /\ path \in Seq(Star!Vertices) /\ Len(path) = 1 /\ path[1] = goal /\ path[1] = from
         /\ path # <<>>
      /\ Head(path) = from /\ from \in Star!Vertices
  BY DEF Star!TypeOK
<1>2. Len(path) \in 1 .. StarVertexCount
      /\ \A i \in 1 .. Len(path) - 1 : <<path[i], path[i + 1]>> \in Star!Edges
  BY <1>1, StarConstants
<1>3. Star!IsRoute(path)
  BY <1>1, <1>2 DEF Star!IsRoute
<1>4. Star!Cost(path) = 0
  <2>1. Len(path) >= 1
    BY <1>1
  <2>2. PICK upto \in [1 .. Len(path) -> Nat] : Star!Cost(path) = upto[Len(path)] /\ upto[1] = 0
    BY <1>1, <1>2, <2>1, StarCostAdds
  <2> QED
    BY <1>1, <2>2
<1>5. Star!ToGoal[from] = 0
  <2>1. 0 \in 0 .. StarVertexCount - 1
    BY StarConstants
  <2>2. Star!ToGoal[from] \in Nat /\ Star!ToGoal[from] <= Star!Remaining[0][from]
    BY <1>1, <2>1, StarToGoalIsLeast
  <2>3. Star!Remaining[0][from] = 0
    BY <1>1, StarRemainingSteps DEF StarLast
  <2> QED
    BY <2>2, <2>3
<1> QED
  BY <1>3, <1>4, <1>5

LEMMA StarRouteOfOneNext ==
  (Star!TypeOK /\ from = goal /\ path = <<from>>)' =>
    (Star!IsRoute(path) /\ Star!Cost(path) = Star!ToGoal[from])'
BY StarRouteOfOne, PTL

LEMMA StarSamePath ==
  ASSUME UNCHANGED <<Star!lent, from, goal, path>>
  PROVE  Star!Cost(path)' = Star!Cost(path) /\ Star!IsRoute(path)' = Star!IsRoute(path)
<1>1. borrowed' = borrowed /\ from' = from /\ goal' = goal /\ path' = path
  BY DEF Star!lent
<1>2. Star!Edges' = Star!Edges
  BY <1>1 DEF Star!Edges
<1>3. Star!Cost(path)' = Star!Cost(path)
  BY <1>1 DEF Star!Cost
<1>4. Star!IsRoute(path)' = Star!IsRoute(path)
  BY <1>1, <1>2 DEF Star!IsRoute
<1> QED
  BY <1>3, <1>4

(* Every step keeps that. *)
LEMMA StarAnswerStep ==
  ASSUME StarIndInv, StarWalkIsLightest, StarReported, [Star!Next]_starVars
  PROVE  StarWalkIsLightest' /\ StarReported'
<1>1. Star!TypeOK /\ Star!TypeOK'
  BY StarTypeStep DEF StarIndInv
<1>2. ASSUME Star!Running', at' # "walk"
      PROVE  StarWalkIsLightest' /\ StarReported'
  BY <1>2 DEF StarWalkIsLightest, StarReported
<1>3. ASSUME ~Star!Running', ~answer'
      PROVE  StarWalkIsLightest' /\ StarReported'
  BY <1>3 DEF StarWalkIsLightest, StarReported, Star!Running
<1>4. ASSUME NEW s \in Star!Vertices, Star!SourceIsGoal(s)
      PROVE  StarWalkIsLightest' /\ StarReported'
  <2>1. from' = goal' /\ path' = <<from'>> /\ at' = "idle"
    BY <1>4 DEF Star!SourceIsGoal
  <2>2. Star!IsRoute(path)' /\ (Star!Cost(path) = Star!ToGoal[from])'
    BY <1>1, <2>1, StarRouteOfOneNext
  <2> QED
    BY <2>1, <2>2 DEF StarWalkIsLightest, StarReported, Star!Running
<1>5. CASE Star!FindGoal
  <2>1. /\ UNCHANGED <<Star!lent, from, goal>> /\ g_scores' = g_scores /\ goal' = goal
           /\ from' = from
        /\ at' = "walk"
    BY <1>5 DEF Star!FindGoal, Star!scores
  <2>2. Star!ToGoal' = Star!ToGoal /\ Star!Admissible' = Star!Admissible
    BY <2>1, StarSameQuestion
  <2>3. Star!Admissible => g_scores[goal] <= Star!ToGoal[from]
    BY <1>5, StarGoalIsNearest
  <2> QED
    BY <2>1, <2>2, <2>3 DEF StarWalkIsLightest, StarReported, Star!Running
<1>6. ASSUME NEW c, Star!PutOut(c)
      PROVE  StarWalkIsLightest' /\ StarReported'
  <2>1. /\ at = "walk" /\ Head(path) = from /\ at' = "idle"
        /\ UNCHANGED <<Star!lent, from, goal>> /\ from' = from
        /\ answer' => path' = path
    BY <1>6 DEF Star!PutOut, Star!Return
  <2>2. path[1] = from
    BY <2>1, StarNeverLost
  <2>3. /\ Star!IsRoute(path) /\ Star!Cost(path) \in Nat
        /\ Star!ToGoal[from] <= Star!Cost(path) /\ Star!Cost(path) <= g_scores[goal]
    BY <2>1, <2>2, StarWalkIsRoute
  <2>4. Star!Admissible => g_scores[goal] <= Star!ToGoal[from]
    BY <2>1 DEF StarWalkIsLightest
  <2>5. Star!ToGoal[from] \in Nat /\ g_scores[goal] \in 0 .. StarInfinity /\ StarInfinity \in Nat
    BY <1>1, StarToGoalIsLeast, StarConstants DEF Star!TypeOK
  <2>6. Star!Admissible => Star!Cost(path) = Star!ToGoal[from]
    BY <2>3, <2>4, <2>5
  <2>7. Star!ToGoal' = Star!ToGoal /\ Star!Admissible' = Star!Admissible
    BY <2>1, StarSameQuestion
  <2>8. answer' => Star!Cost(path)' = Star!Cost(path) /\ Star!IsRoute(path)' = Star!IsRoute(path)
    BY <2>1, StarSamePath
  <2> QED
    BY <2>1, <2>3, <2>6, <2>7, <2>8 DEF StarWalkIsLightest, StarReported, Star!Running
<1>7. ASSUME Star!Return(FALSE)
      PROVE  StarWalkIsLightest' /\ StarReported'
  BY <1>3, <1>7 DEF Star!Return, Star!Running
<1>8. CASE Star!WalkBack
  <2>1. CASE Star!LostTrack
    BY <1>7, <1>8, <2>1 DEF Star!WalkBack
  <2>2. CASE ~Star!LostTrack
    <3>1. /\ at = "walk" /\ UNCHANGED <<Star!lent, from, goal>> /\ g_scores' = g_scores
          /\ goal' = goal /\ from' = from /\ at' = "walk"
      BY <1>8, <2>2 DEF Star!WalkBack, Star!scores
    <3>2. Star!ToGoal' = Star!ToGoal /\ Star!Admissible' = Star!Admissible
      BY <3>1, StarSameQuestion
    <3> QED
      BY <3>1, <3>2 DEF StarWalkIsLightest, StarReported, Star!Running
  <2> QED
    BY <2>1, <2>2
<1>9. CASE UNCHANGED starVars
  <2>1. /\ UNCHANGED <<Star!lent, from, goal, path>> /\ g_scores' = g_scores
        /\ goal' = goal /\ from' = from /\ at' = at /\ answer' = answer
    BY <1>9 DEF starVars, Star!lent, Star!scores
  <2>2. Star!ToGoal' = Star!ToGoal /\ Star!Admissible' = Star!Admissible
    BY <2>1, StarSameQuestion
  <2>3. Star!Cost(path)' = Star!Cost(path) /\ Star!IsRoute(path)' = Star!IsRoute(path)
    BY <2>1, StarSamePath
  <2> QED
    BY <2>1, <2>2, <2>3 DEF StarWalkIsLightest, StarReported, Star!Running
<1>10. CASE Star!Expand \/ Star!DropStale
  BY <1>2, <1>10 DEF Star!Expand, Star!DropStale, Star!Running
<1>11. CASE Star!Expanded \/ \E v \in Star!Vertices : Star!RelaxKeeps(v) \/ Star!RelaxImproves(v)
  BY <1>2, <1>11 DEF Star!Expanded, Star!RelaxKeeps, Star!RelaxImproves, Star!Running
<1>12. CASE Star!Refuse
  BY <1>3, <1>12 DEF Star!Refuse, Star!Running
<1>13. CASE \E r \in StarRequests : Star!Begin(r[1], r[2])
  BY <1>2, <1>13 DEF Star!Begin, Star!Running
<1> QED
  BY <1>4, <1>5, <1>6, <1>7, <1>8, <1>9, <1>10, <1>11, <1>12, <1>13
     DEF Star!Next, Star!Step, Star!Drained, Star!RelaxFails

LEMMA StarInitAnswer == Star!Init => StarWalkIsLightest /\ StarReported
BY DEF Star!Init, StarWalkIsLightest, StarReported, Star!Running

LEMMA StarAnswerImplies == StarIndInv /\ StarWalkIsLightest /\ StarReported
=> Star!RouteIsLightest
BY StarDrainedMeans DEF Star!RouteIsLightest, StarReported

------------------------------------------------------------------------------
(* A step of either search is a step of A*, or one that it rests in.       *)
LEMMA StarSteps ==
  /\ SearchesInit => Star!Init
  /\ [SearchesNext]_searchVars => [Star!Next]_starVars
<1>1. SearchesInit => Star!Init
  BY DEF SearchesInit
<1>2. [SearchesNext]_searchVars => [Star!Next]_starVars
  BY DEF SearchesNext, searchVars
<1> QED
  BY <1>1, <1>2

(* a_star.c keeps its invariant: whatever the graph and the estimate, a    *)
(* score waits in the heap or has been carried on, the parents lead to the *)
(* source, the walk back follows them, and every way out frees all.        *)
THEOREM StarKeepsInvariant == SearchesSpec => []StarInvariant
<1>1. StarIndInv => StarInvariant
  BY StarIndInvImplies DEF StarInvariant
<1> QED
  BY <1>1, StarSteps, StarInductive, PTL DEF SearchesSpec

(* The path a_star.c puts out is a simple path of the graph from source to *)
(* goal, for every estimate; a lightest one when the estimate is           *)
(* admissible, consistent or not; and where it reports no route, none is   *)
(* lighter than UINT64_MAX.                                                *)
THEOREM StarFindsLightest == SearchesSpec => []RouteIsLightest
<1>1. StarIndInv /\ StarWalkIsLightest /\ StarReported => RouteIsLightest
  BY StarAnswerImplies DEF RouteIsLightest
<1>2. StarIndInv /\ StarWalkIsLightest /\ StarReported /\ [Star!Next]_starVars
        => StarWalkIsLightest' /\ StarReported'
  BY StarAnswerStep
<1> QED
  BY <1>1, <1>2, StarSteps, StarInductive, StarInitAnswer, PTL DEF SearchesSpec
==============================================================================
