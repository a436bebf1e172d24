------------------------ MODULE MCWeightedGraphsProofs ------------------------
(***************************************************************************)
(* Both representations of a graph stay well formed and implement          *)
(* WeightedGraph, whatever the number of nodes and the limits of the types *)
(* are: what the run of MCWeightedGraphs checks of three nodes.            *)
(*                                                                         *)
(* The matrix first.  MatrixInv says which cells its array has, that those *)
(* past node_count are empty, that an undirected graph's are symmetric,    *)
(* and that edge_count is the number of edges; the last needs what one     *)
(* edge more or less does to the number of edges.                          *)
(*                                                                         *)
(* ListInv says the same of the rows of the adjacency list.  While the     *)
(* second record of an undirected edge is still to be added the rows are   *)
(* not symmetric: what is promised is the graph of the settled edges, the  *)
(* ones whose two records are there.  That no node's array outgrows the    *)
(* array of nodes, so that its size in bytes fits, needs one thing more:   *)
(* capacities are doubled from 1.                                          *)
(***************************************************************************)
EXTENDS MCWeightedGraphs, Arithmetic, Sequences, FiniteSetTheorems

(* ------------------------------- the matrix ------------------------------- *)
(* The cells of a square of width c, row by row.                           *)
LEMMA CellOfPair ==
  ASSUME NEW c \in Nat, NEW i \in 0 .. c - 1, NEW j \in 0 .. c - 1
  PROVE  /\ i * c + j \in 0 .. c * c - 1
         /\ (i * c + j) \div c = i
         /\ (i * c + j) % c = j
<1>1. i * c \in Nat /\ c * c \in Nat /\ i * c + c <= c * c
  <2>1. (i + 1) * c <= c * c
    OBVIOUS
  <2>2. (i + 1) * c = i * c + c
    OBVIOUS
  <2> QED
    BY <2>1, <2>2
<1>2. i * c + j \in 0 .. c * c - 1
  BY <1>1
<1>3. (i * c + j) \div c = i
  OBVIOUS
<1>4. (i * c + j) % c = j
  OBVIOUS
<1> QED
  BY <1>2, <1>3, <1>4

LEMMA PairOfCell ==
  ASSUME NEW c \in Nat, NEW n \in 0 .. c * c - 1
  PROVE  /\ c > 0
         /\ n \div c \in 0 .. c - 1
         /\ n % c \in 0 .. c - 1
         /\ n = (n \div c) * c + (n % c)
<1>1. c > 0
  OBVIOUS
<1>2. n % c \in 0 .. c - 1 /\ n \div c \in Nat /\ n = (n \div c) * c + (n % c)
  BY <1>1
<1>3. n \div c <= c - 1
  <2>1. SUFFICES ASSUME n \div c >= c PROVE FALSE
    BY <1>2
  <2>2. (n \div c) * c >= c * c
    BY <1>1, <1>2, <2>1
  <2> QED
    BY <1>2, <2>2
<1> QED
  BY <1>1, <1>2, <1>3

LEMMA DividedFits ==
  ASSUME NEW m \in Nat, NEW n \in Nat, NEW b \in Nat \ {0}, n <= m \div b
  PROVE  n * b <= m
<1>1. (m \div b) * b <= m
  OBVIOUS
<1>2. n * b <= (m \div b) * b
  OBVIOUS
<1> QED
  BY <1>1, <1>2

(* The logical edges of a graph with these joined pairs of nodes, and what *)
(* one of them more or less does to their number.                          *)
Ends(d, i, j) == IF d THEN {<<i, j>>} ELSE {<<i, j>>, <<j, i>>}

LogicalEdges(d, pairs) == IF d THEN pairs ELSE {{e[1], e[2]} : e \in pairs}

Symmetric(pairs) == \A i, j : <<i, j>> \in pairs => <<j, i>> \in pairs

(* What the pairs joined by a graph with nodes S are.                      *)
JoinedIn(d, S, pairs) ==
  pairs \in SUBSET (S \X S) /\ IsFiniteSet(pairs) /\ (~d => Symmetric(pairs))

LEMMA LogicalFinite ==
  ASSUME NEW d \in BOOLEAN, NEW pairs, IsFiniteSet(pairs)
  PROVE  /\ IsFiniteSet(LogicalEdges(d, pairs))
         /\ Cardinality(LogicalEdges(d, pairs)) <= Cardinality(pairs)
         /\ Cardinality(LogicalEdges(d, pairs)) \in Nat
<1>1. /\ IsFiniteSet({{e[1], e[2]} : e \in pairs})
      /\ Cardinality({{e[1], e[2]} : e \in pairs}) <= Cardinality(pairs)
  <2> DEFINE f == [e \in pairs |-> {e[1], e[2]}]
             T == {{e[1], e[2]} : e \in pairs}
  <2>1. f \in Surjection(pairs, T)
    BY DEF Surjection
  <2> HIDE DEF f, T
  <2>2. IsFiniteSet(T) /\ Cardinality(T) <= Cardinality(pairs)
    BY <2>1, FS_Surjection
  <2> QED
    BY <2>2 DEF T
<1>2. Cardinality(pairs) <= Cardinality(pairs)
  BY FS_CardinalityType
<1>3. /\ IsFiniteSet(LogicalEdges(d, pairs))
      /\ Cardinality(LogicalEdges(d, pairs)) <= Cardinality(pairs)
  BY <1>1, <1>2 DEF LogicalEdges
<1> QED
  BY <1>3, FS_CardinalityType

(* The logical edge between i and j, as LogicalEdges has it.               *)
Edge(d, i, j) == IF d THEN <<i, j>> ELSE {i, j}

LEMMA EdgeIsLogical ==
  ASSUME NEW d \in BOOLEAN, NEW S, NEW pairs, JoinedIn(d, S, pairs),
         NEW i \in S, NEW j \in S
  PROVE  Edge(d, i, j) \in LogicalEdges(d, pairs) <=> <<i, j>> \in pairs
<1>1. CASE d
  BY <1>1 DEF Edge, LogicalEdges
<1>2. CASE ~d
  <2>1. ASSUME <<i, j>> \in pairs PROVE {i, j} \in {{e[1], e[2]} : e \in pairs}
    <3>1. <<i, j>>[1] = i /\ <<i, j>>[2] = j
      OBVIOUS
    <3> QED
      BY <2>1, <3>1
  <2>2. ASSUME NEW e \in pairs, {i, j} = {e[1], e[2]} PROVE <<i, j>> \in pairs
    <3>1. e = <<e[1], e[2]>>
      BY DEF JoinedIn
    <3>2. (e[1] = i /\ e[2] = j) \/ (e[1] = j /\ e[2] = i)
      BY <2>2
    <3>3. e = <<i, j>> \/ e = <<j, i>>
      BY <3>1, <3>2
    <3> QED
      BY <1>2, <3>3 DEF Symmetric, JoinedIn
  <2> QED
    BY <1>2, <2>1, <2>2 DEF Edge, LogicalEdges
<1> QED
  BY <1>1, <1>2

LEMMA EdgeAdded ==
  ASSUME NEW d \in BOOLEAN, NEW S, NEW pairs, JoinedIn(d, S, pairs),
         NEW i \in S, NEW j \in S, <<i, j>> \notin pairs
  PROVE  /\ LogicalEdges(d, pairs \cup Ends(d, i, j)) = LogicalEdges(d, pairs) \cup {Edge(d, i, j)}
         /\ Cardinality(LogicalEdges(d, pairs \cup Ends(d, i, j)))
              = Cardinality(LogicalEdges(d, pairs)) + 1
<1>1. LogicalEdges(d, pairs \cup Ends(d, i, j)) = LogicalEdges(d, pairs) \cup {Edge(d, i, j)}
  <2>1. CASE d
    BY <2>1 DEF LogicalEdges, Ends, Edge
  <2>2. CASE ~d
    <3>1. {{e[1], e[2]} : e \in pairs \cup {<<i, j>>, <<j, i>>}}
            = {{e[1], e[2]} : e \in pairs} \cup {{i, j}}
      OBVIOUS
    <3> QED
      BY <2>2, <3>1 DEF LogicalEdges, Ends, Edge
  <2> QED
    BY <2>1, <2>2
<1>2. Edge(d, i, j) \notin LogicalEdges(d, pairs)
  BY EdgeIsLogical
<1>3. IsFiniteSet(LogicalEdges(d, pairs))
  BY LogicalFinite DEF JoinedIn
<1> QED
  BY <1>1, <1>2, <1>3, FS_AddElement

LEMMA EdgeDropped ==
  ASSUME NEW d \in BOOLEAN, NEW S, NEW pairs, JoinedIn(d, S, pairs),
         NEW i \in S, NEW j \in S, <<i, j>> \in pairs
  PROVE  /\ Cardinality(LogicalEdges(d, pairs)) > 0
         /\ Cardinality(LogicalEdges(d, pairs \ Ends(d, i, j)))
              = Cardinality(LogicalEdges(d, pairs)) - 1
<1> DEFINE rest == pairs \ Ends(d, i, j)
<1>1. rest \in SUBSET (S \X S) /\ <<i, j>> \notin rest /\ IsFiniteSet(rest)
  BY FS_Subset DEF Ends, JoinedIn
<1>2. JoinedIn(d, S, rest)
  BY <1>1 DEF Ends, Symmetric, JoinedIn
<1>3. rest \cup Ends(d, i, j) = pairs
  BY DEF Ends, Symmetric, JoinedIn
<1> HIDE DEF rest
<1>4. Cardinality(LogicalEdges(d, pairs)) = Cardinality(LogicalEdges(d, rest)) + 1
  <2>1. Cardinality(LogicalEdges(d, rest \cup Ends(d, i, j)))
          = Cardinality(LogicalEdges(d, rest)) + 1
    BY <1>1, <1>2, EdgeAdded
  <2> QED
    BY <1>3, <2>1
<1>5. Cardinality(LogicalEdges(d, rest)) \in Nat
  BY <1>1, LogicalFinite
<1> QED
  BY <1>4, <1>5 DEF rest

------------------------------------------------------------------------------
(* The matrix by rows and columns.                                         *)
Places == 0 .. node_capacity - 1

At(i, j) == edges[i * node_capacity + j]

Pairs == {e \in Nodes \X Nodes : At(e[1], e[2]) # Absent}

(* The cells are a square whose size was checked when it was allocated.    *)
MatrixFits ==
  /\ live \in BOOLEAN /\ directed \in BOOLEAN
  /\ node_capacity \in Nat /\ node_count \in Nat /\ node_count <= node_capacity
  /\ node_capacity <= SizeMax /\ node_capacity * node_capacity <= SizeMax
  /\ ~live => ~directed /\ node_capacity = 0
  /\ DOMAIN edges = 0 .. node_capacity * node_capacity - 1

MatrixCells ==
  \A i, j \in Places : At(i, j) # Absent =>
    i \in Nodes /\ j \in Nodes /\ At(i, j) \in [to : {j}, weight : Weight]

MatrixMirrors ==
  ~directed => \A i, j \in Nodes : At(i, j) # Absent =>
    At(j, i) # Absent /\ At(i, j).weight = At(j, i).weight

MatrixCounts ==
  /\ edge_count \in 0 .. MaxEdges
  /\ edge_count = Cardinality(LogicalEdges(directed, Pairs))

MatrixInv == MatrixFits /\ MatrixCells /\ MatrixMirrors /\ MatrixCounts /\ OwnsItsBlocks

LEMMA NodesArePlaces ==
  ASSUME MatrixFits
  PROVE  Nodes \subseteq Places /\ Places \subseteq Nat
BY DEF MatrixFits, Nodes, Places

LEMMA AddressIs ==
  ASSUME MatrixFits, NEW i \in Places, NEW j \in Places
  PROVE  Address(i, j) = i * node_capacity + j
<1>1. node_capacity \in Nat /\ node_capacity * node_capacity <= SizeMax /\ SizeMax \in Nat
  BY SizeAssumption DEF MatrixFits
<1>2. i * node_capacity + j \in 0 .. node_capacity * node_capacity - 1
  BY <1>1, CellOfPair DEF Places
<1>3. i * node_capacity \in Nat /\ i \in Nat /\ j \in Nat
  BY <1>1 DEF Places
<1>4. i * node_capacity + j \in 0 .. SizeMax /\ i * node_capacity \in 0 .. SizeMax
  <2> DEFINE p == i * node_capacity
             q == node_capacity * node_capacity
  <2>1. p \in Nat /\ p + j \in 0 .. q - 1 /\ q <= SizeMax /\ q \in Nat
    BY <1>1, <1>2, <1>3
  <2> HIDE DEF p, q
  <2>2. p + j \in 0 .. SizeMax /\ p \in 0 .. SizeMax
    BY <1>1, <1>3, <2>1
  <2> QED
    BY <2>2 DEF p
<1> QED
  BY <1>1, <1>4, FitsInWord DEF Address, Wrap

LEMMA HasEdgeIs ==
  ASSUME MatrixFits, NEW i \in Places, NEW j \in Places
  PROVE  HasEdge(i, j) <=> At(i, j) # Absent
BY AddressIs DEF HasEdge, At

LEMMA PairsAreJoined ==
  ASSUME MatrixInv
  PROVE  JoinedIn(directed, Nodes, Pairs)
<1>1. Pairs \in SUBSET (Nodes \X Nodes)
  BY DEF Pairs
<1>2. IsFiniteSet(Nodes)
  BY FS_Interval DEF MatrixInv, MatrixFits, Nodes
<1>3. IsFiniteSet(Nodes \X Nodes)
  BY <1>2, FS_Product
<1>4. IsFiniteSet(Pairs)
  BY <1>1, <1>3, FS_Subset
<1>5. ~directed => Symmetric(Pairs)
  BY DEF MatrixInv, MatrixMirrors, Pairs, Symmetric
<1> QED
  BY <1>1, <1>4, <1>5 DEF JoinedIn

LEMMA MatrixInvIsRight ==
  ASSUME MatrixInv
  PROVE  WellFormed /\ Mirrored
<1>1. MatrixFits /\ Nodes \subseteq Places
  BY NodesArePlaces DEF MatrixInv
<1>2. ASSUME NEW n \in DOMAIN edges, edges[n] # Absent
      PROVE  /\ n \div node_capacity \in Nodes /\ n % node_capacity \in Nodes
             /\ edges[n] \in [to : {n % node_capacity}, weight : Weight]
  <2>1. /\ n \div node_capacity \in Places /\ n % node_capacity \in Places
        /\ n = (n \div node_capacity) * node_capacity + (n % node_capacity)
    BY <1>1, PairOfCell DEF MatrixFits, Places
  <2> DEFINE i == n \div node_capacity
             j == n % node_capacity
  <2>2. i \in Places /\ j \in Places /\ At(i, j) = edges[n]
    BY <2>1 DEF At
  <2> HIDE DEF i, j
  <2>3. i \in Nodes /\ j \in Nodes /\ edges[n] \in [to : {j}, weight : Weight]
    BY <1>2, <2>2 DEF MatrixInv, MatrixCells
  <2> QED
    BY <2>3 DEF i, j
<1>3. TypeOK
  <2>1. blocks \in Nat
    BY DEF MatrixInv, MatrixFits, OwnsItsBlocks, Arrays
  <2>2. \A n \in DOMAIN edges : edges[n] = Absent \/ edges[n].weight \in Weight
    BY <1>2
  <2> QED
    BY <2>1, <2>2 DEF MatrixInv, MatrixFits, MatrixCounts, TypeOK
<1>4. SquareOfCapacity
  <2>1. \A i, j \in Nodes : Address(i, j) = i * node_capacity + j
    BY <1>1, AddressIs
  <2> QED
    BY <1>1, <2>1 DEF MatrixFits, SquareOfCapacity, Slots
<1>5. CellsLieRight
  <2>1. \A n \in DOMAIN edges : edges[n] # Absent => edges[n].to = n % node_capacity
    BY <1>2
  <2> QED
    BY <1>2, <2>1 DEF CellsLieRight
<1>6. Mirrored
  <2>1. \A i, j \in Nodes : HasEdge(i, j) <=> At(i, j) # Absent
    BY <1>1, HasEdgeIs
  <2>2. \A i, j \in Nodes : edges[Address(i, j)] = At(i, j)
    BY <1>1, AddressIs DEF At
  <2> QED
    BY <2>1, <2>2 DEF MatrixInv, MatrixMirrors, Mirrored
<1> QED
  BY <1>3, <1>4, <1>5, <1>6 DEF WellFormed, MatrixInv

------------------------------------------------------------------------------
(* No nodes.                                                               *)
EmptyMatrix ==
  /\ live \in BOOLEAN /\ directed \in BOOLEAN /\ (~live => ~directed)
  /\ node_capacity = 0 /\ node_count = 0 /\ edge_count = 0 /\ DOMAIN edges = {}
  /\ blocks = IF live THEN 1 ELSE 0

LEMMA EmptyMatrixIsRight == EmptyMatrix => MatrixInv
<1> SUFFICES ASSUME EmptyMatrix PROVE MatrixInv
  OBVIOUS
<1>1. Nodes = {} /\ Places = {}
  BY DEF EmptyMatrix, Nodes, Places
<1>2. Pairs = {}
  BY <1>1 DEF Pairs
<1>3. LogicalEdges(directed, Pairs) = {}
  BY <1>2 DEF LogicalEdges
<1>4. Cardinality(LogicalEdges(directed, Pairs)) = 0
  BY <1>3, FS_EmptySet
<1>5. MatrixFits
  BY SizeAssumption DEF EmptyMatrix, MatrixFits
<1>6. MatrixCounts
  BY <1>4, MatrixAssumption DEF EmptyMatrix, MatrixCounts
<1>7. OwnsItsBlocks
  BY DEF EmptyMatrix, OwnsItsBlocks, Arrays
<1> QED
  BY <1>1, <1>5, <1>6, <1>7 DEF MatrixInv, MatrixCells, MatrixMirrors

LEMMA EmptyMatrixIsRightNext == EmptyMatrix' => MatrixInv'
<1>1. (EmptyMatrix => MatrixInv)'
  BY EmptyMatrixIsRight, PTL
<1> QED
  BY <1>1

LEMMA NoPlaces ==
  ASSUME MatrixInv, node_capacity = 0
  PROVE  /\ node_count = 0 /\ edge_count = 0 /\ DOMAIN edges = {}
         /\ Nodes = {} /\ Pairs = {} /\ Arrays = 0
<1>1. node_count = 0 /\ DOMAIN edges = {}
  BY DEF MatrixInv, MatrixFits
<1>2. Nodes = {}
  BY <1>1 DEF Nodes
<1>3. Pairs = {}
  BY <1>2 DEF Pairs
<1>4. LogicalEdges(directed, Pairs) = {}
  BY <1>3 DEF LogicalEdges
<1>5. edge_count = 0
  BY <1>4, FS_EmptySet DEF MatrixInv, MatrixCounts
<1> QED
  BY <1>1, <1>2, <1>3, <1>5 DEF Arrays

LEMMA MatrixInitIsRight == Init => MatrixInv
<1>1. Init => EmptyMatrix
  BY DEF Init, EmptyMatrix, NoCells
<1> QED
  BY <1>1, EmptyMatrixIsRight

LEMMA MatrixRestKeeps ==
  ASSUME MatrixInv, UNCHANGED graph
  PROVE  MatrixInv' /\ Pairs' = Pairs
<1>1. UNCHANGED <<live, directed, edge_count, node_capacity, node_count, edges, blocks>>
  BY DEF graph
<1>2. /\ Nodes' = Nodes /\ Places' = Places /\ Arrays' = Arrays
      /\ \A i, j : At(i, j)' = At(i, j)
  BY <1>1 DEF Nodes, Places, Arrays, At
<1>3. Pairs' = Pairs
  BY <1>2, Zenon DEF Pairs
<1>4. MatrixFits' /\ OwnsItsBlocks' /\ MatrixCounts'
  BY <1>1, <1>2, <1>3, Zenon DEF MatrixInv, MatrixFits, MatrixCounts, OwnsItsBlocks
<1>5. MatrixCells' /\ MatrixMirrors'
  BY <1>1, <1>2, Zenon DEF MatrixInv, MatrixCells, MatrixMirrors
<1> QED
  BY <1>3, <1>4, <1>5 DEF MatrixInv

------------------------------------------------------------------------------
LEMMA GrowthFits ==
  ASSUME MatrixInv, CanGrow
  PROVE  /\ NewCapacity \in Nat /\ NewCapacity > node_capacity
         /\ NewCapacity <= SizeMax /\ NewCapacity * NewCapacity <= SizeMax
         /\ DOMAIN Remapped = 0 .. NewCapacity * NewCapacity - 1
<1> DEFINE C == NewCapacity
<1>1. SizeMax \in Nat /\ PtrSize \in Nat \ {0} /\ EdgeSize \in Nat \ {0} /\ node_capacity \in Nat
  BY SizeAssumption, MatrixAssumption DEF MatrixInv, MatrixFits
<1>2. C \in Nat /\ C > node_capacity
  <2>1. CASE node_capacity = 0
    BY <2>1 DEF NewCapacity
  <2>2. CASE node_capacity # 0
    <3>1. node_capacity * 2 \in 0 .. SizeMax
      BY <1>1 DEF CanGrow
    <3> QED
      BY <1>1, <2>2, <3>1, FitsInWord DEF NewCapacity, Wrap
  <2> QED
    BY <2>1, <2>2
<1>3. C * C <= SizeMax
  <2>1. C \in Nat \ {0} /\ C <= SizeMax \div C
    BY <1>1, <1>2 DEF CanGrow
  <2> HIDE DEF C
  <2> QED
    BY <1>1, <2>1, DividedFits
<1>4. C * C \in Nat /\ C <= C * C
  BY <1>1, <1>2
<1>5. NewCells = C * C
  BY <1>1, <1>3, <1>4, FitsInWord DEF NewCells, Wrap
<1>6. CellsGranted(NewCells) = C * C
  <2>1. (C * C) * EdgeSize <= SizeMax
    <3>1. C * C <= SizeMax \div EdgeSize
      BY <1>5 DEF CanGrow
    <3> QED
      BY <1>1, <1>4, <3>1, DividedFits
  <2>2. (C * C) * EdgeSize \in 0 .. SizeMax
    BY <1>1, <1>4, <2>1
  <2>3. Wrap((C * C) * EdgeSize) = (C * C) * EdgeSize
    BY <1>1, <2>2, FitsInWord DEF Wrap
  <2> DEFINE q == C * C
  <2>4. (q * EdgeSize) \div EdgeSize = q
    <3>1. q \in Nat
      BY <1>4
    <3> HIDE DEF q
    <3> QED
      BY <1>1, <3>1
  <2> QED
    BY <1>5, <2>3, <2>4 DEF CellsGranted
<1>7. DOMAIN Remapped = 0 .. C * C - 1
  BY <1>6 DEF Remapped, Slots
<1> QED
  BY <1>1, <1>2, <1>3, <1>4, <1>7

LEMMA GrowthMoves ==
  ASSUME MatrixInv, CanGrow, NEW i \in 0 .. NewCapacity - 1, NEW j \in 0 .. NewCapacity - 1
  PROVE  Remapped[i * NewCapacity + j]
           = IF i < node_capacity /\ j < node_capacity THEN At(i, j) ELSE Absent
<1> DEFINE n == i * NewCapacity + j
<1>1. n \in DOMAIN Remapped /\ n \div NewCapacity = i /\ n % NewCapacity = j
  BY GrowthFits, CellOfPair
<1>2. \A m \in DOMAIN Remapped :
        Remapped[m] = IF m \div NewCapacity < node_capacity /\ m % NewCapacity < node_capacity
                      THEN edges[(m \div NewCapacity) * node_capacity + (m % NewCapacity)]
                      ELSE Absent
  BY DEF Remapped
<1> HIDE DEF n
<1>3. Remapped[n] = IF i < node_capacity /\ j < node_capacity
                    THEN edges[i * node_capacity + j] ELSE Absent
  BY <1>1, <1>2
<1> QED
  BY <1>3 DEF n, At

(* A larger square shows what the old one showed.                          *)
LEMMA AddNodeMoves ==
  ASSUME MatrixInv, AddNode
  PROVE  /\ MatrixFits' /\ node_count' = node_count + 1 /\ node_capacity' >= node_capacity
         /\ \A i, j \in Places' :
              At(i, j)' = IF i \in Places /\ j \in Places THEN At(i, j) ELSE Absent
<1>1. SizeMax \in Nat /\ node_capacity \in Nat /\ node_count \in Nat /\ node_count <= node_capacity
      /\ node_capacity <= SizeMax
  BY SizeAssumption DEF MatrixInv, MatrixFits
<1>2. CASE node_count = node_capacity
  <2>1. CanGrow /\ node_capacity' = NewCapacity /\ edges' = Remapped
    BY <1>2 DEF AddNode
  <2>2. /\ NewCapacity \in Nat /\ NewCapacity > node_capacity
        /\ NewCapacity <= SizeMax /\ NewCapacity * NewCapacity <= SizeMax
        /\ DOMAIN Remapped = 0 .. NewCapacity * NewCapacity - 1
    BY <2>1, GrowthFits
  <2>3. node_count' = node_count + 1
    <3>1. node_count + 1 \in 0 .. SizeMax
      BY <1>1, <1>2, <2>2
    <3> QED
      BY <1>1, <3>1, FitsInWord DEF AddNode, Wrap
  <2>4. \A i, j \in Places' :
          At(i, j)' = IF i \in Places /\ j \in Places THEN At(i, j) ELSE Absent
    <3>1. \A i, j \in 0 .. NewCapacity - 1 :
            Remapped[i * NewCapacity + j]
              = IF i < node_capacity /\ j < node_capacity THEN At(i, j) ELSE Absent
      BY <2>1, GrowthMoves
    <3>2. \A i \in 0 .. NewCapacity - 1 : i < node_capacity <=> i \in Places
      BY <1>1, <2>2 DEF Places
    <3>3. \A i, j \in 0 .. NewCapacity - 1 :
            Remapped[i * NewCapacity + j]
              = IF i \in Places /\ j \in Places THEN At(i, j) ELSE Absent
      BY <3>1, <3>2
    <3> QED
      BY <2>1, <3>3 DEF Places, At
  <2>5. MatrixFits'
    BY <1>1, <1>2, <2>1, <2>2, <2>3 DEF MatrixInv, MatrixFits, AddNode
  <2> QED
    BY <1>1, <2>1, <2>2, <2>3, <2>4, <2>5
<1>3. CASE node_count # node_capacity
  <2>1. node_capacity' = node_capacity /\ edges' = edges
    BY <1>3 DEF AddNode
  <2>2. node_count' = node_count + 1
    <3>1. node_count + 1 \in 0 .. SizeMax
      BY <1>1, <1>3
    <3> QED
      BY <1>1, <3>1, FitsInWord DEF AddNode, Wrap
  <2>3. MatrixFits'
    BY <1>1, <1>3, <2>1, <2>2 DEF MatrixInv, MatrixFits, AddNode
  <2>4. \A i, j \in Places' : i \in Places /\ j \in Places /\ At(i, j)' = At(i, j)
    BY <2>1 DEF Places, At
  <2> QED
    BY <1>1, <2>1, <2>2, <2>3, <2>4
<1> QED
  BY <1>2, <1>3

LEMMA AddNodeKeeps ==
  ASSUME MatrixInv, AddNode
  PROVE  /\ MatrixInv' /\ Pairs' = Pairs /\ node_count' = node_count + 1
         /\ \A i, j \in Nodes : At(i, j)' = At(i, j)
<1>1. /\ MatrixFits' /\ node_count' = node_count + 1 /\ node_capacity' >= node_capacity
      /\ \A i, j \in Places' :
           At(i, j)' = IF i \in Places /\ j \in Places THEN At(i, j) ELSE Absent
  BY AddNodeMoves
<1>2. /\ live /\ live' = live /\ directed' = directed /\ edge_count' = edge_count
      /\ node_count \in Nat /\ node_capacity \in Nat /\ node_capacity' \in Nat
      /\ node_count <= node_capacity
  BY <1>1 DEF AddNode, MatrixInv, MatrixFits
<1>3. Nodes \subseteq Nodes' /\ Nodes \subseteq Places /\ Places \subseteq Places'
      /\ Nodes' \subseteq Places'
  <2>1. node_count' <= node_capacity'
    BY <1>1 DEF MatrixFits
  <2>2. /\ Nodes = 0 .. node_count - 1 /\ Places = 0 .. node_capacity - 1
        /\ Nodes' = 0 .. node_count' - 1 /\ Places' = 0 .. node_capacity' - 1
    BY DEF Nodes, Places
  <2>3. /\ node_count <= node_count' /\ node_count' \in Nat
        /\ node_capacity' >= node_capacity
    BY <1>1, <1>2
  <2>4. \A m, n \in Nat : m <= n => 0 .. m - 1 \subseteq 0 .. n - 1
    OBVIOUS
  <2> QED
    BY <1>2, <2>1, <2>2, <2>3, <2>4
<1>4. \A i, j \in Places' : At(i, j)' # Absent =>
        i \in Nodes /\ j \in Nodes /\ At(i, j)' = At(i, j) /\ At(i, j) # Absent
  BY <1>1, <1>3 DEF MatrixInv, MatrixCells
<1>5. \A i, j \in Nodes : At(i, j)' = At(i, j)
  BY <1>1, <1>3
<1>6. MatrixCells'
  <2>1. \A i, j \in Places' : At(i, j)' # Absent =>
          i \in Nodes' /\ j \in Nodes' /\ At(i, j)' \in [to : {j}, weight : Weight]
    BY <1>3, <1>4 DEF MatrixInv, MatrixCells
  <2> QED
    BY <2>1 DEF MatrixCells
<1>7. MatrixMirrors'
  <2>1. ASSUME ~directed, NEW i \in Nodes', NEW j \in Nodes', At(i, j)' # Absent
        PROVE  At(j, i)' # Absent /\ At(i, j)'.weight = At(j, i)'.weight
    <3>1. i \in Nodes /\ j \in Nodes /\ At(i, j) # Absent
      BY <1>3, <1>4, <2>1
    <3>2. At(j, i) # Absent /\ At(i, j).weight = At(j, i).weight
      BY <2>1, <3>1 DEF MatrixInv, MatrixMirrors
    <3> QED
      BY <1>5, <3>1, <3>2
  <2> QED
    BY <1>2, <2>1 DEF MatrixMirrors
<1>8. Pairs' = Pairs
  <2>1. \A i, j \in Nodes' : At(i, j)' # Absent => i \in Nodes /\ j \in Nodes /\ At(i, j) # Absent
    BY <1>3, <1>4
  <2>2. \A i, j \in Nodes : At(i, j) # Absent => i \in Nodes' /\ j \in Nodes' /\ At(i, j)' # Absent
    BY <1>3, <1>5
  <2>3. Pairs' = {e \in Nodes' \X Nodes' : At(e[1], e[2])' # Absent}
    BY DEF Pairs
  <2> QED
    BY <2>1, <2>2, <2>3 DEF Pairs
<1>9. MatrixCounts'
  BY <1>2, <1>8 DEF MatrixInv, MatrixCounts
<1>10. OwnsItsBlocks'
  <2>1. CASE node_count = node_capacity
    <3>1. node_capacity' > 0
      BY <1>1, <1>2, <2>1 DEF MatrixFits
    <3> QED
      BY <1>1, <1>2, <2>1, <3>1 DEF MatrixInv, OwnsItsBlocks, AddNode, Replaced, Arrays
  <2>2. CASE node_count # node_capacity
    BY <1>1, <1>2, <2>2 DEF MatrixInv, OwnsItsBlocks, AddNode, Arrays
  <2> QED
    BY <2>1, <2>2
<1> QED
  BY <1>1, <1>5, <1>6, <1>7, <1>8, <1>9, <1>10 DEF MatrixInv

------------------------------------------------------------------------------
(* Different pairs of nodes have different cells.                          *)
LEMMA CellsDiffer ==
  ASSUME MatrixFits, NEW i \in Places, NEW j \in Places, NEW k \in Places, NEW l \in Places
  PROVE  /\ i * node_capacity + j \in DOMAIN edges
         /\ i * node_capacity + j = k * node_capacity + l => i = k /\ j = l
<1>1. node_capacity \in Nat
  BY DEF MatrixFits
<1>2. /\ i * node_capacity + j \in 0 .. node_capacity * node_capacity - 1
      /\ (i * node_capacity + j) \div node_capacity = i
      /\ (i * node_capacity + j) % node_capacity = j
  BY <1>1, CellOfPair DEF Places
<1>3. /\ (k * node_capacity + l) \div node_capacity = k
      /\ (k * node_capacity + l) % node_capacity = l
  BY <1>1, CellOfPair DEF Places
<1> DEFINE p == i * node_capacity + j
           q == k * node_capacity + l
<1>4. p = q => i = k /\ j = l
  <2> HIDE DEF p, q
  <2> SUFFICES ASSUME p = q PROVE i = k /\ j = l
    OBVIOUS
  <2>1. p \div node_capacity = i /\ p % node_capacity = j
    BY <1>2 DEF p
  <2>2. q \div node_capacity = k /\ q % node_capacity = l
    BY <1>3 DEF q
  <2> QED
    BY <2>1, <2>2
<1> QED
  BY <1>2, <1>4 DEF MatrixFits

(* What a call that writes the cells of an edge does to the others.        *)
Touched(i, j, k, l) == (k = i /\ l = j) \/ (~directed /\ k = j /\ l = i)

LEMMA BothAre ==
  ASSUME MatrixFits, NEW i \in Places, NEW j \in Places, NEW k \in Places, NEW l \in Places
  PROVE  k * node_capacity + l \in Both(i, j) <=> Touched(i, j, k, l)
<1>1. /\ Address(i, j) = i * node_capacity + j
      /\ Address(j, i) = j * node_capacity + i
  BY AddressIs
<1>2. /\ k * node_capacity + l = i * node_capacity + j <=> k = i /\ l = j
      /\ k * node_capacity + l = j * node_capacity + i <=> k = j /\ l = i
  <2>1. k * node_capacity + l = i * node_capacity + j => k = i /\ l = j
    BY CellsDiffer
  <2>2. k * node_capacity + l = j * node_capacity + i => k = j /\ l = i
    BY CellsDiffer
  <2> QED
    BY <2>1, <2>2
<1> DEFINE p == k * node_capacity + l
           q == i * node_capacity + j
           r == j * node_capacity + i
<1>3. Both(i, j) = IF directed THEN {q} ELSE {q, r}
  BY <1>1 DEF Both
<1>4. /\ p = q <=> k = i /\ l = j
      /\ p = r <=> k = j /\ l = i
  BY <1>2
<1> HIDE DEF p, q, r
<1>5. p \in Both(i, j) <=> Touched(i, j, k, l)
  BY <1>3, <1>4 DEF Touched
<1> QED
  BY <1>5 DEF p

LEMMA StoredIs ==
  ASSUME MatrixFits, NEW i \in Places, NEW j \in Places, NEW w
  PROVE  /\ DOMAIN Stored(i, j, w) = DOMAIN edges
         /\ \A k, l \in Places :
              Stored(i, j, w)[k * node_capacity + l]
                = IF Touched(i, j, k, l) THEN [to |-> l, weight |-> w] ELSE At(k, l)
<1>1. DOMAIN Stored(i, j, w) = DOMAIN edges
  BY DEF Stored
<1>2. ASSUME NEW k \in Places, NEW l \in Places
      PROVE  Stored(i, j, w)[k * node_capacity + l]
               = IF Touched(i, j, k, l) THEN [to |-> l, weight |-> w] ELSE At(k, l)
  <2> DEFINE n == k * node_capacity + l
  <2>1. n \in DOMAIN edges
    BY CellsDiffer
  <2>2. n \in Both(i, j) <=> Touched(i, j, k, l)
    BY BothAre
  <2>3. n = Address(i, j) <=> k = i /\ l = j
    <3>1. Address(i, j) = i * node_capacity + j
      BY AddressIs
    <3>2. n = i * node_capacity + j => k = i /\ l = j
      BY CellsDiffer
    <3> QED
      BY <3>1, <3>2
  <2>4. edges[n] = At(k, l)
    BY DEF At
  <2> HIDE DEF n
  <2>5. Stored(i, j, w)[n] = IF n = Address(i, j) THEN [to |-> j, weight |-> w]
                             ELSE IF n \in Both(i, j) THEN [to |-> i, weight |-> w]
                             ELSE edges[n]
    BY <2>1 DEF Stored
  <2>6. Stored(i, j, w)[n]
          = IF Touched(i, j, k, l) THEN [to |-> l, weight |-> w] ELSE At(k, l)
    <3>1. CASE k = i /\ l = j
      BY <2>3, <2>5, <3>1 DEF Touched
    <3>2. CASE ~(k = i /\ l = j) /\ Touched(i, j, k, l)
      <4>1. l = i
        BY <3>2 DEF Touched
      <4> QED
        BY <2>2, <2>3, <2>5, <3>2, <4>1
    <3>3. CASE ~Touched(i, j, k, l)
      <4>1. n # Address(i, j)
        BY <2>3, <3>3 DEF Touched
      <4> QED
        BY <2>2, <2>4, <2>5, <3>3, <4>1
    <3> QED
      BY <3>1, <3>2, <3>3
  <2> QED
    BY <2>6 DEF n
<1> QED
  BY <1>1, <1>2

LEMMA ClearedIs ==
  ASSUME MatrixFits, NEW i \in Places, NEW j \in Places
  PROVE  /\ DOMAIN Cleared(i, j) = DOMAIN edges
         /\ \A k, l \in Places :
              Cleared(i, j)[k * node_capacity + l]
                = IF Touched(i, j, k, l) THEN Absent ELSE At(k, l)
<1>1. DOMAIN Cleared(i, j) = DOMAIN edges
  BY DEF Cleared
<1>2. ASSUME NEW k \in Places, NEW l \in Places
      PROVE  Cleared(i, j)[k * node_capacity + l]
               = IF Touched(i, j, k, l) THEN Absent ELSE At(k, l)
  <2> DEFINE n == k * node_capacity + l
  <2>1. n \in DOMAIN edges
    BY CellsDiffer
  <2>2. n \in Both(i, j) <=> Touched(i, j, k, l)
    BY BothAre
  <2>3. edges[n] = At(k, l)
    BY DEF At
  <2> HIDE DEF n
  <2>4. Cleared(i, j)[n] = IF n \in Both(i, j) THEN Absent ELSE edges[n]
    BY <2>1 DEF Cleared
  <2>5. Cleared(i, j)[n] = IF Touched(i, j, k, l) THEN Absent ELSE At(k, l)
    BY <2>2, <2>3, <2>4
  <2> QED
    BY <2>5 DEF n
<1> QED
  BY <1>1, <1>2

LEMMA EdgesFit ==
  ASSUME MatrixFits, NEW d \in BOOLEAN, NEW pairs \in SUBSET (Nodes \X Nodes)
  PROVE  /\ IsFiniteSet(pairs)
         /\ Cardinality(LogicalEdges(d, pairs)) \in 0 .. SizeMax
<1> DEFINE n == node_count
<1>1. n \in Nat /\ n <= node_capacity /\ node_capacity \in Nat
         /\ node_capacity * node_capacity <= SizeMax
      /\ SizeMax \in Nat
  BY SizeAssumption DEF MatrixFits
<1>2. IsFiniteSet(Nodes) /\ Cardinality(Nodes) = n
  <2>1. IsFiniteSet(0 .. n - 1) /\ Cardinality(0 .. n - 1) = (IF 0 <= n - 1 THEN (n - 1) - 0 + 1 ELSE 0)
    BY <1>1, FS_Interval
  <2> QED
    BY <1>1, <2>1 DEF Nodes
<1>3. IsFiniteSet(Nodes \X Nodes) /\ Cardinality(Nodes \X Nodes) = n * n
  BY <1>2, FS_Product
<1>4. IsFiniteSet(pairs) /\ Cardinality(pairs) <= n * n
  BY <1>3, FS_Subset
<1>5. n * n <= node_capacity * node_capacity /\ n * n \in Nat /\ node_capacity * node_capacity \in Nat
  <2>1. n * n <= n * node_capacity /\ n * node_capacity <= node_capacity * node_capacity
    BY <1>1
  <2> QED
    BY <1>1, <2>1
<1>6. Cardinality(pairs) \in Nat
  BY <1>4, FS_CardinalityType
<1>7. /\ Cardinality(LogicalEdges(d, pairs)) \in Nat
      /\ Cardinality(LogicalEdges(d, pairs)) <= Cardinality(pairs)
  BY <1>4, LogicalFinite
<1> QED
  BY <1>1, <1>4, <1>5, <1>6, <1>7

(* The new cells of a present edge.                                        *)
LEMMA CellsPresent ==
  ASSUME NEW l \in Nat, NEW w \in Weight
  PROVE  /\ [to |-> l, weight |-> w] # Absent
         /\ [to |-> l, weight |-> w] \in [to : {l}, weight : Weight]
         /\ [to |-> l, weight |-> w].weight = w
BY MatrixAssumption

(* The step writes the cells of the edge between i and j.                  *)
LEMMA AddEdgeKeeps ==
  ASSUME MatrixInv, NEW i \in Nodes, NEW j \in Nodes, NEW w \in Weight, AddEdge(i, j, w)
  PROVE  /\ MatrixInv'
         /\ <<i, j>> \notin Pairs
         /\ Pairs' = Pairs \cup Ends(directed, i, j)
         /\ \A k, l \in Nodes : At(k, l)' # Absent =>
              At(k, l)'.weight = IF <<k, l>> \in Ends(directed, i, j) THEN w ELSE At(k, l).weight
<1>1. /\ MatrixFits /\ Nodes \subseteq Places /\ Places \subseteq Nat /\ directed \in BOOLEAN
      /\ i \in Places /\ j \in Places
  BY NodesArePlaces DEF MatrixInv, MatrixFits
<1>2. /\ live /\ live' = live /\ directed' = directed /\ node_capacity' = node_capacity
      /\ node_count' = node_count /\ blocks' = blocks /\ edges' = Stored(i, j, w)
      /\ edge_count < MaxEdges /\ edge_count' = Wrap(edge_count + 1)
  BY DEF AddEdge
<1>3. Nodes' = Nodes /\ Places' = Places /\ Arrays' = Arrays
  BY <1>2 DEF Nodes, Places, Arrays
<1>4. \A k, l \in Places : At(k, l)' = IF Touched(i, j, k, l) THEN [to |-> l, weight |-> w] ELSE At(k, l)
  BY <1>1, <1>2, StoredIs DEF At
<1>5. MatrixFits' /\ OwnsItsBlocks'
  <2>1. DOMAIN edges' = DOMAIN edges
    BY <1>1, <1>2, StoredIs
  <2> QED
    BY <1>2, <1>3, <2>1 DEF MatrixInv, MatrixFits, OwnsItsBlocks
<1>6. \A k, l \in Places : Touched(i, j, k, l) => k \in Nodes /\ l \in Nodes /\ At(k, l)' # Absent
        /\ At(k, l)' \in [to : {l}, weight : Weight] /\ At(k, l)'.weight = w
  <2> TAKE k, l \in Places
  <2> SUFFICES ASSUME Touched(i, j, k, l)
               PROVE  k \in Nodes /\ l \in Nodes /\ At(k, l)' # Absent
                      /\ At(k, l)' \in [to : {l}, weight : Weight] /\ At(k, l)'.weight = w
    OBVIOUS
  <2>1. At(k, l)' = [to |-> l, weight |-> w] /\ l \in Nat
    BY <1>1, <1>4
  <2>2. k \in Nodes /\ l \in Nodes
    BY DEF Touched
  <2> QED
    BY <2>1, <2>2, CellsPresent
<1>7. \A k, l \in Places : ~Touched(i, j, k, l) => At(k, l)' = At(k, l)
  BY <1>4
<1>8. MatrixCells'
  <2>1. \A k, l \in Places : At(k, l)' # Absent =>
          k \in Nodes /\ l \in Nodes /\ At(k, l)' \in [to : {l}, weight : Weight]
    BY <1>6, <1>7 DEF MatrixInv, MatrixCells
  <2> QED
    BY <1>3, <2>1 DEF MatrixCells
<1>9. MatrixMirrors'
  <2>1. ASSUME ~directed, NEW k \in Nodes, NEW l \in Nodes, At(k, l)' # Absent
        PROVE  At(l, k)' # Absent /\ At(k, l)'.weight = At(l, k)'.weight
    <3>1. k \in Places /\ l \in Places /\ (Touched(i, j, k, l) <=> Touched(i, j, l, k))
      BY <1>1, <2>1 DEF Touched
    <3>2. CASE Touched(i, j, k, l)
      BY <1>6, <3>1, <3>2
    <3>3. CASE ~Touched(i, j, k, l)
      <4>1. At(k, l)' = At(k, l) /\ At(l, k)' = At(l, k)
        BY <1>7, <3>1, <3>3
      <4> QED
        BY <2>1, <4>1 DEF MatrixInv, MatrixMirrors
    <3> QED
      BY <3>2, <3>3
  <2> QED
    BY <1>2, <1>3, <2>1 DEF MatrixMirrors
<1>10. <<i, j>> \notin Pairs
  <2>1. ~HasEdge(i, j)
    BY DEF AddEdge
  <2>2. At(i, j) = Absent
    BY <1>1, <2>1, HasEdgeIs
  <2> QED
    BY <2>2 DEF Pairs
<1>11. Pairs' = Pairs \cup Ends(directed, i, j)
  <2>1. \A k, l \in Nodes : At(k, l)' # Absent <=> At(k, l) # Absent \/ <<k, l>> \in Ends(directed, i, j)
    BY <1>1, <1>6, <1>7 DEF Touched, Ends
  <2>2. Pairs' = {e \in Nodes \X Nodes : At(e[1], e[2])' # Absent}
    BY <1>3 DEF Pairs
  <2>3. Ends(directed, i, j) \subseteq Nodes \X Nodes
    BY DEF Ends
  <2>4. \A e \in Nodes \X Nodes : e = <<e[1], e[2]>> /\ e[1] \in Nodes /\ e[2] \in Nodes
    OBVIOUS
  <2>5. \A e \in Nodes \X Nodes : At(e[1], e[2])' # Absent
           <=> At(e[1], e[2]) # Absent \/ e \in Ends(directed, i, j)
    BY <2>1, <2>4
  <2> QED
    BY <2>2, <2>3, <2>5 DEF Pairs
<1>12. MatrixCounts'
  <2>1. Cardinality(LogicalEdges(directed, Pairs \cup Ends(directed, i, j)))
          = Cardinality(LogicalEdges(directed, Pairs)) + 1
    BY <1>1, <1>10, PairsAreJoined, EdgeAdded
  <2>2. Pairs \cup Ends(directed, i, j) \in SUBSET (Nodes \X Nodes)
    BY DEF Pairs, Ends
  <2>3. Cardinality(LogicalEdges(directed, Pairs \cup Ends(directed, i, j))) \in 0 .. SizeMax
    BY <1>1, <2>2, EdgesFit
  <2>4. edge_count + 1 \in 0 .. SizeMax /\ edge_count + 1 \in 0 .. MaxEdges
        /\ edge_count + 1 = Cardinality(LogicalEdges(directed, Pairs \cup Ends(directed, i, j)))
    BY <1>2, <2>1, <2>3, MatrixAssumption DEF MatrixInv, MatrixCounts
  <2>5. edge_count' = edge_count + 1
    BY <1>2, <2>4, FitsInWord, SizeAssumption DEF Wrap
  <2> QED
    BY <1>2, <1>11, <2>4, <2>5 DEF MatrixCounts
<1>13. \A k, l \in Nodes : At(k, l)' # Absent =>
         At(k, l)'.weight = IF <<k, l>> \in Ends(directed, i, j) THEN w ELSE At(k, l).weight
  <2>1. \A k, l \in Nodes : k \in Places /\ l \in Places
           /\ (<<k, l>> \in Ends(directed, i, j) <=> Touched(i, j, k, l))
    BY <1>1 DEF Touched, Ends
  <2> QED
    BY <1>6, <1>7, <2>1
<1> QED
  BY <1>5, <1>8, <1>9, <1>10, <1>11, <1>12, <1>13 DEF MatrixInv

LEMMA RemoveEdgeKeeps ==
  ASSUME MatrixInv, NEW i \in Nodes, NEW j \in Nodes, RemoveEdge(i, j)
  PROVE  /\ MatrixInv'
         /\ <<i, j>> \in Pairs
         /\ Pairs' = Pairs \ Ends(directed, i, j)
         /\ \A k, l \in Nodes : At(k, l)' # Absent => At(k, l)'.weight = At(k, l).weight
<1>1. /\ MatrixFits /\ Nodes \subseteq Places /\ Places \subseteq Nat /\ directed \in BOOLEAN
      /\ i \in Places /\ j \in Places
  BY NodesArePlaces DEF MatrixInv, MatrixFits
<1>2. /\ live /\ live' = live /\ directed' = directed /\ node_capacity' = node_capacity
      /\ node_count' = node_count /\ blocks' = blocks /\ edges' = Cleared(i, j)
      /\ edge_count' = Wrap(edge_count - 1)
  BY DEF RemoveEdge
<1>3. Nodes' = Nodes /\ Places' = Places /\ Arrays' = Arrays
  BY <1>2 DEF Nodes, Places, Arrays
<1>4. \A k, l \in Places : At(k, l)' = IF Touched(i, j, k, l) THEN Absent ELSE At(k, l)
  BY <1>1, <1>2, ClearedIs DEF At
<1>5. MatrixFits' /\ OwnsItsBlocks'
  <2>1. DOMAIN edges' = DOMAIN edges
    BY <1>1, <1>2, ClearedIs
  <2> QED
    BY <1>2, <1>3, <2>1 DEF MatrixInv, MatrixFits, OwnsItsBlocks
<1>6. \A k, l \in Places : At(k, l)' # Absent => ~Touched(i, j, k, l) /\ At(k, l)' = At(k, l)
  BY <1>4
<1>7. \A k, l \in Places : ~Touched(i, j, k, l) => At(k, l)' = At(k, l)
  BY <1>4
<1>8. MatrixCells'
  <2>1. \A k, l \in Places : At(k, l)' # Absent =>
          k \in Nodes /\ l \in Nodes /\ At(k, l)' \in [to : {l}, weight : Weight]
    BY <1>6 DEF MatrixInv, MatrixCells
  <2> QED
    BY <1>3, <2>1 DEF MatrixCells
<1>9. MatrixMirrors'
  <2>1. ASSUME ~directed, NEW k \in Nodes, NEW l \in Nodes, At(k, l)' # Absent
        PROVE  At(l, k)' # Absent /\ At(k, l)'.weight = At(l, k)'.weight
    <3>1. k \in Places /\ l \in Places /\ (Touched(i, j, k, l) <=> Touched(i, j, l, k))
      BY <1>1, <2>1 DEF Touched
    <3>2. At(k, l)' = At(k, l) /\ At(l, k)' = At(l, k)
      BY <1>6, <1>7, <2>1, <3>1
    <3> QED
      BY <2>1, <3>2 DEF MatrixInv, MatrixMirrors
  <2> QED
    BY <1>2, <1>3, <2>1 DEF MatrixMirrors
<1>10. <<i, j>> \in Pairs
  <2>1. HasEdge(i, j)
    BY DEF RemoveEdge
  <2>2. At(i, j) # Absent
    BY <1>1, <2>1, HasEdgeIs
  <2> QED
    BY <2>2 DEF Pairs
<1>11. Pairs' = Pairs \ Ends(directed, i, j)
  <2>1. \A k, l \in Nodes : At(k, l)' # Absent <=> At(k, l) # Absent
           /\ <<k, l>> \notin Ends(directed, i, j)
    BY <1>1, <1>4 DEF Touched, Ends
  <2>2. Pairs' = {e \in Nodes \X Nodes : At(e[1], e[2])' # Absent}
    BY <1>3 DEF Pairs
  <2>3. \A e \in Nodes \X Nodes : e = <<e[1], e[2]>> /\ e[1] \in Nodes /\ e[2] \in Nodes
    OBVIOUS
  <2>4. \A e \in Nodes \X Nodes : At(e[1], e[2])' # Absent <=> At(e[1], e[2]) # Absent
           /\ e \notin Ends(directed, i, j)
    BY <2>1, <2>3
  <2> QED
    BY <2>2, <2>4 DEF Pairs
<1>12. MatrixCounts'
  <2>1. /\ Cardinality(LogicalEdges(directed, Pairs \ Ends(directed, i, j)))
             = Cardinality(LogicalEdges(directed, Pairs)) - 1
        /\ Cardinality(LogicalEdges(directed, Pairs)) > 0
    BY <1>1, <1>10, PairsAreJoined, EdgeDropped
  <2>2. Pairs \in SUBSET (Nodes \X Nodes)
    BY DEF Pairs
  <2>3. Cardinality(LogicalEdges(directed, Pairs)) \in 0 .. SizeMax
    BY <1>1, <2>2, EdgesFit
  <2>4. edge_count - 1 \in 0 .. SizeMax /\ edge_count - 1 \in 0 .. MaxEdges
        /\ edge_count - 1 = Cardinality(LogicalEdges(directed, Pairs \ Ends(directed, i, j)))
    BY <1>2, <2>1, <2>3, MatrixAssumption, SizeAssumption DEF MatrixInv, MatrixCounts
  <2>5. edge_count' = edge_count - 1
    BY <1>2, <2>4, FitsInWord, SizeAssumption DEF Wrap
  <2> QED
    BY <1>2, <1>11, <2>4, <2>5 DEF MatrixCounts
<1>13. \A k, l \in Nodes : At(k, l)' # Absent => At(k, l)'.weight = At(k, l).weight
  BY <1>1, <1>6
<1> QED
  BY <1>5, <1>8, <1>9, <1>10, <1>11, <1>12, <1>13 DEF MatrixInv

------------------------------------------------------------------------------
(* The matrix is the promised graph.                                       *)
LEMMA PromisedCardinality == \A S : Promise!Cardinality(S) = Cardinality(S)
BY DEF Promise!Cardinality, Cardinality

LEMMA PromisedLogical ==
  \A pairs : Promise!Logical(pairs) = LogicalEdges(directed, pairs)
BY DEF Promise!Logical, LogicalEdges

LEMMA PromisedBoth == \A i, j : Promise!Both(i, j) = Ends(directed, i, j)
BY DEF Promise!Both, Ends

LEMMA ShownIs == MatrixInv => Shown = [e \in Pairs |-> At(e[1], e[2]).weight]
<1> SUFFICES ASSUME MatrixInv PROVE Shown = [e \in Pairs |-> At(e[1], e[2]).weight]
  OBVIOUS
<1>1. MatrixFits /\ Nodes \subseteq Places
  BY NodesArePlaces DEF MatrixInv
<1>2. \A i, j \in Nodes : (HasEdge(i, j) <=> At(i, j) # Absent) /\ edges[Address(i, j)] = At(i, j)
  BY <1>1, HasEdgeIs, AddressIs DEF At
<1>3. \A e \in Nodes \X Nodes :
        (HasEdge(e[1], e[2]) <=> At(e[1], e[2]) # Absent) /\ edges[Address(e[1], e[2])] = At(e[1], e[2])
  BY <1>2
<1>4. {e \in Nodes \X Nodes : HasEdge(e[1], e[2])} = Pairs
  BY <1>3 DEF Pairs
<1>5. \A e \in Pairs : edges[Address(e[1], e[2])] = At(e[1], e[2])
  BY <1>3 DEF Pairs
<1> QED
  BY <1>4, <1>5 DEF Shown

LEMMA ShownIsNext == MatrixInv' => Shown' = [e \in Pairs' |-> At(e[1], e[2])'.weight]
<1>1. (MatrixInv => Shown = [e \in Pairs |-> At(e[1], e[2]).weight])'
  BY ShownIs, PTL
<1> QED
  BY <1>1

(* Pairs of nodes that are joined.                                         *)
LEMMA PairsAre ==
  \A e \in Pairs : e = <<e[1], e[2]>> /\ e[1] \in Nodes /\ e[2] \in Nodes /\ At(e[1], e[2]) # Absent
BY DEF Pairs

LEMMA EmptyShows ==
  ASSUME EmptyMatrix'
  PROVE  node_count' = 0 /\ Shown' = Promise!NoWeights /\ edge_count' = 0
<1>1. MatrixInv'
  BY EmptyMatrixIsRightNext
<1>2. Pairs' = {}
  <2>1. Nodes' = {}
    BY DEF EmptyMatrix, Nodes
  <2> QED
    BY <2>1 DEF Pairs
<1>3. Shown' = [e \in Pairs' |-> At(e[1], e[2])'.weight]
  BY <1>1, ShownIsNext
<1>4. Shown' = [e \in {} |-> 0]
  BY <1>2, <1>3
<1> QED
  BY <1>4 DEF EmptyMatrix, Promise!NoWeights

LEMMA MatrixAddsPromised ==
  ASSUME MatrixInv, NEW i \in Nodes, NEW j \in Nodes, NEW w \in Weight, AddEdge(i, j, w)
  PROVE  Promise!AddEdge(i, j, w)
<1>1. /\ MatrixInv' /\ <<i, j>> \notin Pairs /\ Pairs' = Pairs \cup Ends(directed, i, j)
      /\ \A k, l \in Nodes : At(k, l)' # Absent =>
           At(k, l)'.weight = IF <<k, l>> \in Ends(directed, i, j) THEN w ELSE At(k, l).weight
  BY AddEdgeKeeps
<1>2. /\ Shown = [e \in Pairs |-> At(e[1], e[2]).weight]
      /\ Shown' = [e \in Pairs' |-> At(e[1], e[2])'.weight]
  BY <1>1, ShownIs, ShownIsNext
<1> DEFINE new == [e \in Promise!Joined \cup Promise!Both(i, j) |->
                     IF e \in Promise!Both(i, j) THEN w ELSE Shown[e]]
<1>3. Promise!Joined = Pairs /\ Promise!Both(i, j) = Ends(directed, i, j)
  BY <1>2, PromisedBoth DEF Promise!Joined
<1>4. \A e \in Pairs' : At(e[1], e[2])'.weight
         = IF e \in Ends(directed, i, j) THEN w ELSE At(e[1], e[2]).weight
  <2>1. Nodes' = Nodes
    BY DEF AddEdge, Nodes
  <2>2. \A e \in Pairs' : e = <<e[1], e[2]>> /\ e[1] \in Nodes /\ e[2] \in Nodes
           /\ At(e[1], e[2])' # Absent
    BY <2>1 DEF Pairs
  <2> QED
    BY <1>1, <2>2
<1>5. Shown' = new
  BY <1>1, <1>2, <1>3, <1>4
<1>6. DOMAIN new = Pairs'
  BY <1>1, <1>3
<1>7. edge_count' = Promise!Cardinality(Promise!Logical(DOMAIN new))
  <2>1. edge_count' = Cardinality(LogicalEdges(directed', Pairs'))
    BY <1>1 DEF MatrixInv, MatrixCounts
  <2>2. directed' = directed
    BY DEF AddEdge
  <2> HIDE DEF new
  <2> QED
    BY <1>6, <2>1, <2>2, PromisedCardinality, PromisedLogical
<1>8. Promise!Reweighted(new)
  BY <1>5, <1>7 DEF Promise!Reweighted, AddEdge
<1>9. Promise!Answer("add_edge", <<i, j>>, TRUE, Untouched)
  BY DEF AddEdge, Answer, Promise!Answer
<1> QED
  BY <1>1, <1>3, <1>8, <1>9 DEF Promise!AddEdge

LEMMA MatrixRemovesPromised ==
  ASSUME MatrixInv, NEW i \in Nodes, NEW j \in Nodes, RemoveEdge(i, j)
  PROVE  Promise!RemoveEdge(i, j)
<1>1. /\ MatrixInv' /\ <<i, j>> \in Pairs /\ Pairs' = Pairs \ Ends(directed, i, j)
      /\ \A k, l \in Nodes : At(k, l)' # Absent => At(k, l)'.weight = At(k, l).weight
  BY RemoveEdgeKeeps
<1>2. /\ Shown = [e \in Pairs |-> At(e[1], e[2]).weight]
      /\ Shown' = [e \in Pairs' |-> At(e[1], e[2])'.weight]
  BY <1>1, ShownIs, ShownIsNext
<1> DEFINE new == [e \in Promise!Joined \ Promise!Both(i, j) |-> Shown[e]]
<1>3. Promise!Joined = Pairs /\ Promise!Both(i, j) = Ends(directed, i, j)
  BY <1>2, PromisedBoth DEF Promise!Joined
<1>4. \A e \in Pairs' : At(e[1], e[2])'.weight = At(e[1], e[2]).weight
  <2>1. Nodes' = Nodes
    BY DEF RemoveEdge, Nodes
  <2>2. \A e \in Pairs' : e = <<e[1], e[2]>> /\ e[1] \in Nodes /\ e[2] \in Nodes
           /\ At(e[1], e[2])' # Absent
    BY <2>1 DEF Pairs
  <2> QED
    BY <1>1, <2>2
<1>5. Shown' = new
  BY <1>1, <1>2, <1>3, <1>4
<1>6. DOMAIN new = Pairs'
  BY <1>1, <1>3
<1>7. edge_count' = Promise!Cardinality(Promise!Logical(DOMAIN new))
  <2>1. edge_count' = Cardinality(LogicalEdges(directed', Pairs'))
    BY <1>1 DEF MatrixInv, MatrixCounts
  <2>2. directed' = directed
    BY DEF RemoveEdge
  <2> HIDE DEF new
  <2> QED
    BY <1>6, <2>1, <2>2, PromisedCardinality, PromisedLogical
<1>8. Promise!Reweighted(new)
  BY <1>5, <1>7 DEF Promise!Reweighted, RemoveEdge
<1>9. Promise!Answer("remove_edge", <<i, j>>, TRUE, Untouched)
  BY DEF RemoveEdge, Answer, Promise!Answer
<1> QED
  BY <1>1, <1>3, <1>8, <1>9 DEF Promise!RemoveEdge

(* A call that fails changes nothing.                                      *)
LEMMA MatrixStays ==
  ASSUME MatrixInv, UNCHANGED graph
  PROVE  MatrixInv' /\ UNCHANGED Promise!graph
<1>1. MatrixInv' /\ Pairs' = Pairs
  BY MatrixRestKeeps
<1>2. \A i, j : At(i, j)' = At(i, j)
  BY DEF graph, At
<1>3. Shown' = Shown
  BY <1>1, <1>2, ShownIs, ShownIsNext
<1> QED
  BY <1>1, <1>3 DEF graph, Promise!graph

(* What a call that fails had allocated it has freed. *)
LEMMA AddNodeFailsRests ==
  ASSUME MatrixInv, AddNodeFails
  PROVE  Fail("add_node", <<>>)
<1>1. PICK made \in Partial :
        blocks' = blocks + Cardinality(made) - Cardinality(Discarded(made))
  BY DEF AddNodeFails
<1>2. made \in {{}, {"node"}, {"node", "nodes"}}
  BY <1>1 DEF Partial
<1>3. /\ IsFiniteSet({}) /\ IsFiniteSet({"node"}) /\ IsFiniteSet({"nodes"})
      /\ {"node", "nodes"} = {"node"} \cup {"nodes"}
  BY FS_EmptySet, FS_Singleton
<1>4. IsFiniteSet({"node", "nodes"})
  BY <1>3, FS_Union
<1>5. Cardinality(made) \in Nat
  BY <1>2, <1>3, <1>4, FS_CardinalityType
<1>6. blocks \in Nat
  BY DEF MatrixInv, MatrixFits, OwnsItsBlocks, Arrays
<1>7. blocks' = blocks
  BY <1>1, <1>5, <1>6 DEF Discarded
<1> QED
  BY <1>7 DEF AddNodeFails, Fail, graph

LEMMA MatrixNextKeeps ==
  ASSUME MatrixInv, Next
  PROVE  MatrixInv' /\ Promise!Next
<1>1. CASE \E d \in BOOLEAN : Create(d)
  <2>1. PICK d \in BOOLEAN : Create(d)
    BY <1>1
  <2>2. EmptyMatrix'
    <3>1. node_capacity = 0 /\ blocks = 0
      BY <2>1 DEF MatrixInv, MatrixFits, OwnsItsBlocks, Create
    <3> QED
      BY <2>1, <3>1, NoPlaces DEF EmptyMatrix, Create
  <2>3. Promise!Create(d)
    BY <2>1, <2>2, EmptyShows DEF Create, Answer, Promise!Create, Promise!Answer, Promise!Empty
  <2> QED
    BY <2>2, <2>3, EmptyMatrixIsRightNext DEF Promise!Next
<1>2. CASE Destroy
  <2>1. EmptyMatrix'
    <3>1. blocks' = 0
      BY <1>2 DEF MatrixInv, MatrixFits, OwnsItsBlocks, Destroy, Freed, Arrays
    <3> QED
      BY <1>2, <3>1 DEF EmptyMatrix, Destroy, NoCells
  <2>2. Promise!Destroy
    BY <1>2, <2>1, EmptyShows DEF Destroy, Answer, Promise!Destroy, Promise!Answer, Promise!Empty
  <2> QED
    BY <2>1, <2>2, EmptyMatrixIsRightNext DEF Promise!Next
<1>3. CASE AddNode
  <2>1. /\ MatrixInv' /\ Pairs' = Pairs /\ node_count' = node_count + 1
        /\ \A i, j \in Nodes : At(i, j)' = At(i, j)
    BY <1>3, AddNodeKeeps
  <2>2. Shown' = Shown
    <3>1. \A e \in Pairs : At(e[1], e[2])' = At(e[1], e[2])
      BY <2>1, PairsAre
    <3> QED
      BY <2>1, <3>1, ShownIs, ShownIsNext
  <2>3. Promise!AddNode
    BY <1>3, <2>1, <2>2 DEF AddNode, Answer, Promise!AddNode, Promise!Answer
  <2> QED
    BY <2>1, <2>3 DEF Promise!Next
<1>4. CASE CreateFails \/ AddNodeFails
  <2>1. \E op \in {"create", "add_node"} : Fail(op, <<>>)
    BY <1>4, AddNodeFailsRests DEF CreateFails
  <2>2. PICK op \in {"create", "add_node"} : Fail(op, <<>>)
    BY <2>1
  <2>3. MatrixInv' /\ Promise!Refuse(op, <<>>)
    BY <2>2, MatrixStays DEF Fail, Answer, Promise!Refuse, Promise!Answer
  <2> QED
    BY <2>3 DEF Promise!Next
<1>5. ASSUME NEW i \in Nodes, NEW j \in Nodes,
             \/ \E w \in Weight : AddEdge(i, j, w)
             \/ AddEdgeFails(i, j) \/ RemoveEdge(i, j) \/ RemoveEdgeFails(i, j)
      PROVE  MatrixInv' /\ Promise!Next
  <2>1. Promise!Nodes = Nodes /\ i \in Promise!Nodes /\ j \in Promise!Nodes
    BY DEF Promise!Nodes, Nodes
  <2>2. MatrixFits /\ i \in Places /\ j \in Places
    BY NodesArePlaces DEF MatrixInv
  <2>3. Promise!Joined = Pairs /\ (HasEdge(i, j) <=> <<i, j>> \in Pairs)
    <3>1. Promise!Joined = Pairs
      BY ShownIs DEF Promise!Joined
    <3> QED
      BY <2>2, <3>1, HasEdgeIs DEF Pairs
  <2>4. CASE \E w \in Weight : AddEdge(i, j, w)
    <3>1. PICK w \in Weight : AddEdge(i, j, w)
      BY <2>4
    <3>2. MatrixInv' /\ Promise!AddEdge(i, j, w)
      BY <3>1, AddEdgeKeeps, MatrixAddsPromised
    <3> QED
      BY <2>1, <3>2 DEF Promise!Next
  <2>5. CASE AddEdgeFails(i, j)
    <3>1. MatrixInv' /\ Promise!AddEdgeFails(i, j)
      BY <2>3, <2>5, MatrixStays
         DEF AddEdgeFails, Fail, Answer, Promise!AddEdgeFails, Promise!Refuse, Promise!Answer
    <3> QED
      BY <2>1, <3>1 DEF Promise!Next
  <2>6. CASE RemoveEdge(i, j)
    <3>1. MatrixInv' /\ Promise!RemoveEdge(i, j)
      BY <2>6, RemoveEdgeKeeps, MatrixRemovesPromised
    <3> QED
      BY <2>1, <3>1 DEF Promise!Next
  <2>7. CASE RemoveEdgeFails(i, j)
    <3>1. MatrixInv' /\ Promise!RemoveEdgeFails(i, j)
      BY <2>3, <2>7, MatrixStays
         DEF RemoveEdgeFails, Fail, Answer, Promise!RemoveEdgeFails, Promise!Refuse, Promise!Answer
    <3> QED
      BY <2>1, <3>1 DEF Promise!Next
  <2> QED
    BY <1>5, <2>4, <2>5, <2>6, <2>7
<1> QED
  BY <1>1, <1>2, <1>3, <1>4, <1>5 DEF Next

(* ------------------------------ the ladder -------------------------------- *)
(* Every capacity of an array of pointers, once it has one: 1, doubled some *)
(* number of times.                                                        *)
DoublingSets == {S \in SUBSET Nat : 1 \in S /\ \A n \in S : n * 2 \in S}

OnLadder(c) == c \in Nat /\ \A S \in DoublingSets : c \in S

LEMMA LadderClimbs ==
  /\ OnLadder(1)
  /\ \A c : OnLadder(c) => OnLadder(c * 2)
BY DEF OnLadder, DoublingSets

LEMMA LadderSteps ==
  ASSUME NEW c, OnLadder(c)
  PROVE  c = 1 \/ \E b \in Nat : OnLadder(b) /\ c = b * 2
<1> DEFINE S == {n \in Nat : n = 1 \/ \E b \in Nat : OnLadder(b) /\ n = b * 2}
<1>1. \A n \in S : OnLadder(n)
  BY LadderClimbs
<1>2. \A n \in S : n * 2 \in S
  BY <1>1
<1>3. S \in DoublingSets
  <2>1. 1 \in S /\ S \in SUBSET Nat
    OBVIOUS
  <2> HIDE DEF S
  <2> QED
    BY <1>2, <2>1 DEF DoublingSets
<1>4. c \in S
  BY <1>3 DEF OnLadder
<1> QED
  BY <1>4

(* So a lower rung is at most half of a higher one.                        *)
LEMMA LadderHalves ==
  ASSUME NEW a, NEW b, OnLadder(a), OnLadder(b), a < b
  PROVE  a * 2 <= b
<1> DEFINE S == {n \in Nat : n >= 1 /\ \A r \in Nat : OnLadder(r) => r <= n \/ r >= n * 2}
<1>1. 1 \in S
  OBVIOUS
<1>2. ASSUME NEW n \in S PROVE n * 2 \in S
  <2>1. ASSUME NEW r \in Nat, OnLadder(r) PROVE r <= n * 2 \/ r >= (n * 2) * 2
    <3>1. CASE r = 1
      BY <3>1
    <3>2. CASE r # 1
      <4>1. PICK q \in Nat : OnLadder(q) /\ r = q * 2
        BY <2>1, <3>2, LadderSteps
      <4>2. q <= n \/ q >= n * 2
        BY <4>1
      <4> QED
        BY <4>1, <4>2
    <3> QED
      BY <3>1, <3>2
  <2> QED
    BY <2>1
<1>3. S \in DoublingSets
  <2>1. S \in SUBSET Nat
    OBVIOUS
  <2> HIDE DEF S
  <2> QED
    BY <1>1, <1>2, <2>1 DEF DoublingSets
<1>4. a \in S /\ b \in Nat
  BY <1>3 DEF OnLadder
<1> QED
  BY <1>4

(* -------------------------------- the rows -------------------------------- *)
(* The records of one node, by their targets.                              *)
RowHas(s, j) == \E n \in 1 .. Len(s) : s[n].to = j

RowSlot(s, j) ==
  LET hits == {n \in 1 .. Len(s) : s[n].to = j}
  IN  IF hits = {} THEN 0 ELSE CHOOSE n \in hits : \A m \in hits : n <= m

RowWeight(s, j) == s[RowSlot(s, j)].weight

RowOf(s, N) ==
  /\ s \in Seq([to : N, weight : Weight])
  /\ \A m, n \in 1 .. Len(s) : m # n => s[m].to # s[n].to

LEMMA RowFacts ==
  ASSUME NEW s, NEW N, RowOf(s, N)
  PROVE  /\ Len(s) \in Nat /\ DOMAIN s = 1 .. Len(s)
         /\ \A n \in 1 .. Len(s) :
              /\ s[n] = [to |-> s[n].to, weight |-> s[n].weight]
              /\ s[n].to \in N /\ s[n].weight \in Weight
<1>1. Len(s) \in Nat /\ DOMAIN s = 1 .. Len(s)
  BY DEF RowOf
<1>2. \A n \in 1 .. Len(s) : s[n] \in [to : N, weight : Weight]
  <2> DEFINE R == [to : N, weight : Weight]
  <2>1. s \in Seq(R)
    BY DEF RowOf
  <2> HIDE DEF R
  <2>2. \A n \in 1 .. Len(s) : s[n] \in R
    BY <2>1
  <2> QED
    BY <2>2 DEF R
<1> QED
  BY <1>1, <1>2

LEMMA RowSlotFinds ==
  ASSUME NEW s, Len(s) \in Nat, NEW j
  PROVE  /\ RowHas(s, j) <=> RowSlot(s, j) # 0
         /\ RowHas(s, j) => RowSlot(s, j) \in 1 .. Len(s) /\ s[RowSlot(s, j)].to = j
<1> DEFINE hits == {n \in 1 .. Len(s) : s[n].to = j}
<1>1. hits \subseteq Nat /\ (hits = {} <=> ~RowHas(s, j)) /\ (\A n \in hits : n # 0)
  BY DEF RowHas
<1>2. RowSlot(s, j) = IF hits = {} THEN 0 ELSE CHOOSE n \in hits : \A m \in hits : n <= m
  BY DEF RowSlot
<1>3. \A n \in hits : n \in 1 .. Len(s) /\ s[n].to = j
  OBVIOUS
<1> HIDE DEF hits
<1>4. hits # {} => RowSlot(s, j) \in hits
  BY <1>1, <1>2, LeastExists
<1> QED
  BY <1>1, <1>2, <1>3, <1>4

LEMMA RowSlotIs ==
  ASSUME NEW s, NEW N, RowOf(s, N), NEW n \in 1 .. Len(s)
  PROVE  /\ RowSlot(s, s[n].to) = n /\ RowHas(s, s[n].to)
         /\ RowWeight(s, s[n].to) = s[n].weight
<1>1. Len(s) \in Nat
  BY RowFacts
<1>2. RowHas(s, s[n].to)
  BY DEF RowHas
<1>3. RowSlot(s, s[n].to) \in 1 .. Len(s) /\ s[RowSlot(s, s[n].to)].to = s[n].to
  BY <1>1, <1>2, RowSlotFinds
<1>4. RowSlot(s, s[n].to) = n
  BY <1>3 DEF RowOf
<1> QED
  BY <1>2, <1>4 DEF RowWeight

(* Two rows of which one is the other with one record changed, more or     *)
(* less: what they have follows from which records they have.              *)
LEMMA RowsByRecord ==
  ASSUME NEW s, NEW N, RowOf(s, N), NEW j
  PROVE  /\ RowHas(s, j) => \E n \in 1 .. Len(s) : s[n].to = j /\ s[n].weight = RowWeight(s, j)
         /\ RowHas(s, j) => j \in N /\ RowWeight(s, j) \in Weight
<1>1. RowHas(s, j) => RowSlot(s, j) \in 1 .. Len(s) /\ s[RowSlot(s, j)].to = j
  BY RowFacts, RowSlotFinds
<1> QED
  BY <1>1, RowFacts DEF RowWeight

LEMMA RowGrows ==
  ASSUME NEW s, NEW N, RowOf(s, N), NEW j \in N, NEW w \in Weight, ~RowHas(s, j)
  PROVE  LET t == Append(s, [to |-> j, weight |-> w])
         IN  /\ RowOf(t, N) /\ Len(t) = Len(s) + 1
             /\ \A k : RowHas(t, k) <=> RowHas(s, k) \/ k = j
             /\ \A k : RowHas(t, k) => RowWeight(t, k) = IF k = j THEN w ELSE RowWeight(s, k)
<1> DEFINE r == [to |-> j, weight |-> w]
           t == Append(s, r)
<1>1. r \in [to : N, weight : Weight] /\ r.to = j /\ r.weight = w
  OBVIOUS
<1> HIDE DEF r
<1>2. s \in Seq([to : N, weight : Weight]) /\ Len(s) \in Nat
  BY DEF RowOf
<1>3. /\ t \in Seq([to : N, weight : Weight]) /\ Len(t) = Len(s) + 1
      /\ \A n \in 1 .. Len(s) : t[n] = s[n]
      /\ t[Len(s) + 1] = r
  BY <1>1, <1>2
<1>4. \A n \in 1 .. Len(s) : s[n].to # j
  BY DEF RowHas
<1> HIDE DEF t
<1>5. RowOf(t, N)
  BY <1>1, <1>2, <1>3, <1>4 DEF RowOf
<1>6. ASSUME NEW k PROVE RowHas(t, k) <=> RowHas(s, k) \/ k = j
  <2>1. ASSUME NEW n \in 1 .. Len(t), t[n].to = k PROVE RowHas(s, k) \/ k = j
    <3>1. n \in 1 .. Len(s) \/ n = Len(s) + 1
      BY <1>2, <1>3
    <3> QED
      BY <1>1, <1>3, <2>1, <3>1 DEF RowHas
  <2>2. ASSUME RowHas(s, k) PROVE RowHas(t, k)
    <3>1. PICK n \in 1 .. Len(s) : s[n].to = k
      BY <2>2 DEF RowHas
    <3>2. n \in 1 .. Len(t) /\ t[n].to = k
      BY <1>2, <1>3, <3>1
    <3> QED
      BY <3>2 DEF RowHas
  <2>3. ASSUME k = j PROVE RowHas(t, k)
    <3>1. Len(s) + 1 \in 1 .. Len(t) /\ t[Len(s) + 1].to = k
      BY <1>1, <1>2, <1>3, <2>3
    <3> QED
      BY <3>1 DEF RowHas
  <2> QED
    BY <2>1, <2>2, <2>3 DEF RowHas
<1>7. ASSUME NEW k, RowHas(t, k) PROVE RowWeight(t, k) = IF k = j THEN w ELSE RowWeight(s, k)
  <2>1. PICK n \in 1 .. Len(t) : t[n].to = k /\ t[n].weight = RowWeight(t, k)
    BY <1>5, <1>7, RowsByRecord
  <2>2. CASE n \in 1 .. Len(s)
    <3>1. k # j /\ s[n].to = k /\ RowWeight(s, k) = s[n].weight
      BY <1>3, <1>4, <2>1, <2>2, RowSlotIs
    <3> QED
      BY <1>3, <2>1, <2>2, <3>1
  <2>3. CASE n = Len(s) + 1
    BY <1>1, <1>3, <2>1, <2>3
  <2> QED
    BY <1>2, <1>3, <2>2, <2>3
<1> QED
  BY <1>3, <1>5, <1>6, <1>7 DEF r, t

RowReweighed(s, j, w) == [s EXCEPT ![RowSlot(s, j)].weight = w]

LEMMA RowKeepsTargets ==
  ASSUME NEW s, NEW N, RowOf(s, N), NEW j \in N, NEW w \in Weight, RowHas(s, j)
  PROVE  LET t == RowReweighed(s, j, w)
         IN  /\ RowOf(t, N) /\ Len(t) = Len(s)
             /\ \A k : RowHas(t, k) <=> RowHas(s, k)
             /\ \A k : RowHas(t, k) => RowWeight(t, k) = IF k = j THEN w ELSE RowWeight(s, k)
<1> DEFINE h == RowSlot(s, j)
           t == [s EXCEPT ![h].weight = w]
           R == [to : N, weight : Weight]
<1>1. Len(s) \in Nat /\ DOMAIN s = 1 .. Len(s) /\ s \in Seq(R)
  BY RowFacts DEF RowOf
<1>2. h \in 1 .. Len(s) /\ s[h].to = j
  BY <1>1, RowSlotFinds
<1>3. \A n \in 1 .. Len(s) :
        /\ s[n] = [to |-> s[n].to, weight |-> s[n].weight]
        /\ s[n].to \in N /\ s[n].weight \in Weight
  BY RowFacts
<1> HIDE DEF h, R
<1> DEFINE v == [n \in 1 .. Len(s) |-> IF n = h THEN w ELSE s[n].weight]
<1>12. \A n \in 1 .. Len(s) : v[n] = (IF n = h THEN w ELSE s[n].weight) /\ v[n] \in Weight
  BY <1>3
<1> HIDE DEF v
<1>4. \A n \in 1 .. Len(s) : t[n] = [to |-> s[n].to, weight |-> v[n]]
  <2>1. \A n \in 1 .. Len(s) : n # h => t[n] = s[n]
    BY <1>1
  <2>2. t[h] = [s[h] EXCEPT !.weight = w]
    BY <1>1, <1>2
  <2>3. t[h] = [to |-> s[h].to, weight |-> w]
    <3>1. s[h] = [to |-> s[h].to, weight |-> s[h].weight]
      BY <1>2, <1>3
    <3> QED
      BY <2>2, <3>1
  <2> HIDE DEF t
  <2> QED
    BY <1>3, <1>12, <2>1, <2>3
<1>5. DOMAIN t = 1 .. Len(s)
  BY <1>1
<1>0. t = [n \in 1 .. Len(s) |-> t[n]]
  BY <1>5
<1> HIDE DEF t
<1>6. \A n \in 1 .. Len(s) : t[n] \in R
  <2> SUFFICES ASSUME NEW n \in 1 .. Len(s) PROVE t[n] \in R
    OBVIOUS
  <2>1. t[n] = [to |-> s[n].to, weight |-> v[n]] /\ s[n].to \in N /\ v[n] \in Weight
    BY <1>3, <1>4, <1>12
  <2> QED
    BY <2>1 DEF R
<1>7. t \in Seq(R) /\ Len(t) = Len(s)
  BY <1>0, <1>1, <1>6
<1>8. \A n \in 1 .. Len(s) : t[n].to = s[n].to /\ t[n].weight = IF n = h THEN w ELSE s[n].weight
  <2>1. ASSUME NEW n \in 1 .. Len(s) PROVE t[n].to = s[n].to /\ t[n].weight = v[n]
    <3>1. t[n] = [to |-> s[n].to, weight |-> v[n]]
      BY <1>4
    <3> QED
      BY <3>1
  <2> QED
    BY <1>12, <2>1
<1>9. RowOf(t, N)
  BY <1>7, <1>8 DEF RowOf, R
<1>10. \A k : RowHas(t, k) <=> RowHas(s, k)
  BY <1>7, <1>8 DEF RowHas
<1>11. ASSUME NEW k, RowHas(t, k) PROVE RowWeight(t, k) = IF k = j THEN w ELSE RowWeight(s, k)
  <2>1. PICK n \in 1 .. Len(s) : t[n].to = k /\ t[n].weight = RowWeight(t, k)
    BY <1>7, <1>9, <1>11, RowsByRecord
  <2>2. s[n].to = k /\ RowSlot(s, k) = n /\ RowWeight(s, k) = s[n].weight
    BY <1>8, <2>1, RowSlotIs
  <2>3. n = h <=> k = j
    BY <1>2, <2>2 DEF h
  <2> QED
    BY <1>8, <2>1, <2>2, <2>3
<1> QED
  BY <1>7, <1>9, <1>10, <1>11 DEF t, h, RowReweighed

(* Where a row that shrinks by its slot h takes its records from.          *)
Filled(m, h) == [n \in 1 .. m - 1 |-> IF n = h THEN m ELSE n]

LEMMA LastFillsGap ==
  ASSUME NEW m \in Nat, NEW h \in 1 .. m
  PROVE  /\ \A n \in 1 .. m - 1 : Filled(m, h)[n] \in 1 .. m /\ Filled(m, h)[n] # h
         /\ \A k, n \in 1 .. m - 1 : k # n => Filled(m, h)[k] # Filled(m, h)[n]
         /\ \A n \in 1 .. m : n # h => \E k \in 1 .. m - 1 : Filled(m, h)[k] = n
<1>1. \A n \in 1 .. m - 1 : Filled(m, h)[n] = IF n = h THEN m ELSE n
  BY DEF Filled
<1>2. ASSUME NEW n \in 1 .. m, n # h PROVE \E k \in 1 .. m - 1 : Filled(m, h)[k] = n
  <2>1. CASE n = m
    <3>1. h \in 1 .. m - 1 /\ Filled(m, h)[h] = n
      BY <1>1, <1>2, <2>1
    <3> QED
      BY <3>1
  <2>2. CASE n # m
    <3>1. n \in 1 .. m - 1 /\ Filled(m, h)[n] = n
      BY <1>1, <1>2, <2>2
    <3> QED
      BY <3>1
  <2> QED
    BY <2>1, <2>2
<1> QED
  BY <1>1, <1>2

LEMMA RowShrinks ==
  ASSUME NEW s, NEW N, RowOf(s, N), NEW j \in N, RowHas(s, j)
  PROVE  LET t == List!Compacted(s, RowSlot(s, j))
         IN  /\ RowOf(t, N) /\ Len(t) = Len(s) - 1 /\ Len(s) >= 1
             /\ \A k : RowHas(t, k) <=> RowHas(s, k) /\ k # j
             /\ \A k : RowHas(t, k) => RowWeight(t, k) = RowWeight(s, k)
<1> DEFINE h == RowSlot(s, j)
           t == List!Compacted(s, h)
           R == [to : N, weight : Weight]
           from == Filled(Len(s), h)
<1>1. Len(s) \in Nat /\ DOMAIN s = 1 .. Len(s) /\ s \in Seq(R)
  BY RowFacts DEF RowOf
<1>2. h \in 1 .. Len(s) /\ s[h].to = j /\ Len(s) - 1 \in Nat
  BY <1>1, RowSlotFinds
<1> HIDE DEF h, R
<1>3. t = [n \in 1 .. Len(s) - 1 |-> s[from[n]]]
  BY DEF List!Compacted, Filled
<1>4. /\ \A n \in 1 .. Len(s) - 1 : from[n] \in 1 .. Len(s) /\ from[n] # h /\ s[from[n]] \in R
      /\ \A m, n \in 1 .. Len(s) - 1 : m # n => from[m] # from[n]
      /\ \A n \in 1 .. Len(s) : n # h => \E m \in 1 .. Len(s) - 1 : from[m] = n
  <2>1. \A n \in 1 .. Len(s) : s[n] \in R
    BY <1>1
  <2>2. Len(s) \in Nat
    BY <1>1
  <2> HIDE DEF from
  <2> QED
    BY <1>2, <2>1, <2>2, LastFillsGap DEF from
<1> HIDE DEF t, from
<1>5. t \in Seq(R) /\ Len(t) = Len(s) - 1 /\ \A n \in 1 .. Len(s) - 1 : t[n] = s[from[n]]
  BY <1>2, <1>3, <1>4
<1>6. RowOf(t, N)
  <2>1. ASSUME NEW m \in 1 .. Len(t), NEW n \in 1 .. Len(t), m # n PROVE t[m].to # t[n].to
    <3>1. /\ t[m] = s[from[m]] /\ t[n] = s[from[n]] /\ from[m] # from[n]
          /\ from[m] \in 1 .. Len(s) /\ from[n] \in 1 .. Len(s)
      BY <1>4, <1>5, <2>1
    <3> QED
      BY <3>1 DEF RowOf
  <2> QED
    BY <1>5, <2>1 DEF RowOf, R
<1>7. ASSUME NEW k PROVE RowHas(t, k) <=> RowHas(s, k) /\ k # j
  <2>1. ASSUME NEW n \in 1 .. Len(t), t[n].to = k PROVE RowHas(s, k) /\ k # j
    <3>1. from[n] \in 1 .. Len(s) /\ from[n] # h /\ s[from[n]].to = k
      BY <1>4, <1>5, <2>1
    <3> QED
      BY <1>2, <3>1 DEF RowHas, RowOf
  <2>2. ASSUME RowHas(s, k), k # j PROVE RowHas(t, k)
    <3>1. PICK n \in 1 .. Len(s) : s[n].to = k
      BY <2>2 DEF RowHas
    <3>2. PICK m \in 1 .. Len(s) - 1 : from[m] = n
      BY <1>2, <1>4, <2>2, <3>1
    <3> QED
      BY <1>5, <3>1, <3>2 DEF RowHas
  <2> QED
    BY <2>1, <2>2 DEF RowHas
<1>8. ASSUME NEW k, RowHas(t, k) PROVE RowWeight(t, k) = RowWeight(s, k)
  <2>1. PICK n \in 1 .. Len(s) - 1 : t[n].to = k /\ t[n].weight = RowWeight(t, k)
    BY <1>5, <1>6, <1>8, RowsByRecord
  <2>2. from[n] \in 1 .. Len(s) /\ s[from[n]] = t[n]
    BY <1>4, <1>5
  <2>3. RowWeight(s, k) = s[from[n]].weight
    BY <2>1, <2>2, RowSlotIs
  <2> QED
    BY <2>1, <2>2, <2>3
<1> QED
  BY <1>1, <1>2, <1>5, <1>6, <1>7, <1>8 DEF t, h

(* A row has no more records than there are targets.                       *)
LEMMA RowIsShort ==
  ASSUME NEW s, NEW n \in Nat, RowOf(s, 0 .. n - 1)
  PROVE  /\ Len(s) <= n
         /\ \A j \in 0 .. n - 1 : ~RowHas(s, j) => Len(s) < n
<1> DEFINE g == [m \in 1 .. Len(s) |-> s[m].to]
           N == 0 .. n - 1
<1>1. /\ Len(s) \in Nat /\ IsFiniteSet(1 .. Len(s)) /\ Cardinality(1 .. Len(s)) = Len(s)
      /\ IsFiniteSet(N) /\ Cardinality(N) = n
  <2>1. Len(s) \in Nat
    BY RowFacts
  <2>2. /\ IsFiniteSet(1 .. Len(s))
        /\ Cardinality(1 .. Len(s)) = (IF 1 <= Len(s) THEN Len(s) - 1 + 1 ELSE 0)
    BY <2>1, FS_Interval
  <2>3. IsFiniteSet(0 .. n - 1) /\ Cardinality(0 .. n - 1) = (IF 0 <= n - 1 THEN (n - 1) - 0 + 1 ELSE 0)
    BY FS_Interval
  <2> QED
    BY <2>1, <2>2, <2>3
<1>2. \A m \in 1 .. Len(s) : s[m].to \in N
  BY RowFacts
<1>3. \A T : T \subseteq N /\ (\A m \in 1 .. Len(s) : s[m].to \in T) => Len(s) <= Cardinality(T)
  <2> TAKE T
  <2> SUFFICES ASSUME T \subseteq N, \A m \in 1 .. Len(s) : s[m].to \in T
               PROVE  Len(s) <= Cardinality(T)
    OBVIOUS
  <2>1. IsFiniteSet(T)
    BY <1>1, FS_Subset
  <2>2. g \in Injection(1 .. Len(s), T)
    BY DEF Injection, IsInjective, RowOf
  <2> HIDE DEF g, N
  <2> QED
    BY <1>1, <2>1, <2>2, FS_Injection
<1>4. Len(s) <= n
  BY <1>1, <1>2, <1>3
<1>5. ASSUME NEW j \in N, ~RowHas(s, j) PROVE Len(s) < n
  <2>1. \A m \in 1 .. Len(s) : s[m].to \in N \ {j}
    BY <1>2, <1>5 DEF RowHas
  <2>2. Cardinality(N \ {j}) = n - 1
    BY <1>1, FS_RemoveElement
  <2>3. Len(s) <= n - 1
    BY <1>3, <2>1, <2>2
  <2> QED
    BY <1>1, <2>3
<1> QED
  BY <1>4, <1>5

(* A row stays a row when there are more nodes to point at.                *)
LEMMA RowOfMore ==
  ASSUME NEW s, NEW N, NEW M, N \subseteq M, RowOf(s, N)
  PROVE  RowOf(s, M)
<1> DEFINE R == [to : M, weight : Weight]
<1>1. Len(s) \in Nat /\ DOMAIN s = 1 .. Len(s) /\ s = [n \in DOMAIN s |-> s[n]]
  <2>1. s \in Seq([to : N, weight : Weight])
    BY DEF RowOf
  <2> QED
    BY <2>1, RowFacts
<1>2. ASSUME NEW n \in 1 .. Len(s) PROVE s[n] \in R
  <2>1. s[n] = [to |-> s[n].to, weight |-> s[n].weight] /\ s[n].to \in M /\ s[n].weight \in Weight
    BY RowFacts
  <2> QED
    BY <2>1
<1> HIDE DEF R
<1>3. s \in Seq(R)
  BY <1>1, <1>2
<1> QED
  BY <1>3 DEF R, RowOf

(* --------------------------- the adjacency list --------------------------- *)
ListPairs == {e \in Nodes \X Nodes : RowHas(edges[e[1]], e[2])}

(* What the callers see while an edge is half added.                       *)
Pending(i, j) == ~List!Idle /\ half.inserted /\ i = half.from /\ j = half.to

SettledPairs == {e \in ListPairs : ~Pending(e[1], e[2])}

SettledWeight(i, j) ==
  IF ~List!Idle /\ i = half.from /\ j = half.to THEN half.previous ELSE RowWeight(edges[i], j)

ListFits ==
  /\ live \in BOOLEAN /\ directed \in BOOLEAN
  /\ ~live => ~directed /\ node_capacity = 0 /\ List!Idle
  /\ node_count \in 0 .. MaxNodes /\ node_capacity \in Nat /\ node_count <= node_capacity
  /\ List!Fits(node_capacity)
  /\ node_capacity = 0 \/ OnLadder(node_capacity)
  /\ DOMAIN edges = Nodes /\ DOMAIN edge_capacity = Nodes

(* A node's array of records has its own rung of the ladder, no higher     *)
(* than that of the array of nodes.                                        *)
RowFits(s, c) ==
  /\ RowOf(s, Nodes)
  /\ c \in Nat /\ Len(s) <= c /\ c <= node_capacity
  /\ c = 0 \/ OnLadder(c)

ListRows == \A i \in Nodes : RowFits(edges[i], edge_capacity[i])

ListHalf ==
  ~List!Idle =>
    /\ live /\ ~directed
    /\ half.from \in Nodes /\ half.to \in Nodes /\ half.from # half.to
    /\ half.weight \in Weight /\ half.inserted \in BOOLEAN
    /\ RowHas(edges[half.from], half.to)
    /\ RowWeight(edges[half.from], half.to) = half.weight

ListMirrors ==
  ~directed => \A i, j \in Nodes : <<i, j>> \in SettledPairs =>
                 <<j, i>> \in SettledPairs /\ SettledWeight(i, j) = SettledWeight(j, i)

ListCounts ==
  edge_count \in Nat /\ edge_count = Cardinality(LogicalEdges(directed, SettledPairs))

ListInv ==
  ListFits /\ ListRows /\ ListHalf /\ ListMirrors /\ ListCounts /\ List!OwnsItsBlocks

LEMMA SlotIs ==
  \A i, j : /\ List!SlotOf(i, j) = RowSlot(edges[i], j)
            /\ Len(edges[i]) \in Nat => (List!HasRecord(i, j) <=> RowHas(edges[i], j))
<1> TAKE i, j
<1>1. List!SlotOf(i, j) = RowSlot(edges[i], j)
  BY DEF List!SlotOf, List!Records, RowSlot
<1> QED
  BY <1>1, RowSlotFinds DEF List!HasRecord

(* A larger array of a node still passes every check.                      *)
LEMMA RowDoubles ==
  ASSUME ListFits, NEW s, NEW c, RowFits(s, c), NEW j \in Nodes, ~RowHas(s, j),
         Len(s) = c, List!CanGrow(c)
  PROVE  LET d == List!Doubled(c)
         IN  /\ d \in Nat /\ Len(s) + 1 <= d /\ d <= node_capacity
             /\ OnLadder(d)
<1>1. Len(s) < node_count
  BY RowIsShort DEF Nodes, ListFits, RowFits
<1>2. CASE c = 0
  BY <1>1, <1>2, LadderClimbs DEF ListFits, List!Doubled, RowFits
<1>3. CASE c # 0
  <2>1. c < node_capacity /\ c \in Nat /\ node_capacity \in Nat
    BY <1>1 DEF RowFits, ListFits
  <2>2. OnLadder(c) /\ OnLadder(node_capacity)
    BY <1>3, <2>1 DEF RowFits, ListFits
  <2>3. c * 2 <= node_capacity
    BY <2>1, <2>2, LadderHalves
  <2>4. List!Doubled(c) = c * 2
    <3>1. c <= ListSizeMax \div 2 /\ ListSizeMax \in Nat
      BY ListAssumption DEF List!CanGrow, List!SizeAssumption
    <3>2. c * 2 <= ListSizeMax
      BY <2>1, <3>1
    <3>3. (c * 2) % (ListSizeMax + 1) = c * 2
      BY <2>1, <3>1, <3>2
    <3> QED
      BY <1>3, <3>3 DEF List!Doubled, List!Wrap
  <2>5. OnLadder(c * 2)
    BY <2>2, LadderClimbs
  <2>6. c * 2 \in Nat /\ Len(s) + 1 <= c * 2
    BY <1>3, <2>1
  <2> QED
    BY <2>3, <2>4, <2>5, <2>6
<1> QED
  BY <1>2, <1>3

(* Of all rows only that of node i changes.                                *)
OnlyRow(i) ==
  /\ DOMAIN edges' = Nodes /\ DOMAIN edge_capacity' = Nodes
  /\ \A k \in Nodes : k # i => edges'[k] = edges[k] /\ edge_capacity'[k] = edge_capacity[k]

LEMMA AddDirectedRow ==
  ASSUME ListFits, ListRows, NEW i \in Nodes, NEW j \in Nodes, NEW w \in Weight,
         List!AddDirected(i, j, w)
  PROVE  /\ OnlyRow(i) /\ RowFits(edges'[i], edge_capacity'[i])
         /\ \A k : RowHas(edges'[i], k) <=> RowHas(edges[i], k) \/ k = j
         /\ \A k : RowHas(edges'[i], k) =>
              RowWeight(edges'[i], k) = IF k = j THEN w ELSE RowWeight(edges[i], k)
         /\ RowHas(edges[i], j) =>
              /\ UNCHANGED blocks
              /\ edge_capacity'[i] = edge_capacity[i] /\ Len(edges'[i]) = Len(edges[i])
         /\ ~RowHas(edges[i], j) =>
              /\ edge_count < ListEdges
              /\ edge_capacity'[i] > 0 /\ Len(edges'[i]) = Len(edges[i]) + 1
              /\ blocks' = blocks + (IF edge_capacity[i] > 0 THEN 1 ELSE 2)
<1> DEFINE s == edges[i]
           c == edge_capacity[i]
<1>1. RowFits(s, c) /\ RowOf(s, Nodes) /\ c \in Nat
  BY DEF ListRows, RowFits
<1>2. Len(s) \in Nat /\ Len(s) <= c
  BY <1>1, RowFacts DEF RowFits
<1>3. (List!HasRecord(i, j) <=> RowHas(s, j)) /\ List!SlotOf(i, j) = RowSlot(s, j)
  BY <1>2, SlotIs
<1>4. DOMAIN edges = Nodes /\ DOMAIN edge_capacity = Nodes
  BY DEF ListFits
<1>5. CASE List!Reweigh(i, j, w)
  <2> DEFINE t == RowReweighed(s, j, w)
  <2>1. RowHas(s, j)
    BY <1>3, <1>5 DEF List!Reweigh
  <2>2. edges' = [edges EXCEPT ![i] = t]
    BY <1>3, <1>5 DEF List!Reweigh, List!Reweighted, RowReweighed
  <2>3. edges'[i] = t /\ DOMAIN edges' = Nodes /\ \A k \in Nodes : k # i => edges'[k] = edges[k]
    BY <1>4, <2>2
  <2>4. edge_capacity' = edge_capacity /\ blocks' = blocks
    BY <1>5 DEF List!Reweigh
  <2>5. /\ RowOf(t, Nodes) /\ Len(t) = Len(s)
        /\ \A k : RowHas(t, k) <=> RowHas(s, k)
        /\ \A k : RowHas(t, k) => RowWeight(t, k) = IF k = j THEN w ELSE RowWeight(s, k)
    BY <1>1, <2>1, RowKeepsTargets
  <2> HIDE DEF t, s, c
  <2>6. RowFits(t, c)
    BY <1>1, <2>5 DEF RowFits
  <2>7. \A k : RowHas(t, k) <=> RowHas(s, k) \/ k = j
    BY <2>1, <2>5
  <2> QED
    BY <1>4, <2>1, <2>3, <2>4, <2>5, <2>6, <2>7 DEF OnlyRow, s, c
<1>6. CASE List!AppendRecord(i, j, w)
  <2> DEFINE t == Append(s, [to |-> j, weight |-> w])
  <2>1. ~RowHas(s, j) /\ edge_count < ListEdges
    BY <1>3, <1>6 DEF List!AppendRecord
  <2>2. edges' = [edges EXCEPT ![i] = t]
    BY <1>6 DEF List!AppendRecord
  <2>3. edges'[i] = t /\ DOMAIN edges' = Nodes /\ \A k \in Nodes : k # i => edges'[k] = edges[k]
    BY <1>4, <2>2
  <2>4. /\ RowOf(t, Nodes) /\ Len(t) = Len(s) + 1
        /\ \A k : RowHas(t, k) <=> RowHas(s, k) \/ k = j
        /\ \A k : RowHas(t, k) => RowWeight(t, k) = IF k = j THEN w ELSE RowWeight(s, k)
    BY <1>1, <2>1, RowGrows
  <2>5. CASE List!IsFull(i)
    <3>1. /\ Len(s) = c /\ List!CanGrow(c)
          /\ edge_capacity' = [edge_capacity EXCEPT ![i] = List!Doubled(c)]
          /\ blocks' = blocks + (IF c = 0 THEN 2 ELSE 1)
      BY <1>6, <2>5 DEF List!AppendRecord, List!IsFull
    <3>2. /\ edge_capacity'[i] = List!Doubled(c) /\ DOMAIN edge_capacity' = Nodes
          /\ \A k \in Nodes : k # i => edge_capacity'[k] = edge_capacity[k]
      BY <1>4, <3>1
    <3>3. /\ List!Doubled(c) \in Nat /\ Len(s) + 1 <= List!Doubled(c)
          /\ List!Doubled(c) <= node_capacity /\ OnLadder(List!Doubled(c))
      BY <1>1, <2>1, <3>1, RowDoubles
    <3> HIDE DEF t, s, c
    <3>4. RowFits(t, List!Doubled(c)) /\ List!Doubled(c) > 0
      BY <1>2, <2>4, <3>3 DEF RowFits
    <3>5. blocks' = blocks + (IF c > 0 THEN 1 ELSE 2)
      BY <1>1, <3>1
    <3> QED
      BY <2>1, <2>3, <2>4, <3>2, <3>4, <3>5 DEF OnlyRow, s, c
  <2>6. CASE ~List!IsFull(i)
    <3>1. blocks' = blocks + 1 /\ edge_capacity' = edge_capacity /\ Len(s) # c
      BY <1>6, <2>6 DEF List!AppendRecord, List!IsFull
    <3> HIDE DEF t, s, c
    <3>2. RowFits(t, c) /\ c > 0
      BY <1>1, <1>2, <2>4, <3>1 DEF RowFits
    <3> QED
      BY <1>4, <2>1, <2>3, <2>4, <3>1, <3>2 DEF OnlyRow, s, c
  <2> QED
    BY <2>5, <2>6
<1> QED
  BY <1>5, <1>6 DEF List!AddDirected

(* ------------------------------- the blocks ------------------------------- *)
RecordSet(E, N) == UNION {{i} \X (1 .. Len(E[i])) : i \in N}

Grown(C, N) == {i \in N : C[i] > 0}

LEMMA RecordsAre ==
  \A E, N, e : e \in RecordSet(E, N) <=> \E i \in N : \E n \in 1 .. Len(E[i]) : e = <<i, n>>
BY DEF RecordSet

LEMMA RecordsFinite ==
  ASSUME NEW n \in Nat, NEW c \in Nat, NEW E,
         \A i \in 0 .. n - 1 : Len(E[i]) \in Nat /\ Len(E[i]) <= c
  PROVE  /\ IsFiniteSet(RecordSet(E, 0 .. n - 1)) /\ Cardinality(RecordSet(E, 0 .. n - 1)) \in Nat
<1> DEFINE N == 0 .. n - 1
           K == 1 .. c
<1>1. IsFiniteSet(N) /\ IsFiniteSet(K)
  BY FS_Interval
<1>2. \A i \in N : 1 .. Len(E[i]) \subseteq K
  OBVIOUS
<1> HIDE DEF N, K
<1>3. IsFiniteSet(N \X K)
  BY <1>1, FS_Product
<1>4. RecordSet(E, N) \subseteq N \X K
  BY <1>2 DEF RecordSet
<1>5. IsFiniteSet(RecordSet(E, N))
  BY <1>3, <1>4, FS_Subset
<1> QED
  BY <1>5, FS_CardinalityType DEF N

LEMMA RecordsGrow ==
  ASSUME NEW N, NEW E, NEW F, NEW i \in N, IsFiniteSet(RecordSet(E, N)),
         Len(E[i]) \in Nat, Len(F[i]) = Len(E[i]) + 1,
         \A k \in N : k # i => F[k] = E[k]
  PROVE  Cardinality(RecordSet(F, N)) = Cardinality(RecordSet(E, N)) + 1
<1> DEFINE new == <<i, Len(F[i])>>
<1>1. new \notin RecordSet(E, N)
  BY RecordsAre
<1>2. RecordSet(F, N) = RecordSet(E, N) \cup {new}
  <2>1. ASSUME NEW e \in RecordSet(F, N) PROVE e \in RecordSet(E, N) \cup {new}
    <3>1. PICK k \in N : \E n \in 1 .. Len(F[k]) : e = <<k, n>>
      BY <2>1, RecordsAre
    <3>2. PICK n \in 1 .. Len(F[k]) : e = <<k, n>>
      BY <3>1
    <3>3. n \in 1 .. Len(E[k]) \/ e = new
      BY <3>2
    <3> QED
      BY <3>2, <3>3, RecordsAre
  <2>2. ASSUME NEW e \in RecordSet(E, N) PROVE e \in RecordSet(F, N)
    <3>1. PICK k \in N : \E n \in 1 .. Len(E[k]) : e = <<k, n>>
      BY <2>2, RecordsAre
    <3>2. PICK n \in 1 .. Len(E[k]) : e = <<k, n>>
      BY <3>1
    <3>3. n \in 1 .. Len(F[k])
      BY <3>2
    <3> QED
      BY <3>2, <3>3, RecordsAre
  <2>3. new \in RecordSet(F, N)
    <3>1. Len(F[i]) \in 1 .. Len(F[i])
      OBVIOUS
    <3> QED
      BY <3>1, RecordsAre
  <2> HIDE DEF new
  <2> QED
    BY <2>1, <2>2, <2>3
<1> HIDE DEF new
<1> QED
  BY <1>1, <1>2, FS_AddElement

LEMMA GrownFinite ==
  ASSUME NEW n \in Nat, NEW C
  PROVE  IsFiniteSet(Grown(C, 0 .. n - 1)) /\ Cardinality(Grown(C, 0 .. n - 1)) \in Nat
<1>1. IsFiniteSet(0 .. n - 1)
  BY FS_Interval
<1>2. IsFiniteSet(Grown(C, 0 .. n - 1))
  BY <1>1, FS_Subset DEF Grown
<1> QED
  BY <1>2, FS_CardinalityType

LEMMA GrownGrows ==
  ASSUME NEW N, NEW C, NEW D, NEW i \in N, IsFiniteSet(Grown(C, N)), C[i] \in Nat,
         D[i] > 0, \A k \in N : k # i => D[k] = C[k]
  PROVE  Cardinality(Grown(D, N)) = Cardinality(Grown(C, N)) + (IF C[i] > 0 THEN 0 ELSE 1)
<1>1. Grown(D, N) = Grown(C, N) \cup {i}
  BY DEF Grown
<1>2. i \in Grown(C, N) <=> C[i] > 0
  BY DEF Grown
<1>3. Cardinality(Grown(C, N)) \in Nat
  BY FS_CardinalityType
<1>4. CASE C[i] > 0
  <2>1. Grown(D, N) = Grown(C, N)
    BY <1>1, <1>2, <1>4
  <2> QED
    BY <1>3, <1>4, <2>1
<1>5. CASE ~(C[i] > 0)
  <2>1. Cardinality(Grown(D, N)) = Cardinality(Grown(C, N)) + 1
    BY <1>1, <1>2, <1>5, FS_AddElement
  <2> QED
    BY <1>3, <1>5, <2>1
<1> QED
  BY <1>4, <1>5

LEMMA ListCardinality == \A S : List!Cardinality(S) = Cardinality(S)
BY DEF List!Cardinality, Cardinality

LEMMA NodeBlocksAre ==
  List!NodeBlocks
    = node_count + Cardinality(Grown(edge_capacity, Nodes)) + Cardinality(RecordSet(edges, Nodes))
<1>1. List!Nodes = Nodes
  BY DEF List!Nodes, Nodes
<1>2. {i \in Nodes : edge_capacity[i] > 0} = Grown(edge_capacity, Nodes)
  BY DEF Grown
<1>3. UNION {{i} \X List!Records(i) : i \in Nodes} = RecordSet(edges, Nodes)
  BY DEF RecordSet, List!Records
<1> QED
  BY <1>1, <1>2, <1>3, ListCardinality DEF List!NodeBlocks

LEMMA NodeBlocksAreNext ==
  List!NodeBlocks'
    = node_count' + Cardinality(Grown(edge_capacity', Nodes')) + Cardinality(RecordSet(edges', Nodes'))
<1>1. (List!NodeBlocks = node_count + Cardinality(Grown(edge_capacity, Nodes))
                                    + Cardinality(RecordSet(edges, Nodes)))'
  BY NodeBlocksAre, PTL
<1> QED
  BY <1>1

LEMMA ListBlocksFinite ==
  ASSUME ListFits, ListRows
  PROVE  /\ IsFiniteSet(Grown(edge_capacity, Nodes)) /\ IsFiniteSet(RecordSet(edges, Nodes))
         /\ Cardinality(Grown(edge_capacity, Nodes)) \in Nat
         /\ Cardinality(RecordSet(edges, Nodes)) \in Nat
         /\ \A i \in Nodes : Len(edges[i]) \in Nat /\ edge_capacity[i] \in Nat
         /\ node_count \in Nat /\ node_capacity \in Nat
<1>1. node_count \in Nat /\ node_capacity \in Nat
  BY DEF ListFits
<1>2. ASSUME NEW i \in Nodes
      PROVE  Len(edges[i]) \in Nat /\ edge_capacity[i] \in Nat /\ Len(edges[i]) <= node_capacity
  <2>1. RowFits(edges[i], edge_capacity[i])
    BY DEF ListRows
  <2>2. Len(edges[i]) \in Nat
    BY <2>1, RowFacts DEF RowFits
  <2> QED
    BY <1>1, <2>1, <2>2 DEF RowFits
<1>3. IsFiniteSet(Grown(edge_capacity, Nodes)) /\ Cardinality(Grown(edge_capacity, Nodes)) \in Nat
  BY <1>1, GrownFinite DEF Nodes
<1>4. IsFiniteSet(RecordSet(edges, Nodes)) /\ Cardinality(RecordSet(edges, Nodes)) \in Nat
  <2>1. \A i \in 0 .. node_count - 1 : Len(edges[i]) \in Nat /\ Len(edges[i]) <= node_capacity
    BY <1>2 DEF Nodes
  <2> QED
    BY <1>1, <2>1, RecordsFinite DEF Nodes
<1> QED
  BY <1>1, <1>2, <1>3, <1>4

LEMMA NodesStay ==
  ASSUME UNCHANGED node_count
  PROVE  Nodes' = Nodes
BY DEF Nodes

LEMMA AddDirectedOwns ==
  ASSUME ListFits, ListRows, List!OwnsItsBlocks, live,
         UNCHANGED <<live, node_count, node_capacity>>,
         NEW i \in Nodes, NEW j \in Nodes, NEW w \in Weight, List!AddDirected(i, j, w)
  PROVE  List!OwnsItsBlocks'
<1>1. /\ OnlyRow(i)
      /\ RowHas(edges[i], j) =>
           /\ UNCHANGED blocks
           /\ edge_capacity'[i] = edge_capacity[i] /\ Len(edges'[i]) = Len(edges[i])
      /\ ~RowHas(edges[i], j) =>
           /\ edge_capacity'[i] > 0 /\ Len(edges'[i]) = Len(edges[i]) + 1
           /\ blocks' = blocks + (IF edge_capacity[i] > 0 THEN 1 ELSE 2)
  BY AddDirectedRow
<1>2. /\ IsFiniteSet(Grown(edge_capacity, Nodes)) /\ IsFiniteSet(RecordSet(edges, Nodes))
      /\ Cardinality(Grown(edge_capacity, Nodes)) \in Nat
      /\ Cardinality(RecordSet(edges, Nodes)) \in Nat
      /\ Len(edges[i]) \in Nat /\ edge_capacity[i] \in Nat
      /\ node_count \in Nat
  BY ListBlocksFinite
<1>3. Nodes' = Nodes /\ node_count' = node_count /\ live' = live
  BY NodesStay
<1>4. CASE RowHas(edges[i], j)
  <2>1. Grown(edge_capacity', Nodes) = Grown(edge_capacity, Nodes)
    BY <1>1, <1>4 DEF Grown, OnlyRow
  <2>2. RecordSet(edges', Nodes) = RecordSet(edges, Nodes)
    <3>1. \A k \in Nodes : Len(edges'[k]) = Len(edges[k])
      BY <1>1, <1>4 DEF OnlyRow
    <3> QED
      BY <3>1 DEF RecordSet
  <2>3. List!NodeBlocks' = List!NodeBlocks
    BY <1>3, <2>1, <2>2, NodeBlocksAre, NodeBlocksAreNext
  <2>4. List!NodeArray' = List!NodeArray /\ blocks' = blocks
    BY <1>1, <1>4 DEF List!NodeArray
  <2> QED
    BY <1>3, <2>3, <2>4 DEF List!OwnsItsBlocks
<1>5. CASE ~RowHas(edges[i], j)
  <2>1. Cardinality(Grown(edge_capacity', Nodes))
          = Cardinality(Grown(edge_capacity, Nodes)) + (IF edge_capacity[i] > 0 THEN 0 ELSE 1)
    BY <1>1, <1>2, <1>5, GrownGrows DEF OnlyRow
  <2>2. Cardinality(RecordSet(edges', Nodes)) = Cardinality(RecordSet(edges, Nodes)) + 1
    BY <1>1, <1>2, <1>5, RecordsGrow DEF OnlyRow
  <2>3. List!NodeBlocks' = List!NodeBlocks + (IF edge_capacity[i] > 0 THEN 1 ELSE 2)
    BY <1>2, <1>3, <2>1, <2>2, NodeBlocksAre, NodeBlocksAreNext
  <2>4. List!NodeBlocks \in Nat /\ List!NodeArray \in Nat /\ List!NodeArray' = List!NodeArray
    BY <1>2, NodeBlocksAre DEF List!NodeArray
  <2>5. blocks = 1 + List!NodeArray + List!NodeBlocks
    BY DEF List!OwnsItsBlocks
  <2>6. blocks' = blocks + (IF edge_capacity[i] > 0 THEN 1 ELSE 2)
    BY <1>1, <1>5
  <2>7. blocks' = 1 + List!NodeArray' + List!NodeBlocks'
    BY <2>3, <2>4, <2>5, <2>6
  <2> QED
    BY <1>3, <2>7 DEF List!OwnsItsBlocks
<1> QED
  BY <1>4, <1>5

(* ----------------------- what the invariant amounts to -------------------- *)
LEMMA SettledAre ==
  /\ \A i, j : <<i, j>> \in SettledPairs <=>
       i \in Nodes /\ j \in Nodes /\ RowHas(edges[i], j) /\ ~Pending(i, j)
  /\ \A e \in SettledPairs : e = <<e[1], e[2]>> /\ e[1] \in Nodes /\ e[2] \in Nodes
BY DEF SettledPairs, ListPairs

LEMMA SettledJoined ==
  ASSUME ListInv
  PROVE  JoinedIn(directed, Nodes, SettledPairs)
<1>1. SettledPairs \in SUBSET (Nodes \X Nodes)
  BY DEF SettledPairs, ListPairs
<1>2. IsFiniteSet(Nodes)
  BY FS_Interval DEF ListInv, ListFits, Nodes
<1>3. IsFiniteSet(Nodes \X Nodes)
  BY <1>2, FS_Product
<1>4. IsFiniteSet(SettledPairs)
  BY <1>1, <1>3, FS_Subset
<1>5. ~directed => Symmetric(SettledPairs)
  <2>1. \A i, j : <<i, j>> \in SettledPairs => i \in Nodes /\ j \in Nodes
    BY SettledAre
  <2> QED
    BY <2>1 DEF ListInv, ListMirrors, Symmetric
<1> QED
  BY <1>1, <1>4, <1>5 DEF JoinedIn

LEMMA RowsFound ==
  ASSUME ListFits, ListRows, NEW i \in Nodes
  PROVE  /\ RowOf(edges[i], Nodes) /\ Len(edges[i]) \in Nat
         /\ \A j : /\ List!HasRecord(i, j) <=> RowHas(edges[i], j)
                   /\ edges[i][List!SlotOf(i, j)].weight = RowWeight(edges[i], j)
                   /\ RowHas(edges[i], j) => j \in Nodes /\ RowWeight(edges[i], j) \in Weight
<1>1. RowOf(edges[i], Nodes)
  BY DEF ListRows, RowFits
<1>2. Len(edges[i]) \in Nat
  BY <1>1, RowFacts
<1>3. \A j : RowHas(edges[i], j) => j \in Nodes /\ RowWeight(edges[i], j) \in Weight
  BY <1>1, RowsByRecord
<1>4. \A j : /\ List!HasRecord(i, j) <=> RowHas(edges[i], j)
             /\ edges[i][List!SlotOf(i, j)].weight = RowWeight(edges[i], j)
  BY <1>2, SlotIs DEF RowWeight
<1> QED
  BY <1>1, <1>2, <1>3, <1>4

LEMMA ListGrants ==
  ASSUME NEW c \in Nat, List!Fits(c)
  PROVE  List!SlotsGranted(c) = c /\ c <= ListSizeMax
<1>1. ListSizeMax \in Nat /\ PtrSize \in Nat \ {0}
  BY ListAssumption DEF List!SizeAssumption
<1>2. c * PtrSize <= ListSizeMax
  BY <1>1, DividedFits DEF List!Fits
<1>3. c <= c * PtrSize /\ c * PtrSize \in Nat
  BY <1>1
<1>4. (c * PtrSize) % (ListSizeMax + 1) = c * PtrSize
  <2> DEFINE p == c * PtrSize
  <2>1. p \in Nat /\ p <= ListSizeMax
    BY <1>2, <1>3
  <2> HIDE DEF p
  <2>2. p % (ListSizeMax + 1) = p
    BY <1>1, <2>1
  <2> QED
    BY <2>2 DEF p
<1>5. (c * PtrSize) \div PtrSize = c
  BY <1>1
<1>6. c <= ListSizeMax
  BY <1>1, <1>2, <1>3
<1> QED
  BY <1>4, <1>5, <1>6 DEF List!SlotsGranted, List!Wrap

LEMMA ListInvIsRight ==
  ASSUME ListInv
  PROVE  List!WellFormed /\ List!Mirrored
<1>1. ListFits /\ ListRows /\ ListHalf /\ List!Nodes = Nodes
  BY DEF ListInv, List!Nodes, Nodes
<1>2. \A i \in Nodes : /\ RowOf(edges[i], Nodes) /\ Len(edges[i]) \in Nat
                       /\ RowFits(edges[i], edge_capacity[i])
  BY <1>1, RowsFound DEF ListRows
<1>3. List!TypeOK
  <2>1. /\ live \in BOOLEAN /\ directed \in BOOLEAN
    BY <1>1 DEF ListFits
  <2>2. /\ node_count \in 0 .. MaxNodes /\ node_capacity \in Nat /\ edge_count \in Nat
        /\ DOMAIN edges = Nodes /\ DOMAIN edge_capacity = Nodes
    BY <1>1 DEF ListInv, ListFits, ListCounts
  <2>3. \A i \in Nodes : \A n \in List!Records(i) :
          edges[i][n].to \in Nodes /\ edges[i][n].weight \in Weight
    BY <1>2, RowFacts DEF List!Records
  <2>4. \A i \in Nodes : edge_capacity[i] \in Nat
    BY <1>2 DEF RowFits
  <2>5. ~List!Idle => {half.from, half.to} \subseteq Nodes /\ half.weight \in Weight
    BY <1>1 DEF ListHalf
  <2>6. blocks \in Nat
    <3>1. List!NodeBlocks \in Nat
      BY <1>1, ListBlocksFinite, NodeBlocksAre
    <3> QED
      BY <3>1 DEF ListInv, List!OwnsItsBlocks, List!NodeArray
  <2> QED
    BY <1>1, <2>1, <2>2, <2>3, <2>4, <2>5, <2>6 DEF List!TypeOK
<1>4. List!OneRecordPerTarget
  BY <1>1, <1>2 DEF List!OneRecordPerTarget, List!Records, RowOf
<1>5. List!ArraysFit
  <2>1. node_count <= node_capacity /\ List!SlotsGranted(node_capacity) = node_capacity
    BY <1>1, ListGrants DEF ListFits
  <2>2. \A i \in Nodes : Len(edges[i]) <= edge_capacity[i] /\ edge_capacity[i] <= node_capacity
    BY <1>2 DEF RowFits
  <2> QED
    BY <1>1, <2>1, <2>2 DEF List!ArraysFit
<1>6. List!Mirrored
  <2>1. ASSUME ~directed, NEW i \in Nodes, NEW j \in Nodes, {i, j} # {half.from, half.to}
        PROVE  /\ List!HasRecord(i, j) <=> List!HasRecord(j, i)
               /\ List!HasRecord(i, j) =>
                    edges[i][List!SlotOf(i, j)].weight = edges[j][List!SlotOf(j, i)].weight
    <3>1. ~Pending(i, j) /\ ~Pending(j, i)
      BY <2>1 DEF Pending
    <3>2. /\ SettledWeight(i, j) = RowWeight(edges[i], j)
          /\ SettledWeight(j, i) = RowWeight(edges[j], i)
      BY <2>1 DEF SettledWeight
    <3>3. /\ <<i, j>> \in SettledPairs <=> RowHas(edges[i], j)
          /\ <<j, i>> \in SettledPairs <=> RowHas(edges[j], i)
      BY <3>1, SettledAre
    <3>4. /\ RowHas(edges[i], j) <=> RowHas(edges[j], i)
          /\ RowHas(edges[i], j) => RowWeight(edges[i], j) = RowWeight(edges[j], i)
      BY <2>1, <3>2, <3>3 DEF ListInv, ListMirrors
    <3> QED
      BY <1>1, <3>4, RowsFound
  <2>2. ASSUME ~List!Idle, ~half.inserted PROVE List!HasRecord(half.to, half.from)
    <3>1. /\ ~directed /\ half.from \in Nodes /\ half.to \in Nodes
          /\ RowHas(edges[half.from], half.to)
      BY <1>1, <2>2 DEF ListHalf
    <3>2. <<half.from, half.to>> \in SettledPairs
      BY <2>2, <3>1, SettledAre DEF Pending
    <3>3. <<half.to, half.from>> \in SettledPairs
      BY <3>1, <3>2 DEF ListInv, ListMirrors
    <3> QED
      BY <1>1, <3>1, <3>3, SettledAre, RowsFound
  <2> QED
    BY <1>1, <2>1, <2>2 DEF List!Mirrored
<1> QED
  BY <1>3, <1>4, <1>5, <1>6 DEF List!WellFormed, ListInv

LEMMA ListShownIs ==
  ASSUME ListFits, ListRows
  PROVE  List!Shown = [e \in ListPairs |-> RowWeight(edges[e[1]], e[2])]
<1> DEFINE D == UNION {{<<i, edges[i][n].to>> : n \in List!Records(i)} : i \in List!Nodes}
<1>1. List!Nodes = Nodes
  BY DEF List!Nodes, Nodes
<1>2. ASSUME NEW e \in D PROVE e \in ListPairs
  <2>1. PICK i \in Nodes : e \in {<<i, edges[i][n].to>> : n \in List!Records(i)}
    BY <1>1
  <2>2. PICK n \in 1 .. Len(edges[i]) : e = <<i, edges[i][n].to>>
    BY <2>1 DEF List!Records
  <2>3. RowHas(edges[i], edges[i][n].to)
    BY DEF RowHas
  <2>4. edges[i][n].to \in Nodes
    BY <2>3, RowsFound
  <2> QED
    BY <2>2, <2>3, <2>4 DEF ListPairs
<1>3. ASSUME NEW e \in ListPairs PROVE e \in D
  <2>1. e = <<e[1], e[2]>> /\ e[1] \in Nodes /\ RowHas(edges[e[1]], e[2])
    BY DEF ListPairs
  <2>2. PICK n \in 1 .. Len(edges[e[1]]) : edges[e[1]][n].to = e[2]
    BY <2>1 DEF RowHas
  <2>3. e \in {<<e[1], edges[e[1]][m].to>> : m \in List!Records(e[1])}
    BY <2>1, <2>2 DEF List!Records
  <2> QED
    BY <1>1, <2>1, <2>3
<1>4. \A e \in ListPairs : edges[e[1]][List!SlotOf(e[1], e[2])].weight = RowWeight(edges[e[1]], e[2])
  BY RowsFound DEF ListPairs
<1>5. List!Shown = [e \in D |-> edges[e[1]][List!SlotOf(e[1], e[2])].weight]
  BY DEF List!Shown
<1> HIDE DEF D
<1>6. D = ListPairs
  BY <1>2, <1>3
<1> QED
  BY <1>4, <1>5, <1>6

LEMMA SettledIs ==
  ListInv => List!Settled = [e \in SettledPairs |-> SettledWeight(e[1], e[2])]
<1> SUFFICES ASSUME ListInv PROVE List!Settled = [e \in SettledPairs |-> SettledWeight(e[1], e[2])]
  OBVIOUS
<1>1. List!Shown = [e \in ListPairs |-> RowWeight(edges[e[1]], e[2])]
  BY ListShownIs DEF ListInv
<1>2. \A e \in ListPairs : e = <<e[1], e[2]>>
  BY DEF ListPairs
<1>3. CASE List!Idle
  <2>1. SettledPairs = ListPairs
    BY <1>3 DEF SettledPairs, Pending
  <2> QED
    BY <1>1, <1>3, <2>1 DEF List!Settled, SettledWeight
<1>4. CASE ~List!Idle
  <2> DEFINE h == <<half.from, half.to>>
  <2>1. /\ half.from \in Nodes /\ half.to \in Nodes /\ half.inserted \in BOOLEAN
        /\ RowHas(edges[half.from], half.to)
    BY <1>4 DEF ListInv, ListHalf
  <2>2. h \in ListPairs
    BY <2>1 DEF ListPairs
  <2>3. \A e \in ListPairs : e = h <=> e[1] = half.from /\ e[2] = half.to
    BY <1>2
  <2>4. CASE half.inserted
    <3>1. List!Settled = [f \in ListPairs \ {h} |-> List!Shown[f]]
      BY <1>1, <1>4, <2>4 DEF List!Settled
    <3>2. SettledPairs = ListPairs \ {h}
      BY <1>4, <2>3, <2>4 DEF SettledPairs, Pending
    <3>3. \A e \in ListPairs \ {h} : List!Shown[e] = SettledWeight(e[1], e[2])
      BY <1>1, <2>3 DEF SettledWeight
    <3> HIDE DEF h
    <3> QED
      BY <3>1, <3>2, <3>3
  <2>5. CASE ~half.inserted
    <3>1. List!Settled = [List!Shown EXCEPT ![h] = half.previous]
      BY <1>4, <2>5 DEF List!Settled
    <3>2. SettledPairs = ListPairs
      BY <2>5 DEF SettledPairs, Pending
    <3>3. \A e \in ListPairs : (IF e = h THEN half.previous ELSE List!Shown[e]) = SettledWeight(e[1], e[2])
      BY <1>1, <1>4, <2>3 DEF SettledWeight
    <3> HIDE DEF h
    <3>4. DOMAIN List!Shown = ListPairs
      BY <1>1
    <3>5. List!Settled = [e \in ListPairs |-> IF e = h THEN half.previous ELSE List!Shown[e]]
      BY <3>1, <3>4
    <3> QED
      BY <3>2, <3>3, <3>5
  <2> QED
    BY <2>1, <2>4, <2>5
<1> QED
  BY <1>3, <1>4

LEMMA SettledIsNext ==
  ListInv' => List!Settled' = [e \in SettledPairs' |-> SettledWeight(e[1], e[2])']
<1>1. (ListInv => List!Settled = [e \in SettledPairs |-> SettledWeight(e[1], e[2])])'
  BY SettledIs, PTL
<1> QED
  BY <1>1

(* ------------------------- steps of the adjacency list -------------------- *)
(* A step that changes one row leaves the storage within what is granted.  *)
LEMMA OneRowKeeps ==
  ASSUME ListFits, ListRows, NEW i \in Nodes, OnlyRow(i), RowFits(edges'[i], edge_capacity'[i]),
         UNCHANGED <<live, directed, node_count, node_capacity>>, live
  PROVE  ListFits' /\ ListRows'
<1>1. Nodes' = Nodes
  BY NodesStay
<1>2. ListFits'
  BY <1>1 DEF ListFits, OnlyRow, List!Fits
<1>3. ASSUME NEW k \in Nodes PROVE RowFits(edges'[k], edge_capacity'[k])
  <2>1. k # i => edges'[k] = edges[k] /\ edge_capacity'[k] = edge_capacity[k]
    BY DEF OnlyRow
  <2>2. RowFits(edges[k], edge_capacity[k])
    BY DEF ListRows
  <2> QED
    BY <2>1, <2>2
<1>4. \A k \in Nodes : RowFits(edges[k], edge_capacity[k])'
  BY <1>1, <1>3 DEF RowFits
<1> QED
  BY <1>1, <1>2, <1>4 DEF ListRows

(* The pairs stored when row i gets, keeps or loses one target.            *)
LEMMA RowGains ==
  ASSUME ListFits, NEW i \in Nodes, NEW j \in Nodes, OnlyRow(i), UNCHANGED node_count,
         \A k : RowHas(edges'[i], k) <=> RowHas(edges[i], k) \/ k = j
  PROVE  ListPairs' = ListPairs \cup {<<i, j>>}
<1>1. Nodes' = Nodes
  BY NodesStay
<1>2. ASSUME NEW e \in Nodes \X Nodes
      PROVE  RowHas(edges'[e[1]], e[2]) <=> RowHas(edges[e[1]], e[2]) \/ e = <<i, j>>
  <2>1. e = <<e[1], e[2]>> /\ e[1] \in Nodes
    OBVIOUS
  <2>2. e[1] # i => edges'[e[1]] = edges[e[1]]
    BY <2>1 DEF OnlyRow
  <2> QED
    BY <2>1, <2>2
<1> QED
  BY <1>1, <1>2 DEF ListPairs

(* What the callers see, after a call that joined i and j.                 *)
SettledAfter(i, j, w) ==
  /\ SettledPairs' = SettledPairs \cup Ends(directed, i, j)
  /\ \A k, l \in Nodes : <<k, l>> \in SettledPairs' =>
       SettledWeight(k, l)'
                  = IF <<k, l>> \in Ends(directed, i, j) THEN w ELSE SettledWeight(k, l)
  /\ edge_count' = IF <<i, j>> \in SettledPairs THEN edge_count ELSE edge_count + 1

LEMMA EndsAre ==
  ASSUME NEW i, NEW j
  PROVE  /\ <<i, j>> \in Ends(directed, i, j)
         /\ \A k, l : <<k, l>> \in Ends(directed, i, j) <=>
              (k = i /\ l = j) \/ (~directed /\ k = j /\ l = i)
BY DEF Ends

LEMMA SettledAfterKeeps ==
  ASSUME ListInv, NEW i \in Nodes, NEW j \in Nodes, NEW w, SettledAfter(i, j, w),
         UNCHANGED <<directed, node_count>>
  PROVE  ListMirrors' /\ ListCounts'
<1>1. Nodes' = Nodes /\ directed' = directed /\ directed \in BOOLEAN
  BY NodesStay DEF ListInv, ListFits
<1>2. JoinedIn(directed, Nodes, SettledPairs)
  BY SettledJoined
<1>3. ListMirrors'
  <2>1. ASSUME ~directed, NEW k \in Nodes, NEW l \in Nodes, <<k, l>> \in SettledPairs'
        PROVE  <<l, k>> \in SettledPairs' /\ SettledWeight(k, l)' = SettledWeight(l, k)'
    <3>1. CASE <<k, l>> \in Ends(directed, i, j)
      <4>1. <<l, k>> \in Ends(directed, i, j)
        BY <2>1, <3>1, EndsAre
      <4> QED
        BY <2>1, <3>1, <4>1 DEF SettledAfter
    <3>2. CASE <<k, l>> \notin Ends(directed, i, j)
      <4>1. <<l, k>> \notin Ends(directed, i, j)
        BY <2>1, <3>2, EndsAre
      <4>2. <<k, l>> \in SettledPairs
        BY <2>1, <3>2 DEF SettledAfter
      <4>3. <<l, k>> \in SettledPairs /\ SettledWeight(k, l) = SettledWeight(l, k)
        BY <2>1, <4>2 DEF ListInv, ListMirrors
      <4> QED
        BY <2>1, <3>2, <4>1, <4>3 DEF SettledAfter
    <3> QED
      BY <3>1, <3>2
  <2> QED
    BY <1>1, <2>1 DEF ListMirrors
<1>4. ListCounts'
  <2>1. CASE <<i, j>> \in SettledPairs
    <3>1. Ends(directed, i, j) \subseteq SettledPairs
      <4>1. ~directed => <<j, i>> \in SettledPairs
        BY <1>2, <2>1 DEF JoinedIn, Symmetric
      <4> QED
        BY <2>1, <4>1 DEF Ends
    <3>2. SettledPairs' = SettledPairs
      BY <3>1 DEF SettledAfter
    <3> QED
      BY <1>1, <2>1, <3>2 DEF SettledAfter, ListInv, ListCounts
  <2>2. CASE <<i, j>> \notin SettledPairs
    <3>1. Cardinality(LogicalEdges(directed, SettledPairs \cup Ends(directed, i, j)))
            = Cardinality(LogicalEdges(directed, SettledPairs)) + 1
      BY <1>1, <1>2, <2>2, EdgeAdded
    <3> QED
      BY <1>1, <2>2, <3>1 DEF SettledAfter, ListInv, ListCounts
  <2> QED
    BY <2>1, <2>2
<1> QED
  BY <1>3, <1>4

LEMMA ListPromised ==
  /\ \A S : List!Promise!Cardinality(S) = Cardinality(S)
  /\ \A pairs : List!Promise!Logical(pairs) = LogicalEdges(directed, pairs)
  /\ \A i, j : List!Promise!Both(i, j) = Ends(directed, i, j)
  /\ List!Promise!Nodes = Nodes
BY DEF List!Promise!Cardinality, Cardinality, List!Promise!Logical, LogicalEdges,
       List!Promise!Both, Ends, List!Promise!Nodes, Nodes

LEMMA ListAddsPromised ==
  ASSUME ListInv, ListInv', NEW i \in Nodes, NEW j \in Nodes, NEW w \in Weight,
         SettledAfter(i, j, w), UNCHANGED <<directed, node_count>>,
         List!Answer("add_edge", <<i, j>>, TRUE, Untouched)
  PROVE  List!Promise!Next
<1>1. /\ List!Settled = [e \in SettledPairs |-> SettledWeight(e[1], e[2])]
      /\ List!Settled' = [e \in SettledPairs' |-> SettledWeight(e[1], e[2])']
  BY SettledIs, SettledIsNext
<1> DEFINE new == [e \in List!Promise!Joined \cup List!Promise!Both(i, j) |->
                     IF e \in List!Promise!Both(i, j) THEN w ELSE List!Settled[e]]
<1>2. List!Promise!Joined = SettledPairs /\ List!Promise!Both(i, j) = Ends(directed, i, j)
  BY <1>1, ListPromised DEF List!Promise!Joined
<1>3. SettledPairs' = SettledPairs \cup Ends(directed, i, j)
  BY DEF SettledAfter
<1>4. ASSUME NEW e \in SettledPairs'
      PROVE  SettledWeight(e[1], e[2])'
               = IF e \in Ends(directed, i, j) THEN w ELSE SettledWeight(e[1], e[2])
  <2>1. e = <<e[1], e[2]>> /\ e[1] \in Nodes /\ e[2] \in Nodes
    BY <1>3, SettledAre DEF Ends
  <2> QED
    BY <2>1 DEF SettledAfter
<1>5. List!Settled' = new
  BY <1>1, <1>2, <1>3, <1>4
<1>6. DOMAIN new = SettledPairs'
  BY <1>2, <1>3
<1>7. edge_count' = List!Promise!Cardinality(List!Promise!Logical(DOMAIN new))
  <2>1. edge_count' = Cardinality(LogicalEdges(directed', SettledPairs'))
    BY DEF ListInv, ListCounts
  <2>2. directed' = directed
    OBVIOUS
  <2> HIDE DEF new
  <2> QED
    BY <1>6, <2>1, <2>2, ListPromised
<1>8. List!Promise!Reweighted(new)
  BY <1>5, <1>7 DEF List!Promise!Reweighted
<1>9. List!Promise!Answer("add_edge", <<i, j>>, TRUE, Untouched)
  BY DEF List!Answer, List!Promise!Answer
<1>10. List!Promise!AddEdge(i, j, w)
  BY <1>8, <1>9 DEF List!Promise!AddEdge
<1> QED
  BY <1>10, ListPromised DEF List!Promise!Next

(* What the callers see, while an edge is half added or taken back.        *)
SettledSame ==
  /\ SettledPairs' = SettledPairs
  /\ \A k, l \in Nodes : <<k, l>> \in SettledPairs => SettledWeight(k, l)' = SettledWeight(k, l)
  /\ UNCHANGED <<directed, node_count, edge_count>>

LEMMA SettledSameKeeps ==
  ASSUME ListInv, SettledSame
  PROVE  ListMirrors' /\ ListCounts'
<1>1. Nodes' = Nodes
  BY NodesStay DEF SettledSame
<1> QED
  BY <1>1 DEF SettledSame, ListInv, ListMirrors, ListCounts

LEMMA SettledSameStays ==
  ASSUME ListInv, ListInv', SettledSame
  PROVE  UNCHANGED List!Promise!graph
<1>1. /\ List!Settled = [e \in SettledPairs |-> SettledWeight(e[1], e[2])]
      /\ List!Settled' = [e \in SettledPairs' |-> SettledWeight(e[1], e[2])']
  BY SettledIs, SettledIsNext
<1>2. \A e \in SettledPairs : SettledWeight(e[1], e[2])' = SettledWeight(e[1], e[2])
  BY SettledAre DEF SettledSame
<1>3. List!Settled' = List!Settled
  BY <1>1, <1>2 DEF SettledSame
<1> QED
  BY <1>3 DEF SettledSame, List!Promise!graph

LEMMA AddSingleKeeps ==
  ASSUME ListInv, NEW i \in Nodes, NEW j \in Nodes, NEW w \in Weight, List!AddSingle(i, j, w)
  PROVE  ListInv' /\ List!Promise!Next
<1>1. /\ ListFits /\ ListRows /\ List!OwnsItsBlocks
      /\ live /\ List!Idle /\ (directed \/ i = j) /\ List!AddDirected(i, j, w)
      /\ UNCHANGED <<live, directed, node_count, node_capacity, half>>
  BY DEF ListInv, List!AddSingle
<1>2. /\ OnlyRow(i) /\ RowFits(edges'[i], edge_capacity'[i])
      /\ \A k : RowHas(edges'[i], k) <=> RowHas(edges[i], k) \/ k = j
      /\ \A k : RowHas(edges'[i], k) =>
           RowWeight(edges'[i], k) = IF k = j THEN w ELSE RowWeight(edges[i], k)
      /\ ~RowHas(edges[i], j) => edge_count < ListEdges
  BY <1>1, AddDirectedRow
<1>3. ListFits' /\ ListRows' /\ List!OwnsItsBlocks' /\ Nodes' = Nodes
  BY <1>1, <1>2, OneRowKeeps, AddDirectedOwns, NodesStay
<1>4. ListPairs' = ListPairs \cup {<<i, j>>}
  BY <1>1, <1>2, RowGains
<1>5. List!Idle'
  BY <1>1 DEF List!Idle, List!NoHalf
<1>6. SettledPairs = ListPairs /\ SettledPairs' = ListPairs'
  BY <1>1, <1>5 DEF SettledPairs, Pending
<1>7. SettledAfter(i, j, w)
  <2>1. Ends(directed, i, j) = {<<i, j>>}
    BY <1>1 DEF Ends
  <2>2. ASSUME NEW k \in Nodes, NEW l \in Nodes, <<k, l>> \in SettledPairs'
        PROVE  SettledWeight(k, l)'
                  = IF <<k, l>> \in Ends(directed, i, j) THEN w ELSE SettledWeight(k, l)
    <3>1. SettledWeight(k, l)' = RowWeight(edges'[k], l) /\ SettledWeight(k, l) = RowWeight(edges[k], l)
      BY <1>1, <1>5 DEF SettledWeight
    <3>2. RowHas(edges'[k], l)
      BY <1>6, <2>2 DEF ListPairs
    <3>3. CASE k = i
      BY <1>2, <2>1, <3>1, <3>2, <3>3
    <3>4. CASE k # i
      BY <1>2, <2>1, <3>1, <3>4 DEF OnlyRow
    <3> QED
      BY <3>3, <3>4
  <2>3. edge_count' = IF <<i, j>> \in SettledPairs THEN edge_count ELSE edge_count + 1
    <3>1. List!HasRecord(i, j) <=> <<i, j>> \in SettledPairs
      BY <1>1, <1>6, RowsFound DEF ListPairs
    <3>2. edge_count \in Nat /\ ListEdges \in Nat /\ ListEdges <= ListSizeMax /\ ListSizeMax \in Nat
      BY ListAssumption DEF List!SizeAssumption, List!GraphAssumption, ListInv, ListCounts
    <3>3. <<i, j>> \notin SettledPairs => edge_count < ListEdges
      BY <1>2, <1>6 DEF ListPairs
    <3>4. edge_count < ListEdges => (edge_count + 1) % (ListSizeMax + 1) = edge_count + 1
      BY <3>2
    <3> QED
      BY <3>1, <3>3, <3>4 DEF List!AddSingle, List!Wrap
  <2> QED
    BY <1>4, <1>6, <2>1, <2>2, <2>3 DEF SettledAfter
<1>8. ListMirrors' /\ ListCounts'
  BY <1>1, <1>7, SettledAfterKeeps
<1>9. ListHalf'
  BY <1>5 DEF ListHalf
<1>10. ListInv'
  BY <1>3, <1>8, <1>9 DEF ListInv
<1>11. List!Answer("add_edge", <<i, j>>, TRUE, Untouched)
  BY DEF List!AddSingle
<1> QED
  BY <1>1, <1>7, <1>10, <1>11, ListAddsPromised

LEMMA AddForwardKeeps ==
  ASSUME ListInv, NEW i \in Nodes, NEW j \in Nodes, NEW w \in Weight, List!AddForward(i, j, w)
  PROVE  ListInv' /\ UNCHANGED List!Promise!vars
<1>1. /\ ListFits /\ ListRows /\ List!OwnsItsBlocks
      /\ live /\ List!Idle /\ ~directed /\ i # j /\ List!AddDirected(i, j, w)
      /\ UNCHANGED <<live, directed, node_count, node_capacity, edge_count, reply>>
  BY DEF ListInv, List!AddForward
<1>2. /\ OnlyRow(i) /\ RowFits(edges'[i], edge_capacity'[i])
      /\ \A k : RowHas(edges'[i], k) <=> RowHas(edges[i], k) \/ k = j
      /\ \A k : RowHas(edges'[i], k) =>
           RowWeight(edges'[i], k) = IF k = j THEN w ELSE RowWeight(edges[i], k)
  BY <1>1, AddDirectedRow
<1>3. ListFits' /\ ListRows' /\ List!OwnsItsBlocks' /\ Nodes' = Nodes
  <2>1. ListFits' /\ ListRows'
    BY <1>1, <1>2, OneRowKeeps
  <2> QED
    BY <1>1, <2>1, AddDirectedOwns, NodesStay
<1>4. ListPairs' = ListPairs \cup {<<i, j>>}
  BY <1>1, <1>2, RowGains
<1>5. /\ half'.from = i /\ half'.to = j /\ half'.weight = w
      /\ half'.inserted = ~RowHas(edges[i], j)
      /\ RowHas(edges[i], j) => half'.previous = RowWeight(edges[i], j)
  <2>1. half' = [from |-> i, to |-> j, weight |-> w, inserted |-> ~List!HasRecord(i, j),
                 previous |-> IF List!HasRecord(i, j) THEN edges[i][List!SlotOf(i, j)].weight ELSE 0]
    BY DEF List!AddForward
  <2>2. /\ List!HasRecord(i, j) <=> RowHas(edges[i], j)
        /\ edges[i][List!SlotOf(i, j)].weight = RowWeight(edges[i], j)
    BY <1>1, RowsFound
  <2> QED
    BY <2>1, <2>2
<1>6. ~List!Idle'
  <2>1. i # MaxNodes
    BY <1>1, ListAssumption DEF ListFits, Nodes, List!GraphAssumption
  <2> QED
    BY <1>5, <2>1 DEF List!Idle, List!NoHalf
<1>7. SettledPairs = ListPairs
  BY <1>1 DEF SettledPairs, Pending
<1>8. SettledSame
  <2>1. \A k, l : Pending(k, l)' <=> k = i /\ l = j /\ ~RowHas(edges[i], j)
    BY <1>5, <1>6 DEF Pending
  <2>2. SettledPairs' = {e \in ListPairs' : ~(e[1] = i /\ e[2] = j /\ ~RowHas(edges[i], j))}
    BY <2>1 DEF SettledPairs
  <2>3. <<i, j>> \in ListPairs <=> RowHas(edges[i], j)
    BY DEF ListPairs
  <2>4. \A e \in ListPairs : e = <<i, j>> <=> e[1] = i /\ e[2] = j
    BY DEF ListPairs
  <2>5. SettledPairs' = ListPairs
    BY <1>4, <2>2, <2>3, <2>4
  <2>6. ASSUME NEW k \in Nodes, NEW l \in Nodes, <<k, l>> \in SettledPairs
        PROVE  SettledWeight(k, l)' = SettledWeight(k, l)
    <3>1. SettledWeight(k, l) = RowWeight(edges[k], l)
      BY <1>1 DEF SettledWeight
    <3>2. SettledWeight(k, l)' = IF k = i /\ l = j THEN half'.previous ELSE RowWeight(edges'[k], l)
      BY <1>5, <1>6 DEF SettledWeight
    <3>3. RowHas(edges[k], l)
      BY <1>7, <2>6 DEF ListPairs
    <3>4. CASE k = i /\ l = j
      BY <1>5, <3>1, <3>2, <3>3, <3>4
    <3>5. CASE k = i /\ l # j
      BY <1>2, <3>1, <3>2, <3>3, <3>5
    <3>6. CASE k # i
      BY <1>2, <3>1, <3>2, <3>6 DEF OnlyRow
    <3> QED
      BY <3>4, <3>5, <3>6
  <2> QED
    BY <1>1, <1>7, <2>5, <2>6 DEF SettledSame
<1>9. ListMirrors' /\ ListCounts'
  BY <1>8, SettledSameKeeps
<1>10. ListHalf'
  <2>1. half'.inserted \in BOOLEAN
    BY <1>5
  <2>2. RowHas(edges'[i], j) /\ RowWeight(edges'[i], j) = w
    BY <1>2
  <2> QED
    BY <1>1, <1>3, <1>5, <2>1, <2>2 DEF ListHalf
<1>11. ListInv'
  BY <1>3, <1>9, <1>10 DEF ListInv
<1>12. UNCHANGED List!Promise!graph
  BY <1>8, <1>11, SettledSameStays
<1> QED
  BY <1>1, <1>11, <1>12 DEF List!Promise!vars

LEMMA HalfIs ==
  ASSUME ListInv, ~List!Idle
  PROVE  /\ live /\ ~directed /\ half.from # half.to
         /\ half.from \in Nodes /\ half.to \in Nodes /\ half.weight \in Weight
         /\ half.inserted \in BOOLEAN
         /\ RowHas(edges[half.from], half.to)
         /\ RowWeight(edges[half.from], half.to) = half.weight
         /\ half.inserted <=> ~RowHas(edges[half.to], half.from)
         /\ <<half.from, half.to>> \in SettledPairs <=> ~half.inserted
<1>1. /\ live /\ ~directed /\ half.from # half.to
      /\ half.from \in Nodes /\ half.to \in Nodes /\ half.weight \in Weight
      /\ half.inserted \in BOOLEAN
      /\ RowHas(edges[half.from], half.to)
      /\ RowWeight(edges[half.from], half.to) = half.weight
  BY DEF ListInv, ListHalf
<1>2. <<half.from, half.to>> \in SettledPairs <=> ~half.inserted
  BY <1>1, SettledAre DEF Pending
<1>3. <<half.to, half.from>> \in SettledPairs <=> RowHas(edges[half.to], half.from)
  BY <1>1, SettledAre DEF Pending
<1>4. <<half.from, half.to>> \in SettledPairs <=> <<half.to, half.from>> \in SettledPairs
  BY <1>1 DEF ListInv, ListMirrors
<1> QED
  BY <1>1, <1>2, <1>3, <1>4

LEMMA AddReverseKeeps ==
  ASSUME ListInv, List!AddReverse
  PROVE  ListInv' /\ List!Promise!Next
<1> DEFINE i == half.from
           j == half.to
           w == half.weight
<1>1. /\ ListFits /\ ListRows /\ List!OwnsItsBlocks
      /\ ~List!Idle /\ List!AddDirected(j, i, w) /\ half' = List!NoHalf
      /\ UNCHANGED <<live, directed, node_count, node_capacity>>
  BY DEF ListInv, List!AddReverse, List!Mirror
<1>2. /\ live /\ ~directed /\ i # j /\ i \in Nodes /\ j \in Nodes /\ w \in Weight
      /\ RowHas(edges[i], j) /\ RowWeight(edges[i], j) = w
      /\ half.inserted <=> ~RowHas(edges[j], i)
      /\ <<i, j>> \in SettledPairs <=> ~half.inserted
  BY <1>1, HalfIs
<1> HIDE DEF i, j, w
<1>3. /\ OnlyRow(j) /\ RowFits(edges'[j], edge_capacity'[j])
      /\ \A k : RowHas(edges'[j], k) <=> RowHas(edges[j], k) \/ k = i
      /\ \A k : RowHas(edges'[j], k) =>
           RowWeight(edges'[j], k) = IF k = i THEN w ELSE RowWeight(edges[j], k)
      /\ ~RowHas(edges[j], i) => edge_count < ListEdges
  BY <1>1, <1>2, AddDirectedRow
<1>4. ListFits' /\ ListRows' /\ List!OwnsItsBlocks' /\ Nodes' = Nodes
  <2>1. ListFits' /\ ListRows'
    BY <1>1, <1>2, <1>3, OneRowKeeps
  <2> QED
    BY <1>1, <1>2, <2>1, AddDirectedOwns, NodesStay
<1>5. ListPairs' = ListPairs \cup {<<j, i>>}
  BY <1>1, <1>2, <1>3, RowGains
<1>6. List!Idle'
  BY <1>1 DEF List!Idle, List!NoHalf
<1>7. SettledPairs' = ListPairs'
  BY <1>6 DEF SettledPairs, Pending
<1>8. SettledAfter(i, j, w)
  <2>1. Ends(directed, i, j) = {<<i, j>>, <<j, i>>}
    BY <1>2 DEF Ends
  <2>2. SettledPairs' = SettledPairs \cup Ends(directed, i, j)
    <3>1. <<i, j>> \in ListPairs
      BY <1>2 DEF ListPairs
    <3>2. \A e \in ListPairs : e \in SettledPairs \/ e = <<i, j>>
      BY DEF SettledPairs, Pending, ListPairs, i, j
    <3>3. SettledPairs \subseteq ListPairs
      BY DEF SettledPairs
    <3> QED
      BY <1>5, <1>7, <2>1, <3>1, <3>2, <3>3
  <2>3. ASSUME NEW k \in Nodes, NEW l \in Nodes, <<k, l>> \in SettledPairs'
        PROVE  SettledWeight(k, l)'
                  = IF <<k, l>> \in Ends(directed, i, j) THEN w ELSE SettledWeight(k, l)
    <3>1. SettledWeight(k, l)' = RowWeight(edges'[k], l)
      BY <1>6 DEF SettledWeight
    <3>2. ~(k = i /\ l = j) => SettledWeight(k, l) = RowWeight(edges[k], l)
      BY DEF SettledWeight, i, j
    <3>3. RowHas(edges'[k], l)
      BY <1>4, <1>7, <2>3 DEF ListPairs
    <3>4. CASE k = j
      BY <1>2, <1>3, <2>1, <3>1, <3>2, <3>3, <3>4
    <3>5. CASE k = i /\ l = j
      BY <1>2, <1>3, <2>1, <3>1, <3>5 DEF OnlyRow
    <3>6. CASE k # j /\ ~(k = i /\ l = j)
      BY <1>3, <2>1, <3>1, <3>2, <3>6 DEF OnlyRow
    <3> QED
      BY <3>4, <3>5, <3>6
  <2>4. edge_count' = IF <<i, j>> \in SettledPairs THEN edge_count ELSE edge_count + 1
    <3>1. List!HasRecord(j, i) <=> RowHas(edges[j], i)
      BY <1>1, <1>2, RowsFound
    <3>2. edge_count \in Nat /\ ListEdges \in Nat /\ ListEdges <= ListSizeMax /\ ListSizeMax \in Nat
      BY ListAssumption DEF List!SizeAssumption, List!GraphAssumption, ListInv, ListCounts
    <3>3. <<i, j>> \notin SettledPairs => edge_count < ListEdges
      BY <1>2, <1>3
    <3>4. edge_count < ListEdges => (edge_count + 1) % (ListSizeMax + 1) = edge_count + 1
      BY <3>2
    <3>5. edge_count' = IF half.inserted /\ ~List!HasRecord(j, i)
                        THEN (edge_count + 1) % (ListSizeMax + 1) ELSE edge_count
      BY DEF List!AddReverse, List!Wrap, i, j
    <3> QED
      BY <1>2, <3>1, <3>3, <3>4, <3>5
  <2> QED
    BY <2>2, <2>3, <2>4 DEF SettledAfter
<1>9. ListMirrors' /\ ListCounts'
  BY <1>1, <1>2, <1>8, SettledAfterKeeps
<1>10. ListHalf'
  BY <1>6 DEF ListHalf
<1>11. ListInv'
  BY <1>4, <1>9, <1>10 DEF ListInv
<1>12. List!Answer("add_edge", <<i, j>>, TRUE, Untouched)
  BY DEF List!AddReverse, i, j
<1> QED
  BY <1>1, <1>2, <1>8, <1>11, <1>12, ListAddsPromised

(* A call that fails leaves what the callers see, and the rest too.        *)
LEMMA ListRefuses ==
  ASSUME ListInv, ListInv', SettledSame, NEW i \in Nodes, NEW j \in Nodes,
         <<i, j>> \notin SettledPairs, List!Answer("add_edge", <<i, j>>, FALSE, Untouched)
  PROVE  List!Promise!Next
<1>1. UNCHANGED List!Promise!graph
  BY SettledSameStays
<1>2. List!Promise!Joined = SettledPairs
  BY SettledIs DEF List!Promise!Joined
<1>3. List!Promise!AddEdgeFails(i, j)
  BY <1>1, <1>2 DEF List!Promise!AddEdgeFails, List!Promise!Refuse, List!Promise!Answer, List!Answer
<1> QED
  BY <1>3, ListPromised DEF List!Promise!Next

(* What a call that fails had allocated it has freed. *)
LEMMA ListLeavesNothing ==
  ASSUME NEW new, NEW full, NEW made \in List!Partial(new, full)
  PROVE  List!LeftOver(made) = 0
<1>1. made \subseteq {new} /\ IsFiniteSet({new})
  BY FS_Singleton DEF List!Partial
<1>2. Cardinality(made) \in Nat
  BY <1>1, FS_Subset, FS_CardinalityType
<1> QED
  BY <1>2, ListCardinality DEF List!LeftOver, List!Discarded

LEMMA ListBlocksCounted == ListInv => blocks \in Nat
BY ListInvIsRight DEF List!WellFormed, List!TypeOK

LEMMA RollBackKeeps ==
  ASSUME ListInv, List!RollBack
  PROVE  ListInv' /\ List!Promise!Next
<1> DEFINE i == half.from
           j == half.to
           s == edges[i]
           t == List!Compacted(s, RowSlot(s, j))
<1>1. /\ ListFits /\ ListRows /\ List!OwnsItsBlocks
      /\ ~List!Idle /\ ~List!HasRecord(j, i) /\ half' = List!NoHalf
      /\ UNCHANGED <<live, directed, node_count, node_capacity, edge_count, edge_capacity>>
  BY DEF ListInv, List!RollBack
<1>2. /\ live /\ ~directed /\ i # j /\ i \in Nodes /\ j \in Nodes
      /\ RowHas(s, j)
      /\ half.inserted <=> ~RowHas(edges[j], i)
      /\ <<i, j>> \in SettledPairs <=> ~half.inserted
  BY <1>1, HalfIs
<1>3. half.inserted /\ <<i, j>> \notin SettledPairs
  BY <1>1, <1>2, RowsFound
<1>4. edges' = [edges EXCEPT ![i] = t] /\ blocks' = blocks - 1
  <2>1. List!SlotOf(i, j) = RowSlot(s, j)
    BY SlotIs
  <2> QED
    BY <1>3, <2>1, ListLeavesNothing, ListBlocksCounted DEF List!RollBack, List!RolledBack, List!Freed
<1>5. /\ DOMAIN edges = Nodes /\ DOMAIN edge_capacity = Nodes
      /\ RowFits(s, edge_capacity[i]) /\ RowOf(s, Nodes) /\ Len(s) \in Nat
  BY <1>1, <1>2, RowsFound DEF ListFits, ListRows
<1>6. edges'[i] = t /\ OnlyRow(i) /\ edge_capacity'[i] = edge_capacity[i]
  BY <1>1, <1>2, <1>4, <1>5 DEF OnlyRow
<1>7. /\ RowOf(t, Nodes) /\ Len(t) = Len(s) - 1 /\ Len(s) >= 1
      /\ \A k : RowHas(t, k) <=> RowHas(s, k) /\ k # j
      /\ \A k : RowHas(t, k) => RowWeight(t, k) = RowWeight(s, k)
  BY <1>2, <1>5, RowShrinks
<1> HIDE DEF i, j, t
<1>8. RowFits(t, edge_capacity[i])
  BY <1>5, <1>7 DEF RowFits
<1>9. ListFits' /\ ListRows' /\ Nodes' = Nodes
  <2>1. ListFits' /\ ListRows'
    BY <1>1, <1>2, <1>6, <1>8, OneRowKeeps
  <2> QED
    BY <1>1, <2>1, NodesStay
<1>10. List!OwnsItsBlocks'
  <2>1. /\ IsFiniteSet(RecordSet(edges', Nodes))
        /\ Cardinality(RecordSet(edges', Nodes)) \in Nat
        /\ Cardinality(Grown(edge_capacity, Nodes)) \in Nat
        /\ Cardinality(RecordSet(edges, Nodes)) \in Nat /\ node_count \in Nat
    <3>1. node_count \in Nat /\ node_capacity \in Nat
      BY <1>1 DEF ListFits
    <3>2. \A k \in 0 .. node_count - 1 : Len(edges'[k]) \in Nat /\ Len(edges'[k]) <= node_capacity
      <4>1. \A k \in Nodes : k # i => edges'[k] = edges[k]
        BY <1>6 DEF OnlyRow
      <4>2. \A k \in Nodes : RowFits(edges'[k], edge_capacity[k])
        BY <1>1, <1>6, <1>8, <4>1 DEF ListRows
      <4>3. \A k \in Nodes : Len(edges'[k]) \in Nat
        BY <4>2, RowFacts DEF RowFits
      <4> QED
        BY <3>1, <4>2, <4>3 DEF Nodes, RowFits
    <3>3. /\ IsFiniteSet(RecordSet(edges', Nodes))
          /\ Cardinality(RecordSet(edges', Nodes)) \in Nat
      BY <3>1, <3>2, RecordsFinite DEF Nodes
    <3> QED
      BY <1>1, <3>3, ListBlocksFinite
  <2>2. Cardinality(RecordSet(edges, Nodes)) = Cardinality(RecordSet(edges', Nodes)) + 1
    <3>1. Len(edges'[i]) \in Nat /\ Len(edges[i]) = Len(edges'[i]) + 1
      BY <1>5, <1>6, <1>7
    <3>2. \A k \in Nodes : k # i => edges[k] = edges'[k]
      BY <1>6 DEF OnlyRow
    <3> QED
      BY <1>2, <2>1, <3>1, <3>2, RecordsGrow
  <2>3. List!NodeBlocks' = List!NodeBlocks - 1
    BY <1>1, <1>9, <2>1, <2>2, NodeBlocksAre, NodeBlocksAreNext
  <2>4. List!NodeBlocks \in Nat /\ List!NodeArray \in Nat /\ List!NodeArray' = List!NodeArray
    BY <1>1, <2>1, NodeBlocksAre DEF List!NodeArray
  <2>5. blocks = 1 + List!NodeArray + List!NodeBlocks
    BY <1>1, <1>2 DEF List!OwnsItsBlocks
  <2>6. blocks' = 1 + List!NodeArray' + List!NodeBlocks'
    BY <1>4, <2>3, <2>4, <2>5
  <2> QED
    BY <1>1, <1>2, <2>6 DEF List!OwnsItsBlocks
<1>11. List!Idle'
  BY <1>1 DEF List!Idle, List!NoHalf
<1>12. SettledSame
  <2>1. SettledPairs' = ListPairs'
    BY <1>11 DEF SettledPairs, Pending
  <2>2. ASSUME NEW e \in Nodes \X Nodes
        PROVE  RowHas(edges'[e[1]], e[2]) <=> RowHas(edges[e[1]], e[2]) /\ ~Pending(e[1], e[2])
    <3>1. Pending(e[1], e[2]) <=> e[1] = i /\ e[2] = j
      BY <1>1, <1>3 DEF Pending, i, j
    <3>2. CASE e[1] = i
      BY <1>6, <1>7, <3>1, <3>2
    <3>3. CASE e[1] # i
      <4>1. edges'[e[1]] = edges[e[1]]
        BY <1>6, <3>3 DEF OnlyRow
      <4> QED
        BY <3>1, <3>3, <4>1
    <3> QED
      BY <3>2, <3>3
  <2>3. SettledPairs' = SettledPairs
    BY <1>9, <2>1, <2>2 DEF SettledPairs, ListPairs
  <2>4. ASSUME NEW k \in Nodes, NEW l \in Nodes, <<k, l>> \in SettledPairs
        PROVE  SettledWeight(k, l)' = SettledWeight(k, l)
    <3>1. SettledWeight(k, l)' = RowWeight(edges'[k], l)
      BY <1>11 DEF SettledWeight
    <3>2. ~(k = i /\ l = j)
      BY <1>3, <2>4
    <3>3. SettledWeight(k, l) = RowWeight(edges[k], l)
      BY <3>2 DEF SettledWeight, i, j
    <3>4. CASE k = i
      <4>1. RowHas(t, l)
        BY <1>7, <2>4, <3>2, <3>4, SettledAre
      <4> QED
        BY <1>6, <1>7, <3>1, <3>3, <3>4, <4>1
    <3>5. CASE k # i
      BY <1>6, <3>1, <3>3, <3>5 DEF OnlyRow
    <3> QED
      BY <3>4, <3>5
  <2> QED
    BY <1>1, <2>3, <2>4 DEF SettledSame
<1>13. ListMirrors' /\ ListCounts'
  BY <1>12, SettledSameKeeps
<1>14. ListHalf'
  BY <1>11 DEF ListHalf
<1>15. ListInv'
  BY <1>9, <1>10, <1>13, <1>14 DEF ListInv
<1>16. List!Answer("add_edge", <<i, j>>, FALSE, Untouched)
  BY DEF List!RollBack, i, j
<1> QED
  BY <1>2, <1>3, <1>12, <1>15, <1>16, ListRefuses

LEMMA ListStays ==
  ASSUME ListInv, UNCHANGED <<List!graph, half>>
  PROVE  ListInv' /\ SettledSame
<1>1. /\ UNCHANGED <<live, directed, node_count, node_capacity, edge_count>>
      /\ UNCHANGED <<edges, edge_capacity, blocks, half>>
  BY DEF List!graph, List!storage
<1>2. Nodes' = Nodes
  BY <1>1, NodesStay
<1>3. List!Idle' <=> List!Idle
  BY <1>1 DEF List!Idle, List!NoHalf
<1>4. \A k, l : /\ Pending(k, l)' <=> Pending(k, l)
                /\ SettledWeight(k, l)' = SettledWeight(k, l)
  BY <1>1, <1>3 DEF Pending, SettledWeight
<1>5. ListPairs' = ListPairs
  BY <1>1, <1>2, Zenon DEF ListPairs
<1>6. SettledPairs' = SettledPairs
  BY <1>4, <1>5, Zenon DEF SettledPairs
<1>7. SettledSame
  BY <1>1, <1>4, <1>6 DEF SettledSame
<1>8. ListMirrors' /\ ListCounts'
  BY <1>7, SettledSameKeeps
<1>9. ListFits'
  BY <1>1, <1>2, <1>3 DEF ListInv, ListFits, List!Fits
<1>10. ListRows'
  <2>1. ASSUME NEW k \in Nodes PROVE RowFits(edges[k], edge_capacity[k])'
    <3>1. RowFits(edges[k], edge_capacity[k])
      BY DEF ListInv, ListRows
    <3> QED
      BY <1>1, <1>2, <3>1 DEF RowFits
  <2> QED
    BY <1>2, <2>1 DEF ListRows
<1>11. ListHalf'
  BY <1>1, <1>2, <1>3 DEF ListInv, ListHalf
<1>12. List!OwnsItsBlocks'
  <2>1. List!NodeBlocks' = List!NodeBlocks
    BY <1>1, <1>2, NodeBlocksAre, NodeBlocksAreNext
  <2>2. List!NodeArray' = List!NodeArray
    BY <1>1 DEF List!NodeArray
  <2> QED
    BY <1>1, <2>1, <2>2 DEF ListInv, List!OwnsItsBlocks
<1> QED
  BY <1>7, <1>8, <1>9, <1>10, <1>11, <1>12 DEF ListInv

(* No nodes.                                                               *)
EmptyList ==
  /\ live \in BOOLEAN /\ directed \in BOOLEAN /\ (~live => ~directed)
  /\ node_capacity = 0 /\ node_count = 0 /\ edge_count = 0
  /\ DOMAIN edges = {} /\ DOMAIN edge_capacity = {}
  /\ List!Idle
  /\ blocks = IF live THEN 1 ELSE 0

LEMMA NoListNodes ==
  ASSUME node_count = 0
  PROVE  /\ Nodes = {} /\ ListPairs = {} /\ SettledPairs = {}
         /\ Cardinality(LogicalEdges(directed, SettledPairs)) = 0
         /\ List!NodeBlocks = 0
<1>1. Nodes = {}
  BY DEF Nodes
<1>2. ListPairs = {} /\ SettledPairs = {}
  BY <1>1 DEF ListPairs, SettledPairs
<1>3. LogicalEdges(directed, SettledPairs) = {}
  BY <1>2 DEF LogicalEdges
<1>4. Grown(edge_capacity, Nodes) = {} /\ RecordSet(edges, Nodes) = {}
  BY <1>1 DEF Grown, RecordSet
<1>5. List!NodeBlocks = 0
  BY <1>4, FS_EmptySet, NodeBlocksAre
<1> QED
  BY <1>1, <1>2, <1>3, <1>5, FS_EmptySet

LEMMA EmptyListIsRight ==
  EmptyList => ListInv /\ List!Settled = List!Promise!NoWeights
<1> SUFFICES ASSUME EmptyList PROVE ListInv /\ List!Settled = List!Promise!NoWeights
  OBVIOUS
<1>1. Nodes = {} /\ SettledPairs = {} /\ List!NodeBlocks = 0
  BY NoListNodes DEF EmptyList
<1>2. ListFits
  <2>1. List!Fits(0) /\ 0 \in 0 .. MaxNodes
    <3>1. ListSizeMax \in Nat /\ PtrSize \in Nat \ {0} /\ MaxNodes \in Nat
      BY ListAssumption DEF List!SizeAssumption, List!GraphAssumption
    <3> QED
      BY <3>1 DEF List!Fits
  <2> QED
    BY <1>1, <2>1 DEF EmptyList, ListFits
<1>3. ListCounts
  BY NoListNodes DEF EmptyList, ListCounts
<1>4. List!OwnsItsBlocks
  BY <1>1 DEF EmptyList, List!OwnsItsBlocks, List!NodeArray
<1>5. ListInv
  BY <1>1, <1>2, <1>3, <1>4 DEF EmptyList, ListInv, ListRows, ListHalf, ListMirrors
<1>6. List!Settled = [e \in {} |-> 0]
  <2>1. List!Settled = [e \in SettledPairs |-> SettledWeight(e[1], e[2])]
    BY <1>5, SettledIs
  <2> QED
    BY <1>1, <2>1
<1> QED
  BY <1>5, <1>6 DEF List!Promise!NoWeights

LEMMA EmptyListIsRightNext ==
  EmptyList' => ListInv' /\ List!Settled' = List!Promise!NoWeights
<1>1. (EmptyList => ListInv /\ List!Settled = List!Promise!NoWeights)'
  BY EmptyListIsRight, PTL
<1> QED
  BY <1>1 DEF List!Promise!NoWeights

LEMMA ListCreateKeeps ==
  ASSUME ListInv, NEW d \in BOOLEAN, List!Create(d)
  PROVE  ListInv' /\ List!Promise!Next
<1>1. /\ ~live /\ live' = TRUE /\ directed' = d /\ blocks' = blocks + 1
      /\ UNCHANGED <<node_count, node_capacity, edge_count, edges, edge_capacity, half>>
  BY DEF List!Create
<1>2. node_capacity = 0 /\ node_count = 0 /\ List!Idle /\ blocks = 0
  BY <1>1 DEF ListInv, ListFits, List!OwnsItsBlocks
<1>3. edge_count = 0
  BY <1>2, NoListNodes DEF ListInv, ListCounts
<1>4. DOMAIN edges = {} /\ DOMAIN edge_capacity = {}
  BY <1>2, NoListNodes DEF ListInv, ListFits
<1>5. EmptyList'
  <2>1. List!Idle'
    BY <1>1, <1>2 DEF List!Idle, List!NoHalf
  <2> QED
    BY <1>1, <1>2, <1>3, <1>4, <2>1 DEF EmptyList
<1>6. List!Promise!Create(d)
  BY <1>5, EmptyListIsRightNext
     DEF List!Create, List!Answer, List!Promise!Create, List!Promise!Answer, List!Promise!Empty,
     EmptyList
<1> QED
  BY <1>5, <1>6, EmptyListIsRightNext DEF List!Promise!Next

LEMMA ListDestroyKeeps ==
  ASSUME ListInv, List!Destroy
  PROVE  ListInv' /\ List!Promise!Next
<1>1. /\ live /\ List!Idle /\ live' = FALSE /\ directed' = FALSE
      /\ node_count' = 0 /\ node_capacity' = 0 /\ edge_count' = 0
      /\ edges' = List!NoNodes /\ edge_capacity' = List!NoNodes
      /\ blocks' = blocks - (1 + List!NodeArray + List!NodeBlocks)
      /\ UNCHANGED half
  BY DEF List!Destroy
<1>2. blocks' = 0
  <2>1. List!NodeBlocks \in Nat
    BY ListBlocksFinite, NodeBlocksAre DEF ListInv
  <2>2. List!NodeArray \in Nat
    BY DEF List!NodeArray
  <2>3. blocks = 1 + List!NodeArray + List!NodeBlocks
    BY <1>1 DEF ListInv, List!OwnsItsBlocks
  <2> QED
    BY <1>1, <2>1, <2>2, <2>3
<1>3. EmptyList'
  <2>1. List!Idle'
    BY <1>1 DEF List!Idle, List!NoHalf
  <2>2. DOMAIN edges' = {} /\ DOMAIN edge_capacity' = {}
    BY <1>1 DEF List!NoNodes
  <2> QED
    BY <1>1, <1>2, <2>1, <2>2 DEF EmptyList
<1>4. List!Promise!Destroy
  BY <1>3, EmptyListIsRightNext
     DEF List!Destroy, List!Answer, List!Promise!Destroy, List!Promise!Answer, List!Promise!Empty,
     EmptyList
<1> QED
  BY <1>3, <1>4, EmptyListIsRightNext DEF List!Promise!Next

LEMMA ListGrowthFits ==
  ASSUME ListFits, blocks \in Nat, List!AddNode
  PROVE  /\ node_capacity' \in Nat /\ node_count + 1 <= node_capacity'
         /\ node_capacity <= node_capacity'
         /\ List!Fits(node_capacity') /\ OnLadder(node_capacity')
         /\ node_count' = node_count + 1
         /\ blocks' = blocks + 2 - List!NodeArray
<1>1. /\ node_count \in Nat /\ node_capacity \in Nat /\ node_count <= node_capacity
      /\ ListSizeMax \in Nat
  BY ListAssumption DEF ListFits, List!SizeAssumption
<1>2. /\ node_capacity' \in Nat /\ node_count + 1 <= node_capacity'
      /\ node_capacity <= node_capacity'
      /\ List!Fits(node_capacity') /\ OnLadder(node_capacity')
      /\ blocks' = blocks + 2 - List!NodeArray
  <2>1. CASE node_count = node_capacity
    <3>1. /\ List!CanGrow(node_capacity) /\ node_capacity' = List!Doubled(node_capacity)
          /\ blocks' = blocks + 2 - List!NodeArray
      BY <2>1 DEF List!AddNode
    <3>2. node_capacity <= ListSizeMax \div 2 /\ List!Fits(node_capacity')
      BY <3>1 DEF List!CanGrow
    <3>3. CASE node_capacity = 0
      BY <1>1, <2>1, <3>1, <3>2, <3>3, LadderClimbs DEF List!Doubled
    <3>4. CASE node_capacity # 0
      <4>1. node_capacity' = node_capacity * 2
        <5>1. node_capacity * 2 <= ListSizeMax
          BY <1>1, <3>2
        <5>2. (node_capacity * 2) % (ListSizeMax + 1) = node_capacity * 2
          BY <1>1, <5>1
        <5> QED
          BY <3>1, <3>4, <5>2 DEF List!Doubled, List!Wrap
      <4>2. OnLadder(node_capacity)
        BY <3>4 DEF ListFits
      <4>3. OnLadder(node_capacity * 2)
        BY <4>2, LadderClimbs
      <4>4. node_count + 1 <= node_capacity * 2 /\ node_capacity <= node_capacity * 2
        BY <1>1, <2>1, <3>4
      <4> QED
        BY <1>1, <3>1, <3>2, <4>1, <4>3, <4>4
    <3> QED
      BY <3>3, <3>4
  <2>2. CASE node_count # node_capacity
    <3>1. node_capacity' = node_capacity /\ blocks' = blocks + 1
      BY <2>2 DEF List!AddNode
    <3>2. node_capacity > 0
      BY <1>1, <2>2
    <3>3. List!Fits(node_capacity) /\ OnLadder(node_capacity)
      BY <3>2 DEF ListFits
    <3>4. blocks' = blocks + 2 - List!NodeArray
      BY <3>1, <3>2 DEF List!NodeArray
    <3> QED
      BY <1>1, <2>2, <3>1, <3>3, <3>4
  <2> QED
    BY <2>1, <2>2
<1>3. node_capacity' <= ListSizeMax
  BY <1>2, ListGrants
<1>4. (node_count + 1) % (ListSizeMax + 1) = node_count + 1
  BY <1>1, <1>2, <1>3
<1> QED
  BY <1>2, <1>4 DEF List!AddNode, List!Wrap

LEMMA NoRecords ==
  ASSUME NEW N
  PROVE  /\ RowOf(<<>>, N) /\ Len(<<>>) = 0
         /\ \A j : ~RowHas(<<>>, j)
<1>1. <<>> \in Seq([to : N, weight : Weight]) /\ Len(<<>>) = 0
  OBVIOUS
<1> QED
  BY <1>1 DEF RowOf, RowHas

AgreeOn(N, F, E) == \A k \in N : F[k] = E[k]

LEMMA NotGrownCounts ==
  ASSUME NEW N, NEW x, NEW C, NEW D, AgreeOn(N, D, C), ~(D[x] > 0)
  PROVE  Grown(D, N \cup {x}) = Grown(C, N \ {x})
BY DEF Grown, AgreeOn

LEMMA EmptyRowCounts ==
  ASSUME NEW N, NEW x, NEW E, NEW F, AgreeOn(N, F, E), Len(F[x]) = 0
  PROVE  RecordSet(F, N \cup {x}) = RecordSet(E, N \ {x})
<1>1. \A k \in N \cup {x} : \A n \in 1 .. Len(F[k]) : k # x
  OBVIOUS
<1>2. ASSUME NEW e \in RecordSet(F, N \cup {x}) PROVE e \in RecordSet(E, N \ {x})
  <2>1. PICK k \in N \cup {x} : \E n \in 1 .. Len(F[k]) : e = <<k, n>>
    BY <1>2, RecordsAre
  <2>2. k \in N \ {x} /\ F[k] = E[k]
    BY <1>1, <2>1 DEF AgreeOn
  <2> QED
    BY <2>1, <2>2, RecordsAre
<1>3. ASSUME NEW e \in RecordSet(E, N \ {x}) PROVE e \in RecordSet(F, N \cup {x})
  <2>1. PICK k \in N \ {x} : \E n \in 1 .. Len(E[k]) : e = <<k, n>>
    BY <1>3, RecordsAre
  <2>2. k \in N \cup {x} /\ F[k] = E[k]
    BY <2>1 DEF AgreeOn
  <2> QED
    BY <2>1, <2>2, RecordsAre
<1> QED
  BY <1>2, <1>3

LEMMA ListAddNodeKeeps ==
  ASSUME ListInv, List!AddNode
  PROVE  ListInv' /\ List!Promise!Next
<1>1. /\ live /\ List!Idle /\ node_count < MaxNodes
      /\ edges' = [i \in 0 .. node_count |-> IF i < node_count THEN edges[i] ELSE <<>>]
      /\ edge_capacity' = [i \in 0 .. node_count |-> IF i < node_count THEN edge_capacity[i] ELSE 0]
      /\ UNCHANGED <<live, directed, edge_count, half>>
  BY DEF List!AddNode
<1>2. ListFits /\ ListRows /\ List!NodeBlocks \in Nat /\ List!NodeArray \in 0 .. 1
      /\ blocks = 1 + List!NodeArray + List!NodeBlocks /\ blocks \in Nat
  <2>1. List!NodeBlocks \in Nat
    BY ListBlocksFinite, NodeBlocksAre DEF ListInv
  <2>2. List!NodeArray \in 0 .. 1
    BY DEF List!NodeArray
  <2>3. blocks = 1 + List!NodeArray + List!NodeBlocks
    BY <1>1 DEF ListInv, List!OwnsItsBlocks
  <2>4. blocks \in Nat
    BY <2>1, <2>2, <2>3
  <2> QED
    BY <2>1, <2>2, <2>3, <2>4 DEF ListInv
<1>3. /\ node_capacity' \in Nat /\ node_count + 1 <= node_capacity'
      /\ node_capacity <= node_capacity'
      /\ List!Fits(node_capacity') /\ OnLadder(node_capacity')
      /\ node_count' = node_count + 1
      /\ blocks' = blocks + 2 - List!NodeArray
  BY <1>2, ListGrowthFits
<1>4. node_count \in Nat /\ node_capacity \in Nat /\ MaxNodes \in Nat
  BY <1>2, ListAssumption DEF ListFits, List!GraphAssumption
<1>5. /\ Nodes' = 0 .. node_count /\ Nodes \subseteq Nodes'
      /\ \A k \in Nodes' : k \in Nodes \/ k = node_count
      /\ node_count \notin Nodes
  BY <1>3, <1>4 DEF Nodes
<1>6. /\ \A k \in Nodes : edges'[k] = edges[k] /\ edge_capacity'[k] = edge_capacity[k]
      /\ edges'[node_count] = <<>> /\ edge_capacity'[node_count] = 0
      /\ DOMAIN edges' = Nodes' /\ DOMAIN edge_capacity' = Nodes'
  <2>1. \A k \in Nodes : k \in 0 .. node_count /\ k < node_count
    BY <1>4 DEF Nodes
  <2>2. node_count \in 0 .. node_count /\ ~(node_count < node_count)
    BY <1>4
  <2> QED
    BY <1>1, <1>5, <2>1, <2>2
<1>7. List!Idle'
  BY <1>1 DEF List!Idle, List!NoHalf
<1>8. ListFits'
  BY <1>1, <1>2, <1>3, <1>4, <1>6 DEF ListFits, List!Fits
<1>9. ListRows'
  <2>1. ASSUME NEW k \in Nodes
        PROVE  /\ RowOf(edges'[k], Nodes') /\ edge_capacity'[k] \in Nat
               /\ Len(edges'[k]) <= edge_capacity'[k] /\ edge_capacity'[k] <= node_capacity'
               /\ edge_capacity'[k] = 0 \/ OnLadder(edge_capacity'[k])
    <3>1. RowFits(edges[k], edge_capacity[k]) /\ edges'[k] = edges[k]
             /\ edge_capacity'[k] = edge_capacity[k]
      BY <1>2, <1>6 DEF ListRows
    <3>2. RowOf(edges[k], Nodes')
      BY <1>5, <3>1, RowOfMore DEF RowFits
    <3> QED
      BY <1>3, <1>4, <3>1, <3>2 DEF RowFits
  <2>2. /\ RowOf(edges'[node_count], Nodes') /\ edge_capacity'[node_count] = 0
        /\ Len(edges'[node_count]) = 0
    BY <1>6, NoRecords
  <2>3. \A k \in Nodes' : RowFits(edges[k], edge_capacity[k])'
    BY <1>3, <1>5, <2>1, <2>2 DEF RowFits
  <2> QED
    BY <2>3 DEF ListRows
<1>10. ListPairs' = ListPairs
  <2>1. ASSUME NEW k \in Nodes', NEW l \in Nodes'
        PROVE  RowHas(edges'[k], l) <=> k \in Nodes /\ l \in Nodes /\ RowHas(edges[k], l)
    <3>1. CASE k \in Nodes
      <4>1. edges'[k] = edges[k] /\ (RowHas(edges[k], l) => l \in Nodes)
        BY <1>2, <1>6, <3>1, RowsFound
      <4> QED
        BY <3>1, <4>1
    <3>2. CASE k = node_count
      BY <1>5, <1>6, <3>2, NoRecords
    <3> QED
      BY <1>5, <3>1, <3>2
  <2>2. \A e : e \in ListPairs' <=> e \in Nodes' \X Nodes' /\ RowHas(edges'[e[1]], e[2])
    BY DEF ListPairs
  <2>3. \A e : e \in ListPairs <=> e \in Nodes \X Nodes /\ RowHas(edges[e[1]], e[2])
    BY DEF ListPairs
  <2>4. \A e : e \in ListPairs' <=> e \in ListPairs
    <3> TAKE e
    <3>1. ASSUME e \in ListPairs' PROVE e \in ListPairs
      BY <2>1, <2>2, <2>3, <3>1
    <3>2. ASSUME e \in ListPairs PROVE e \in ListPairs'
      BY <1>5, <2>1, <2>2, <2>3, <3>2
    <3> QED
      BY <3>1, <3>2
  <2> QED
    BY <2>4
<1>11. /\ SettledPairs' = SettledPairs /\ SettledPairs = ListPairs
       /\ \A k, l \in Nodes : SettledWeight(k, l)' = SettledWeight(k, l)
  <2>1. \A k, l : ~Pending(k, l) /\ ~Pending(k, l)'
    BY <1>1, <1>7 DEF Pending
  <2>2. SettledPairs = ListPairs /\ SettledPairs' = ListPairs'
    BY <2>1 DEF SettledPairs
  <2>3. ASSUME NEW k \in Nodes, NEW l \in Nodes PROVE SettledWeight(k, l)' = SettledWeight(k, l)
    <3>1. SettledWeight(k, l)' = RowWeight(edges'[k], l) /\ SettledWeight(k, l) = RowWeight(edges[k], l)
      BY <1>1, <1>7 DEF SettledWeight
    <3> QED
      BY <1>6, <3>1
  <2> QED
    BY <1>10, <2>2, <2>3
<1>12. ListMirrors' /\ ListCounts'
  <2>1. ListCounts'
    BY <1>1, <1>11 DEF ListInv, ListCounts
  <2>2. ASSUME ~directed, NEW k, NEW l, <<k, l>> \in SettledPairs
        PROVE  <<l, k>> \in SettledPairs /\ SettledWeight(k, l)' = SettledWeight(l, k)'
    <3>1. k \in Nodes /\ l \in Nodes
      BY <2>2, SettledAre
    <3>2. <<l, k>> \in SettledPairs /\ SettledWeight(k, l) = SettledWeight(l, k)
      BY <2>2, <3>1 DEF ListInv, ListMirrors
    <3> QED
      BY <1>11, <3>1, <3>2
  <2> QED
    BY <1>1, <1>11, <2>1, <2>2 DEF ListMirrors
<1>13. ListHalf'
  BY <1>7 DEF ListHalf
<1>14. List!OwnsItsBlocks'
  <2>1. Len(edges'[node_count]) = 0 /\ edge_capacity'[node_count] = 0
    BY <1>6, NoRecords
  <2>2. /\ RecordSet(edges', Nodes') = RecordSet(edges, Nodes)
        /\ Grown(edge_capacity', Nodes') = Grown(edge_capacity, Nodes)
    <3>1. Nodes' = Nodes \cup {node_count} /\ Nodes = Nodes \ {node_count}
      BY <1>3, <1>4 DEF Nodes
    <3>2. /\ RecordSet(edges', Nodes \cup {node_count}) = RecordSet(edges, Nodes \ {node_count})
          /\ Grown(edge_capacity', Nodes \cup {node_count})
               = Grown(edge_capacity, Nodes \ {node_count})
      <4>1. AgreeOn(Nodes, edges', edges) /\ AgreeOn(Nodes, edge_capacity', edge_capacity)
        BY <1>6 DEF AgreeOn
      <4>2. ~(edge_capacity'[node_count] > 0)
        BY <2>1
      <4>3. RecordSet(edges', Nodes \cup {node_count}) = RecordSet(edges, Nodes \ {node_count})
        BY <2>1, <4>1, EmptyRowCounts
      <4>4. /\ Grown(edge_capacity', Nodes \cup {node_count})
                 = Grown(edge_capacity, Nodes \ {node_count})
        BY <4>1, <4>2, NotGrownCounts
      <4> QED
        BY <4>3, <4>4
    <3> QED
      BY <3>1, <3>2
  <2>3. List!NodeBlocks' = List!NodeBlocks + 1
    <3>1. /\ Cardinality(Grown(edge_capacity, Nodes)) \in Nat
          /\ Cardinality(RecordSet(edges, Nodes)) \in Nat
      BY <1>2, ListBlocksFinite
    <3> QED
      BY <1>3, <1>4, <2>1, <2>2, <3>1, NodeBlocksAre, NodeBlocksAreNext
  <2>4. List!NodeArray' = 1
    BY <1>3, <1>4 DEF List!NodeArray
  <2>5. blocks' = 1 + List!NodeArray' + List!NodeBlocks'
    BY <1>2, <1>3, <2>3, <2>4
  <2> QED
    BY <1>1, <2>5 DEF List!OwnsItsBlocks
<1>15. ListInv'
  BY <1>8, <1>9, <1>12, <1>13, <1>14 DEF ListInv
<1>16. List!Settled' = List!Settled
  <2>1. \A e \in SettledPairs : SettledWeight(e[1], e[2])' = SettledWeight(e[1], e[2])
    BY <1>11, SettledAre
  <2> QED
    BY <1>11, <1>15, <2>1, SettledIs, SettledIsNext
<1>17. List!Promise!AddNode
  BY <1>1, <1>3, <1>16 DEF List!AddNode, List!Answer, List!Promise!AddNode, List!Promise!Answer
<1> QED
  BY <1>15, <1>17 DEF List!Promise!Next

LEMMA ListNextKeeps ==
  ASSUME ListInv, List!Next
  PROVE  ListInv' /\ (List!Promise!Next \/ UNCHANGED List!Promise!vars)
<1>0. List!Nodes = Nodes
  BY DEF List!Nodes, Nodes
<1>1. CASE \E d \in BOOLEAN : List!Create(d)
  BY <1>1, ListCreateKeeps
<1>2. CASE List!Destroy
  BY <1>2, ListDestroyKeeps
<1>3. CASE List!AddNode
  BY <1>3, ListAddNodeKeeps
<1>4. CASE List!CreateFails \/ List!AddNodeFails
  <2>1. PICK op \in {"create", "add_node"} : List!Fail(op, <<>>)
    <3>1. CASE List!AddNodeFails
      <4>1. blocks' = blocks
        BY <3>1, ListLeavesNothing, ListBlocksCounted DEF List!AddNodeFails
      <4> QED
        BY <3>1, <4>1 DEF List!AddNodeFails, List!Fail, List!graph, List!storage
    <3> QED
      BY <1>4, <3>1 DEF List!CreateFails
  <2>2. ListInv' /\ UNCHANGED List!Promise!graph
    BY <2>1, ListStays, SettledSameStays DEF List!Fail
  <2>3. List!Promise!Refuse(op, <<>>)
    BY <2>1, <2>2 DEF List!Fail, List!Answer, List!Promise!Refuse, List!Promise!Answer
  <2> QED
    BY <2>2, <2>3 DEF List!Promise!Next
<1>5. CASE \E i, j \in Nodes : \E w \in Weight : List!AddSingle(i, j, w) \/ List!AddForward(i, j, w)
  <2>1. PICK i \in Nodes, j \in Nodes, w \in Weight : List!AddSingle(i, j, w) \/ List!AddForward(i, j, w)
    BY <1>5
  <2> QED
    BY <2>1, AddSingleKeeps, AddForwardKeeps
<1>6. CASE List!AddReverse
  BY <1>6, AddReverseKeeps
<1>7. CASE List!RollBack
  BY <1>7, RollBackKeeps
<1>8. CASE \E i, j \in Nodes : List!AddEdgeFails(i, j)
  <2>1. PICK i \in Nodes, j \in Nodes : List!AddEdgeFails(i, j)
    BY <1>8
  <2>2. /\ ~List!HasRecord(i, j) /\ UNCHANGED <<List!graph, half>>
        /\ List!Answer("add_edge", <<i, j>>, FALSE, Untouched)
    <3>1. blocks' = blocks
      BY <2>1, ListLeavesNothing, ListBlocksCounted DEF List!AddEdgeFails
    <3> QED
      BY <2>1, <3>1 DEF List!AddEdgeFails, List!graph, List!storage
  <2>3. ListInv' /\ SettledSame
    BY <2>2, ListStays
  <2>4. <<i, j>> \notin SettledPairs
    BY <2>2, SettledAre, RowsFound DEF ListInv
  <2> QED
    BY <2>2, <2>3, <2>4, ListRefuses
<1> QED
  BY <1>0, <1>1, <1>2, <1>3, <1>4, <1>5, <1>6, <1>7, <1>8 DEF List!Next

(* ---------------------------- the two together ---------------------------- *)
GraphsInv ==
  /\ kind \in {"list", "matrix"}
  /\ kind = "list" => ListInv
  /\ kind = "matrix" => MatrixInv

LEMMA GraphsInitIsRight ==
  ASSUME GraphsInit
  PROVE  GraphsInv /\ IF kind = "list" THEN List!Promise!Init ELSE Promise!Init
<1>1. CASE kind = "matrix" /\ Init
  <2>1. EmptyMatrix
    BY <1>1 DEF Init, EmptyMatrix, NoCells
  <2>2. MatrixInv
    BY <2>1, EmptyMatrixIsRight
  <2>3. Shown = Promise!NoWeights
    <3>1. Pairs = {}
      BY <2>1, <2>2, NoPlaces DEF EmptyMatrix
    <3>2. Shown = [e \in {} |-> 0]
      BY <2>2, <3>1, ShownIs
    <3> QED
      BY <3>2 DEF Promise!NoWeights
  <2>4. Promise!Init
    BY <1>1, <2>3 DEF Init, Promise!Init
  <2> QED
    BY <1>1, <2>2, <2>4 DEF GraphsInv
<1>2. CASE kind = "list" /\ List!Init
  <2>1. EmptyList
    BY <1>2 DEF List!Init, EmptyList, List!NoNodes, List!Idle
  <2>2. ListInv /\ List!Settled = List!Promise!NoWeights
    BY <2>1, EmptyListIsRight
  <2>3. List!Promise!Init
    BY <1>2, <2>2 DEF List!Init, List!Promise!Init
  <2> QED
    BY <1>2, <2>2, <2>3 DEF GraphsInv
<1> QED
  BY <1>1, <1>2 DEF GraphsInit

LEMMA GraphsStepKeeps ==
  ASSUME GraphsInv, [MatrixStep \/ ListStep]_GraphsVars
  PROVE  /\ GraphsInv' /\ kind' = kind
         /\ kind = "list" => List!Promise!Next \/ UNCHANGED List!Promise!vars
         /\ kind = "matrix" => Promise!Next \/ UNCHANGED Promise!vars
<1>1. CASE MatrixStep
  <2>1. kind = "matrix" /\ kind' = kind /\ Next
    BY <1>1 DEF MatrixStep
  <2>2. MatrixInv' /\ Promise!Next
    BY <2>1, MatrixNextKeeps DEF GraphsInv
  <2> QED
    BY <2>1, <2>2 DEF GraphsInv
<1>2. CASE ListStep
  <2>1. kind = "list" /\ kind' = kind /\ List!Next
    BY <1>2 DEF ListStep
  <2>2. ListInv' /\ (List!Promise!Next \/ UNCHANGED List!Promise!vars)
    BY <2>1, ListNextKeeps DEF GraphsInv
  <2> QED
    BY <2>1, <2>2 DEF GraphsInv
<1>3. CASE UNCHANGED GraphsVars
  <2>1. /\ UNCHANGED <<live, directed, edge_count, node_capacity, node_count, edges, blocks>>
        /\ UNCHANGED <<reply, kind, edge_capacity, half>>
    BY <1>3 DEF GraphsVars, vars, graph
  <2>2. CASE kind = "list"
    <3>1. UNCHANGED <<List!graph, half>>
      BY <2>1 DEF List!graph, List!storage
    <3>2. ListInv' /\ UNCHANGED List!Promise!graph
      BY <2>2, <3>1, ListStays, SettledSameStays DEF GraphsInv
    <3>3. UNCHANGED List!Promise!vars
      BY <2>1, <3>2 DEF List!Promise!vars
    <3> QED
      BY <2>1, <2>2, <3>2, <3>3 DEF GraphsInv
  <2>3. CASE kind = "matrix"
    <3>1. UNCHANGED graph
      BY <2>1 DEF graph
    <3>2. MatrixInv' /\ UNCHANGED Promise!graph
      BY <2>3, <3>1, MatrixStays DEF GraphsInv
    <3>3. UNCHANGED Promise!vars
      BY <2>1, <3>2 DEF Promise!vars
    <3> QED
      BY <2>1, <2>3, <3>2, <3>3 DEF GraphsInv
  <2> QED
    BY <2>2, <2>3 DEF GraphsInv
<1> QED
  BY <1>1, <1>2, <1>3

(* The storage of both representations is sound after every sequence of    *)
(* calls, whatever memory was lacking on the way.                          *)
THEOREM GraphsStayWellFormed == GraphsSpec => []GraphsWellFormed
<1>1. GraphsInit => GraphsInv
  BY GraphsInitIsRight
<1>2. GraphsInv /\ [MatrixStep \/ ListStep]_GraphsVars => GraphsInv'
  BY GraphsStepKeeps
<1>3. GraphsInv => GraphsWellFormed
  BY ListInvIsRight, MatrixInvIsRight DEF GraphsInv, GraphsWellFormed
<1> QED
  BY <1>1, <1>2, <1>3, PTL DEF GraphsSpec

(* Both representations implement the promised graph.                      *)
THEOREM GraphsImplement == GraphsSpec => ImplementsWeightedGraph
<1>1. GraphsInit => GraphsInv /\ IF kind = "list" THEN List!Promise!Init ELSE Promise!Init
  BY GraphsInitIsRight
<1>2. GraphsInv /\ [MatrixStep \/ ListStep]_GraphsVars => GraphsInv'
  BY GraphsStepKeeps
<1>3. GraphsInv /\ [MatrixStep \/ ListStep]_GraphsVars
        => [IF kind = "list" THEN [List!Promise!Next]_(List!Promise!vars)
            ELSE [Promise!Next]_(Promise!vars)]_GraphsVars
  BY GraphsStepKeeps DEF GraphsInv
<1> QED
  BY <1>1, <1>2, <1>3, PTL DEF GraphsSpec, ImplementsWeightedGraph
==============================================================================
