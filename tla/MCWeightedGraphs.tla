--------------------------- MODULE MCWeightedGraphs ---------------------------
(***************************************************************************)
(* Small instances of both graph representations for TLC, and the promise  *)
(* they share.  A graph keeps the representation it is created in.         *)
(***************************************************************************)
EXTENDS AdjacencyMatrix

CONSTANTS
  ListSizeMax, (* SIZE_MAX for the list, which needs fewer bytes           *)
  MaxNodes,    (* bounds on the nodes and the edges of the list            *)
  ListEdges

VARIABLES
  kind,        (* the representation                                       *)
  edge_capacity, half

List == INSTANCE AdjacencyList WITH SizeMax <- ListSizeMax, MaxEdges <- ListEdges

ASSUME ListAssumption == List!SizeAssumption /\ List!GraphAssumption

MCWeight == {1, 2}

GraphsInit ==
  \/ kind = "matrix" /\ Init /\ edge_capacity = List!NoNodes /\ half = List!NoHalf
  \/ kind = "list" /\ List!Init

MatrixStep == kind = "matrix" /\ Next /\ UNCHANGED <<kind, edge_capacity, half>>
ListStep == kind = "list" /\ List!Next /\ UNCHANGED kind

GraphsVars == <<vars, kind, edge_capacity, half>>

GraphsSpec == GraphsInit /\ [][MatrixStep \/ ListStep]_GraphsVars

------------------------------------------------------------------------------
(* adjacency_list.c and adjacency_matrix.c keep their arrays within what   *)
(* malloc granted, lose no block, store every pair of nodes once, and an   *)
(* undirected edge both ways with one weight.                              *)
GraphsWellFormed ==
  IF kind = "list" THEN List!WellFormed /\ List!Mirrored ELSE WellFormed /\ Mirrored

(* Either representation is the promised graph: a failed call leaves every *)
(* edge and weight as it was, edge_count counts logical edges, and no edge *)
(* moves, appears or is lost when the storage grows.                       *)
ImplementsWeightedGraph ==
  /\ IF kind = "list" THEN List!Promise!Init ELSE Promise!Init
  /\ [][IF kind = "list" THEN [List!Promise!Next]_(List!Promise!vars)
        ELSE [Promise!Next]_(Promise!vars)]_GraphsVars
==============================================================================
