------------------------------ MODULE UnionFind ------------------------------
(***************************************************************************)
(* The disjoint-set forest of                                              *)
(* src/data-structures/graphs/disjoint-sets/union-find/union_find.c:       *)
(* union by rank, and a find that compresses the path it walked.           *)
(*                                                                         *)
(* A call is a sequence of actions, one for each turn of the two loops of  *)
(* union_find_find; union and connected run that find twice.               *)
(***************************************************************************)
EXTENDS Naturals, FiniteSets

CONSTANTS
  MaxElements,  (* bound on the element count of a set                     *)
  Untouched     (* an output location the call did not write               *)

ASSUME ElementsAssumption == MaxElements \in Nat

VARIABLES
  live,         (* whether the caller holds a set                          *)
  capacity, groups, parents, ranks,
  pc,           (* "idle", or the loop of find: "walk", "compress"         *)
  call,         (* the call that runs: its name and elements, and which    *)
                (* of the two it is finding                                *)
  index, root,  (* the locals of find                                      *)
  found,        (* the output of the find that runs                        *)
  firstRoot,    (* a_root of union, out_a of connected                     *)
  reply         (* what the last call returned                             *)

forest == <<live, capacity, groups, parents, ranks>>
locals == <<call, index, root, found, firstRoot>>
vars == <<forest, pc, locals, reply>>

Elements == 0 .. (capacity - 1)

Answer(op, ok, rep, flag) ==
  reply' = [op |-> op, ok |-> ok, rep |-> rep, flag |-> flag]

(* The element whose representative is being found. *)
Element == IF call.second THEN call.b ELSE call.a

NoElements == [x \in {} |-> 0]

NoCall == [op |-> "none", a |-> 0, b |-> 0, second |-> FALSE]

Init ==
  /\ live = FALSE
  /\ capacity = 0 /\ groups = 0 /\ parents = NoElements /\ ranks = NoElements
  /\ pc = "idle"
  /\ call = NoCall
  /\ index = 0 /\ root = 0 /\ found = 0 /\ firstRoot = 0
  /\ reply = [op |-> "none", ok |-> TRUE, rep |-> Untouched, flag |-> Untouched]

Create(count) ==
  /\ pc = "idle" /\ ~live
  /\ live' = TRUE
  /\ capacity' = count /\ groups' = count
  /\ parents' = [x \in 0 .. count - 1 |-> x]
  /\ ranks' = [x \in 0 .. count - 1 |-> 0]
  /\ UNCHANGED <<pc, locals>>
  /\ Answer("create", TRUE, Untouched, Untouched)

Destroy ==
  /\ pc = "idle" /\ live
  /\ live' = FALSE
  /\ capacity' = 0 /\ groups' = 0 /\ parents' = NoElements /\ ranks' = NoElements
  /\ UNCHANGED <<pc, locals>>
  /\ Answer("destroy", TRUE, Untouched, Untouched)

(* No set, an element out of range, no output location, or, for create, a  *)
(* malloc that returned NULL or a byte count past SIZE_MAX.                *)
Refuse(op) ==
  /\ pc = "idle"
  /\ op = "create" => ~live
  /\ UNCHANGED <<forest, pc, locals>>
  /\ Answer(op, FALSE, Untouched, Untouched)

------------------------------------------------------------------------------
(* Entering union_find_find for element x. *)
StartFind(x) == pc' = "walk" /\ index' = x /\ root' = x

Begin(op, a, b) ==
  /\ pc = "idle"
  /\ call' = [op |-> op, a |-> a, b |-> b, second |-> FALSE]
  /\ StartFind(a)
  /\ UNCHANGED <<forest, found, firstRoot, reply>>

(* The walk reads one link ahead: root is the parent of the new index. *)
Walk ==
  /\ pc = "walk" /\ index # parents[index]
  /\ index' = parents[index]
  /\ root' = parents[parents[index]]
  /\ UNCHANGED <<forest, pc, call, found, firstRoot, reply>>

WalkEnds ==
  /\ pc = "walk" /\ index = parents[index]
  /\ found' = parents[index]
  /\ index' = Element
  /\ pc' = "compress"
  /\ UNCHANGED <<forest, call, root, firstRoot, reply>>

(* Fault: the second pass walks the path without relinking it. *)
CompressRelinksNothing ==
  /\ pc = "compress" /\ index # parents[index]
  /\ index' = parents[index]
  /\ UNCHANGED <<forest, pc, call, root, found, firstRoot, reply>>

(* Fault: the second pass does not advance. *)
CompressStays ==
  /\ pc = "compress" /\ index # parents[index]
  /\ parents' = [parents EXCEPT ![index] = root]
  /\ UNCHANGED <<live, capacity, groups, ranks, pc, locals, reply>>

(* The link of the slot left behind is set after the next one was read. *)
Compress ==
  /\ pc = "compress" /\ index # parents[index]
  /\ index' = parents[index]
  /\ parents' = [parents EXCEPT ![index] = root]
  /\ UNCHANGED <<live, capacity, groups, ranks, pc, call, root, found,
                 firstRoot, reply>>

CompressDone == pc = "compress" /\ index = parents[index]

(* The locals of a call end with it. *)
Return ==
  /\ pc' = "idle"
  /\ call' = NoCall
  /\ index' = 0 /\ root' = 0 /\ found' = 0 /\ firstRoot' = 0

FindReturns ==
  /\ CompressDone /\ call.op = "find"
  /\ Return
  /\ UNCHANGED forest
  /\ Answer("find", TRUE, found, Untouched)

(* union and connected: the second find begins. *)
FirstFound ==
  /\ CompressDone /\ call.op # "find" /\ ~call.second
  /\ firstRoot' = found
  /\ call' = [call EXCEPT !.second = TRUE]
  /\ StartFind(call.b)
  /\ UNCHANGED <<forest, found, reply>>

BothFound(op) == CompressDone /\ call.op = op /\ call.second

ConnectedReturns ==
  /\ BothFound("connected")
  /\ Return
  /\ UNCHANGED forest
  /\ Answer("connected", TRUE, Untouched, firstRoot = found)

(* Fault: a union inside one group also lowers the count. *)
SameGroupCounts ==
  /\ BothFound("union") /\ firstRoot = found
  /\ Return
  /\ groups' = groups - 1
  /\ UNCHANGED <<live, capacity, parents, ranks>>
  /\ Answer("union", TRUE, Untouched, FALSE)

SameGroup ==
  /\ BothFound("union") /\ firstRoot = found
  /\ Return
  /\ UNCHANGED forest
  /\ Answer("union", TRUE, Untouched, FALSE)

(* Fault: the rank grows with every union. *)
LinkRaisesRank ==
  /\ BothFound("union") /\ firstRoot # found
  /\ parents' = IF ranks[firstRoot] < ranks[found]
                THEN [parents EXCEPT ![firstRoot] = found]
                ELSE [parents EXCEPT ![found] = firstRoot]
  /\ ranks' = IF ranks[firstRoot] < ranks[found]
              THEN [ranks EXCEPT ![found] = @ + 1]
              ELSE [ranks EXCEPT ![firstRoot] = @ + 1]
  /\ groups' = groups - 1
  /\ Return
  /\ UNCHANGED <<live, capacity>>
  /\ Answer("union", TRUE, Untouched, TRUE)

(* Fault: of equal ranks, the element itself is linked, not its root. *)
LinkElement ==
  /\ BothFound("union") /\ firstRoot # found
  /\ parents' = IF ranks[firstRoot] < ranks[found]
                THEN [parents EXCEPT ![firstRoot] = found]
                ELSE [parents EXCEPT ![call.b] = firstRoot]
  /\ ranks' = IF ranks[firstRoot] = ranks[found]
              THEN [ranks EXCEPT ![firstRoot] = @ + 1]
              ELSE ranks
  /\ groups' = groups - 1
  /\ Return
  /\ UNCHANGED <<live, capacity>>
  /\ Answer("union", TRUE, Untouched, TRUE)

(* The root of lower rank goes under the other; of equal ranks, b's under  *)
(* a's, whose rank grows.                                                  *)
Link ==
  /\ BothFound("union") /\ firstRoot # found
  /\ parents' = IF ranks[firstRoot] < ranks[found]
                THEN [parents EXCEPT ![firstRoot] = found]
                ELSE [parents EXCEPT ![found] = firstRoot]
  /\ ranks' = IF ranks[firstRoot] = ranks[found]
              THEN [ranks EXCEPT ![firstRoot] = @ + 1]
              ELSE ranks
  /\ groups' = groups - 1
  /\ Return
  /\ UNCHANGED <<live, capacity>>
  /\ Answer("union", TRUE, Untouched, TRUE)

------------------------------------------------------------------------------
Step ==
  \/ Walk \/ WalkEnds \/ Compress
  \/ FindReturns \/ FirstFound \/ ConnectedReturns \/ SameGroup \/ Link

Next ==
  \/ \E count \in 0 .. MaxElements : Create(count)
  \/ Destroy
  \/ \E op \in {"create", "find", "union", "connected"} : Refuse(op)
  \/ \E x \in Elements : Begin("find", x, x)
  \/ \E op \in {"union", "connected"}, x, y \in Elements : Begin(op, x, y)
  \/ Step

(* A call that has begun runs on: nothing in the loops waits. *)
Spec == Init /\ [][Next]_vars /\ WF_vars(Step)

------------------------------------------------------------------------------
(* Every variable has its type. *)
TypeOK ==
  /\ live \in BOOLEAN
  /\ capacity \in 0 .. MaxElements
  /\ groups \in Nat
  /\ parents \in [Elements -> Elements]
  /\ ranks \in [Elements -> Nat]
  /\ pc \in {"idle", "walk", "compress"}
  /\ call \in [op : {"none", "find", "union", "connected"},
               a : Nat, b : Nat, second : BOOLEAN]
  /\ index \in Nat /\ root \in Nat /\ found \in Nat /\ firstRoot \in Nat
  /\ reply \in [op : {"none", "create", "destroy", "find", "union", "connected"},
                ok : BOOLEAN,
                rep : Nat \cup {Untouched},
                flag : BOOLEAN \cup {Untouched}]

Roots == {x \in Elements : parents[x] = x}

(* Every link goes to an element of higher rank, in every state of a       *)
(* compression too, so the links never form a cycle.                       *)
RanksIncrease ==
  \A x \in Elements : parents[x] # x => ranks[x] < ranks[parents[x]]

(* set_count is the number of groups. *)
GroupsCountRoots == groups = Cardinality(Roots)

(* The second pass of a find leaves its element linked straight to the     *)
(* representative the first pass found.                                    *)
FindCompresses == pc = "compress" /\ index # Element => parents[Element] = found

(* The forest is in order in every state, a half done compression too.     *)
WellFormed == TypeOK /\ RanksIncrease /\ GroupsCountRoots /\ FindCompresses

(* Ancestor[k][x] is the element k links above x, the root at most.  *)
Ancestor[k \in 0 .. capacity] ==
  [x \in Elements |-> IF k = 0 THEN x ELSE parents[Ancestor[k - 1][x]]]

RootOf(x) == Ancestor[capacity][x]

(* The powers of two, as far as a rank can grow. *)
TwoTo[n \in 0 .. MaxElements] == IF n = 0 THEN 1 ELSE 2 * TwoTo[n - 1]

(* Union by rank: a tree of rank r has at least 2^r elements, whatever     *)
(* compression did to it, so no path is longer than log2 of the set.       *)
RankIsLogarithmic ==
  \A r \in Roots : TwoTo[ranks[r]] <= Cardinality({x \in Elements : RootOf(x) = r})

(* Every call ends. *)
CallsEnd == (pc # "idle") ~> (pc = "idle")

------------------------------------------------------------------------------
Promise == INSTANCE Partition WITH label <- [x \in Elements |-> RootOf(x)]

(* The forest implements the partition: compression changes no answer, and *)
(* an effective union merges exactly two groups.                           *)
ImplementsPartition == Promise!Spec
==============================================================================
