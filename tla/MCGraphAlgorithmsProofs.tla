----------------------- MODULE MCGraphAlgorithmsProofs ------------------------
(***************************************************************************)
(* The algorithms of MCGraphAlgorithms are correct for every graph and     *)
(* every order of the neighbors.                                           *)
(*                                                                         *)
(* First the two traversals, whose names MCGraphAlgorithms shares: they    *)
(* visit the vertices that can be reached from the source, each of them    *)
(* once, whatever end of the frontier an entry is taken from; and breadth  *)
(* first visits them in order of their distance.                           *)
(*                                                                         *)
(* Then Kruskal's, as kruskal.c runs it.  The groups a set of edges joins  *)
(* are those no closed set keeps apart; an edge between two of them leaves *)
(* one fewer, so every spanning set has at least as many edges above each  *)
(* weight as the selected ones, and adding the edges up by slices, one for *)
(* each weight they exceed, gives it no smaller a total.                   *)
(***************************************************************************)
EXTENDS MCGraphAlgorithms, Arithmetic, SequenceTheorems, FiniteSetTheorems, TLAPS

SetOf(s) == {s[i] : i \in DOMAIN s}
Distinct(s) == \A i, j \in DOMAIN s : i # j => s[i] # s[j]

(* Between two expansions no neighbor is pending; during one, the pending  *)
(* ones are neighbors of the vertex that was visited last.                 *)
Enumerating ==
  /\ pc # "expand" => pending = {}
  /\ pc = "expand" => visits # <<>> /\ pending \subseteq Neighbors(visits[Len(visits)])

IndInv ==
  /\ TypeOK
  /\ NothingLeaks
  /\ Enumerating
  /\ MarkedOnce
  /\ FrontierSeparates
  /\ VisitsReachable

------------------------------------------------------------------------------
(* An entry put at the end of a sequence that does not hold it.            *)
LEMMA AppendOnce ==
  ASSUME NEW S, NEW s \in Seq(S), NEW x \in S, x \notin SetOf(s), Distinct(s)
  PROVE  /\ Append(s, x) \in Seq(S)
         /\ SetOf(Append(s, x)) = SetOf(s) \cup {x}
         /\ Distinct(Append(s, x))
         /\ Append(s, x) # <<>>
         /\ Append(s, x)[Len(Append(s, x))] = x
<1>1. /\ Append(s, x) \in Seq(S)
      /\ Len(Append(s, x)) = Len(s) + 1
      /\ Append(s, x)[Len(s) + 1] = x
      /\ \A i \in 1 .. Len(s) : Append(s, x)[i] = s[i]
  OBVIOUS
<1>2. DOMAIN s = 1 .. Len(s) /\ DOMAIN Append(s, x) = 1 .. Len(s) + 1 /\ Len(s) \in Nat
  BY <1>1
<1>3. SetOf(Append(s, x)) = SetOf(s) \cup {x}
  BY <1>1, <1>2 DEF SetOf
<1>4. Distinct(Append(s, x))
  <2> SUFFICES ASSUME NEW i \in 1 .. Len(s) + 1, NEW j \in 1 .. Len(s) + 1, i # j
               PROVE  Append(s, x)[i] # Append(s, x)[j]
    BY <1>2 DEF Distinct
  <2>1. CASE i \in 1 .. Len(s) /\ j \in 1 .. Len(s)
    BY <2>1, <1>1, <1>2 DEF Distinct
  <2>2. CASE i = Len(s) + 1
    BY <2>2, <1>1, <1>2 DEF SetOf
  <2>3. CASE j = Len(s) + 1
    BY <2>3, <1>1, <1>2 DEF SetOf
  <2> QED
    BY <2>1, <2>2, <2>3, <1>2
<1> QED
  BY <1>1, <1>2, <1>3, <1>4

(* What queue_dequeue takes, and what it leaves.                           *)
LEMMA HeadOnce ==
  ASSUME NEW S, NEW s \in Seq(S), s # <<>>, Distinct(s)
  PROVE  /\ Head(s) \in S /\ Head(s) \in SetOf(s)
         /\ Tail(s) \in Seq(S)
         /\ SetOf(Tail(s)) = SetOf(s) \ {Head(s)}
         /\ Distinct(Tail(s))
<1>1. /\ Tail(s) \in Seq(S) /\ Len(s) \in Nat \ {0}
      /\ Len(Tail(s)) = Len(s) - 1
      /\ \A i \in 1 .. Len(s) - 1 : Tail(s)[i] = s[i + 1]
      /\ Head(s) = s[1] /\ Head(s) \in S
  OBVIOUS
<1>2. DOMAIN s = 1 .. Len(s) /\ DOMAIN Tail(s) = 1 .. Len(s) - 1
  BY <1>1
<1>3. Head(s) \in SetOf(s)
  BY <1>1, <1>2 DEF SetOf
<1>4. ASSUME NEW y \in SetOf(Tail(s)) PROVE y \in SetOf(s) \ {Head(s)}
  <2>1. PICK i \in 1 .. Len(s) - 1 : y = s[i + 1]
    BY <1>1, <1>2 DEF SetOf
  <2>2. i + 1 \in DOMAIN s /\ 1 \in DOMAIN s /\ i + 1 # 1
    BY <1>1, <1>2
  <2> QED
    BY <2>1, <2>2, <1>1 DEF SetOf, Distinct
<1>5. ASSUME NEW y \in SetOf(s), y # Head(s) PROVE y \in SetOf(Tail(s))
  <2>1. PICK i \in 1 .. Len(s) : y = s[i]
    BY <1>2 DEF SetOf
  <2>2. i # 1 /\ i - 1 \in 1 .. Len(s) - 1
    BY <2>1, <1>1, <1>5
  <2>3. Tail(s)[i - 1] = y
    BY <2>1, <2>2, <1>1
  <2> QED
    BY <2>2, <2>3, <1>2 DEF SetOf
<1>6. Distinct(Tail(s))
  <2> SUFFICES ASSUME NEW i \in 1 .. Len(s) - 1, NEW j \in 1 .. Len(s) - 1, i # j
               PROVE  Tail(s)[i] # Tail(s)[j]
    BY <1>2 DEF Distinct
  <2>1. i + 1 \in DOMAIN s /\ j + 1 \in DOMAIN s /\ i + 1 # j + 1
    BY <1>1, <1>2
  <2> QED
    BY <2>1, <1>1 DEF Distinct
<1> QED
  BY <1>1, <1>3, <1>4, <1>5, <1>6

(* What stack_pop takes, and what it leaves.                               *)
LEMMA LastOnce ==
  ASSUME NEW S, NEW s \in Seq(S), s # <<>>, Distinct(s)
  PROVE  /\ Last(s) \in S /\ Last(s) \in SetOf(s)
         /\ Front(s) \in Seq(S)
         /\ SetOf(Front(s)) = SetOf(s) \ {Last(s)}
         /\ Distinct(Front(s))
<1>1. /\ Front(s) \in Seq(S) /\ Len(s) \in Nat \ {0}
      /\ Len(Front(s)) = Len(s) - 1
      /\ \A i \in 1 .. Len(s) - 1 : Front(s)[i] = s[i]
      /\ Last(s) = s[Len(s)] /\ Last(s) \in S
  <2>1. Len(s) \in Nat \ {0} /\ \A i \in 1 .. Len(s) : s[i] \in S
    OBVIOUS
  <2> DEFINE n == Len(s) - 1
  <2>2. n \in Int /\ 1 \in Int /\ \A i \in 1 .. n : s[i] \in S
    BY <2>1
  <2> HIDE DEF n
  <2>3. /\ SubSeq(s, 1, n) \in Seq(S)
        /\ Len(SubSeq(s, 1, n)) = IF 1 <= n THEN n - 1 + 1 ELSE 0
        /\ \A i \in 1 .. n - 1 + 1 : SubSeq(s, 1, n)[i] = s[1 + i - 1]
    BY <2>2, SubSeqProperties
  <2>4. Len(SubSeq(s, 1, n)) = n
    <3>1. n \in Nat
      BY <2>1 DEF n
    <3>2. CASE n = 0
      BY <3>2, <2>3
    <3>3. CASE 1 <= n
      <4>1. Len(SubSeq(s, 1, n)) = n - 1 + 1
        BY <3>3, <2>3
      <4> QED
        BY <4>1, <3>1
    <3> QED
      BY <3>1, <3>2, <3>3
  <2>5. ASSUME NEW i \in 1 .. n PROVE SubSeq(s, 1, n)[i] = s[i]
    <3>1. i \in 1 .. n - 1 + 1 /\ 1 + i - 1 = i
      BY <2>2
    <3> QED
      BY <3>1, <2>3
  <2>6. Front(s) = SubSeq(s, 1, n) /\ Last(s) = s[Len(s)] /\ Last(s) \in S
    BY <2>1 DEF Front, Last, n
  <2> QED
    BY <2>1, <2>3, <2>4, <2>5, <2>6 DEF n
<1>2. DOMAIN s = 1 .. Len(s) /\ DOMAIN Front(s) = 1 .. Len(s) - 1
  BY <1>1
<1>3. Last(s) \in SetOf(s)
  BY <1>1, <1>2 DEF SetOf
<1>4. ASSUME NEW y \in SetOf(Front(s)) PROVE y \in SetOf(s) \ {Last(s)}
  <2>1. PICK i \in 1 .. Len(s) - 1 : y = s[i]
    BY <1>1, <1>2 DEF SetOf
  <2>2. i \in DOMAIN s /\ Len(s) \in DOMAIN s /\ i # Len(s)
    BY <1>1, <1>2
  <2> QED
    BY <2>1, <2>2, <1>1 DEF SetOf, Distinct
<1>5. ASSUME NEW y \in SetOf(s), y # Last(s) PROVE y \in SetOf(Front(s))
  <2>1. PICK i \in 1 .. Len(s) : y = s[i]
    BY <1>2 DEF SetOf
  <2>2. i \in 1 .. Len(s) - 1
    BY <2>1, <1>1, <1>5
  <2> QED
    BY <2>1, <2>2, <1>1, <1>2 DEF SetOf
<1>6. Distinct(Front(s))
  <2> SUFFICES ASSUME NEW i \in 1 .. Len(s) - 1, NEW j \in 1 .. Len(s) - 1, i # j
               PROVE  Front(s)[i] # Front(s)[j]
    BY <1>2 DEF Distinct
  <2>1. i \in DOMAIN s /\ j \in DOMAIN s
    BY <1>1, <1>2
  <2> QED
    BY <2>1, <1>1 DEF Distinct
<1> QED
  BY <1>1, <1>3, <1>4, <1>5, <1>6
------------------------------------------------------------------------------
(* An edge is the pair of its ends, and the neighbors of a vertex are      *)
(* vertices.                                                               *)
LEMMA EdgeEnds ==
  ASSUME TypeOK
  PROVE  /\ \A e \in edges : e = <<e[1], e[2]>> /\ e[1] \in Vertices /\ e[2] \in Vertices
         /\ \A u \in Vertices : Neighbors(u) \subseteq Vertices
         /\ \A u \in Vertices : \A v \in Neighbors(u) : <<u, v>> \in edges
<1>1. edges \subseteq Vertices \X Vertices
  BY TraversalAssumption DEF TypeOK
<1> QED
  BY <1>1 DEF Neighbors

LEMMA InitIndInv == Init => IndInv
<1> SUFFICES ASSUME Init PROVE IndInv
  OBVIOUS
<1>1. 0 \in Vertices
  BY TraversalAssumption DEF Vertices
<1>2. TypeOK
  <2>1. <<>> \in Seq(Vertices)
    OBVIOUS
  <2>2. /\ frontier \in Seq(Vertices) /\ visits \in Seq(Vertices)
        /\ marked \subseteq Vertices /\ pending \subseteq Vertices
    BY <2>1 DEF Init
  <2>3. source \in Vertices /\ edges \subseteq Joinable /\ search \in Searches
    BY <1>1 DEF Init
  <2>4. blocks \in Nat /\ pc \in {"idle", "loop", "expand"} /\ ok \in BOOLEAN
    BY DEF Init
  <2> QED
    BY <2>2, <2>3, <2>4 DEF TypeOK
<1> QED
  BY <1>2 DEF Init, IndInv, NothingLeaks, Enumerating, MarkedOnce, FrontierSeparates,
              VisitsReachable

(* What a set holds that is visited when nothing waits any more.           *)
Reaches(V) == Closed(V) /\ \A S \in SUBSET Vertices : Closed(S) => V \subseteq S

(* Leaving a call, with what it visited so far.                            *)
LEMMA ReturnKeeps ==
  ASSUME IndInv, pc # "idle", NEW result \in BOOLEAN, Return(result),
         visits' \in Seq(Vertices), Distinct(visits'),
         result => Reaches(SetOf(visits'))
  PROVE  IndInv'
<1>1. TypeOK'
  BY DEF IndInv, TypeOK, NothingLeaks, Return
<1>2. NothingLeaks'
  BY DEF IndInv, NothingLeaks, Return
<1>3. Enumerating' /\ FrontierSeparates'
  BY DEF Return, Enumerating, FrontierSeparates
<1>4. MarkedOnce'
  BY DEF Return, MarkedOnce, Distinct
<1>5. VisitsReachable'
  BY DEF Return, VisitsReachable, Reaches, Closed, Visited, SetOf
<1> QED
  BY <1>1, <1>2, <1>3, <1>4, <1>5 DEF IndInv

(* With an empty frontier nothing leads out of what was visited.           *)
LEMMA FinishKeeps == IndInv /\ Finish => IndInv'
<1> SUFFICES ASSUME IndInv, Finish PROVE IndInv'
  OBVIOUS
<1>1. visits \in Seq(Vertices) /\ Distinct(visits) /\ pc # "idle"
  BY DEF IndInv, TypeOK, MarkedOnce, Distinct, Finish
<1>2. Waiting = {} /\ pending = {}
  BY DEF Finish, Waiting, IndInv, Enumerating
<1>3. marked = Visited
  BY <1>1, <1>2 DEF IndInv, MarkedOnce
<1>4. Reaches(Visited)
  BY <1>1, <1>2, <1>3 DEF IndInv, FrontierSeparates, Reaches, Closed
<1>5. Reaches(SetOf(visits'))
  BY <1>4 DEF Finish, Visited, SetOf
<1> QED
  BY <1>1, <1>5, ReturnKeeps DEF Finish

(* The view or the memory ends the call in the middle of an expansion.     *)
LEMMA CutShortKeeps ==
  ASSUME IndInv, pc # "idle", Return(FALSE), visits' = visits
  PROVE  IndInv'
<1>1. visits' \in Seq(Vertices) /\ Distinct(visits')
  BY DEF IndInv, TypeOK, MarkedOnce, Distinct
<1> QED
  BY <1>1, ReturnKeeps

(* The vertex next in the frontier is a marked one that was not visited,   *)
(* whichever end it is taken from.                                         *)
LEMMA TakenOnce ==
  ASSUME IndInv, pc = "loop", frontier # <<>>, NEW u,
         \/ u = Head(frontier)
         \/ u = Last(frontier)
  PROVE  u \in Vertices /\ u \in Waiting /\ u \notin Visited
<1>1. frontier \in Seq(Vertices) /\ Distinct(frontier)
  BY DEF IndInv, TypeOK, MarkedOnce, Distinct
<1>2. u \in Vertices /\ u \in SetOf(frontier)
  BY <1>1, HeadOnce, LastOnce
<1> QED
  BY <1>2 DEF IndInv, MarkedOnce, Waiting, SetOf

(* A turn of the main loop, up to the visitor: one more vertex was visited.*)
LEMMA VisitsOne ==
  ASSUME IndInv, NEW u, u \in Vertices, u \notin Visited
  PROVE  /\ Append(visits, u) \in Seq(Vertices)
         /\ SetOf(Append(visits, u)) = Visited \cup {u}
         /\ Distinct(Append(visits, u))
         /\ Append(visits, u) # <<>>
         /\ Append(visits, u)[Len(Append(visits, u))] = u
<1>1. visits \in Seq(Vertices) /\ Distinct(visits) /\ u \notin SetOf(visits)
  BY DEF IndInv, TypeOK, MarkedOnce, Distinct, Visited, SetOf
<1>2. SetOf(visits) = Visited
  BY DEF SetOf, Visited
<1> QED
  BY <1>1, <1>2, AppendOnce

LEMMA VisitStopsKeeps == IndInv /\ VisitStops => IndInv'
<1> SUFFICES ASSUME IndInv, VisitStops PROVE IndInv'
  OBVIOUS
<1>1. PICK u : (u = Head(frontier) \/ u = Last(frontier)) /\ visits' = Append(visits, u)
  BY DEF VisitStops
<1>2. u \in Vertices /\ u \notin Visited
  BY <1>1, TakenOnce DEF VisitStops
<1>3. visits' \in Seq(Vertices) /\ Distinct(visits')
  BY <1>1, <1>2, VisitsOne
<1>4. pc # "idle" /\ Return(FALSE)
  BY DEF VisitStops
<1> QED
  BY <1>3, <1>4, ReturnKeeps

(* The vertex taken leaves the frontier and joins the visited ones; its    *)
(* edges are the ones to be enumerated.                                    *)
LEMMA VisitKeeps ==
  ASSUME IndInv, NEW u \in Vertices, Visit(u)
  PROVE  IndInv'
<1>1. /\ frontier \in Seq(Vertices) /\ Distinct(frontier) /\ frontier # <<>> /\ pc = "loop"
      /\ Waiting = SetOf(frontier)
  BY DEF IndInv, TypeOK, MarkedOnce, Distinct, Visit, Taken, Waiting, SetOf
<1>2. \/ u = Head(frontier) /\ frontier' = Tail(frontier)
      \/ u = Last(frontier) /\ frontier' = Front(frontier)
  BY DEF Visit, Taken, Dequeued, Popped
<1>3. u \in Waiting /\ u \notin Visited
  BY <1>1, <1>2, TakenOnce
<1>4. /\ frontier' \in Seq(Vertices) /\ Distinct(frontier')
      /\ SetOf(frontier') = Waiting \ {u}
  <2>1. CASE u = Head(frontier) /\ frontier' = Tail(frontier)
    <3>1. /\ Tail(frontier) \in Seq(Vertices) /\ Distinct(Tail(frontier))
          /\ SetOf(Tail(frontier)) = SetOf(frontier) \ {Head(frontier)}
      BY <1>1, HeadOnce
    <3> QED
      BY <3>1, <2>1, <1>1
  <2>2. CASE u = Last(frontier) /\ frontier' = Front(frontier)
    <3>1. /\ Front(frontier) \in Seq(Vertices) /\ Distinct(Front(frontier))
          /\ SetOf(Front(frontier)) = SetOf(frontier) \ {Last(frontier)}
      BY <1>1, LastOnce
    <3> QED
      BY <3>1, <2>2, <1>1
  <2> QED
    BY <2>1, <2>2, <1>2
<1>5. /\ visits' \in Seq(Vertices) /\ Distinct(visits')
      /\ SetOf(visits') = Visited \cup {u}
      /\ visits' # <<>> /\ visits'[Len(visits')] = u
  BY <1>3, VisitsOne DEF Visit
<1>6. Waiting' = Waiting \ {u} /\ Visited' = Visited \cup {u}
  BY <1>4, <1>5 DEF Waiting, Visited, SetOf
<1>7. TypeOK'
  <2>1. pending' \subseteq Vertices
    BY EdgeEnds DEF Visit, IndInv
  <2> QED
    BY <2>1, <1>4, <1>5 DEF Visit, IndInv, TypeOK
<1>8. NothingLeaks'
  BY <1>1 DEF Visit, IndInv, NothingLeaks
<1>9. Enumerating'
  BY <1>5 DEF Visit, Enumerating, Neighbors
<1>10. MarkedOnce'
  <2>1. Visited' \cap Waiting' = {} /\ marked' = Visited' \cup Waiting'
    BY <1>1, <1>3, <1>6 DEF Visit, IndInv, MarkedOnce
  <2> QED
    BY <2>1, <1>4, <1>5 DEF MarkedOnce, Distinct
<1>11. FrontierSeparates'
  <2>1. source' \in marked' /\ \A S \in SUBSET Vertices : Closed(S)' => marked' \subseteq S
    BY <1>1 DEF Visit, IndInv, FrontierSeparates, Closed
  <2>2. ASSUME NEW e \in edges, e[1] \in Visited'
        PROVE  e[2] \in marked' \/ (visits'[Len(visits')] = e[1] /\ e[2] \in pending')
    <3>1. CASE e[1] = u
      BY <3>1, <1>5, EdgeEnds DEF Visit, Neighbors, IndInv
    <3>2. CASE e[1] \in Visited
      <4>1. e[2] \in marked \/ e[2] \in pending
        BY <3>2, <1>1 DEF IndInv, FrontierSeparates
      <4>2. pending = {}
        BY <1>1 DEF IndInv, Enumerating
      <4> QED
        BY <4>1, <4>2 DEF Visit
    <3> QED
      BY <2>2, <1>6, <3>1, <3>2
  <2> QED
    BY <2>1, <2>2 DEF FrontierSeparates, Visit
<1>12. VisitsReachable'
  BY DEF Visit, VisitsReachable
<1> QED
  BY <1>7, <1>8, <1>9, <1>10, <1>11, <1>12 DEF IndInv

(* A neighbor that is marked for the first time is in every closed set     *)
(* that holds the vertex it was reached from.                              *)
LEMMA PutKeeps ==
  ASSUME IndInv, NEW v \in Vertices, Put(v)
  PROVE  IndInv'
<1> DEFINE u == visits[Len(visits)]
<1>1. pc = "expand" /\ v \in pending /\ v \notin marked /\ pending \subseteq Neighbors(u)
  BY DEF IndInv, Enumerating, Put
<1>2. frontier \in Seq(Vertices) /\ Distinct(frontier) /\ SetOf(frontier) = Waiting
  BY DEF IndInv, TypeOK, MarkedOnce, Distinct, Waiting, SetOf
<1>3. v \notin Waiting /\ v \notin Visited
  BY <1>1 DEF IndInv, MarkedOnce
<1>4. /\ frontier' \in Seq(Vertices) /\ Distinct(frontier')
      /\ SetOf(frontier') = Waiting \cup {v}
  BY <1>2, <1>3, AppendOnce DEF Put
<1>5. Waiting' = Waiting \cup {v} /\ Visited' = Visited
  BY <1>4 DEF Waiting, Visited, SetOf, Put
<1>6. u \in Visited /\ u \in Vertices
  <2>1. visits \in Seq(Vertices) /\ visits # <<>>
    BY <1>1 DEF IndInv, TypeOK, Enumerating
  <2>2. Len(visits) \in DOMAIN visits /\ u \in Vertices
    BY <2>1
  <2> QED
    BY <2>2 DEF Visited
<1>7. TypeOK'
  BY <1>4 DEF Put, IndInv, TypeOK
<1>8. NothingLeaks'
  BY DEF Put, IndInv, NothingLeaks
<1>9. Enumerating'
  BY DEF Put, IndInv, Enumerating, Neighbors
<1>10. MarkedOnce'
  <2>1. Visited' \cap Waiting' = {} /\ marked' = Visited' \cup Waiting'
    BY <1>1, <1>3, <1>5 DEF Put, IndInv, MarkedOnce
  <2>2. visits' = visits /\ Distinct(visits)
    BY DEF Put, IndInv, MarkedOnce, Distinct
  <2> QED
    BY <2>1, <2>2, <1>4 DEF MarkedOnce, Distinct
<1>11. FrontierSeparates'
  <2>1. source \in marked /\ marked' = marked \cup {v} /\ source' = source /\ edges' = edges
    BY <1>1 DEF Put, IndInv, FrontierSeparates
  <2>2. ASSUME NEW S \in SUBSET Vertices, Closed(S)
        PROVE  marked' \subseteq S
    <3>1. marked \subseteq S /\ u \in S
      BY <2>2, <1>1, <1>6 DEF IndInv, FrontierSeparates, MarkedOnce
    <3>2. <<u, v>> \in edges
      BY <1>1, <1>6, EdgeEnds DEF IndInv
    <3>3. <<u, v>>[1] = u /\ <<u, v>>[2] = v
      OBVIOUS
    <3>4. v \in S
      BY <3>1, <3>2, <3>3, <2>2 DEF Closed
    <3> QED
      BY <3>1, <3>4, <2>1
  <2>3. ASSUME NEW e \in edges, e[1] \in Visited
        PROVE  e[2] \in marked' \/ (u = e[1] /\ e[2] \in pending')
    BY <2>3, <1>1, <2>1 DEF IndInv, FrontierSeparates, Put
  <2>4. \A S \in SUBSET Vertices : Closed(S)' => marked' \subseteq S
    BY <2>1, <2>2 DEF Closed
  <2> QED
    BY <2>1, <2>3, <2>4, <1>5 DEF FrontierSeparates, Put
<1>12. VisitsReachable'
  BY DEF Put, VisitsReachable
<1> QED
  BY <1>7, <1>8, <1>9, <1>10, <1>11, <1>12 DEF IndInv

LEMMA SkipKeeps ==
  ASSUME IndInv, NEW v \in Vertices, Skip(v)
  PROVE  IndInv'
<1>1. TypeOK' /\ NothingLeaks'
  BY DEF Skip, IndInv, TypeOK, NothingLeaks
<1>2. Enumerating'
  BY DEF Skip, IndInv, Enumerating, Neighbors
<1>3. MarkedOnce'
  BY DEF Skip, IndInv, MarkedOnce, Visited, Waiting
<1>4. FrontierSeparates'
  BY DEF Skip, IndInv, FrontierSeparates, Closed, Visited
<1>5. VisitsReachable'
  BY DEF Skip, VisitsReachable
<1> QED
  BY <1>1, <1>2, <1>3, <1>4, <1>5 DEF IndInv

LEMMA ExpandedKeeps == IndInv /\ Expanded => IndInv'
<1> SUFFICES ASSUME IndInv, Expanded PROVE IndInv'
  OBVIOUS
<1>1. TypeOK' /\ NothingLeaks' /\ Enumerating'
  BY DEF Expanded, IndInv, TypeOK, NothingLeaks, Enumerating
<1>2. MarkedOnce'
  BY DEF Expanded, IndInv, MarkedOnce, Visited, Waiting
<1>3. FrontierSeparates'
  BY DEF Expanded, IndInv, FrontierSeparates, Closed, Visited
<1>4. VisitsReachable'
  BY DEF Expanded, VisitsReachable
<1> QED
  BY <1>1, <1>2, <1>3, <1>4 DEF IndInv

LEMMA BeginFailsKeeps ==
  ASSUME IndInv, NEW f \in Searches, BeginFails(f)
  PROVE  IndInv'
<1>1. visits' \in Seq(Vertices) /\ visits' = <<>>
  BY DEF BeginFails
<1>2. TypeOK' /\ NothingLeaks' /\ Enumerating'
  BY <1>1 DEF BeginFails, IndInv, TypeOK, NothingLeaks, Enumerating
<1>3. MarkedOnce'
  BY <1>1 DEF BeginFails, IndInv, MarkedOnce
<1>4. FrontierSeparates' /\ VisitsReachable'
  BY DEF BeginFails, FrontierSeparates, VisitsReachable
<1> QED
  BY <1>2, <1>3, <1>4 DEF IndInv

LEMMA BeginKeeps ==
  ASSUME IndInv, NEW f \in Searches, NEW s \in Vertices, Begin(f, s)
  PROVE  IndInv'
<1>1. /\ visits' = <<>> /\ visits' \in Seq(Vertices)
      /\ frontier' = <<s>> /\ frontier' \in Seq(Vertices)
      /\ Visited' = {} /\ Waiting' = {s} /\ marked' = {s}
  BY DEF Begin, Visited, Waiting
<1>2. TypeOK' /\ NothingLeaks' /\ Enumerating'
  BY <1>1 DEF Begin, IndInv, TypeOK, NothingLeaks, Enumerating
<1>3. MarkedOnce'
  BY <1>1 DEF MarkedOnce
<1>4. FrontierSeparates'
  BY <1>1 DEF Begin, FrontierSeparates, Closed
<1>5. VisitsReachable'
  BY DEF Begin, VisitsReachable
<1> QED
  BY <1>2, <1>3, <1>4, <1>5 DEF IndInv

LEMMA StutterKeeps == IndInv /\ UNCHANGED vars => IndInv'
<1> SUFFICES ASSUME IndInv, UNCHANGED vars PROVE IndInv'
  OBVIOUS
<1>1. TypeOK' /\ NothingLeaks' /\ Enumerating'
  BY DEF vars, IndInv, TypeOK, NothingLeaks, Enumerating, Neighbors
<1>2. MarkedOnce'
  BY DEF vars, IndInv, MarkedOnce, Visited, Waiting
<1>3. FrontierSeparates' /\ VisitsReachable'
  BY DEF vars, IndInv, FrontierSeparates, VisitsReachable, Closed, Visited
<1> QED
  BY <1>1, <1>2, <1>3 DEF IndInv

LEMMA StepKeeps == IndInv /\ [Next]_vars => IndInv'
<1> SUFFICES ASSUME IndInv, [Next]_vars PROVE IndInv'
  OBVIOUS
<1>1. CASE UNCHANGED vars
  BY <1>1, StutterKeeps
<1>2. ASSUME NEW f \in Searches, BeginFails(f) PROVE IndInv'
  BY <1>2, BeginFailsKeeps
<1>3. ASSUME NEW f \in Searches, NEW s \in Vertices, Begin(f, s) PROVE IndInv'
  BY <1>3, BeginKeeps
<1>4. CASE Finish
  BY <1>4, FinishKeeps
<1>5. CASE VisitStops
  BY <1>5, VisitStopsKeeps
<1>6. CASE ViewFails
  BY <1>6, CutShortKeeps DEF ViewFails
<1>7. CASE Expanded
  BY <1>7, ExpandedKeeps
<1>8. ASSUME NEW u \in Vertices, Visit(u) PROVE IndInv'
  BY <1>8, VisitKeeps
<1>9. ASSUME NEW u \in Vertices, Put(u) PROVE IndInv'
  BY <1>9, PutKeeps
<1>10. ASSUME NEW u \in Vertices, Skip(u) PROVE IndInv'
  BY <1>10, SkipKeeps
<1>11. ASSUME NEW u \in Vertices, PutFails(u) PROVE IndInv'
  BY <1>11, CutShortKeeps DEF PutFails
<1> QED
  BY <1>1, <1>2, <1>3, <1>4, <1>5, <1>6, <1>7, <1>8, <1>9, <1>10, <1>11
  DEF Next, Turn

LEMMA Inductive == Spec => []IndInv
BY InitIndInv, StepKeeps, PTL DEF Spec

------------------------------------------------------------------------------
(* In breadth_first_search.c and depth_first_search.c a vertex is marked   *)
(* once, waits once and is visited once; the frontier separates the        *)
(* visited vertices from the rest; and a call frees what it allocated.     *)
THEOREM LoopCorrect == Spec => []WellFormed
<1>1. IndInv => WellFormed
  BY DEF IndInv, WellFormed
<1> QED
  BY Inductive, <1>1, PTL

(* A traversal that returns true has visited the vertices that can be      *)
(* reached from the source and no other.                                   *)
THEOREM ReachesAll == Spec => []VisitsReachable
<1>1. IndInv => VisitsReachable
  BY DEF IndInv
<1> QED
  BY Inductive, <1>1, PTL
------------------------------------------------------------------------------
(* Breadth first, layer by layer.  The recursion of Within: a row from the *)
(* row before, and the rows up to n.                                       *)
Beyond(W) == W \cup {e[2] : e \in {f \in edges : f[1] \in W}}

Row(prev, n) == IF n = 0 THEN {source} ELSE Beyond(prev)

Unfolds(f, n) == f = [k \in 0 .. n |-> Row(f[k - 1], k)]

LEMMA RowsExist ==
  ASSUME NEW n \in Nat
  PROVE  \E f : Unfolds(f, n)
<1> DEFINE S == {m \in 0 .. n : \E f : Unfolds(f, m)}
<1>1. 0 \in S
  <2> DEFINE f == [k \in 0 .. 0 |-> Row(0, 0)]
  <2>1. \A x : Row(x, 0) = Row(0, 0)
    BY DEF Row
  <2>2. \A k \in 0 .. 0 : Row(0, 0) = Row(f[k - 1], k)
    BY <2>1
  <2>3. f = [k \in 0 .. 0 |-> Row(f[k - 1], k)]
    BY <2>2
  <2> HIDE DEF f
  <2>4. Unfolds(f, 0)
    BY <2>3 DEF Unfolds
  <2> QED
    BY <2>4
<1>2. ASSUME NEW m \in 1 .. n, m - 1 \in S
      PROVE  m \in S
  <2>1. PICK f : Unfolds(f, m - 1)
    BY <1>2
  <2> DEFINE g == [k \in 0 .. m |-> IF k = m THEN Row(f[m - 1], m) ELSE f[k]]
  <2>2. ASSUME NEW k \in 0 .. m
        PROVE  g[k] = Row(g[k - 1], k)
    <3>1. CASE k = m
      <4>1. k - 1 \in 0 .. m /\ k - 1 # m
        BY <3>1
      <4>2. g[k - 1] = f[m - 1]
        BY <3>1, <4>1
      <4> QED
        BY <3>1, <4>2
    <3>2. CASE k # m
      <4>1. k \in 0 .. m - 1 /\ g[k] = f[k]
        BY <3>2
      <4>2. f[k] = Row(f[k - 1], k)
        BY <2>1, <4>1 DEF Unfolds
      <4>3. CASE k = 0
        <5>1. Row(f[k - 1], k) = Row(g[k - 1], k)
          BY <4>3 DEF Row
        <5> QED
          BY <4>1, <4>2, <5>1
      <4>4. CASE k # 0
        <5>1. k - 1 \in 0 .. m /\ k - 1 # m
          BY <4>1, <4>4
        <5>2. g[k - 1] = f[k - 1]
          BY <5>1
        <5> QED
          BY <4>1, <4>2, <5>2
      <4> QED
        BY <4>3, <4>4
    <3> QED
      BY <3>1, <3>2
  <2>3. g = [k \in 0 .. m |-> g[k]]
    OBVIOUS
  <2> HIDE DEF g
  <2>4. Unfolds(g, m)
    BY <2>2, <2>3 DEF Unfolds
  <2> QED
    BY <2>4
<1> HIDE DEF S
<1>3. n \in S
  <2>1. \A m \in 0 .. n : m \in S
    BY <1>1, <1>2, Upward
  <2> QED
    BY <2>1
<1> QED
  BY <1>3 DEF S

LEMMA WithinSteps ==
  /\ Within[0] = {source}
  /\ \A n \in 1 .. VertexCount : Within[n] = Beyond(Within[n - 1])
<1>1. VertexCount \in Nat
  BY TraversalAssumption
<1>2. \E f : Unfolds(f, VertexCount)
  BY <1>1, RowsExist
<1>3. Within = CHOOSE f : Unfolds(f, VertexCount)
  BY DEF Within, Unfolds, Row, Beyond
<1>4. Unfolds(Within, VertexCount)
  BY <1>2, <1>3
<1>5. \A k \in 0 .. VertexCount : Within[k] = Row(Within[k - 1], k)
  BY <1>4 DEF Unfolds
<1>6. 0 \in 0 .. VertexCount /\ \A n \in 1 .. VertexCount : n \in 0 .. VertexCount /\ n # 0
  BY <1>1
<1> QED
  BY <1>5, <1>6 DEF Row

(* An edge leads at most one layer further, and what is in a layer that is *)
(* not the first was reached by an edge from the layer before.             *)
LEMMA LayersJoined ==
  ASSUME NEW n \in 1 .. VertexCount
  PROVE  /\ Within[n - 1] \subseteq Within[n]
         /\ \A e \in edges : e[1] \in Within[n - 1] => e[2] \in Within[n]
         /\ \A v \in Within[n] \ Within[n - 1] :
              \E e \in edges : e[2] = v /\ e[1] \in Within[n - 1]
<1>1. Within[n] = Beyond(Within[n - 1])
  BY WithinSteps
<1> QED
  BY <1>1 DEF Beyond

LEMMA WithinGrows ==
  ASSUME NEW m \in 0 .. VertexCount, NEW n \in 0 .. VertexCount, m <= n
  PROVE  Within[m] \subseteq Within[n]
<1> DEFINE S == {k \in 0 .. VertexCount : m <= k => Within[m] \subseteq Within[k]}
<1>1. VertexCount \in Nat
  BY TraversalAssumption
<1>2. 0 \in S
  BY <1>1
<1>3. ASSUME NEW k \in 1 .. VertexCount, k - 1 \in S
      PROVE  k \in S
  <2>1. Within[k - 1] \subseteq Within[k]
    BY LayersJoined
  <2>2. k \in 0 .. VertexCount /\ (m <= k => m = k \/ m <= k - 1)
    BY <1>1
  <2> QED
    BY <2>1, <2>2, <1>3
<1> HIDE DEF S
<1>4. n \in S
  <2>1. \A k \in 0 .. VertexCount : k \in S
    BY <1>1, <1>2, <1>3, Upward
  <2> QED
    BY <2>1
<1> QED
  BY <1>4 DEF S

(* The level of a vertex is the first layer it is in.                      *)
LEMMA LevelIsLeast ==
  ASSUME NEW n \in 0 .. VertexCount, NEW v \in Within[n]
  PROVE  /\ Level[v] \in 0 .. n
         /\ v \in Within[Level[v]]
         /\ \A m \in 0 .. VertexCount : v \in Within[m] => Level[v] <= m
<1> DEFINE S == {m \in 0 .. VertexCount : v \in Within[m]}
           First(c) == c \in 0 .. VertexCount /\ v \in Within[c] /\ (c > 0 => v \notin Within[c - 1])
<1>1. VertexCount \in Nat /\ VertexCount \in 0 .. VertexCount
  BY TraversalAssumption
<1>2. v \in Within[VertexCount]
  BY <1>1, WithinGrows
<1>3. \E c \in 0 .. VertexCount : v \in Within[c] /\ (c > 0 => v \notin Within[c - 1])
  <2>1. S \subseteq Nat /\ n \in S
    OBVIOUS
  <2> HIDE DEF S
  <2>2. PICK c \in S : \A k \in S : c <= k
    BY <2>1, LeastExists
  <2>3. c \in 0 .. VertexCount /\ v \in Within[c]
    BY <2>2 DEF S
  <2>4. ASSUME c > 0, v \in Within[c - 1] PROVE FALSE
    <3>1. c - 1 \in 0 .. VertexCount /\ ~(c <= c - 1)
      BY <2>3, <2>4, <1>1
    <3>2. c - 1 \in S
      BY <3>1, <2>4 DEF S
    <3> QED
      BY <3>1, <3>2, <2>2
  <2> QED
    BY <2>3, <2>4
<1> DEFINE c == CHOOSE k \in 0 .. VertexCount : v \in Within[k] /\ (k > 0 => v \notin Within[k - 1])
<1>4. c \in 0 .. VertexCount /\ v \in Within[c] /\ (c > 0 => v \notin Within[c - 1])
  BY <1>3
<1>5. Level[v] = c
  BY <1>2 DEF Level
<1> HIDE DEF c
<1>6. ASSUME NEW m \in 0 .. VertexCount, v \in Within[m], ~(c <= m)
      PROVE  FALSE
  <2>1. c > 0 /\ c - 1 \in 0 .. VertexCount /\ m <= c - 1
    BY <1>4, <1>6, <1>1
  <2>2. v \in Within[c - 1]
    BY <2>1, <1>6, WithinGrows
  <2> QED
    BY <2>1, <2>2, <1>4
<1>7. c <= n
  BY <1>6
<1> QED
  BY <1>1, <1>4, <1>5, <1>6, <1>7

------------------------------------------------------------------------------
(* A row of vertices in order of their levels, none further from the       *)
(* source than its place in the row.                                       *)
InLayers(s) ==
  /\ \A i \in DOMAIN s : s[i] \in Within[i - 1]
  /\ \A i, j \in DOMAIN s : i < j => Level[s[i]] <= Level[s[j]]

(* What has been visited and what waits. *)
Line == visits \o frontier

(* During a breadth first call the frontier is at most one level ahead of  *)
(* the vertex visited last, and what is not marked is further away than    *)
(* that vertex.                                                            *)
Ahead ==
  \A u \in Vertices :
    visits # <<>> /\ visits[Len(visits)] = u =>
      /\ \A w \in Waiting : Level[w] <= Level[u] + 1
      /\ \A v \in Vertices : v \notin marked => v \notin Within[Level[u]]

Layered ==
  /\ pc = "idle" => frontier = <<>>
  /\ search = "bfs" => InLayers(Line)
  /\ search = "bfs" /\ pc # "idle" =>
       /\ visits = <<>> => frontier = <<source>>
       /\ Ahead

(* A row that starts with another row. *)
Starts(t, s) ==
  /\ Len(t) <= Len(s)
  /\ \A i \in DOMAIN t : t[i] = s[i]

LEMMA StartInLayers ==
  ASSUME NEW s \in Seq(Vertices), NEW t \in Seq(Vertices), InLayers(s), Starts(t, s)
  PROVE  InLayers(t)
<1>1. DOMAIN s = 1 .. Len(s) /\ DOMAIN t = 1 .. Len(t) /\ Len(s) \in Nat /\ Len(t) \in Nat
  OBVIOUS
<1>2. \A i \in DOMAIN t : i \in DOMAIN s /\ t[i] = s[i]
  BY <1>1 DEF Starts
<1> QED
  BY <1>2 DEF InLayers

LEMMA Joined ==
  ASSUME NEW a \in Seq(Vertices), NEW b \in Seq(Vertices)
  PROVE  /\ a \o b \in Seq(Vertices)
         /\ Len(a \o b) = Len(a) + Len(b)
         /\ \A i \in 1 .. Len(a) : (a \o b)[i] = a[i]
         /\ \A i \in 1 .. Len(b) : (a \o b)[Len(a) + i] = b[i]
OBVIOUS

(* As many different vertices as there are at most. *)
LEMMA DistinctFits ==
  ASSUME NEW s \in Seq(Vertices), Distinct(s)
  PROVE  Len(s) <= VertexCount
<1> DEFINE n == Len(s)
           f == [i \in 1 .. n |-> s[i]]
<1>1. n \in Nat /\ VertexCount \in Nat \ {0} /\ DOMAIN s = 1 .. n
  BY TraversalAssumption
<1>2. f \in [1 .. n -> Vertices]
  OBVIOUS
<1>3. \A i, j \in 1 .. n : f[i] = f[j] => i = j
  BY <1>1 DEF Distinct
<1> HIDE DEF n, f
<1>4. IsFiniteSet(Vertices) /\ Cardinality(Vertices) = VertexCount
  BY <1>1, FS_Interval DEF Vertices
<1>5. IsFiniteSet(1 .. n) /\ Cardinality(1 .. n) = n
  <2>1. 1 \in Int /\ n \in Int
    BY <1>1
  <2>2. IsFiniteSet(1 .. n) /\ Cardinality(1 .. n) = IF 1 > n THEN 0 ELSE n - 1 + 1
    BY <2>1, FS_Interval
  <2> QED
    BY <2>2, <1>1
<1>6. ASSUME VertexCount < n PROVE FALSE
  <2>1. Cardinality(Vertices) < Cardinality(1 .. n)
    BY <1>4, <1>5, <1>6
  <2>2. \E i, j \in 1 .. n : i # j /\ f[i] = f[j]
    BY ZenonT(60), <2>1, <1>2, <1>4, <1>5, FS_PigeonHole
  <2> QED
    BY <2>2, <1>3
<1> QED
  BY <1>1, <1>6 DEF n

(* Everything in the row is a marked vertex, once; so the row is no longer *)
(* than the graph has vertices.                                            *)
LEMMA LineFits ==
  ASSUME IndInv, Layered
  PROVE  /\ Line \in Seq(Vertices)
         /\ Len(Line) = Len(visits) + Len(frontier)
         /\ Len(visits) \in Nat /\ Len(frontier) \in Nat
         /\ \A i \in 1 .. Len(visits) : Line[i] = visits[i]
         /\ \A i \in 1 .. Len(frontier) : Line[Len(visits) + i] = frontier[i]
         /\ Distinct(Line)
         /\ Len(Line) <= VertexCount
<1>1. /\ visits \in Seq(Vertices) /\ frontier \in Seq(Vertices)
      /\ Distinct(visits) /\ Distinct(frontier)
  BY DEF IndInv, TypeOK, MarkedOnce, Distinct
<1>2. /\ Line \in Seq(Vertices)
      /\ Len(Line) = Len(visits) + Len(frontier)
      /\ Len(visits) \in Nat /\ Len(frontier) \in Nat
      /\ \A i \in 1 .. Len(visits) : Line[i] = visits[i]
      /\ \A i \in 1 .. Len(frontier) : Line[Len(visits) + i] = frontier[i]
  BY <1>1, Joined DEF Line
<1>3. \A i \in 1 .. Len(visits), j \in 1 .. Len(frontier) : visits[i] # frontier[j]
  <2>1. CASE pc = "idle"
    <3>1. Len(frontier) = 0
      BY <2>1 DEF Layered
    <3> QED
      BY <3>1
  <2>2. CASE pc # "idle"
    <3>1. Visited \cap Waiting = {}
      BY <2>2 DEF IndInv, MarkedOnce
    <3> QED
      BY <3>1, <1>1 DEF Visited, Waiting
  <2> QED
    BY <2>1, <2>2
<1>4. Distinct(Line)
  <2> DEFINE line == Line
             m == Len(visits)
             n == Len(frontier)
  <2>1. /\ DOMAIN line = 1 .. m + n /\ m \in Nat /\ n \in Nat
        /\ DOMAIN visits = 1 .. m /\ DOMAIN frontier = 1 .. n
    BY <1>1, <1>2
  <2>2. /\ \A i \in 1 .. m : line[i] = visits[i]
        /\ \A i \in 1 .. n : line[m + i] = frontier[i]
    BY <1>2
  <2> HIDE DEF line, m, n
  <2> SUFFICES ASSUME NEW i \in 1 .. m + n, NEW j \in 1 .. m + n, i # j
               PROVE  line[i] # line[j]
    BY <2>1 DEF Distinct, line
  <2>3. ASSUME NEW k \in 1 .. m + n, ~(k \in 1 .. m)
        PROVE  k - m \in 1 .. n /\ line[k] = frontier[k - m]
    <3>1. k - m \in 1 .. n /\ m + (k - m) = k
      BY <2>1, <2>3
    <3> QED
      BY <3>1, <2>2
  <2>4. CASE i \in 1 .. m /\ j \in 1 .. m
    BY <2>4, <2>1, <2>2, <1>1 DEF Distinct
  <2>5. CASE i \in 1 .. m /\ ~(j \in 1 .. m)
    BY <2>5, <2>1, <2>2, <2>3, <1>3 DEF m, n
  <2>6. CASE ~(i \in 1 .. m) /\ j \in 1 .. m
    BY <2>6, <2>1, <2>2, <2>3, <1>3 DEF m, n
  <2>7. CASE ~(i \in 1 .. m) /\ ~(j \in 1 .. m)
    <3>1. i - m # j - m
      BY <2>1
    <3> QED
      BY <3>1, <2>7, <2>1, <2>3, <1>1 DEF Distinct
  <2> QED
    BY <2>4, <2>5, <2>6, <2>7
<1>5. Len(Line) <= VertexCount
  BY <1>2, <1>4, DistinctFits
<1> QED
  BY <1>2, <1>4, <1>5

(* Levels of what is in the row. *)
LEMMA LineLevels ==
  ASSUME IndInv, Layered, search = "bfs"
  PROVE  /\ \A i \in 1 .. Len(Line) : /\ i - 1 \in 0 .. VertexCount
                                      /\ Line[i] \in Within[i - 1]
                                      /\ Level[Line[i]] \in 0 .. i - 1
         /\ \A i, j \in 1 .. Len(Line) : i <= j => Level[Line[i]] <= Level[Line[j]]
<1>1. Len(Line) \in Nat /\ Len(Line) <= VertexCount /\ DOMAIN Line = 1 .. Len(Line)
  BY LineFits
<1>2. VertexCount \in Nat /\ InLayers(Line)
  BY TraversalAssumption DEF Layered
<1>3. ASSUME NEW i \in 1 .. Len(Line)
      PROVE  /\ i - 1 \in 0 .. VertexCount
             /\ Line[i] \in Within[i - 1]
             /\ Level[Line[i]] \in 0 .. i - 1
  <2>1. i - 1 \in 0 .. VertexCount
    BY <1>1, <1>2
  <2>2. Line[i] \in Within[i - 1]
    BY <1>1, <1>2 DEF InLayers
  <2> QED
    BY <2>1, <2>2, LevelIsLeast
<1>4. ASSUME NEW i \in 1 .. Len(Line), NEW j \in 1 .. Len(Line), i <= j
      PROVE  Level[Line[i]] <= Level[Line[j]]
  <2>1. CASE i = j
    <3>1. Level[Line[i]] \in 0 .. i - 1
      BY <1>3
    <3> QED
      BY <3>1, <2>1
  <2>2. CASE i < j
    BY <2>2, <1>1, <1>2 DEF InLayers
  <2> QED
    BY <1>4, <2>1, <2>2
<1> QED
  BY <1>3, <1>4

LEMMA LayeredIsLayerByLayer == IndInv /\ Layered => LayerByLayer
<1> SUFFICES ASSUME IndInv, Layered, search = "bfs"
             PROVE  /\ \A i, j \in DOMAIN Line : i < j => Level[Line[i]] <= Level[Line[j]]
                    /\ \A i, j \in DOMAIN frontier : Level[frontier[j]] <= Level[frontier[i]] + 1
  BY DEF LayerByLayer, Line
<1>1. \A i, j \in DOMAIN Line : i < j => Level[Line[i]] <= Level[Line[j]]
  BY DEF Layered, InLayers
<1>2. ASSUME NEW i \in DOMAIN frontier, NEW j \in DOMAIN frontier
      PROVE  Level[frontier[j]] <= Level[frontier[i]] + 1
  <2> DEFINE m == Len(visits)
             x == Level[frontier[i]]
             y == Level[frontier[j]]
  <2>1. /\ m \in Nat /\ Len(frontier) \in Nat /\ DOMAIN frontier = 1 .. Len(frontier)
        /\ Len(Line) = m + Len(frontier)
        /\ Line[m + i] = frontier[i] /\ Line[m + j] = frontier[j]
        /\ visits \in Seq(Vertices) /\ frontier \in Seq(Vertices)
        /\ \A k \in 1 .. m : Line[k] = visits[k]
    <3>1. visits \in Seq(Vertices) /\ frontier \in Seq(Vertices)
      BY DEF IndInv, TypeOK
    <3>2. DOMAIN frontier = 1 .. Len(frontier)
      BY <3>1
    <3>3. /\ Len(Line) = m + Len(frontier)
          /\ m \in Nat /\ Len(frontier) \in Nat
          /\ \A k \in 1 .. m : Line[k] = visits[k]
          /\ \A k \in 1 .. Len(frontier) : Line[m + k] = frontier[k]
      BY LineFits
    <3> QED
      BY <3>1, <3>2, <3>3
  <2>2. m + i \in 1 .. Len(Line) /\ m + j \in 1 .. Len(Line)
    BY <2>1
  <2>3. x \in Nat /\ y \in Nat
    <3>1. Level[Line[m + i]] \in 0 .. (m + i) - 1 /\ Level[Line[m + j]] \in 0 .. (m + j) - 1
      BY <2>2, LineLevels
    <3> QED
      BY <3>1, <2>1
  <2>4. pc # "idle"
    BY <2>1 DEF Layered
  <2>5. CASE visits = <<>>
    <3>1. i = 1 /\ j = 1
      BY <2>4, <2>5, <2>1 DEF Layered
    <3> QED
      BY <3>1, <2>3
  <2>6. CASE visits # <<>>
    <3>1. m \in 1 .. Len(Line) /\ m <= m + i /\ visits[m] \in Vertices /\ Line[m] = visits[m]
      BY <2>1, <2>6
    <3>2. Level[visits[m]] <= x /\ Level[visits[m]] \in Nat
      <4>1. Level[Line[m]] <= Level[Line[m + i]] /\ Level[Line[m]] \in 0 .. m - 1
        BY <3>1, <2>2, LineLevels
      <4> QED
        BY <4>1, <3>1, <2>1
    <3>3. y <= Level[visits[m]] + 1
      BY <2>4, <2>6, <3>1 DEF Layered, Ahead, Waiting
    <3> QED
      BY <3>2, <3>3, <2>3
  <2> QED
    BY <2>5, <2>6
<1> QED
  BY <1>1, <1>2

------------------------------------------------------------------------------
(* The layers are those of the graph and the source.                       *)
LEMMA SameLayers ==
  ASSUME edges' = edges, source' = source
  PROVE  /\ Within' = Within /\ Level' = Level
         /\ \A s : InLayers(s) => InLayers(s)'
<1>1. Within' = Within
  BY DEF Within
<1>2. Level' = Level
  BY <1>1 DEF Level
<1> QED
  BY <1>1, <1>2 DEF InLayers

(* A call that ends leaves in order what it visited: that starts the row.  *)
LEMMA ReturnKeepsLayers ==
  ASSUME IndInv, Layered, IndInv', NEW result, Return(result), Starts(visits', Line)
  PROVE  Layered'
<1>1. pc' = "idle" /\ frontier' = <<>> /\ search' = search /\ edges' = edges /\ source' = source
  BY DEF Return
<1>2. visits' \in Seq(Vertices)
  BY DEF IndInv, TypeOK
<1>3. Line' = visits'
  BY <1>1, <1>2 DEF Line
<1>4. ASSUME search = "bfs" PROVE InLayers(Line)'
  <2> DEFINE v == visits'
  <2>1. Line \in Seq(Vertices) /\ InLayers(Line) /\ v \in Seq(Vertices) /\ Starts(v, Line)
    BY <1>2, <1>4, LineFits DEF Layered
  <2>2. Line' = v
    BY <1>3
  <2> HIDE DEF v
  <2>3. InLayers(v)
    BY <2>1, StartInLayers
  <2>4. Within' = Within /\ Level' = Level
    BY <1>1, SameLayers
  <2> QED
    BY <2>2, <2>3, <2>4 DEF InLayers
<1> QED
  BY <1>1, <1>4 DEF Layered

LEMMA VisitsStartLine ==
  ASSUME IndInv, Layered
  PROVE  Starts(visits, Line)
<1>1. /\ Len(Line) = Len(visits) + Len(frontier)
      /\ Len(visits) \in Nat /\ Len(frontier) \in Nat
      /\ \A i \in 1 .. Len(visits) : Line[i] = visits[i]
  BY LineFits
<1>2. DOMAIN visits = 1 .. Len(visits)
  BY DEF IndInv, TypeOK
<1> QED
  BY <1>1, <1>2 DEF Starts

LEMMA CutShortKeepsLayers ==
  ASSUME IndInv, Layered, IndInv', NEW result, Return(result), visits' = visits
  PROVE  Layered'
BY VisitsStartLine, ReturnKeepsLayers

LEMMA VisitStopsKeepsLayers ==
  ASSUME IndInv, Layered, IndInv', VisitStops
  PROVE  Layered'
<1>1. CASE search = "bfs"
  <2> DEFINE m == Len(visits)
  <2>1. /\ visits \in Seq(Vertices) /\ frontier \in Seq(Vertices) /\ frontier # <<>>
        /\ visits' = Append(visits, Head(frontier))
    BY <1>1 DEF VisitStops, IndInv, TypeOK
  <2>2. /\ Len(frontier) \in Nat \ {0} /\ Head(frontier) = frontier[1] /\ Head(frontier) \in Vertices
        /\ m \in Nat
    BY <2>1
  <2>3. /\ Len(visits') = m + 1 /\ DOMAIN visits' = 1 .. m + 1
        /\ \A i \in 1 .. m : visits'[i] = visits[i]
        /\ visits'[m + 1] = Head(frontier)
    BY <2>1, <2>2
  <2>4. /\ Len(Line) = m + Len(frontier)
        /\ \A i \in 1 .. m : Line[i] = visits[i]
        /\ \A i \in 1 .. Len(frontier) : Line[m + i] = frontier[i]
    BY LineFits
  <2> HIDE DEF m
  <2>5. Line[m + 1] = Head(frontier)
    <3>1. 1 \in 1 .. Len(frontier)
      BY <2>2
    <3> QED
      BY <3>1, <2>2, <2>4
  <2>6. Starts(visits', Line)
    <3>1. Len(visits') <= Len(Line)
      BY <2>2, <2>3, <2>4
    <3>2. ASSUME NEW i \in 1 .. m + 1 PROVE visits'[i] = Line[i]
      <4>1. i \in 1 .. m \/ i = m + 1
        BY <2>2
      <4> QED
        BY <4>1, <2>3, <2>4, <2>5
    <3> QED
      BY <3>1, <3>2, <2>3 DEF Starts
  <2>7. Return(FALSE)
    BY DEF VisitStops
  <2> QED
    BY <2>6, <2>7, ReturnKeepsLayers
<1>2. CASE search # "bfs"
  BY <1>2 DEF VisitStops, Return, Layered
<1> QED
  BY <1>1, <1>2

(* The row of a call that begins is the source alone, in layer 0. *)
LEMMA BeginKeepsLayers ==
  ASSUME NEW f, NEW s \in Vertices, Begin(f, s)
  PROVE  Layered'
<1>1. pc' = "loop" /\ visits' = <<>> /\ frontier' = <<s>> /\ source' = s
  BY DEF Begin
<1>2. Line' = <<s>>
  <2>1. <<>> \o <<s>> = <<s>>
    OBVIOUS
  <2> QED
    BY <1>1, <2>1 DEF Line
<1>3. Within'[0] = {s}
  <2>1. (Within[0] = {source})'
    BY WithinSteps, PTL
  <2> QED
    BY <2>1, <1>1
<1>4. InLayers(Line)'
  <2> DEFINE line == Line'
             w == Within'
  <2>1. DOMAIN line = {1} /\ line[1] = s /\ 1 - 1 = 0 /\ w[0] = {s}
    BY <1>2, <1>3
  <2> HIDE DEF line, w
  <2>2. /\ \A i \in DOMAIN line : line[i] \in w[i - 1]
        /\ \A i, j \in DOMAIN line : ~(i < j)
    BY <2>1
  <2> QED
    BY <2>2 DEF InLayers, line, w
<1> QED
  BY <1>1, <1>4 DEF Layered, Ahead

LEMMA BeginFailsKeepsLayers ==
  ASSUME Layered, NEW f, BeginFails(f)
  PROVE  Layered'
<1>1. pc' = "idle" /\ frontier' = <<>> /\ visits' = <<>>
  BY DEF BeginFails, Layered
<1>2. Line' = <<>>
  <2>1. <<>> \o <<>> = <<>>
    OBVIOUS
  <2> QED
    BY <1>1, <2>1 DEF Line
<1>3. InLayers(Line)'
  BY <1>2 DEF InLayers
<1> QED
  BY <1>1, <1>3 DEF Layered

LEMMA HeadMoves ==
  ASSUME NEW a \in Seq(Vertices), NEW b \in Seq(Vertices), b # <<>>
  PROVE  Append(a, Head(b)) \o Tail(b) = a \o b
OBVIOUS

(* What is visited next was the first in the frontier; when it is a level  *)
(* further than the vertex before it, that level is all marked: its        *)
(* vertices were reached from vertices that are visited.                   *)
LEMMA VisitAhead ==
  ASSUME IndInv, Layered, search = "bfs", pc = "loop", frontier # <<>>,
         NEW u, u = Head(frontier), NEW v \in Vertices, v \notin marked
  PROVE  v \notin Within[Level[u]]
<1> DEFINE m == Len(visits)
           far == Level[u]
<1>1. /\ frontier \in Seq(Vertices) /\ visits \in Seq(Vertices) /\ u = frontier[1]
      /\ DOMAIN frontier = 1 .. Len(frontier) /\ Len(frontier) \in Nat \ {0} /\ m \in Nat
      /\ \A i \in 1 .. Len(frontier) : i \in Nat
  BY DEF IndInv, TypeOK
<1>2. /\ Len(Line) = m + Len(frontier) /\ Len(Line) <= VertexCount
      /\ \A i \in 1 .. m : Line[i] = visits[i]
      /\ \A i \in 1 .. Len(frontier) : Line[m + i] = frontier[i]
  BY LineFits
<1>3. m + 1 \in 1 .. Len(Line) /\ Line[m + 1] = u
  <2>1. 1 \in 1 .. Len(frontier)
    BY <1>1
  <2> QED
    BY <2>1, <1>1, <1>2
<1>4. m \in 0 .. VertexCount /\ far \in 0 .. m /\ VertexCount \in Nat
  <2>1. Level[Line[m + 1]] \in 0 .. (m + 1) - 1
    BY <1>3, LineLevels
  <2> QED
    BY <2>1, <1>1, <1>2, <1>3, TraversalAssumption
<1> SUFFICES ASSUME v \in Within[far] PROVE FALSE
  OBVIOUS
<1>5. CASE visits = <<>>
  <2>1. m = 0 /\ u = source /\ far = 0
    BY <1>1, <1>4, <1>5 DEF Layered
  <2>2. v = source
    BY <2>1, WithinSteps
  <2> QED
    BY <2>2 DEF IndInv, FrontierSeparates
<1>6. CASE visits # <<>>
  <2> DEFINE x == visits[m]
             near == Level[x]
  <2>1. m \in 1 .. Len(Line) /\ m <= m + 1 /\ x \in Vertices /\ Line[m] = x
    BY <1>1, <1>2, <1>6
  <2>2. near \in Nat /\ near <= far
    <3>1. Level[Line[m]] \in 0 .. m - 1 /\ Level[Line[m]] <= Level[Line[m + 1]]
      BY <2>1, <1>3, LineLevels
    <3> QED
      BY <3>1, <2>1, <1>3, <1>1
  <2>3. /\ u \in Waiting
        /\ far <= near + 1
        /\ \A y \in Vertices : y \notin marked => y \notin Within[near]
    BY <1>1, <1>6, <2>1 DEF Layered, Ahead, Waiting
  <2>4. far = near + 1
    <3>1. far # near
      BY <2>3
    <3> QED
      BY <3>1, <2>2, <2>3, <1>4
  <2>5. far \in 1 .. VertexCount /\ far - 1 = near /\ near \in 0 .. VertexCount
    BY <2>2, <2>4, <1>4
  <2>6. PICK e \in edges : e[2] = v /\ e[1] \in Within[near]
    <3>1. v \in Within[far] \ Within[far - 1]
      BY <2>3, <2>5
    <3>2. \E e \in edges : e[2] = v /\ e[1] \in Within[far - 1]
      BY <3>1, <2>5, LayersJoined
    <3> QED
      BY <3>2, <2>5
  <2>7. e[1] \in Vertices /\ e[1] \in marked
    BY <2>3, <2>6, EdgeEnds DEF IndInv
  <2>8. e[1] \in Visited \/ e[1] \in Waiting
    BY <2>7 DEF IndInv, MarkedOnce
  <2>9. CASE e[1] \in Visited
    BY <2>6, <2>9 DEF IndInv, FrontierSeparates, Enumerating
  <2>10. CASE e[1] \in Waiting
    <3>1. PICK i \in 1 .. Len(frontier) : e[1] = frontier[i]
      BY <2>10, <1>1 DEF Waiting
    <3>2. m + i \in 1 .. Len(Line) /\ m + 1 <= m + i /\ Line[m + i] = e[1]
      BY <3>1, <1>1, <1>2
    <3>3. far <= Level[e[1]]
      BY <3>2, <1>3, LineLevels
    <3>4. Level[e[1]] \in 0 .. near
      BY <2>5, <2>6, LevelIsLeast
    <3> QED
      BY <3>3, <3>4, <2>4, <2>2
  <2> QED
    BY <2>8, <2>9, <2>10
<1> QED
  BY <1>5, <1>6

LEMMA VisitKeepsLayers ==
  ASSUME IndInv, Layered, NEW u \in Vertices, Visit(u)
  PROVE  Layered'
<1>1. /\ pc = "loop" /\ pc' = "expand" /\ edges' = edges /\ source' = source /\ search' = search
      /\ marked' = marked /\ frontier # <<>> /\ visits' = Append(visits, u)
  BY DEF Visit, Taken
<1>2. CASE search # "bfs"
  BY <1>1, <1>2 DEF Layered
<1>3. CASE search = "bfs"
  <2>1. /\ frontier \in Seq(Vertices) /\ visits \in Seq(Vertices)
        /\ u = Head(frontier) /\ frontier' = Tail(frontier)
    BY <1>3 DEF IndInv, TypeOK, Visit, Taken, Dequeued
  <2>2. Line' = Line
    BY <2>1, <1>1, HeadMoves DEF Line
  <2>3. Within' = Within /\ Level' = Level
    BY <1>1, SameLayers
  <2>4. InLayers(Line)'
    BY <2>2, <2>3, <1>3 DEF Layered, InLayers
  <2>5. visits' # <<>> /\ visits'[Len(visits')] = u
    BY <1>1, <2>1
  <2>6. ASSUME NEW w \in Waiting'
        PROVE  Level[w] <= Level[u] + 1
    <3>1. LayerByLayer
      BY LayeredIsLayerByLayer
    <3>2. \A i, j \in DOMAIN frontier : Level[frontier[j]] <= Level[frontier[i]] + 1
      BY <3>1, <1>3 DEF LayerByLayer
    <3>3. /\ Len(frontier) \in Nat \ {0} /\ DOMAIN frontier = 1 .. Len(frontier) /\ u = frontier[1]
          /\ DOMAIN Tail(frontier) = 1 .. Len(frontier) - 1
          /\ \A i \in 1 .. Len(frontier) - 1 : Tail(frontier)[i] = frontier[i + 1]
      BY <2>1, <1>1
    <3>4. PICK i \in 1 .. Len(frontier) - 1 : w = frontier[i + 1]
      BY <2>1, <3>3 DEF Waiting
    <3>5. 1 \in DOMAIN frontier /\ i + 1 \in DOMAIN frontier
      BY <3>3
    <3> QED
      BY <3>2, <3>3, <3>4, <3>5
  <2>7. ASSUME NEW v \in Vertices, v \notin marked
        PROVE  v \notin Within[Level[u]]
    BY <2>7, <2>1, <1>1, <1>3, VisitAhead
  <2>8. Ahead'
    BY <2>3, <2>5, <2>6, <2>7, <1>1 DEF Ahead
  <2> QED
    BY <2>4, <2>5, <2>8, <1>1 DEF Layered
<1> QED
  BY <1>2, <1>3

LEMMA LastMoves ==
  ASSUME NEW a \in Seq(Vertices), NEW b \in Seq(Vertices), NEW v \in Vertices
  PROVE  a \o Append(b, v) = Append(a \o b, v)
OBVIOUS

(* A neighbor that is marked for the first time is one level further than  *)
(* the vertex it was reached from.                                         *)
LEMMA PutKeepsLayers ==
  ASSUME IndInv, Layered, NEW v \in Vertices, Put(v)
  PROVE  Layered'
<1>1. /\ pc = "expand" /\ pc' = pc /\ edges' = edges /\ source' = source /\ search' = search
      /\ v \in pending /\ v \notin marked /\ marked' = marked \cup {v}
      /\ visits' = visits /\ frontier' = Append(frontier, v)
  BY DEF Put
<1>2. CASE search # "bfs"
  BY <1>1, <1>2 DEF Layered
<1>3. CASE search = "bfs"
  <2> DEFINE m == Len(visits)
             k == Len(Line)
             u == visits[m]
             near == Level[u]
  <2>1. /\ visits # <<>> /\ visits \in Seq(Vertices) /\ frontier \in Seq(Vertices)
        /\ m \in Nat \ {0} /\ u \in Vertices /\ pending \subseteq Neighbors(u)
    BY <1>1 DEF IndInv, TypeOK, Enumerating
  <2>2. /\ Line \in Seq(Vertices) /\ k = m + Len(frontier) /\ Len(frontier) \in Nat /\ k <= VertexCount
        /\ Line[m] = u
        /\ \A i \in 1 .. Len(frontier) : Line[m + i] = frontier[i]
    <3>1. m \in 1 .. m
      BY <2>1
    <3> QED
      BY <3>1, <2>1, LineFits
  <2>3. VertexCount \in Nat /\ k \in Nat /\ m \in 1 .. k /\ m \in 0 .. VertexCount /\ k \in 0 .. VertexCount
    BY <2>1, <2>2, TraversalAssumption
  <2>4. near \in 0 .. m - 1 /\ u \in Within[m - 1]
    BY <2>2, <2>3, <1>3, LineLevels
  <2>5. near + 1 \in 1 .. VertexCount /\ (near + 1) - 1 = near /\ near + 1 <= k
        /\ near + 1 \in 0 .. VertexCount /\ near \in 0 .. VertexCount /\ m - 1 \in 0 .. VertexCount
    BY <2>3, <2>4
  <2>6. v \in Within[near + 1]
    <3>1. u \in Within[near]
      BY <2>4, <2>5, LevelIsLeast
    <3>2. <<u, v>> \in edges
      BY <2>1, <1>1, EdgeEnds DEF IndInv
    <3>3. <<u, v>>[1] = u /\ <<u, v>>[2] = v
      OBVIOUS
    <3>4. \A e \in edges : e[1] \in Within[near] => e[2] \in Within[near + 1]
      BY <2>5, LayersJoined
    <3> QED
      BY <3>1, <3>2, <3>3, <3>4
  <2>7. v \in Within[k]
    BY <2>3, <2>5, <2>6, WithinGrows
  <2>8. v \notin Within[near] /\ \A w \in Waiting : Level[w] <= near + 1
    BY <2>1, <1>1, <1>3 DEF Layered, Ahead
  <2>9. Level[v] = near + 1
    <3>1. Level[v] \in 0 .. near + 1 /\ v \in Within[Level[v]]
      BY <2>5, <2>6, LevelIsLeast
    <3>2. ASSUME Level[v] <= near PROVE FALSE
      <4>1. Level[v] \in 0 .. VertexCount
        BY <3>1, <3>2, <2>3, <2>4
      <4>2. Within[Level[v]] \subseteq Within[near]
        BY <4>1, <3>2, <2>5, WithinGrows
      <4> QED
        BY <4>2, <3>1, <2>8
    <3> QED
      BY <3>1, <3>2, <2>4
  <2>10. ASSUME NEW i \in 1 .. k PROVE Level[Line[i]] <= near + 1
    <3>1. CASE i <= m
      <4>1. Level[Line[i]] <= Level[Line[m]] /\ Level[Line[i]] \in 0 .. i - 1
        BY <3>1, <2>3, <1>3, LineLevels
      <4> QED
        BY <4>1, <2>2, <2>4
    <3>2. CASE ~(i <= m)
      <4>1. i - m \in 1 .. Len(frontier) /\ m + (i - m) = i
        BY <3>2, <2>1, <2>2
      <4>2. Line[i] = frontier[i - m]
        BY <4>1, <2>2
      <4>3. DOMAIN frontier = 1 .. Len(frontier)
        BY <2>1
      <4>4. Line[i] \in Waiting
        BY <4>1, <4>2, <4>3 DEF Waiting
      <4> QED
        BY <4>4, <2>8
    <3> QED
      BY <3>1, <3>2
  <2>11. Line' = Append(Line, v)
    BY <2>1, <1>1, LastMoves DEF Line
  <2>12. Within' = Within /\ Level' = Level
    BY <1>1, SameLayers
  <2>13. InLayers(Line)'
    <3> DEFINE line == Line
               next == Append(line, v)
    <3>1. /\ DOMAIN next = 1 .. k + 1 /\ next[k + 1] = v /\ DOMAIN line = 1 .. k
          /\ \A i \in 1 .. k : next[i] = line[i]
      BY <2>2, <2>3
    <3>2. InLayers(line)
      BY <1>3 DEF Layered
    <3>3. \A i \in 1 .. k : Level[line[i]] <= Level[v]
      BY <2>9, <2>10
    <3>4. Line' = next
      BY <2>11
    <3>5. v \in Within[k]
      BY <2>7
    <3> HIDE DEF line, next, k
    <3>6. k \in Nat
      BY <2>3
    <3>7. ASSUME NEW i \in 1 .. k + 1 PROVE next[i] \in Within[i - 1]
      <4>1. i \in 1 .. k \/ (i = k + 1 /\ i - 1 = k)
        BY <3>6
      <4> QED
        BY <4>1, <3>1, <3>2, <3>5 DEF InLayers
    <3>8. ASSUME NEW i \in 1 .. k + 1, NEW j \in 1 .. k + 1, i < j
          PROVE  Level[next[i]] <= Level[next[j]]
      <4>1. i \in 1 .. k /\ (j \in 1 .. k \/ j = k + 1)
        BY <3>6, <3>8
      <4>2. CASE j \in 1 .. k
        BY <4>1, <4>2, <3>8, <3>1, <3>2 DEF InLayers
      <4>3. CASE j = k + 1
        BY <4>1, <4>3, <3>1, <3>3
      <4> QED
        BY <4>1, <4>2, <4>3
    <3> QED
      BY <3>1, <3>4, <3>7, <3>8, <2>12 DEF InLayers
  <2>14. ASSUME NEW w \in Waiting' PROVE Level[w] <= near + 1
    <3>1. /\ DOMAIN frontier' = 1 .. Len(frontier) + 1 /\ DOMAIN frontier = 1 .. Len(frontier)
          /\ \A i \in 1 .. Len(frontier) : frontier'[i] = frontier[i]
          /\ frontier'[Len(frontier) + 1] = v
      BY <2>1, <1>1
    <3>2. PICK i \in DOMAIN frontier' : w = frontier'[i]
      BY DEF Waiting
    <3>3. i \in 1 .. Len(frontier) \/ i = Len(frontier) + 1
      BY <3>1, <2>2
    <3>4. w \in Waiting \/ w = v
      BY <3>1, <3>2, <3>3 DEF Waiting
    <3>5. near + 1 <= near + 1
      BY <2>4
    <3> QED
      BY <3>4, <3>5, <2>8, <2>9
  <2>15. Ahead'
    <3>1. visits'[Len(visits')] = u
      BY <1>1
    <3>2. \A y \in Vertices : y \notin marked' => y \notin Within[near]
      BY <2>1, <1>1, <1>3 DEF Layered, Ahead
    <3> QED
      BY <3>1, <3>2, <2>12, <2>14 DEF Ahead
  <2> QED
    BY <2>1, <2>13, <2>15, <1>1 DEF Layered
<1> QED
  BY <1>2, <1>3

LEMMA SameKeepsLayers ==
  ASSUME Layered, pc # "idle" => pc' # "idle", pc = "idle" => pc' = "idle",
         UNCHANGED <<edges, search, source, marked, frontier, visits>>
  PROVE  Layered'
<1>1. Line' = Line /\ Waiting' = Waiting
  BY DEF Line, Waiting
<1>2. Within' = Within /\ Level' = Level
  BY SameLayers
<1>3. search = "bfs" => InLayers(Line)'
  BY <1>1, <1>2 DEF Layered, InLayers
<1>4. Ahead => Ahead'
  BY <1>1, <1>2 DEF Ahead
<1> QED
  BY <1>3, <1>4 DEF Layered

LEMMA InitLayered == Init => Layered
<1> SUFFICES ASSUME Init PROVE Layered
  OBVIOUS
<1>1. Line = <<>>
  <2>1. <<>> \o <<>> = <<>>
    OBVIOUS
  <2> QED
    BY <2>1 DEF Init, Line
<1>2. InLayers(Line)
  BY <1>1 DEF InLayers
<1> QED
  BY <1>2 DEF Init, Layered

LEMMA AlwaysLayered == Spec => []Layered
<1>1. ASSUME IndInv, IndInv', Layered, [Next]_vars
      PROVE  Layered'
  <2>1. CASE UNCHANGED vars
    BY <1>1, <2>1, SameKeepsLayers DEF vars
  <2>2. ASSUME NEW f \in Searches, BeginFails(f) PROVE Layered'
    BY <1>1, <2>2, BeginFailsKeepsLayers
  <2>3. ASSUME NEW f \in Searches, NEW s \in Vertices, Begin(f, s) PROVE Layered'
    BY <2>3, BeginKeepsLayers
  <2>4. CASE Finish
    BY <1>1, <2>4, CutShortKeepsLayers DEF Finish
  <2>5. CASE VisitStops
    BY <1>1, <2>5, VisitStopsKeepsLayers
  <2>6. CASE ViewFails
    BY <1>1, <2>6, CutShortKeepsLayers DEF ViewFails
  <2>7. CASE Expanded
    BY <1>1, <2>7, SameKeepsLayers DEF Expanded
  <2>8. ASSUME NEW u \in Vertices, Visit(u) PROVE Layered'
    BY <1>1, <2>8, VisitKeepsLayers
  <2>9. ASSUME NEW u \in Vertices, Put(u) PROVE Layered'
    BY <1>1, <2>9, PutKeepsLayers
  <2>10. ASSUME NEW u \in Vertices, Skip(u) PROVE Layered'
    BY <1>1, <2>10, SameKeepsLayers DEF Skip
  <2>11. ASSUME NEW u \in Vertices, PutFails(u) PROVE Layered'
    BY <1>1, <2>11, CutShortKeepsLayers DEF PutFails
  <2> QED
    BY <1>1, <2>1, <2>2, <2>3, <2>4, <2>5, <2>6, <2>7, <2>8, <2>9, <2>10, <2>11
    DEF Next, Turn
<1> QED
  BY Inductive, InitLayered, <1>1, PTL DEF Spec

(* breadth_first_search.c visits the vertices in order of their distance   *)
(* from the source, and the queue spans at most two distances.             *)
THEOREM LayersInOrder == Spec => []LayerByLayer
BY Inductive, AlwaysLayered, LayeredIsLayerByLayer, PTL

------------------------------------------------------------------------------
spanVars == Span!vars

(* An instance has copies of its own of what it extends; they are equal. *)
LEMMA SpanCardinality == \A S : Span!Cardinality(S) = Cardinality(S)
BY DEF Span!Cardinality, Cardinality

(* Edges a graph of these vertices may have. *)
SpanLinks == [from : Span!Vertices, to : Span!Vertices, weight : 0 .. WeightMax]

------------------------------------------------------------------------------
(* The groups that a set of edges joins the vertices into. *)
LEMMA SpanComponentHolds ==
  ASSUME NEW es, es \subseteq SpanLinks, NEW v \in Span!Vertices
  PROVE  v \in Span!Component(es, v) /\ Span!Component(es, v) \in Span!Closed(es)
<1>1. v \in Span!Component(es, v) /\ Span!Component(es, v) \subseteq Span!Vertices
  BY DEF Span!Component, Span!Closed
<1>2. ASSUME NEW e \in es
      PROVE  e.from \in Span!Component(es, v) <=> e.to \in Span!Component(es, v)
  <2>1. e.from \in Span!Vertices /\ e.to \in Span!Vertices
    BY DEF SpanLinks
  <2>2. \A S \in Span!Closed(es) : e.from \in S <=> e.to \in S
    BY DEF Span!Closed
  <2> QED
    BY <2>1, <2>2 DEF Span!Component
<1> QED
  BY <1>1, <1>2 DEF Span!Closed

LEMMA SpanComponentLeast ==
  ASSUME NEW es, NEW v, NEW S \in Span!Closed(es), v \in S
  PROVE  Span!Component(es, v) \subseteq S
BY DEF Span!Component

(* All vertices of a group have the same group. *)
LEMMA SpanComponentOf ==
  ASSUME NEW es, es \subseteq SpanLinks, NEW v \in Span!Vertices, NEW u \in Span!Component(es, v)
  PROVE  u \in Span!Vertices /\ Span!Component(es, u) = Span!Component(es, v)
<1>1. u \in Span!Vertices
  BY DEF Span!Component
<1>2. Span!Component(es, u) \subseteq Span!Component(es, v)
  BY SpanComponentHolds, SpanComponentLeast
<1>3. v \in Span!Component(es, u)
  <2> DEFINE R == Span!Vertices \ Span!Component(es, u)
  <2>1. ASSUME v \notin Span!Component(es, u) PROVE FALSE
    <3>1. u \in Span!Component(es, u) /\ Span!Component(es, u) \in Span!Closed(es)
      BY <1>1, SpanComponentHolds
    <3>2. R \in Span!Closed(es)
      <4>1. ASSUME NEW e \in es PROVE e.from \in R <=> e.to \in R
        <5>1. e.from \in Span!Vertices /\ e.to \in Span!Vertices
          BY DEF SpanLinks
        <5> QED
          BY <3>1, <5>1 DEF Span!Closed
      <4> QED
        BY <4>1 DEF Span!Closed
    <3>3. v \in R
      BY <2>1
    <3>4. Span!Component(es, v) \subseteq R
      BY <3>2, <3>3, SpanComponentLeast
    <3> QED
      BY <3>1, <3>4
  <2> QED
    BY <2>1
<1>4. Span!Component(es, v) \subseteq Span!Component(es, u)
  BY <1>1, <1>3, SpanComponentHolds, SpanComponentLeast
<1> QED
  BY <1>1, <1>2, <1>4

LEMMA SpanGroupsAreApart ==
  ASSUME NEW es, es \subseteq SpanLinks, NEW A \in Span!Components(es), NEW v \in A
  PROVE  v \in Span!Vertices /\ A = Span!Component(es, v)
<1>1. PICK u \in Span!Vertices : A = Span!Component(es, u)
  BY DEF Span!Components
<1> QED
  BY <1>1, SpanComponentOf

(* One more edge joins the groups of its ends and no others. *)
LEMMA SpanComponentJoined ==
  ASSUME NEW es, es \subseteq SpanLinks, NEW e \in SpanLinks, NEW v \in Span!Vertices
  PROVE  LET A == Span!Component(es, e.from)
             B == Span!Component(es, e.to)
         IN  Span!Component(es \cup {e}, v) =
               IF v \in A \cup B THEN A \cup B ELSE Span!Component(es, v)
<1> DEFINE A == Span!Component(es, e.from)
           B == Span!Component(es, e.to)
           fs == es \cup {e}
<1>1. e.from \in Span!Vertices /\ e.to \in Span!Vertices /\ fs \subseteq SpanLinks
  BY DEF SpanLinks
<1>2. A \in Span!Closed(es) /\ B \in Span!Closed(es) /\ e.from \in A /\ e.to \in B
  BY <1>1, SpanComponentHolds
<1>3. \A S \in Span!Closed(fs) : S \in Span!Closed(es)
  BY DEF Span!Closed
<1>4. CASE v \in A \cup B
  <2>1. A \cup B \in Span!Closed(fs)
    BY <1>2 DEF Span!Closed
  <2>2. Span!Component(fs, v) \subseteq A \cup B
    BY <1>4, <2>1, SpanComponentLeast
  <2>3. ASSUME NEW S \in Span!Closed(fs), v \in S
        PROVE  A \cup B \subseteq S
    <3>1. S \in Span!Closed(es) /\ (e.from \in S <=> e.to \in S)
      BY <1>3 DEF Span!Closed
    <3>2. e.from \in S \/ e.to \in S
      <4>1. CASE v \in A
        <5>1. A = Span!Component(es, v)
          BY <1>1, <4>1, SpanComponentOf
        <5> QED
          BY <1>2, <2>3, <3>1, <5>1, SpanComponentLeast
      <4>2. CASE v \in B
        <5>1. B = Span!Component(es, v)
          BY <1>1, <4>2, SpanComponentOf
        <5> QED
          BY <1>2, <2>3, <3>1, <5>1, SpanComponentLeast
      <4> QED
        BY <1>4, <4>1, <4>2
    <3>3. A \subseteq S /\ B \subseteq S
      BY <3>1, <3>2, SpanComponentLeast
    <3> QED
      BY <3>3
  <2>4. A \cup B \subseteq Span!Component(fs, v)
    <3>1. v \in Span!Component(fs, v) /\ Span!Component(fs, v) \in Span!Closed(fs)
      BY <1>1, SpanComponentHolds
    <3> QED
      BY <2>3, <3>1
  <2> QED
    BY <1>4, <2>2, <2>4
<1>5. CASE v \notin A \cup B
  <2>1. v \in Span!Component(es, v) /\ Span!Component(es, v) \in Span!Closed(es)
    BY SpanComponentHolds
  <2>2. e.from \notin Span!Component(es, v) /\ e.to \notin Span!Component(es, v)
    <3>1. \A u \in Span!Component(es, v) : Span!Component(es, u) = Span!Component(es, v)
      BY SpanComponentOf
    <3> QED
      BY <1>5, <2>1, <3>1
  <2>3. Span!Component(es, v) \in Span!Closed(fs)
    BY <2>1, <2>2 DEF Span!Closed
  <2>4. Span!Component(fs, v) \subseteq Span!Component(es, v)
    BY <2>1, <2>3, SpanComponentLeast
  <2>5. v \in Span!Component(fs, v) /\ Span!Component(fs, v) \in Span!Closed(fs)
    BY <1>1, SpanComponentHolds
  <2>6. Span!Component(es, v) \subseteq Span!Component(fs, v)
    BY <1>3, <2>5, SpanComponentLeast
  <2> QED
    BY <1>5, <2>4, <2>6
<1> QED
  BY <1>4, <1>5

LEMMA SpanComponentsJoined ==
  ASSUME NEW es, es \subseteq SpanLinks, NEW e \in SpanLinks
  PROVE  LET A == Span!Component(es, e.from)
             B == Span!Component(es, e.to)
         IN  /\ A \in Span!Components(es) /\ B \in Span!Components(es)
             /\ Span!Components(es \cup {e}) = (Span!Components(es) \ {A, B}) \cup {A \cup B}
             /\ A # B => A \cup B \notin Span!Components(es)
<1> DEFINE A == Span!Component(es, e.from)
           B == Span!Component(es, e.to)
           fs == es \cup {e}
<1>1. e.from \in Span!Vertices /\ e.to \in Span!Vertices /\ fs \subseteq SpanLinks
  BY DEF SpanLinks
<1>2. e.from \in A /\ e.to \in B /\ A \subseteq Span!Vertices /\ B \subseteq Span!Vertices
  BY <1>1, SpanComponentHolds DEF Span!Closed
<1>3. A \in Span!Components(es) /\ B \in Span!Components(es)
  BY <1>1 DEF Span!Components
<1>4. \A v \in Span!Vertices : Span!Component(fs, v)
        = IF v \in A \cup B THEN A \cup B ELSE Span!Component(es, v)
  BY SpanComponentJoined
<1>5. \A v \in Span!Vertices : v \in A \cup B <=> Span!Component(es, v) \in {A, B}
  BY <1>1, SpanComponentOf, SpanComponentHolds
<1>6. Span!Components(fs) = (Span!Components(es) \ {A, B}) \cup {A \cup B}
  <2>1. ASSUME NEW X \in Span!Components(fs)
        PROVE  X \in (Span!Components(es) \ {A, B}) \cup {A \cup B}
    <3>1. PICK v \in Span!Vertices : X = Span!Component(fs, v)
      BY DEF Span!Components
    <3> QED
      BY <1>4, <1>5, <3>1 DEF Span!Components
  <2>2. A \cup B \in Span!Components(fs)
    BY <1>1, <1>2, <1>4 DEF Span!Components
  <2>3. ASSUME NEW X \in Span!Components(es) \ {A, B}
        PROVE  X \in Span!Components(fs)
    <3>1. PICK v \in Span!Vertices : X = Span!Component(es, v)
      BY DEF Span!Components
    <3> QED
      BY <1>4, <1>5, <3>1 DEF Span!Components
  <2> QED
    BY <2>1, <2>2, <2>3
<1>7. A # B => A \cup B \notin Span!Components(es)
  <2>1. ASSUME A \cup B \in Span!Components(es) PROVE A = B
    BY <1>2, <2>1, SpanGroupsAreApart
  <2> QED
    BY <2>1
<1> QED
  BY <1>3, <1>6, <1>7

------------------------------------------------------------------------------
(* How many groups there are. *)
LEMMA SpanVertexConstants ==
  /\ VertexCount \in Nat /\ VertexCount >= 2 /\ WeightMax \in Nat
  /\ 0 \in Span!Vertices /\ Span!Vertices \subseteq Nat
  /\ IsFiniteSet(Span!Vertices) /\ Span!Cardinality(Span!Vertices) = VertexCount
<1>1. VertexCount \in Nat /\ VertexCount >= 2 /\ WeightMax \in Nat
  BY SpanAssumption DEF Span!KruskalAssumption
<1>2. 0 \in Int /\ VertexCount - 1 \in Int
  BY <1>1
<1>3. IsFiniteSet(0 .. VertexCount - 1) /\ Span!Cardinality(0 .. VertexCount - 1) = VertexCount
  BY <1>1, <1>2, FS_Interval, SpanCardinality
<1> QED
  BY <1>1, <1>3 DEF Span!Vertices

LEMMA SpanComponentsFinite ==
  ASSUME NEW es
  PROVE  IsFiniteSet(Span!Components(es)) /\ Span!Cardinality(Span!Components(es)) \in Nat
<1> DEFINE f == [v \in Span!Vertices |-> Span!Component(es, v)]
<1>1. f \in Surjection(Span!Vertices, Span!Components(es))
  BY DEF Surjection, Span!Components
<1>2. IsFiniteSet(Span!Components(es))
  BY <1>1, SpanVertexConstants, FS_Surjection, SpanCardinality
<1> QED
  BY <1>2, FS_CardinalityType, SpanCardinality

LEMMA SpanOneFewer ==
  ASSUME NEW es, es \subseteq SpanLinks, NEW e \in SpanLinks
  PROVE  Span!Cardinality(Span!Components(es \cup {e})) =
           IF Span!Component(es, e.from) = Span!Component(es, e.to)
           THEN Span!Cardinality(Span!Components(es)) ELSE Span!Cardinality(Span!Components(es)) - 1
<1> DEFINE A == Span!Component(es, e.from)
           B == Span!Component(es, e.to)
           P == Span!Components(es)
           Q == P \ {A}
           R == Q \ {B}
<1>1. /\ A \in P /\ B \in P /\ Span!Components(es \cup {e}) = (P \ {A, B}) \cup {A \cup B}
      /\ A # B => A \cup B \notin P
  BY SpanComponentsJoined
<1>2. IsFiniteSet(P) /\ Span!Cardinality(P) \in Nat
  BY SpanComponentsFinite
<1> HIDE DEF A, B, P
<1>3. CASE A = B
  <2>1. A \cup B = A /\ A \in P
    BY <1>1, <1>3
  <2>2. (P \ {A, B}) \cup {A} = P
    BY <1>3, <2>1
  <2>3. Span!Components(es \cup {e}) = P
    BY <1>1, <2>1, <2>2
  <2> QED
    BY <1>3, <2>3 DEF A, B, P
<1>4. CASE A # B
  <2>1. IsFiniteSet(Q) /\ Span!Cardinality(Q) = Span!Cardinality(P) - 1
    BY <1>1, <1>2, FS_RemoveElement, SpanCardinality
  <2>2. IsFiniteSet(R) /\ Span!Cardinality(R) = Span!Cardinality(P) - 1 - 1
    BY <1>1, <1>2, <1>4, <2>1, FS_RemoveElement, SpanCardinality
  <2>3. A \cup B \notin R /\ Span!Components(es \cup {e}) = R \cup {A \cup B}
    BY <1>1, <1>4
  <2>4. Span!Cardinality(R \cup {A \cup B}) = Span!Cardinality(R) + 1
    BY <2>2, <2>3, FS_AddElement, SpanCardinality
  <2>5. Span!Cardinality(P) - 1 - 1 + 1 = Span!Cardinality(P) - 1
    BY <1>2
  <2>6. Span!Cardinality(Span!Components(es \cup {e})) = Span!Cardinality(P) - 1
    BY <2>2, <2>3, <2>4, <2>5
  <2> QED
    BY <1>4, <2>6 DEF A, B, P
<1> QED
  BY <1>3, <1>4

LEMMA SpanNoEdgesNoGroups ==
  Span!Components({}) = {{v} : v \in Span!Vertices}
  /\ Span!Cardinality(Span!Components({})) = VertexCount
<1>1. \A v \in Span!Vertices : Span!Component({}, v) = {v}
  <2>1. ASSUME NEW v \in Span!Vertices PROVE Span!Component({}, v) = {v}
    <3>1. {v} \in Span!Closed({})
      BY DEF Span!Closed
    <3>2. v \in Span!Component({}, v)
      BY SpanComponentHolds
    <3> QED
      BY <3>1, <3>2, SpanComponentLeast
  <2> QED
    BY <2>1
<1>2. Span!Components({}) = {{v} : v \in Span!Vertices}
  BY <1>1 DEF Span!Components
<1> DEFINE f == [v \in Span!Vertices |-> {v}]
<1>3. f \in Injection(Span!Vertices, Span!Components({}))
      /\ f \in Surjection(Span!Vertices, Span!Components({}))
  BY <1>2 DEF Injection, Surjection, IsInjective
<1>4. Span!Cardinality(Span!Components({})) = Span!Cardinality(Span!Vertices)
  BY <1>3, SpanVertexConstants, FS_Surjection, SpanCardinality
<1> QED
  BY <1>2, <1>4, SpanVertexConstants

(* More edges make fewer groups, at most one for each edge. *)
LEMMA SpanFewerGroups ==
  ASSUME NEW fs, fs \subseteq SpanLinks, IsFiniteSet(fs), NEW es \in SUBSET fs
  PROVE  /\ Span!Cardinality(Span!Components(fs)) <= Span!Cardinality(Span!Components(es))
         /\ Span!Cardinality(Span!Components(es))
              <= Span!Cardinality(Span!Components(fs)) + Span!Cardinality(fs \ es)
<1> DEFINE C(gs) == Span!Cardinality(Span!Components(gs))
           Bounds(gs) == C(fs) <= C(gs) /\ C(gs) <= C(fs) + Span!Cardinality(fs \ gs)
           S == {k \in Nat : \A gs \in SUBSET fs : Span!Cardinality(fs \ gs) = k => Bounds(gs)}
<1>1. \A gs : C(gs) \in Nat
  BY SpanComponentsFinite
<1>2. \A gs \in SUBSET fs : IsFiniteSet(fs \ gs) /\ Span!Cardinality(fs \ gs) \in Nat
  <2>1. ASSUME NEW gs \in SUBSET fs
        PROVE  IsFiniteSet(fs \ gs) /\ Span!Cardinality(fs \ gs) \in Nat
    <3>1. IsFiniteSet(fs \ gs)
      BY FS_Difference, SpanCardinality
    <3> QED
      BY <3>1, FS_CardinalityType, SpanCardinality
  <2> QED
    BY <2>1
<1>3. 0 \in S
  <2>1. ASSUME NEW gs \in SUBSET fs, Span!Cardinality(fs \ gs) = 0
        PROVE  Bounds(gs)
    <3>1. fs \ gs = {}
      BY <1>2, <2>1, FS_EmptySet, SpanCardinality
    <3>2. gs = fs
      BY <3>1
    <3> QED
      BY <1>1, <2>1, <3>2
  <2> QED
    BY <2>1
<1> HIDE DEF C
<1>4. ASSUME NEW c \in Nat, NEW k \in 1 .. c, k - 1 \in S
      PROVE  k \in S
  <2>1. ASSUME NEW gs \in SUBSET fs, Span!Cardinality(fs \ gs) = k
        PROVE  Bounds(gs)
    <3>1. PICK e : e \in fs \ gs
      <4>1. fs \ gs # {}
        BY <2>1, FS_EmptySet, SpanCardinality
      <4> QED
        BY <4>1
    <3> DEFINE hs == gs \cup {e}
    <3>2. hs \in SUBSET fs /\ fs \ hs = (fs \ gs) \ {e} /\ gs \subseteq SpanLinks
          /\ e \in SpanLinks
      BY <3>1
    <3>3. Span!Cardinality((fs \ gs) \ {e}) = k - 1
      BY <1>2, <2>1, <3>1, FS_RemoveElement, SpanCardinality
    <3>4. Bounds(hs)
      BY <1>4, <3>2, <3>3
    <3>5. C(hs) = C(gs) \/ C(hs) = C(gs) - 1
      BY <3>2, SpanOneFewer DEF C
    <3>6. C(fs) <= C(hs) /\ C(hs) <= C(fs) + (k - 1)
      BY <3>2, <3>3, <3>4
    <3> HIDE DEF hs
    <3> QED
      BY <1>1, <2>1, <3>5, <3>6
  <2> QED
    BY <2>1
<1>5. Span!Cardinality(fs \ es) \in S
  <2> DEFINE c == Span!Cardinality(fs \ es)
  <2>1. c \in Nat /\ c \in 0 .. c
    BY <1>2
  <2> HIDE DEF S, c
  <2>2. \A k \in 1 .. c : k - 1 \in S => k \in S
    BY <1>4, <2>1
  <2> QED
    BY <1>3, <2>1, <2>2, Upward DEF c
<1> QED
  BY <1>5 DEF C

------------------------------------------------------------------------------
(* Weights as numbers of slices. *)
SpanSlices(es) == {u \in es \X (0 .. WeightMax) : u[2] < u[1].weight}
SpanAbove(es, t) == {e \in es : e.weight > t}
SpanUpTo(es, t) == {e \in es : e.weight <= t}

LEMMA SpanSlicesFinite ==
  ASSUME NEW es, IsFiniteSet(es)
  PROVE  IsFiniteSet(SpanSlices(es)) /\ Span!WeightOfAll(es) = Span!Cardinality(SpanSlices(es))
         /\ Span!WeightOfAll(es) \in Nat
<1>1. IsFiniteSet(0 .. WeightMax)
  <2>1. 0 \in Int /\ WeightMax \in Int
    BY SpanVertexConstants
  <2> QED
    BY <2>1, FS_Interval, SpanCardinality
<1>2. IsFiniteSet(es \X (0 .. WeightMax))
  BY <1>1, FS_Product, SpanCardinality
<1>3. SpanSlices(es) \in SUBSET (es \X (0 .. WeightMax))
  BY DEF SpanSlices
<1>4. IsFiniteSet(SpanSlices(es))
  BY <1>2, <1>3, FS_Subset, SpanCardinality
<1>5. Span!WeightOfAll(es) = Span!Cardinality(SpanSlices(es))
  BY DEF Span!WeightOfAll, SpanSlices
<1> QED
  BY <1>4, <1>5, FS_CardinalityType, SpanCardinality

LEMMA SpanWeightOfNone == Span!WeightOfAll({}) = 0
<1>1. SpanSlices({}) = {}
  BY DEF SpanSlices
<1> QED
  BY <1>1, SpanSlicesFinite, FS_EmptySet, SpanCardinality

LEMMA SpanWeightOfMore ==
  ASSUME NEW es, IsFiniteSet(es), es \subseteq SpanLinks, NEW e \in SpanLinks, e \notin es
  PROVE  Span!WeightOfAll(es \cup {e}) = Span!WeightOfAll(es) + e.weight
<1> DEFINE f == [t \in 0 .. e.weight - 1 |-> <<e, t>>]
<1>1. e.weight \in 0 .. WeightMax /\ WeightMax \in Nat
  BY SpanVertexConstants DEF SpanLinks
<1>2. f \in Injection(0 .. e.weight - 1, SpanSlices({e}))
      /\ f \in Surjection(0 .. e.weight - 1, SpanSlices({e}))
  <2>1. \A t \in 0 .. e.weight - 1 : f[t] \in SpanSlices({e})
    BY <1>1 DEF SpanSlices
  <2>2. ASSUME NEW u \in SpanSlices({e}) PROVE \E t \in 0 .. e.weight - 1 : f[t] = u
    <3>1. u[1] = e /\ u[2] \in 0 .. e.weight - 1 /\ u = <<u[1], u[2]>>
      BY <1>1 DEF SpanSlices
    <3> QED
      BY <3>1
  <2> QED
    BY <2>1, <2>2 DEF Injection, Surjection, IsInjective
<1>3. IsFiniteSet(0 .. e.weight - 1) /\ Span!Cardinality(0 .. e.weight - 1) = e.weight
  <2>1. 0 \in Int /\ e.weight - 1 \in Int /\ e.weight \in Nat
    BY <1>1
  <2>2. /\ IsFiniteSet(0 .. e.weight - 1)
        /\ Span!Cardinality(0 .. e.weight - 1)
             = IF 0 > e.weight - 1 THEN 0 ELSE (e.weight - 1) - 0 + 1
    BY <2>1, FS_Interval, SpanCardinality
  <2>3. (IF 0 > e.weight - 1 THEN 0 ELSE (e.weight - 1) - 0 + 1) = e.weight
    BY <2>1
  <2> QED
    BY <2>2, <2>3
<1>4. IsFiniteSet(SpanSlices({e})) /\ Span!Cardinality(SpanSlices({e})) = e.weight
  BY <1>2, <1>3, FS_Surjection, SpanCardinality
<1>5. SpanSlices(es \cup {e}) = SpanSlices(es) \cup SpanSlices({e})
      /\ SpanSlices(es) \cap SpanSlices({e}) = {}
  BY DEF SpanSlices
<1>6. IsFiniteSet(SpanSlices(es)) /\ Span!Cardinality(SpanSlices(es)) \in Nat
      /\ Span!WeightOfAll(es) = Span!Cardinality(SpanSlices(es))
  BY SpanSlicesFinite
<1>7. IsFiniteSet(es \cup {e})
  BY FS_AddElement, SpanCardinality
<1>8. Span!Cardinality(SpanSlices(es \cup {e}))
        = Span!Cardinality(SpanSlices(es)) + e.weight - Span!Cardinality({})
  BY <1>4, <1>5, <1>6, FS_Union, SpanCardinality
<1> QED
  BY <1>1, <1>6, <1>7, <1>8, SpanSlicesFinite, FS_EmptySet, SpanCardinality

LEMMA SpanFewerInject ==
  ASSUME NEW S, NEW T, IsFiniteSet(S), IsFiniteSet(T), Span!Cardinality(S) <= Span!Cardinality(T)
  PROVE  \E f : f \in Injection(S, T)
<1> DEFINE m == Span!Cardinality(S)
           n == Span!Cardinality(T)
<1>1. m \in Nat /\ n \in Nat /\ ExistsBijection(1 .. m, S) /\ ExistsBijection(1 .. n, T)
  BY FS_CardinalityType, SpanCardinality
<1>2. m <= n
  OBVIOUS
<1> HIDE DEF m, n
<1>3. PICK g : g \in Bijection(1 .. m, S)
  BY <1>1 DEF ExistsBijection
<1>4. PICK h : h \in Bijection(1 .. n, T)
  BY <1>1 DEF ExistsBijection
<1> DEFINE at(x) == CHOOSE i \in 1 .. m : g[i] = x
           f == [x \in S |-> h[at(x)]]
<1>5. \A x \in S : at(x) \in 1 .. m /\ g[at(x)] = x
  BY <1>3 DEF Bijection, Surjection
<1>6. \A x \in S : at(x) \in 1 .. n
  BY <1>1, <1>2, <1>5
<1> HIDE DEF at
<1>7. /\ h \in [1 .. n -> T]
      /\ \A i, j \in 1 .. n : h[i] = h[j] => i = j
  BY <1>4 DEF Bijection, Injection, IsInjective
<1>8. f \in [S -> T] /\ \A x \in S : f[x] = h[at(x)]
  BY <1>6, <1>7
<1> HIDE DEF f
<1>9. ASSUME NEW x \in S, NEW y \in S, f[x] = f[y] PROVE x = y
  BY <1>5, <1>6, <1>7, <1>8, <1>9
<1> QED
  BY <1>8, <1>9 DEF Injection, IsInjective

(* Fewer edges above every weight: less weight. *)
LEMMA SpanLighterByCount ==
  ASSUME NEW es, IsFiniteSet(es), NEW fs, IsFiniteSet(fs),
         \A t \in 0 .. WeightMax : Span!Cardinality(SpanAbove(es, t))
           <= Span!Cardinality(SpanAbove(fs, t))
  PROVE  Span!WeightOfAll(es) <= Span!WeightOfAll(fs)
<1>1. \A t \in 0 .. WeightMax : \E f : f \in Injection(SpanAbove(es, t), SpanAbove(fs, t))
  <2>1. ASSUME NEW t \in 0 .. WeightMax
        PROVE  \E f : f \in Injection(SpanAbove(es, t), SpanAbove(fs, t))
    <3>1. IsFiniteSet(SpanAbove(es, t)) /\ IsFiniteSet(SpanAbove(fs, t))
      BY FS_Subset, SpanCardinality DEF SpanAbove
    <3> QED
      BY <3>1, SpanFewerInject
  <2> QED
    BY <2>1
<1> DEFINE into(t) == CHOOSE f : f \in Injection(SpanAbove(es, t), SpanAbove(fs, t))
           J == [u \in SpanSlices(es) |-> <<into(u[2])[u[1]], u[2]>>]
<1>2. \A t \in 0 .. WeightMax : into(t) \in Injection(SpanAbove(es, t), SpanAbove(fs, t))
  BY <1>1
<1> HIDE DEF into
<1>3. \A t \in 0 .. WeightMax : \A e \in SpanAbove(es, t) : into(t)[e] \in SpanAbove(fs, t)
  BY <1>2 DEF Injection
<1>4. \A t \in 0 .. WeightMax : \A e, d \in SpanAbove(es, t) : into(t)[e] = into(t)[d] => e = d
  BY <1>2 DEF Injection, IsInjective
<1>5. ASSUME NEW u \in SpanSlices(es)
      PROVE  /\ u[2] \in 0 .. WeightMax /\ u[1] \in SpanAbove(es, u[2]) /\ u = <<u[1], u[2]>>
             /\ J[u] \in SpanSlices(fs)
  <2>1. u[2] \in 0 .. WeightMax /\ u[1] \in es /\ u[2] < u[1].weight /\ u = <<u[1], u[2]>>
    BY DEF SpanSlices
  <2>2. u[1] \in SpanAbove(es, u[2])
    BY <2>1 DEF SpanAbove
  <2>3. into(u[2])[u[1]] \in fs /\ into(u[2])[u[1]].weight > u[2]
    BY <1>3, <2>1, <2>2 DEF SpanAbove
  <2> QED
    BY <2>1, <2>2, <2>3 DEF SpanSlices
<1>6. ASSUME NEW u \in SpanSlices(es), NEW w \in SpanSlices(es), J[u] = J[w]
      PROVE  u = w
  <2>1. u[2] = w[2] /\ into(u[2])[u[1]] = into(w[2])[w[1]]
    BY <1>6
  <2>2. u[1] = w[1]
    BY <1>4, <1>5, <2>1
  <2> QED
    BY <1>5, <2>1, <2>2
<1>7. J \in Injection(SpanSlices(es), SpanSlices(fs))
  <2>1. J \in [SpanSlices(es) -> SpanSlices(fs)]
    BY <1>5
  <2> HIDE DEF J
  <2> QED
    BY <1>6, <2>1 DEF Injection, IsInjective
<1>8. Span!Cardinality(SpanSlices(es)) <= Span!Cardinality(SpanSlices(fs))
  BY <1>7, SpanSlicesFinite, FS_Injection, SpanCardinality
<1> QED
  BY <1>8, SpanSlicesFinite

------------------------------------------------------------------------------
LEMMA SpanAboveAndUpTo ==
  ASSUME NEW es, es \subseteq SpanLinks, NEW t \in 0 .. WeightMax
  PROVE  es \ SpanUpTo(es, t) = SpanAbove(es, t) /\ es \cap SpanUpTo(es, t) = SpanUpTo(es, t)
<1>1. \A e \in es : e.weight \in 0 .. WeightMax
  BY DEF SpanLinks
<1>2. WeightMax \in Nat
  BY SpanVertexConstants
<1>3. \A e \in es : e.weight > t <=> ~(e.weight <= t)
  BY <1>1, <1>2
<1> QED
  BY <1>3 DEF SpanUpTo, SpanAbove

(* A forest that joins, below each weight it exceeds, what can be joined,  *)
(* is no heavier than any set of edges that joins all.                     *)
LEMMA SpanNoneLighter ==
  ASSUME NEW G, G \subseteq SpanLinks, IsFiniteSet(G),
         NEW T \in SUBSET G, NEW F \in SUBSET G, Span!Components(F) = Span!Components(G),
         Span!Cardinality(T) = VertexCount - Span!Cardinality(Span!Components(T)),
         \A t \in 0 .. WeightMax :
           SpanAbove(T, t) = {}
           \/ Span!Components(SpanUpTo(T, t)) = Span!Components(SpanUpTo(G, t))
  PROVE  Span!WeightOfAll(T) <= Span!WeightOfAll(F)
<1> DEFINE C(gs) == Span!Cardinality(Span!Components(gs))
<1>1. \A gs \in SUBSET G : IsFiniteSet(gs) /\ Span!Cardinality(gs) \in Nat
      /\ gs \subseteq SpanLinks
  BY FS_Subset, FS_CardinalityType, SpanCardinality
<1>2. \A gs : C(gs) \in Nat
  BY SpanComponentsFinite
<1>3. C({}) = VertexCount /\ VertexCount \in Nat
  BY SpanNoEdgesNoGroups, SpanVertexConstants
<1>4. \A hs \in SUBSET G : \A gs \in SUBSET hs :
        C(hs) <= C(gs) /\ C(gs) <= C(hs) + Span!Cardinality(hs \ gs)
  BY <1>1, SpanFewerGroups
<1>5. C(F) = C(G) /\ Span!Cardinality(T) = VertexCount - C(T)
  OBVIOUS
<1> HIDE DEF C
<1>6. ASSUME NEW t \in 0 .. WeightMax
      PROVE  Span!Cardinality(SpanAbove(T, t)) <= Span!Cardinality(SpanAbove(F, t))
  <2>1. /\ SpanUpTo(T, t) \in SUBSET G /\ SpanUpTo(F, t) \in SUBSET SpanUpTo(G, t)
           /\ SpanUpTo(G, t) \in SUBSET G
        /\ SpanUpTo(T, t) \in SUBSET T /\ SpanUpTo(F, t) \in SUBSET F
           /\ {} \in SUBSET SpanUpTo(T, t)
        /\ SpanAbove(T, t) \in SUBSET G /\ SpanAbove(F, t) \in SUBSET G
           /\ SpanUpTo(T, t) \ {} = SpanUpTo(T, t)
    BY DEF SpanUpTo, SpanAbove
  <2>2. /\ T \ SpanUpTo(T, t) = SpanAbove(T, t) /\ T \cap SpanUpTo(T, t) = SpanUpTo(T, t)
        /\ F \ SpanUpTo(F, t) = SpanAbove(F, t)
    BY <1>1, SpanAboveAndUpTo
  <2> DEFINE a == Span!Cardinality(SpanAbove(T, t))
             b == Span!Cardinality(SpanAbove(F, t))
             u == Span!Cardinality(SpanUpTo(T, t))
  <2>3. a \in Nat /\ b \in Nat /\ u \in Nat
    BY <1>1, <2>1
  <2>4. CASE SpanAbove(T, t) = {}
    <3>1. a = 0
      BY <2>4, FS_EmptySet, SpanCardinality
    <3> QED
      BY <2>3, <3>1
  <2>5. CASE Span!Components(SpanUpTo(T, t)) = Span!Components(SpanUpTo(G, t))
    <3>1. C(SpanUpTo(T, t)) = C(SpanUpTo(G, t))
      BY <2>5 DEF C
    <3>2. VertexCount <= C(SpanUpTo(T, t)) + u
      BY <1>3, <1>4, <2>1
    <3>3. a = Span!Cardinality(T) - u
      <4>1. IsFiniteSet(T)
        BY <1>1
      <4>2. Span!Cardinality(T \ SpanUpTo(T, t))
              = Span!Cardinality(T) - Span!Cardinality(T \cap SpanUpTo(T, t))
        BY <4>1, FS_Difference, SpanCardinality
      <4> QED
        BY <2>2, <4>2
    <3>4. C(SpanUpTo(G, t)) <= C(SpanUpTo(F, t))
      BY <1>4, <2>1
    <3>5. C(SpanUpTo(F, t)) <= C(F) + b
      BY <1>4, <2>1, <2>2
    <3>6. C(G) <= C(T)
      BY <1>4
    <3> HIDE DEF a, b, u
    <3>7. /\ C(SpanUpTo(T, t)) \in Nat /\ C(SpanUpTo(G, t)) \in Nat /\ C(SpanUpTo(F, t)) \in Nat
          /\ C(F) \in Nat /\ C(G) \in Nat /\ C(T) \in Nat
      BY <1>2
    <3>8. a <= b
      BY <1>3, <1>5, <2>3, <3>1, <3>2, <3>3, <3>4, <3>5, <3>6, <3>7
    <3> QED
      BY <3>8 DEF a, b
  <2> QED
    BY <2>4, <2>5
<1> QED
  BY <1>1, <1>6, SpanLighterByCount

(* One more edge that joins two groups keeps a forest. *)
LEMMA SpanForestGrows ==
  ASSUME NEW T, T \subseteq SpanLinks, IsFiniteSet(T), NEW e \in SpanLinks,
         Span!Cardinality(T) = VertexCount - Span!Cardinality(Span!Components(T)),
         Span!Component(T, e.from) # Span!Component(T, e.to)
  PROVE  /\ e \notin T /\ IsFiniteSet(T \cup {e})
         /\ Span!Cardinality(T \cup {e}) = Span!Cardinality(T) + 1
         /\ Span!Cardinality(T \cup {e})
              = VertexCount - Span!Cardinality(Span!Components(T \cup {e}))
<1>1. e \notin T
  <2>1. ASSUME e \in T PROVE Span!Component(T, e.from) = Span!Component(T, e.to)
    <3>1. e.from \in Span!Vertices /\ e.to \in Span!Vertices
      BY DEF SpanLinks
    <3>2. e.from \in Span!Component(T, e.from) /\ Span!Component(T, e.from) \in Span!Closed(T)
      BY <3>1, SpanComponentHolds
    <3>3. e.to \in Span!Component(T, e.from)
      BY <2>1, <3>2 DEF Span!Closed
    <3> QED
      BY <3>1, <3>3, SpanComponentOf
  <2> QED
    BY <2>1
<1>2. IsFiniteSet(T \cup {e}) /\ Span!Cardinality(T \cup {e}) = Span!Cardinality(T) + 1
  BY <1>1, FS_AddElement, SpanCardinality
<1>3. Span!Cardinality(Span!Components(T \cup {e})) = Span!Cardinality(Span!Components(T)) - 1
  BY SpanOneFewer
<1>4. Span!Cardinality(T) \in Nat /\ Span!Cardinality(Span!Components(T)) \in Nat
      /\ VertexCount \in Nat
  BY SpanComponentsFinite, FS_CardinalityType, SpanVertexConstants, SpanCardinality
<1> QED
  BY <1>1, <1>2, <1>3, <1>4

------------------------------------------------------------------------------
(* The graph that is lent, and the order of its edges. *)
SpanLent == weight \in [Span!Pairs -> Weights \cup {NoEdge}]

LEMMA SpanEdgeFacts ==
  ASSUME SpanLent
  PROVE  /\ Span!AllEdges \subseteq SpanLinks /\ IsFiniteSet(Span!AllEdges)
            /\ IsFiniteSet(Span!Edges)
         /\ \A p \in Span!Edges : p \in Span!Pairs /\ Span!Edge(p) \in Span!AllEdges
         /\ \A p, q \in Span!Edges : Span!Edge(p) = Span!Edge(q) => p = q
<1>1. ASSUME NEW p \in Span!Edges
      PROVE  /\ p \in Span!Pairs /\ Span!Edge(p) \in Span!AllEdges /\ Span!Edge(p) \in SpanLinks
             /\ p = <<Span!Edge(p).from, Span!Edge(p).to>>
  <2>1. p \in Span!Pairs /\ weight[p] \in Weights
    BY <1>1 DEF Span!Edges, SpanLent
  <2>2. weight[p] \in 0 .. WeightMax
    BY <2>1, SpanAssumption DEF Span!KruskalAssumption
  <2> QED
    BY <2>1, <2>2 DEF Span!Edge, SpanLinks, Span!Pairs, Span!AllEdges
<1>2. Span!AllEdges \subseteq SpanLinks
  BY <1>1 DEF Span!AllEdges
<1>3. IsFiniteSet(Span!Edges)
  <2>1. IsFiniteSet(Span!Vertices \X Span!Vertices)
    BY SpanVertexConstants, FS_Product, SpanCardinality
  <2>2. Span!Edges \in SUBSET (Span!Vertices \X Span!Vertices)
    BY DEF Span!Edges, Span!Pairs
  <2> QED
    BY <2>1, <2>2, FS_Subset, SpanCardinality
<1> DEFINE f == [p \in Span!Edges |-> Span!Edge(p)]
<1>4. f \in Surjection(Span!Edges, Span!AllEdges)
  BY DEF Surjection, Span!AllEdges
<1>5. IsFiniteSet(Span!AllEdges)
  BY <1>3, <1>4, FS_Surjection, SpanCardinality
<1>6. ASSUME NEW p \in Span!Edges, NEW q \in Span!Edges, Span!Edge(p) = Span!Edge(q) PROVE p = q
  BY <1>1, <1>6
<1> QED
  BY <1>1, <1>2, <1>3, <1>5, <1>6

(* kruskal_quick_sort_compare puts any two edges in one order. *)
LEMMA SpanBeforeIsOrder ==
  ASSUME NEW d \in SpanLinks, NEW e \in SpanLinks
  PROVE  /\ ~Span!Before(e, e) /\ (Span!Before(d, e) => ~Span!Before(e, d))
         /\ d = e \/ Span!Before(d, e) \/ Span!Before(e, d)
         /\ Span!Before(d, e) => d.weight <= e.weight
         /\ \A f \in SpanLinks : Span!Before(d, e) /\ Span!Before(e, f) => Span!Before(d, f)
<1>1. \A g \in SpanLinks : g.from \in Nat /\ g.to \in Nat /\ g.weight \in Nat
  <2>1. \A g \in SpanLinks : g.from \in Span!Vertices /\ g.to \in Span!Vertices
        /\ g.weight \in 0 .. WeightMax
    BY DEF SpanLinks
  <2>2. \A w \in 0 .. WeightMax : w \in Nat
    BY SpanVertexConstants
  <2> QED
    BY <2>1, <2>2, SpanVertexConstants
<1>2. d.from = e.from /\ d.to = e.to /\ d.weight = e.weight => d = e
  BY DEF SpanLinks
<1>3. ~Span!Before(e, e) /\ (Span!Before(d, e) => ~Span!Before(e, d))
      /\ (Span!Before(d, e) => d.weight <= e.weight)
  BY <1>1 DEF Span!Before
<1>4. d = e \/ Span!Before(d, e) \/ Span!Before(e, d)
  BY <1>1, <1>2 DEF Span!Before
<1>5. \A f \in SpanLinks : Span!Before(d, e) /\ Span!Before(e, f) => Span!Before(d, f)
  BY <1>1 DEF Span!Before
<1> QED
  BY <1>3, <1>4, <1>5

SpanDistinct == \A i, j \in DOMAIN candidates : candidates[i] = candidates[j] => i = j

(* The sort is one: all candidates, each once, in order. *)
LEMMA SpanSortedFacts ==
  ASSUME SpanLent, candidates \in Seq(Span!AllEdges), SpanDistinct
  PROVE  /\ Span!Sorted \in Seq(Span!AllEdges) /\ Len(Span!Sorted) = Len(candidates)
         /\ Span!RangeOf(Span!Sorted) = Span!RangeOf(candidates)
         /\ \A i, j \in 1 .. Len(Span!Sorted) : i < j
            => Span!Before(Span!Sorted[i], Span!Sorted[j])
<1> DEFINE n == Len(candidates)
           D == 1 .. n
           R == Span!RangeOf(candidates)
           Bf(e) == {i \in D : Span!Before(candidates[i], e)}
           place == [j \in D |-> Span!PlaceOf(candidates[j])]
<1>1. n \in Nat /\ DOMAIN candidates = D /\ R \subseteq Span!AllEdges
      /\ Span!AllEdges \subseteq SpanLinks
  BY SpanEdgeFacts DEF Span!RangeOf
<1>2. IsFiniteSet(D) /\ Span!Cardinality(D) = n
  <2>1. 1 \in Int /\ n \in Int
    BY <1>1
  <2>2. IsFiniteSet(1 .. n) /\ Span!Cardinality(1 .. n) = IF 1 > n THEN 0 ELSE n - 1 + 1
    BY <2>1, FS_Interval, SpanCardinality
  <2>3. (IF 1 > n THEN 0 ELSE n - 1 + 1) = n
    BY <1>1
  <2> QED
    BY <2>2, <2>3
<1>3. \A e \in R : \E k \in D : candidates[k] = e
  BY <1>1 DEF Span!RangeOf
<1>4. \A k \in D : candidates[k] \in R /\ candidates[k] \in SpanLinks
  BY <1>1 DEF Span!RangeOf
<1>5. \A e : Span!PlaceOf(e) = Span!Cardinality(Bf(e)) + 1
  BY <1>1 DEF Span!PlaceOf
<1>6. \A e : IsFiniteSet(Bf(e)) /\ Span!Cardinality(Bf(e)) \in Nat
  <2>1. ASSUME NEW e PROVE IsFiniteSet(Bf(e)) /\ Span!Cardinality(Bf(e)) \in Nat
    <3>1. Bf(e) \in SUBSET D
      OBVIOUS
    <3>2. IsFiniteSet(Bf(e))
      BY <1>2, <3>1, FS_Subset, SpanCardinality
    <3> QED
      BY <3>2, FS_CardinalityType, SpanCardinality
  <2> QED
    BY <2>1
<1>7. ASSUME NEW d \in R, NEW e \in R, Span!Before(d, e)
      PROVE  Span!PlaceOf(d) < Span!PlaceOf(e)
  <2>1. d \in SpanLinks /\ e \in SpanLinks
    BY <1>1
  <2>2. PICK k \in D : candidates[k] = d
    BY <1>3
  <2>3. Bf(d) \subseteq Bf(e)
    BY <1>4, <1>7, <2>1, SpanBeforeIsOrder
  <2>4. k \in Bf(e) /\ k \notin Bf(d)
    BY <1>7, <2>1, <2>2, SpanBeforeIsOrder
  <2>5. Span!Cardinality(Bf(d)) <= Span!Cardinality(Bf(e))
        /\ Span!Cardinality(Bf(d)) # Span!Cardinality(Bf(e))
    BY <1>6, <2>3, <2>4, FS_Subset, SpanCardinality
  <2> HIDE DEF Bf
  <2> QED
    BY <1>5, <1>6, <2>5
<1>8. ASSUME NEW e \in R PROVE Span!PlaceOf(e) \in D
  <2>1. PICK k \in D : candidates[k] = e
    BY <1>3
  <2>2. e \in SpanLinks
    BY <1>1
  <2>3. k \notin Bf(e)
    BY <2>1, <2>2, SpanBeforeIsOrder
  <2>4. Span!Cardinality(Bf(e)) <= n /\ Span!Cardinality(Bf(e)) # n
    BY <1>2, <2>1, <2>3, FS_Subset, SpanCardinality
  <2> HIDE DEF Bf
  <2> QED
    BY <1>1, <1>5, <1>6, <2>4
<1> HIDE DEF Bf
<1>9. ASSUME NEW d \in R, NEW e \in R, Span!PlaceOf(d) = Span!PlaceOf(e) PROVE d = e
  <2>1. d \in SpanLinks /\ e \in SpanLinks
    BY <1>1
  <2>2. ~Span!Before(d, e) /\ ~Span!Before(e, d)
    <3>1. Span!PlaceOf(d) \in D /\ Span!PlaceOf(e) \in D
      BY <1>8
    <3> QED
      BY <1>7, <1>9, <3>1
  <2> QED
    BY <2>1, <2>2, SpanBeforeIsOrder
<1>10. place \in Injection(D, D)
  <2>1. place \in [D -> D]
    BY <1>4, <1>8
  <2>2. ASSUME NEW i \in D, NEW j \in D, place[i] = place[j] PROVE i = j
    <3>1. candidates[i] = candidates[j]
      BY <1>4, <1>9, <2>2
    <3> QED
      BY <1>1, <3>1 DEF SpanDistinct
  <2> QED
    BY <2>1, <2>2 DEF Injection, IsInjective
<1>11. place \in Surjection(D, D)
  BY <1>2, <1>10, FS_Injection, SpanCardinality
<1>12. ASSUME NEW i \in D PROVE Span!Sorted[i] \in R /\ Span!PlaceOf(Span!Sorted[i]) = i
  <2>1. \E j \in D : place[j] = i
    BY <1>11 DEF Surjection
  <2>2. \E e \in R : Span!PlaceOf(e) = i
    BY <1>4, <2>1
  <2>3. Span!Sorted[i] = CHOOSE e \in R : Span!PlaceOf(e) = i
    BY <1>1 DEF Span!Sorted
  <2> QED
    BY <2>2, <2>3
<1>13. DOMAIN Span!Sorted = D
  BY <1>1 DEF Span!Sorted
<1>14. Span!Sorted \in Seq(Span!AllEdges) /\ Len(Span!Sorted) = n
  <2>1. Span!Sorted \in [1 .. n -> Span!AllEdges]
    BY <1>1, <1>12, <1>13 DEF Span!Sorted
  <2> QED
    BY <1>1, <2>1
<1>15. Span!RangeOf(Span!Sorted) = R
  <2>1. \A e \in R : Span!Sorted[Span!PlaceOf(e)] = e
    BY <1>8, <1>9, <1>12
  <2> QED
    BY <1>8, <1>12, <1>13, <2>1 DEF Span!RangeOf
<1>16. ASSUME NEW i \in D, NEW j \in D, i < j PROVE Span!Before(Span!Sorted[i], Span!Sorted[j])
  <2>1. Span!Sorted[i] \in R /\ Span!Sorted[j] \in R /\ Span!PlaceOf(Span!Sorted[i]) = i
        /\ Span!PlaceOf(Span!Sorted[j]) = j
    BY <1>12
  <2>2. Span!Sorted[i] \in SpanLinks /\ Span!Sorted[j] \in SpanLinks /\ i # j /\ ~(j < i)
    BY <1>1, <1>16, <2>1
  <2>3. Span!Sorted[i] # Span!Sorted[j]
    BY <2>1, <2>2
  <2>4. ~Span!Before(Span!Sorted[j], Span!Sorted[i])
    BY <1>7, <2>1, <2>2
  <2> QED
    BY <2>2, <2>3, <2>4, SpanBeforeIsOrder
<1> QED
  BY <1>14, <1>15, <1>16

------------------------------------------------------------------------------
(* The inductive invariant. *)
SpanChosen == {sorted[i] : i \in 1 .. selected_count}
SpanUnread == {sorted[i] : i \in index + 1 .. Len(sorted)}

SpanTyped ==
  /\ SpanLent /\ out_capacity \in Nat /\ from \in Span!Vertices /\ pending \subseteq Span!Vertices
  /\ candidates \in Seq(Span!AllEdges) /\ Len(candidates) <= candidate_capacity
  /\ candidate_capacity \in Nat /\ candidate_capacity <= SizeMax \div EdgeSize
  /\ sorted \in Seq(Span!AllEdges) /\ index \in 0 .. Len(sorted) /\ selected_count \in 0 .. index
  /\ total_weight \in 0 .. WeightMax /\ blocks \in Nat /\ ok \in BOOLEAN
  /\ pc \in {"idle", "collect", "select", "done"}

(* The blocks a call that runs has allocated. *)
SpanHeld == 1 + (IF candidate_capacity = 0 THEN 0 ELSE 1) + (IF sorted = <<>> THEN 0 ELSE 1)

SpanMemory ==
  /\ pc \in {"idle", "done"} => blocks = 0
  /\ pc \in {"collect", "select"} => blocks = SpanHeld

(* Before the sort nothing is selected. *)
SpanUnstarted ==
  /\ pc \in {"idle", "collect"} =>
       /\ sorted = <<>> /\ index = 0 /\ selected_count = 0 /\ total_weight = 0
       /\ groups = Span!Components({})
  /\ pc = "idle" => from = 0 /\ candidates = <<>> /\ candidate_capacity = 0

(* The edges that were enumerated from their lower end. *)
SpanEnumerated == {p \in Span!Edges : p[1] < from \/ (p[1] = from /\ p[2] \notin pending)}

SpanCollecting ==
  /\ SpanDistinct
  /\ pc = "collect" => /\ pending \subseteq Span!Neighbors(from)
                       /\ Span!RangeOf(candidates) = {Span!Edge(p) : p \in SpanEnumerated}

(* The selected edges are a forest over the groups, with the total weight. *)
SpanForest ==
  /\ Span!Components(SpanChosen) = groups
  /\ Span!Cardinality(SpanChosen) = selected_count
  /\ selected_count = VertexCount - Span!Cardinality(groups)
  /\ total_weight = Span!WeightOfAll(SpanChosen)

(* What is not read yet is as it was sorted, and comes after all that was. *)
SpanCopied ==
  /\ Span!RangeOf(candidates) = Span!AllEdges /\ sorted # <<>> /\ Len(sorted) = Len(candidates)
  /\ \A i \in index + 1 .. Len(sorted) : sorted[i] = Span!Sorted[i]

SpanInOrder ==
  /\ \A i, j \in 1 .. selected_count : i < j => Span!Before(sorted[i], sorted[j])
  /\ \A i, j \in index + 1 .. Len(sorted) : i < j => Span!Before(sorted[i], sorted[j])
  /\ SpanChosen \subseteq Span!AllEdges \ SpanUnread
  /\ \A d \in Span!AllEdges \ SpanUnread : \A e \in SpanUnread : Span!Before(d, e)

(* Up to every weight the selected edges join what those read join. *)
SpanJoinsAll ==
  \A t \in 0 .. WeightMax :
    Span!Components(SpanUpTo(SpanChosen, t))
      = Span!Components(SpanUpTo(Span!AllEdges \ SpanUnread, t))

SpanReading == pc = "select" => SpanCopied /\ SpanInOrder /\ SpanJoinsAll

SpanIndInv ==
  /\ SpanTyped /\ SpanMemory /\ SpanUnstarted /\ SpanCollecting /\ SpanForest /\ SpanReading
     /\ Span!LeastForest

------------------------------------------------------------------------------
LEMMA SpanChosenFacts ==
  ASSUME SpanTyped
  PROVE  /\ Span!RangeOf(Span!Selected) = SpanChosen /\ Len(Span!Selected) = selected_count
         /\ \A i \in 1 .. selected_count : Span!Selected[i] = sorted[i]
         /\ DOMAIN Span!Selected = 1 .. selected_count
         /\ SpanChosen \subseteq Span!AllEdges /\ SpanUnread \subseteq Span!AllEdges
         /\ Span!AllEdges \subseteq SpanLinks /\ IsFiniteSet(Span!AllEdges)
            /\ IsFiniteSet(SpanChosen)
<1>1. sorted \in Seq(Span!AllEdges) /\ selected_count \in 0 .. Len(sorted)
      /\ index \in 0 .. Len(sorted)
  BY DEF SpanTyped
<1>2. /\ Len(Span!Selected) = selected_count /\ DOMAIN Span!Selected = 1 .. selected_count
      /\ \A i \in 1 .. selected_count : Span!Selected[i] = sorted[i]
  BY <1>1 DEF Span!Selected
<1>3. Span!RangeOf(Span!Selected) = SpanChosen
  BY <1>2 DEF Span!RangeOf, SpanChosen
<1>4. SpanChosen \subseteq Span!AllEdges /\ SpanUnread \subseteq Span!AllEdges
  BY <1>1 DEF SpanChosen, SpanUnread
<1>5. Span!AllEdges \subseteq SpanLinks /\ IsFiniteSet(Span!AllEdges)
  BY SpanEdgeFacts DEF SpanTyped
<1>6. IsFiniteSet(SpanChosen)
  BY <1>4, <1>5, FS_Subset, SpanCardinality
<1> QED
  BY <1>2, <1>3, <1>4, <1>5, <1>6

LEMMA SpanInitIndInv == Span!Init => SpanIndInv
<1> SUFFICES ASSUME Span!Init PROVE SpanIndInv
  OBVIOUS
<1>1. /\ SpanLent /\ out_capacity \in Nat /\ from = 0 /\ from \in Span!Vertices /\ pending = {}
      /\ candidates = <<>> /\ candidate_capacity = 0 /\ sorted = <<>> /\ index = 0
      /\ selected_count = 0 /\ total_weight = 0 /\ blocks = 0 /\ pc = "idle" /\ ok = FALSE
      /\ groups = {{v} : v \in Span!Vertices}
  BY SpanVertexConstants, SpanAssumption DEF Span!Init, SpanLent, Span!KruskalAssumption
<1>2. groups = Span!Components({}) /\ Span!Cardinality(groups) = VertexCount
      /\ VertexCount \in Nat
  BY <1>1, SpanNoEdgesNoGroups, SpanVertexConstants
<1>3. /\ SizeMax \div EdgeSize \in Nat /\ WeightMax \in Nat
  BY SpanAssumption DEF Span!KruskalAssumption, Span!SizeAssumption
<1>4. SpanTyped
  <2>1. candidates \in Seq(Span!AllEdges) /\ sorted \in Seq(Span!AllEdges) /\ Len(candidates) = 0
        /\ Len(sorted) = 0
    BY <1>1
  <2>2. index \in 0 .. Len(sorted) /\ selected_count \in 0 .. index
        /\ total_weight \in 0 .. WeightMax
    BY <1>1, <1>3, <2>1
  <2>3. candidate_capacity \in Nat /\ candidate_capacity <= SizeMax \div EdgeSize
        /\ blocks \in Nat
    BY <1>1, <1>3
  <2>4. ok \in BOOLEAN /\ pc \in {"idle", "collect", "select", "done"}
        /\ pending \subseteq Span!Vertices
    BY <1>1
  <2>5. Len(candidates) <= candidate_capacity
    BY <1>1, <2>1
  <2> QED
    BY <1>1, <2>1, <2>2, <2>3, <2>4, <2>5, Zenon DEF SpanTyped
<1>5. SpanChosen = {}
  BY <1>1 DEF SpanChosen
<1>6. Span!Cardinality(SpanChosen) = 0 /\ Span!WeightOfAll(SpanChosen) = 0
  BY <1>5, SpanWeightOfNone, FS_EmptySet, SpanCardinality
<1>7. SpanForest
  BY <1>1, <1>2, <1>5, <1>6 DEF SpanForest
<1>8. SpanMemory /\ SpanUnstarted /\ SpanReading /\ Span!LeastForest
  BY <1>1, <1>2 DEF SpanMemory, SpanUnstarted, SpanReading, Span!LeastForest
<1>9. SpanCollecting
  BY <1>1 DEF SpanCollecting, SpanDistinct
<1> QED
  BY <1>4, <1>7, <1>8, <1>9 DEF SpanIndInv

LEMMA SpanIndInvImplies == SpanIndInv /\ Span!OutputIsLast => Span!WellFormed /\ Span!LeastForest
<1> SUFFICES ASSUME SpanIndInv, Span!OutputIsLast PROVE Span!WellFormed /\ Span!LeastForest
  OBVIOUS
<1>1. SpanTyped /\ SpanMemory /\ SpanForest /\ SpanReading /\ Span!LeastForest
  BY DEF SpanIndInv
<1>2. Span!RangeOf(Span!Selected) = SpanChosen
  BY <1>1, SpanChosenFacts
<1>3. Span!TypeOK
  <2>1. Span!RangeOf(candidates) \subseteq Span!AllEdges
        /\ Span!RangeOf(sorted) \subseteq Span!AllEdges
    BY <1>1 DEF SpanTyped, Span!RangeOf
  <2> QED
    BY <1>1, <2>1 DEF SpanTyped, Span!TypeOK
<1>4. Span!ForestSoFar
  <2>1. pc = "select" => selected_count <= index
    BY <1>1 DEF SpanTyped
  <2> QED
    BY <1>1, <1>2, <2>1 DEF Span!ForestSoFar, SpanForest, SpanReading, SpanCopied
<1>5. Span!NothingLeaks
  BY <1>1 DEF Span!NothingLeaks, SpanMemory
<1> QED
  BY <1>1, <1>3, <1>4, <1>5 DEF Span!WellFormed

------------------------------------------------------------------------------
(* The ways out. *)
LEMMA SpanLeavingStep ==
  ASSUME SpanIndInv, UNCHANGED <<weight, out_capacity, Span!locals>>, blocks' = 0, pc' = "done",
         ok' \in BOOLEAN, Span!LeastForest'
  PROVE  SpanIndInv'
<1>1. /\ SpanTyped /\ SpanUnstarted /\ SpanCollecting /\ SpanForest
      /\ UNCHANGED <<weight, out_capacity, from, pending, candidates, candidate_capacity, sorted,
                     index, selected_count, total_weight, groups>>
  BY DEF SpanIndInv, Span!locals
<1>2. Span!AllEdges' = Span!AllEdges /\ SpanChosen' = SpanChosen
  BY <1>1 DEF Span!AllEdges, Span!Edges, Span!Edge, SpanChosen
<1>3. SpanTyped'
  BY <1>1, <1>2 DEF SpanTyped, SpanLent
<1>4. SpanMemory' /\ SpanUnstarted' /\ SpanReading'
  BY DEF SpanMemory, SpanUnstarted, SpanReading
<1>5. SpanCollecting'
  BY <1>1 DEF SpanCollecting, SpanDistinct
<1>6. SpanForest'
  BY <1>1, <1>2 DEF SpanForest
<1> QED
  BY <1>3, <1>4, <1>5, <1>6 DEF SpanIndInv

LEMMA SpanStutterStep ==
  ASSUME SpanIndInv, UNCHANGED spanVars
  PROVE  SpanIndInv'
<1>1. /\ SpanTyped /\ SpanMemory /\ SpanUnstarted /\ SpanCollecting /\ SpanForest /\ SpanReading
         /\ Span!LeastForest
      /\ UNCHANGED <<weight, out_capacity, from, pending, candidates, candidate_capacity, sorted,
                     index, selected_count, total_weight, groups, out, blocks, pc, ok>>
  BY DEF SpanIndInv, spanVars, Span!vars, Span!locals
<1>2. /\ Span!AllEdges' = Span!AllEdges /\ Span!Edges' = Span!Edges /\ SpanChosen' = SpanChosen
         /\ SpanUnread' = SpanUnread /\ Span!Sorted' = Span!Sorted
      /\ Span!Spanning' = Span!Spanning
  BY <1>1
     DEF Span!AllEdges, Span!Edges, Span!Edge, SpanChosen, SpanUnread, Span!Sorted, Span!PlaceOf,
         Span!Spanning
<1>3. SpanTyped' /\ SpanMemory' /\ SpanUnstarted' /\ SpanForest'
  BY <1>1, <1>2 DEF SpanTyped, SpanLent, SpanMemory, SpanHeld, SpanUnstarted, SpanForest
<1>4. SpanCollecting'
  BY <1>1, <1>2 DEF SpanCollecting, SpanDistinct, SpanEnumerated, Span!Neighbors, Span!Edge
<1>5. SpanReading'
  BY <1>1, <1>2 DEF SpanReading, SpanCopied, SpanInOrder, SpanJoinsAll
<1>6. Span!LeastForest'
  BY <1>1, <1>2 DEF Span!LeastForest, Span!LeastWeight
<1> QED
  BY <1>3, <1>4, <1>5, <1>6 DEF SpanIndInv

LEMMA SpanReturnFrees ==
  ASSUME SpanIndInv, pc \in {"collect", "select"}, NEW result \in BOOLEAN,
         Span!Return(result, blocks)
  PROVE  /\ UNCHANGED <<weight, out_capacity, Span!locals>> /\ blocks' = 0 /\ pc' = "done"
         /\ ok' = result
<1>1. blocks = SpanHeld /\ SpanHeld \in Nat
  BY DEF SpanIndInv, SpanMemory, SpanHeld
<1>2. blocks' = blocks - SpanHeld
  BY DEF Span!Return, SpanHeld
<1> QED
  BY <1>1, <1>2 DEF Span!Return

LEMMA SpanFailingStep ==
  ASSUME SpanIndInv, Span!Refuse \/ Span!CollectFails \/ Span!SortFails \/ Span!TooHeavy
         \/ Span!NoRoom
  PROVE  SpanIndInv'
<1>1. CASE Span!Refuse
  <2>1. /\ UNCHANGED <<weight, out_capacity, Span!locals>> /\ blocks' = 0 /\ pc' = "done"
           /\ ok' = FALSE
    BY <1>1 DEF Span!Refuse, SpanIndInv, SpanMemory
  <2>2. Span!LeastForest'
    BY <2>1 DEF Span!LeastForest
  <2> QED
    BY <2>1, <2>2, SpanLeavingStep
<1>2. CASE Span!CollectFails \/ Span!SortFails \/ Span!TooHeavy \/ Span!NoRoom
  <2>1. pc \in {"collect", "select"} /\ Span!Return(FALSE, blocks)
    BY <1>2 DEF Span!CollectFails, Span!SortFails, Span!TooHeavy, Span!NoRoom, Span!Collected
  <2>2. /\ UNCHANGED <<weight, out_capacity, Span!locals>> /\ blocks' = 0 /\ pc' = "done"
           /\ ok' = FALSE
    BY <2>1, SpanReturnFrees
  <2>3. Span!LeastForest'
    BY <2>2 DEF Span!LeastForest
  <2> QED
    BY <2>2, <2>3, SpanLeavingStep
<1> QED
  BY <1>1, <1>2

------------------------------------------------------------------------------
(* Collecting the candidates. *)
LEMMA SpanBeginStep ==
  ASSUME SpanIndInv, Span!Begin
  PROVE  SpanIndInv'
<1>1. /\ SpanTyped /\ SpanMemory /\ SpanUnstarted /\ SpanCollecting /\ SpanForest /\ pc = "idle"
         /\ pc' = "collect"
      /\ UNCHANGED <<weight, out_capacity, from, candidates, candidate_capacity, sorted,
                     index, selected_count, total_weight, groups, ok>>
      /\ blocks' = blocks + 1 /\ pending' = Span!Neighbors(0)
  BY DEF SpanIndInv, Span!Begin
<1>2. Span!AllEdges' = Span!AllEdges /\ Span!Edges' = Span!Edges /\ SpanChosen' = SpanChosen
  BY <1>1 DEF Span!AllEdges, Span!Edges, Span!Edge, SpanChosen
<1>3. blocks = 0 /\ from = 0 /\ candidates = <<>> /\ candidate_capacity = 0 /\ sorted = <<>>
  BY <1>1 DEF SpanMemory, SpanUnstarted
<1>4. SpanTyped'
  <2>1. pending' \subseteq Span!Vertices /\ blocks' \in Nat
    BY <1>1, <1>3 DEF Span!Neighbors
  <2> QED
    BY <1>1, <1>2, <2>1 DEF SpanTyped, SpanLent
<1>5. SpanMemory' /\ SpanUnstarted' /\ SpanForest' /\ SpanReading' /\ Span!LeastForest'
  BY <1>1, <1>2, <1>3
     DEF SpanMemory, SpanHeld, SpanUnstarted, SpanForest, SpanReading, Span!LeastForest
<1>6. SpanEnumerated' = {}
  <2>1. ASSUME NEW p \in Span!Edges
        PROVE  ~(p[1] < 0) /\ ~(p[1] = 0 /\ p[2] \notin Span!Neighbors(0))
    <3>1. p \in Span!Pairs /\ p[1] \in Span!Vertices /\ p[2] \in Span!Vertices
          /\ p = <<p[1], p[2]>>
      BY DEF Span!Edges, Span!Pairs
    <3>2. p[1] \in Nat
      BY <3>1, SpanVertexConstants
    <3> QED
      BY <3>1, <3>2 DEF Span!Neighbors
  <2> QED
    BY <1>1, <1>2, <1>3, <2>1 DEF SpanEnumerated
<1>7. SpanCollecting'
  <2>1. Span!RangeOf(candidates') = {}
    BY <1>1, <1>3 DEF Span!RangeOf
  <2>2. pending' \subseteq Span!Neighbors(from)'
    BY <1>1, <1>2, <1>3 DEF Span!Neighbors
  <2>3. SpanDistinct'
    BY <1>1, <1>3 DEF SpanDistinct
  <2> QED
    BY <1>6, <2>1, <2>2, <2>3 DEF SpanCollecting
<1> QED
  BY <1>4, <1>5, <1>7 DEF SpanIndInv

(* A step of the collecting loop keeps what it does not concern. *)
LEMMA SpanStillCollecting ==
  ASSUME SpanIndInv, pc = "collect", pc' = "collect",
         UNCHANGED <<weight, out_capacity, sorted, index, selected_count, total_weight, groups,
                     ok>>,
         from' \in Span!Vertices, pending' \subseteq Span!Vertices,
         candidates' \in Seq(Span!AllEdges), Len(candidates') <= candidate_capacity',
         candidate_capacity' \in Nat, candidate_capacity' <= SizeMax \div EdgeSize,
         blocks' \in Nat, blocks' = SpanHeld', SpanCollecting'
  PROVE  SpanIndInv'
<1>1. SpanTyped /\ SpanUnstarted /\ SpanForest
  BY DEF SpanIndInv
<1>2. Span!AllEdges' = Span!AllEdges /\ SpanChosen' = SpanChosen
  BY DEF Span!AllEdges, Span!Edges, Span!Edge, SpanChosen
<1>3. SpanTyped'
  BY <1>1, <1>2 DEF SpanTyped, SpanLent
<1>4. SpanMemory' /\ SpanUnstarted' /\ SpanForest' /\ SpanReading' /\ Span!LeastForest'
  BY <1>1, <1>2 DEF SpanMemory, SpanUnstarted, SpanForest, SpanReading, Span!LeastForest
<1> QED
  BY <1>3, <1>4 DEF SpanIndInv

LEMMA SpanPairFacts ==
  ASSUME NEW p \in Span!Edges
  PROVE  /\ p[1] \in Span!Vertices /\ p[2] \in Span!Vertices /\ p = <<p[1], p[2]>> /\ p[1] < p[2]
         /\ p[1] \in Nat /\ p[2] \in Nat
         /\ p[2] \in Span!Neighbors(p[1]) /\ p[1] \in Span!Neighbors(p[2])
<1>1. p[1] \in Span!Vertices /\ p[2] \in Span!Vertices /\ p = <<p[1], p[2]>> /\ p[1] < p[2]
  BY DEF Span!Edges, Span!Pairs
<1> QED
  BY <1>1, SpanVertexConstants DEF Span!Neighbors

LEMMA SpanPassedStep ==
  ASSUME SpanIndInv, NEW v \in Span!Vertices, Span!Passed(v)
  PROVE  SpanIndInv'
<1>1. /\ SpanTyped /\ SpanMemory /\ SpanCollecting /\ pc = "collect" /\ pc' = "collect"
      /\ UNCHANGED <<weight, out_capacity, from, candidates, candidate_capacity, sorted,
                     index, selected_count, total_weight, groups, blocks, ok>>
      /\ pending' = pending \ {v} /\ v \in pending /\ from >= v
  BY DEF SpanIndInv, Span!Passed, Span!Mirror
<1>2. Span!AllEdges' = Span!AllEdges /\ Span!Edges' = Span!Edges
  BY <1>1 DEF Span!AllEdges, Span!Edges, Span!Edge
<1>3. SpanEnumerated' = SpanEnumerated
  <2>1. ASSUME NEW p \in Span!Edges, p[1] = from PROVE p[2] # v
    <3>1. p[1] < p[2] /\ p[1] \in Nat /\ p[2] \in Nat
      BY SpanPairFacts
    <3> QED
      BY <1>1, <2>1, <3>1
  <2> QED
    BY <1>1, <1>2, <2>1 DEF SpanEnumerated
<1>4. SpanCollecting'
  <2>1. \A p : Span!Edge(p)' = Span!Edge(p)
    BY <1>1 DEF Span!Edge
  <2>2. Span!Neighbors(from)' = Span!Neighbors(from)
    BY <1>1, <1>2 DEF Span!Neighbors
  <2> QED
    BY <1>1, <1>3, <2>1, <2>2 DEF SpanCollecting, SpanDistinct
<1>5. blocks' = SpanHeld' /\ blocks' \in Nat
  BY <1>1 DEF SpanMemory, SpanHeld, SpanTyped
<1> QED
  BY <1>1, <1>4, <1>5, SpanStillCollecting DEF SpanTyped

LEMMA SpanNextFromStep ==
  ASSUME SpanIndInv, Span!NextFrom
  PROVE  SpanIndInv'
<1>1. /\ SpanTyped /\ SpanMemory /\ SpanCollecting /\ pc = "collect" /\ pc' = "collect"
      /\ UNCHANGED <<weight, out_capacity, candidates, candidate_capacity, sorted,
                     index, selected_count, total_weight, groups, blocks, ok>>
      /\ pending = {} /\ from' = from + 1 /\ pending' = Span!Neighbors(from + 1)
      /\ from + 1 < VertexCount
  BY DEF SpanIndInv, Span!NextFrom
<1>2. Span!AllEdges' = Span!AllEdges /\ Span!Edges' = Span!Edges
  BY <1>1 DEF Span!AllEdges, Span!Edges, Span!Edge
<1>3. from \in Nat /\ from' \in Span!Vertices /\ pending' \subseteq Span!Vertices
  BY <1>1, SpanVertexConstants DEF SpanTyped, Span!Vertices, Span!Neighbors
<1>4. SpanEnumerated' = SpanEnumerated
  <2>1. ASSUME NEW p \in Span!Edges
        PROVE  p[1] < from + 1 \/ (p[1] = from + 1 /\ p[2] \notin Span!Neighbors(from + 1))
                 <=> p[1] < from \/ (p[1] = from /\ p[2] \notin pending)
    <3>1. p[1] \in Nat /\ p[2] \in Span!Neighbors(p[1])
      BY SpanPairFacts
    <3> QED
      BY <1>1, <1>3, <3>1
  <2> QED
    BY <1>1, <1>2, <2>1 DEF SpanEnumerated
<1>5. SpanCollecting'
  <2>1. \A p : Span!Edge(p)' = Span!Edge(p)
    BY <1>1 DEF Span!Edge
  <2>2. pending' \subseteq Span!Neighbors(from)'
    BY <1>1, <1>2 DEF Span!Neighbors
  <2> QED
    BY <1>1, <1>4, <2>1, <2>2 DEF SpanCollecting, SpanDistinct
<1>6. blocks' = SpanHeld' /\ blocks' \in Nat
  BY <1>1 DEF SpanMemory, SpanHeld, SpanTyped
<1> QED
  BY <1>1, <1>3, <1>5, <1>6, SpanStillCollecting DEF SpanTyped

LEMMA SpanCollectStep ==
  ASSUME SpanIndInv, NEW v \in Span!Vertices, Span!Collect(v)
  PROVE  SpanIndInv'
<1> DEFINE q == <<from, v>>
<1>1. /\ SpanTyped /\ SpanMemory /\ SpanUnstarted /\ SpanCollecting /\ pc = "collect"
         /\ pc' = "collect"
      /\ UNCHANGED <<weight, out_capacity, from, sorted,
                     index, selected_count, total_weight, groups, ok>>
      /\ pending' = pending \ {v} /\ v \in pending /\ ~(from >= v)
      /\ candidates'
           = Append(candidates, [from |-> from, to |-> v, weight |-> Span!WeightOf(from, v)])
  BY DEF SpanIndInv, Span!Collect, Span!Mirror
<1>2. Span!AllEdges' = Span!AllEdges /\ Span!Edges' = Span!Edges
      /\ \A p : Span!Edge(p)' = Span!Edge(p)
  BY <1>1 DEF Span!AllEdges, Span!Edges, Span!Edge
<1>3. q \in Span!Edges /\ from < v /\ from \in Nat /\ v \in Nat
  <2>1. from \in Nat /\ v \in Nat /\ v \in Span!Neighbors(from)
    BY <1>1, SpanVertexConstants DEF SpanTyped, SpanCollecting
  <2>2. from < v
    BY <1>1, <2>1
  <2>3. <<from, v>> \in Span!Edges \/ <<v, from>> \in Span!Edges
    BY <2>1 DEF Span!Neighbors
  <2>4. <<v, from>> \notin Span!Edges
    BY <2>1, <2>2 DEF Span!Edges, Span!Pairs
  <2> QED
    BY <2>1, <2>2, <2>3, <2>4
<1>4. candidates' = Append(candidates, Span!Edge(q)) /\ Span!Edge(q) \in Span!AllEdges
  BY <1>1, <1>3, SpanEdgeFacts DEF Span!WeightOf, Span!Edge, SpanTyped
<1>5. /\ candidates' \in Seq(Span!AllEdges) /\ Len(candidates') = Len(candidates) + 1
      /\ \A i \in 1 .. Len(candidates) : candidates'[i] = candidates[i]
      /\ candidates'[Len(candidates) + 1] = Span!Edge(q) /\ Len(candidates) \in Nat
  BY <1>1, <1>4 DEF SpanTyped
<1>6. /\ candidate_capacity' \in Nat /\ Len(candidates') <= candidate_capacity'
      /\ candidate_capacity' <= SizeMax \div EdgeSize
      /\ blocks' = SpanHeld' /\ blocks' \in Nat
  <2>1. /\ SizeMax \in Nat /\ candidate_capacity \in Nat /\ Len(candidates) <= candidate_capacity
        /\ candidate_capacity <= SizeMax \div EdgeSize
        /\ blocks = SpanHeld /\ blocks \in Nat /\ sorted = <<>>
    BY <1>1, SpanAssumption DEF SpanTyped, SpanMemory, SpanUnstarted, Span!SizeAssumption
  <2>2. CASE Span!IsFull
    <3>1. /\ candidate_capacity' = Span!Doubled /\ Span!CanGrow
             /\ Len(candidates) = candidate_capacity
          /\ blocks' = blocks + (IF candidate_capacity = 0 THEN 1 ELSE 0)
      BY <2>2 DEF Span!Collect, Span!IsFull
    <3>2. candidate_capacity <= SizeMax \div 2 /\ Span!Doubled <= SizeMax \div EdgeSize
      BY <3>1 DEF Span!CanGrow
    <3>3. candidate_capacity * 2 \in 0 .. SizeMax
      BY <2>1, <3>2
    <3>4. Span!Wrap(candidate_capacity * 2) = candidate_capacity * 2
      BY <2>1, <3>3, FitsInWord DEF Span!Wrap
    <3>5. Span!Doubled \in Nat /\ Span!Doubled >= candidate_capacity + 1
      BY <2>1, <3>4 DEF Span!Doubled
    <3>6. Span!Doubled # 0
      BY <2>1, <3>5
    <3>7. SpanHeld' = IF sorted = <<>> THEN 2 ELSE 3
      BY <1>1, <3>1, <3>6 DEF SpanHeld
    <3>8. blocks' = 2
      BY <2>1, <3>1 DEF SpanHeld
    <3> QED
      BY <1>5, <2>1, <3>1, <3>2, <3>5, <3>7, <3>8
  <2>3. CASE ~Span!IsFull
    <3>1. UNCHANGED <<candidate_capacity, blocks>> /\ Len(candidates) # candidate_capacity
      BY <2>3 DEF Span!Collect, Span!IsFull
    <3> QED
      BY <1>1, <1>5, <2>1, <3>1 DEF SpanHeld
  <2> QED
    BY <2>2, <2>3
<1>7. SpanEnumerated' = SpanEnumerated \cup {q} /\ q \notin SpanEnumerated
  <2>1. ASSUME NEW p \in Span!Edges, p[1] = from, p[2] = v PROVE p = q
    BY <2>1, SpanPairFacts
  <2>2. q[1] = from /\ q[2] = v /\ ~(q[1] < from)
    BY <1>3
  <2> QED
    BY <1>1, <1>2, <1>3, <2>1, <2>2 DEF SpanEnumerated
<1>8. \A i \in 1 .. Len(candidates) : candidates[i] # Span!Edge(q)
  <2>1. ASSUME NEW i \in 1 .. Len(candidates), candidates[i] = Span!Edge(q) PROVE FALSE
    <3>1. Span!Edge(q) \in Span!RangeOf(candidates)
      BY <2>1 DEF Span!RangeOf
    <3>2. PICK p \in SpanEnumerated : Span!Edge(p) = Span!Edge(q)
      BY <1>1, <3>1 DEF SpanCollecting
    <3>3. p = q
      BY <1>1, <1>3, <3>2, SpanEdgeFacts DEF SpanTyped, SpanEnumerated
    <3> QED
      BY <1>7, <3>2, <3>3
  <2> QED
    BY <2>1
<1>9. SpanDistinct'
  <2>1. DOMAIN candidates' = 1 .. Len(candidates) + 1 /\ DOMAIN candidates = 1 .. Len(candidates)
    BY <1>1, <1>5 DEF SpanTyped
  <2>2. ASSUME NEW i \in 1 .. Len(candidates) + 1, NEW j \in 1 .. Len(candidates) + 1,
               candidates'[i] = candidates'[j]
        PROVE  i = j
    <3>1. i \in 1 .. Len(candidates) \/ i = Len(candidates) + 1
      BY <1>5
    <3>2. j \in 1 .. Len(candidates) \/ j = Len(candidates) + 1
      BY <1>5
    <3> QED
      BY <1>1, <1>5, <1>8, <2>1, <2>2, <3>1, <3>2 DEF SpanCollecting, SpanDistinct
  <2> QED
    BY <2>1, <2>2 DEF SpanDistinct
<1>10. Span!RangeOf(candidates') = Span!RangeOf(candidates) \cup {Span!Edge(q)}
  <2>1. DOMAIN candidates' = 1 .. Len(candidates) + 1 /\ DOMAIN candidates = 1 .. Len(candidates)
    BY <1>1, <1>5 DEF SpanTyped
  <2>2. 1 .. Len(candidates) + 1 = (1 .. Len(candidates)) \cup {Len(candidates) + 1}
    BY <1>5
  <2> QED
    BY <1>5, <2>1, <2>2 DEF Span!RangeOf
<1>11. SpanCollecting'
  <2>1. Span!RangeOf(candidates)' = {Span!Edge(p) : p \in SpanEnumerated'}
    BY <1>1, <1>7, <1>10 DEF SpanCollecting, Span!RangeOf
  <2>2. {Span!Edge(p) : p \in SpanEnumerated}' = {Span!Edge(p) : p \in SpanEnumerated'}
    BY <1>2
  <2>3. pending' \subseteq Span!Neighbors(from)'
    BY <1>1, <1>2 DEF SpanCollecting, Span!Neighbors
  <2> QED
    BY <1>9, <2>1, <2>2, <2>3 DEF SpanCollecting
<1>12. from' \in Span!Vertices /\ pending' \subseteq Span!Vertices
  BY <1>1 DEF SpanTyped
<1> QED
  BY <1>1, <1>5, <1>6, <1>11, <1>12, SpanStillCollecting

------------------------------------------------------------------------------
(* The least weight there is. *)
LEMMA SpanSpanningMeans ==
  \A es : es \in Span!Spanning <=> es \in SUBSET Span!AllEdges
  /\ Span!Components(es) = Span!Components(Span!AllEdges)
BY DEF Span!Spanning

LEMMA SpanLeastWeightIs ==
  ASSUME SpanLent
  PROVE  /\ \E F \in Span!Spanning : Span!LeastWeight = Span!WeightOfAll(F)
         /\ \A F \in Span!Spanning : Span!LeastWeight <= Span!WeightOfAll(F)
            /\ Span!WeightOfAll(F) \in Nat
         /\ Span!LeastWeight \in Nat
<1> DEFINE W == {Span!WeightOfAll(es) : es \in Span!Spanning}
<1>1. \A F \in Span!Spanning : Span!WeightOfAll(F) \in Nat
  <2>1. ASSUME NEW F \in Span!Spanning PROVE Span!WeightOfAll(F) \in Nat
    <3>1. F \in SUBSET Span!AllEdges /\ IsFiniteSet(Span!AllEdges)
      BY SpanSpanningMeans, SpanEdgeFacts
    <3>2. IsFiniteSet(F)
      BY <3>1, FS_Subset, SpanCardinality
    <3> QED
      BY <3>2, SpanSlicesFinite
  <2> QED
    BY <2>1
<1>2. Span!AllEdges \in Span!Spanning
  BY SpanSpanningMeans
<1>3. W \subseteq Nat /\ W # {}
  BY <1>1, <1>2
<1> HIDE DEF W
<1>4. PICK m \in W : \A k \in W : m <= k
  BY <1>3, LeastExists
<1>5. Span!LeastWeight = CHOOSE x \in W : \A y \in W : x <= y
  BY DEF Span!LeastWeight, Span!Min, W
<1>6. Span!LeastWeight \in W /\ \A y \in W : Span!LeastWeight <= y
  BY <1>4, <1>5
<1> QED
  BY <1>1, <1>3, <1>6 DEF W

LEMMA SpanLeastWeightOf ==
  ASSUME SpanLent, NEW T \in Span!Spanning,
         \A F \in Span!Spanning : Span!WeightOfAll(T) <= Span!WeightOfAll(F)
  PROVE  Span!LeastWeight = Span!WeightOfAll(T)
<1>1. PICK F \in Span!Spanning : Span!LeastWeight = Span!WeightOfAll(F)
  BY SpanLeastWeightIs
<1>2. /\ Span!WeightOfAll(F) \in Nat /\ Span!WeightOfAll(T) \in Nat
         /\ Span!LeastWeight <= Span!WeightOfAll(T)
      /\ Span!WeightOfAll(T) <= Span!WeightOfAll(F)
  BY SpanLeastWeightIs
<1> QED
  BY <1>1, <1>2

------------------------------------------------------------------------------
(* When all vertices are through, all edges are candidates. *)
LEMMA SpanAllCollected ==
  ASSUME SpanIndInv, Span!Collected
  PROVE  Span!RangeOf(candidates) = Span!AllEdges
<1>1. pc = "collect" /\ pending = {} /\ from + 1 = VertexCount /\ SpanTyped /\ SpanCollecting
  BY DEF SpanIndInv, Span!Collected
<1>2. SpanEnumerated = Span!Edges
  <2>1. ASSUME NEW p \in Span!Edges PROVE p[1] < from \/ p[1] = from
    <3>1. p[1] \in Span!Vertices /\ from \in Span!Vertices /\ VertexCount \in Nat
      BY <1>1, SpanPairFacts, SpanVertexConstants DEF SpanTyped
    <3> QED
      BY <1>1, <3>1 DEF Span!Vertices
  <2> QED
    BY <1>1, <2>1 DEF SpanEnumerated
<1> QED
  BY <1>1, <1>2 DEF SpanCollecting, Span!AllEdges

LEMMA SpanNoCandidatesStep ==
  ASSUME SpanIndInv, Span!NoCandidates
  PROVE  SpanIndInv'
<1>1. /\ SpanTyped /\ SpanUnstarted /\ SpanForest /\ pc = "collect" /\ Span!Collected
         /\ candidates = <<>>
      /\ out' = [edges |-> <<>>, total |-> 0] /\ Span!Return(TRUE, blocks)
  BY DEF SpanIndInv, Span!NoCandidates, Span!Collected, Span!Output
<1>2. /\ UNCHANGED <<weight, out_capacity, Span!locals>> /\ blocks' = 0 /\ pc' = "done"
         /\ ok' = TRUE
  BY <1>1, SpanReturnFrees
<1>3. Span!AllEdges = {}
  BY <1>1, SpanAllCollected DEF Span!RangeOf
<1>4. Span!AllEdges' = Span!AllEdges /\ groups' = groups /\ out_capacity' = out_capacity
      /\ SpanLent' /\ Span!Spanning' = Span!Spanning
  BY <1>1, <1>2
     DEF Span!AllEdges, Span!Edges, Span!Edge, Span!locals, SpanTyped, SpanLent, Span!Spanning
<1>5. Span!LeastWeight = 0
  <2>1. {} \in Span!Spanning /\ \A F \in Span!Spanning : F = {}
    BY <1>3, SpanSpanningMeans
  <2>2. Span!WeightOfAll({}) = 0
    BY SpanWeightOfNone
  <2> QED
    BY <1>1, <2>1, <2>2, SpanLeastWeightIs DEF SpanTyped
<1>6. Span!LeastWeight' = 0
  BY <1>4, <1>5 DEF Span!LeastWeight
<1>7. VertexCount - Span!Cardinality(groups) = 0 /\ out_capacity \in Nat
  BY <1>1 DEF SpanForest, SpanUnstarted, SpanTyped
<1>8. Span!RangeOf(out'.edges) = {} /\ Len(out'.edges) = 0 /\ DOMAIN out'.edges = {}
      /\ out'.total = 0
  BY <1>1 DEF Span!RangeOf
<1>9. Span!LeastForest'
  <2>1. Span!RangeOf(out.edges)' = {} /\ Span!WeightOfAll(Span!RangeOf(out.edges))' = 0
    BY <1>8, SpanWeightOfNone DEF Span!RangeOf
  <2>2. Span!Components(Span!RangeOf(out.edges))' = Span!Components(Span!AllEdges)'
    BY <1>3, <1>4, <2>1
  <2>3. /\ Span!RangeOf(out.edges)' \subseteq Span!AllEdges' /\ out'.total = Span!LeastWeight'
        /\ out'.total = Span!WeightOfAll(Span!RangeOf(out.edges))'
    BY <1>6, <1>8, <2>1
  <2>4. Len(out'.edges) = VertexCount - Span!Cardinality(groups')
        /\ Len(out'.edges) <= out_capacity'
    BY <1>4, <1>7, <1>8
  <2>5. \A i, j \in DOMAIN out'.edges : i < j => Span!Before(out'.edges[i], out'.edges[j])
    BY <1>8
  <2> QED
    BY <2>2, <2>3, <2>4, <2>5 DEF Span!LeastForest
<1> QED
  BY <1>2, <1>9, SpanLeavingStep

LEMMA SpanSortStep ==
  ASSUME SpanIndInv, Span!Sort
  PROVE  SpanIndInv'
<1>1. /\ SpanTyped /\ SpanMemory /\ SpanUnstarted /\ SpanCollecting /\ SpanForest
         /\ pc = "collect" /\ pc' = "select"
      /\ Span!Collected /\ candidates # <<>> /\ sorted' = Span!Sorted /\ blocks' = blocks + 1
      /\ UNCHANGED <<weight, out_capacity, from, pending, candidates, candidate_capacity, index,
                     selected_count, total_weight, groups, out, ok>>
  BY DEF SpanIndInv, Span!Sort, Span!Collected
<1>2. Span!AllEdges' = Span!AllEdges /\ Span!Sorted' = Span!Sorted
  BY <1>1 DEF Span!AllEdges, Span!Edges, Span!Edge, Span!Sorted, Span!PlaceOf
<1>3. /\ Span!Sorted \in Seq(Span!AllEdges) /\ Len(Span!Sorted) = Len(candidates)
         /\ Span!RangeOf(Span!Sorted) = Span!RangeOf(candidates)
      /\ \A i, j \in 1 .. Len(Span!Sorted) : i < j => Span!Before(Span!Sorted[i], Span!Sorted[j])
  BY <1>1, SpanSortedFacts DEF SpanTyped, SpanCollecting
<1>4. Span!RangeOf(candidates) = Span!AllEdges
  BY <1>1, SpanAllCollected
<1>5. /\ index = 0 /\ selected_count = 0 /\ sorted = <<>> /\ Len(Span!Sorted) \in Nat
         /\ Span!Sorted # <<>>
      /\ Len(candidates) # 0
  BY <1>1, <1>3 DEF SpanUnstarted, SpanTyped
<1>6. SpanTyped' /\ SpanMemory'
  <2>1. index' \in 0 .. Len(sorted') /\ selected_count' \in 0 .. index'
    BY <1>1, <1>5
  <2>2. blocks' = SpanHeld' /\ blocks' \in Nat
    BY <1>1, <1>5 DEF SpanMemory, SpanHeld, SpanTyped
  <2> QED
    BY <1>1, <1>2, <1>3, <2>1, <2>2 DEF SpanTyped, SpanMemory, SpanLent
<1>7. SpanChosen = {} /\ SpanChosen' = {} /\ SpanUnread' = Span!AllEdges
  <2>1. SpanChosen = {} /\ SpanChosen' = {}
    BY <1>1, <1>5 DEF SpanChosen
  <2>2. DOMAIN Span!Sorted = 0 + 1 .. Len(Span!Sorted)
    BY <1>3, <1>5
  <2> QED
    BY <1>1, <1>3, <1>4, <1>5, <2>1, <2>2 DEF SpanUnread, Span!RangeOf
<1>8. SpanUnstarted' /\ SpanForest' /\ SpanCollecting' /\ Span!LeastForest'
  BY <1>1, <1>7 DEF SpanUnstarted, SpanForest, SpanCollecting, SpanDistinct, Span!LeastForest
<1>9. SpanCopied'
  BY <1>1, <1>2, <1>3, <1>4, <1>5 DEF SpanCopied, Span!RangeOf
<1>10. SpanInOrder'
  <2>1. \A i, j \in 1 .. 0 : FALSE
    OBVIOUS
  <2>2. \A i, j \in 0 + 1 .. Len(Span!Sorted) : i < j
        => Span!Before(Span!Sorted[i], Span!Sorted[j])
    BY <1>3, <1>5
  <2> QED
    BY <1>1, <1>2, <1>5, <1>7, <2>1, <2>2 DEF SpanInOrder
<1>11. SpanJoinsAll'
  <2>1. \A t \in 0 .. WeightMax : SpanUpTo({}, t) = {}
        /\ SpanUpTo(Span!AllEdges \ Span!AllEdges, t) = {}
    BY DEF SpanUpTo
  <2> QED
    BY <1>2, <1>7, <2>1 DEF SpanJoinsAll
<1> QED
  BY <1>6, <1>8, <1>9, <1>10, <1>11 DEF SpanIndInv, SpanReading

------------------------------------------------------------------------------
(* Reading an edge. *)
LEMMA SpanSameGroups ==
  ASSUME NEW es, es \subseteq SpanLinks, NEW fs, fs \subseteq SpanLinks,
         Span!Components(es) = Span!Components(fs), NEW v \in Span!Vertices
  PROVE  Span!Component(es, v) = Span!Component(fs, v)
<1>1. v \in Span!Component(es, v) /\ Span!Component(es, v) \in Span!Components(fs)
  BY SpanComponentHolds DEF Span!Components
<1> QED
  BY <1>1, SpanGroupsAreApart

LEMMA SpanGroupOfIs ==
  ASSUME NEW es, es \subseteq SpanLinks, groups = Span!Components(es), NEW v \in Span!Vertices
  PROVE  Span!GroupOf(v) = Span!Component(es, v)
<1>1. v \in Span!Component(es, v) /\ Span!Component(es, v) \in groups
  BY SpanComponentHolds DEF Span!Components
<1>2. \A g \in groups : v \in g => g = Span!Component(es, v)
  BY SpanGroupsAreApart
<1> QED
  BY <1>1, <1>2 DEF Span!GroupOf

(* An edge no lighter than those seen: taken, or left when it joins nothing. *)
SpanNoLighterThan(e, es, fs) ==
  /\ es \subseteq SpanLinks /\ fs \subseteq SpanLinks /\ e \in SpanLinks
  /\ \A d \in es \cup fs : d.weight <= e.weight
  /\ \A t \in 0 .. WeightMax : Span!Components(SpanUpTo(es, t)) = Span!Components(SpanUpTo(fs, t))

LEMMA SpanJoinsMore ==
  ASSUME NEW es, NEW fs, NEW e, SpanNoLighterThan(e, es, fs), NEW t \in 0 .. WeightMax
  PROVE  /\ Span!Components(SpanUpTo(es \cup {e}, t)) = Span!Components(SpanUpTo(fs \cup {e}, t))
         /\ Span!Component(es, e.from) = Span!Component(es, e.to) =>
              Span!Components(SpanUpTo(es, t)) = Span!Components(SpanUpTo(fs \cup {e}, t))
<1> USE DEF SpanNoLighterThan
<1>1. e.weight \in 0 .. WeightMax /\ WeightMax \in Nat /\ e.from \in Span!Vertices
      /\ e.to \in Span!Vertices
  BY SpanVertexConstants DEF SpanLinks
<1>2. \A d \in es \cup fs : d.weight \in Nat
  <2>1. \A d \in es \cup fs : d.weight \in 0 .. WeightMax
    BY DEF SpanLinks
  <2> QED
    BY <1>1, <2>1
<1>3. CASE e.weight > t
  <2>1. SpanUpTo(es \cup {e}, t) = SpanUpTo(es, t) /\ SpanUpTo(fs \cup {e}, t) = SpanUpTo(fs, t)
    BY <1>1, <1>3 DEF SpanUpTo
  <2> QED
    BY <2>1
<1>4. CASE e.weight <= t
  <2>1. \A d \in es \cup fs : d.weight <= t
    BY <1>1, <1>2, <1>4
  <2>2. /\ SpanUpTo(es \cup {e}, t) = es \cup {e} /\ SpanUpTo(fs \cup {e}, t) = fs \cup {e}
        /\ SpanUpTo(es, t) = es /\ SpanUpTo(fs, t) = fs
    BY <1>4, <2>1 DEF SpanUpTo
  <2>3. Span!Components(es) = Span!Components(fs)
    BY <2>2
  <2>4. Span!Component(es, e.from) = Span!Component(fs, e.from)
        /\ Span!Component(es, e.to) = Span!Component(fs, e.to)
    BY <1>1, <2>3, SpanSameGroups
  <2> DEFINE A == Span!Component(es, e.from)
             B == Span!Component(es, e.to)
  <2>5. /\ A \in Span!Components(es)
        /\ Span!Components(es \cup {e}) = (Span!Components(es) \ {A, B}) \cup {A \cup B}
    BY SpanComponentsJoined
  <2>6. Span!Components(fs \cup {e}) = (Span!Components(fs) \ {A, B}) \cup {A \cup B}
    <3> DEFINE X == Span!Component(fs, e.from)
               Y == Span!Component(fs, e.to)
    <3>1. Span!Components(fs \cup {e}) = (Span!Components(fs) \ {X, Y}) \cup {X \cup Y}
      BY SpanComponentsJoined
    <3>2. X = A /\ Y = B
      BY <2>4
    <3> HIDE DEF X, Y, A, B
    <3> QED
      BY <3>1, <3>2
  <2>7. A = B => (Span!Components(es) \ {A, B}) \cup {A \cup B} = Span!Components(es)
    <3> HIDE DEF A, B
    <3>1. A = B => A \cup B = A
      OBVIOUS
    <3> QED
      BY <2>5, <3>1
  <2> QED
    BY <2>2, <2>3, <2>5, <2>6, <2>7
<1> QED
  BY <1>1, <1>3, <1>4

LEMMA SpanJoinsNothing ==
  ASSUME NEW es, NEW fs, NEW e, SpanNoLighterThan(e, es, fs), NEW t \in 0 .. WeightMax,
         Span!Component(es, e.from) = Span!Component(es, e.to)
  PROVE  Span!Components(SpanUpTo(es, t)) = Span!Components(SpanUpTo(fs \cup {e}, t))
<1>1. /\ Span!Components(SpanUpTo(es \cup {e}, t)) = Span!Components(SpanUpTo(fs \cup {e}, t))
      /\ Span!Component(es, e.from) = Span!Component(es, e.to) =>
           Span!Components(SpanUpTo(es, t)) = Span!Components(SpanUpTo(fs \cup {e}, t))
  BY SpanJoinsMore
<1> QED
  BY <1>1

LEMMA SpanReadFacts ==
  ASSUME SpanIndInv, pc = "select", index < Len(sorted)
  PROVE  /\ Span!Read \in SpanUnread /\ Span!Read \in Span!AllEdges /\ Span!Read \in SpanLinks
         /\ \A j \in index + 2 .. Len(sorted) : sorted[j] # Span!Read
         /\ \A d \in Span!AllEdges \ SpanUnread : Span!Before(d, Span!Read)
            /\ d.weight <= Span!Read.weight
         /\ \A e \in SpanUnread : Span!Read.weight <= e.weight
         /\ Span!Read \notin SpanChosen
<1>1. SpanTyped /\ SpanInOrder
  BY DEF SpanIndInv, SpanReading
<1>2. index + 1 \in index + 1 .. Len(sorted) /\ index \in Nat /\ Len(sorted) \in Nat
  BY <1>1 DEF SpanTyped
<1>3. Span!Read \in SpanUnread /\ SpanUnread \subseteq Span!AllEdges
      /\ Span!AllEdges \subseteq SpanLinks
  BY <1>1, <1>2, SpanChosenFacts DEF Span!Read, SpanUnread
<1>4. \A j \in index + 2 .. Len(sorted) : Span!Before(Span!Read, sorted[j])
      /\ sorted[j] \in SpanUnread
  <2>1. ASSUME NEW j \in index + 2 .. Len(sorted)
        PROVE  Span!Before(Span!Read, sorted[j]) /\ sorted[j] \in SpanUnread
    <3>1. j \in index + 1 .. Len(sorted) /\ index + 1 < j
      BY <1>2
    <3> QED
      BY <1>1, <1>2, <3>1 DEF SpanInOrder, Span!Read, SpanUnread
  <2> QED
    BY <2>1
<1>5. \A j \in index + 2 .. Len(sorted) : sorted[j] # Span!Read
  BY <1>3, <1>4, SpanBeforeIsOrder
<1>6. \A d \in Span!AllEdges \ SpanUnread : Span!Before(d, Span!Read)
      /\ d.weight <= Span!Read.weight
  BY <1>1, <1>3, SpanBeforeIsOrder DEF SpanInOrder
<1>7. \A e \in SpanUnread : Span!Read.weight <= e.weight
  <2>1. ASSUME NEW e \in SpanUnread PROVE Span!Read.weight <= e.weight
    <3>1. PICK j \in index + 1 .. Len(sorted) : e = sorted[j]
      BY DEF SpanUnread
    <3>2. j = index + 1 \/ j \in index + 2 .. Len(sorted)
      BY <1>2
    <3>3. CASE j = index + 1
      <4>1. e = Span!Read
        BY <3>1, <3>3 DEF Span!Read
      <4>2. Span!Read.weight \in 0 .. WeightMax /\ WeightMax \in Nat
        BY <1>3, SpanVertexConstants DEF SpanLinks
      <4> QED
        BY <4>1, <4>2
    <3>4. CASE j \in index + 2 .. Len(sorted)
      BY <1>3, <1>4, <3>1, <3>4, SpanBeforeIsOrder
    <3> QED
      BY <3>2, <3>3, <3>4
  <2> QED
    BY <2>1
<1>8. Span!Read \notin SpanChosen
  BY <1>1, <1>3 DEF SpanInOrder
<1> QED
  BY <1>3, <1>5, <1>6, <1>7, <1>8

LEMMA SpanUnreadShrinks ==
  ASSUME SpanIndInv, pc = "select", index < Len(sorted), Span!AllEdges' = Span!AllEdges,
         index' = index + 1,
         Len(sorted') = Len(sorted), \A j \in index + 2 .. Len(sorted) : sorted'[j] = sorted[j]
  PROVE  SpanUnread' = SpanUnread \ {Span!Read}
         /\ Span!AllEdges' \ SpanUnread' = (Span!AllEdges \ SpanUnread) \cup {Span!Read}
<1>1. index \in Nat /\ Len(sorted) \in Nat
  BY DEF SpanIndInv, SpanTyped
<1>2. index + 1 .. Len(sorted) = (index + 2 .. Len(sorted)) \cup {index + 1}
  BY <1>1
<1>3. Span!Read \in SpanUnread /\ Span!Read \in Span!AllEdges
      /\ \A j \in index + 2 .. Len(sorted) : sorted[j] # Span!Read
  BY SpanReadFacts
<1>4. SpanUnread = {sorted[j] : j \in index + 2 .. Len(sorted)} \cup {Span!Read}
  BY <1>2 DEF SpanUnread, Span!Read
<1>5. SpanUnread' = {sorted[j] : j \in index + 2 .. Len(sorted)}
  BY <1>1 DEF SpanUnread
<1> QED
  BY <1>3, <1>4, <1>5

(* What the selecting loop keeps whatever it reads. *)
LEMMA SpanStillSelecting ==
  ASSUME SpanIndInv, pc = "select", index < Len(sorted), index' = index + 1,
         UNCHANGED <<weight, out_capacity, from, pending, candidates, candidate_capacity, out,
                     blocks, pc, ok>>,
         sorted' \in Seq(Span!AllEdges), Len(sorted') = Len(sorted),
         \A j \in index + 2 .. Len(sorted) : sorted'[j] = sorted[j],
         selected_count' \in 0 .. index + 1, total_weight' \in 0 .. WeightMax,
         SpanForest', SpanJoinsAll', SpanChosen' \subseteq SpanChosen \cup {Span!Read},
         \A i, j \in 1 .. selected_count' : i < j => Span!Before(sorted'[i], sorted'[j])
  PROVE  SpanIndInv'
<1>1. SpanTyped /\ SpanMemory /\ SpanUnstarted /\ SpanCollecting /\ SpanCopied /\ SpanInOrder
  BY DEF SpanIndInv, SpanReading
<1>2. Span!AllEdges' = Span!AllEdges /\ Span!Sorted' = Span!Sorted
  BY DEF Span!AllEdges, Span!Edges, Span!Edge, Span!Sorted, Span!PlaceOf
<1>3. index \in Nat /\ Len(sorted) \in Nat
  BY <1>1 DEF SpanTyped
<1>4. SpanUnread' = SpanUnread \ {Span!Read}
      /\ Span!AllEdges' \ SpanUnread' = (Span!AllEdges \ SpanUnread) \cup {Span!Read}
  BY <1>2, SpanUnreadShrinks
<1>5. sorted' # <<>> /\ sorted # <<>>
  BY <1>1, <1>3 DEF SpanTyped
<1>6. SpanTyped'
  <2>1. index' \in 0 .. Len(sorted') /\ selected_count' \in 0 .. index'
    BY <1>3
  <2> QED
    BY <1>1, <1>2, <2>1 DEF SpanTyped, SpanLent
<1>7. SpanMemory'
  BY <1>1, <1>5 DEF SpanMemory, SpanHeld
<1>8. SpanUnstarted' /\ Span!LeastForest'
  BY DEF SpanUnstarted, Span!LeastForest
<1>9. SpanCollecting'
  BY <1>1 DEF SpanCollecting, SpanDistinct
<1>10. \A j \in index + 1 + 1 .. Len(sorted) :
         j \in index + 2 .. Len(sorted) /\ j \in index + 1 .. Len(sorted)
  BY <1>3
<1>11. SpanCopied'
  <2>1. \A j \in index + 1 + 1 .. Len(sorted) : sorted'[j] = Span!Sorted[j]
    BY <1>1, <1>10 DEF SpanCopied
  <2>2. Span!RangeOf(candidates)' = Span!AllEdges'
    BY <1>1, <1>2 DEF SpanCopied, Span!RangeOf
  <2> QED
    BY <1>1, <1>2, <1>5, <2>1, <2>2 DEF SpanCopied
<1>12. SpanInOrder'
  <2>1. \A i, j \in index + 1 + 1 .. Len(sorted) : i < j => Span!Before(sorted'[i], sorted'[j])
    BY <1>1, <1>10 DEF SpanInOrder
  <2>2. SpanChosen' \subseteq Span!AllEdges' \ SpanUnread'
    BY <1>1, <1>4 DEF SpanInOrder
  <2>3. \A d \in Span!AllEdges' \ SpanUnread' : \A e \in SpanUnread' : Span!Before(d, e)
    <3>1. ASSUME NEW e \in SpanUnread \ {Span!Read} PROVE Span!Before(Span!Read, e)
      <4>1. Span!Before(Span!Read, e) \/ Span!Before(e, Span!Read)
        BY <1>1, SpanChosenFacts, SpanReadFacts, SpanBeforeIsOrder
      <4>2. PICK j \in index + 1 .. Len(sorted) : e = sorted[j]
        BY DEF SpanUnread
      <4>3. index + 1 < j /\ index + 1 \in index + 1 .. Len(sorted)
        BY <1>3, <3>1, <4>2 DEF Span!Read
      <4> QED
        BY <1>1, <4>2, <4>3 DEF SpanInOrder, Span!Read
    <3> QED
      BY <1>1, <1>4, <3>1 DEF SpanInOrder
  <2> QED
    BY <2>1, <2>2, <2>3 DEF SpanInOrder
<1> QED
  BY <1>6, <1>7, <1>8, <1>9, <1>11, <1>12 DEF SpanIndInv, SpanReading

LEMMA SpanRejectStep ==
  ASSUME SpanIndInv, Span!Reject
  PROVE  SpanIndInv'
<1>1. /\ SpanTyped /\ SpanForest /\ SpanInOrder /\ SpanJoinsAll /\ pc = "select"
         /\ index < Len(sorted)
      /\ ~Span!Joins(Span!Read) /\ index' = index + 1
      /\ UNCHANGED <<weight, out_capacity, from, pending, candidates, candidate_capacity, sorted,
                     selected_count, total_weight, groups, out, blocks, pc, ok>>
  BY DEF SpanIndInv, SpanReading, Span!Reject
<1>2. Span!AllEdges' = Span!AllEdges /\ SpanChosen' = SpanChosen
  BY <1>1 DEF Span!AllEdges, Span!Edges, Span!Edge, SpanChosen
<1>3. Span!AllEdges' \ SpanUnread' = (Span!AllEdges \ SpanUnread) \cup {Span!Read}
  BY <1>1, <1>2, SpanUnreadShrinks
<1>4. /\ SpanChosen \subseteq SpanLinks /\ Span!AllEdges \ SpanUnread \subseteq SpanLinks
         /\ Span!Read \in SpanLinks
      /\ SpanChosen \subseteq Span!AllEdges \ SpanUnread /\ Span!Read.from \in Span!Vertices
         /\ Span!Read.to \in Span!Vertices
      /\ \A d \in SpanChosen \cup (Span!AllEdges \ SpanUnread) : d.weight <= Span!Read.weight
  BY <1>1, SpanChosenFacts, SpanReadFacts DEF SpanInOrder, SpanLinks
<1>5. Span!Component(SpanChosen, Span!Read.from) = Span!Component(SpanChosen, Span!Read.to)
  BY <1>1, <1>4, SpanGroupOfIs DEF Span!Joins, SpanForest
<1>6. SpanJoinsAll'
  <2>1. ASSUME NEW t \in 0 .. WeightMax
        PROVE  Span!Components(SpanUpTo(SpanChosen, t))
                 = Span!Components(SpanUpTo((Span!AllEdges \ SpanUnread) \cup {Span!Read}, t))
    <3> DEFINE seen == Span!AllEdges \ SpanUnread
    <3>1. \A u \in 0 .. WeightMax : Span!Components(SpanUpTo(SpanChosen, u))
            = Span!Components(SpanUpTo(seen, u))
      BY <1>1 DEF SpanJoinsAll
    <3>2. SpanNoLighterThan(Span!Read, SpanChosen, seen)
      BY <1>4, <3>1 DEF SpanNoLighterThan
    <3> HIDE DEF seen
    <3>3. Span!Components(SpanUpTo(SpanChosen, t))
            = Span!Components(SpanUpTo(seen \cup {Span!Read}, t))
      BY <1>5, <3>2, SpanJoinsNothing
    <3> QED
      BY <3>3 DEF seen
  <2> QED
    BY <1>2, <1>3, <2>1 DEF SpanJoinsAll
<1>7. SpanForest'
  BY <1>1, <1>2 DEF SpanForest
<1>8. selected_count' \in 0 .. index + 1
  BY <1>1 DEF SpanTyped
<1> QED
  BY <1>1, <1>2, <1>6, <1>7, <1>8, SpanStillSelecting DEF SpanTyped, SpanInOrder

LEMMA SpanSelectStep ==
  ASSUME SpanIndInv, Span!Select
  PROVE  SpanIndInv'
<1> DEFINE k == selected_count + 1
           r == Span!Read
<1>1. /\ SpanTyped /\ SpanForest /\ SpanInOrder /\ SpanJoinsAll /\ pc = "select"
         /\ index < Len(sorted)
      /\ Span!Joins(r) /\ ~Span!Overflows(r) /\ index' = index + 1
      /\ groups' = (groups \ {Span!GroupOf(r.from), Span!GroupOf(r.to)})
                     \cup {Span!GroupOf(r.from) \cup Span!GroupOf(r.to)}
      /\ sorted' = Span!Stored(r) /\ selected_count' = k
         /\ total_weight' = total_weight + r.weight
      /\ UNCHANGED <<weight, out_capacity, from, pending, candidates, candidate_capacity, out,
                     blocks, pc, ok>>
  BY DEF SpanIndInv, SpanReading, Span!Select
<1>2. Span!AllEdges' = Span!AllEdges
  BY <1>1 DEF Span!AllEdges, Span!Edges, Span!Edge
<1>3. /\ index \in Nat /\ selected_count \in Nat /\ Len(sorted) \in Nat /\ selected_count <= index
      /\ index < Len(sorted) /\ k \in 1 .. Len(sorted) /\ k \in 0 .. index + 1
  BY <1>1 DEF SpanTyped
<1>4. /\ r \in Span!AllEdges /\ r \in SpanLinks /\ r \notin SpanChosen
      /\ \A d \in Span!AllEdges \ SpanUnread : Span!Before(d, r) /\ d.weight <= r.weight
  BY <1>1, SpanReadFacts
<1>5. /\ sorted' \in Seq(Span!AllEdges) /\ Len(sorted') = Len(sorted) /\ sorted'[k] = r
      /\ \A j \in 1 .. Len(sorted) : j # k => sorted'[j] = sorted[j]
  BY <1>1, <1>3, <1>4 DEF Span!Stored, SpanTyped
<1>6. \A j \in 1 .. selected_count : sorted'[j] = sorted[j]
  BY <1>3, <1>5
<1>7. \A j \in index + 2 .. Len(sorted) : sorted'[j] = sorted[j]
  BY <1>3, <1>5
<1>8. 1 .. k = (1 .. selected_count) \cup {k}
  BY <1>3
<1>9. SpanChosen' = SpanChosen \cup {r}
  BY <1>1, <1>5, <1>6, <1>8 DEF SpanChosen
<1>10. Span!AllEdges' \ SpanUnread' = (Span!AllEdges \ SpanUnread) \cup {r}
  BY <1>1, <1>2, <1>5, <1>7, SpanUnreadShrinks
<1>11. /\ SpanChosen \subseteq SpanLinks /\ Span!AllEdges \ SpanUnread \subseteq SpanLinks
          /\ IsFiniteSet(SpanChosen)
       /\ SpanChosen \subseteq Span!AllEdges \ SpanUnread /\ r.from \in Span!Vertices
          /\ r.to \in Span!Vertices
       /\ \A d \in SpanChosen \cup (Span!AllEdges \ SpanUnread) : d.weight <= r.weight
  BY <1>1, <1>4, SpanChosenFacts DEF SpanInOrder, SpanLinks
<1> HIDE DEF r
<1>12. /\ Span!GroupOf(r.from) = Span!Component(SpanChosen, r.from)
          /\ Span!GroupOf(r.to) = Span!Component(SpanChosen, r.to)
       /\ Span!Component(SpanChosen, r.from) # Span!Component(SpanChosen, r.to)
  BY <1>1, <1>11, SpanGroupOfIs DEF Span!Joins, SpanForest
<1>13. groups' = Span!Components(SpanChosen \cup {r})
  <2> DEFINE A == Span!Component(SpanChosen, r.from)
             B == Span!Component(SpanChosen, r.to)
  <2>1. Span!Components(SpanChosen \cup {r})
          = (Span!Components(SpanChosen) \ {A, B}) \cup {A \cup B}
    BY <1>4, <1>11, SpanComponentsJoined
  <2>2. groups' = (groups \ {A, B}) \cup {A \cup B}
    BY <1>1, <1>12
  <2> HIDE DEF A, B
  <2> QED
    BY <1>1, <2>1, <2>2 DEF SpanForest
<1>14. /\ Span!Cardinality(SpanChosen \cup {r}) = k
       /\ k = VertexCount - Span!Cardinality(Span!Components(SpanChosen \cup {r}))
  BY <1>1, <1>4, <1>11, <1>12, SpanForestGrows DEF SpanForest
<1>15. Span!WeightOfAll(SpanChosen \cup {r}) = total_weight + r.weight
  BY <1>1, <1>4, <1>11, SpanWeightOfMore DEF SpanForest
<1>16. total_weight' \in 0 .. WeightMax
  <2>1. r.weight \in 0 .. WeightMax /\ WeightMax \in Nat /\ total_weight \in 0 .. WeightMax
    BY <1>1, <1>4, SpanVertexConstants DEF SpanLinks, SpanTyped
  <2> QED
    BY <1>1, <2>1 DEF Span!Overflows
<1>17. SpanForest'
  BY <1>1, <1>9, <1>13, <1>14, <1>15 DEF SpanForest
<1>18. SpanJoinsAll'
  <2>1. ASSUME NEW t \in 0 .. WeightMax
        PROVE  Span!Components(SpanUpTo(SpanChosen \cup {r}, t))
                 = Span!Components(SpanUpTo((Span!AllEdges \ SpanUnread) \cup {r}, t))
    <3> DEFINE seen == Span!AllEdges \ SpanUnread
    <3>1. \A u \in 0 .. WeightMax : Span!Components(SpanUpTo(SpanChosen, u))
            = Span!Components(SpanUpTo(seen, u))
      BY <1>1 DEF SpanJoinsAll
    <3>2. SpanNoLighterThan(r, SpanChosen, seen)
      BY <1>4, <1>11, <3>1 DEF SpanNoLighterThan
    <3> HIDE DEF seen
    <3>3. Span!Components(SpanUpTo(SpanChosen \cup {r}, t))
            = Span!Components(SpanUpTo(seen \cup {r}, t))
      BY <3>2, SpanJoinsMore
    <3> QED
      BY <3>3 DEF seen
  <2> QED
    BY <1>9, <1>10, <2>1 DEF SpanJoinsAll
<1>19. \A i, j \in 1 .. k : i < j => Span!Before(sorted'[i], sorted'[j])
  <2>1. ASSUME NEW i \in 1 .. k, NEW j \in 1 .. k, i < j
        PROVE  Span!Before(sorted'[i], sorted'[j])
    <3>1. i \in 1 .. selected_count /\ sorted'[i] = sorted[i] /\ sorted[i] \in SpanChosen
      <4>1. i \in 1 .. selected_count
        BY <1>3, <2>1
      <4> QED
        BY <1>6, <4>1 DEF SpanChosen
    <3>2. CASE j = k
      BY <1>4, <1>5, <1>11, <3>1, <3>2
    <3>3. CASE j # k
      <4>1. j \in 1 .. selected_count /\ sorted'[j] = sorted[j]
        BY <1>3, <1>6, <3>3
      <4> QED
        BY <1>1, <2>1, <3>1, <4>1 DEF SpanInOrder
    <3> QED
      BY <3>2, <3>3
  <2> QED
    BY <2>1
<1> QED
  BY <1>1, <1>3, <1>5, <1>7, <1>9, <1>16, <1>17, <1>18, <1>19, SpanStillSelecting DEF r


------------------------------------------------------------------------------
(* What the selecting loop leaves. *)
LEMMA SpanPutOutStep ==
  ASSUME SpanIndInv, Span!PutOut
  PROVE  SpanIndInv'
<1>1. /\ SpanTyped /\ SpanForest /\ SpanInOrder /\ SpanJoinsAll /\ pc = "select"
         /\ index = Len(sorted)
      /\ selected_count <= out_capacity
      /\ out' = [edges |-> Span!Selected, total |-> total_weight] /\ Span!Return(TRUE, blocks)
  BY DEF SpanIndInv, SpanReading, Span!PutOut, Span!Output
<1>2. /\ UNCHANGED <<weight, out_capacity, Span!locals>> /\ blocks' = 0 /\ pc' = "done"
         /\ ok' = TRUE
  BY <1>1, SpanReturnFrees
<1>3. /\ Span!RangeOf(Span!Selected) = SpanChosen /\ Len(Span!Selected) = selected_count
      /\ DOMAIN Span!Selected = 1 .. selected_count
      /\ \A i \in 1 .. selected_count : Span!Selected[i] = sorted[i]
      /\ SpanChosen \subseteq Span!AllEdges /\ Span!AllEdges \subseteq SpanLinks
         /\ IsFiniteSet(Span!AllEdges)
  BY <1>1, SpanChosenFacts
<1>4. SpanUnread = {}
  <2>1. index + 1 .. Len(sorted) = {}
    BY <1>1 DEF SpanTyped
  <2> QED
    BY <2>1 DEF SpanUnread
<1>5. \A t \in 0 .. WeightMax : Span!Components(SpanUpTo(SpanChosen, t))
        = Span!Components(SpanUpTo(Span!AllEdges, t))
  BY <1>1, <1>4 DEF SpanJoinsAll
<1>6. Span!Components(SpanChosen) = Span!Components(Span!AllEdges)
  <2>1. \A e \in Span!AllEdges : e.weight \in 0 .. WeightMax
    BY <1>3 DEF SpanLinks
  <2>2. WeightMax \in 0 .. WeightMax /\ \A w \in 0 .. WeightMax : w <= WeightMax
    BY SpanVertexConstants
  <2>3. SpanUpTo(SpanChosen, WeightMax) = SpanChosen
        /\ SpanUpTo(Span!AllEdges, WeightMax) = Span!AllEdges
    BY <1>3, <2>1, <2>2 DEF SpanUpTo
  <2> QED
    BY <1>5, <2>2, <2>3
<1>7. SpanChosen \in Span!Spanning
  BY <1>3, <1>6, SpanSpanningMeans
<1>8. ASSUME NEW F \in Span!Spanning PROVE Span!WeightOfAll(SpanChosen) <= Span!WeightOfAll(F)
  <2>1. F \in SUBSET Span!AllEdges /\ Span!Components(F) = Span!Components(Span!AllEdges)
        /\ SpanChosen \in SUBSET Span!AllEdges
    BY <1>3, SpanSpanningMeans
  <2>2. Span!Cardinality(SpanChosen) = VertexCount - Span!Cardinality(Span!Components(SpanChosen))
    BY <1>1 DEF SpanForest
  <2> QED
    BY <1>3, <1>5, <2>1, <2>2, SpanNoneLighter
<1>9. Span!LeastWeight = total_weight /\ Span!WeightOfAll(SpanChosen) = total_weight
  <2>1. Span!LeastWeight = Span!WeightOfAll(SpanChosen)
    BY <1>1, <1>7, <1>8, SpanLeastWeightOf DEF SpanTyped
  <2> QED
    BY <1>1, <2>1 DEF SpanForest
<1>10. /\ Span!AllEdges' = Span!AllEdges /\ groups' = groups /\ out_capacity' = out_capacity
       /\ Span!Spanning' = Span!Spanning
  BY <1>1, <1>2 DEF Span!AllEdges, Span!Edges, Span!Edge, Span!locals, Span!Spanning
<1>11. Span!LeastWeight' = Span!LeastWeight
  BY <1>10 DEF Span!LeastWeight
<1>12. out'.edges = Span!Selected /\ out'.total = total_weight
  BY <1>1
<1>13. Span!LeastForest'
  <2>1. Span!RangeOf(out.edges)' = SpanChosen
    BY <1>3, <1>12 DEF Span!RangeOf
  <2>2. /\ Span!RangeOf(out.edges)' \subseteq Span!AllEdges' /\ out'.total = Span!LeastWeight'
        /\ Span!Components(Span!RangeOf(out.edges))' = Span!Components(Span!AllEdges)'
    BY <1>3, <1>6, <1>9, <1>10, <1>11, <1>12, <2>1
  <2>3. out'.total = Span!WeightOfAll(Span!RangeOf(out.edges))'
    BY <1>9, <1>12, <2>1
  <2>4. Len(out'.edges) = VertexCount - Span!Cardinality(groups')
        /\ Len(out'.edges) <= out_capacity'
    BY <1>1, <1>3, <1>10, <1>12 DEF SpanForest
  <2>5. \A i, j \in DOMAIN out'.edges : i < j => Span!Before(out'.edges[i], out'.edges[j])
    BY <1>1, <1>3, <1>12 DEF SpanInOrder
  <2> QED
    BY <2>2, <2>3, <2>4, <2>5 DEF Span!LeastForest
<1> QED
  BY <1>2, <1>13, SpanLeavingStep

(* An edge too heavy for the total: with it the selected edges would still *)
(* be the lightest that join what they join.                               *)
LEMMA SpanTooHeavyMeans ==
  ASSUME SpanIndInv, Span!TooHeavy
  PROVE  Span!LeastWeight > WeightMax
<1> DEFINE r == Span!Read
           T == SpanChosen \cup {r}
<1>1. /\ SpanTyped /\ SpanForest /\ SpanInOrder /\ SpanJoinsAll /\ pc = "select"
         /\ index < Len(sorted)
      /\ Span!Joins(r) /\ Span!Overflows(r)
  BY DEF SpanIndInv, SpanReading, Span!TooHeavy
<1>2. /\ r \in Span!AllEdges /\ r \in SpanLinks /\ r \notin SpanChosen
      /\ \A d \in Span!AllEdges \ SpanUnread : d.weight <= r.weight
      /\ \A e \in SpanUnread : r.weight <= e.weight
  BY <1>1, SpanReadFacts
<1>3. /\ SpanChosen \subseteq Span!AllEdges \ SpanUnread /\ SpanUnread \subseteq Span!AllEdges
      /\ Span!AllEdges \subseteq SpanLinks /\ IsFiniteSet(Span!AllEdges)
         /\ IsFiniteSet(SpanChosen)
      /\ SpanChosen \subseteq SpanLinks /\ r.from \in Span!Vertices /\ r.to \in Span!Vertices
  BY <1>1, <1>2, SpanChosenFacts DEF SpanInOrder, SpanLinks
<1> HIDE DEF r
<1>4. Span!Component(SpanChosen, r.from) # Span!Component(SpanChosen, r.to)
  BY <1>1, <1>3, SpanGroupOfIs DEF Span!Joins, SpanForest
<1>5. T \subseteq Span!AllEdges
      /\ Span!Cardinality(T) = VertexCount - Span!Cardinality(Span!Components(T))
  <2>1. Span!Cardinality(SpanChosen) = VertexCount - Span!Cardinality(Span!Components(SpanChosen))
    BY <1>1 DEF SpanForest
  <2> QED
    BY <1>2, <1>3, <1>4, <2>1, SpanForestGrows
<1>6. /\ WeightMax \in Nat /\ r.weight \in 0 .. WeightMax
      /\ \A e \in Span!AllEdges : e.weight \in 0 .. WeightMax
  BY <1>2, <1>3, SpanVertexConstants DEF SpanLinks
<1>7. ASSUME NEW t \in 0 .. WeightMax
      PROVE  SpanAbove(T, t) = {}
             \/ Span!Components(SpanUpTo(T, t)) = Span!Components(SpanUpTo(Span!AllEdges, t))
  <2>1. CASE r.weight <= t
    <3>1. \A d \in T : ~(d.weight > t)
      BY <1>2, <1>3, <1>6, <2>1
    <3> QED
      BY <3>1 DEF SpanAbove
  <2>2. CASE r.weight > t
    <3>1. SpanUpTo(T, t) = SpanUpTo(SpanChosen, t)
      BY <1>6, <2>2 DEF SpanUpTo
    <3>2. \A e \in SpanUnread : ~(e.weight <= t)
      BY <1>2, <1>3, <1>6, <2>2
    <3>3. SpanUpTo(Span!AllEdges \ SpanUnread, t) = SpanUpTo(Span!AllEdges, t)
      BY <3>2 DEF SpanUpTo
    <3> QED
      BY <1>1, <3>1, <3>3 DEF SpanJoinsAll
  <2> QED
    BY <1>6, <2>1, <2>2
<1>8. Span!WeightOfAll(T) = total_weight + r.weight
  BY <1>1, <1>2, <1>3, SpanWeightOfMore DEF SpanForest
<1>9. PICK F \in Span!Spanning : Span!LeastWeight = Span!WeightOfAll(F)
  BY <1>1, SpanLeastWeightIs DEF SpanTyped
<1>10. F \in SUBSET Span!AllEdges /\ Span!Components(F) = Span!Components(Span!AllEdges)
       /\ T \in SUBSET Span!AllEdges
  BY <1>5, <1>9, SpanSpanningMeans
<1> HIDE DEF T
<1>11. Span!WeightOfAll(T) <= Span!WeightOfAll(F)
  BY <1>3, <1>5, <1>7, <1>10, SpanNoneLighter
<1>12. Span!LeastWeight \in Nat /\ total_weight \in 0 .. WeightMax
  BY <1>1, SpanLeastWeightIs DEF SpanTyped
<1>13. r.weight > WeightMax - total_weight
  BY <1>1 DEF Span!Overflows
<1> QED
  BY <1>6, <1>8, <1>9, <1>11, <1>12, <1>13

LEMMA SpanStepKeepsInvariant ==
  ASSUME SpanIndInv, [Span!Next]_spanVars
  PROVE  SpanIndInv'
<1>1. ASSUME NEW v \in Span!Vertices, Span!Passed(v) \/ Span!Collect(v) PROVE SpanIndInv'
  BY <1>1, SpanPassedStep, SpanCollectStep
<1>2. CASE Span!Begin
  BY <1>2, SpanBeginStep
<1>3. CASE Span!Refuse \/ Span!CollectFails \/ Span!SortFails \/ Span!TooHeavy \/ Span!NoRoom
  BY <1>3, SpanFailingStep
<1>4. CASE Span!NextFrom
  BY <1>4, SpanNextFromStep
<1>5. CASE Span!NoCandidates
  BY <1>5, SpanNoCandidatesStep
<1>6. CASE Span!Sort
  BY <1>6, SpanSortStep
<1>7. CASE Span!Select
  BY <1>7, SpanSelectStep
<1>8. CASE Span!Reject
  BY <1>8, SpanRejectStep
<1>9. CASE Span!PutOut
  BY <1>9, SpanPutOutStep
<1>10. CASE UNCHANGED spanVars
  BY <1>10, SpanStutterStep
<1> QED
  BY <1>1, <1>2, <1>3, <1>4, <1>5, <1>6, <1>7, <1>8, <1>9, <1>10 DEF Span!Next, Span!Turn

(* Only the two ways out that succeed write an output, and they end the    *)
(* call.                                                                   *)
LEMMA SpanOutputStep ==
  ASSUME Span!OutputIsLast, [Span!Next]_spanVars
  PROVE  Span!OutputIsLast'
<1>1. CASE Span!NoCandidates \/ Span!PutOut
  BY <1>1 DEF Span!NoCandidates, Span!PutOut, Span!Return, Span!OutputIsLast
<1>2. ASSUME UNCHANGED out, pc # "done" PROVE Span!OutputIsLast'
  BY <1>2 DEF Span!OutputIsLast
<1>3. CASE \/ Span!Begin \/ Span!Refuse \/ Span!CollectFails \/ Span!NextFrom
           \/ Span!Sort \/ Span!SortFails
  BY <1>2, <1>3 DEF Span!Begin, Span!Refuse, Span!CollectFails, Span!NextFrom, Span!Sort,
                    Span!SortFails, Span!Collected
<1>4. CASE Span!Select \/ Span!Reject \/ Span!TooHeavy \/ Span!NoRoom
  BY <1>2, <1>4 DEF Span!Select, Span!Reject, Span!TooHeavy, Span!NoRoom
<1>5. ASSUME NEW v \in Span!Vertices, Span!Passed(v) \/ Span!Collect(v)
      PROVE  Span!OutputIsLast'
  BY <1>2, <1>5 DEF Span!Passed, Span!Collect
<1>6. CASE UNCHANGED spanVars
  BY <1>6 DEF spanVars, Span!vars, Span!OutputIsLast
<1> QED
  BY <1>1, <1>3, <1>4, <1>5, <1>6 DEF Span!Next, Span!Turn

(* Why a call may fail once its edges are sorted. *)
SpanFailure ==
  \/ Span!LeastWeight > WeightMax
  \/ index = Len(sorted) /\ selected_count > out_capacity

LEMMA SpanStepFailsWhenTooHeavy ==
  ASSUME SpanIndInv, [Span!Next]_spanVars, pc = "select", pc' = "done", ~ok'
  PROVE  SpanFailure
<1>1. CASE Span!TooHeavy
  BY <1>1, SpanTooHeavyMeans DEF SpanFailure
<1>2. CASE Span!NoRoom
  BY <1>2 DEF Span!NoRoom, SpanFailure
<1>3. CASE Span!PutOut
  BY <1>3 DEF Span!PutOut, Span!Return
<1>4. CASE UNCHANGED spanVars
  BY <1>4 DEF spanVars, Span!vars
<1>5. Span!TooHeavy \/ Span!NoRoom \/ Span!PutOut \/ UNCHANGED spanVars
  BY
     DEF Span!Next, Span!Turn, Span!Begin, Span!Refuse, Span!Passed, Span!Collect,
         Span!CollectFails, Span!NextFrom, Span!NoCandidates, Span!Sort,
         Span!SortFails, Span!Select, Span!Reject, Span!Collected
<1> QED
  BY <1>1, <1>2, <1>3, <1>4, <1>5

------------------------------------------------------------------------------
(* The run: a call of a traversal or a call of kruskal.c.                  *)
AlgorithmsIndInv == IF kind = "span" THEN SpanIndInv /\ Span!OutputIsLast ELSE IndInv

LEMMA AlgorithmsSteps ==
  /\ AlgorithmsInit => AlgorithmsIndInv
  /\ AlgorithmsIndInv /\ [AlgorithmsNext]_algorithmsVars => AlgorithmsIndInv'
<1>1. AlgorithmsInit => AlgorithmsIndInv
  BY InitIndInv, SpanInitIndInv DEF AlgorithmsInit, AlgorithmsIndInv, Span!Init, Span!OutputIsLast
<1>2. ASSUME AlgorithmsIndInv, [AlgorithmsNext]_algorithmsVars
      PROVE  AlgorithmsIndInv'
  <2>1. CASE kind = "span"
    <3>1. kind' = kind /\ [Span!Next]_spanVars
      BY <1>2, <2>1 DEF AlgorithmsNext, algorithmsVars, vars, spanOnly, spanVars, Span!vars,
                        Span!locals
    <3> QED
      BY <1>2, <2>1, <3>1, SpanStepKeepsInvariant, SpanOutputStep DEF AlgorithmsIndInv
  <2>2. CASE kind # "span"
    <3>1. kind' = kind /\ [Next]_vars
      BY <1>2, <2>2 DEF AlgorithmsNext, algorithmsVars
    <3> QED
      BY <1>2, <2>2, <3>1, StepKeeps DEF AlgorithmsIndInv
  <2> QED
    BY <2>1, <2>2
<1> QED
  BY <1>1, <1>2

LEMMA AlgorithmsInductive == AlgorithmsSpec => []AlgorithmsIndInv
BY AlgorithmsSteps, PTL DEF AlgorithmsSpec

(* The loops of breadth_first_search.c, depth_first_search.c and kruskal.c *)
(* keep their invariants: in kruskal.c the selected edges, written over    *)
(* the array that is still being read, are a forest over the groups of     *)
(* union-find, what is not read yet is as it was sorted, and a call that   *)
(* fails has written no output.                                            *)
THEOREM LoopsKeepInvariants == AlgorithmsSpec => []LoopsWellFormed
<1>1. AlgorithmsIndInv => LoopsWellFormed
  BY SpanIndInvImplies DEF AlgorithmsIndInv, LoopsWellFormed, IndInv, WellFormed
<1> QED
  BY <1>1, AlgorithmsInductive, PTL

(* What kruskal.c puts out is a spanning forest of least weight, on every  *)
(* graph and with every weight a uint64_t holds, and that weight.          *)
THEOREM SpansWithLeast == AlgorithmsSpec => []SpanIsLeast
<1>1. AlgorithmsIndInv => SpanIsLeast
  BY SpanIndInvImplies DEF AlgorithmsIndInv, SpanIsLeast
<1> QED
  BY <1>1, AlgorithmsInductive, PTL

(* kruskal.c reports that the weights overflow only when every spanning    *)
(* forest does, and that room is lacking only when the forest is complete. *)
THEOREM FailsOnlyWhenTooHeavy == AlgorithmsSpec => FailsWhenTooHeavy
<1>1. ASSUME AlgorithmsIndInv, [AlgorithmsNext]_algorithmsVars
      PROVE  [kind = "span" /\ pc = "select" /\ pc' = "done" /\ ~ok'
                => SpanFailure]_algorithmsVars
  <2>1. ASSUME kind = "span", pc = "select", pc' = "done", ~ok'
        PROVE  SpanFailure
    <3>1. SpanIndInv /\ [Span!Next]_spanVars
      BY <1>1, <2>1 DEF AlgorithmsIndInv, AlgorithmsNext, algorithmsVars, vars, spanOnly,
                        spanVars, Span!vars, Span!locals
    <3> QED
      BY <2>1, <3>1, SpanStepFailsWhenTooHeavy
  <2> QED
    BY <2>1
<1>2. AlgorithmsIndInv /\ [AlgorithmsNext]_algorithmsVars =>
        [kind = "span" /\ pc = "select" /\ pc' = "done" /\ ~ok'
           => SpanFailure]_algorithmsVars
  BY <1>1
<1> QED
  BY <1>2, AlgorithmsInductive, PTL DEF AlgorithmsSpec, FailsWhenTooHeavy, SpanFailure
==============================================================================
