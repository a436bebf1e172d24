----------------------------- MODULE MCSortsProofs ----------------------------
(***************************************************************************)
(* The algorithms on arrays are correct for arrays of every length, and    *)
(* the harness for every number of samples: what the run of MCSorts checks *)
(* of a few.                                                               *)
(*                                                                         *)
(* First the comparison sorts, whose names MCSorts shares.  The inductive  *)
(* invariant of the six has a part for each, about the states in which its *)
(* loops run, and a step of one sort leaves the other parts alone; so the  *)
(* six proofs do not meet.  Then the searches, the sorts that count, the   *)
(* harness, and last all of them together.                                 *)
(***************************************************************************)
EXTENDS MCSorts, Arithmetic, SequenceTheorems, FiniteSetTheorems

(* ---------------------------- comparison sorts ---------------------------- *)
(* What every loop keeps.                                                  *)
Common ==
  /\ SortAssumption
  /\ count \in Nat
  /\ TypeOK
  /\ ItemsKept
  /\ NothingLeaks
  /\ pc # "zip" => temp = <<>>
  /\ pc \notin {"quick", "partition", "merge", "zip"} => todo = <<>>
  /\ pc # "idle" => count > 1

(* heap_sort keeps the index of the last parent in an int.                 *)
HeapFits == MaxCount \div 2 <= IntMax + 1

(* What a call leaves when it returns. *)
IdleInv == pc = "idle" => (HeapFits \/ sort # "heap" => SortsOrLeaves)

------------------------------------------------------------------------------
(* What Common says of the array. *)
LEMMA ArrayFacts ==
  ASSUME Common
  PROVE  /\ count \in Nat /\ Positions = 0 .. count - 1 /\ DOMAIN items = 0 .. count - 1
         /\ count <= MaxCount /\ MaxCount <= SizeMax /\ SizeMax \in Nat
         /\ \A i \in 0 .. count - 1 :
              /\ items[i].key \in Int /\ items[i].place \in 0 .. count - 1
              /\ items[i] \in [key : Keys, place : 0 .. count - 1]
         /\ \A i \in 0 .. count - 1 : \E j \in 0 .. count - 1 : items[j].place = i
<1>1. count \in Nat /\ Positions = 0 .. count - 1 /\ DOMAIN items = 0 .. count - 1
  BY DEF Common, TypeOK, Positions
<1>2. count <= MaxCount /\ MaxCount <= SizeMax /\ SizeMax \in Nat /\ Keys \subseteq Int
  BY DEF Common, TypeOK, SortAssumption
<1>3. \A i \in 0 .. count - 1 : items[i] \in [key : Keys, place : 0 .. count - 1]
  BY <1>1 DEF Common, TypeOK
<1>4. \A i \in 0 .. count - 1 : \E j \in 0 .. count - 1 : items[j].place = i
  BY <1>1 DEF Common, ItemsKept
<1> HIDE DEF count
<1>5. \A i \in 0 .. count - 1 : items[i].key \in Int /\ items[i].place \in 0 .. count - 1
  BY <1>2, <1>3
<1> QED
  BY <1>1, <1>2, <1>3, <1>4, <1>5

(* A step that leaves an array of the same items.                          *)
ArrayKept ==
  /\ DOMAIN items' = DOMAIN items
  /\ \A k \in 0 .. count - 1 : items'[k] \in [key : Keys, place : 0 .. count - 1]
  /\ \A p \in 0 .. count - 1 : \E k \in 0 .. count - 1 : items'[k].place = p

LEMMA CountKept ==
  ASSUME DOMAIN items' = DOMAIN items
  PROVE  count' = count /\ Positions' = Positions
BY DEF count, Positions

LEMMA SameKeeps ==
  ASSUME Common, UNCHANGED items
  PROVE  ArrayKept
BY ArrayFacts DEF ArrayKept

LEMMA RenumberKeeps ==
  ASSUME Common, items' = Renumbered
  PROVE  /\ ArrayKept
         /\ \A k \in 0 .. count - 1 : items'[k].place = k /\ items'[k].key = items[k].key
<1>1. /\ count \in Nat /\ DOMAIN items = 0 .. count - 1
      /\ \A i \in 0 .. count - 1 : items[i] \in [key : Keys, place : 0 .. count - 1]
  BY ArrayFacts
<1> HIDE DEF count
<1>2. items' = [k \in 0 .. count - 1 |-> [key |-> items[k].key, place |-> k]]
  BY <1>1 DEF Renumbered
<1> QED
  BY <1>1, <1>2 DEF ArrayKept

LEMMA SwapKeeps ==
  ASSUME Common, NEW i \in 0 .. count - 1, NEW j \in 0 .. count - 1, items' = Swapped(i, j)
  PROVE  /\ ArrayKept
         /\ \A k \in 0 .. count - 1 :
              items'[k] = IF k = i THEN items[j] ELSE IF k = j THEN items[i] ELSE items[k]
<1>1. /\ DOMAIN items = 0 .. count - 1
      /\ \A k \in 0 .. count - 1 : items[k] \in [key : Keys, place : 0 .. count - 1]
      /\ \A p \in 0 .. count - 1 : \E k \in 0 .. count - 1 : items[k].place = p
  BY ArrayFacts
<1> HIDE DEF count
<1>2. /\ DOMAIN items' = DOMAIN items
      /\ \A k \in 0 .. count - 1 :
           items'[k] = IF k = i THEN items[j] ELSE IF k = j THEN items[i] ELSE items[k]
  <2> DEFINE first == [items EXCEPT ![i] = items[j]]
  <2>1. items' = [first EXCEPT ![j] = items[i]]
    BY DEF Swapped
  <2>2. /\ DOMAIN first = 0 .. count - 1
        /\ \A k \in 0 .. count - 1 : first[k] = IF k = i THEN items[j] ELSE items[k]
    BY <1>1
  <2> HIDE DEF first
  <2>3. /\ DOMAIN items' = 0 .. count - 1
        /\ \A k \in 0 .. count - 1 : items'[k] = IF k = j THEN items[i] ELSE first[k]
    BY <2>1, <2>2
  <2> QED
    BY <2>2, <2>3, <1>1
<1>3. \A k \in 0 .. count - 1 : items'[k] \in [key : Keys, place : 0 .. count - 1]
  BY <1>1, <1>2
<1>4. ASSUME NEW p \in 0 .. count - 1
      PROVE  \E k \in 0 .. count - 1 : items'[k].place = p
  <2>1. PICK k \in 0 .. count - 1 : items[k].place = p
    BY <1>1
  <2> DEFINE m == IF k = i THEN j ELSE IF k = j THEN i ELSE k
  <2>2. m \in 0 .. count - 1 /\ items'[m] = items[k]
    BY <1>2
  <2> QED
    BY <2>1, <2>2
<1> QED
  BY <1>2, <1>3, <1>4 DEF ArrayKept

(* A step inside the loops that do not recur, or out of them.              *)
Plain == {"bubble", "insertion", "selection", "heapify", "sift"}

LEMMA PlainKeeps ==
  ASSUME Common, ArrayKept, pc \in Plain \/ count > 1, pc' \in Plain \cup {"idle"}, sort' \in Sorts,
         todo' = <<>>, temp' = <<>>, blocks' = 0, ok' \in BOOLEAN
  PROVE  Common'
<1>1. count' = count /\ Positions' = Positions /\ Positions = 0 .. count - 1
  BY CountKept, ArrayFacts DEF ArrayKept
<1>2. SortAssumption /\ count \in Nat /\ DOMAIN items = 0 .. count - 1 /\ count <= MaxCount /\ count > 1
  BY ArrayFacts DEF Common, Plain
<1> HIDE DEF count
<1>3. TypeOK'
  <2>1. DOMAIN items' = Positions' /\ count' <= MaxCount
    BY <1>1, <1>2 DEF ArrayKept
  <2>2. \A i \in Positions' : items'[i] \in [key : Keys, place : Positions']
    BY <1>1 DEF ArrayKept
  <2>3. DOMAIN todo' = {} /\ DOMAIN temp' = {}
    OBVIOUS
  <2> QED
    BY <2>1, <2>2, <2>3 DEF TypeOK, Plain
<1>4. ItemsKept'
  <2>1. {items'[i].place : i \in 0 .. count - 1} = 0 .. count - 1
    BY SMTT(30) DEF ArrayKept
  <2> QED
    BY <2>1, <1>1 DEF ItemsKept
<1>5. NothingLeaks' /\ pc' # "zip"
  BY DEF NothingLeaks, Plain
<1> QED
  BY <1>1, <1>2, <1>3, <1>4, <1>5 DEF Common

LEMMA PlainLoopKeeps ==
  ASSUME Common, ArrayKept, pc \in Plain, pc' \in Plain,
         UNCHANGED <<sort, todo, temp, blocks, ok>>
  PROVE  Common'
<1>1. sort \in Sorts /\ todo = <<>> /\ temp = <<>> /\ blocks = 0 /\ ok \in BOOLEAN
  BY DEF Common, TypeOK, NothingLeaks, Plain
<1> QED
  BY <1>1, PlainKeeps

LEMMA PlainReturnKeeps ==
  ASSUME Common, ArrayKept, pc \in Plain, UNCHANGED sort, Return(TRUE)
  PROVE  Common'
<1>1. sort \in Sorts
  BY DEF Common, TypeOK
<1> QED
  BY <1>1, PlainKeeps DEF Return

LEMMA DownOfIndex ==
  ASSUME Common, NEW n \in 1 .. count - 1
  PROVE  Down(n) = n - 1
<1>1. count \in Nat /\ count <= MaxCount /\ MaxCount <= SizeMax /\ SizeMax \in Nat /\ MaxCount \in Nat
  BY ArrayFacts DEF Common, SortAssumption
<1> HIDE DEF count
<1>2. n - 1 \in 0 .. SizeMax
  BY <1>1
<1> QED
  BY <1>1, <1>2 DEF Down

------------------------------------------------------------------------------
(* Arrays of c items, and the exchange of two of them. *)
Holds(a, c) == c \in Nat /\ \A i \in 0 .. c - 1 : a[i].key \in Int /\ a[i].place \in Int

Exchange(b, a, c, i, j) ==
  /\ i \in 0 .. c - 1 /\ j \in 0 .. c - 1
  /\ \A k \in 0 .. c - 1 : b[k] = IF k = i THEN a[j] ELSE IF k = j THEN a[i] ELSE a[k]

(* What is the same for all sorts when a call starts or ends.              *)
LEMMA HoldsItems ==
  ASSUME Common
  PROVE  Holds(items, count)
BY ArrayFacts DEF Holds

LEMMA BeginsKept ==
  ASSUME Common, pc = "idle", count > 1, items' = Renumbered, pc' \in Plain, sort' \in Sorts,
         UNCHANGED <<todo, temp, blocks, ok>>
  PROVE  /\ Common' /\ count' = count
         /\ \A k \in 0 .. count - 1 : items'[k].place = k
<1>1. ArrayKept /\ \A k \in 0 .. count - 1 : items'[k].place = k
  BY RenumberKeeps
<1>2. count' = count
  BY <1>1, CountKept DEF ArrayKept
<1>3. todo = <<>> /\ temp = <<>> /\ blocks = 0 /\ ok \in BOOLEAN
  BY DEF Common, TypeOK, NothingLeaks
<1> QED
  BY <1>1, <1>2, <1>3, PlainKeeps

LEMMA ReturnsSorted ==
  ASSUME Common, Return(TRUE), UNCHANGED <<items, sort>>,
         \A i, j \in 0 .. count - 1 : i < j => AtMost(items[i], items[j]),
         sort \in StableSorts => \A i, j \in 0 .. count - 1 : i < j => Stably(items[i], items[j])
  PROVE  IdleInv'
<1>1. count' = count /\ Positions' = Positions /\ Positions = 0 .. count - 1
  BY CountKept, ArrayFacts
<1> HIDE DEF count
<1>2. ok' = TRUE /\ pc' = "idle"
  BY DEF Return
<1> QED
  BY <1>1, <1>2 DEF IdleInv, SortsOrLeaves, Ordered, Stably, AtMost

------------------------------------------------------------------------------
(* Bubble sort.  Equal items never pass each other, and a pass that has    *)
(* exchanged something has more than one item left.                        *)
BubbleFacts(a, c, n, b, swapped) ==
  /\ n \in 0 .. b /\ b \in 0 .. c - 1
  /\ \A j \in b + 1 .. c - 1, i \in 0 .. c - 1 : i < j => Stably(a[i], a[j])
  /\ \A i \in 0 .. n : AtMost(a[i], a[n])
  /\ swapped \/ \A i, j \in 0 .. n : i < j => Stably(a[i], a[j])
  /\ \A i, j \in 0 .. c - 1 : i < j /\ a[i].key = a[j].key => a[i].place <= a[j].place
  /\ swapped => n >= 1

BubbleRuns ==
  pc = "bubble" =>
    /\ at \in [n : Nat, boundary : Nat, swapped : BOOLEAN]
    /\ sort = "bubble"
    /\ BubbleFacts(items, count, at.n, at.boundary, at.swapped)

LEMMA BubbleSwaps ==
  ASSUME NEW a, NEW b, NEW c, NEW n, NEW boundary, NEW swapped \in BOOLEAN,
         Holds(a, c), BubbleFacts(a, c, n, boundary, swapped), n # boundary,
         a[n].key > a[n + 1].key, Exchange(b, a, c, n, n + 1)
  PROVE  BubbleFacts(b, c, n + 1, boundary, TRUE)
<1>1. n + 1 \in 0 .. boundary /\ boundary \in 0 .. c - 1 /\ n \in 0 .. boundary /\ n + 1 >= 1
  BY DEF BubbleFacts, Holds
<1>2. \A j \in boundary + 1 .. c - 1, i \in 0 .. c - 1 : i < j => Stably(b[i], b[j])
  BY <1>1 DEF BubbleFacts, Holds, Exchange
<1>3. \A i \in 0 .. n + 1 : AtMost(b[i], b[n + 1])
  BY <1>1 DEF BubbleFacts, Holds, Exchange, AtMost, Compare
<1>4. ASSUME NEW i \in 0 .. c - 1, NEW j \in 0 .. c - 1, i < j, b[i].key = b[j].key
      PROVE  b[i].place <= b[j].place
  <2>1. \A k, m \in 0 .. c - 1 : k < m /\ a[k].key = a[m].key => a[k].place <= a[m].place
    BY DEF BubbleFacts
  <2> QED
    BY <2>1, <1>1, <1>4 DEF Holds, Exchange
<1> QED
  BY <1>1, <1>2, <1>3, <1>4 DEF BubbleFacts

LEMMA BubblePasses ==
  ASSUME NEW a, NEW c, NEW n, NEW boundary, NEW swapped \in BOOLEAN,
         Holds(a, c), BubbleFacts(a, c, n, boundary, swapped), n # boundary,
         ~(a[n].key > a[n + 1].key)
  PROVE  BubbleFacts(a, c, n + 1, boundary, swapped)
<1>1. n + 1 \in 0 .. boundary /\ boundary \in 0 .. c - 1 /\ n \in 0 .. boundary /\ n + 1 >= 1
  BY DEF BubbleFacts, Holds
<1>2. ASSUME NEW i \in 0 .. n + 1 PROVE AtMost(a[i], a[n + 1])
  <2>1. i \in 0 .. n => AtMost(a[i], a[n])
    BY DEF BubbleFacts
  <2> QED
    BY <2>1, <1>1, <1>2 DEF Holds, AtMost, Compare
<1>3. ASSUME ~swapped, NEW i \in 0 .. n + 1, NEW j \in 0 .. n + 1, i < j
      PROVE  Stably(a[i], a[j])
  <2>1. CASE j # n + 1
    BY <2>1, <1>1, <1>3 DEF BubbleFacts
  <2>2. CASE j = n + 1
    <3>1. AtMost(a[i], a[j])
      BY <2>2, <1>2
    <3>2. i \in 0 .. c - 1 /\ j \in 0 .. c - 1
      BY <1>1, <1>3, <2>2 DEF Holds
    <3>3. a[i].key = a[j].key => a[i].place <= a[j].place
      BY <3>2, <1>3 DEF BubbleFacts
    <3> QED
      BY <3>1, <3>2, <3>3 DEF Holds, AtMost, Stably, Compare
  <2> QED
    BY <2>1, <2>2
<1> QED
  BY <1>1, <1>2, <1>3 DEF BubbleFacts

LEMMA BubbleStartsOver ==
  ASSUME NEW a, NEW c, NEW boundary, Holds(a, c), BubbleFacts(a, c, boundary, boundary, TRUE)
  PROVE  BubbleFacts(a, c, 0, boundary - 1, FALSE) /\ boundary \in 1 .. c - 1
<1>1. boundary \in 1 .. c - 1 /\ 0 \in 0 .. boundary - 1 /\ boundary - 1 \in 0 .. c - 1 /\ c \in Nat
  BY DEF BubbleFacts, Holds
<1>2. ASSUME NEW j \in (boundary - 1) + 1 .. c - 1, NEW i \in 0 .. c - 1, i < j
      PROVE  Stably(a[i], a[j])
  <2>1. CASE j \in boundary + 1 .. c - 1
    BY <2>1, <1>2 DEF BubbleFacts
  <2>2. CASE j = boundary
    <3>1. AtMost(a[i], a[j])
      BY <1>1, <1>2, <2>2 DEF BubbleFacts
    <3>2. a[i].key = a[j].key => a[i].place <= a[j].place
      BY <1>1, <1>2, <2>2 DEF BubbleFacts
    <3> QED
      BY <3>1, <3>2, <1>1, <2>2 DEF Holds, AtMost, Stably, Compare
  <2> QED
    BY <2>1, <2>2, <1>1
<1>3. AtMost(a[0], a[0])
  BY <1>1 DEF Holds, AtMost, Compare
<1>4. \A i, j \in 0 .. c - 1 : i < j /\ a[i].key = a[j].key => a[i].place <= a[j].place
  BY DEF BubbleFacts
<1> QED
  BY <1>1, <1>2, <1>3, <1>4 DEF BubbleFacts

LEMMA BubbleEndsSorted ==
  ASSUME NEW a, NEW c, NEW boundary, Holds(a, c), BubbleFacts(a, c, boundary, boundary, FALSE)
  PROVE  \A i, j \in 0 .. c - 1 : i < j => Stably(a[i], a[j])
<1>1. boundary \in 0 .. c - 1 /\ c \in Nat
  BY DEF BubbleFacts, Holds
<1>2. \A j \in boundary + 1 .. c - 1, i \in 0 .. c - 1 : i < j => Stably(a[i], a[j])
  BY DEF BubbleFacts
<1>3. \A i, j \in 0 .. boundary : i < j => Stably(a[i], a[j])
  BY DEF BubbleFacts
<1> QED
  BY <1>1, <1>2, <1>3

LEMMA BubbleKeeps ==
  ASSUME Common, BubbleRuns, BubbleCompares \/ BubbleNextPass
  PROVE  Common' /\ BubbleRuns' /\ pc' = "bubble"
<1>1. pc = "bubble" /\ pc' = "bubble" /\ UNCHANGED <<sort, todo, temp, blocks, ok>>
  BY DEF BubbleCompares, BubbleNextPass, Loops
<1>2. /\ at \in [n : Nat, boundary : Nat, swapped : BOOLEAN]
      /\ sort = "bubble"
      /\ BubbleFacts(items, count, at.n, at.boundary, at.swapped)
      /\ Holds(items, count)
  BY <1>1, HoldsItems DEF BubbleRuns
<1>3. at.n \in 0 .. at.boundary /\ at.boundary \in 0 .. count - 1 /\ count \in Nat
  BY <1>2 DEF BubbleFacts, Holds
<1>4. SUFFICES /\ ArrayKept
               /\ at' \in [n : Nat, boundary : Nat, swapped : BOOLEAN]
               /\ BubbleFacts(items', count, at'.n, at'.boundary, at'.swapped)
  <2>1. count' = count
    BY CountKept, <1>4 DEF ArrayKept
  <2>2. Common'
    BY <1>1, <1>4, PlainLoopKeeps DEF Plain
  <2> QED
    BY <1>1, <1>2, <1>4, <2>1, <2>2 DEF BubbleRuns
<1>5. CASE BubbleCompares /\ OutOfOrder(at.n)
  <2>1. /\ at.n # at.boundary /\ items[at.n].key > items[at.n + 1].key
        /\ items' = Swapped(at.n, at.n + 1) /\ at' = [at EXCEPT !.n = @ + 1, !.swapped = TRUE]
    <3>1. at.n \in 0 .. count - 1 /\ (at.n # at.boundary => at.n + 1 \in 0 .. count - 1)
      BY <1>3
    <3> QED
      BY <3>1, <1>2, <1>5 DEF BubbleCompares, OutOfOrder, Compare, Holds
  <2>2. at.n \in 0 .. count - 1 /\ at.n + 1 \in 0 .. count - 1
    BY <1>3, <2>1
  <2>3. ArrayKept /\ Exchange(items', items, count, at.n, at.n + 1)
    BY <2>1, <2>2, SwapKeeps DEF Exchange
  <2>4. BubbleFacts(items', count, at.n + 1, at.boundary, TRUE)
    BY <2>1, <2>3, <1>2, BubbleSwaps
  <2>5. /\ at'.n = at.n + 1 /\ at'.boundary = at.boundary /\ at'.swapped = TRUE
        /\ at' \in [n : Nat, boundary : Nat, swapped : BOOLEAN]
    <3> DEFINE scanned == [at EXCEPT !.n = at.n + 1]
    <3>1. /\ scanned \in [n : Nat, boundary : Nat, swapped : BOOLEAN]
          /\ scanned.n = at.n + 1 /\ scanned.boundary = at.boundary
      BY <1>2
    <3>2. at' = [scanned EXCEPT !.swapped = TRUE]
      BY <2>1
    <3> HIDE DEF scanned
    <3> QED
      BY <3>1, <3>2
  <2> QED
    BY <2>3, <2>4, <2>5
<1>6. CASE BubbleCompares /\ ~OutOfOrder(at.n)
  <2>1. /\ at.n # at.boundary /\ ~(items[at.n].key > items[at.n + 1].key)
        /\ items' = items /\ at' = [at EXCEPT !.n = @ + 1]
    <3>1. at.n \in 0 .. count - 1 /\ (at.n # at.boundary => at.n + 1 \in 0 .. count - 1)
      BY <1>3
    <3> QED
      BY <3>1, <1>2, <1>6 DEF BubbleCompares, OutOfOrder, Compare, Holds
  <2>2. BubbleFacts(items, count, at.n + 1, at.boundary, at.swapped)
    BY <2>1, <1>2, BubblePasses
  <2> QED
    BY <2>1, <2>2, <1>2, SameKeeps
<1>7. CASE BubbleNextPass
  <2>1. /\ at.n = at.boundary /\ at.swapped = TRUE /\ items' = items
        /\ at' = [n |-> 0, boundary |-> Down(at.boundary), swapped |-> FALSE]
    BY <1>2, <1>7 DEF BubbleNextPass
  <2>2. BubbleFacts(items, count, 0, at.boundary - 1, FALSE) /\ at.boundary \in 1 .. count - 1
    BY <2>1, <1>2, BubbleStartsOver
  <2>3. Down(at.boundary) = at.boundary - 1
    BY <2>2, DownOfIndex
  <2>4. /\ at'.n = 0 /\ at'.boundary = at.boundary - 1 /\ at'.swapped = FALSE
        /\ at' \in [n : Nat, boundary : Nat, swapped : BOOLEAN]
    BY <2>1, <2>2, <2>3, <1>3
  <2> QED
    BY <2>1, <2>2, <2>4, SameKeeps
<1> QED
  BY <1>5, <1>6, <1>7

LEMMA BubbleReturns ==
  ASSUME Common, BubbleRuns, BubbleEnds
  PROVE  Common' /\ IdleInv' /\ pc' = "idle"
<1>1. pc = "bubble" /\ at.n = at.boundary /\ ~at.swapped /\ Return(TRUE) /\ UNCHANGED <<items, sort>>
  BY DEF BubbleEnds
<1>2. BubbleFacts(items, count, at.boundary, at.boundary, FALSE) /\ Holds(items, count)
  <2>1. at.swapped \in BOOLEAN /\ BubbleFacts(items, count, at.n, at.boundary, at.swapped)
    BY <1>1 DEF BubbleRuns
  <2> QED
    BY <2>1, <1>1, HoldsItems
<1>3. \A i, j \in 0 .. count - 1 : i < j => Stably(items[i], items[j])
  BY <1>2, BubbleEndsSorted
<1>4. \A i, j \in 0 .. count - 1 : i < j => AtMost(items[i], items[j])
  BY <1>2, <1>3 DEF Stably, AtMost, Compare, Holds
<1>5. Common'
  BY <1>1, SameKeeps, PlainReturnKeeps DEF Plain
<1> QED
  BY <1>1, <1>3, <1>4, <1>5, ReturnsSorted DEF Return

LEMMA BubbleStarts ==
  ASSUME Common, BubbleBegins
  PROVE  Common' /\ BubbleRuns' /\ pc' = "bubble"
<1>1. /\ pc = "idle" /\ count > 1 /\ sort' = "bubble" /\ items' = Renumbered /\ pc' = "bubble"
      /\ at' = [n |-> 0, boundary |-> count - 1, swapped |-> FALSE]
      /\ UNCHANGED <<todo, temp, blocks, ok>>
  BY DEF BubbleBegins, Starts
<1>2. Common' /\ count' = count /\ \A k \in 0 .. count - 1 : items'[k].place = k
  BY <1>1, BeginsKept DEF Plain, Sorts
<1>3. (Common => Holds(items, count))'
  BY HoldsItems, PTL
<1>4. Holds(items', count) /\ count \in Nat
  BY <1>2, <1>3 DEF Common
<1>5. count - 1 \in 0 .. count - 1 /\ 0 \in 0 .. count - 1
  BY <1>1, <1>4
<1> DEFINE b == items'
<1>6. Holds(b, count) /\ \A k \in 0 .. count - 1 : b[k].place = k
  BY <1>2, <1>4
<1> HIDE DEF b, count
<1>7. BubbleFacts(b, count, 0, count - 1, FALSE)
  BY <1>4, <1>5, <1>6 DEF BubbleFacts, Holds, AtMost, Stably, Compare
<1>8. /\ at'.n = 0 /\ at'.boundary = count - 1 /\ at'.swapped = FALSE
      /\ at' \in [n : Nat, boundary : Nat, swapped : BOOLEAN]
  BY <1>1, <1>5
<1> QED
  BY <1>1, <1>2, <1>7, <1>8 DEF BubbleRuns, b

LEMMA BubbleIsRight ==
  ASSUME Common, BubbleRuns
  PROVE  /\ pc = "bubble" => at.n <= at.boundary /\ at.boundary \in Positions
         /\ BubbleLoop
<1> SUFFICES ASSUME pc = "bubble"
             PROVE  at.n <= at.boundary /\ at.boundary \in Positions /\ BubbleLoop
  BY DEF BubbleLoop
<1>1. Positions = 0 .. count - 1 /\ count \in Nat
  BY ArrayFacts
<1>2. BubbleFacts(items, count, at.n, at.boundary, at.swapped)
  BY DEF BubbleRuns
<1> HIDE DEF count
<1> QED
  BY <1>1, <1>2 DEF BubbleFacts, BubbleLoop, Ordered

------------------------------------------------------------------------------
(* Insertion sort.  The item that moves is the one that was at index, all  *)
(* others of the prefix were before it.                                    *)
InsertionFacts(a, c, index, i) ==
  /\ index \in 0 .. c - 1 /\ i \in 0 .. index
  /\ \A j, k \in (0 .. index) \ {i} : j < k => Stably(a[j], a[k])
  /\ \A j \in i + 1 .. index : a[i].key < a[j].key
  /\ \A j \in index + 1 .. c - 1 : a[j].place = j
  /\ a[i].place = index
  /\ \A j \in (0 .. index) \ {i} : a[j].place < index

InsertionRuns ==
  pc = "insertion" =>
    /\ at \in [index : Nat, i : Nat]
    /\ sort = "insertion"
    /\ InsertionFacts(items, count, at.index, at.i)

LEMMA InsertionMoves ==
  ASSUME NEW a, NEW b, NEW c, NEW index, NEW i, Holds(a, c), InsertionFacts(a, c, index, i),
         i > 0, a[i - 1].key > a[i].key, Exchange(b, a, c, i - 1, i)
  PROVE  InsertionFacts(b, c, index, i - 1)
<1>1. index \in 0 .. c - 1 /\ i \in 1 .. index /\ i - 1 \in 0 .. index
  BY DEF InsertionFacts, Holds
<1>2. ASSUME NEW j \in (0 .. index) \ {i - 1}, NEW k \in (0 .. index) \ {i - 1}, j < k
      PROVE  Stably(b[j], b[k])
  <2>1. \A m, n \in (0 .. index) \ {i} : m < n => Stably(a[m], a[n])
    BY DEF InsertionFacts
  <2>2. CASE j # i /\ k # i
    BY <1>1, <1>2, <2>1, <2>2 DEF Holds, Exchange
  <2>3. CASE j = i
    <3>1. b[j] = a[i - 1] /\ b[k] = a[k] /\ k \in (0 .. index) \ {i}
      BY <1>1, <1>2, <2>3 DEF Holds, Exchange
    <3> QED
      BY <1>1, <1>2, <2>1, <2>3, <3>1
  <2>4. CASE k = i
    <3>1. b[k] = a[i - 1] /\ b[j] = a[j] /\ j \in (0 .. index) \ {i} /\ j < i - 1
      BY <1>1, <1>2, <2>4 DEF Holds, Exchange
    <3> QED
      BY <1>1, <1>2, <2>1, <2>4, <3>1
  <2> QED
    BY <2>2, <2>3, <2>4
<1>3. \A j \in i .. index : b[i - 1].key < b[j].key
  BY <1>1 DEF InsertionFacts, Holds, Exchange
<1>4. \A j \in index + 1 .. c - 1 : b[j].place = j
  BY <1>1 DEF InsertionFacts, Holds, Exchange
<1>5. b[i - 1].place = index /\ \A j \in (0 .. index) \ {i - 1} : b[j].place < index
  BY <1>1 DEF InsertionFacts, Holds, Exchange
<1> QED
  BY <1>1, <1>2, <1>3, <1>4, <1>5 DEF InsertionFacts

LEMMA InsertionSettles ==
  ASSUME NEW a, NEW c, NEW index, NEW i, Holds(a, c), InsertionFacts(a, c, index, i),
         ~(i > 0 /\ a[i - 1].key > a[i].key)
  PROVE  \A j, k \in 0 .. index : j < k => Stably(a[j], a[k])
<1>1. index \in 0 .. c - 1 /\ i \in 0 .. index /\ c \in Nat
  BY DEF InsertionFacts, Holds
<1>2. \A j, k \in (0 .. index) \ {i} : j < k => Stably(a[j], a[k])
  BY DEF InsertionFacts
<1>3. ASSUME NEW j \in 0 .. index, NEW k \in 0 .. index, j < k
      PROVE  Stably(a[j], a[k])
  <2>1. CASE j = i
    BY <1>1, <1>3, <2>1 DEF InsertionFacts, Stably, Holds, Compare
  <2>2. CASE k = i
    <3>1. /\ i - 1 \in (0 .. index) \ {i} /\ i - 1 \in 0 .. c - 1 /\ i \in 0 .. c - 1
          /\ j \in (0 .. index) \ {i} /\ j \in 0 .. c - 1 /\ i > 0
      BY <1>1, <1>3, <2>2
    <3>2. a[i - 1].key <= a[i].key
      BY <3>1 DEF Holds
    <3>3. a[j].key <= a[i - 1].key
      <4>1. j = i - 1 \/ Stably(a[j], a[i - 1])
        BY <1>2, <1>3, <2>2, <3>1
      <4> QED
        BY <4>1, <3>1 DEF Holds, Stably, Compare
    <3>4. a[j].place < a[i].place
      BY <3>1 DEF InsertionFacts
    <3> QED
      BY <2>2, <3>1, <3>2, <3>3, <3>4 DEF Holds, Stably, Compare
  <2> QED
    BY <1>2, <1>3, <2>1, <2>2
<1> QED
  BY <1>3

LEMMA InsertionGoesOn ==
  ASSUME NEW a, NEW c, NEW index, NEW i, Holds(a, c), InsertionFacts(a, c, index, i),
         ~(i > 0 /\ a[i - 1].key > a[i].key), index + 1 # c
  PROVE  InsertionFacts(a, c, index + 1, index + 1)
<1>1. /\ index \in 0 .. c - 1 /\ i \in 0 .. index /\ c \in Nat
      /\ index + 1 \in 0 .. c - 1 /\ index + 1 \in 0 .. index + 1
  BY DEF InsertionFacts, Holds
<1>2. \A j, k \in (0 .. index + 1) \ {index + 1} : j < k => Stably(a[j], a[k])
  BY <1>1, InsertionSettles
<1>3. /\ a[index + 1].place = index + 1
      /\ \A j \in index + 2 .. c - 1 : a[j].place = j
  BY <1>1 DEF InsertionFacts
<1>4. \A j \in (0 .. index + 1) \ {index + 1} : a[j].place < index + 1
  BY <1>1 DEF InsertionFacts, Holds
<1> QED
  BY <1>1, <1>2, <1>3, <1>4 DEF InsertionFacts

LEMMA InsertionDisplaced ==
  ASSUME Common, InsertionRuns, pc = "insertion"
  PROVE  Displaced <=> at.i > 0 /\ items[at.i - 1].key > items[at.i].key
<1>1. Holds(items, count) /\ InsertionFacts(items, count, at.index, at.i)
  BY HoldsItems DEF InsertionRuns
<1> HIDE DEF count
<1>2. at.i \in 0 .. count - 1 /\ (at.i > 0 => at.i - 1 \in 0 .. count - 1)
  BY <1>1 DEF InsertionFacts, Holds
<1> QED
  BY <1>1, <1>2 DEF Displaced, Compare, Holds

LEMMA InsertionKeeps ==
  ASSUME Common, InsertionRuns, InsertionShifts \/ InsertionNext
  PROVE  Common' /\ InsertionRuns' /\ pc' = "insertion"
<1>1. pc = "insertion" /\ pc' = "insertion" /\ UNCHANGED <<sort, todo, temp, blocks, ok>>
  BY DEF InsertionShifts, InsertionNext, Loops
<1>2. /\ at \in [index : Nat, i : Nat]
      /\ sort = "insertion"
      /\ InsertionFacts(items, count, at.index, at.i)
      /\ Holds(items, count)
  BY <1>1, HoldsItems DEF InsertionRuns
<1>3. at.i \in 0 .. at.index /\ at.index \in 0 .. count - 1 /\ count \in Nat
  BY <1>2 DEF InsertionFacts, Holds
<1>4. SUFFICES /\ ArrayKept
               /\ at' \in [index : Nat, i : Nat]
               /\ InsertionFacts(items', count, at'.index, at'.i)
  <2>1. count' = count
    BY CountKept, <1>4 DEF ArrayKept
  <2>2. Common'
    BY <1>1, <1>4, PlainLoopKeeps DEF Plain
  <2> QED
    BY <1>1, <1>2, <1>4, <2>1, <2>2 DEF InsertionRuns
<1>5. CASE InsertionShifts
  <2>1. /\ at.i > 0 /\ items[at.i - 1].key > items[at.i].key
        /\ items' = Swapped(at.i - 1, at.i) /\ at' = [at EXCEPT !.i = @ - 1]
    BY <1>1, <1>5, InsertionDisplaced DEF InsertionShifts
  <2>2. at.i - 1 \in 0 .. count - 1 /\ at.i \in 0 .. count - 1
    BY <1>3, <2>1
  <2>3. ArrayKept /\ Exchange(items', items, count, at.i - 1, at.i)
    BY <2>1, <2>2, SwapKeeps DEF Exchange
  <2>4. InsertionFacts(items', count, at.index, at.i - 1)
    BY <2>1, <2>3, <1>2, InsertionMoves
  <2>5. at'.i = at.i - 1 /\ at'.index = at.index /\ at' \in [index : Nat, i : Nat]
    BY <1>2, <2>1, <2>2
  <2> QED
    BY <2>3, <2>4, <2>5
<1>6. CASE InsertionNext
  <2>1. /\ ~(at.i > 0 /\ items[at.i - 1].key > items[at.i].key) /\ at.index + 1 # count
        /\ items' = items /\ at' = [index |-> at.index + 1, i |-> at.index + 1]
    BY <1>1, <1>6, InsertionDisplaced DEF InsertionNext
  <2>2. InsertionFacts(items, count, at.index + 1, at.index + 1)
    BY <1>2, <2>1, InsertionGoesOn
  <2>3. at'.i = at.index + 1 /\ at'.index = at.index + 1 /\ at' \in [index : Nat, i : Nat]
    BY <1>2, <2>1
  <2> QED
    BY <2>1, <2>2, <2>3, SameKeeps
<1> QED
  BY <1>5, <1>6

LEMMA InsertionReturns ==
  ASSUME Common, InsertionRuns, InsertionEnds
  PROVE  Common' /\ IdleInv' /\ pc' = "idle"
<1>1. /\ pc = "insertion" /\ ~Displaced /\ at.index + 1 = count
      /\ Return(TRUE) /\ UNCHANGED <<items, sort>>
  BY DEF InsertionEnds
<1>2. InsertionFacts(items, count, at.index, at.i) /\ Holds(items, count) /\ at.index \in Nat
  BY <1>1, HoldsItems DEF InsertionRuns
<1>3. \A i, j \in 0 .. count - 1 : i < j => Stably(items[i], items[j])
  <2>1. \A i, j \in 0 .. at.index : i < j => Stably(items[i], items[j])
    BY <1>1, <1>2, InsertionDisplaced, InsertionSettles
  <2>2. at.index = count - 1
    BY <1>1, <1>2
  <2> QED
    BY <2>1, <2>2
<1>4. \A i, j \in 0 .. count - 1 : i < j => AtMost(items[i], items[j])
  BY <1>2, <1>3 DEF Stably, AtMost, Compare, Holds
<1>5. Common'
  BY <1>1, SameKeeps, PlainReturnKeeps DEF Plain
<1> QED
  BY <1>1, <1>3, <1>4, <1>5, ReturnsSorted DEF Return

LEMMA InsertionStarts ==
  ASSUME Common, InsertionBegins
  PROVE  Common' /\ InsertionRuns' /\ pc' = "insertion"
<1>1. /\ pc = "idle" /\ count > 1 /\ sort' = "insertion" /\ items' = Renumbered
      /\ pc' = "insertion" /\ at' = [index |-> 1, i |-> 1]
      /\ UNCHANGED <<todo, temp, blocks, ok>>
  BY DEF InsertionBegins, Starts
<1>2. Common' /\ count' = count /\ \A k \in 0 .. count - 1 : items'[k].place = k
  BY <1>1, BeginsKept DEF Plain, Sorts
<1>3. count \in Nat /\ 0 \in 0 .. count - 1 /\ 1 \in 0 .. count - 1
  BY <1>1 DEF Common
<1> DEFINE b == items'
<1>4. \A k \in 0 .. count - 1 : b[k].place = k
  BY <1>2
<1> HIDE DEF b, count
<1>5. InsertionFacts(b, count, 1, 1)
  BY <1>3, <1>4 DEF InsertionFacts
<1>6. at'.index = 1 /\ at'.i = 1 /\ at' \in [index : Nat, i : Nat]
  BY <1>1
<1> QED
  BY <1>1, <1>2, <1>5, <1>6 DEF InsertionRuns, b

LEMMA InsertionIsRight ==
  ASSUME Common, InsertionRuns
  PROVE  /\ pc = "insertion" => at.i <= at.index /\ at.index \in Positions
         /\ InsertionLoop
<1> SUFFICES ASSUME pc = "insertion"
             PROVE  at.i <= at.index /\ at.index \in Positions /\ InsertionLoop
  BY DEF InsertionLoop
<1>1. Positions = 0 .. count - 1 /\ Holds(items, count)
  BY ArrayFacts, HoldsItems
<1>2. InsertionFacts(items, count, at.index, at.i)
  BY DEF InsertionRuns
<1> HIDE DEF count
<1>3. at.i \in 0 .. at.index /\ at.index \in 0 .. count - 1
  BY <1>2 DEF InsertionFacts
<1>4. \A j \in at.i + 1 .. at.index : Compare(items[at.i], items[j]) < 0
  BY <1>1, <1>2, <1>3 DEF InsertionFacts, Holds, Compare
<1> QED
  BY <1>1, <1>2, <1>3, <1>4 DEF InsertionFacts, InsertionLoop, Ordered

------------------------------------------------------------------------------
(* Selection sort. *)
SelectionFacts(a, c, index, n, next) ==
  /\ index \in 0 .. c - 2 /\ n \in index .. c - 1 /\ next \in index .. c - 1
  /\ \A i \in 0 .. index - 1, j \in 0 .. c - 1 : i < j => AtMost(a[i], a[j])
  /\ AtMost(a[next], a[index])
  /\ \A j \in n + 1 .. c - 1 : AtMost(a[next], a[j]) /\ (j < next => a[next].key < a[j].key)

SelectionRuns ==
  pc = "selection" =>
    /\ at \in [index : Nat, n : Nat, next : Nat]
    /\ sort = "selection"
    /\ SelectionFacts(items, count, at.index, at.n, at.next)

LEMMA SelectionKeepsNext ==
  ASSUME NEW a, NEW c, NEW index, NEW n, NEW next, Holds(a, c),
         SelectionFacts(a, c, index, n, next), n # index, a[next].key < a[n].key
  PROVE  SelectionFacts(a, c, index, n - 1, next)
<1>1. c \in Nat /\ index \in 0 .. c - 2 /\ n - 1 \in index .. c - 1 /\ n \in index .. c - 1
  BY DEF SelectionFacts, Holds
<1>2. ASSUME NEW j \in (n - 1) + 1 .. c - 1
      PROVE  AtMost(a[next], a[j]) /\ (j < next => a[next].key < a[j].key)
  <2>1. next \in index .. c - 1 /\ j \in 0 .. c - 1 /\ next \in 0 .. c - 1
    BY <1>1, <1>2 DEF SelectionFacts
  <2>2. CASE j = n
    BY <1>1, <2>1, <2>2 DEF Holds, AtMost, Compare
  <2>3. CASE j # n
    <3>1. j \in n + 1 .. c - 1
      BY <1>1, <1>2, <2>3
    <3> QED
      BY <3>1 DEF SelectionFacts
  <2> QED
    BY <2>2, <2>3
<1> QED
  BY <1>1, <1>2 DEF SelectionFacts

LEMMA SelectionTakesNext ==
  ASSUME NEW a, NEW c, NEW index, NEW n, NEW next, Holds(a, c),
         SelectionFacts(a, c, index, n, next), n # index, ~(a[next].key < a[n].key)
  PROVE  SelectionFacts(a, c, index, n - 1, n)
<1>1. /\ c \in Nat /\ index \in 0 .. c - 2 /\ n - 1 \in index .. c - 1 /\ n \in index .. c - 1
      /\ next \in 0 .. c - 1 /\ index \in 0 .. c - 1 /\ n \in 0 .. c - 1
  BY DEF SelectionFacts, Holds
<1>2. a[n].key <= a[next].key /\ a[next].key <= a[index].key
  BY <1>1 DEF Holds, SelectionFacts, AtMost, Compare
<1>3. AtMost(a[n], a[index])
  BY <1>1, <1>2 DEF Holds, AtMost, Compare
<1>4. ASSUME NEW j \in (n - 1) + 1 .. c - 1
      PROVE  AtMost(a[n], a[j]) /\ ~(j < n)
  <2>1. j \in 0 .. c - 1 /\ ~(j < n)
    BY <1>1, <1>4
  <2>2. CASE j = n
    BY <1>1, <2>1, <2>2 DEF Holds, AtMost, Compare
  <2>3. CASE j # n
    <3>1. j \in n + 1 .. c - 1
      BY <1>1, <1>4, <2>3
    <3>2. AtMost(a[next], a[j])
      BY <3>1 DEF SelectionFacts
    <3> QED
      BY <1>1, <1>2, <2>1, <3>2 DEF Holds, AtMost, Compare
  <2> QED
    BY <2>1, <2>2, <2>3
<1> QED
  BY <1>1, <1>3, <1>4 DEF SelectionFacts

LEMMA SelectionSettles ==
  ASSUME NEW a, NEW b, NEW c, NEW index, NEW next, Holds(a, c),
         SelectionFacts(a, c, index, index, next), Exchange(b, a, c, index, next)
  PROVE  \A i \in 0 .. index, j \in 0 .. c - 1 : i < j => AtMost(b[i], b[j])
<1>1. /\ c \in Nat /\ index \in 0 .. c - 2 /\ next \in index .. c - 1
      /\ next \in 0 .. c - 1 /\ index \in 0 .. c - 1
  BY DEF SelectionFacts, Holds
<1>2. ASSUME NEW i \in 0 .. index, NEW j \in 0 .. c - 1, i < j
      PROVE  AtMost(b[i], b[j])
  <2> DEFINE m == IF j = index THEN next ELSE IF j = next THEN index ELSE j
  <2>1. b[j] = a[m] /\ m \in 0 .. c - 1 /\ (i < index => m > i)
    BY <1>1, <1>2 DEF Exchange
  <2> HIDE DEF m
  <2>2. CASE i # index
    <3>1. b[i] = a[i] /\ i \in 0 .. index - 1
      BY <1>1, <1>2, <2>2 DEF Exchange
    <3> QED
      BY <1>1, <1>2, <2>1, <2>2, <3>1 DEF SelectionFacts
  <2>3. CASE i = index
    <3>1. b[i] = a[next]
      BY <1>1, <2>3 DEF Exchange
    <3>2. m = index \/ m \in index + 1 .. c - 1
      BY <1>1, <1>2, <2>3 DEF m
    <3> QED
      BY <2>1, <3>1, <3>2 DEF SelectionFacts
  <2> QED
    BY <2>2, <2>3
<1> QED
  BY <1>2

LEMMA SelectionScanKeeps ==
  ASSUME Common, SelectionRuns, SelectionScans
  PROVE  Common' /\ SelectionRuns' /\ pc' = "selection"
<1>1. pc = "selection" /\ pc' = "selection" /\ UNCHANGED <<sort, todo, temp, blocks, ok, items>>
  BY DEF SelectionScans, Loops
<1>2. /\ at \in [index : Nat, n : Nat, next : Nat]
      /\ sort = "selection"
      /\ SelectionFacts(items, count, at.index, at.n, at.next)
      /\ Holds(items, count)
  BY <1>1, HoldsItems DEF SelectionRuns
<1>3. /\ at.index \in 0 .. count - 2 /\ at.n \in 1 .. count - 1 /\ at.n \in 0 .. count - 1
      /\ at.next \in 0 .. count - 1 /\ at.n # at.index /\ count \in Nat
  <2>1. at.n # at.index
    BY DEF SelectionScans
  <2> QED
    BY <1>2, <2>1 DEF SelectionFacts, Holds
<1>4. Down(at.n) = at.n - 1
  BY <1>3, DownOfIndex
<1>5. Compare(items[at.next], items[at.n]) < 0 <=> items[at.next].key < items[at.n].key
  BY <1>2, <1>3 DEF Holds, Compare
<1> DEFINE next == IF items[at.next].key < items[at.n].key THEN at.next ELSE at.n
<1>6. at' = [index |-> at.index, n |-> at.n - 1, next |-> next]
  <2> DEFINE first == [at EXCEPT !.next = next]
  <2>1. at' = [first EXCEPT !.n = Down(@)]
    BY <1>5 DEF SelectionScans
  <2>2. /\ first \in [index : Nat, n : Nat, next : Nat]
        /\ first.index = at.index /\ first.n = at.n /\ first.next = next
    BY <1>2, <1>3
  <2> HIDE DEF first, next
  <2>3. at' = [first EXCEPT !.n = at.n - 1]
    BY <2>1, <2>2, <1>4
  <2> QED
    BY <2>2, <2>3
<1>7. SelectionFacts(items, count, at.index, at.n - 1, next)
  BY <1>2, <1>3, SelectionKeepsNext, SelectionTakesNext
<1>8. next \in Nat
  BY <1>2
<1> HIDE DEF next
<1>9. /\ at'.index = at.index /\ at'.n = at.n - 1 /\ at'.next = next
      /\ at' \in [index : Nat, n : Nat, next : Nat]
  BY <1>2, <1>3, <1>6, <1>8
<1>10. Common' /\ count' = count
  BY <1>1, CountKept, SameKeeps, PlainLoopKeeps DEF Plain
<1> QED
  BY <1>1, <1>2, <1>7, <1>9, <1>10 DEF SelectionRuns

LEMMA SelectionPlaceKeeps ==
  ASSUME Common, SelectionRuns, SelectionPlaces
  PROVE  /\ Common'
         /\ \/ pc' = "selection" /\ SelectionRuns'
            \/ pc' = "idle" /\ IdleInv'
<1>1. pc = "selection" /\ sort' = sort /\ at.n = at.index /\ items' = Swapped(at.index, at.next)
  BY DEF SelectionPlaces
<1>2. /\ at \in [index : Nat, n : Nat, next : Nat]
      /\ sort = "selection"
      /\ SelectionFacts(items, count, at.index, at.index, at.next)
      /\ Holds(items, count)
  BY <1>1, HoldsItems DEF SelectionRuns
<1>3. /\ at.index \in 0 .. count - 2 /\ at.index \in 0 .. count - 1
      /\ at.next \in 0 .. count - 1 /\ count \in Nat
  BY <1>2 DEF SelectionFacts, Holds
<1>4. ArrayKept /\ Exchange(items', items, count, at.index, at.next)
  BY <1>1, <1>3, SwapKeeps DEF Exchange
<1>5. \A i \in 0 .. at.index, j \in 0 .. count - 1 : i < j => AtMost(items'[i], items'[j])
  BY <1>2, <1>4, SelectionSettles
<1>6. count' = count /\ Positions' = Positions /\ Positions = 0 .. count - 1
  BY <1>4, CountKept, ArrayFacts DEF ArrayKept
<1>7. CASE at.index + 1 # count - 1
  <2>1. /\ at' = SelectionPass(at.index + 1) /\ pc' = "selection"
        /\ UNCHANGED <<sort, todo, temp, blocks, ok>>
    BY <1>1, <1>7 DEF SelectionPlaces
  <2>2. Common'
    BY <1>1, <1>4, <2>1, PlainLoopKeeps DEF Plain
  <2>3. (Common => Holds(items, count))'
    BY HoldsItems, PTL
  <2> DEFINE b == items'
             i == at.index + 1
  <2>4. Holds(b, count) /\ \A k \in 0 .. i - 1, j \in 0 .. count - 1 : k < j => AtMost(b[k], b[j])
    BY <1>3, <1>5, <1>6, <2>2, <2>3
  <2>5. i \in 0 .. count - 2 /\ i \in 0 .. count - 1 /\ count - 1 \in i .. count - 1
           /\ i \in i .. count - 1
    BY <1>3, <1>7
  <2>6. at' = [index |-> i, n |-> count - 1, next |-> i]
    BY <2>1 DEF SelectionPass
  <2> HIDE DEF b, i, count
  <2>7. SelectionFacts(b, count, i, count - 1, i)
    BY <1>3, <2>4, <2>5 DEF SelectionFacts, Holds, AtMost, Compare
  <2>8. /\ at'.index = i /\ at'.n = count - 1 /\ at'.next = i
        /\ at' \in [index : Nat, n : Nat, next : Nat]
    BY <1>3, <2>5, <2>6
  <2> QED
    BY <1>2, <1>6, <2>1, <2>2, <2>7, <2>8 DEF SelectionRuns, b
<1>8. CASE at.index + 1 = count - 1
  <2>1. Return(TRUE)
    BY <1>8 DEF SelectionPlaces
  <2>2. Common' /\ pc' = "idle" /\ ok' = TRUE
    BY <1>1, <1>4, <2>1, PlainReturnKeeps DEF Plain, Return
  <2>3. \A i, j \in 0 .. count - 1 : i < j => AtMost(items'[i], items'[j])
    BY <1>3, <1>5, <1>8
  <2>4. sort' \notin StableSorts
    BY <1>1, <1>2 DEF StableSorts
  <2> QED
    BY <1>6, <2>2, <2>3, <2>4 DEF IdleInv, SortsOrLeaves, Ordered
<1> QED
  BY <1>7, <1>8

LEMMA SelectionStarts ==
  ASSUME Common, SelectionBegins
  PROVE  Common' /\ SelectionRuns' /\ pc' = "selection"
<1>1. /\ pc = "idle" /\ count > 1 /\ sort' = "selection" /\ items' = Renumbered
      /\ pc' = "selection" /\ at' = [index |-> 0, n |-> count - 1, next |-> 0]
      /\ UNCHANGED <<todo, temp, blocks, ok>>
  BY DEF SelectionBegins, Starts, SelectionPass
<1>2. Common' /\ count' = count
  BY <1>1, BeginsKept DEF Plain, Sorts
<1>3. count \in Nat /\ 0 \in 0 .. count - 1 /\ 0 \in 0 .. count - 2 /\ count - 1 \in 0 .. count - 1
  BY <1>1 DEF Common
<1>4. (Common => Holds(items, count))'
  BY HoldsItems, PTL
<1> DEFINE b == items'
<1>5. Holds(b, count)
  BY <1>2, <1>4
<1> HIDE DEF b, count
<1>6. SelectionFacts(b, count, 0, count - 1, 0)
  BY <1>3, <1>5 DEF SelectionFacts, Holds, AtMost, Compare
<1>7. /\ at'.index = 0 /\ at'.n = count - 1 /\ at'.next = 0
      /\ at' \in [index : Nat, n : Nat, next : Nat]
  BY <1>1, <1>3
<1> QED
  BY <1>1, <1>2, <1>6, <1>7 DEF SelectionRuns, b

LEMMA SelectionIsRight ==
  ASSUME Common, SelectionRuns
  PROVE  /\ pc = "selection" =>
              at.index <= at.n /\ {at.n, at.next} \subseteq at.index .. count - 1
         /\ SelectionLoop
<1> SUFFICES ASSUME pc = "selection"
             PROVE  /\ at.index <= at.n /\ {at.n, at.next} \subseteq at.index .. count - 1
                    /\ SelectionLoop
  BY DEF SelectionLoop
<1>1. Positions = 0 .. count - 1 /\ Holds(items, count)
  BY ArrayFacts, HoldsItems
<1>2. SelectionFacts(items, count, at.index, at.n, at.next)
  BY DEF SelectionRuns
<1> HIDE DEF count
<1>3. at.index \in 0 .. count - 2 /\ at.n \in at.index .. count - 1 /\ at.next \in at.index .. count - 1
  BY <1>2 DEF SelectionFacts
<1>4. \A j \in at.n + 1 .. count - 1 :
        AtMost(items[at.next], items[j]) /\ (j < at.next => Compare(items[at.next], items[j]) < 0)
  BY <1>1, <1>2, <1>3 DEF SelectionFacts, Holds, Compare
<1> QED
  BY <1>1, <1>2, <1>3, <1>4 DEF SelectionFacts, SelectionLoop

------------------------------------------------------------------------------
(* Heap sort.  Its order rests on the last parent's index fitting in the   *)
(* int it is kept in; its indexes do not.                                  *)
(* HeapFrom, of any array. *)
HeapBut(a, floor, size, parent) ==
  \A c \in 1 .. size - 1 :
    LET p == (c - 1) \div 2
    IN  IF p # parent THEN p >= floor => AtMost(a[c], a[p])
        ELSE p > 0 /\ (p - 1) \div 2 >= floor => AtMost(a[c], a[(p - 1) \div 2])

Heap(a, floor, size) ==
  \A c \in 1 .. size - 1 : (c - 1) \div 2 >= floor => AtMost(a[c], a[(c - 1) \div 2])

HeapifyFacts(a, c, n, parent, size) ==
  /\ size = c /\ n < c
  /\ IF n >= 0 THEN parent \in n .. c - 1 ELSE parent = n
  /\ HeapFits => n >= -1 /\ HeapBut(a, n, c, parent)

SiftFacts(a, c, parent, size) ==
  /\ size \in 0 .. c - 1 /\ parent \in 0 .. c - 1
  /\ HeapFits =>
       /\ HeapBut(a, 0, size, parent)
       /\ \A j \in size .. c - 1, i \in 0 .. c - 1 : i < j => AtMost(a[i], a[j])

HeapRuns ==
  pc \in {"heapify", "sift"} =>
    /\ at \in [n : Int, parent : Int, heap_size : Nat]
    /\ sort = "heap"
    /\ pc = "heapify" => HeapifyFacts(items, count, at.n, at.parent, at.heap_size)
    /\ pc = "sift" => SiftFacts(items, count, at.parent, at.heap_size)

(* The larger child of a parent that sinks, and what keeps one from it.    *)
Promoted(a, p, size, child) ==
  /\ child \in {2 * p + 1, 2 * p + 2} /\ child < size
  /\ a[p].key < a[child].key
  /\ a[2 * p + 1].key <= a[child].key
  /\ 2 * p + 2 < size => a[2 * p + 2].key <= a[child].key

Settled(a, p, size) ==
  \A child \in {2 * p + 1, 2 * p + 2} : child < size => a[child].key <= a[p].key

LEMMA SinksOrSettled ==
  ASSUME Common, NEW p \in 0 .. count - 1, NEW size \in 0 .. count
  PROVE  IF Sinks(p, size) THEN Promoted(items, p, size, LargerChild(p, size))
         ELSE Settled(items, p, size)
<1>1. Holds(items, count) /\ count \in Nat
  BY HoldsItems DEF Holds
<1> HIDE DEF count
<1>2. \A k \in 0 .. count - 1 : items[k].key \in Int
  BY <1>1 DEF Holds
<1>3. CASE 2 * p + 1 >= size
  BY <1>1, <1>3 DEF Sinks, Settled
<1>4. CASE 2 * p + 1 = size - 1
  <2>1. LargerChild(p, size) = 2 * p + 1 /\ 2 * p + 1 \in 0 .. count - 1
    BY <1>1, <1>4 DEF LargerChild
  <2> QED
    BY <1>1, <1>2, <1>4, <2>1 DEF Sinks, Settled, Promoted, Compare
<1>5. CASE 2 * p + 2 < size
  <2>1. 2 * p + 1 \in 0 .. count - 1 /\ 2 * p + 2 \in 0 .. count - 1
    BY <1>1, <1>5
  <2>2. items[p].key \in Int /\ items[2 * p + 1].key \in Int /\ items[2 * p + 2].key \in Int
    BY <1>2, <2>1
  <2>3. LargerChild(p, size) =
          IF items[2 * p + 1].key > items[2 * p + 2].key THEN 2 * p + 1 ELSE 2 * p + 2
    BY <1>1, <1>5, <2>2 DEF LargerChild, Compare
  <2>4. Sinks(p, size) <=> items[p].key < items[LargerChild(p, size)].key
    BY <1>1, <1>5, <2>2, <2>3 DEF Sinks, Compare
  <2> QED
    BY <1>1, <1>5, <2>1, <2>2, <2>3, <2>4 DEF Settled, Promoted
<1> QED
  BY <1>1, <1>3, <1>4, <1>5

LEMMA HeapSinks ==
  ASSUME NEW a, NEW b, NEW c, Holds(a, c), NEW size \in 0 .. c, NEW floor \in Int,
         NEW p \in 0 .. c - 1, p >= floor, NEW child,
         HeapBut(a, floor, size, p), Promoted(a, p, size, child), Exchange(b, a, c, p, child)
  PROVE  HeapBut(b, floor, size, child) /\ child \in p + 1 .. size - 1
<1>1. c \in Nat /\ child \in p + 1 .. size - 1 /\ child \in 0 .. c - 1 /\ (child - 1) \div 2 = p
  BY DEF Holds, Promoted
<1>2. b[p] = a[child] /\ b[child] = a[p]
  BY <1>1 DEF Exchange
<1>3. ASSUME NEW k \in 1 .. size - 1, NEW q \in Nat, q = (k - 1) \div 2, q # child, q >= floor
      PROVE  AtMost(b[k], b[q])
  <2>1. k \in 0 .. c - 1 /\ q \in 0 .. c - 1 /\ q < k
    BY <1>1, <1>3
  <2>2. CASE q = p
    <3>1. k \in {2 * p + 1, 2 * p + 2}
      BY <1>3, <2>1, <2>2
    <3>2. CASE k = child
      BY <1>1, <1>2, <2>1, <2>2, <3>2 DEF Promoted, AtMost, Compare, Holds
    <3>3. CASE k # child
      <4>1. b[k] = a[k] /\ k # p
        BY <1>1, <2>1, <2>2, <3>3 DEF Exchange
      <4>2. a[k].key <= a[child].key
        BY <1>3, <3>1 DEF Promoted
      <4> QED
        BY <1>1, <1>2, <2>1, <2>2, <4>1, <4>2 DEF AtMost, Compare, Holds
    <3> QED
      BY <3>2, <3>3
  <2>3. CASE q # p /\ k = p
    <3>1. b[q] = a[q]
      BY <1>3, <2>1, <2>3 DEF Exchange
    <3>2. AtMost(a[child], a[(p - 1) \div 2])
      BY <1>1, <1>3, <2>1, <2>3 DEF HeapBut
    <3> QED
      BY <1>2, <1>3, <2>3, <3>1, <3>2
  <2>4. CASE q # p /\ k # p
    <3>1. k # child
      BY <1>1, <1>3, <2>4
    <3>2. b[k] = a[k] /\ b[q] = a[q]
      BY <1>3, <2>1, <2>4, <3>1 DEF Exchange
    <3>3. AtMost(a[k], a[q])
      BY <1>3, <2>4 DEF HeapBut
    <3> QED
      BY <3>2, <3>3
  <2> QED
    BY <2>2, <2>3, <2>4
<1>4. ASSUME NEW k \in 1 .. size - 1, (k - 1) \div 2 = child
      PROVE  AtMost(b[k], b[(child - 1) \div 2])
  <2>1. k \in 0 .. c - 1 /\ k # child /\ k # p /\ child >= floor /\ child # p
    BY <1>1, <1>4
  <2>2. b[k] = a[k]
    BY <2>1 DEF Exchange
  <2>3. AtMost(a[k], a[child])
    BY <1>4, <2>1 DEF HeapBut
  <2> QED
    BY <1>1, <1>2, <2>2, <2>3
<1>5. \A k \in 1 .. size - 1 : (k - 1) \div 2 \in Nat
  OBVIOUS
<1> QED
  BY <1>1, <1>3, <1>4, <1>5 DEF HeapBut

LEMMA SettledIsHeap ==
  ASSUME NEW a, NEW c, Holds(a, c), NEW size \in 0 .. c, NEW floor \in Int, NEW p \in 0 .. c - 1,
         HeapBut(a, floor, size, p), Settled(a, p, size)
  PROVE  Heap(a, floor, size)
<1>1. c \in Nat
  BY DEF Holds
<1>2. ASSUME NEW k \in 1 .. size - 1, (k - 1) \div 2 >= floor
      PROVE  AtMost(a[k], a[(k - 1) \div 2])
  <2>1. CASE (k - 1) \div 2 # p
    BY <1>2, <2>1 DEF HeapBut
  <2>2. CASE (k - 1) \div 2 = p
    <3>1. k \in {2 * p + 1, 2 * p + 2} /\ k < size /\ k \in 0 .. c - 1
      BY <1>1, <1>2, <2>2
    <3>2. a[k].key <= a[p].key
      BY <3>1 DEF Settled
    <3> QED
      BY <2>2, <3>1, <3>2 DEF AtMost, Compare, Holds
  <2> QED
    BY <2>1, <2>2
<1> QED
  BY <1>2 DEF Heap

(* The next parent has its place in the heap to find. *)
LEMMA HeapWaits ==
  ASSUME NEW a, NEW size \in Nat, NEW n \in Nat, Heap(a, n, size)
  PROVE  HeapBut(a, n - 1, size, n - 1)
<1>1. ASSUME NEW k \in 1 .. size - 1, NEW p \in Nat, p = (k - 1) \div 2
      PROVE  IF p # n - 1 THEN p >= n - 1 => AtMost(a[k], a[p])
             ELSE p > 0 /\ (p - 1) \div 2 >= n - 1 => AtMost(a[k], a[(p - 1) \div 2])
  <2>1. CASE p # n - 1
    BY <1>1, <2>1 DEF Heap
  <2>2. CASE p = n - 1
    BY <1>1, <2>2
  <2> QED
    BY <2>1, <2>2
<1>2. \A k \in 1 .. size - 1 : (k - 1) \div 2 \in Nat
  OBVIOUS
<1> QED
  BY <1>1, <1>2 DEF HeapBut

LEMMA RootIsLargest ==
  ASSUME NEW a, NEW c, Holds(a, c), NEW size \in 0 .. c, Heap(a, 0, size)
  PROVE  \A k \in 0 .. size - 1 : a[k].key <= a[0].key
<1>1. c \in Nat
  BY DEF Holds
<1> DEFINE Bad == {k \in 0 .. size - 1 : ~(a[k].key <= a[0].key)}
<1>2. ASSUME Bad # {} PROVE FALSE
  <2>1. Bad \subseteq Nat
    OBVIOUS
  <2> HIDE DEF Bad
  <2>2. PICK m \in Bad : \A k \in Bad : m <= k
    BY <1>2, <2>1, LeastExists
  <2>3. m \in 0 .. size - 1 /\ ~(a[m].key <= a[0].key)
    BY <2>2 DEF Bad
  <2>4. a[0].key \in Int /\ a[m].key \in Int
    BY <1>1, <2>3 DEF Holds
  <2>5. m \in 1 .. size - 1
    BY <2>3, <2>4
  <2> DEFINE p == (m - 1) \div 2
  <2>6. p \in 0 .. size - 1 /\ ~(m <= p) /\ p >= 0 /\ p \in 0 .. c - 1
    BY <1>1, <2>5
  <2>7. AtMost(a[m], a[p])
    BY <2>5, <2>6 DEF Heap
  <2> HIDE DEF p
  <2>8. p \notin Bad
    BY <2>2, <2>6
  <2>9. a[p].key <= a[0].key /\ a[p].key \in Int
    BY <1>1, <2>6, <2>8 DEF Bad, Holds
  <2>10. a[m].key <= a[p].key
    BY <2>4, <2>7, <2>9 DEF AtMost, Compare
  <2> QED
    BY <2>3, <2>4, <2>9, <2>10
<1> QED
  BY <1>2

LEMMA HeapYields ==
  ASSUME NEW a, NEW b, NEW c, Holds(a, c), NEW size \in 1 .. c, Heap(a, 0, size),
         \A j \in size .. c - 1, i \in 0 .. c - 1 : i < j => AtMost(a[i], a[j]),
         Exchange(b, a, c, 0, size - 1)
  PROVE  /\ HeapBut(b, 0, size - 1, 0)
         /\ \A j \in size - 1 .. c - 1, i \in 0 .. c - 1 : i < j => AtMost(b[i], b[j])
<1>1. c \in Nat /\ size - 1 \in 0 .. c - 1 /\ 0 \in 0 .. c - 1
  BY DEF Holds
<1>2. ASSUME NEW k \in 1 .. (size - 1) - 1, NEW p \in Nat, p = (k - 1) \div 2, p # 0
      PROVE  AtMost(b[k], b[p])
  <2>1. k \in 1 .. size - 1 /\ k \in 0 .. c - 1 /\ p \in 0 .. c - 1 /\ p < size - 1 /\ k < size - 1
    BY <1>1, <1>2
  <2>2. b[k] = a[k] /\ b[p] = a[p]
    BY <1>2, <2>1 DEF Exchange
  <2>3. AtMost(a[k], a[p])
    BY <1>2, <2>1 DEF Heap
  <2> QED
    BY <2>2, <2>3
<1>3. \A k \in 1 .. (size - 1) - 1 : (k - 1) \div 2 \in Nat
  OBVIOUS
<1>4. HeapBut(b, 0, size - 1, 0)
  BY <1>2, <1>3 DEF HeapBut
<1>5. ASSUME NEW j \in size - 1 .. c - 1, NEW i \in 0 .. c - 1, i < j
      PROVE  AtMost(b[i], b[j])
  <2> DEFINE m == IF i = 0 THEN size - 1 ELSE IF i = size - 1 THEN 0 ELSE i
  <2>1. b[i] = a[m] /\ m \in 0 .. c - 1 /\ (i < size => m < size) /\ (i >= size => m = i)
    BY <1>1, <1>5 DEF Exchange
  <2> HIDE DEF m
  <2>2. CASE j = size - 1
    <3>1. b[j] = a[0] /\ m \in 0 .. size - 1
      BY <1>1, <1>5, <2>1, <2>2 DEF Exchange
    <3>2. a[m].key <= a[0].key
      BY <3>1, RootIsLargest
    <3> QED
      BY <1>1, <2>1, <3>1, <3>2 DEF AtMost, Compare, Holds
  <2>3. CASE j # size - 1
    <3>1. b[j] = a[j] /\ j \in size .. c - 1 /\ j \in 0 .. c - 1 /\ m < j
      BY <1>1, <1>5, <2>1, <2>3 DEF Exchange
    <3> QED
      BY <2>1, <3>1
  <2> QED
    BY <2>2, <2>3
<1> QED
  BY <1>4, <1>5

LEMMA HeapifyKeeps ==
  ASSUME Common, HeapRuns, HeapifySinks \/ HeapifyNext
  PROVE  Common' /\ HeapRuns' /\ pc' = "heapify"
<1>1. pc = "heapify" /\ pc' = "heapify" /\ at.n >= 0 /\ UNCHANGED <<sort, todo, temp, blocks, ok>>
  BY DEF HeapifySinks, HeapifyNext, Loops
<1>2. /\ at \in [n : Int, parent : Int, heap_size : Nat]
      /\ sort = "heap"
      /\ HeapifyFacts(items, count, at.n, at.parent, at.heap_size)
      /\ Holds(items, count)
  BY <1>1, HoldsItems DEF HeapRuns
<1>3. /\ count \in Nat /\ at.n \in 0 .. count - 1 /\ at.heap_size = count
      /\ at.parent \in at.n .. count - 1 /\ at.parent \in 0 .. count - 1
      /\ HeapFits => HeapBut(items, at.n, count, at.parent)
  BY <1>1, <1>2 DEF HeapifyFacts, Holds
<1>4. SUFFICES /\ ArrayKept
               /\ at' \in [n : Int, parent : Int, heap_size : Nat]
               /\ HeapifyFacts(items', count, at'.n, at'.parent, at'.heap_size)
  <2>1. count' = count
    BY CountKept, <1>4 DEF ArrayKept
  <2>2. Common'
    BY <1>1, <1>4, PlainLoopKeeps DEF Plain
  <2> QED
    BY <1>1, <1>2, <1>4, <2>1, <2>2 DEF HeapRuns
<1>5. CASE HeapifySinks
  <2> DEFINE child == LargerChild(at.parent, count)
  <2>1. /\ Sinks(at.parent, count) /\ items' = Swapped(at.parent, child)
        /\ at' = [at EXCEPT !.parent = child]
    BY <1>5 DEF HeapifySinks
  <2>2. Promoted(items, at.parent, count, child)
    <3>1. count \in 0 .. count
      BY <1>3
    <3> QED
      BY <1>3, <2>1, <3>1, SinksOrSettled
  <2> HIDE DEF child
  <2>3. child \in at.n .. count - 1 /\ child \in 0 .. count - 1
    BY <1>3, <2>2 DEF Promoted
  <2>4. ArrayKept /\ Exchange(items', items, count, at.parent, child)
    BY <1>3, <2>1, <2>3, SwapKeeps DEF Exchange
  <2>5. HeapFits => HeapBut(items', at.n, count, child)
    <3>1. count \in 0 .. count /\ at.n \in Int /\ at.parent >= at.n
      BY <1>3
    <3> QED
      BY <1>2, <1>3, <2>2, <2>4, <3>1, HeapSinks
  <2>6. /\ at'.n = at.n /\ at'.parent = child /\ at'.heap_size = count
        /\ at' \in [n : Int, parent : Int, heap_size : Nat]
    BY <1>2, <1>3, <2>1, <2>3
  <2>7. HeapifyFacts(items', count, at.n, child, count)
    BY <1>3, <2>3, <2>5 DEF HeapifyFacts
  <2> QED
    BY <2>4, <2>6, <2>7
<1>6. CASE HeapifyNext
  <2>1. /\ ~Sinks(at.parent, count) /\ items' = items
        /\ at' = [n |-> at.n - 1, parent |-> at.n - 1, heap_size |-> count]
    BY <1>6 DEF HeapifyNext, HeapifyFrom
  <2>2. HeapFits => HeapBut(items, at.n - 1, count, at.n - 1)
    <3>1. count \in 0 .. count /\ at.n \in Int /\ at.n \in Nat
      BY <1>3
    <3>2. Settled(items, at.parent, count)
      BY <1>3, <2>1, <3>1, SinksOrSettled
    <3>3. HeapFits => Heap(items, at.n, count)
      BY <1>2, <1>3, <3>1, <3>2, SettledIsHeap
    <3> QED
      BY <1>3, <3>1, <3>3, HeapWaits
  <2>3. /\ at'.n = at.n - 1 /\ at'.parent = at.n - 1 /\ at'.heap_size = count
        /\ at' \in [n : Int, parent : Int, heap_size : Nat]
    BY <1>3, <2>1
  <2>4. HeapifyFacts(items, count, at.n - 1, at.n - 1, count)
    BY <1>3, <2>2 DEF HeapifyFacts
  <2> QED
    BY <2>1, <2>3, <2>4, SameKeeps
<1> QED
  BY <1>5, <1>6

LEMMA HeapSiftKeeps ==
  ASSUME Common, HeapRuns, HeapSifts
  PROVE  Common' /\ HeapRuns' /\ pc' = "sift"
<1>1. pc = "sift" /\ pc' = "sift" /\ UNCHANGED <<sort, todo, temp, blocks, ok>>
  BY DEF HeapSifts, Loops
<1>2. /\ at \in [n : Int, parent : Int, heap_size : Nat]
      /\ sort = "heap"
      /\ SiftFacts(items, count, at.parent, at.heap_size)
      /\ Holds(items, count)
  BY <1>1, HoldsItems DEF HeapRuns
<1>3. /\ count \in Nat /\ at.heap_size \in 0 .. count - 1 /\ at.heap_size \in 0 .. count
      /\ at.parent \in 0 .. count - 1 /\ at.parent >= 0 /\ 0 \in Int
  BY <1>2 DEF SiftFacts, Holds
<1> DEFINE child == LargerChild(at.parent, at.heap_size)
<1>4. /\ Sinks(at.parent, at.heap_size) /\ items' = Swapped(at.parent, child)
      /\ at' = [at EXCEPT !.parent = child]
  BY DEF HeapSifts
<1>5. Promoted(items, at.parent, at.heap_size, child)
  BY <1>3, <1>4, SinksOrSettled
<1> HIDE DEF child
<1>6. child \in 0 .. at.heap_size - 1 /\ child \in 0 .. count - 1 /\ at.parent < at.heap_size
  BY <1>3, <1>5 DEF Promoted
<1>7. ArrayKept /\ Exchange(items', items, count, at.parent, child)
  BY <1>3, <1>4, <1>6, SwapKeeps DEF Exchange
<1> DEFINE b == items'
<1>8. HeapFits => HeapBut(b, 0, at.heap_size, child)
  BY <1>2, <1>3, <1>5, <1>7, HeapSinks DEF SiftFacts
<1>9. ASSUME HeapFits, NEW j \in at.heap_size .. count - 1, NEW i \in 0 .. count - 1, i < j
      PROVE  AtMost(b[i], b[j])
  <2> DEFINE m == IF i = at.parent THEN child ELSE IF i = child THEN at.parent ELSE i
  <2>1. b[i] = items[m] /\ b[j] = items[j] /\ m \in 0 .. count - 1 /\ m < j
    BY <1>3, <1>6, <1>7, <1>9 DEF Exchange
  <2> HIDE DEF m, b
  <2> QED
    BY <1>2, <1>9, <2>1 DEF SiftFacts
<1> HIDE DEF b
<1>10. SiftFacts(b, count, child, at.heap_size)
  BY <1>3, <1>6, <1>8, <1>9 DEF SiftFacts
<1>11. /\ at'.parent = child /\ at'.heap_size = at.heap_size
       /\ at' \in [n : Int, parent : Int, heap_size : Nat]
  BY <1>2, <1>4, <1>6
<1>12. Common' /\ count' = count
  BY <1>1, <1>7, CountKept, PlainLoopKeeps DEF Plain, ArrayKept
<1> QED
  BY <1>1, <1>2, <1>10, <1>11, <1>12 DEF HeapRuns, b

LEMMA HeapExtractKeeps ==
  ASSUME Common, HeapRuns, HeapExtracts
  PROVE  Common' /\ HeapRuns' /\ pc' = "sift"
<1>1. /\ pc \in {"heapify", "sift"} /\ pc' = "sift" /\ UNCHANGED <<sort, todo, temp, blocks, ok>>
      /\ at.heap_size >= 1 /\ items' = Swapped(0, at.heap_size - 1)
  BY DEF HeapExtracts, Loops
<1>2. /\ at \in [n : Int, parent : Int, heap_size : Nat]
      /\ sort = "heap" /\ Holds(items, count)
  BY <1>1, HoldsItems DEF HeapRuns
<1>3. /\ count \in Nat /\ at.heap_size \in 1 .. count
      /\ HeapFits =>
           /\ Heap(items, 0, at.heap_size)
           /\ \A j \in at.heap_size .. count - 1, i \in 0 .. count - 1 :
                i < j => AtMost(items[i], items[j])
  <2>1. CASE pc = "heapify"
    <3>1. /\ HeapifyFacts(items, count, at.n, at.parent, at.heap_size) /\ at.n < 0
      BY <2>1 DEF HeapRuns, HeapExtracts
    <3>2. /\ count \in Nat /\ at.heap_size = count /\ at.parent = at.n /\ at.n \in Int
          /\ HeapFits => at.n = -1 /\ HeapBut(items, at.n, count, at.n)
      BY <1>2, <3>1 DEF HeapifyFacts, Holds
    <3> HIDE DEF count
    <3>3. ASSUME HeapFits PROVE Heap(items, 0, count)
      <4>1. \A k \in 1 .. count - 1 : (k - 1) \div 2 \in Nat
        BY <3>2
      <4> QED
        BY <3>2, <3>3, <4>1 DEF HeapBut, Heap
    <3>4. at.heap_size .. count - 1 = {}
      BY <3>2
    <3> QED
      BY <1>1, <1>2, <3>2, <3>3, <3>4
  <2>2. CASE pc = "sift"
    <3>1. SiftFacts(items, count, at.parent, at.heap_size) /\ ~Sinks(at.parent, at.heap_size)
      BY <2>2 DEF HeapRuns, HeapExtracts
    <3>2. /\ count \in Nat /\ at.heap_size \in 0 .. count /\ at.heap_size \in 1 .. count
          /\ at.parent \in 0 .. count - 1 /\ 0 \in Int
      BY <1>1, <1>2, <3>1 DEF SiftFacts, Holds
    <3>3. Settled(items, at.parent, at.heap_size)
      BY <3>1, <3>2, SinksOrSettled
    <3>4. HeapFits => Heap(items, 0, at.heap_size)
      BY <1>2, <3>1, <3>2, <3>3, SettledIsHeap DEF SiftFacts
    <3> QED
      BY <3>1, <3>2, <3>4 DEF SiftFacts
  <2> QED
    BY <1>1, <2>1, <2>2
<1>4. at.heap_size - 1 \in 0 .. count - 1 /\ 0 \in 0 .. count - 1
  BY <1>3
<1>5. ArrayKept /\ Exchange(items', items, count, 0, at.heap_size - 1)
  BY <1>1, <1>4, SwapKeeps DEF Exchange
<1> DEFINE b == items'
<1>6. HeapFits =>
        /\ HeapBut(b, 0, at.heap_size - 1, 0)
        /\ \A j \in at.heap_size - 1 .. count - 1, i \in 0 .. count - 1 : i < j => AtMost(b[i], b[j])
  BY <1>2, <1>3, <1>5, HeapYields
<1> HIDE DEF b
<1>7. SiftFacts(b, count, 0, at.heap_size - 1)
  BY <1>4, <1>6 DEF SiftFacts
<1>8. /\ at'.parent = 0 /\ at'.heap_size = at.heap_size - 1
      /\ at' \in [n : Int, parent : Int, heap_size : Nat]
  <2> DEFINE shrunk == [at EXCEPT !.heap_size = at.heap_size - 1]
  <2>1. /\ shrunk \in [n : Int, parent : Int, heap_size : Nat]
        /\ shrunk.heap_size = at.heap_size - 1
    BY <1>2, <1>3
  <2>2. at' = [shrunk EXCEPT !.parent = 0]
    BY DEF HeapExtracts
  <2> HIDE DEF shrunk
  <2> QED
    BY <2>1, <2>2
<1>9. Common' /\ count' = count
  BY <1>1, <1>5, CountKept, PlainLoopKeeps DEF Plain, ArrayKept
<1> QED
  BY <1>1, <1>2, <1>7, <1>8, <1>9 DEF HeapRuns, b

LEMMA HeapReturns ==
  ASSUME Common, HeapRuns, HeapEnds
  PROVE  Common' /\ IdleInv' /\ pc' = "idle"
<1>1. pc = "sift" /\ at.heap_size = 0 /\ Return(TRUE) /\ UNCHANGED <<items, sort>>
  BY DEF HeapEnds
<1>2. SiftFacts(items, count, at.parent, 0) /\ sort = "heap"
  BY <1>1 DEF HeapRuns
<1>3. HeapFits => \A i, j \in 0 .. count - 1 : i < j => AtMost(items[i], items[j])
  BY <1>2 DEF SiftFacts
<1>4. sort \notin StableSorts
  BY <1>2 DEF StableSorts
<1>5. Common' /\ pc' = "idle"
  BY <1>1, SameKeeps, PlainReturnKeeps DEF Plain, Return
<1>6. HeapFits => IdleInv'
  BY <1>1, <1>3, <1>4, ReturnsSorted
<1>7. ~HeapFits => IdleInv'
  BY <1>1, <1>2 DEF IdleInv, HeapFits
<1> QED
  BY <1>5, <1>6, <1>7

LEMMA ToIntFacts ==
  ASSUME SortAssumption, NEW u \in Nat
  PROVE  ToInt(u) \in Int /\ ToInt(u) <= u /\ (u <= IntMax => ToInt(u) = u)
<1>1. IntMax \in Nat
  BY DEF SortAssumption
<1> DEFINE m == 2 * (IntMax + 1)
           floor == u % m
<1>2. m \in Nat /\ m > IntMax /\ m > 0 /\ 2 * (IntMax + 1) = m
  BY <1>1
<1>3. ToInt(u) = IF floor > IntMax THEN floor - m ELSE floor
  BY DEF ToInt
<1> HIDE DEF m
<1>4. floor \in 0 .. m - 1 /\ floor <= u /\ (u < m => floor = u)
  BY <1>2
<1> HIDE DEF floor
<1> QED
  BY <1>1, <1>2, <1>3, <1>4

LEMMA HeapStarts ==
  ASSUME Common, HeapBegins
  PROVE  Common' /\ HeapRuns' /\ pc' = "heapify"
<1> DEFINE n == ToInt(count \div 2 - 1)
<1>1. /\ pc = "idle" /\ count > 1 /\ sort' = "heap" /\ items' = Renumbered
      /\ pc' = "heapify" /\ at' = [n |-> n, parent |-> n, heap_size |-> count]
      /\ UNCHANGED <<todo, temp, blocks, ok>>
  BY DEF HeapBegins, Starts, HeapifyFrom
<1>2. Common' /\ count' = count
  BY <1>1, BeginsKept DEF Plain, Sorts
<1>3. /\ count \in Nat /\ count <= MaxCount /\ MaxCount \in Nat /\ IntMax \in Nat
      /\ SortAssumption
  BY ArrayFacts DEF Common, SortAssumption
<1> HIDE DEF count
<1>4. count \div 2 - 1 \in Nat /\ count \div 2 - 1 < count
  BY <1>1, <1>3
<1>5. n \in Int /\ n < count
  BY <1>3, <1>4, ToIntFacts
<1>6. ASSUME HeapFits PROVE n = count \div 2 - 1
  <2>1. count \div 2 - 1 <= IntMax
    BY <1>3, <1>6 DEF HeapFits
  <2> QED
    BY <1>3, <1>4, <2>1, ToIntFacts
<1> HIDE DEF n
<1> DEFINE b == items'
<1> HIDE DEF b
<1>7. ASSUME HeapFits PROVE HeapBut(b, n, count, n)
  <2>1. ASSUME NEW k \in 1 .. count - 1, NEW p \in Nat, p = (k - 1) \div 2
        PROVE  p <= n /\ (p = n /\ p > 0 => ~((p - 1) \div 2 >= n))
    BY <1>1, <1>3, <1>4, <1>6, <1>7, <2>1
  <2>2. \A k \in 1 .. count - 1 : (k - 1) \div 2 \in Nat
    BY <1>3
  <2> QED
    BY <1>5, <2>1, <2>2 DEF HeapBut
<1>8. HeapifyFacts(b, count, n, n, count)
  BY <1>3, <1>4, <1>5, <1>6, <1>7 DEF HeapifyFacts
<1>9. /\ at'.n = n /\ at'.parent = n /\ at'.heap_size = count
      /\ at' \in [n : Int, parent : Int, heap_size : Nat]
  BY <1>1, <1>3, <1>5
<1> QED
  BY <1>1, <1>2, <1>8, <1>9 DEF HeapRuns, b

LEMMA HeapIsRight ==
  ASSUME Common, HeapRuns
  PROVE  /\ pc = "heapify" => at.n < count /\ (at.n >= 0 => at.parent \in Positions)
         /\ pc = "sift" => at.parent \in Positions /\ at.heap_size < count
         /\ HeapFits => HeapLoop
<1>1. Positions = 0 .. count - 1 /\ count \in Nat
  BY ArrayFacts
<1> HIDE DEF count
<1>2. ASSUME pc = "heapify"
      PROVE  /\ at.n < count /\ (at.n >= 0 => at.parent \in Positions)
             /\ HeapFits => HeapFrom(at.n, count)
  <2>1. HeapifyFacts(items, count, at.n, at.parent, at.heap_size) /\ at.n \in Int
    BY <1>2 DEF HeapRuns
  <2> QED
    BY <1>1, <2>1 DEF HeapifyFacts, HeapBut, HeapFrom
<1>3. ASSUME pc = "sift"
      PROVE  /\ at.parent \in Positions /\ at.heap_size < count
             /\ HeapFits =>
                  /\ HeapFrom(0, at.heap_size)
                  /\ \A j \in at.heap_size .. count - 1, i \in Positions :
                       i < j => AtMost(items[i], items[j])
  <2>1. SiftFacts(items, count, at.parent, at.heap_size)
    BY <1>3 DEF HeapRuns
  <2> QED
    BY <1>1, <2>1 DEF SiftFacts, HeapBut, HeapFrom
<1> QED
  BY <1>2, <1>3 DEF HeapLoop

------------------------------------------------------------------------------
(* The sorts that recur: what waits for them is a sequence of windows.     *)
Windows == [op : {"visit", "merge"}, front : Nat, back : Nat]
Recurring == {"quick", "partition", "merge", "zip"}

LEMMA RecurringKeeps ==
  ASSUME Common, ArrayKept, count > 1, pc' \in Recurring, sort' \in Sorts, ok' \in BOOLEAN,
         todo' \in Seq(Windows), pc' # "zip" => temp' = <<>>,
         \A k \in DOMAIN temp' : temp'[k] \in [key : Keys, place : 0 .. count - 1],
         blocks' = IF pc' \in {"merge", "zip"} THEN 1 ELSE 0
  PROVE  Common' /\ count' = count
<1>1. count' = count /\ Positions' = Positions /\ Positions = 0 .. count - 1
  BY CountKept, ArrayFacts DEF ArrayKept
<1>2. SortAssumption /\ count \in Nat /\ DOMAIN items = 0 .. count - 1 /\ count <= MaxCount
  BY ArrayFacts DEF Common
<1> HIDE DEF count
<1>3. TypeOK'
  <2>1. DOMAIN items' = Positions' /\ count' <= MaxCount
    BY <1>1, <1>2 DEF ArrayKept
  <2>2. \A i \in Positions' : items'[i] \in [key : Keys, place : Positions']
    BY <1>1 DEF ArrayKept
  <2>3. \A k \in DOMAIN temp' : temp'[k] \in [key : Keys, place : Positions']
    BY <1>1
  <2>4. \A k \in DOMAIN todo' : todo'[k] \in Windows
    OBVIOUS
  <2> QED
    BY <2>1, <2>2, <2>3, <2>4 DEF TypeOK, Recurring, Windows
<1>4. ItemsKept'
  <2>1. {items'[i].place : i \in 0 .. count - 1} = 0 .. count - 1
    BY DEF ArrayKept
  <2> QED
    BY <2>1, <1>1 DEF ItemsKept
<1>5. NothingLeaks'
  BY DEF NothingLeaks
<1> QED
  BY <1>1, <1>2, <1>3, <1>4, <1>5 DEF Common, Recurring

LEMMA RecurringReturnKeeps ==
  ASSUME Common, ArrayKept, pc \in Recurring, UNCHANGED sort, Return(TRUE)
  PROVE  Common'
<1>1. sort \in Sorts /\ count > 1
  BY DEF Common, TypeOK, Recurring
<1> QED
  BY <1>1, PlainKeeps DEF Return

LEMMA WindowBounds ==
  ASSUME NEW w \in Windows
  PROVE  w.front \in Nat /\ w.back \in Nat
BY DEF Windows

LEMMA TailOf ==
  ASSUME NEW S, NEW s \in Seq(S), s # <<>>
  PROVE  /\ Head(s) \in S /\ Head(s) = s[1] /\ 1 \in DOMAIN s
         /\ Tail(s) \in Seq(S)
         /\ \A k \in DOMAIN Tail(s) : k + 1 \in DOMAIN s /\ Tail(s)[k] = s[k + 1] /\ k \in Nat /\ k >= 1
         /\ \A k \in DOMAIN s : k \in Nat
              /\ (k = 1 \/ (k - 1 \in DOMAIN Tail(s) /\ s[k] = Tail(s)[k - 1]))
OBVIOUS

------------------------------------------------------------------------------
(* Quick sort.  The windows that wait lie behind each other and behind the *)
(* one that is divided, from lo to hi.                                     *)
QuickOrder(a, c, ws, lo, hi) ==
  /\ lo \in Nat /\ hi \in lo .. c
  /\ \A k \in DOMAIN ws : ws[k].front <= ws[k].back /\ ws[k].back <= c /\ hi <= ws[k].front
  /\ \A k, m \in DOMAIN ws : k < m => ws[k].back <= ws[m].front
  /\ \A i, j \in 0 .. c - 1 :
       i < j /\ ~AtMost(a[i], a[j]) =>
         \/ lo <= i /\ j < hi
         \/ \E k \in DOMAIN ws : ws[k].front <= i /\ j < ws[k].back

PartitionFacts(a, front, size, n, less, greater, pivot) ==
  /\ less \in 0 .. n /\ n \in 0 .. greater + 1 /\ greater \in less .. size - 1
  /\ \A i \in 0 .. less - 1 : a[front + i].key < pivot.key
  /\ \A i \in less .. n - 1 : a[front + i].key = pivot.key
  /\ \A i \in greater + 1 .. size - 1 : a[front + i].key > pivot.key
  /\ \E i \in less .. greater : a[front + i] = pivot

Divisions == [front : Nat, size : Nat, n : Nat, less : Nat, greater : Nat, pivot : [key : Keys, place : Nat]]

QuickRuns ==
  pc \in {"quick", "partition"} =>
    /\ sort = "quick" /\ todo \in Seq(Windows)
    /\ pc = "quick" => QuickOrder(items, count, todo, 0, 0)
    /\ pc = "partition" =>
         /\ at \in Divisions
         /\ QuickOrder(items, count, todo, at.front, at.front + at.size)
         /\ PartitionFacts(items, at.front, at.size, at.n, at.less, at.greater, at.pivot)

(* Exchanging two items of the window that is divided leaves the others in *)
(* their order.                                                            *)
LEMMA QuickExchanges ==
  ASSUME NEW a, NEW b, NEW c, Holds(a, c), NEW ws \in Seq(Windows), NEW lo, NEW hi,
         QuickOrder(a, c, ws, lo, hi), NEW i, NEW j, Exchange(b, a, c, i, j),
         i \in lo .. hi - 1, j \in lo .. hi - 1
  PROVE  QuickOrder(b, c, ws, lo, hi)
<1>1. c \in Nat /\ lo \in Nat /\ hi \in lo .. c
  BY DEF Holds, QuickOrder
<1>2. ASSUME NEW x \in 0 .. c - 1, NEW y \in 0 .. c - 1, x < y, ~AtMost(b[x], b[y]),
             ~(lo <= x /\ y < hi)
      PROVE  \E k \in DOMAIN ws : ws[k].front <= x /\ y < ws[k].back
  <2> DEFINE mx == IF x = i THEN j ELSE IF x = j THEN i ELSE x
             my == IF y = i THEN j ELSE IF y = j THEN i ELSE y
  <2>1. /\ b[x] = a[mx] /\ b[y] = a[my] /\ mx \in 0 .. c - 1 /\ my \in 0 .. c - 1
        /\ IF lo <= x /\ x < hi THEN lo <= mx /\ mx < hi ELSE mx = x
        /\ IF lo <= y /\ y < hi THEN lo <= my /\ my < hi ELSE my = y
    BY <1>1, <1>2 DEF Exchange
  <2> HIDE DEF mx, my
  <2>2. mx < my /\ ~(lo <= mx /\ my < hi)
    BY <1>1, <1>2, <2>1
  <2>3. PICK k \in DOMAIN ws : ws[k].front <= mx /\ my < ws[k].back
    BY <1>2, <2>1, <2>2 DEF QuickOrder
  <2>4. hi <= ws[k].front /\ ws[k].front \in Nat
    <3>1. ws[k] \in Windows
      OBVIOUS
    <3> QED
      BY <3>1, WindowBounds DEF QuickOrder
  <2>5. mx = x /\ my = y
    BY <1>1, <1>2, <2>1, <2>2, <2>3, <2>4
  <2> QED
    BY <2>3, <2>5
<1> QED
  BY <1>1, <1>2 DEF QuickOrder

LEMMA QuickSkips ==
  ASSUME NEW a, NEW c, Holds(a, c), NEW ws \in Seq(Windows), ws # <<>>,
         QuickOrder(a, c, ws, 0, 0), Head(ws).back - Head(ws).front <= 1
  PROVE  QuickOrder(a, c, Tail(ws), 0, 0)
<1>1. c \in Nat /\ 0 \in Nat /\ 0 \in 0 .. c
  BY DEF Holds
<1>2. \A k \in DOMAIN Tail(ws) : k + 1 \in DOMAIN ws /\ Tail(ws)[k] = ws[k + 1] /\ k \in Nat
  BY TailOf
<1>3. ASSUME NEW i \in 0 .. c - 1, NEW j \in 0 .. c - 1, i < j, ~AtMost(a[i], a[j])
      PROVE  \E k \in DOMAIN Tail(ws) : Tail(ws)[k].front <= i /\ j < Tail(ws)[k].back
  <2>1. PICK k \in DOMAIN ws : ws[k].front <= i /\ j < ws[k].back
    BY <1>3 DEF QuickOrder
  <2>2. k # 1
    <3>1. Head(ws) = ws[1] /\ Head(ws).front \in Nat /\ Head(ws).back \in Nat
      BY TailOf, WindowBounds
    <3> QED
      BY <1>3, <2>1, <3>1
  <2>3. k - 1 \in DOMAIN Tail(ws) /\ ws[k] = Tail(ws)[k - 1]
    BY <2>2, TailOf
  <2> QED
    BY <2>1, <2>3
<1>4. ASSUME NEW k \in DOMAIN Tail(ws), NEW m \in DOMAIN Tail(ws), k < m
      PROVE  Tail(ws)[k].back <= Tail(ws)[m].front
  <2>1. k + 1 < m + 1
    BY <1>2, <1>4
  <2> QED
    BY <1>2, <2>1 DEF QuickOrder
<1> QED
  BY <1>1, <1>2, <1>3, <1>4 DEF QuickOrder

LEMMA QuickDivides ==
  ASSUME NEW a, NEW c, Holds(a, c), NEW ws \in Seq(Windows), ws # <<>>,
         QuickOrder(a, c, ws, 0, 0)
  PROVE  QuickOrder(a, c, Tail(ws), Head(ws).front, Head(ws).back)
<1>1. c \in Nat /\ Head(ws).front \in Nat /\ Head(ws).back \in Nat /\ Head(ws) = ws[1] /\ 1 \in DOMAIN ws
  BY TailOf, WindowBounds DEF Holds
<1>2. Head(ws).back \in Head(ws).front .. c
  BY <1>1 DEF QuickOrder
<1>3. \A k \in DOMAIN Tail(ws) : k + 1 \in DOMAIN ws /\ Tail(ws)[k] = ws[k + 1] /\ k \in Nat /\ k >= 1
  BY TailOf
<1>4. ASSUME NEW i \in 0 .. c - 1, NEW j \in 0 .. c - 1, i < j, ~AtMost(a[i], a[j]),
             ~(Head(ws).front <= i /\ j < Head(ws).back)
      PROVE  \E k \in DOMAIN Tail(ws) : Tail(ws)[k].front <= i /\ j < Tail(ws)[k].back
  <2>1. PICK k \in DOMAIN ws : ws[k].front <= i /\ j < ws[k].back
    BY <1>4 DEF QuickOrder
  <2>2. k # 1
    BY <1>1, <1>4, <2>1
  <2>3. k - 1 \in DOMAIN Tail(ws) /\ ws[k] = Tail(ws)[k - 1]
    BY <2>2, TailOf
  <2> QED
    BY <2>1, <2>3
<1>5. ASSUME NEW k \in DOMAIN Tail(ws), NEW m \in DOMAIN Tail(ws), k < m
      PROVE  Tail(ws)[k].back <= Tail(ws)[m].front
  <2>1. k + 1 < m + 1
    BY <1>3, <1>5
  <2> QED
    BY <1>3, <2>1 DEF QuickOrder
<1>6. ASSUME NEW k \in DOMAIN Tail(ws)
      PROVE  /\ Tail(ws)[k].front <= Tail(ws)[k].back /\ Tail(ws)[k].back <= c
             /\ Head(ws).back <= Tail(ws)[k].front
  <2>1. 1 < k + 1
    BY <1>3
  <2> QED
    BY <1>1, <1>3, <2>1 DEF QuickOrder
<1> QED
  BY <1>1, <1>2, <1>4, <1>5, <1>6 DEF QuickOrder

LEMMA PrependTwo ==
  ASSUME NEW S, NEW x \in S, NEW y \in S, NEW s \in Seq(S), NEW t, t = <<x, y>> \o s
  PROVE  /\ t \in Seq(S) /\ 1 \in DOMAIN t /\ 2 \in DOMAIN t /\ t[1] = x /\ t[2] = y
         /\ \A k \in DOMAIN t : k \in Nat
              /\ (k \in {1, 2} \/ (k - 2 \in DOMAIN s /\ t[k] = s[k - 2] /\ k > 2))
         /\ \A k \in DOMAIN s : k + 2 \in DOMAIN t /\ t[k + 2] = s[k]
OBVIOUS

(* Items of a divided window that are out of order are on one side of it.  *)
LEMMA PartitionParts ==
  ASSUME NEW a, NEW c, Holds(a, c), NEW pivot, pivot.key \in Int,
         NEW front \in Nat, NEW size \in Nat, NEW less \in Nat, NEW greater \in Nat,
         PartitionFacts(a, front, size, greater + 1, less, greater, pivot), front + size <= c,
         NEW i \in Nat, NEW j \in Nat, i < j, ~AtMost(a[i], a[j]), front <= i, j < front + size
  PROVE  j < front + less \/ front + greater + 1 <= i
<1>1. c \in Nat /\ less <= greater /\ greater < size
  BY DEF Holds, PartitionFacts
<1>2. a[i].key \in Int /\ a[j].key \in Int /\ a[i].key > a[j].key
  <2>1. i \in 0 .. c - 1 /\ j \in 0 .. c - 1
    BY <1>1
  <2> QED
    BY <2>1 DEF Holds, AtMost, Compare
<1> DEFINE u == i - front
           v == j - front
<1>3. u \in 0 .. size - 1 /\ v \in 0 .. size - 1 /\ u < v /\ front + u = i /\ front + v = j
  OBVIOUS
<1> HIDE DEF u, v
<1>4. ASSUME v >= less, u <= greater PROVE FALSE
  <2>1. a[front + v].key >= pivot.key
    <3>1. v \in less .. (greater + 1) - 1 \/ v \in greater + 1 .. size - 1
      BY <1>1, <1>3, <1>4
    <3> QED
      BY <1>2, <1>3, <3>1 DEF PartitionFacts
  <2>2. a[front + u].key <= pivot.key
    <3>1. u \in 0 .. less - 1 \/ u \in less .. (greater + 1) - 1
      BY <1>1, <1>3, <1>4
    <3> QED
      BY <1>2, <1>3, <3>1 DEF PartitionFacts
  <2> QED
    BY <1>2, <1>3, <2>1, <2>2
<1> QED
  BY <1>3, <1>4

(* ts is ws with the windows x and y before it.                            *)
Prepended(ts, x, y, ws) ==
  /\ ts \in Seq(Windows) /\ x \in Windows /\ y \in Windows
  /\ 1 \in DOMAIN ts /\ 2 \in DOMAIN ts /\ ts[1] = x /\ ts[2] = y
  /\ \A k \in DOMAIN ts :
       k \in Nat /\ (k \in {1, 2} \/ (k - 2 \in DOMAIN ws /\ ts[k] = ws[k - 2] /\ k > 2))
  /\ \A k \in DOMAIN ws : k + 2 \in DOMAIN ts /\ ts[k + 2] = ws[k]

LEMMA QuickJoins ==
  ASSUME NEW a, NEW c, Holds(a, c), NEW ws \in Seq(Windows), NEW pivot, pivot.key \in Int,
         NEW front \in Nat, NEW size \in Nat, NEW less \in Nat, NEW greater \in Nat,
         QuickOrder(a, c, ws, front, front + size),
         PartitionFacts(a, front, size, greater + 1, less, greater, pivot),
         NEW ts, NEW x, NEW y, Prepended(ts, x, y, ws),
         x.front = front, x.back = front + less,
         y.front = front + greater + 1, y.back = front + size
  PROVE  QuickOrder(a, c, ts, 0, 0)
<1>1. c \in Nat /\ less <= greater /\ greater < size /\ front + size <= c
  BY DEF Holds, QuickOrder, PartitionFacts
<1>2. ASSUME NEW k \in DOMAIN ts
      PROVE  ts[k].front <= ts[k].back /\ ts[k].back <= c /\ 0 <= ts[k].front
  <2>1. CASE k \in {1, 2}
    BY <1>1, <2>1, SMTT(30) DEF Prepended
  <2>2. CASE k \notin {1, 2}
    <3>1. k - 2 \in DOMAIN ws /\ ts[k] = ws[k - 2] /\ ts[k] \in Windows
      BY <2>2, SMTT(30) DEF Prepended
    <3>2. ts[k].front \in Nat
      BY <3>1, WindowBounds
    <3>3. ws[k - 2].front <= ws[k - 2].back /\ ws[k - 2].back <= c
      BY <3>1 DEF QuickOrder
    <3> QED
      BY <3>1, <3>2, <3>3
  <2> QED
    BY <2>1, <2>2
<1>3. ASSUME NEW k \in DOMAIN ts, NEW m \in DOMAIN ts, k < m
      PROVE  ts[k].back <= ts[m].front
  <2>1. CASE k = 1 /\ m = 2
    BY <1>1, <2>1, SMTT(30) DEF Prepended
  <2>2. CASE k \in {1, 2} /\ m \notin {1, 2}
    <3>1. m - 2 \in DOMAIN ws /\ ts[m] = ws[m - 2] /\ ts[m] \in Windows
      BY <2>2, SMTT(30) DEF Prepended
    <3>2. front + size <= ts[m].front /\ ts[m].front \in Nat
      BY <3>1, WindowBounds DEF QuickOrder
    <3>3. ts[k].back \in Nat /\ ts[k].back <= front + size
      <4>1. ts[k] = x \/ ts[k] = y
        BY <2>2 DEF Prepended
      <4> QED
        BY <1>1, <4>1
    <3> QED
      BY <3>2, <3>3
  <2>3. CASE k \notin {1, 2} /\ m \notin {1, 2}
    <3>1. /\ m - 2 \in DOMAIN ws /\ ts[m] = ws[m - 2]
          /\ k - 2 \in DOMAIN ws /\ ts[k] = ws[k - 2] /\ k - 2 < m - 2
      BY <1>3, <2>3, SMTT(30) DEF Prepended
    <3> QED
      BY <3>1 DEF QuickOrder
  <2> QED
    BY <1>3, <2>1, <2>2, <2>3, SMTT(30) DEF Prepended
<1>4. ASSUME NEW i \in 0 .. c - 1, NEW j \in 0 .. c - 1, i < j, ~AtMost(a[i], a[j])
      PROVE  \E k \in DOMAIN ts : ts[k].front <= i /\ j < ts[k].back
  <2>1. CASE front <= i /\ j < front + size
    <3>1. j < front + less \/ front + greater + 1 <= i
      <4>1. i \in Nat /\ j \in Nat /\ front + size <= c
        BY <1>1, <1>4
      <4> QED
        BY <1>4, <2>1, <4>1, PartitionParts, SMTT(30)
    <3> QED
      BY <2>1, <3>1 DEF Prepended
  <2>2. CASE ~(front <= i /\ j < front + size)
    <3>1. PICK k \in DOMAIN ws : ws[k].front <= i /\ j < ws[k].back
      BY <1>4, <2>2 DEF QuickOrder
    <3> QED
      BY <3>1 DEF Prepended
  <2> QED
    BY <2>1, <2>2
<1>5. 0 \in Nat /\ 0 \in 0 .. c
  BY <1>1
<1> QED
  BY <1>2, <1>3, <1>4, <1>5 DEF QuickOrder

(* The three turns of a partition.                                         *)
LEMMA PartitionLess ==
  ASSUME NEW a, NEW b, NEW c, Holds(a, c), NEW front \in Nat, NEW size \in Nat, front + size <= c,
         NEW n \in Nat, NEW less \in Nat, NEW greater \in Nat, NEW pivot, pivot.key \in Int,
         PartitionFacts(a, front, size, n, less, greater, pivot), n <= greater,
         a[front + n].key < pivot.key, Exchange(b, a, c, front + n, front + less)
  PROVE  PartitionFacts(b, front, size, n + 1, less + 1, greater, pivot)
<1>1. less <= n /\ less <= greater /\ greater < size /\ c \in Nat
  BY DEF PartitionFacts, Holds
<1>2. \A i \in 0 .. size - 1 :
        b[front + i] = IF i = n THEN a[front + less] ELSE IF i = less THEN a[front + n] ELSE a[front + i]
  BY <1>1 DEF Exchange
<1>3. \A i \in 0 .. size - 1 : a[front + i].key \in Int
  BY <1>1 DEF Holds
<1>4. PICK w \in less .. greater : a[front + w] = pivot
  BY DEF PartitionFacts
<1>5. w # n
  BY <1>4
<1>6. less + 1 <= greater
  BY <1>1, <1>4, <1>5
<1>7. \A i \in 0 .. less : b[front + i].key < pivot.key
  <2>1. b[front + less].key < pivot.key
    BY <1>1, <1>2
  <2>2. ASSUME NEW i \in 0 .. less - 1 PROVE b[front + i].key < pivot.key
    <3>1. b[front + i] = a[front + i]
      BY <1>1, <1>2
    <3> QED
      BY <3>1 DEF PartitionFacts
  <2> QED
    BY <2>1, <2>2
<1>8. ASSUME NEW i \in less + 1 .. n PROVE b[front + i].key = pivot.key
  <2>1. CASE i = n
    <3>1. b[front + i] = a[front + less] /\ less \in less .. n - 1
      BY <1>1, <1>2, <1>8, <2>1
    <3> QED
      BY <3>1 DEF PartitionFacts
  <2>2. CASE i # n
    <3>1. b[front + i] = a[front + i] /\ i \in less .. n - 1
      BY <1>1, <1>2, <1>8, <2>2
    <3> QED
      BY <3>1 DEF PartitionFacts
  <2> QED
    BY <2>1, <2>2
<1>9. ASSUME NEW i \in greater + 1 .. size - 1 PROVE b[front + i].key > pivot.key
  <2>1. b[front + i] = a[front + i]
    BY <1>1, <1>2, <1>9
  <2> QED
    BY <2>1 DEF PartitionFacts
<1>10. \E i \in less + 1 .. greater : b[front + i] = pivot
  <2>1. CASE w = less
    <3>1. b[front + n] = pivot /\ n \in less + 1 .. greater
      BY <1>1, <1>2, <1>4, <1>5, <2>1
    <3> QED
      BY <3>1
  <2>2. CASE w # less
    <3>1. b[front + w] = pivot /\ w \in less + 1 .. greater
      BY <1>1, <1>2, <1>4, <1>5, <2>2
    <3> QED
      BY <3>1
  <2> QED
    BY <2>1, <2>2
<1>11. less + 1 \in 0 .. n + 1 /\ n + 1 \in 0 .. greater + 1 /\ greater \in less + 1 .. size - 1
  BY <1>1, <1>6
<1> HIDE DEF PartitionFacts
<1> QED
  BY <1>7, <1>8, <1>9, <1>10, <1>11 DEF PartitionFacts

LEMMA PartitionGreater ==
  ASSUME NEW a, NEW b, NEW c, Holds(a, c), NEW front \in Nat, NEW size \in Nat, front + size <= c,
         NEW n \in Nat, NEW less \in Nat, NEW greater \in Nat, NEW pivot, pivot.key \in Int,
         PartitionFacts(a, front, size, n, less, greater, pivot), n <= greater,
         a[front + n].key > pivot.key, Exchange(b, a, c, front + n, front + greater)
  PROVE  PartitionFacts(b, front, size, n, less, greater - 1, pivot) /\ greater >= 1
<1>1. less <= n /\ less <= greater /\ greater < size /\ c \in Nat
  BY DEF PartitionFacts, Holds
<1>2. \A i \in 0 .. size - 1 :
        b[front + i] = IF i = n THEN a[front + greater] ELSE IF i = greater THEN a[front + n] ELSE a[front + i]
  BY <1>1 DEF Exchange
<1>4. PICK w \in less .. greater : a[front + w] = pivot
  BY DEF PartitionFacts
<1>5. w # n
  BY <1>4
<1>6. less <= greater - 1 /\ greater >= 1
  BY <1>1, <1>4, <1>5
<1>7. ASSUME NEW i \in 0 .. less - 1 PROVE b[front + i].key < pivot.key
  <2>1. b[front + i] = a[front + i]
    BY <1>1, <1>2, <1>7
  <2> QED
    BY <2>1 DEF PartitionFacts
<1>8. ASSUME NEW i \in less .. n - 1 PROVE b[front + i].key = pivot.key
  <2>1. b[front + i] = a[front + i]
    BY <1>1, <1>2, <1>8
  <2> QED
    BY <2>1 DEF PartitionFacts
<1>9. ASSUME NEW i \in (greater - 1) + 1 .. size - 1 PROVE b[front + i].key > pivot.key
  <2>1. CASE i = greater
    BY <1>1, <1>2, <2>1
  <2>2. CASE i # greater
    <3>1. b[front + i] = a[front + i] /\ i \in greater + 1 .. size - 1
      BY <1>1, <1>2, <1>9, <2>2
    <3> QED
      BY <3>1 DEF PartitionFacts
  <2> QED
    BY <2>1, <2>2
<1>10. \E i \in less .. greater - 1 : b[front + i] = pivot
  <2>1. CASE w = greater
    <3>1. b[front + n] = pivot /\ n \in less .. greater - 1
      BY <1>1, <1>2, <1>4, <1>5, <2>1
    <3> QED
      BY <3>1
  <2>2. CASE w # greater
    <3>1. b[front + w] = pivot /\ w \in less .. greater - 1
      BY <1>1, <1>2, <1>4, <1>5, <2>2
    <3> QED
      BY <3>1
  <2> QED
    BY <2>1, <2>2
<1>11. less \in 0 .. n /\ n \in 0 .. (greater - 1) + 1 /\ greater - 1 \in less .. size - 1
  BY <1>1, <1>6
<1> QED
  BY <1>6, <1>7, <1>8, <1>9, <1>10, <1>11 DEF PartitionFacts

LEMMA PartitionEqual ==
  ASSUME NEW a, NEW front \in Nat, NEW size \in Nat,
         NEW n \in Nat, NEW less \in Nat, NEW greater \in Nat, NEW pivot,
         PartitionFacts(a, front, size, n, less, greater, pivot), n <= greater,
         a[front + n].key = pivot.key
  PROVE  PartitionFacts(a, front, size, n + 1, less, greater, pivot)
<1>1. less \in 0 .. n + 1 /\ n + 1 \in 0 .. greater + 1 /\ less <= n
  BY DEF PartitionFacts
<1>2. ASSUME NEW i \in less .. (n + 1) - 1 PROVE a[front + i].key = pivot.key
  <2>1. i = n \/ i \in less .. n - 1
    BY <1>1, <1>2
  <2> QED
    BY <2>1 DEF PartitionFacts
<1> QED
  BY <1>1, <1>2 DEF PartitionFacts

LEMMA QuickStarts ==
  ASSUME Common, QuickBegins
  PROVE  Common' /\ QuickRuns' /\ pc' = "quick"
<1>1. /\ pc = "idle" /\ count > 1 /\ sort' = "quick" /\ items' = Renumbered /\ pc' = "quick"
      /\ todo' = <<Window(0, count)>> /\ UNCHANGED <<at, temp, blocks, ok>>
  BY DEF QuickBegins
<1>2. ArrayKept /\ count \in Nat /\ temp = <<>> /\ blocks = 0 /\ ok \in BOOLEAN
  BY <1>1, RenumberKeeps DEF Common, TypeOK, NothingLeaks
<1> HIDE DEF count
<1> DEFINE w == Window(0, count)
           ws == <<w>>
<1>3. w \in Windows /\ w.front = 0 /\ w.back = count
  BY <1>2 DEF Window, Windows
<1> HIDE DEF w
<1>4. ws \in Seq(Windows) /\ DOMAIN ws = {1} /\ ws[1] = w /\ todo' = ws
  BY <1>1, <1>3 DEF w
<1> HIDE DEF ws
<1>5. Common' /\ count' = count
  <2>1. DOMAIN temp' = {}
    BY <1>1, <1>2
  <2> QED
    BY <1>1, <1>2, <1>4, <2>1, RecurringKeeps DEF Recurring, Sorts
<1> DEFINE b == items'
<1> HIDE DEF b
<1>6. QuickOrder(b, count, ws, 0, 0)
  BY <1>2, <1>3, <1>4 DEF QuickOrder
<1> QED
  BY <1>1, <1>4, <1>5, <1>6 DEF QuickRuns, b

(* A step of the recursion keeps Common: what else it must leave alone.    *)
LEMMA QuickCommon ==
  ASSUME Common, QuickRuns, pc \in {"quick", "partition"}, pc' \in {"quick", "partition"},
         ArrayKept, todo' \in Seq(Windows), UNCHANGED <<sort, temp, blocks, ok>>
  PROVE  Common' /\ count' = count /\ sort' = "quick"
<1>1. /\ temp = <<>> /\ blocks = 0 /\ ok \in BOOLEAN /\ sort \in Sorts /\ count > 1
      /\ sort = "quick"
  BY DEF Common, TypeOK, NothingLeaks, QuickRuns
<1>2. DOMAIN temp' = {}
  BY <1>1
<1> QED
  BY <1>1, <1>2, RecurringKeeps DEF Recurring

LEMMA QuickOpenKeeps ==
  ASSUME Common, QuickRuns, QuickOpens
  PROVE  Common' /\ QuickRuns' /\ pc' \in {"quick", "partition"}
<1> DEFINE w == Head(todo)
           size == w.back - w.front
<1>1. /\ pc = "quick" /\ todo # <<>> /\ todo' = Tail(todo) /\ UNCHANGED <<sort, temp, blocks, ok, items>>
      /\ IF size <= 1 THEN UNCHANGED <<at, pc>> ELSE at' = QuickPartition(w) /\ pc' = "partition"
  BY DEF QuickOpens, Loops
<1>2. /\ todo \in Seq(Windows) /\ QuickOrder(items, count, todo, 0, 0) /\ Holds(items, count)
      /\ w \in Windows /\ Tail(todo) \in Seq(Windows)
  BY <1>1, TailOf, HoldsItems DEF QuickRuns
<1>3. w.front \in Nat /\ w.back \in Nat /\ w.front <= w.back /\ w.back <= count /\ count \in Nat
  <2>1. w = todo[1] /\ 1 \in DOMAIN todo
    BY <1>1, <1>2, TailOf
  <2> QED
    BY <1>2, <2>1, WindowBounds DEF QuickOrder, Holds
<1>4. ArrayKept /\ pc' \in {"quick", "partition"}
  BY <1>1, SameKeeps
<1>5. Common' /\ count' = count /\ sort' = "quick"
  BY <1>1, <1>2, <1>4, QuickCommon
<1>6. CASE size <= 1
  <2>1. QuickOrder(items, count, Tail(todo), 0, 0)
    BY <1>1, <1>2, <1>6, QuickSkips
  <2> HIDE DEF w, size
  <2> QED
    BY <1>1, <1>2, <1>5, <1>6, <2>1 DEF QuickRuns
<1>7. CASE ~(size <= 1)
  <2>1. QuickOrder(items, count, Tail(todo), w.front, w.back)
    BY <1>1, <1>2, QuickDivides
  <2> DEFINE pivot == items[w.front + size \div 2]
  <2>2. /\ w.front + size = w.back /\ size \in Nat /\ size \div 2 \in 0 .. size - 1
        /\ w.front + size \div 2 \in 0 .. count - 1 /\ size - 1 \in 0 .. size - 1
    BY <1>3, <1>7
  <2>3. pivot \in [key : Keys, place : Nat]
    <3>1. pivot \in [key : Keys, place : 0 .. count - 1]
      BY <2>2, ArrayFacts
    <3> QED
      BY <3>1
  <2>4. at' = [front |-> w.front, size |-> size, n |-> 0, less |-> 0, greater |-> size - 1, pivot |-> pivot]
    BY <1>1, <1>7 DEF QuickPartition
  <2> HIDE DEF pivot, w, size
  <2>5. PartitionFacts(items, w.front, size, 0, 0, size - 1, pivot)
    <3>1. /\ 0 \in 0 .. 0 /\ 0 \in 0 .. (size - 1) + 1 /\ 0 .. 0 - 1 = {}
          /\ (size - 1) + 1 .. size - 1 = {} /\ size \div 2 \in 0 .. size - 1
      BY <2>2
    <3>2. items[w.front + size \div 2] = pivot
      BY DEF pivot
    <3> QED
      BY <2>2, <3>1, <3>2 DEF PartitionFacts
  <2>6. at' \in Divisions
    BY <1>3, <2>2, <2>3, <2>4 DEF Divisions
  <2>7. /\ at'.front = w.front /\ at'.size = size /\ at'.n = 0 /\ at'.less = 0
        /\ at'.greater = size - 1 /\ at'.pivot = pivot
    BY <2>4
  <2> QED
    BY <1>1, <1>2, <1>5, <1>7, <2>1, <2>2, <2>5, <2>6, <2>7 DEF QuickRuns
<1> QED
  BY <1>4, <1>5, <1>6, <1>7

LEMMA PartitionKeeps ==
  ASSUME Common, QuickRuns, QuickLess \/ QuickGreater \/ QuickEqual
  PROVE  Common' /\ QuickRuns' /\ pc' = "partition"
<1>1. /\ pc = "partition" /\ pc' = "partition" /\ at.n <= at.greater
      /\ UNCHANGED <<sort, todo, temp, blocks, ok>>
  BY DEF QuickLess, QuickGreater, QuickEqual, Loops
<1>2. /\ todo \in Seq(Windows) /\ at \in Divisions /\ Holds(items, count)
      /\ QuickOrder(items, count, todo, at.front, at.front + at.size)
      /\ PartitionFacts(items, at.front, at.size, at.n, at.less, at.greater, at.pivot)
  BY <1>1, HoldsItems DEF QuickRuns
<1>3. /\ at.front \in Nat /\ at.size \in Nat /\ at.n \in Nat /\ at.less \in Nat /\ at.greater \in Nat
      /\ at.pivot.key \in Int
  <2>1. Keys \subseteq Int
    BY DEF Common, SortAssumption
  <2> QED
    BY <1>2, <2>1 DEF Divisions
<1>4. at.front + at.size <= count /\ count \in Nat /\ at.less <= at.n /\ at.greater < at.size
  BY <1>2, <1>3 DEF QuickOrder, PartitionFacts, Holds
<1>5. /\ at.front + at.n \in 0 .. count - 1 /\ at.front + at.less \in 0 .. count - 1
      /\ at.front + at.greater \in 0 .. count - 1
      /\ at.front + at.n \in at.front .. (at.front + at.size) - 1
      /\ at.front + at.less \in at.front .. (at.front + at.size) - 1
      /\ at.front + at.greater \in at.front .. (at.front + at.size) - 1
      /\ items[at.front + at.n].key \in Int
  <2>1. at.front + at.n \in 0 .. count - 1
    BY <1>1, <1>3, <1>4
  <2>2. items[at.front + at.n].key \in Int
    BY <1>2, <2>1 DEF Holds
  <2> QED
    BY <1>1, <1>3, <1>4, <2>2
<1>6. SUFFICES /\ ArrayKept /\ at' \in Divisions
               /\ QuickOrder(items', count, todo, at'.front, at'.front + at'.size)
               /\ PartitionFacts(items', at'.front, at'.size, at'.n, at'.less, at'.greater, at'.pivot)
  BY <1>1, <1>2, <1>6, QuickCommon DEF QuickRuns
<1>7. CASE QuickLess
  <2>1. /\ items[at.front + at.n].key < at.pivot.key
        /\ items' = Swapped(at.front + at.n, at.front + at.less)
        /\ at' = [at EXCEPT !.less = @ + 1, !.n = @ + 1]
    BY <1>3, <1>5, <1>7 DEF QuickLess, Compare, Item, Exchanged
  <2>2. ArrayKept /\ Exchange(items', items, count, at.front + at.n, at.front + at.less)
    BY <1>5, <2>1, SwapKeeps DEF Exchange
  <2>3. QuickOrder(items', count, todo, at.front, at.front + at.size)
    BY <1>2, <1>5, <2>2, QuickExchanges
  <2>4. PartitionFacts(items', at.front, at.size, at.n + 1, at.less + 1, at.greater, at.pivot)
    BY <1>1, <1>2, <1>3, <1>4, <2>1, <2>2, PartitionLess
  <2>5. /\ at'.front = at.front /\ at'.size = at.size /\ at'.n = at.n + 1 /\ at'.less = at.less + 1
        /\ at'.greater = at.greater /\ at'.pivot = at.pivot /\ at' \in Divisions
    <3> DEFINE grown == [at EXCEPT !.less = at.less + 1]
    <3>1. /\ grown \in Divisions /\ grown.front = at.front /\ grown.size = at.size /\ grown.n = at.n
          /\ grown.less = at.less + 1 /\ grown.greater = at.greater /\ grown.pivot = at.pivot
      BY <1>2, <1>3, SMTT(30) DEF Divisions
    <3>2. at' = [grown EXCEPT !.n = at.n + 1]
      BY <2>1
    <3> HIDE DEF grown
    <3> QED
      BY <1>3, <3>1, <3>2 DEF Divisions
  <2> QED
    BY <2>2, <2>3, <2>4, <2>5
<1>8. CASE QuickGreater
  <2>1. /\ items[at.front + at.n].key > at.pivot.key
        /\ items' = Swapped(at.front + at.n, at.front + at.greater)
        /\ at' = [at EXCEPT !.greater = Down(@)]
    BY <1>3, <1>5, <1>8 DEF QuickGreater, Compare, Item, Exchanged
  <2>2. ArrayKept /\ Exchange(items', items, count, at.front + at.n, at.front + at.greater)
    BY <1>5, <2>1, SwapKeeps DEF Exchange
  <2>3. QuickOrder(items', count, todo, at.front, at.front + at.size)
    BY <1>2, <1>5, <2>2, QuickExchanges
  <2>4. PartitionFacts(items', at.front, at.size, at.n, at.less, at.greater - 1, at.pivot)
           /\ at.greater >= 1
    BY <1>1, <1>2, <1>3, <1>4, <2>1, <2>2, PartitionGreater
  <2>5. Down(at.greater) = at.greater - 1
    <3>1. at.greater \in 1 .. count - 1
      BY <1>3, <1>4, <2>4
    <3> QED
      BY <3>1, DownOfIndex
  <2>6. /\ at'.front = at.front /\ at'.size = at.size /\ at'.n = at.n /\ at'.less = at.less
        /\ at'.greater = at.greater - 1 /\ at'.pivot = at.pivot /\ at' \in Divisions
    <3>1. at' = [at EXCEPT !.greater = at.greater - 1] /\ at.greater - 1 \in Nat
      BY <1>3, <2>1, <2>4, <2>5
    <3> QED
      BY <1>2, <3>1 DEF Divisions
  <2> QED
    BY <2>2, <2>3, <2>4, <2>6
<1>9. CASE QuickEqual
  <2>1. /\ items[at.front + at.n].key = at.pivot.key /\ items' = items
        /\ at' = [at EXCEPT !.n = @ + 1]
    BY <1>3, <1>5, <1>9 DEF QuickEqual, Compare, Item
  <2>2. PartitionFacts(items, at.front, at.size, at.n + 1, at.less, at.greater, at.pivot)
    BY <1>1, <1>2, <1>3, <2>1, PartitionEqual
  <2>3. /\ at'.front = at.front /\ at'.size = at.size /\ at'.n = at.n + 1 /\ at'.less = at.less
        /\ at'.greater = at.greater /\ at'.pivot = at.pivot /\ at' \in Divisions
    BY <1>2, <1>3, <2>1, SMTT(30) DEF Divisions
  <2> QED
    BY <1>2, <2>1, <2>2, <2>3, SameKeeps
<1> QED
  BY <1>7, <1>8, <1>9

LEMMA QuickSplitKeeps ==
  ASSUME Common, QuickRuns, QuickSplits
  PROVE  Common' /\ QuickRuns' /\ pc' = "quick"
<1> DEFINE x == Window(at.front, at.front + at.less)
           y == Window(at.front + at.greater + 1, at.front + at.size)
           ts == <<x, y>> \o todo
<1>1. /\ pc = "partition" /\ pc' = "quick" /\ at.n > at.greater /\ todo' = ts
      /\ UNCHANGED <<sort, temp, blocks, ok, items>>
  BY DEF QuickSplits, Loops
<1>2. /\ todo \in Seq(Windows) /\ at \in Divisions /\ Holds(items, count)
      /\ QuickOrder(items, count, todo, at.front, at.front + at.size)
      /\ PartitionFacts(items, at.front, at.size, at.n, at.less, at.greater, at.pivot)
  BY <1>1, HoldsItems DEF QuickRuns
<1>3. /\ at.front \in Nat /\ at.size \in Nat /\ at.n \in Nat /\ at.less \in Nat /\ at.greater \in Nat
      /\ at.pivot.key \in Int
  <2>1. Keys \subseteq Int
    BY DEF Common, SortAssumption
  <2> QED
    BY <1>2, <2>1 DEF Divisions
<1>4. at.n = at.greater + 1
  BY <1>1, <1>2, <1>3, SMTT(30) DEF PartitionFacts
<1>5. /\ x \in Windows /\ x.front = at.front /\ x.back = at.front + at.less
      /\ y \in Windows /\ y.front = at.front + at.greater + 1 /\ y.back = at.front + at.size
  BY <1>3 DEF Window, Windows
<1> HIDE DEF x, y
<1>6. Prepended(ts, x, y, todo)
  BY <1>2, <1>5, PrependTwo DEF Prepended
<1> HIDE DEF ts
<1>7. QuickOrder(items, count, ts, 0, 0)
  <2> DEFINE front == at.front
             size == at.size
             less == at.less
             greater == at.greater
             pivot == at.pivot
             c == count
  <2>1. PartitionFacts(items, front, size, greater + 1, less, greater, pivot)
    BY <1>2, <1>4
  <2>2. Holds(items, c) /\ QuickOrder(items, c, todo, front, front + size)
    BY <1>2
  <2>3. /\ front \in Nat /\ size \in Nat /\ less \in Nat /\ greater \in Nat /\ pivot.key \in Int
        /\ x.front = front /\ x.back = front + less
        /\ y.front = front + greater + 1 /\ y.back = front + size
    BY <1>3, <1>5
  <2> HIDE DEF front, size, less, greater, pivot, c
  <2>4. QuickOrder(items, c, ts, 0, 0)
    BY <1>2, <1>6, <2>1, <2>2, <2>3, QuickJoins
  <2> QED
    BY <2>4 DEF c
<1>8. ts \in Seq(Windows) /\ ArrayKept
  BY <1>1, <1>6, SameKeeps DEF Prepended
<1>9. Common' /\ count' = count /\ sort' = "quick"
  BY <1>1, <1>8, QuickCommon
<1> QED
  BY <1>1, <1>7, <1>8, <1>9 DEF QuickRuns

LEMMA QuickReturns ==
  ASSUME Common, QuickRuns, QuickEnds
  PROVE  Common' /\ IdleInv' /\ pc' = "idle"
<1>1. pc = "quick" /\ todo = <<>> /\ Return(TRUE) /\ UNCHANGED <<items, sort>>
  BY DEF QuickEnds
<1>2. QuickOrder(items, count, todo, 0, 0) /\ sort = "quick" /\ DOMAIN todo = {}
  BY <1>1 DEF QuickRuns
<1>3. \A i, j \in 0 .. count - 1 : i < j => AtMost(items[i], items[j])
  BY <1>2 DEF QuickOrder
<1>4. sort \notin StableSorts
  BY <1>2 DEF StableSorts
<1>5. Common' /\ pc' = "idle"
  BY <1>1, SameKeeps, RecurringReturnKeeps DEF Recurring, Return
<1> QED
  BY <1>1, <1>3, <1>4, <1>5, ReturnsSorted

LEMMA QuickIsRight ==
  ASSUME Common, QuickRuns
  PROVE  /\ pc = "partition" => /\ at.less <= at.n /\ at.n <= at.greater + 1
                                /\ at.less <= at.greater /\ at.greater < at.size
         /\ QuickLoop
<1>1. Positions = 0 .. count - 1 /\ Holds(items, count)
  BY ArrayFacts, HoldsItems
<1> HIDE DEF count
<1>2. ASSUME pc = "partition"
      PROVE  /\ at.less <= at.n /\ at.n <= at.greater + 1
             /\ at.less <= at.greater /\ at.greater < at.size
             /\ \A i \in 0 .. at.less - 1 : Compare(Item(i), at.pivot) < 0
             /\ \A i \in at.less .. at.n - 1 : Compare(Item(i), at.pivot) = 0
             /\ \A i \in at.greater + 1 .. at.size - 1 : Compare(Item(i), at.pivot) > 0
             /\ \E i \in at.less .. at.greater : Item(i) = at.pivot
  <2>1. /\ at \in Divisions
        /\ QuickOrder(items, count, todo, at.front, at.front + at.size)
        /\ PartitionFacts(items, at.front, at.size, at.n, at.less, at.greater, at.pivot)
    BY <1>2 DEF QuickRuns
  <2>2. Keys \subseteq Int
    BY DEF Common, SortAssumption
  <2>3. /\ at.front \in Nat /\ at.size \in Nat /\ at.n \in Nat /\ at.less \in Nat /\ at.greater \in Nat
        /\ at.pivot.key \in Int
    BY <2>1, <2>2 DEF Divisions
  <2>4. /\ at.less <= at.n /\ at.n <= at.greater + 1 /\ at.less <= at.greater /\ at.greater < at.size
        /\ at.front + at.size <= count /\ count \in Nat
    BY <1>1, <2>1, <2>3 DEF PartitionFacts, QuickOrder, Holds
  <2>5. \A i \in 0 .. at.size - 1 : items[at.front + i].key \in Int
    BY <1>1, <2>3, <2>4 DEF Holds
  <2>6. /\ 0 .. at.less - 1 \subseteq 0 .. at.size - 1
        /\ at.less .. at.n - 1 \subseteq 0 .. at.size - 1
        /\ at.greater + 1 .. at.size - 1 \subseteq 0 .. at.size - 1
    BY <2>3, <2>4
  <2> QED
    BY <2>1, <2>3, <2>4, <2>5, <2>6 DEF PartitionFacts, Item, Compare
<1>3. ASSUME pc \in {"quick", "partition"}, NEW i \in Positions, NEW j \in Positions, i < j,
             ~AtMost(items[i], items[j])
      PROVE  \/ \E w \in DOMAIN todo : {i, j} \subseteq todo[w].front .. todo[w].back - 1
             \/ pc = "partition" /\ {i, j} \subseteq at.front .. at.front + at.size - 1
  <2>1. i \in 0 .. count - 1 /\ j \in 0 .. count - 1 /\ todo \in Seq(Windows)
    BY <1>1, <1>3 DEF QuickRuns
  <2>2. ASSUME NEW w \in DOMAIN todo, todo[w].front <= i /\ j < todo[w].back
        PROVE  {i, j} \subseteq todo[w].front .. todo[w].back - 1
    <3>1. todo[w] \in Windows
      BY <2>1
    <3> QED
      BY <1>3, <2>1, <2>2, <3>1, WindowBounds
  <2>3. CASE pc = "quick"
    <3>1. \/ 0 <= i /\ j < 0
          \/ \E w \in DOMAIN todo : todo[w].front <= i /\ j < todo[w].back
      BY <1>3, <2>1, <2>3 DEF QuickRuns, QuickOrder
    <3> QED
      BY <2>1, <2>2, <3>1
  <2>4. CASE pc = "partition"
    <3>1. at \in Divisions /\ QuickOrder(items, count, todo, at.front, at.front + at.size)
      BY <2>4 DEF QuickRuns
    <3>2. at.front \in Nat /\ at.size \in Nat
      BY <3>1 DEF Divisions
    <3>3. \/ at.front <= i /\ j < at.front + at.size
          \/ \E w \in DOMAIN todo : todo[w].front <= i /\ j < todo[w].back
      BY <1>3, <2>1, <3>1 DEF QuickOrder
    <3>4. at.front <= i /\ j < at.front + at.size =>
            {i, j} \subseteq at.front .. at.front + at.size - 1
      BY <1>3, <2>1, <3>2
    <3> QED
      BY <2>2, <2>4, <3>3, <3>4
  <2> QED
    BY <1>3, <2>3, <2>4
<1> QED
  BY <1>2, <1>3 DEF QuickLoop

------------------------------------------------------------------------------
(* Merge sort.  What waits is nested: before a window that is to be merged *)
(* only windows within its halves wait, before one that is to be visited   *)
(* only windows to the left of it.  A half is in order, or waits itself.   *)
Within(w, lo, hi) == lo <= w.front /\ w.back <= hi

SortedPart(a, lo, hi) == \A i, j \in lo .. hi - 1 : i < j => Stably(a[i], a[j])

SortedOrWaits(a, ws, k, lo, hi) ==
  \/ \E j \in DOMAIN ws : j < k /\ ws[j].front = lo /\ ws[j].back = hi
  \/ /\ SortedPart(a, lo, hi)
     /\ \A j \in DOMAIN ws : j < k => ~Within(ws[j], lo, hi)

Nested(c, ws) ==
  /\ \A k \in DOMAIN ws :
       /\ ws[k].front < ws[k].back /\ ws[k].back <= c
       /\ ws[k].op = "merge" => ws[k].front + 2 <= ws[k].back
  /\ \A j, k \in DOMAIN ws :
       j < k =>
         IF ws[k].op = "merge"
         THEN \/ Within(ws[j], ws[k].front, Mid(ws[k]))
              \/ Within(ws[j], Mid(ws[k]), ws[k].back)
         ELSE ws[j].back <= ws[k].front

(* Items stay in the halves of the windows they will be merged in.         *)
PlacesKept(a, w) ==
  \A x \in w.front .. w.back - 1 :
    IF w.op = "visit" THEN a[x].place = x
    ELSE IF x < Mid(w) THEN a[x].place \in w.front .. Mid(w) - 1
    ELSE a[x].place \in Mid(w) .. w.back - 1

MergeOrder(a, c, ws) ==
  /\ Nested(c, ws)
  /\ \A k \in DOMAIN ws :
       /\ PlacesKept(a, ws[k])
       /\ ws[k].op = "merge" =>
            /\ SortedOrWaits(a, ws, k, ws[k].front, Mid(ws[k]))
            /\ SortedOrWaits(a, ws, k, Mid(ws[k]), ws[k].back)
  /\ SortedOrWaits(a, ws, Len(ws) + 1, 0, c)

LEMMA MidBetween ==
  ASSUME NEW w \in Windows, w.front + 2 <= w.back
  PROVE  Mid(w) \in w.front + 1 .. w.back - 1 /\ Mid(w) \in Nat
<1>1. w.front \in Nat /\ w.back \in Nat
  BY WindowBounds
<1> QED
  BY <1>1 DEF Mid

(* A window that waits before a given one is inside or outside a half.     *)
LEMMA HalvesApart ==
  ASSUME NEW c \in Nat, NEW ws \in Seq(Windows), Nested(c, ws),
         NEW k \in DOMAIN ws, ws[k].op = "merge", NEW j \in DOMAIN ws, j < k,
         NEW lo, NEW hi,
         \/ lo = ws[k].front /\ hi = Mid(ws[k])
         \/ lo = Mid(ws[k]) /\ hi = ws[k].back
  PROVE  Within(ws[j], lo, hi) \/ ws[j].back <= lo \/ hi <= ws[j].front
BY DEF Nested, Within

(* ts is what is left of ws when its first window has been dealt with.     *)
Popped(ts, ws) ==
  /\ ws \in Seq(Windows) /\ ts \in Seq(Windows) /\ 1 \in DOMAIN ws /\ Len(ts) + 1 = Len(ws)
  /\ \A k \in DOMAIN ts : k \in Nat /\ k >= 1 /\ k + 1 \in DOMAIN ws /\ ts[k] = ws[k + 1]
  /\ \A k \in DOMAIN ws : k \in Nat /\ k >= 1 /\ (k > 1 => k - 1 \in DOMAIN ts /\ ts[k - 1] = ws[k])

LEMMA TailIsPopped ==
  ASSUME NEW ws \in Seq(Windows), ws # <<>>
  PROVE  Popped(Tail(ws), ws)
<1>1. Tail(ws) \in Seq(Windows) /\ 1 \in DOMAIN ws /\ Len(Tail(ws)) + 1 = Len(ws)
  OBVIOUS
<1> QED
  BY <1>1, TailOf DEF Popped

(* What the array may become when its first window has been dealt with.    *)
WindowSorted(b, a, c, w) ==
  /\ \A x \in 0 .. c - 1 : (w.front <= x /\ x < w.back) \/ b[x] = a[x]
  /\ SortedPart(b, w.front, w.back)
  /\ \A x \in w.front .. w.back - 1 : b[x].place \in w.front .. w.back - 1

LEMMA PopSorts ==
  ASSUME NEW a, NEW b, NEW c \in Nat, NEW ws, NEW ts, Popped(ts, ws), Nested(c, ws),
         WindowSorted(b, a, c, ws[1]), NEW k \in Nat, k > 1, NEW lo \in Nat, NEW hi \in 0 .. c,
         \A j \in DOMAIN ws : j < k =>
           Within(ws[j], lo, hi) \/ ws[j].back <= lo \/ hi <= ws[j].front,
         SortedOrWaits(a, ws, k, lo, hi)
  PROVE  SortedOrWaits(b, ts, k - 1, lo, hi)
<1>1. /\ 1 \in DOMAIN ws /\ ws[1] \in Windows /\ ws[1].front \in Nat /\ ws[1].back \in Nat
      /\ ws[1].front < ws[1].back
  BY WindowBounds DEF Popped, Nested
<1>2. ASSUME NEW j \in DOMAIN ws, j > 1
      PROVE  /\ j - 1 \in DOMAIN ts /\ ts[j - 1] = ws[j] /\ j \in Nat
             /\ ~Within(ws[j], ws[1].front, ws[1].back)
  <2>1. ws[j] \in Windows /\ j - 1 \in DOMAIN ts /\ ts[j - 1] = ws[j] /\ j \in Nat
    BY <1>2 DEF Popped
  <2>2. /\ ws[j].front \in Nat /\ ws[j].back \in Nat /\ ws[j].front < ws[j].back
        /\ ws[j].op = "merge" => Mid(ws[j]) \in ws[j].front + 1 .. ws[j].back - 1
    BY <2>1, WindowBounds, MidBetween DEF Nested
  <2>3. IF ws[j].op = "merge"
        THEN Within(ws[1], ws[j].front, Mid(ws[j])) \/ Within(ws[1], Mid(ws[j]), ws[j].back)
        ELSE ws[1].back <= ws[j].front
    BY <1>1, <1>2, <2>1 DEF Nested
  <2> QED
    BY <1>1, <2>1, <2>2, <2>3 DEF Within
<1>3. CASE \E j \in DOMAIN ws : j > 1 /\ j < k /\ ws[j].front = lo /\ ws[j].back = hi
  <2>1. PICK j \in DOMAIN ws : j > 1 /\ j < k /\ ws[j].front = lo /\ ws[j].back = hi
    BY <1>3
  <2>2. j - 1 \in DOMAIN ts /\ ts[j - 1] = ws[j] /\ j - 1 < k - 1
    BY <1>2, <2>1
  <2> QED
    BY <2>1, <2>2 DEF SortedOrWaits
<1>4. CASE ws[1].front = lo /\ ws[1].back = hi
  <2>1. SortedPart(b, lo, hi)
    BY <1>4 DEF WindowSorted
  <2>2. \A j \in DOMAIN ts : ~Within(ts[j], lo, hi)
    <3>1. ASSUME NEW j \in DOMAIN ts PROVE ~Within(ts[j], lo, hi)
      <4>1. j + 1 \in DOMAIN ws /\ ts[j] = ws[j + 1] /\ j + 1 > 1
        BY DEF Popped
      <4> QED
        BY <1>2, <1>4, <4>1
    <3> QED
      BY <3>1
  <2> QED
    BY <2>1, <2>2 DEF SortedOrWaits
<1>5. CASE /\ SortedPart(a, lo, hi)
           /\ \A j \in DOMAIN ws : j < k => ~Within(ws[j], lo, hi)
  <2>1. ws[1].back <= lo \/ hi <= ws[1].front
    BY <1>1, <1>5
  <2>2. SortedPart(b, lo, hi)
    <3>1. \A x \in lo .. hi - 1 : b[x] = a[x]
      <4>1. \A x \in 0 .. c - 1 : (ws[1].front <= x /\ x < ws[1].back) \/ b[x] = a[x]
        BY DEF WindowSorted
      <4> QED
        BY <1>1, <2>1, <4>1
    <3> QED
      BY <1>5, <3>1 DEF SortedPart
  <2>3. ASSUME NEW j \in DOMAIN ts, j < k - 1 PROVE ~Within(ts[j], lo, hi)
    <3>1. j + 1 \in DOMAIN ws /\ ts[j] = ws[j + 1] /\ j + 1 < k
      BY <2>3 DEF Popped
    <3> QED
      BY <1>5, <3>1
  <2> QED
    BY <2>2, <2>3 DEF SortedOrWaits
<1>6. \A j \in DOMAIN ws : j = 1 \/ j > 1
  BY DEF Popped
<1> QED
  BY <1>3, <1>4, <1>5, <1>6 DEF SortedOrWaits

LEMMA StaysInHalf ==
  ASSUME NEW front \in Nat, NEW mid \in Nat, NEW back \in Nat, NEW lo \in Nat, NEW hi \in Nat,
         \/ front <= lo /\ hi <= mid
         \/ mid <= lo /\ hi <= back,
         NEW x \in front .. back - 1, lo <= x, x < hi, NEW p \in lo .. hi - 1
  PROVE  IF x < mid THEN p \in front .. mid - 1 ELSE p \in mid .. back - 1
OBVIOUS

LEMMA MergePops ==
  ASSUME NEW a, NEW b, NEW c \in Nat, NEW ws, NEW ts, Popped(ts, ws), MergeOrder(a, c, ws),
         WindowSorted(b, a, c, ws[1])
  PROVE  MergeOrder(b, c, ts)
<1>1. /\ 1 \in DOMAIN ws /\ ws[1] \in Windows /\ ws[1].front \in Nat /\ ws[1].back \in Nat
      /\ ws[1].front < ws[1].back /\ Nested(c, ws) /\ ws \in Seq(Windows) /\ ts \in Seq(Windows)
  <2>1. 1 \in DOMAIN ws /\ ws \in Seq(Windows) /\ ts \in Seq(Windows)
    BY DEF Popped
  <2>2. Nested(c, ws)
    BY DEF MergeOrder
  <2>3. ws[1].front < ws[1].back /\ ws[1] \in Windows
    BY <2>1, <2>2 DEF Nested
  <2> QED
    BY <2>1, <2>2, <2>3, WindowBounds
<1>2. \A k \in DOMAIN ts : k \in Nat /\ k >= 1 /\ k + 1 \in DOMAIN ws /\ ts[k] = ws[k + 1]
  BY DEF Popped
<1>3. Nested(c, ts)
  <2>1. \A j, k \in DOMAIN ts : j < k => j + 1 < k + 1
    BY <1>2
  <2> QED
    BY <1>1, <1>2, <2>1 DEF Nested
<1>4. ASSUME NEW k \in DOMAIN ts
      PROVE  /\ PlacesKept(b, ts[k])
             /\ ts[k].op = "merge" =>
                  /\ SortedOrWaits(b, ts, k, ts[k].front, Mid(ts[k]))
                  /\ SortedOrWaits(b, ts, k, Mid(ts[k]), ts[k].back)
  <2> DEFINE w == ts[k]
             m == k + 1
  <2>1. m \in DOMAIN ws /\ w = ws[m] /\ m \in Nat /\ m > 1 /\ m - 1 = k /\ w \in Windows
    BY <1>1, <1>2
  <2>2. /\ w.front \in Nat /\ w.back \in Nat /\ w.front < w.back /\ w.back <= c
        /\ w.op = "merge" => Mid(w) \in w.front + 1 .. w.back - 1
        /\ w.op \in {"visit", "merge"}
    <3>1. w.op \in {"visit", "merge"}
      BY <2>1 DEF Windows
    <3> HIDE DEF w, m
    <3> QED
      BY <1>1, <2>1, <3>1, WindowBounds, MidBetween DEF Nested
  <2>3. IF w.op = "merge"
        THEN Within(ws[1], w.front, Mid(w)) \/ Within(ws[1], Mid(w), w.back)
        ELSE ws[1].back <= w.front
    BY <1>1, <2>1 DEF Nested
  <2>4. PlacesKept(a, w)
    BY <2>1 DEF MergeOrder
  <2> HIDE DEF w, m
  <2>5. PlacesKept(b, w)
    <3>1. ASSUME NEW x \in w.front .. w.back - 1, ~(ws[1].front <= x /\ x < ws[1].back)
          PROVE  b[x] = a[x]
      <4>1. x \in 0 .. c - 1
        BY <2>2, <3>1
      <4> QED
        BY <3>1, <4>1 DEF WindowSorted
    <3>2. ASSUME NEW x \in w.front .. w.back - 1, ws[1].front <= x, x < ws[1].back
          PROVE  b[x].place \in ws[1].front .. ws[1].back - 1
      <4>1. x \in ws[1].front .. ws[1].back - 1
        BY <1>1, <2>2, <3>2
      <4> QED
        BY <4>1 DEF WindowSorted
    <3>3. CASE w.op = "visit"
      <4>1. \A x \in w.front .. w.back - 1 : ~(ws[1].front <= x /\ x < ws[1].back)
        BY <1>1, <2>2, <2>3, <3>3
      <4> QED
        BY <2>4, <3>1, <3>3, <4>1 DEF PlacesKept
    <3>4. CASE w.op = "merge"
      <4>1. ASSUME NEW x \in w.front .. w.back - 1
            PROVE  IF x < Mid(w) THEN b[x].place \in w.front .. Mid(w) - 1
                   ELSE b[x].place \in Mid(w) .. w.back - 1
        <5>1. CASE ~(ws[1].front <= x /\ x < ws[1].back)
          BY <2>4, <3>1, <3>4, <5>1 DEF PlacesKept
        <5>2. CASE ws[1].front <= x /\ x < ws[1].back
          <6>1. b[x].place \in ws[1].front .. ws[1].back - 1
            BY <3>2, <5>2
          <6>2. Mid(w) \in Nat
            BY <2>2, <3>4
          <6>3. \/ w.front <= ws[1].front /\ ws[1].back <= Mid(w)
                \/ Mid(w) <= ws[1].front /\ ws[1].back <= w.back
            BY <2>3, <3>4 DEF Within
          <6> DEFINE front == w.front
                     mid == Mid(w)
                     back == w.back
                     lo == ws[1].front
                     hi == ws[1].back
                     p == b[x].place
          <6>4. /\ front \in Nat /\ mid \in Nat /\ back \in Nat /\ lo \in Nat /\ hi \in Nat
                /\ (front <= lo /\ hi <= mid) \/ (mid <= lo /\ hi <= back)
                /\ x \in front .. back - 1 /\ lo <= x /\ x < hi /\ p \in lo .. hi - 1
            BY <1>1, <2>2, <5>2, <6>1, <6>2, <6>3
          <6> HIDE DEF front, mid, back, lo, hi, p
          <6>5. IF x < mid THEN p \in front .. mid - 1 ELSE p \in mid .. back - 1
            BY <6>4, StaysInHalf
          <6> QED
            BY <6>5 DEF front, mid, back, p
        <5> QED
          BY <5>1, <5>2
      <4> QED
        BY <3>4, <4>1 DEF PlacesKept
    <3> QED
      BY <2>2, <3>3, <3>4
  <2>6. ASSUME w.op = "merge"
        PROVE  SortedOrWaits(b, ts, k, w.front, Mid(w)) /\ SortedOrWaits(b, ts, k, Mid(w), w.back)
    <3>1. SortedOrWaits(a, ws, m, w.front, Mid(w)) /\ SortedOrWaits(a, ws, m, Mid(w), w.back)
      BY <2>1, <2>6 DEF MergeOrder
    <3>2. Mid(w) \in Nat /\ Mid(w) \in 0 .. c /\ w.front \in Nat /\ w.back \in 0 .. c
      BY <2>2, <2>6
    <3>3. \A j \in DOMAIN ws : j < m =>
            Within(ws[j], w.front, Mid(w)) \/ ws[j].back <= w.front \/ Mid(w) <= ws[j].front
      BY <1>1, <2>1, <2>6, HalvesApart
    <3>4. \A j \in DOMAIN ws : j < m =>
            Within(ws[j], Mid(w), w.back) \/ ws[j].back <= Mid(w) \/ w.back <= ws[j].front
      BY <1>1, <2>1, <2>6, HalvesApart
    <3>5. SortedOrWaits(b, ts, m - 1, w.front, Mid(w))
      BY <1>1, <2>1, <3>1, <3>2, <3>3, PopSorts
    <3>6. SortedOrWaits(b, ts, m - 1, Mid(w), w.back)
      BY <1>1, <2>1, <3>1, <3>2, <3>4, PopSorts
    <3> QED
      BY <2>1, <3>5, <3>6
  <2> QED
    BY <2>5, <2>6 DEF w
<1>5. SortedOrWaits(b, ts, Len(ts) + 1, 0, c)
  <2> DEFINE m == Len(ws) + 1
  <2>1. m \in Nat /\ m > 1 /\ m - 1 = Len(ts) + 1 /\ 0 \in Nat /\ c \in 0 .. c
    BY <1>1 DEF Popped
  <2>2. SortedOrWaits(a, ws, m, 0, c)
    BY DEF MergeOrder
  <2>3. ASSUME NEW j \in DOMAIN ws PROVE Within(ws[j], 0, c)
    <3>1. ws[j] \in Windows
      BY <1>1
    <3>2. ws[j].front \in Nat /\ ws[j].back <= c
      BY <1>1, <3>1, WindowBounds DEF Nested
    <3> QED
      BY <3>2 DEF Within
  <2> HIDE DEF m
  <2>4. SortedOrWaits(b, ts, m - 1, 0, c)
    BY <1>1, <2>1, <2>2, <2>3, PopSorts
  <2> QED
    BY <2>1, <2>4
<1> QED
  BY <1>3, <1>4, <1>5 DEF MergeOrder

(* ts is ws with its first window divided.                                 *)
Divided(ts, ws, x, y, z) ==
  /\ ws \in Seq(Windows) /\ ts \in Seq(Windows) /\ Len(ts) = Len(ws) + 2
  /\ 1 \in DOMAIN ws /\ {1, 2, 3} \subseteq DOMAIN ts /\ ts[1] = x /\ ts[2] = y /\ ts[3] = z
  /\ x.op = "visit" /\ x.front = ws[1].front /\ x.back = Mid(ws[1])
  /\ y.op = "visit" /\ y.front = Mid(ws[1]) /\ y.back = ws[1].back
  /\ z.op = "merge" /\ z.front = ws[1].front /\ z.back = ws[1].back
  /\ \A k \in DOMAIN ts :
       k \in Nat /\ (k \in {1, 2, 3} \/ (k - 2 \in DOMAIN ws /\ k - 2 > 1 /\ ts[k] = ws[k - 2]))
  /\ \A k \in DOMAIN ws : k \in Nat /\ k >= 1 /\ (k > 1 => k + 2 \in DOMAIN ts /\ ts[k + 2] = ws[k])

LEMMA PrependThree ==
  ASSUME NEW S, NEW x \in S, NEW y \in S, NEW z \in S, NEW s \in Seq(S), NEW t, t = <<x, y, z>> \o s
  PROVE  /\ t \in Seq(S) /\ Len(t) = Len(s) + 3
         /\ {1, 2, 3} \subseteq DOMAIN t /\ t[1] = x /\ t[2] = y /\ t[3] = z
         /\ \A k \in DOMAIN t : k \in Nat /\ (k \in {1, 2, 3} \/ (k - 3 \in DOMAIN s /\ t[k] = s[k - 3]))
         /\ \A k \in DOMAIN s : k \in Nat /\ k + 3 \in DOMAIN t /\ t[k + 3] = s[k]
OBVIOUS

LEMMA DivideWaits ==
  ASSUME NEW a, NEW c \in Nat, NEW ws, NEW ts, NEW x, NEW y, NEW z, Divided(ts, ws, x, y, z),
         Mid(ws[1]) \in ws[1].front + 1 .. ws[1].back - 1,
         ws[1].front \in Nat, ws[1].back \in Nat,
         NEW k \in Nat, k > 1, NEW lo \in Nat, NEW hi \in Nat,
         Within(ws[1], lo, hi) \/ ws[1].back <= lo \/ hi <= ws[1].front,
         SortedOrWaits(a, ws, k, lo, hi)
  PROVE  SortedOrWaits(a, ts, k + 2, lo, hi)
<1>1. 1 \in DOMAIN ws /\ 3 \in DOMAIN ts /\ ts[3].front = ws[1].front /\ ts[3].back = ws[1].back
  BY DEF Divided
<1>2. CASE ws[1].front = lo /\ ws[1].back = hi
  BY <1>1, <1>2 DEF SortedOrWaits
<1>3. CASE \E j \in DOMAIN ws : j > 1 /\ j < k /\ ws[j].front = lo /\ ws[j].back = hi
  <2>1. PICK j \in DOMAIN ws : j > 1 /\ j < k /\ ws[j].front = lo /\ ws[j].back = hi
    BY <1>3
  <2>2. j + 2 \in DOMAIN ts /\ ts[j + 2] = ws[j] /\ j + 2 < k + 2
    BY <2>1 DEF Divided
  <2> QED
    BY <2>1, <2>2 DEF SortedOrWaits
<1>4. CASE /\ SortedPart(a, lo, hi)
           /\ \A j \in DOMAIN ws : j < k => ~Within(ws[j], lo, hi)
  <2>1. ws[1].back <= lo \/ hi <= ws[1].front
    BY <1>1, <1>4
  <2>2. ASSUME NEW i \in DOMAIN ts, i < k + 2 PROVE ~Within(ts[i], lo, hi)
    <3>1. CASE i \in {1, 2, 3}
      <4>1. /\ ts[i].front \in {ws[1].front, Mid(ws[1])}
            /\ ts[i].back \in {Mid(ws[1]), ws[1].back}
            /\ ts[i].front # ts[i].back
        BY <3>1, SMTT(30) DEF Divided
      <4> QED
        BY <2>1, <4>1 DEF Within
    <3>2. CASE i \notin {1, 2, 3}
      <4>1. i - 2 \in DOMAIN ws /\ ts[i] = ws[i - 2] /\ i - 2 < k
        BY <2>2, <3>2 DEF Divided
      <4> QED
        BY <1>4, <4>1
    <3> QED
      BY <3>1, <3>2
  <2> QED
    BY <1>4, <2>2 DEF SortedOrWaits
<1>5. \A j \in DOMAIN ws : j = 1 \/ j > 1
  BY DEF Divided
<1> QED
  BY <1>2, <1>3, <1>4, <1>5 DEF SortedOrWaits

LEMMA MergeDivides ==
  ASSUME NEW a, NEW c \in Nat, NEW ws, NEW ts, NEW x, NEW y, NEW z, Divided(ts, ws, x, y, z),
         MergeOrder(a, c, ws), ws[1].op = "visit", ws[1].front + 2 <= ws[1].back
  PROVE  MergeOrder(a, c, ts)
<1> DEFINE w == ws[1]
           mid == Mid(w)
<1>1. /\ 1 \in DOMAIN ws /\ ws \in Seq(Windows) /\ ts \in Seq(Windows) /\ Nested(c, ws)
      /\ w \in Windows
  BY DEF Divided, MergeOrder
<1>2. /\ w.front \in Nat /\ w.back \in Nat /\ w.back <= c /\ w.front < w.back
      /\ mid \in Nat /\ mid \in w.front + 1 .. w.back - 1
  BY <1>1, WindowBounds, MidBetween DEF Nested
<1>3. /\ x = ts[1] /\ x.op = "visit" /\ x.front = w.front /\ x.back = mid
      /\ y = ts[2] /\ y.op = "visit" /\ y.front = mid /\ y.back = w.back
      /\ z = ts[3] /\ z.op = "merge" /\ z.front = w.front /\ z.back = w.back
      /\ 1 \in DOMAIN ts /\ 2 \in DOMAIN ts /\ 3 \in DOMAIN ts
  BY DEF Divided
<1>4. Mid(z) = mid
  BY <1>3 DEF Mid
<1>5. \A k \in DOMAIN ts :
        k \in Nat /\ (k \in {1, 2, 3} \/ (k - 2 \in DOMAIN ws /\ k - 2 > 1 /\ ts[k] = ws[k - 2]))
  BY DEF Divided
<1>6. \A k \in DOMAIN ws : k > 1 =>
        IF ws[k].op = "merge"
        THEN \/ Within(w, ws[k].front, Mid(ws[k]))
             \/ Within(w, Mid(ws[k]), ws[k].back)
        ELSE w.back <= ws[k].front
  BY <1>1 DEF Nested
<1>7. PlacesKept(a, w)
  BY <1>1 DEF MergeOrder
<1>8. Mid(ws[1]) \in ws[1].front + 1 .. ws[1].back - 1 /\ ws[1].front \in Nat /\ ws[1].back \in Nat
  BY <1>2
<1> HIDE DEF mid, w
<1>9. Nested(c, ts)
  <2>1. ASSUME NEW k \in DOMAIN ts
        PROVE  /\ ts[k].front < ts[k].back /\ ts[k].back <= c
               /\ ts[k].op = "merge" => ts[k].front + 2 <= ts[k].back
    <3>1. CASE k \in {1, 2, 3}
      BY <1>2, <1>3, <3>1
    <3>2. CASE k \notin {1, 2, 3}
      <4>1. k - 2 \in DOMAIN ws /\ ts[k] = ws[k - 2]
        BY <1>5, <3>2
      <4> QED
        BY <1>1, <4>1 DEF Nested
    <3> QED
      BY <3>1, <3>2
  <2>2. ASSUME NEW j \in DOMAIN ts, NEW k \in DOMAIN ts, j < k
        PROVE  IF ts[k].op = "merge"
               THEN \/ Within(ts[j], ts[k].front, Mid(ts[k]))
                    \/ Within(ts[j], Mid(ts[k]), ts[k].back)
               ELSE ts[j].back <= ts[k].front
    <3>1. CASE k \in {1, 2, 3}
      <4>1. (j = 1 /\ k = 2) \/ (j = 1 /\ k = 3) \/ (j = 2 /\ k = 3)
        BY <1>5, <2>2, <3>1
      <4>2. ts[k].op = "merge" => k = 3
        BY <1>3, <3>1
      <4> QED
        BY <1>2, <1>3, <1>4, <4>1, <4>2 DEF Within
    <3>2. CASE k \notin {1, 2, 3}
      <4>1. k - 2 \in DOMAIN ws /\ ts[k] = ws[k - 2] /\ k - 2 > 1
        BY <1>5, <3>2
      <4>2. CASE j \in {1, 2, 3}
        <5>1. ts[j].front \in Nat /\ ts[j].back \in Nat /\ w.front <= ts[j].front /\ ts[j].back <= w.back
          BY <1>2, <1>3, <4>2
        <5>2. ts[k].front \in Nat /\ ts[k].back \in Nat /\ ts[k].op \in {"visit", "merge"}
          <6>1. ts[k] \in Windows
            BY <1>1
          <6> QED
            BY <6>1 DEF Windows
        <5>3. ts[k].op = "merge" => Mid(ts[k]) \in Nat
          BY <1>1, <2>1, MidBetween
        <5>4. CASE ts[k].op = "merge"
          <6>1. \/ w.front >= ts[k].front /\ w.back <= Mid(ts[k])
                \/ w.front >= Mid(ts[k]) /\ w.back <= ts[k].back
            BY <1>2, <1>6, <4>1, <5>2, <5>3, <5>4 DEF Within
          <6> QED
            BY <1>2, <5>1, <5>2, <5>3, <5>4, <6>1 DEF Within
        <5>5. CASE ts[k].op # "merge"
          <6>1. w.back <= ts[k].front
            BY <1>6, <4>1, <5>5
          <6> QED
            BY <1>2, <5>1, <5>2, <5>5, <6>1
        <5> QED
          BY <5>4, <5>5
      <4>3. CASE j \notin {1, 2, 3}
        <5>1. j - 2 \in DOMAIN ws /\ ts[j] = ws[j - 2] /\ j - 2 < k - 2
          BY <1>5, <2>2, <4>3
        <5> QED
          BY <1>1, <4>1, <5>1 DEF Nested
      <4> QED
        BY <4>2, <4>3
    <3> QED
      BY <3>1, <3>2
  <2> QED
    BY <2>1, <2>2 DEF Nested
<1>10. ASSUME NEW k \in DOMAIN ts
       PROVE  /\ PlacesKept(a, ts[k])
              /\ ts[k].op = "merge" =>
                   /\ SortedOrWaits(a, ts, k, ts[k].front, Mid(ts[k]))
                   /\ SortedOrWaits(a, ts, k, Mid(ts[k]), ts[k].back)
  <2>1. CASE k \in {1, 2, 3}
    <3>1. \A i \in w.front .. w.back - 1 : a[i].place = i
      <4>1. w.op = "visit"
        BY DEF w
      <4> QED
        BY <1>7, <4>1 DEF PlacesKept
    <3>2. PlacesKept(a, ts[k])
      <4>1. CASE k \in {1, 2}
        <5>1. \A i \in ts[k].front .. ts[k].back - 1 : i \in w.front .. w.back - 1
          BY <1>2, <1>3, <4>1
        <5>2. ts[k].op = "visit"
          BY <1>3, <4>1
        <5> QED
          BY <3>1, <5>1, <5>2 DEF PlacesKept
      <4>2. CASE k = 3
        <5>1. /\ ts[k].front = w.front /\ ts[k].back = w.back /\ Mid(ts[k]) = mid
              /\ ts[k].op = "merge"
          BY <1>3, <1>4, <4>2
        <5>2. ASSUME NEW i \in w.front .. w.back - 1
              PROVE  IF i < mid THEN a[i].place \in w.front .. mid - 1
                     ELSE a[i].place \in mid .. w.back - 1
          BY <1>2, <3>1
        <5> QED
          BY <5>1, <5>2 DEF PlacesKept
      <4> QED
        BY <2>1, <4>1, <4>2
    <3>3. ASSUME ts[k].op = "merge"
          PROVE  /\ SortedOrWaits(a, ts, k, ts[k].front, Mid(ts[k]))
                 /\ SortedOrWaits(a, ts, k, Mid(ts[k]), ts[k].back)
      <4>1. k = 3 /\ ts[k] = z
        BY <1>3, <2>1, <3>3
      <4> QED
        BY <1>3, <1>4, <4>1 DEF SortedOrWaits
    <3> QED
      BY <3>2, <3>3
  <2>2. CASE k \notin {1, 2, 3}
    <3> DEFINE m == k - 2
    <3>1. /\ m \in DOMAIN ws /\ ts[k] = ws[m] /\ m > 1 /\ m \in Nat /\ m + 2 = k
      BY <1>5, <2>2
    <3> HIDE DEF m
    <3>2. PlacesKept(a, ts[k])
      BY <3>1 DEF MergeOrder
    <3>3. ASSUME ts[k].op = "merge"
          PROVE  /\ SortedOrWaits(a, ts, m + 2, ts[k].front, Mid(ts[k]))
                 /\ SortedOrWaits(a, ts, m + 2, Mid(ts[k]), ts[k].back)
      <4>1. /\ SortedOrWaits(a, ws, m, ts[k].front, Mid(ts[k]))
            /\ SortedOrWaits(a, ws, m, Mid(ts[k]), ts[k].back)
        BY <3>1, <3>3 DEF MergeOrder
      <4>2. /\ ts[k].front \in Nat /\ ts[k].back \in Nat /\ Mid(ts[k]) \in Nat
        <5>1. ts[k] \in Windows /\ ts[k].front + 2 <= ts[k].back
          BY <1>1, <1>9, <3>3 DEF Nested
        <5> QED
          BY <5>1, WindowBounds, MidBetween
      <4>3. /\ Within(ws[1], ts[k].front, Mid(ts[k])) \/ ws[1].back <= ts[k].front \/ Mid(ts[k]) <= ws[1].front
            /\ Within(ws[1], Mid(ts[k]), ts[k].back) \/ ws[1].back <= Mid(ts[k]) \/ ts[k].back <= ws[1].front
        <5>1. Within(w, ts[k].front, Mid(ts[k])) \/ Within(w, Mid(ts[k]), ts[k].back)
          BY <1>6, <3>1, <3>3
        <5> QED
          BY <5>1 DEF Within, w
      <4>4. SortedOrWaits(a, ts, m + 2, ts[k].front, Mid(ts[k]))
        BY <1>8, <3>1, <4>1, <4>2, <4>3, DivideWaits
      <4>5. SortedOrWaits(a, ts, m + 2, Mid(ts[k]), ts[k].back)
        BY <1>8, <3>1, <4>1, <4>2, <4>3, DivideWaits
      <4> QED
        BY <4>4, <4>5
    <3> QED
      BY <3>1, <3>2, <3>3
  <2> QED
    BY <2>1, <2>2
<1>11. SortedOrWaits(a, ts, Len(ts) + 1, 0, c)
  <2> DEFINE m == Len(ws) + 1
  <2>1. m \in Nat /\ m > 1 /\ m + 2 = Len(ts) + 1
    BY <1>1 DEF Divided
  <2>2. SortedOrWaits(a, ws, m, 0, c)
    BY DEF MergeOrder
  <2>3. Within(ws[1], 0, c)
    BY <1>2 DEF Within, w
  <2> HIDE DEF m
  <2>4. SortedOrWaits(a, ts, m + 2, 0, c)
    BY <1>8, <2>1, <2>2, <2>3, DivideWaits
  <2> QED
    BY <2>1, <2>4
<1> QED
  BY <1>9, <1>10, <1>11 DEF MergeOrder

(* What merging has taken of the two halves so far.                        *)
Taken == [key : Keys, place : Nat]

ZipFacts(a, t, front, mid, back, leftAt, right) ==
  /\ leftAt \in front .. mid /\ right \in mid .. back
  /\ t \in Seq(Taken) /\ Len(t) = (leftAt - front) + (right - mid)
  /\ \A k, m \in 1 .. Len(t) : k < m => Stably(t[k], t[m])
  /\ \A k \in 1 .. Len(t), i \in leftAt .. mid - 1 : Stably(t[k], a[i])
  /\ \A k \in 1 .. Len(t), i \in right .. back - 1 : Stably(t[k], a[i])
  /\ \A k \in 1 .. Len(t) : t[k].place \in front .. back - 1
  /\ \A x \in front .. back - 1 :
       x \in leftAt .. mid - 1 \/ x \in right .. back - 1 \/ \E k \in 1 .. Len(t) : t[k] = a[x]

Longer(u, t, e) ==
  /\ u \in Seq(Taken) /\ Len(u) = Len(t) + 1 /\ Len(t) \in Nat
  /\ \A k \in 1 .. Len(t) : u[k] = t[k]
  /\ u[Len(t) + 1] = e

LEMMA AppendIsLonger ==
  ASSUME NEW t \in Seq(Taken), NEW e \in Taken
  PROVE  Longer(Append(t, e), t, e)
BY DEF Longer

(* The halves of a window that is merged.                                  *)
Halves(a, c, front, mid, back) ==
  /\ front \in Nat /\ mid \in Nat /\ back \in Nat /\ front < mid /\ mid < back /\ back <= c
  /\ SortedPart(a, front, mid) /\ SortedPart(a, mid, back)
  /\ \A i \in front .. mid - 1 : a[i].key \in Int /\ a[i].place \in front .. mid - 1
  /\ \A i \in mid .. back - 1 : a[i].key \in Int /\ a[i].place \in mid .. back - 1

LEMMA ZipTakesLeft ==
  ASSUME NEW a, NEW c \in Nat, NEW front, NEW mid, NEW back, Halves(a, c, front, mid, back),
         NEW t, NEW u, NEW leftAt, NEW right, ZipFacts(a, t, front, mid, back, leftAt, right),
         leftAt < mid, right = back \/ a[leftAt].key <= a[right].key, Longer(u, t, a[leftAt])
  PROVE  ZipFacts(a, u, front, mid, back, leftAt + 1, right)
<1>1. /\ front \in Nat /\ mid \in Nat /\ back \in Nat /\ front < mid /\ mid < back
      /\ leftAt \in front .. mid - 1 /\ right \in mid .. back /\ leftAt \in Nat /\ right \in Nat
      /\ Len(t) \in Nat /\ Len(t) = (leftAt - front) + (right - mid)
      /\ u \in Seq(Taken) /\ Len(u) = Len(t) + 1
  BY DEF Halves, ZipFacts, Longer
<1>2. ASSUME NEW k \in 1 .. Len(u)
      PROVE  (k \in 1 .. Len(t) /\ u[k] = t[k]) \/ (k = Len(t) + 1 /\ u[k] = a[leftAt])
  <2>1. k \in 1 .. Len(t) \/ k = Len(t) + 1
    BY <1>1
  <2> QED
    BY <2>1 DEF Longer
<1>3. \A i \in leftAt + 1 .. mid - 1 : Stably(a[leftAt], a[i])
  BY <1>1 DEF Halves, SortedPart
<1>4. ASSUME NEW i \in right .. back - 1
      PROVE  Stably(a[leftAt], a[i])
  <2>1. /\ right # back /\ right \in mid .. back - 1 /\ i \in mid .. back - 1
    BY <1>1
  <2>2. /\ a[leftAt].key \in Int /\ a[right].key \in Int /\ a[i].key \in Int
        /\ a[leftAt].place \in front .. mid - 1 /\ a[i].place \in mid .. back - 1
    BY <1>1, <2>1 DEF Halves
  <2>3. a[leftAt].key <= a[right].key
    BY <2>1
  <2>4. i = right \/ Stably(a[right], a[i])
    <3>1. SortedPart(a, mid, back)
      BY DEF Halves
    <3>2. right \in mid .. back - 1 /\ i \in mid .. back - 1 /\ (i = right \/ right < i)
      BY <1>1, <2>1
    <3> QED
      BY <3>1, <3>2 DEF SortedPart
  <2>5. a[right].key <= a[i].key
    BY <2>2, <2>4 DEF Stably, Compare
  <2> DEFINE p == a[leftAt].place
             q == a[i].place
  <2>6. p \in front .. mid - 1 /\ q \in mid .. back - 1
    BY <2>2
  <2> HIDE DEF p, q
  <2>7. p <= q
    BY <1>1, <2>6
  <2> QED
    BY <2>2, <2>3, <2>5, <2>7 DEF Stably, Compare, p, q
<1>5. ASSUME NEW k \in 1 .. Len(u), NEW m \in 1 .. Len(u), k < m
      PROVE  Stably(u[k], u[m])
  <2>1. k \in 1 .. Len(t) /\ u[k] = t[k]
    BY <1>1, <1>2, <1>5
  <2>2. CASE m \in 1 .. Len(t) /\ u[m] = t[m]
    BY <1>5, <2>1, <2>2 DEF ZipFacts
  <2>3. CASE u[m] = a[leftAt]
    BY <1>1, <2>1, <2>3 DEF ZipFacts
  <2> QED
    BY <1>2, <2>2, <2>3
<1>6. ASSUME NEW k \in 1 .. Len(u), NEW i, i \in leftAt + 1 .. mid - 1 \/ i \in right .. back - 1
      PROVE  Stably(u[k], a[i])
  <2>1. CASE k \in 1 .. Len(t) /\ u[k] = t[k]
    <3>1. i \in leftAt .. mid - 1 \/ i \in right .. back - 1
      BY <1>1, <1>6
    <3> QED
      BY <2>1, <3>1 DEF ZipFacts
  <2>2. CASE u[k] = a[leftAt]
    BY <1>3, <1>4, <1>6, <2>2
  <2> QED
    BY <1>2, <2>1, <2>2
<1>7. ASSUME NEW k \in 1 .. Len(u) PROVE u[k].place \in front .. back - 1
  <2>1. a[leftAt].place \in front .. mid - 1
    BY <1>1 DEF Halves
  <2>2. a[leftAt].place \in front .. back - 1
    <3> DEFINE p == a[leftAt].place
    <3>1. p \in front .. mid - 1
      BY <2>1
    <3> HIDE DEF p
    <3>2. p \in front .. back - 1
      BY <1>1, <3>1
    <3> QED
      BY <3>2 DEF p
  <2>3. \A m \in 1 .. Len(t) : t[m].place \in front .. back - 1
    BY DEF ZipFacts
  <2> QED
    BY <1>2, <2>2, <2>3
<1>8. ASSUME NEW x \in front .. back - 1
      PROVE  \/ x \in leftAt + 1 .. mid - 1 \/ x \in right .. back - 1
             \/ \E k \in 1 .. Len(u) : u[k] = a[x]
  <2>1. CASE x \in right .. back - 1
    BY <2>1
  <2>2. CASE x \in leftAt .. mid - 1
    <3>1. x = leftAt \/ x \in leftAt + 1 .. mid - 1
      BY <1>1, <2>2
    <3>2. Len(t) + 1 \in 1 .. Len(u) /\ u[Len(t) + 1] = a[leftAt]
      BY <1>1 DEF Longer
    <3> QED
      BY <3>1, <3>2
  <2>3. CASE \E k \in 1 .. Len(t) : t[k] = a[x]
    <3>1. PICK k \in 1 .. Len(t) : t[k] = a[x]
      BY <2>3
    <3>2. k \in 1 .. Len(u) /\ u[k] = a[x]
      BY <1>1, <3>1 DEF Longer
    <3> QED
      BY <3>2
  <2> QED
    BY <2>1, <2>2, <2>3 DEF ZipFacts
<1>9. leftAt + 1 \in front .. mid /\ right \in mid .. back
         /\ Len(u) = ((leftAt + 1) - front) + (right - mid)
  BY <1>1, SMTT(30)
<1> QED
  BY <1>1, <1>5, <1>6, <1>7, <1>8, <1>9 DEF ZipFacts

LEMMA ZipTakesRight ==
  ASSUME NEW a, NEW c \in Nat, NEW front, NEW mid, NEW back, Halves(a, c, front, mid, back),
         NEW t, NEW u, NEW leftAt, NEW right, ZipFacts(a, t, front, mid, back, leftAt, right),
         right < back, leftAt = mid \/ a[leftAt].key > a[right].key, Longer(u, t, a[right])
  PROVE  ZipFacts(a, u, front, mid, back, leftAt, right + 1)
<1>1. /\ front \in Nat /\ mid \in Nat /\ back \in Nat /\ front < mid /\ mid < back
      /\ leftAt \in front .. mid /\ right \in mid .. back - 1 /\ leftAt \in Nat /\ right \in Nat
      /\ Len(t) \in Nat /\ Len(t) = (leftAt - front) + (right - mid)
      /\ u \in Seq(Taken) /\ Len(u) = Len(t) + 1
  BY SMTT(30) DEF Halves, ZipFacts, Longer
<1>2. ASSUME NEW k \in 1 .. Len(u)
      PROVE  (k \in 1 .. Len(t) /\ u[k] = t[k]) \/ (k = Len(t) + 1 /\ u[k] = a[right])
  <2>1. k \in 1 .. Len(t) \/ k = Len(t) + 1
    BY <1>1
  <2> QED
    BY <2>1 DEF Longer
<1>3. \A i \in right + 1 .. back - 1 : Stably(a[right], a[i])
  BY <1>1 DEF Halves, SortedPart
<1>4. ASSUME NEW i \in leftAt .. mid - 1
      PROVE  Stably(a[right], a[i])
  <2>1. /\ leftAt # mid /\ leftAt \in front .. mid - 1 /\ i \in front .. mid - 1
    BY <1>1
  <2>2. /\ a[leftAt].key \in Int /\ a[right].key \in Int /\ a[i].key \in Int
    BY <1>1, <2>1 DEF Halves
  <2>3. a[leftAt].key > a[right].key
    BY <2>1
  <2>4. i = leftAt \/ Stably(a[leftAt], a[i])
    BY <1>1, <2>1 DEF Halves, SortedPart
  <2>5. a[leftAt].key <= a[i].key
    BY <2>2, <2>4 DEF Stably, Compare
  <2> QED
    BY <2>2, <2>3, <2>5 DEF Stably, Compare
<1>5. ASSUME NEW k \in 1 .. Len(u), NEW m \in 1 .. Len(u), k < m
      PROVE  Stably(u[k], u[m])
  <2>1. k \in 1 .. Len(t) /\ u[k] = t[k]
    BY <1>1, <1>2, <1>5
  <2>2. CASE m \in 1 .. Len(t) /\ u[m] = t[m]
    BY <1>5, <2>1, <2>2 DEF ZipFacts
  <2>3. CASE u[m] = a[right]
    BY <1>1, <2>1, <2>3 DEF ZipFacts
  <2> QED
    BY <1>2, <2>2, <2>3
<1>6. ASSUME NEW k \in 1 .. Len(u), NEW i, i \in leftAt .. mid - 1 \/ i \in right + 1 .. back - 1
      PROVE  Stably(u[k], a[i])
  <2>1. CASE k \in 1 .. Len(t) /\ u[k] = t[k]
    <3>1. i \in leftAt .. mid - 1 \/ i \in right .. back - 1
      BY <1>1, <1>6
    <3> QED
      BY <2>1, <3>1 DEF ZipFacts
  <2>2. CASE u[k] = a[right]
    BY <1>3, <1>4, <1>6, <2>2
  <2> QED
    BY <1>2, <2>1, <2>2
<1>7. ASSUME NEW k \in 1 .. Len(u) PROVE u[k].place \in front .. back - 1
  <2>1. a[right].place \in mid .. back - 1
    BY <1>1 DEF Halves
  <2>2. a[right].place \in front .. back - 1
    BY <1>1, <2>1, SMTT(30)
  <2>3. \A m \in 1 .. Len(t) : t[m].place \in front .. back - 1
    BY DEF ZipFacts
  <2> QED
    BY <1>2, <2>2, <2>3
<1>8. ASSUME NEW x \in front .. back - 1
      PROVE  \/ x \in leftAt .. mid - 1 \/ x \in right + 1 .. back - 1
             \/ \E k \in 1 .. Len(u) : u[k] = a[x]
  <2>1. CASE x \in leftAt .. mid - 1
    BY <2>1
  <2>2. CASE x \in right .. back - 1
    <3>1. x = right \/ x \in right + 1 .. back - 1
      BY <1>1, <2>2
    <3>2. Len(t) + 1 \in 1 .. Len(u) /\ u[Len(t) + 1] = a[right]
      BY <1>1 DEF Longer
    <3> QED
      BY <3>1, <3>2
  <2>3. CASE \E k \in 1 .. Len(t) : t[k] = a[x]
    <3>1. PICK k \in 1 .. Len(t) : t[k] = a[x]
      BY <2>3
    <3>2. k \in 1 .. Len(u) /\ u[k] = a[x]
      BY <1>1, <3>1 DEF Longer
    <3> QED
      BY <3>2
  <2> QED
    BY <2>1, <2>2, <2>3 DEF ZipFacts
<1>9. leftAt \in front .. mid /\ right + 1 \in mid .. back
         /\ Len(u) = (leftAt - front) + ((right + 1) - mid)
  BY <1>1, SMTT(30)
<1> QED
  BY <1>1, <1>5, <1>6, <1>7, <1>8, <1>9 DEF ZipFacts

(* The halves are in order when the window on top is to be merged.         *)
LEMMA MergeHalves ==
  ASSUME NEW a, NEW c \in Nat, Holds(a, c), NEW ws \in Seq(Windows), 1 \in DOMAIN ws,
         MergeOrder(a, c, ws), ws[1].op = "merge"
  PROVE  Halves(a, c, ws[1].front, Mid(ws[1]), ws[1].back)
<1> DEFINE w == ws[1]
           mid == Mid(w)
<1>1. /\ w \in Windows /\ w.front + 2 <= w.back /\ w.back <= c
      /\ PlacesKept(a, w)
      /\ SortedOrWaits(a, ws, 1, w.front, mid) /\ SortedOrWaits(a, ws, 1, mid, w.back)
  BY DEF MergeOrder, Nested
<1>2. w.front \in Nat /\ w.back \in Nat /\ mid \in Nat /\ w.front < mid /\ mid < w.back
  BY <1>1, WindowBounds, MidBetween
<1>3. SortedPart(a, w.front, mid) /\ SortedPart(a, mid, w.back)
  <2>1. \A j \in DOMAIN ws : ~(j < 1)
    OBVIOUS
  <2> QED
    BY <1>1, <2>1 DEF SortedOrWaits
<1>4. w.op = "merge"
  OBVIOUS
<1> HIDE DEF w
<1>5. \A i \in w.front .. mid - 1 : a[i].key \in Int /\ a[i].place \in w.front .. mid - 1
  <2>1. ASSUME NEW i \in w.front .. mid - 1
        PROVE  a[i].key \in Int /\ a[i].place \in w.front .. mid - 1
    <3>1. i \in w.front .. w.back - 1 /\ i < mid /\ i \in 0 .. c - 1
      BY <1>1, <1>2
    <3>2. a[i].key \in Int
      BY <3>1 DEF Holds
    <3>3. a[i].place \in w.front .. mid - 1
      BY <1>1, <1>4, <3>1 DEF PlacesKept
    <3> QED
      BY <3>2, <3>3
  <2> QED
    BY <2>1
<1>6. \A i \in mid .. w.back - 1 : a[i].key \in Int /\ a[i].place \in mid .. w.back - 1
  <2>1. ASSUME NEW i \in mid .. w.back - 1
        PROVE  a[i].key \in Int /\ a[i].place \in mid .. w.back - 1
    <3>1. i \in w.front .. w.back - 1 /\ ~(i < mid) /\ i \in 0 .. c - 1
      BY <1>1, <1>2
    <3>2. a[i].key \in Int
      BY <3>1 DEF Holds
    <3>3. a[i].place \in mid .. w.back - 1
      BY <1>1, <1>4, <3>1 DEF PlacesKept
    <3> QED
      BY <3>2, <3>3
  <2> QED
    BY <2>1
<1> QED
  BY <1>1, <1>2, <1>3, <1>5, <1>6 DEF Halves, w

Zipping == [front : Nat, mid : Nat, back : Nat, left : Nat, right : Nat]

(* While a window is merged it counts as one that waits.                   *)
OnTop(ws, front, mid, back) ==
  ws[1].op = "merge" /\ ws[1].front = front /\ Mid(ws[1]) = mid /\ ws[1].back = back

MergeRuns ==
  pc \in {"merge", "zip"} =>
    /\ sort = "merge" /\ todo \in Seq(Windows)
    /\ pc = "merge" => MergeOrder(items, count, todo)
    /\ pc = "zip" =>
         /\ at \in Zipping
         /\ \E ws \in Seq(Windows) :
              /\ Popped(todo, ws) /\ OnTop(ws, at.front, at.mid, at.back)
              /\ MergeOrder(items, count, ws)
         /\ ZipFacts(items, temp, at.front, at.mid, at.back, at.left, at.right)

LEMMA MergeStarts ==
  ASSUME Common, MergeBegins
  PROVE  Common' /\ MergeRuns' /\ pc' = "merge"
<1>1. /\ pc = "idle" /\ count > 1 /\ sort' = "merge" /\ items' = Renumbered /\ pc' = "merge"
      /\ todo' = <<Window(0, count)>> /\ blocks' = blocks + 1 /\ UNCHANGED <<at, temp, ok>>
  BY DEF MergeBegins
<1>2. /\ ArrayKept /\ count \in Nat /\ temp = <<>> /\ blocks = 0 /\ ok \in BOOLEAN
      /\ \A k \in 0 .. count - 1 : items'[k].place = k
  BY <1>1, RenumberKeeps DEF Common, TypeOK, NothingLeaks
<1> HIDE DEF count
<1> DEFINE w == Window(0, count)
           ws == <<w>>
<1>3. w \in Windows /\ w.op = "visit" /\ w.front = 0 /\ w.back = count
  BY <1>2 DEF Window, Windows
<1> HIDE DEF w
<1>4. ws \in Seq(Windows) /\ DOMAIN ws = {1} /\ ws[1] = w /\ todo' = ws /\ Len(ws) = 1
  BY <1>1, <1>3 DEF w
<1> HIDE DEF ws
<1>5. Common' /\ count' = count
  <2>1. DOMAIN temp' = {}
    BY <1>1, <1>2
  <2> QED
    BY <1>1, <1>2, <1>4, <2>1, RecurringKeeps DEF Recurring, Sorts
<1> DEFINE b == items'
<1>6. \A k \in 0 .. count - 1 : b[k].place = k
  BY <1>2
<1> HIDE DEF b
<1>7. MergeOrder(b, count, ws)
  <2>1. Nested(count, ws)
    BY <1>1, <1>2, <1>3, <1>4 DEF Nested
  <2>2. PlacesKept(b, w)
    BY <1>3, <1>6 DEF PlacesKept
  <2>3. SortedOrWaits(b, ws, Len(ws) + 1, 0, count)
    BY <1>3, <1>4 DEF SortedOrWaits
  <2> QED
    BY <1>3, <1>4, <2>1, <2>2, <2>3 DEF MergeOrder
<1> QED
  BY <1>1, <1>4, <1>5, <1>7 DEF MergeRuns, b

LEMMA MergeCommon ==
  ASSUME Common, MergeRuns, pc \in {"merge", "zip"}, pc' \in {"merge", "zip"},
         ArrayKept, todo' \in Seq(Windows), UNCHANGED <<sort, blocks, ok>>,
         pc' = "merge" => temp' = <<>>,
         \A k \in DOMAIN temp' : temp'[k] \in [key : Keys, place : 0 .. count - 1]
  PROVE  Common' /\ count' = count /\ sort' = "merge"
<1>1. /\ blocks = 1 /\ ok \in BOOLEAN /\ sort \in Sorts /\ count > 1 /\ sort = "merge"
  BY DEF Common, TypeOK, NothingLeaks, MergeRuns
<1> QED
  BY <1>1, RecurringKeeps DEF Recurring

LEMMA MergeVisitKeeps ==
  ASSUME Common, MergeRuns, MergeVisits
  PROVE  Common' /\ MergeRuns' /\ pc' = "merge"
<1> DEFINE w == Head(todo)
           x == Window(w.front, Mid(w))
           y == Window(Mid(w), w.back)
           z == [w EXCEPT !.op = "merge"]
           ts == <<x, y, z>> \o Tail(todo)
<1>1. /\ pc = "merge" /\ pc' = "merge" /\ todo # <<>> /\ w.op = "visit"
      /\ UNCHANGED <<sort, blocks, ok, items, temp>>
      /\ todo' = IF w.back - w.front <= 1 THEN Tail(todo) ELSE ts
  BY DEF MergeVisits, Loops
<1>2. /\ todo \in Seq(Windows) /\ MergeOrder(items, count, todo) /\ Holds(items, count)
      /\ w \in Windows /\ w = todo[1] /\ 1 \in DOMAIN todo
      /\ Popped(Tail(todo), todo) /\ Tail(todo) \in Seq(Windows)
  BY <1>1, TailOf, TailIsPopped, HoldsItems DEF MergeRuns
<1>3. /\ w.front \in Nat /\ w.back \in Nat /\ w.front < w.back /\ w.back <= count /\ count \in Nat
      /\ PlacesKept(items, w)
  <2>1. w.front \in Nat /\ w.back \in Nat
    BY <1>2, WindowBounds
  <2>2. count \in Nat
    BY <1>2 DEF Holds
  <2> QED
    BY <1>2, <2>1, <2>2 DEF MergeOrder, Nested
<1>4. ArrayKept /\ temp' = <<>> /\ DOMAIN temp' = {}
  <2>1. temp' = <<>>
    BY <1>1 DEF Common
  <2>2. DOMAIN temp' = {}
    BY <2>1
  <2> QED
    BY <1>1, <2>1, <2>2, SameKeeps
<1>5. CASE w.back - w.front <= 1
  <2>1. WindowSorted(items, items, count, todo[1])
    <3>1. w.front .. w.back - 1 = {w.front}
      BY <1>3, <1>5
    <3>2. SortedPart(items, w.front, w.back)
      BY <1>3, <3>1 DEF SortedPart
    <3>3. w.op = "visit"
      BY <1>1
    <3> HIDE DEF w
    <3>4. items[w.front].place = w.front
      BY <1>3, <3>1, <3>3 DEF PlacesKept
    <3> QED
      BY <1>2, <1>3, <3>1, <3>2, <3>4 DEF WindowSorted
  <2>2. MergeOrder(items, count, Tail(todo))
    BY <1>2, <1>3, <2>1, MergePops
  <2>3. Common' /\ count' = count /\ sort' = "merge"
    BY <1>1, <1>2, <1>4, <1>5, MergeCommon
  <2> QED
    BY <1>1, <1>2, <1>5, <2>2, <2>3 DEF MergeRuns
<1>6. CASE ~(w.back - w.front <= 1)
  <2>1. Mid(w) \in Nat /\ w.front + 2 <= w.back
    BY <1>2, <1>3, <1>6, MidBetween
  <2>2. /\ x \in Windows /\ x.op = "visit" /\ x.front = w.front /\ x.back = Mid(w)
        /\ y \in Windows /\ y.op = "visit" /\ y.front = Mid(w) /\ y.back = w.back
        /\ z \in Windows /\ z.op = "merge" /\ z.front = w.front /\ z.back = w.back
    <3>1. x \in Windows /\ x.op = "visit" /\ x.front = w.front /\ x.back = Mid(w)
      BY <1>3, <2>1 DEF Window, Windows
    <3>2. y \in Windows /\ y.op = "visit" /\ y.front = Mid(w) /\ y.back = w.back
      BY <1>3, <2>1 DEF Window, Windows
    <3> HIDE DEF w
    <3>3. z \in Windows /\ z.op = "merge" /\ z.front = w.front /\ z.back = w.back
      BY <1>2 DEF Windows
    <3> QED
      BY <3>1, <3>2, <3>3
  <2> HIDE DEF w, x, y, z
  <2>3. /\ ts \in Seq(Windows) /\ Len(ts) = Len(Tail(todo)) + 3
        /\ {1, 2, 3} \subseteq DOMAIN ts /\ ts[1] = x /\ ts[2] = y /\ ts[3] = z
        /\ \A k \in DOMAIN ts : k \in Nat /\
             (k \in {1, 2, 3} \/ (k - 3 \in DOMAIN Tail(todo) /\ ts[k] = Tail(todo)[k - 3]))
        /\ \A k \in DOMAIN Tail(todo) : k \in Nat /\ k + 3 \in DOMAIN ts /\ ts[k + 3] = Tail(todo)[k]
    BY <1>2, <2>2, PrependThree, SMTT(30)
  <2> HIDE DEF ts
  <2>4. Divided(ts, todo, x, y, z)
    <3>1. Len(ts) = Len(todo) + 2
      BY <1>2, <2>3 DEF Popped
    <3>2. ASSUME NEW k \in DOMAIN ts
          PROVE  k \in Nat
                    /\ (k \in {1, 2, 3} \/ (k - 2 \in DOMAIN todo /\ k - 2 > 1 /\ ts[k] = todo[k - 2]))
      <4>1. CASE k \in {1, 2, 3}
        BY <4>1
      <4>2. CASE k \notin {1, 2, 3}
        <5>1. k \in Nat /\ k - 3 \in DOMAIN Tail(todo) /\ ts[k] = Tail(todo)[k - 3]
          BY <2>3, <4>2
        <5>2. /\ k - 3 \in Nat /\ k - 3 >= 1 /\ (k - 3) + 1 \in DOMAIN todo
              /\ Tail(todo)[k - 3] = todo[(k - 3) + 1]
          BY <1>2, <5>1 DEF Popped
        <5>3. (k - 3) + 1 = k - 2
          BY <5>1
        <5> QED
          BY <5>1, <5>2, <5>3
      <4> QED
        BY <4>1, <4>2
    <3>3. ASSUME NEW k \in DOMAIN todo
          PROVE  k \in Nat /\ k >= 1 /\ (k > 1 => k + 2 \in DOMAIN ts /\ ts[k + 2] = todo[k])
      <4>1. k \in Nat /\ k >= 1 /\ (k > 1 => k - 1 \in DOMAIN Tail(todo) /\ Tail(todo)[k - 1] = todo[k])
        BY <1>2 DEF Popped
      <4>2. k > 1 => (k - 1) + 3 \in DOMAIN ts /\ ts[(k - 1) + 3] = Tail(todo)[k - 1]
        BY <2>3, <4>1
      <4>3. (k - 1) + 3 = k + 2
        BY <4>1
      <4> QED
        BY <4>1, <4>2, <4>3
    <3> QED
      BY <1>2, <2>2, <2>3, <3>1, <3>2, <3>3 DEF Divided
  <2>5. MergeOrder(items, count, ts)
    BY <1>1, <1>2, <1>3, <2>1, <2>4, MergeDivides
  <2>6. Common' /\ count' = count /\ sort' = "merge"
    BY <1>1, <1>2, <1>4, <1>6, <2>3, MergeCommon
  <2> QED
    BY <1>1, <1>6, <2>3, <2>5, <2>6 DEF MergeRuns
<1> QED
  BY <1>5, <1>6

LEMMA MergeOpenKeeps ==
  ASSUME Common, MergeRuns, MergeOpens
  PROVE  Common' /\ MergeRuns' /\ pc' = "zip"
<1> DEFINE w == Head(todo)
           mid == Mid(w)
<1>1. /\ pc = "merge" /\ pc' = "zip" /\ todo # <<>> /\ w.op = "merge"
      /\ UNCHANGED <<sort, blocks, ok, items, temp>> /\ todo' = Tail(todo)
      /\ at' = [front |-> w.front, mid |-> mid, back |-> w.back, left |-> w.front, right |-> mid]
  BY DEF MergeOpens, Loops
<1>2. /\ todo \in Seq(Windows) /\ MergeOrder(items, count, todo) /\ Holds(items, count)
      /\ w \in Windows /\ w = todo[1] /\ 1 \in DOMAIN todo
      /\ Popped(todo', todo) /\ todo' \in Seq(Windows)
  BY <1>1, TailOf, TailIsPopped, HoldsItems DEF MergeRuns
<1>3. temp = <<>> /\ temp' = <<>> /\ DOMAIN temp' = {}
  <2>1. temp' = <<>>
    BY <1>1 DEF Common
  <2> QED
    BY <1>1, <2>1
<1>4. Common' /\ count' = count /\ sort' = "merge"
  BY <1>1, <1>2, <1>3, SameKeeps, MergeCommon
<1>5. Halves(items, count, w.front, mid, w.back)
  <2>1. count \in Nat
    BY <1>2 DEF Holds
  <2>2. todo[1].op = "merge"
    BY <1>1, <1>2
  <2>3. Halves(items, count, todo[1].front, Mid(todo[1]), todo[1].back)
    BY <1>2, <2>1, <2>2, MergeHalves
  <2> QED
    BY <1>2, <2>3
<1> HIDE DEF w, mid
<1>6. w.front \in Nat /\ mid \in Nat /\ w.back \in Nat /\ w.front < mid /\ mid < w.back
  BY <1>5 DEF Halves
<1>7. ZipFacts(items, <<>>, w.front, mid, w.back, w.front, mid)
  <2>1. <<>> \in Seq(Taken) /\ Len(<<>>) = 0
    OBVIOUS
  <2> QED
    BY <1>6, <2>1 DEF ZipFacts
<1>8. /\ at'.front = w.front /\ at'.mid = mid /\ at'.back = w.back /\ at'.left = w.front
      /\ at'.right = mid /\ at' \in Zipping
  BY <1>1, <1>6 DEF Zipping
<1>9. OnTop(todo, w.front, mid, w.back)
  BY <1>1, <1>2 DEF OnTop, mid
<1> QED
  BY <1>1, <1>2, <1>3, <1>4, <1>7, <1>8, <1>9 DEF MergeRuns

(* The window that is merged, and its halves.                              *)
LEMMA ZipHalves ==
  ASSUME Common, MergeRuns, pc = "zip"
  PROVE  /\ Halves(items, count, at.front, at.mid, at.back)
         /\ ZipFacts(items, temp, at.front, at.mid, at.back, at.left, at.right)
         /\ todo \in Seq(Windows) /\ at \in Zipping /\ count \in Nat
<1>1. PICK ws \in Seq(Windows) :
        Popped(todo, ws) /\ OnTop(ws, at.front, at.mid, at.back) /\ MergeOrder(items, count, ws)
  BY DEF MergeRuns
<1>2. 1 \in DOMAIN ws /\ Holds(items, count) /\ count \in Nat
  BY <1>1, HoldsItems DEF Popped, Holds
<1>3. Halves(items, count, ws[1].front, Mid(ws[1]), ws[1].back)
  BY <1>1, <1>2, MergeHalves DEF OnTop
<1> QED
  BY <1>1, <1>2, <1>3 DEF OnTop, MergeRuns

(* What was taken is of the array.                                         *)
LEMMA TakenTyped ==
  ASSUME Common, NEW t, NEW front, NEW mid, NEW back, NEW leftAt, NEW right,
         Halves(items, count, front, mid, back), ZipFacts(items, t, front, mid, back, leftAt, right)
  PROVE  \A k \in DOMAIN t : t[k] \in [key : Keys, place : 0 .. count - 1]
<1>1. t \in Seq(Taken) /\ DOMAIN t = 1 .. Len(t)
  BY DEF ZipFacts
<1>2. front \in Nat /\ back \in Nat /\ back <= count /\ count \in Nat
  BY ArrayFacts DEF Halves
<1> HIDE DEF count
<1>3. ASSUME NEW k \in DOMAIN t PROVE t[k] \in [key : Keys, place : 0 .. count - 1]
  <2>1. t[k] \in Taken
    BY <1>1
  <2>2. t[k].place \in front .. back - 1
    BY <1>1 DEF ZipFacts
  <2>3. t[k].place \in 0 .. count - 1
    <3> DEFINE p == t[k].place
    <3>1. p \in front .. back - 1
      BY <2>2
    <3> HIDE DEF p
    <3>2. p \in 0 .. count - 1
      BY <1>2, <3>1
    <3> QED
      BY <3>2 DEF p
  <2> QED
    BY <2>1, <2>3 DEF Taken
<1> QED
  BY <1>3

LEMMA MergeTakeKeeps ==
  ASSUME Common, MergeRuns, MergeTakes
  PROVE  Common' /\ MergeRuns' /\ pc' = "zip"
<1>1. /\ pc = "zip" /\ pc' = "zip" /\ UNCHANGED <<sort, blocks, ok, items, todo>>
      /\ at.left < at.mid \/ at.right < at.back
      /\ IF TakesLeft
         THEN temp' = Append(temp, items[at.left]) /\ at' = [at EXCEPT !.left = @ + 1]
         ELSE temp' = Append(temp, items[at.right]) /\ at' = [at EXCEPT !.right = @ + 1]
  BY DEF MergeTakes, Loops
<1>2. /\ Halves(items, count, at.front, at.mid, at.back)
      /\ ZipFacts(items, temp, at.front, at.mid, at.back, at.left, at.right)
      /\ todo \in Seq(Windows) /\ at \in Zipping /\ count \in Nat
  BY <1>1, ZipHalves
<1>3. PICK ws \in Seq(Windows) :
        Popped(todo, ws) /\ OnTop(ws, at.front, at.mid, at.back) /\ MergeOrder(items, count, ws)
  BY <1>1 DEF MergeRuns
<1>4. /\ at.front \in Nat /\ at.mid \in Nat /\ at.back \in Nat /\ at.left \in Nat /\ at.right \in Nat
      /\ at.left \in at.front .. at.mid /\ at.right \in at.mid .. at.back /\ at.back <= count
      /\ temp \in Seq(Taken)
  BY <1>2 DEF Zipping, ZipFacts, Halves
<1>5. \A i \in 0 .. count - 1 : items[i] \in Taken
  BY ArrayFacts DEF Taken
<1>6. \A i \in at.front .. at.mid - 1 : items[i].key \in Int
  BY <1>2 DEF Halves
<1>7. \A i \in at.mid .. at.back - 1 : items[i].key \in Int
  BY <1>2 DEF Halves
<1> HIDE DEF count
<1>8. /\ at' \in Zipping /\ at'.front = at.front /\ at'.mid = at.mid /\ at'.back = at.back
      /\ ZipFacts(items, temp', at.front, at.mid, at.back, at'.left, at'.right)
  <2>1. CASE TakesLeft
    <3>1. at' = [at EXCEPT !.left = @ + 1] /\ temp' = Append(temp, items[at.left])
      BY <1>1, <2>1
    <3>2. /\ at' \in Zipping /\ at'.front = at.front /\ at'.mid = at.mid /\ at'.back = at.back
          /\ at'.left = at.left + 1 /\ at'.right = at.right
      <4> DEFINE n == at.left + 1
      <4>1. n \in Nat /\ at' = [at EXCEPT !.left = n]
        BY <1>4, <3>1
      <4> HIDE DEF n
      <4>2. /\ at' \in Zipping /\ at'.front = at.front /\ at'.mid = at.mid /\ at'.back = at.back
            /\ at'.left = n /\ at'.right = at.right
        BY <1>2, <4>1 DEF Zipping
      <4> QED
        BY <4>2 DEF n
    <3>3. at.left < at.mid /\ at.left \in at.front .. at.mid - 1 /\ at.left \in 0 .. count - 1
      <4>1. at.left # at.mid
        BY <2>1 DEF TakesLeft
      <4>2. at.mid < at.back
        BY <1>2 DEF Halves
      <4> QED
        BY <1>2, <1>4, <4>1, <4>2
    <3>4. at.right = at.back \/ items[at.left].key <= items[at.right].key
      <4>1. CASE at.right = at.back
        BY <4>1
      <4>2. CASE at.right # at.back
        <5>1. Compare(items[at.left], items[at.right]) <= 0
          BY <2>1, <4>2 DEF TakesLeft
        <5>2. at.right \in at.mid .. at.back - 1
          BY <1>4, <4>2
        <5>3. items[at.left].key \in Int /\ items[at.right].key \in Int
          BY <1>6, <1>7, <3>3, <5>2
        <5> QED
          BY <5>1, <5>3 DEF Compare
      <4> QED
        BY <4>1, <4>2
    <3>5. Longer(temp', temp, items[at.left])
      BY <1>4, <1>5, <3>1, <3>3, AppendIsLonger
    <3>6. ZipFacts(items, temp', at.front, at.mid, at.back, at.left + 1, at.right)
      BY <1>2, <3>3, <3>4, <3>5, ZipTakesLeft
    <3> QED
      BY <3>2, <3>6
  <2>2. CASE ~TakesLeft
    <3>1. at' = [at EXCEPT !.right = @ + 1] /\ temp' = Append(temp, items[at.right])
      BY <1>1, <2>2
    <3>2. /\ at' \in Zipping /\ at'.front = at.front /\ at'.mid = at.mid /\ at'.back = at.back
          /\ at'.left = at.left /\ at'.right = at.right + 1
      <4> DEFINE n == at.right + 1
      <4>1. n \in Nat /\ at' = [at EXCEPT !.right = n]
        BY <1>4, <3>1
      <4> HIDE DEF n
      <4>2. /\ at' \in Zipping /\ at'.front = at.front /\ at'.mid = at.mid /\ at'.back = at.back
            /\ at'.right = n /\ at'.left = at.left
        BY <1>2, <4>1 DEF Zipping
      <4> QED
        BY <4>2 DEF n
    <3>3. at.right < at.back /\ at.right \in at.mid .. at.back - 1 /\ at.right \in 0 .. count - 1
      <4>1. at.right # at.back
        BY <1>1, <1>4, <2>2 DEF TakesLeft
      <4> QED
        BY <1>2, <1>4, <4>1
    <3>4. at.left = at.mid \/ items[at.left].key > items[at.right].key
      <4>1. CASE at.left = at.mid
        BY <4>1
      <4>2. CASE at.left # at.mid
        <5>1. ~(Compare(items[at.left], items[at.right]) <= 0)
          BY <2>2, <4>2 DEF TakesLeft
        <5>2. at.left \in at.front .. at.mid - 1
          BY <1>4, <4>2
        <5>3. items[at.left].key \in Int /\ items[at.right].key \in Int
          BY <1>6, <1>7, <3>3, <5>2
        <5> QED
          BY <5>1, <5>3 DEF Compare
      <4> QED
        BY <4>1, <4>2
    <3>5. Longer(temp', temp, items[at.right])
      BY <1>4, <1>5, <3>1, <3>3, AppendIsLonger
    <3>6. ZipFacts(items, temp', at.front, at.mid, at.back, at.left, at.right + 1)
      BY <1>2, <3>3, <3>4, <3>5, ZipTakesRight
    <3> QED
      BY <3>2, <3>6
  <2> QED
    BY <2>1, <2>2
<1>9. Common' /\ count' = count /\ sort' = "merge"
  <2>1. \A k \in DOMAIN temp' : temp'[k] \in [key : Keys, place : 0 .. count - 1]
    <3> DEFINE t == temp'
               leftAt == at'.left
               right == at'.right
    <3>1. ZipFacts(items, t, at.front, at.mid, at.back, leftAt, right)
      BY <1>8
    <3> HIDE DEF t, leftAt, right
    <3>2. \A k \in DOMAIN t : t[k] \in [key : Keys, place : 0 .. count - 1]
      BY <1>2, <3>1, TakenTyped
    <3> QED
      BY <3>2 DEF t
  <2> QED
    BY <1>1, <1>2, <2>1, SameKeeps, MergeCommon
<1> QED
  BY <1>1, <1>2, <1>3, <1>8, <1>9 DEF MergeRuns

(* Copying the buffer back puts the window in order.                       *)
LEMMA MergeCopyKeeps ==
  ASSUME Common, MergeRuns, MergeCopies
  PROVE  Common' /\ MergeRuns' /\ pc' = "merge"
<1> DEFINE front == at.front
           mid == at.mid
           back == at.back
<1>1. /\ pc = "zip" /\ pc' = "merge" /\ UNCHANGED <<sort, blocks, ok, todo>>
      /\ at.left = mid /\ at.right = back /\ temp' = <<>>
      /\ items' = [i \in DOMAIN items |->
           IF i \in front .. back - 1 THEN temp[i - front + 1] ELSE items[i]]
  BY DEF MergeCopies, Loops
<1>2. /\ Halves(items, count, front, mid, back)
      /\ ZipFacts(items, temp, front, mid, back, mid, back)
      /\ todo \in Seq(Windows) /\ count \in Nat
  BY <1>1, ZipHalves
<1>3. PICK ws \in Seq(Windows) :
        Popped(todo, ws) /\ OnTop(ws, front, mid, back) /\ MergeOrder(items, count, ws)
  BY <1>1 DEF MergeRuns
<1>4. /\ DOMAIN items = 0 .. count - 1
      /\ \A i \in 0 .. count - 1 : items[i] \in [key : Keys, place : 0 .. count - 1]
      /\ \A i \in 0 .. count - 1 : \E j \in 0 .. count - 1 : items[j].place = i
  BY ArrayFacts
<1>5. \A k \in DOMAIN temp : temp[k] \in [key : Keys, place : 0 .. count - 1]
  BY <1>2, TakenTyped
<1> HIDE DEF front, mid, back, count
<1>6. /\ front \in Nat /\ mid \in Nat /\ back \in Nat /\ front < mid /\ mid < back /\ back <= count
      /\ Len(temp) = back - front /\ temp \in Seq(Taken) /\ DOMAIN temp = 1 .. back - front
  BY <1>2 DEF Halves, ZipFacts
<1> DEFINE b == items'
<1>7. /\ DOMAIN b = 0 .. count - 1
      /\ \A i \in 0 .. count - 1 :
           b[i] = IF i \in front .. back - 1 THEN temp[i - front + 1] ELSE items[i]
  BY <1>1, <1>4
<1> HIDE DEF b
<1>8. \A i \in front .. back - 1 : i \in 0 .. count - 1 /\ i - front + 1 \in 1 .. back - front
  BY <1>2, <1>6
<1>9. ASSUME NEW x \in front .. back - 1
      PROVE  \E i \in front .. back - 1 : b[i] = items[x]
  <2>1. PICK k \in 1 .. back - front : temp[k] = items[x]
    <3>1. x \notin mid .. mid - 1 /\ x \notin back .. back - 1
      BY <1>6
    <3>2. \/ x \in mid .. mid - 1 \/ x \in back .. back - 1
          \/ \E k \in 1 .. Len(temp) : temp[k] = items[x]
      BY <1>2 DEF ZipFacts
    <3> QED
      BY <1>6, <3>1, <3>2
  <2>2. front + k - 1 \in front .. back - 1 /\ (front + k - 1) - front + 1 = k
    BY <1>6
  <2>3. b[front + k - 1] = temp[k]
    BY <1>7, <1>8, <2>2
  <2> QED
    BY <2>1, <2>2, <2>3
<1>10. ArrayKept
  <2>1. \A k \in 0 .. count - 1 : b[k] \in [key : Keys, place : 0 .. count - 1]
    BY <1>4, <1>5, <1>6, <1>7, <1>8
  <2>2. ASSUME NEW p \in 0 .. count - 1
        PROVE  \E k \in 0 .. count - 1 : b[k].place = p
    <3>1. PICK x \in 0 .. count - 1 : items[x].place = p
      BY <1>4
    <3>2. CASE x \in front .. back - 1
      <4>1. PICK i \in front .. back - 1 : b[i] = items[x]
        BY <1>9, <3>2
      <4> QED
        BY <1>8, <3>1, <4>1
    <3>3. CASE x \notin front .. back - 1
      BY <1>7, <3>1, <3>3
    <3> QED
      BY <3>2, <3>3
  <2> QED
    BY <1>4, <1>7, <2>1, <2>2 DEF ArrayKept, b
<1>11. WindowSorted(b, items, count, ws[1])
  <2>1. ws[1].front = front /\ ws[1].back = back
    BY <1>3 DEF OnTop
  <2>2. \A x \in 0 .. count - 1 : (front <= x /\ x < back) \/ b[x] = items[x]
    BY <1>6, <1>7
  <2>3. ASSUME NEW i \in front .. back - 1, NEW j \in front .. back - 1, i < j
        PROVE  Stably(b[i], b[j])
    <3>1. i - front + 1 < j - front + 1
      BY <1>6, <2>3
    <3>2. b[i] = temp[i - front + 1] /\ b[j] = temp[j - front + 1]
      BY <1>7, <1>8
    <3>3. Stably(temp[i - front + 1], temp[j - front + 1])
      BY <1>2, <1>6, <1>8, <3>1 DEF ZipFacts
    <3> QED
      BY <3>2, <3>3
  <2>4. ASSUME NEW x \in front .. back - 1
        PROVE  b[x].place \in front .. back - 1
    <3>1. b[x] = temp[x - front + 1] /\ x - front + 1 \in 1 .. Len(temp)
      BY <1>6, <1>7, <1>8
    <3> QED
      BY <1>2, <3>1 DEF ZipFacts
  <2> QED
    BY <2>1, <2>2, <2>3, <2>4 DEF WindowSorted, SortedPart
<1>12. MergeOrder(b, count, todo)
  BY <1>2, <1>3, <1>11, MergePops
<1>13. Common' /\ count' = count /\ sort' = "merge"
  <2>1. DOMAIN temp' = {}
    BY <1>1
  <2> QED
    BY <1>1, <1>2, <1>10, <2>1, MergeCommon
<1> QED
  BY <1>1, <1>2, <1>12, <1>13 DEF MergeRuns, b

LEMMA MergeReturns ==
  ASSUME Common, MergeRuns, MergeEnds
  PROVE  Common' /\ IdleInv' /\ pc' = "idle"
<1>1. pc = "merge" /\ todo = <<>> /\ Return(TRUE) /\ UNCHANGED <<items, sort>>
  BY DEF MergeEnds
<1>2. MergeOrder(items, count, todo) /\ Holds(items, count) /\ DOMAIN todo = {}
  BY <1>1, HoldsItems DEF MergeRuns
<1>3. \A i, j \in 0 .. count - 1 : i < j => Stably(items[i], items[j])
  BY <1>2 DEF MergeOrder, SortedOrWaits, SortedPart
<1>4. \A i, j \in 0 .. count - 1 : i < j => AtMost(items[i], items[j])
  BY <1>2, <1>3 DEF Stably, AtMost, Compare, Holds
<1>5. Common' /\ pc' = "idle"
  BY <1>1, SameKeeps, RecurringReturnKeeps DEF Recurring, Return
<1> QED
  BY <1>1, <1>3, <1>4, <1>5, ReturnsSorted

LEMMA MergeIsRight ==
  ASSUME Common, MergeRuns
  PROVE  /\ pc = "zip" =>
              /\ at.left \in at.front .. at.mid /\ at.right \in at.mid .. at.back
              /\ Len(temp) = (at.left - at.front) + (at.right - at.mid)
         /\ MergeLoop
<1> SUFFICES ASSUME pc = "zip"
             PROVE  /\ at.left \in at.front .. at.mid /\ at.right \in at.mid .. at.back
                    /\ Len(temp) = (at.left - at.front) + (at.right - at.mid)
                    /\ MergeLoop
  BY DEF MergeLoop
<1>1. /\ Halves(items, count, at.front, at.mid, at.back)
      /\ ZipFacts(items, temp, at.front, at.mid, at.back, at.left, at.right)
  BY ZipHalves
<1>2. /\ at.front \in Nat /\ at.mid \in Nat /\ at.back \in Nat /\ at.front < at.mid /\ at.mid < at.back
  BY <1>1 DEF Halves
<1>3. ASSUME NEW i \in at.front .. at.back - 1
      PROVE  items[i].place \in at.front .. at.back - 1
  <2> DEFINE p == items[i].place
  <2>1. p \in at.front .. at.mid - 1 \/ p \in at.mid .. at.back - 1
    <3>1. i \in at.front .. at.mid - 1 \/ i \in at.mid .. at.back - 1
      BY <1>2
    <3> QED
      BY <1>1, <3>1 DEF Halves
  <2> HIDE DEF p
  <2>2. p \in at.front .. at.back - 1
    BY <1>2, <2>1
  <2> QED
    BY <2>2 DEF p
<1>4. DOMAIN temp = 1 .. Len(temp)
  BY <1>1 DEF ZipFacts
<1> QED
  BY <1>1, <1>3, <1>4 DEF Halves, ZipFacts, MergeLoop, Ordered, SortedPart

------------------------------------------------------------------------------
(* A call that is refused, has nothing to sort or finds no memory leaves   *)
(* the items as they are numbered; one of at most one item is in order.    *)
LEMMA IdleReturns ==
  ASSUME Common, pc = "idle", items' = Renumbered, sort' \in Sorts, NEW r \in BOOLEAN, Return(r),
         r => count <= 1
  PROVE  Common' /\ IdleInv' /\ pc' = "idle"
<1>1. ArrayKept /\ \A k \in 0 .. count - 1 : items'[k].place = k
  BY RenumberKeeps
<1>2. count' = count /\ Positions' = Positions /\ Positions = 0 .. count - 1 /\ count \in Nat
  BY <1>1, CountKept, ArrayFacts DEF ArrayKept
<1>3. SortAssumption /\ DOMAIN items = 0 .. count - 1 /\ count <= MaxCount
  BY ArrayFacts DEF Common
<1>4. todo' = <<>> /\ temp' = <<>> /\ blocks' = 0 /\ pc' = "idle" /\ ok' = r
  BY DEF Return
<1> HIDE DEF count
<1>5. TypeOK'
  <2>1. DOMAIN items' = Positions' /\ count' <= MaxCount
    BY <1>1, <1>2, <1>3 DEF ArrayKept
  <2>2. \A i \in Positions' : items'[i] \in [key : Keys, place : Positions']
    BY <1>1, <1>2 DEF ArrayKept
  <2>3. DOMAIN todo' = {} /\ DOMAIN temp' = {}
    BY <1>4
  <2> QED
    BY <1>4, <2>1, <2>2, <2>3 DEF TypeOK
<1>6. ItemsKept'
  <2>1. {items'[i].place : i \in 0 .. count - 1} = 0 .. count - 1
    BY <1>1 DEF ArrayKept
  <2> QED
    BY <1>2, <2>1 DEF ItemsKept
<1>7. Common'
  BY <1>2, <1>3, <1>4, <1>5, <1>6 DEF Common, NothingLeaks
<1>8. IdleInv'
  <2>1. CASE r
    <3>1. \A i, j \in Positions' : ~(i < j)
      BY <1>2, <2>1
    <3> QED
      BY <1>4, <2>1, <3>1 DEF IdleInv, SortsOrLeaves, Ordered
  <2>2. CASE ~r
    BY <1>1, <1>2, <1>4, <2>2 DEF IdleInv, SortsOrLeaves
  <2> QED
    BY <2>1, <2>2
<1> QED
  BY <1>4, <1>7, <1>8

LEMMA RefuseKeeps ==
  ASSUME Common, NEW s \in Sorts, Refuse(s) \/ SortFew(s)
  PROVE  Common' /\ IdleInv' /\ pc' = "idle"
<1>1. CASE Refuse(s)
  BY <1>1, IdleReturns DEF Refuse
<1>2. CASE SortFew(s)
  BY <1>2, IdleReturns DEF SortFew
<1> QED
  BY <1>1, <1>2

LEMMA MergeFailsKeeps ==
  ASSUME Common, MergeFails
  PROVE  Common' /\ IdleInv' /\ pc' = "idle"
BY IdleReturns DEF MergeFails, Sorts

------------------------------------------------------------------------------
(* The inductive invariant.                                                *)
IndInv ==
  /\ Common
  /\ IdleInv
  /\ BubbleRuns /\ InsertionRuns /\ SelectionRuns /\ HeapRuns /\ QuickRuns /\ MergeRuns

LEMMA InitIsIndInv ==
  ASSUME SortAssumption, Init
  PROVE  IndInv
<1>1. PICK c \in 0 .. MaxCount : \E a \in Arrays(c) :
        items = [i \in 0 .. c - 1 |-> [key |-> a[i], place |-> i]]
  BY DEF Init
<1>2. PICK a \in Arrays(c) : items = [i \in 0 .. c - 1 |-> [key |-> a[i], place |-> i]]
  BY <1>1
<1>3. /\ sort = "bubble" /\ todo = <<>> /\ temp = <<>> /\ blocks = 0 /\ pc = "idle" /\ ok = FALSE
  BY DEF Init
<1>4. c \in Nat /\ c <= MaxCount
  BY DEF SortAssumption
<1>5. count = c
  <2>1. DOMAIN items = 0 .. c - 1
    BY <1>2
  <2>2. Cardinality(0 .. c - 1) = c
    <3>1. 0 \in Int /\ c - 1 \in Int
      BY <1>4
    <3>2. Cardinality(0 .. c - 1) = IF 0 > c - 1 THEN 0 ELSE (c - 1) - 0 + 1
      BY <3>1, FS_Interval
    <3> QED
      BY <1>4, <3>2
  <2> QED
    BY <2>1, <2>2 DEF count
<1>6. /\ DOMAIN items = 0 .. c - 1
      /\ \A i \in 0 .. c - 1 : items[i] \in [key : Keys, place : 0 .. c - 1] /\ items[i].place = i
  BY <1>2 DEF Arrays
<1> HIDE DEF count
<1>7. Positions = 0 .. c - 1
  BY <1>5 DEF Positions
<1>8. TypeOK
  <2>1. DOMAIN todo = {} /\ DOMAIN temp = {}
    BY <1>3
  <2> QED
    BY <1>3, <1>4, <1>5, <1>6, <1>7, <2>1 DEF TypeOK, Sorts
<1>9. ItemsKept
  BY <1>6, <1>7 DEF ItemsKept
<1>10. Common
  BY <1>3, <1>4, <1>5, <1>8, <1>9 DEF Common, NothingLeaks
<1>11. IdleInv
  BY <1>3, <1>6, <1>7 DEF IdleInv, SortsOrLeaves
<1> QED
  BY <1>3, <1>10, <1>11 DEF IndInv, BubbleRuns, InsertionRuns, SelectionRuns, HeapRuns, QuickRuns,
     MergeRuns

(* A step of one loop leaves what is said of the others empty.             *)
LEMMA PartsApart ==
  ASSUME Common'
  PROVE  /\ IdleInv' /\ pc' = "idle" => IndInv'
         /\ BubbleRuns' /\ pc' = "bubble" => IndInv'
         /\ InsertionRuns' /\ pc' = "insertion" => IndInv'
         /\ SelectionRuns' /\ pc' = "selection" => IndInv'
         /\ HeapRuns' /\ pc' \in {"heapify", "sift"} => IndInv'
         /\ QuickRuns' /\ pc' \in {"quick", "partition"} => IndInv'
         /\ MergeRuns' /\ pc' \in {"merge", "zip"} => IndInv'
BY DEF IndInv, IdleInv, BubbleRuns, InsertionRuns, SelectionRuns, HeapRuns, QuickRuns, MergeRuns

(* A call that starts, one of each sort.                                   *)
LEMMA StartKeeps ==
  ASSUME IndInv,
         \/ \E s \in Sorts : Refuse(s) \/ SortFew(s)
         \/ BubbleBegins \/ InsertionBegins \/ SelectionBegins
         \/ HeapBegins \/ QuickBegins \/ MergeBegins \/ MergeFails
  PROVE  IndInv'
<1>1. Common
  BY DEF IndInv
<1>2. CASE \E s \in Sorts : Refuse(s) \/ SortFew(s)
  <2>1. PICK s \in Sorts : Refuse(s) \/ SortFew(s)
    BY <1>2
  <2>2. Common' /\ IdleInv' /\ pc' = "idle"
    BY <1>1, <2>1, RefuseKeeps
  <2> QED
    BY <2>2, PartsApart
<1>3. CASE BubbleBegins
  BY <1>1, <1>3, BubbleStarts, PartsApart
<1>4. CASE InsertionBegins
  BY <1>1, <1>4, InsertionStarts, PartsApart
<1>5. CASE SelectionBegins
  BY <1>1, <1>5, SelectionStarts, PartsApart
<1>6. CASE HeapBegins
  BY <1>1, <1>6, HeapStarts, PartsApart
<1>7. CASE QuickBegins
  BY <1>1, <1>7, QuickStarts, PartsApart
<1>8. CASE MergeBegins
  BY <1>1, <1>8, MergeStarts, PartsApart
<1>9. CASE MergeFails
  BY <1>1, <1>9, MergeFailsKeeps, PartsApart
<1> QED
  BY <1>2, <1>3, <1>4, <1>5, <1>6, <1>7, <1>8, <1>9

(* A turn of a loop, or the end of one.                                    *)
LEMMA StepKeeps ==
  ASSUME IndInv, Step
  PROVE  IndInv'
<1>1. /\ Common
      /\ BubbleRuns /\ InsertionRuns /\ SelectionRuns /\ HeapRuns /\ QuickRuns /\ MergeRuns
  BY DEF IndInv
<1>2. CASE BubbleCompares \/ BubbleNextPass
  BY <1>1, <1>2, BubbleKeeps, PartsApart
<1>3. CASE BubbleEnds
  BY <1>1, <1>3, BubbleReturns, PartsApart
<1>4. CASE InsertionShifts \/ InsertionNext
  BY <1>1, <1>4, InsertionKeeps, PartsApart
<1>5. CASE InsertionEnds
  BY <1>1, <1>5, InsertionReturns, PartsApart
<1>6. CASE SelectionScans
  BY <1>1, <1>6, SelectionScanKeeps, PartsApart
<1>7. CASE SelectionPlaces
  BY <1>1, <1>7, SelectionPlaceKeeps, PartsApart
<1>8. CASE HeapifySinks \/ HeapifyNext
  BY <1>1, <1>8, HeapifyKeeps, PartsApart
<1>9. CASE HeapExtracts
  BY <1>1, <1>9, HeapExtractKeeps, PartsApart
<1>10. CASE HeapSifts
  BY <1>1, <1>10, HeapSiftKeeps, PartsApart
<1>11. CASE HeapEnds
  BY <1>1, <1>11, HeapReturns, PartsApart
<1>12. CASE QuickOpens
  BY <1>1, <1>12, QuickOpenKeeps, PartsApart
<1>13. CASE QuickLess \/ QuickGreater \/ QuickEqual
  BY <1>1, <1>13, PartitionKeeps, PartsApart
<1>14. CASE QuickSplits
  BY <1>1, <1>14, QuickSplitKeeps, PartsApart
<1>15. CASE QuickEnds
  BY <1>1, <1>15, QuickReturns, PartsApart
<1>16. CASE MergeVisits
  BY <1>1, <1>16, MergeVisitKeeps, PartsApart
<1>17. CASE MergeOpens
  BY <1>1, <1>17, MergeOpenKeeps, PartsApart
<1>18. CASE MergeTakes
  BY <1>1, <1>18, MergeTakeKeeps, PartsApart
<1>19. CASE MergeCopies
  BY <1>1, <1>19, MergeCopyKeeps, PartsApart
<1>20. CASE MergeEnds
  BY <1>1, <1>20, MergeReturns, PartsApart
<1> QED
  BY <1>2, <1>3, <1>4, <1>5, <1>6, <1>7, <1>8, <1>9, <1>10, <1>11, <1>12, <1>13, <1>14, <1>15,
     <1>16, <1>17, <1>18, <1>19, <1>20 DEF Step

LEMMA NextKeeps ==
  ASSUME IndInv, [Next]_vars
  PROVE  IndInv'
<1>1. CASE Next
  BY <1>1, StartKeeps, StepKeeps DEF Next
<1>2. CASE UNCHANGED vars
  <2>1. UNCHANGED <<items, sort, at, todo, temp, blocks, pc, ok>>
    BY <1>2 DEF vars
  <2>2. Common'
    BY <2>1 DEF IndInv, Common, count, TypeOK, Positions, ItemsKept, NothingLeaks
  <2>3. IdleInv'
    BY <2>1 DEF IndInv, IdleInv, SortsOrLeaves, Running, Positions, count, Ordered, AtMost, Stably,
       Compare
  <2>4. BubbleRuns' /\ InsertionRuns' /\ SelectionRuns'
    BY <2>1 DEF IndInv, BubbleRuns, InsertionRuns, SelectionRuns, count
  <2>5. HeapRuns'
    BY <2>1 DEF IndInv, HeapRuns, count
  <2>6. QuickRuns'
    BY <2>1 DEF IndInv, QuickRuns, count
  <2>7. MergeRuns'
    BY <2>1 DEF IndInv, MergeRuns, count
  <2> QED
    BY <2>2, <2>3, <2>4, <2>5, <2>6, <2>7 DEF IndInv
<1> QED
  BY <1>1, <1>2

(* What the parts say together.                                            *)
LEMMA IndInvIsRight ==
  ASSUME IndInv
  PROVE  /\ WellFormed
         /\ BubbleLoop /\ InsertionLoop /\ SelectionLoop /\ QuickLoop /\ MergeLoop
         /\ HeapFits => LoopInvariant /\ SortsOrLeaves
         /\ sort # "heap" => SortsOrLeaves
<1>1. /\ Common /\ IdleInv
      /\ BubbleRuns /\ InsertionRuns /\ SelectionRuns /\ HeapRuns /\ QuickRuns /\ MergeRuns
  BY DEF IndInv
<1>2. /\ pc = "bubble" => at.n <= at.boundary /\ at.boundary \in Positions
      /\ BubbleLoop
  BY <1>1, BubbleIsRight
<1>3. /\ pc = "insertion" => at.i <= at.index /\ at.index \in Positions
      /\ InsertionLoop
  BY <1>1, InsertionIsRight
<1>4. /\ pc = "selection" => at.index <= at.n /\ {at.n, at.next} \subseteq at.index .. count - 1
      /\ SelectionLoop
  BY <1>1, SelectionIsRight
<1>5. /\ pc = "heapify" => at.n < count /\ (at.n >= 0 => at.parent \in Positions)
      /\ pc = "sift" => at.parent \in Positions /\ at.heap_size < count
      /\ HeapFits => HeapLoop
  BY <1>1, HeapIsRight
<1>6. /\ pc = "partition" => /\ at.less <= at.n /\ at.n <= at.greater + 1
                             /\ at.less <= at.greater /\ at.greater < at.size
      /\ QuickLoop
  BY <1>1, QuickIsRight
<1>7. /\ pc = "zip" =>
           /\ at.left \in at.front .. at.mid /\ at.right \in at.mid .. at.back
           /\ Len(temp) = (at.left - at.front) + (at.right - at.mid)
      /\ MergeLoop
  BY <1>1, MergeIsRight
<1>8. IndexesStay
  BY <1>2, <1>3, <1>4, <1>5, <1>6, <1>7 DEF IndexesStay
<1>9. WellFormed
  BY <1>1, <1>8 DEF Common, WellFormed
<1>10. HeapFits => LoopInvariant
  BY <1>2, <1>3, <1>4, <1>5, <1>6, <1>7 DEF LoopInvariant
<1>11. HeapFits \/ sort # "heap" => SortsOrLeaves
  BY <1>1 DEF IdleInv, SortsOrLeaves, Running
<1> QED
  BY <1>2, <1>3, <1>4, <1>6, <1>7, <1>9, <1>10, <1>11

LEMMA SpecKeepsIndInv == SortAssumption /\ Spec => []IndInv
<1>1. SortAssumption /\ Init => IndInv
  BY InitIsIndInv
<1>2. IndInv /\ [Next]_vars => IndInv'
  BY NextKeeps
<1> QED
  BY <1>1, <1>2, PTL DEF Spec

(* Whatever the arrays and the sizes of the words are: a sort loses no     *)
(* item and doubles none, its indexes stay in the array or the window      *)
(* although they are counted down in an unsigned type, and the buffer of   *)
(* merge_sort is freed on every way out.                                   *)
THEOREM SortsWellFormed ==
  ASSUME SortAssumption
  PROVE  Spec => []WellFormed
<1>1. IndInv => WellFormed
  BY IndInvIsRight
<1> QED
  BY <1>1, SpecKeepsIndInv, PTL

(* What the loops keep: bubble_sort's boundary, the prefix of insertion     *)
(* and of selection, the heap, the regions of a partition, what merging    *)
(* has taken.  The heap is one only if an int holds its last parent.       *)
THEOREM SortLoopsCorrect ==
  ASSUME SortAssumption, HeapFits
  PROVE  Spec => []LoopInvariant
<1>1. IndInv => LoopInvariant
  BY IndInvIsRight
<1> QED
  BY <1>1, SpecKeepsIndInv, PTL

(* Each of the six sorts, on any array: one that returns true has put the  *)
(* items in order, a stable one without exchanging equal items, and one    *)
(* that returns false has left them as they were.                          *)
THEOREM SortsSort ==
  ASSUME SortAssumption, HeapFits
  PROVE  Spec => []SortsOrLeaves
<1>1. IndInv => SortsOrLeaves
  BY IndInvIsRight
<1> QED
  BY <1>1, SpecKeepsIndInv, PTL

(* The same of all but heap_sort, however narrow an int is.                *)
THEOREM OthersSort ==
  ASSUME SortAssumption
  PROVE  Spec => [](sort # "heap" => SortsOrLeaves)
<1>1. IndInv => (sort # "heap" => SortsOrLeaves)
  BY IndInvIsRight
<1> QED
  BY <1>1, SpecKeepsIndInv, PTL

(* -------------------------------- searches -------------------------------- *)
LEMMA SearchCardinality == \A S : Searching!Cardinality(S) = Cardinality(S)
BY DEF Searching!Cardinality, Cardinality

(* The array has the indexes below count; a binary search that runs was    *)
(* called for items in order; and no search turns into the other.          *)
SearchIndInv ==
  /\ Searching!count \in Nat
  /\ Searching!SearchInvariant
  /\ probe = "binary" => Searching!Ascending
  /\ Searching!Running => search = probe

LEMMA InitIsSearchIndInv == Searching!Init => SearchIndInv
<1> SUFFICES ASSUME Searching!Init PROVE SearchIndInv
  OBVIOUS
<1>1. PICK c \in 0 .. MaxSearched : searched \in [0 .. c - 1 -> Keys]
  BY DEF Searching!Init
<1>2. c \in Nat /\ DOMAIN searched = 0 .. c - 1 /\ \A i \in DOMAIN searched : searched[i] \in Keys
  BY <1>1, ArraysAssumption DEF Searching!SearchAssumption
<1>3. Searching!count = c
  BY <1>2, FS_Interval, SearchCardinality DEF Searching!count
<1> HIDE DEF Searching!count
<1>4. Searching!TypeOK
  <2>1. 0 \in 0 .. Searching!count
           /\ Searching!Untouched \in {Searching!Untouched} \cup 0 .. Searching!count - 1
    BY <1>2, <1>3
  <2>2. DOMAIN searched = 0 .. Searching!count - 1 /\ \A i \in DOMAIN searched : searched[i] \in Keys
    BY <1>2, <1>3
  <2> QED
    BY <2>1, <2>2 DEF Searching!Init, Searching!TypeOK
<1>5. \A i \in DOMAIN searched : searched[i] # key
  BY <1>2, ArraysAssumption DEF Searching!SearchAssumption, Searching!Init
<1> QED
  BY <1>2, <1>3, <1>4, <1>5 DEF Searching!Init, SearchIndInv, Searching!SearchInvariant,
     Searching!WindowHoldsKey, Searching!Answers, Searching!Running

(* The steps share this: the array is only read.                           *)
LEMMA ArrayStays ==
  ASSUME SearchIndInv, UNCHANGED searched
  PROVE  /\ Searching!count' = Searching!count /\ Searching!count \in Nat
         /\ DOMAIN searched' = 0 .. Searching!count - 1
         /\ \A i \in 0 .. Searching!count - 1 : searched[i] \in Keys /\ searched[i] \in Int
              /\ searched'[i] = searched[i]
         /\ Searching!Ascending' = Searching!Ascending
BY ArraysAssumption DEF Searching!SearchAssumption, SearchIndInv, Searching!SearchInvariant,
   Searching!TypeOK, Searching!count, Searching!Ascending

(* A call without its arguments, one for no items, and the beginning of    *)
(* one that runs.                                                          *)
LEMMA RefuseKeepsInv ==
  ASSUME SearchIndInv, NEW s \in {"binary", "linear"}, Searching!Refuse(s)
  PROVE  SearchIndInv'
<1>1. UNCHANGED searched /\ search' = s /\ key' = NoKey /\ Searching!Return(FALSE, Searching!Untouched)
  BY DEF Searching!Refuse
<1>2. /\ Searching!count' = Searching!count /\ Searching!count \in Nat
           /\ DOMAIN searched' = 0 .. Searching!count - 1
      /\ \A i \in 0 .. Searching!count - 1 : searched'[i] \in Keys
  BY <1>1, ArrayStays
<1> HIDE DEF Searching!count
<1>3. Searching!TypeOK'
  <2>1. 0 \in 0 .. Searching!count'
           /\ Searching!Untouched \in {Searching!Untouched} \cup 0 .. Searching!count' - 1
    BY <1>2
  <2> QED
    BY <1>1, <1>2, <2>1 DEF Searching!Return, Searching!TypeOK
<1>4. \A i \in DOMAIN searched' : searched'[i] # key'
  BY <1>1, <1>2, ArraysAssumption DEF Searching!SearchAssumption
<1> QED
  BY <1>1, <1>2, <1>3, <1>4 DEF Searching!Return, SearchIndInv, Searching!SearchInvariant,
     Searching!WindowHoldsKey, Searching!Answers, Searching!Running

LEMMA CallsKeepInv ==
  ASSUME SearchIndInv, NEW s \in {"binary", "linear"}, NEW k \in Keys,
         Searching!SearchEmpty(s, k) \/ Searching!Begin(s, k)
  PROVE  SearchIndInv'
<1>1. UNCHANGED searched
  BY DEF Searching!SearchEmpty, Searching!Begin
<1>2. /\ Searching!count' = Searching!count /\ Searching!count \in Nat
           /\ DOMAIN searched' = 0 .. Searching!count - 1
      /\ \A i \in 0 .. Searching!count - 1 : searched'[i] \in Keys
      /\ Searching!Ascending' = Searching!Ascending
  BY <1>1, ArrayStays
<1> HIDE DEF Searching!count
<1>3. CASE Searching!SearchEmpty(s, k)
  <2>1. k # NoKey
    BY ArraysAssumption DEF Searching!SearchAssumption
  <2>2. Searching!TypeOK'
    <3>1. 0 \in 0 .. Searching!count'
             /\ Searching!Untouched \in {Searching!Untouched} \cup 0 .. Searching!count' - 1
      BY <1>2
    <3> QED
      BY <1>2, <1>3, <2>1, <3>1 DEF Searching!SearchEmpty, Searching!Return, Searching!TypeOK
  <2>3. DOMAIN searched' = {}
    BY <1>2, <1>3 DEF Searching!SearchEmpty
  <2> QED
    BY <1>2, <1>3, <2>2, <2>3 DEF Searching!SearchEmpty, Searching!Return, SearchIndInv,
       Searching!SearchInvariant, Searching!WindowHoldsKey,
       Searching!Answers, Searching!Running
<1>4. CASE Searching!Begin(s, k)
  <2>1. k # NoKey
    BY ArraysAssumption DEF Searching!SearchAssumption
  <2>2. Searching!TypeOK'
    BY <1>2, <1>4, <2>1 DEF Searching!Begin, Searching!TypeOK, SearchIndInv, Searching!SearchInvariant
  <2>3. Searching!WindowHoldsKey'
    BY <1>2, <1>4 DEF Searching!Begin, Searching!WindowHoldsKey
  <2> QED
    BY <1>2, <1>4, <2>2, <2>3 DEF Searching!Begin, SearchIndInv, Searching!SearchInvariant,
       Searching!Answers, Searching!Running
<1> QED
  BY <1>3, <1>4

(* The probe of binary_search lies in the window.                          *)
LEMMA MidInWindow ==
  ASSUME SearchIndInv, probe = "binary", low < high
  PROVE  /\ Searching!Mid \in 0 .. Searching!count - 1 /\ low <= Searching!Mid /\ Searching!Mid < high
         /\ low \in Nat /\ high \in Nat /\ high <= Searching!count
         /\ key \in Keys /\ key \in Int /\ searched[Searching!Mid] \in Int
<1>1. /\ Searching!count \in Nat /\ low \in 0 .. Searching!count /\ high \in 0 .. Searching!count
           /\ key \in Keys
  BY DEF SearchIndInv, Searching!SearchInvariant, Searching!TypeOK
<1> HIDE DEF Searching!count
<1>2. Searching!Mid \in 0 .. Searching!count - 1 /\ low <= Searching!Mid /\ Searching!Mid < high
  BY <1>1 DEF Searching!Mid
<1>3. searched[Searching!Mid] \in Keys
  BY <1>2 DEF SearchIndInv, Searching!SearchInvariant, Searching!TypeOK
<1> HIDE DEF Searching!Mid
<1>4. low \in Nat /\ high \in Nat /\ high <= Searching!count
  BY <1>1
<1> QED
  BY <1>1, <1>2, <1>3, <1>4, ArraysAssumption DEF Searching!SearchAssumption

(* What a probe tells of the items on its side, in an array in order.      *)
LEMMA DiscardsKeepInv ==
  ASSUME SearchIndInv, Searching!DiscardsLower \/ Searching!DiscardsUpper
  PROVE  SearchIndInv'
<1>1. /\ probe = "binary" /\ probe' = probe /\ low < high
      /\ UNCHANGED <<searched, key, out_index, search, found>>
  BY DEF Searching!DiscardsLower, Searching!DiscardsUpper
<1>2. /\ Searching!count' = Searching!count /\ Searching!count \in Nat
           /\ DOMAIN searched' = 0 .. Searching!count - 1
      /\ \A i \in 0 .. Searching!count - 1 : searched[i] \in Int
      /\ Searching!Ascending' /\ Searching!Ascending
      /\ Searching!Mid \in 0 .. Searching!count - 1 /\ low <= Searching!Mid /\ Searching!Mid < high
      /\ low \in Nat /\ high \in Nat /\ high <= Searching!count
      /\ key \in Int
      /\ DOMAIN searched = 0 .. Searching!count - 1
  BY <1>1, ArrayStays, MidInWindow DEF SearchIndInv, Searching!SearchInvariant, Searching!TypeOK
<1>3. /\ \A i \in 0 .. low - 1 : searched[i] < key
      /\ \A i \in high .. Searching!count - 1 : key < searched[i]
  BY <1>1 DEF SearchIndInv, Searching!SearchInvariant, Searching!WindowHoldsKey
<1> HIDE DEF Searching!count, Searching!Mid
<1>4. /\ \A i \in 0 .. Searching!Mid : searched[i] <= searched[Searching!Mid]
      /\ \A i \in Searching!Mid .. Searching!count - 1 : searched[Searching!Mid] <= searched[i]
  <2>1. \A i, j \in 0 .. Searching!count - 1 : i <= j => searched[i] <= searched[j]
    BY <1>2 DEF Searching!Ascending
  <2> QED
    BY <1>2, <2>1
<1>5. low' \in 0 .. Searching!count /\ high' \in 0 .. Searching!count /\ low' <= high'
  BY <1>2 DEF Searching!DiscardsLower, Searching!DiscardsUpper
<1>6. Searching!TypeOK'
  BY <1>1, <1>2, <1>5 DEF SearchIndInv, Searching!SearchInvariant, Searching!TypeOK
<1>7. Searching!WindowHoldsKey'
  <2>1. CASE Searching!DiscardsLower
    <3>1. low' = Searching!Mid + 1 /\ high' = high /\ key - searched[Searching!Mid] > 0
      BY <2>1 DEF Searching!DiscardsLower, Searching!Compare
    <3>2. searched[Searching!Mid] < key
      BY <1>2, <3>1
    <3>3. \A i \in 0 .. Searching!Mid : searched[i] < key
      BY <1>2, <1>4, <3>2
    <3> QED
      BY <1>1, <1>2, <1>3, <1>5, <3>1, <3>3 DEF Searching!WindowHoldsKey
  <2>2. CASE Searching!DiscardsUpper
    <3>1. high' = Searching!Mid /\ low' = low /\ key - searched[Searching!Mid] < 0
      BY <2>2 DEF Searching!DiscardsUpper, Searching!Compare
    <3>2. key < searched[Searching!Mid]
      BY <1>2, <3>1
    <3>3. \A i \in Searching!Mid .. Searching!count - 1 : key < searched[i]
      BY <1>2, <1>4, <3>2
    <3> QED
      BY <1>1, <1>2, <1>3, <1>5, <3>1, <3>3 DEF Searching!WindowHoldsKey
  <2> QED
    BY <2>1, <2>2
<1> QED
  BY <1>1, <1>2, <1>6, <1>7 DEF SearchIndInv, Searching!SearchInvariant, Searching!Answers,
     Searching!Running

LEMMA HitsKeepsInv ==
  ASSUME SearchIndInv, Searching!Hits
  PROVE  SearchIndInv'
<1>1. /\ probe = "binary" /\ probe' = "idle" /\ UNCHANGED <<searched, key, search>>
      /\ found' = TRUE /\ out_index' = Searching!Mid /\ low' = 0 /\ high' = 0
      /\ key - searched[Searching!Mid] = 0 /\ search = "binary"
  BY DEF Searching!Hits, Searching!Return, Searching!Compare, SearchIndInv, Searching!Running
<1>2. /\ Searching!count' = Searching!count /\ Searching!count \in Nat
           /\ DOMAIN searched' = 0 .. Searching!count - 1
      /\ \A i \in 0 .. Searching!count - 1 : searched'[i] = searched[i] /\ searched'[i] \in Keys
      /\ Searching!Mid \in 0 .. Searching!count - 1 /\ searched[Searching!Mid] \in Int /\ key \in Int
           /\ key \in Keys
  BY <1>1, ArrayStays, MidInWindow DEF Searching!Hits
<1> HIDE DEF Searching!count, Searching!Mid
<1>3. searched'[Searching!Mid] = key'
  BY <1>1, <1>2
<1>4. Searching!TypeOK'
  BY <1>1, <1>2 DEF SearchIndInv, Searching!SearchInvariant, Searching!TypeOK
<1> QED
  BY <1>1, <1>2, <1>3, <1>4 DEF SearchIndInv, Searching!SearchInvariant, Searching!WindowHoldsKey,
     Searching!Answers, Searching!Running

LEMMA TestsKeepsInv ==
  ASSUME SearchIndInv, Searching!Tests
  PROVE  SearchIndInv'
<1>1. /\ probe = "linear" /\ low < Searching!count /\ UNCHANGED <<searched, key, search>>
           /\ search = "linear"
  BY DEF Searching!Tests, SearchIndInv, Searching!Running
<1>2. /\ Searching!count' = Searching!count /\ Searching!count \in Nat
           /\ DOMAIN searched' = 0 .. Searching!count - 1
      /\ \A i \in 0 .. Searching!count - 1 : searched'[i] = searched[i] /\ searched'[i] \in Keys
           /\ searched[i] \in Int
      /\ low \in 0 .. Searching!count - 1 /\ key \in Int /\ key \in Keys /\ high = Searching!count
      /\ \A i \in 0 .. low - 1 : searched[i] # key
      /\ DOMAIN searched = 0 .. Searching!count - 1
  BY <1>1, ArrayStays, ArraysAssumption DEF Searching!SearchAssumption, SearchIndInv,
     Searching!SearchInvariant, Searching!TypeOK, Searching!WindowHoldsKey
<1> HIDE DEF Searching!count
<1>3. CASE Searching!Compare(key, searched[low]) = 0
  <2>1. /\ searched'[low] = key' /\ probe' = "idle" /\ found' = TRUE /\ out_index' = low
        /\ low' = 0 /\ high' = 0
    BY <1>1, <1>2, <1>3 DEF Searching!Tests, Searching!Compare, Searching!Return
  <2>2. Searching!TypeOK'
    BY <1>1, <1>2, <2>1 DEF SearchIndInv, Searching!SearchInvariant, Searching!TypeOK
  <2>3. \A i \in 0 .. out_index' - 1 : searched'[i] # key'
    BY <1>1, <1>2, <2>1
  <2> QED
    BY <1>1, <1>2, <2>1, <2>2, <2>3 DEF SearchIndInv, Searching!SearchInvariant,
       Searching!WindowHoldsKey, Searching!Answers, Searching!Running
<1>4. CASE Searching!Compare(key, searched[low]) # 0
  <2>1. /\ searched[low] # key /\ low' = low + 1 /\ UNCHANGED <<high, out_index, probe, found>>
    BY <1>1, <1>2, <1>4 DEF Searching!Tests, Searching!Compare
  <2>2. Searching!TypeOK'
    BY <1>1, <1>2, <2>1 DEF SearchIndInv, Searching!SearchInvariant, Searching!TypeOK
  <2>3. \A i \in 0 .. low' - 1 : searched'[i] # key'
    BY <1>1, <1>2, <2>1
  <2> QED
    BY <1>1, <1>2, <2>1, <2>2, <2>3 DEF SearchIndInv, Searching!SearchInvariant,
       Searching!WindowHoldsKey, Searching!Answers, Searching!Running
<1> QED
  BY <1>3, <1>4

LEMMA MissesKeepsInv ==
  ASSUME SearchIndInv, Searching!Misses
  PROVE  SearchIndInv'
<1>1. /\ probe \in {"binary", "linear"} /\ low >= high /\ UNCHANGED <<searched, key, search>>
      /\ probe' = "idle" /\ found' = FALSE /\ out_index' = Searching!Untouched /\ low' = 0 /\ high' = 0
  BY DEF Searching!Misses, Searching!Return, SearchIndInv, Searching!SearchInvariant, Searching!TypeOK
<1>2. /\ Searching!count' = Searching!count /\ Searching!count \in Nat
           /\ DOMAIN searched' = 0 .. Searching!count - 1
      /\ \A i \in 0 .. Searching!count - 1 : searched'[i] = searched[i] /\ searched'[i] \in Keys
           /\ searched[i] \in Int
      /\ low \in 0 .. Searching!count /\ high \in 0 .. Searching!count /\ key \in Int /\ key \in Keys
      /\ Searching!WindowHoldsKey
  BY <1>1, ArrayStays, ArraysAssumption DEF Searching!SearchAssumption, SearchIndInv,
     Searching!SearchInvariant, Searching!TypeOK
<1> HIDE DEF Searching!count
<1>3. ASSUME NEW i \in 0 .. Searching!count - 1
      PROVE  searched'[i] # key'
  <2>1. CASE probe = "binary"
    <3>1. low = high /\ (i \in 0 .. low - 1 \/ i \in high .. Searching!count - 1)
      BY <1>1, <1>2, <2>1 DEF Searching!WindowHoldsKey
    <3>2. searched[i] < key \/ key < searched[i]
      BY <1>2, <2>1, <3>1 DEF Searching!WindowHoldsKey
    <3> QED
      BY <1>1, <1>2, <3>2
  <2>2. CASE probe = "linear"
    <3>1. i \in 0 .. low - 1
      BY <1>1, <1>2, <2>2 DEF Searching!WindowHoldsKey
    <3> QED
      BY <1>1, <1>2, <2>2, <3>1 DEF Searching!WindowHoldsKey
  <2> QED
    BY <1>1, <2>1, <2>2
<1>4. Searching!TypeOK'
  <2>1. 0 \in 0 .. Searching!count'
           /\ Searching!Untouched \in {Searching!Untouched} \cup 0 .. Searching!count' - 1
    BY <1>2
  <2> QED
    BY <1>1, <1>2, <2>1 DEF SearchIndInv, Searching!SearchInvariant, Searching!TypeOK
<1> QED
  BY <1>1, <1>2, <1>3, <1>4 DEF SearchIndInv, Searching!SearchInvariant, Searching!WindowHoldsKey,
     Searching!Answers, Searching!Running

LEMMA SearchesKeepInv ==
  ASSUME SearchIndInv, [Searching!Next]_(Searching!vars)
  PROVE  SearchIndInv'
<1>1. ASSUME NEW s \in {"binary", "linear"}, Searching!Refuse(s)
      PROVE  SearchIndInv'
  BY <1>1, RefuseKeepsInv
<1>2. ASSUME NEW s \in {"binary", "linear"}, NEW k \in Keys, Searching!SearchEmpty(s, k) \/ Searching!Begin(s, k)
      PROVE  SearchIndInv'
  BY <1>2, CallsKeepInv
<1>3. CASE Searching!DiscardsLower \/ Searching!DiscardsUpper
  BY <1>3, DiscardsKeepInv
<1>4. CASE Searching!Hits
  BY <1>4, HitsKeepsInv
<1>5. CASE Searching!Tests
  BY <1>5, TestsKeepsInv
<1>6. CASE Searching!Misses
  BY <1>6, MissesKeepsInv
<1>7. CASE UNCHANGED Searching!vars
  BY <1>7 DEF Searching!vars, SearchIndInv, Searching!SearchInvariant, Searching!TypeOK,
     Searching!WindowHoldsKey, Searching!Answers, Searching!Running, Searching!count, Searching!Ascending
<1> QED
  BY <1>1, <1>2, <1>3, <1>4, <1>5, <1>6, <1>7 DEF Searching!Next, Searching!Step

(* --------------------------- sorts that count ----------------------------- *)
(* How many of the first c numbers of d are below m.                       *)
Fewer(d, c, m) == Cardinality({i \in 0 .. c - 1 : d[i] < m})
Alike(d, c, m) == Cardinality({i \in 0 .. c - 1 : d[i] = m})

LEMMA PartIsFinite ==
  ASSUME NEW a \in Int, NEW b \in Int, NEW S, S \subseteq a .. b
  PROVE  IsFiniteSet(S) /\ Cardinality(S) \in Nat
<1>1. IsFiniteSet(a .. b)
  BY FS_Interval
<1> QED
  BY <1>1, FS_Subset, FS_CardinalityType

LEMMA TalliesAreNaturals ==
  ASSUME NEW c \in Nat, NEW d, NEW m
  PROVE  Fewer(d, c, m) \in 0 .. c /\ Alike(d, c, m) \in 0 .. c
<1>1. 0 \in Int /\ c - 1 \in Int
  OBVIOUS
<1>2. IsFiniteSet(0 .. c - 1) /\ Cardinality(0 .. c - 1) = c
  BY <1>1, FS_Interval
<1>3. {i \in 0 .. c - 1 : d[i] < m} \subseteq 0 .. c - 1
         /\ {i \in 0 .. c - 1 : d[i] = m} \subseteq 0 .. c - 1
  OBVIOUS
<1>4. Cardinality({i \in 0 .. c - 1 : d[i] < m}) <= c /\ Cardinality({i \in 0 .. c - 1 : d[i] = m}) <= c
  BY <1>2, <1>3, FS_Subset
<1>5. Cardinality({i \in 0 .. c - 1 : d[i] < m}) \in Nat
         /\ Cardinality({i \in 0 .. c - 1 : d[i] = m}) \in Nat
  BY <1>1, <1>3, PartIsFinite
<1> QED
  BY <1>4, <1>5 DEF Fewer, Alike

(* A block begins where the one before it ends. *)
LEMMA NextBlock ==
  ASSUME NEW c \in Nat, NEW d, NEW m \in Nat, \A i \in 0 .. c - 1 : d[i] \in Nat
  PROVE  Fewer(d, c, m + 1) = Fewer(d, c, m) + Alike(d, c, m)
<1> DEFINE A == {i \in 0 .. c - 1 : d[i] < m}
           B == {i \in 0 .. c - 1 : d[i] = m}
<1>1. {i \in 0 .. c - 1 : d[i] < m + 1} = A \cup B
  OBVIOUS
<1>2. A \cap B = {}
  OBVIOUS
<1>3. IsFiniteSet(A) /\ IsFiniteSet(B) /\ Cardinality(A) \in Nat /\ Cardinality(B) \in Nat
  <2>1. 0 \in Int /\ c - 1 \in Int /\ A \subseteq 0 .. c - 1 /\ B \subseteq 0 .. c - 1
    OBVIOUS
  <2> QED
    BY <2>1, PartIsFinite
<1>4. Cardinality(A \cup B) = Cardinality(A) + Cardinality(B)
  <2> HIDE DEF A, B
  <2>1. Cardinality(A \cup B) = Cardinality(A) + Cardinality(B) - Cardinality(A \cap B)
    BY <1>3, FS_Union
  <2> QED
    BY <2>1, <1>2, <1>3, FS_EmptySet
<1> QED
  BY <1>1, <1>4 DEF Fewer, Alike

LEMMA BlocksRise ==
  ASSUME NEW c \in Nat, NEW d, NEW m \in Nat, NEW l \in Nat, m <= l,
         \A i \in 0 .. c - 1 : d[i] \in Nat
  PROVE  Fewer(d, c, m) <= Fewer(d, c, l)
<1>1. {i \in 0 .. c - 1 : d[i] < m} \subseteq {i \in 0 .. c - 1 : d[i] < l}
  OBVIOUS
<1>2. 0 \in Int /\ c - 1 \in Int /\ {i \in 0 .. c - 1 : d[i] < l} \subseteq 0 .. c - 1
  OBVIOUS
<1>3. IsFiniteSet({i \in 0 .. c - 1 : d[i] < l})
  BY <1>2, PartIsFinite
<1> QED
  BY <1>1, <1>3, FS_Subset DEF Fewer

LEMMA BlocksEnd ==
  ASSUME NEW c \in Nat, NEW d, NEW m \in Nat, \A i \in 0 .. c - 1 : d[i] \in Nat /\ d[i] < m
  PROVE  Fewer(d, c, 0) = 0 /\ Fewer(d, c, m) = c
<1>1. {i \in 0 .. c - 1 : d[i] < 0} = {} /\ {i \in 0 .. c - 1 : d[i] < m} = 0 .. c - 1
  OBVIOUS
<1>2. 0 \in Int /\ c - 1 \in Int
  OBVIOUS
<1>3. Cardinality(0 .. c - 1) = c
  BY <1>2, FS_Interval
<1> QED
  BY <1>1, <1>3, FS_EmptySet DEF Fewer

LEMMA TallyOne ==
  ASSUME NEW l \in Nat, l > 0, NEW d, NEW m
  PROVE  Alike(d, l, m) = Alike(d, l - 1, m) + (IF d[l - 1] = m THEN 1 ELSE 0)
<1> DEFINE A == {i \in 0 .. (l - 1) - 1 : d[i] = m}
<1>1. IsFiniteSet(A) /\ Cardinality(A) \in Nat
  <2>1. 0 \in Int /\ (l - 1) - 1 \in Int /\ A \subseteq 0 .. (l - 1) - 1
    OBVIOUS
  <2> QED
    BY <2>1, PartIsFinite
<1>2. CASE d[l - 1] = m
  <2>1. {i \in 0 .. l - 1 : d[i] = m} = A \cup {l - 1} /\ l - 1 \notin A
    BY <1>2
  <2>2. Cardinality(A \cup {l - 1}) = Cardinality(A) + 1
    <3> HIDE DEF A
    <3> QED
      BY <1>1, <2>1, FS_AddElement
  <2> QED
    BY <1>2, <2>1, <2>2 DEF Alike
<1>3. CASE d[l - 1] # m
  <2>1. {i \in 0 .. l - 1 : d[i] = m} = A
    BY <1>3
  <2>2. Alike(d, l, m) = Cardinality(A) /\ Alike(d, l - 1, m) = Cardinality(A)
    BY <2>1 DEF Alike
  <2> HIDE DEF A
  <2> QED
    BY <1>1, <1>3, <2>2
<1> QED
  BY <1>2, <1>3

LEMMA TalliesShrink ==
  ASSUME NEW c \in Nat, NEW l \in 0 .. c, NEW d, NEW m
  PROVE  Alike(d, l, m) <= Alike(d, c, m) /\ Alike(d, 0, m) = 0
<1>1. {i \in 0 .. l - 1 : d[i] = m} \subseteq {i \in 0 .. c - 1 : d[i] = m}
         /\ {i \in 0 .. 0 - 1 : d[i] = m} = {}
  OBVIOUS
<1>2. 0 \in Int /\ c - 1 \in Int /\ {i \in 0 .. c - 1 : d[i] = m} \subseteq 0 .. c - 1
  OBVIOUS
<1>3. IsFiniteSet({i \in 0 .. c - 1 : d[i] = m})
  BY <1>2, PartIsFinite
<1> QED
  BY <1>1, <1>3, FS_Subset, FS_EmptySet DEF Alike

(* Every slot lies in the block of a number. *)
LEMMA SlotHasBlock ==
  ASSUME NEW c \in Nat, NEW d, NEW m \in Nat, \A i \in 0 .. c - 1 : d[i] \in Nat /\ d[i] < m,
         NEW s \in 0 .. c - 1
  PROVE  \E b \in 0 .. m - 1 : Fewer(d, c, b) <= s /\ s < Fewer(d, c, b + 1)
<1> DEFINE Above == {b \in Nat : s < Fewer(d, c, b)}
<1>1. Fewer(d, c, 0) = 0 /\ Fewer(d, c, m) = c
  BY BlocksEnd
<1>2. m \in Above /\ 0 \notin Above /\ Above \subseteq Nat
  BY <1>1
<1> HIDE DEF Above
<1>3. PICK b \in Above : \A a \in Above : b <= a
  BY <1>2, LeastExists
<1>4. b \in 1 .. m /\ b - 1 \in 0 .. m - 1 /\ b - 1 \in Nat /\ (b - 1) + 1 = b /\ ~(b <= b - 1)
  BY <1>2, <1>3
<1>5. b - 1 \notin Above
  BY <1>3, <1>4
<1>6. Fewer(d, c, b - 1) \in 0 .. c
  BY TalliesAreNaturals
<1>7. Fewer(d, c, b - 1) <= s
  BY <1>4, <1>5, <1>6 DEF Above
<1>8. s < Fewer(d, c, b)
  BY <1>3 DEF Above
<1> QED
  BY <1>4, <1>7, <1>8

(* ---------------------------------- bytes --------------------------------- *)
LEMMA Division ==
  ASSUME NEW v \in Nat, NEW w \in Nat, w > 0
  PROVE  /\ v \div w \in Nat /\ v % w \in 0 .. w - 1
         /\ v = w * (v \div w) + (v % w)
OBVIOUS

LEMMA OneDivision ==
  ASSUME NEW w \in Nat, w > 0, NEW q \in Nat, NEW r \in 0 .. w - 1,
         NEW q2 \in Nat, NEW r2 \in 0 .. w - 1, w * q + r = w * q2 + r2
  PROVE  r = r2
<1>1. CASE q < q2
  <2>1. q2 >= q + 1 /\ w * q2 >= w * (q + 1)
    BY <1>1
  <2>2. w * (q + 1) = w * q + w
    OBVIOUS
  <2> QED
    BY <2>1, <2>2
<1>2. CASE q2 < q
  <2>1. q >= q2 + 1 /\ w * q >= w * (q2 + 1)
    BY <1>2
  <2>2. w * (q2 + 1) = w * q2 + w
    OBVIOUS
  <2> QED
    BY <2>1, <2>2
<1> QED
  BY <1>1, <1>2

(* The low bytes with one more are that byte and the ones below it. *)
LEMMA OneMoreByte ==
  ASSUME NEW v \in Nat, NEW w \in Nat, w > 0, NEW r \in Nat, r > 0
  PROVE  v % (w * r) = w * ((v \div w) % r) + (v % w)
<1> DEFINE q == v \div w
           l == v % w
           h == q \div r
           b == q % r
<1>1. q \in Nat /\ l \in 0 .. w - 1 /\ v = w * q + l
  BY Division
<1>2. h \in Nat /\ b \in 0 .. r - 1 /\ q = r * h + b
  <2> HIDE DEF q
  <2> QED
    BY <1>1, Division
<1>3. w * r \in Nat /\ w * r > 0
  OBVIOUS
<1>4. v \div (w * r) \in Nat /\ v % (w * r) \in 0 .. w * r - 1
         /\ v = (w * r) * (v \div (w * r)) + (v % (w * r))
  <2> DEFINE m == w * r
  <2>1. m \in Nat /\ m > 0
    BY <1>3
  <2> HIDE DEF m
  <2>2. v \div m \in Nat /\ v % m \in 0 .. m - 1 /\ v = m * (v \div m) + (v % m)
    BY <2>1, Division
  <2> QED
    BY <2>2 DEF m
<1> HIDE DEF q, l, h, b
<1>5. w * b + l \in 0 .. w * r - 1
  <2>1. b + 1 <= r /\ w * (b + 1) <= w * r
    BY <1>2
  <2>2. w * (b + 1) = w * b + w /\ w * b \in Nat /\ w * r \in Nat
    BY <1>2
  <2> QED
    BY <1>1, <2>1, <2>2
<1>6. v = (w * r) * h + (w * b + l)
  <2>1. w * (r * h + b) = (w * r) * h + w * b
    BY <1>2
  <2> QED
    BY <1>1, <1>2, <2>1
<1>7. v % (w * r) = w * b + l
  <2> DEFINE m == w * r
             a == v \div (w * r)
             e == v % (w * r)
             f == w * b + l
  <2>1. m \in Nat /\ m > 0 /\ a \in Nat /\ e \in 0 .. m - 1 /\ f \in 0 .. m - 1 /\ m * a + e = m * h + f
    BY <1>3, <1>4, <1>5, <1>6
  <2> HIDE DEF m, a, e, f
  <2>2. e = f
    BY <2>1, <1>2, OneDivision
  <2> QED
    BY <2>2 DEF e, f
<1> QED
  BY <1>7 DEF b, l, q

(* Two keys whose next bytes differ are in the order of these bytes.       *)
LEMMA BytesDecide ==
  ASSUME NEW w \in Nat, NEW b \in Nat, NEW l \in 0 .. w - 1, NEW b2 \in Nat, NEW l2 \in 0 .. w - 1,
         b < b2 \/ (b = b2 /\ l <= l2)
  PROVE  w * b + l <= w * b2 + l2
<1>1. CASE b < b2
  <2>1. b + 1 <= b2 /\ w * (b + 1) <= w * b2 /\ w * (b + 1) = w * b + w
    BY <1>1
  <2> QED
    BY <2>1
<1>2. CASE b = b2 /\ l <= l2
  <2>1. w * b \in Nat /\ w * b = w * b2
    BY <1>2
  <2> QED
    BY <1>2, <2>1
<1> QED
  BY <1>1, <1>2

LEMMA Weights ==
  ASSUME Radix \in Nat, Radix > 1
  PROVE  /\ Distribution!Weight(0) = 1
         /\ \A p \in 0 .. Distribution!Passes : Distribution!Weight(p) \in Nat
              /\ Distribution!Weight(p) > 0
         /\ \A p \in 0 .. Distribution!Passes - 1 : Distribution!Weight(p + 1) = Distribution!Weight(p) * Radix
<1> DEFINE R2 == Radix * Radix
           R3 == R2 * Radix
           R4 == R3 * Radix
<1>1. R2 \in Nat /\ R2 > 0
  OBVIOUS
<1>2. R3 \in Nat /\ R3 > 0
  <2> HIDE DEF R2
  <2> QED
    BY <1>1
<1>3. R4 \in Nat /\ R4 > 0
  <2> HIDE DEF R3
  <2> QED
    BY <1>2
<1>4. Distribution!Weight(0) = 1 /\ Distribution!Weight(1) = Radix /\ Distribution!Weight(2) = R2
         /\ Distribution!Weight(3) = R3 /\ Distribution!Weight(4) = R4
  BY DEF Distribution!Weight
<1> HIDE DEF R2, R3, R4
<1>5. \A p \in 0 .. Distribution!Passes : Distribution!Weight(p) \in Nat /\ Distribution!Weight(p) > 0
  <2> SUFFICES ASSUME NEW p \in 0 .. Distribution!Passes PROVE Distribution!Weight(p) \in Nat
         /\ Distribution!Weight(p) > 0
    OBVIOUS
  <2>1. p = 0 \/ p = 1 \/ p = 2 \/ p = 3 \/ p = 4
    BY DEF Distribution!Passes
  <2> QED
    BY <2>1, <1>1, <1>2, <1>3, <1>4
<1>6. \A p \in 0 .. Distribution!Passes - 1 : Distribution!Weight(p + 1) = Distribution!Weight(p) * Radix
  <2> SUFFICES ASSUME NEW p \in 0 .. Distribution!Passes - 1 PROVE Distribution!Weight(p + 1) = Distribution!Weight(p) * Radix
    OBVIOUS
  <2>1. p = 0 \/ p = 1 \/ p = 2 \/ p = 3
    BY DEF Distribution!Passes
  <2>2. 0 + 1 = 1 /\ 1 + 1 = 2 /\ 2 + 1 = 3 /\ 3 + 1 = 4
    OBVIOUS
  <2>3. 1 * Radix = Radix /\ Radix * Radix = R2 /\ R2 * Radix = R3 /\ R3 * Radix = R4
    BY DEF R2, R3, R4
  <2> QED
    BY <2>1, <2>2, <2>3, <1>4
<1> QED
  BY <1>4, <1>5, <1>6

(* An instance has a copy of Cardinality of its own; the copies are equal. *)
LEMMA SameCardinality == \A S : Distribution!Cardinality(S) = Cardinality(S)
BY DEF Distribution!Cardinality, Cardinality

(* ------------------------------ the invariant ----------------------------- *)
Digits == [i \in DOMAIN keys |-> Distribution!Digit(keys[i])]

(* What a call leaves behind, and which sort has reached which point.      *)
Resting ==
  /\ Distribution!count \in Nat
  /\ out_items \in [DOMAIN out_items -> Values]
  /\ stage \notin {"place", "copy"} => counts = Distribution!Nothing /\ out_items = Distribution!Nothing
       /\ left = 0
  /\ Distribution!Running => Distribution!count > 0
  /\ method = "counting" => pass = 0 /\ stage # "next"
  /\ stage = "idle" => pass = 0
  /\ stage = "next" => pass >= 1
  /\ Distribution!Running /\ method = "radix" => limit = Radix

(* A written slot holds a key that has been placed and lies in the block   *)
(* of its number; and what is written is in order, keys of one byte in the *)
(* order the passes before have given them.                                *)
InBlock(s, b) == Distribution!Below(b) <= s /\ s < Distribution!Below(b + 1)

InOrder(a, b) ==
  Distribution!Digit(a) < Distribution!Digit(b) \/ (Distribution!Digit(a) = Distribution!Digit(b) /\ (method = "radix" => Distribution!LowPart(a, pass) <= Distribution!LowPart(b, pass)))

Placing ==
  stage \in {"place", "copy"} =>
    /\ stage = "place" <=> left > 0
    /\ counts \in [0 .. limit - 1 -> 0 .. Distribution!count]
    /\ \A i \in 0 .. Distribution!count - 1 : Distribution!Digit(keys[i]) < limit
    /\ \A s \in DOMAIN out_items :
         /\ \E k \in left .. Distribution!count - 1 : out_items[s] = keys[k]
         /\ InBlock(s, Distribution!Digit(out_items[s]))
    /\ \A s, t \in DOMAIN out_items : s < t => InOrder(out_items[s], out_items[t])

DistIndInv == Distribution!DistributionInvariant /\ Distribution!SortsOrLeaves /\ Resting /\ Placing

LEMMA DigitIsNatural ==
  ASSUME Distribution!DistributionAssumption, method = "radix" => pass \in 0 .. Distribution!Passes - 1, NEW v \in Nat
  PROVE  Distribution!Digit(v) \in Nat /\ (method = "radix" => Distribution!Digit(v) < Radix)
<1>1. CASE method # "radix"
  BY <1>1 DEF Distribution!Digit
<1>2. CASE method = "radix"
  <2>1. Radix \in Nat /\ Radix > 1 /\ Radix > 0
    BY DEF Distribution!DistributionAssumption
  <2>2. pass \in 0 .. Distribution!Passes
    BY <1>2 DEF Distribution!Passes
  <2>3. Distribution!Weight(pass) \in Nat /\ Distribution!Weight(pass) > 0
    BY <2>1, <2>2, Weights
  <2>4. v \div Distribution!Weight(pass) \in Nat
    BY <2>3, Division
  <2>5. (v \div Distribution!Weight(pass)) % Radix \in 0 .. Radix - 1
    <3> HIDE DEF Distribution!Weight
    <3> DEFINE q == v \div Distribution!Weight(pass)
    <3>1. q \in Nat
      BY <2>4
    <3> HIDE DEF q
    <3>2. q % Radix \in 0 .. Radix - 1
      BY <2>1, <3>1, Division
    <3> QED
      BY <3>2 DEF q
  <2> QED
    BY <1>2, <2>1, <2>5 DEF Distribution!Digit
<1> QED
  BY <1>1, <1>2

(* The array in terms of the tallies. *)
LEMMA Tallied ==
  ASSUME Distribution!DistributionAssumption, Distribution!TypeOK, Distribution!count \in Nat
  PROVE  /\ Distribution!count \in Nat /\ DOMAIN keys = 0 .. Distribution!count - 1
         /\ \A i \in 0 .. Distribution!count - 1 : /\ keys[i] \in Values /\ keys[i] \in Nat
                                      /\ Digits[i] = Distribution!Digit(keys[i]) /\ Digits[i] \in Nat
         /\ \A m : Distribution!Below(m) = Fewer(Digits, Distribution!count, m)
         /\ \A l \in 0 .. Distribution!count : \A m :
              Distribution!Cardinality({i \in 0 .. l - 1 : Distribution!Digit(keys[i]) = m}) = Alike(Digits, l, m)
<1>1. DOMAIN keys = 0 .. Distribution!count - 1
         /\ \A i \in 0 .. Distribution!count - 1 : keys[i] \in Values
  BY DEF Distribution!TypeOK
<1> HIDE DEF Distribution!count
<1>2. Values \subseteq Nat
  <2>1. Distribution!Weight(Distribution!Passes) \in Nat
    BY Weights DEF Distribution!DistributionAssumption, Distribution!Passes
  <2> QED
    BY <2>1 DEF Distribution!DistributionAssumption
<1>3. \A i \in 0 .. Distribution!count - 1 : keys[i] \in Nat /\ Digits[i] = Distribution!Digit(keys[i])
  BY <1>1, <1>2 DEF Digits
<1>4. ASSUME NEW i \in 0 .. Distribution!count - 1 PROVE Digits[i] \in Nat
  <2>1. pass \in 0 .. Distribution!Passes - 1 /\ keys[i] \in Nat
           /\ Digits[i] = Distribution!Digit(keys[i])
    BY <1>3 DEF Distribution!TypeOK
  <2> QED
    BY <2>1, DigitIsNatural
<1>5. ASSUME NEW m PROVE Distribution!Below(m) = Fewer(Digits, Distribution!count, m)
  <2>1. {i \in DOMAIN keys : Distribution!Digit(keys[i]) < m} = {i \in 0 .. Distribution!count - 1 : Digits[i] < m}
    BY <1>1, <1>3
  <2> QED
    BY <2>1, SameCardinality DEF Distribution!Below, Fewer
<1>6. ASSUME NEW l \in 0 .. Distribution!count, NEW m
      PROVE  Distribution!Cardinality({i \in 0 .. l - 1 : Distribution!Digit(keys[i]) = m}) = Alike(Digits, l, m)
  <2>1. 0 .. l - 1 \subseteq 0 .. Distribution!count - 1
    OBVIOUS
  <2>2. {i \in 0 .. l - 1 : Distribution!Digit(keys[i]) = m} = {i \in 0 .. l - 1 : Digits[i] = m}
    BY <1>3, <2>1
  <2> QED
    BY <2>2, SameCardinality DEF Alike
<1> QED
  BY <1>1, <1>3, <1>4, <1>5, <1>6

(* A pass brings keys that are in order by one more byte together.         *)
LEMMA PassOrders ==
  ASSUME Distribution!DistributionAssumption, method = "radix", pass \in 0 .. Distribution!Passes - 1,
         NEW a \in Nat, NEW b \in Nat, InOrder(a, b)
  PROVE  Distribution!LowPart(a, pass + 1) <= Distribution!LowPart(b, pass + 1)
<1>1. Radix \in Nat /\ Radix > 1 /\ Radix > 0
  BY DEF Distribution!DistributionAssumption
<1> DEFINE w == Distribution!Weight(pass)
<1>2. pass \in 0 .. Distribution!Passes /\ w \in Nat /\ w > 0
         /\ Distribution!Weight(pass + 1) = w * Radix
  BY <1>1, Weights DEF Distribution!Passes
<1>3. Distribution!Digit(a) = (a \div w) % Radix /\ Distribution!Digit(b) = (b \div w) % Radix
  BY DEF Distribution!Digit
<1>4. Distribution!LowPart(a, pass) = a % w /\ Distribution!LowPart(b, pass) = b % w
  BY DEF Distribution!LowPart
<1>5. Distribution!LowPart(a, pass + 1) = a % (w * Radix)
         /\ Distribution!LowPart(b, pass + 1) = b % (w * Radix)
  BY <1>2 DEF Distribution!LowPart
<1> HIDE DEF w
<1>6. Distribution!LowPart(a, pass + 1) = w * Distribution!Digit(a) + Distribution!LowPart(a, pass)
         /\ Distribution!LowPart(b, pass + 1) = w * Distribution!Digit(b) + Distribution!LowPart(b, pass)
  <2>1. a % (w * Radix) = w * ((a \div w) % Radix) + (a % w)
    BY <1>1, <1>2, OneMoreByte, Zenon
  <2>2. b % (w * Radix) = w * ((b \div w) % Radix) + (b % w)
    BY <1>1, <1>2, OneMoreByte, Zenon
  <2> QED
    BY <1>3, <1>4, <1>5, <2>1, <2>2
<1>7. Distribution!Digit(a) \in Nat /\ Distribution!Digit(b) \in Nat
  BY DigitIsNatural
<1>8. Distribution!LowPart(a, pass) \in 0 .. w - 1 /\ Distribution!LowPart(b, pass) \in 0 .. w - 1
  BY <1>2, <1>4, Division
<1>9. Distribution!Digit(a) < Distribution!Digit(b) \/ (Distribution!Digit(a) = Distribution!Digit(b) /\ Distribution!LowPart(a, pass) <= Distribution!LowPart(b, pass))
  BY DEF InOrder
<1> QED
  BY <1>2, <1>6, <1>7, <1>8, <1>9, BytesDecide

(* All bytes of a key are the key. *)
LEMMA WholeKey ==
  ASSUME Distribution!DistributionAssumption, NEW v \in Values
  PROVE  v \in Nat /\ Distribution!LowPart(v, Distribution!Passes) = v /\ Distribution!LowPart(v, 0) = 0
<1>1. Radix \in Nat /\ Radix > 1
  BY DEF Distribution!DistributionAssumption
<1>2. Distribution!Weight(0) = 1 /\ Distribution!Weight(Distribution!Passes) \in Nat
         /\ Distribution!Weight(Distribution!Passes) > 0
  BY <1>1, Weights DEF Distribution!Passes
<1>3. v \in 0 .. Distribution!Weight(Distribution!Passes) - 1
  BY DEF Distribution!DistributionAssumption
<1>4. v % 1 = 0
  BY <1>2, <1>3
<1>5. v % Distribution!Weight(Distribution!Passes) = v
  <2> DEFINE w == Distribution!Weight(Distribution!Passes)
  <2>1. w \in Nat /\ w > 0 /\ v \in 0 .. w - 1
    BY <1>2, <1>3
  <2> HIDE DEF w
  <2>2. v % w = v
    BY <2>1
  <2> QED
    BY <2>2 DEF w
<1> QED
  BY <1>2, <1>3, <1>4, <1>5 DEF Distribution!LowPart

(* ------------------------------ steps at rest ----------------------------- *)
LEMMA ArrayRests ==
  ASSUME Distribution!DistributionAssumption, DistIndInv, UNCHANGED keys, stage' \in {"idle", "tally", "next"},
         counts' = Distribution!Nothing, out_items' = Distribution!Nothing, left' = 0, given' \in {given, keys},
         method' \in {"counting", "radix"}, pass' \in 0 .. Distribution!Passes - 1, limit' \in Nat, done' \in BOOLEAN
  PROVE  /\ Distribution!TypeOK' /\ Distribution!KeysKept' /\ Distribution!SlotsOpen' /\ Placing'
         /\ Distribution!count' = Distribution!count /\ Distribution!count' \in Nat
              /\ Distribution!count \in Nat
         /\ out_items' \in [DOMAIN out_items' -> Values]
<1>1. Distribution!count' = Distribution!count /\ Distribution!count \in Nat
  BY DEF Distribution!count, DistIndInv, Resting
<1>2. DOMAIN Distribution!Nothing = {}
         /\ Distribution!Nothing \in [DOMAIN Distribution!Nothing -> Values]
  BY DEF Distribution!Nothing
<1>3. Distribution!TypeOK'
  <2>1. keys' \in [0 .. Distribution!count' - 1 -> Values]
           /\ given' \in [0 .. Distribution!count' - 1 -> Values]
    BY <1>1 DEF DistIndInv, Distribution!DistributionInvariant, Distribution!TypeOK
  <2>2. left' \in 0 .. Distribution!count'
    BY <1>1
  <2>3. DOMAIN out_items' \subseteq DOMAIN keys' /\ DOMAIN counts' = {}
    BY <1>2
  <2> QED
    BY <2>1, <2>2, <2>3 DEF Distribution!TypeOK
<1>4. Distribution!KeysKept'
  <2>1. stage' \notin {"place", "copy"}
    OBVIOUS
  <2>2. ASSUME NEW v \in Values
        PROVE  Distribution!Times(v, keys', DOMAIN keys') = Distribution!Times(v, given', DOMAIN given')
    <3>1. Distribution!Times(v, keys, DOMAIN keys) = Distribution!Times(v, given, DOMAIN given)
      BY DEF DistIndInv, Distribution!DistributionInvariant, Distribution!KeysKept
    <3> QED
      BY <3>1
  <2> QED
    BY <2>1, <2>2 DEF Distribution!KeysKept
<1>5. Distribution!SlotsOpen' /\ Placing'
  BY DEF Distribution!SlotsOpen, Placing
<1> QED
  BY <1>1, <1>2, <1>3, <1>4, <1>5

(* The keys in the order of no bytes are in any order. *)
LEMMA NoBytesOrder ==
  ASSUME Distribution!DistributionAssumption, Distribution!TypeOK
  PROVE  Distribution!OrderedBy(0, keys)
<1>1. \A i \in DOMAIN keys : keys[i] \in Values
  BY DEF Distribution!TypeOK
<1>2. \A i \in DOMAIN keys : Distribution!LowPart(keys[i], 0) = 0
  BY <1>1, WholeKey
<1> QED
  BY <1>2 DEF Distribution!OrderedBy

LEMMA InitIsDistIndInv ==
  ASSUME Distribution!DistributionAssumption, Distribution!Init
  PROVE  DistIndInv
<1>1. PICK c \in 0 .. MaxKeys : keys \in [0 .. c - 1 -> Values]
  BY DEF Distribution!Init
<1>2. c \in Nat /\ DOMAIN keys = 0 .. c - 1
  BY <1>1 DEF Distribution!DistributionAssumption
<1>3. Distribution!count = c
  BY <1>2, FS_Interval, SameCardinality DEF Distribution!count
<1>4. DOMAIN Distribution!Nothing = {}
         /\ Distribution!Nothing \in [DOMAIN Distribution!Nothing -> Values]
  BY DEF Distribution!Nothing
<1> HIDE DEF Distribution!count
<1>5. Distribution!TypeOK
  <2>1. Distribution!Passes - 1 \in Nat
    BY DEF Distribution!Passes
  <2>2. 0 \in 0 .. Distribution!Passes - 1 /\ 0 \in 0 .. Distribution!count
    BY <1>2, <1>3, <2>1
  <2> QED
    BY <1>1, <1>3, <1>4, <2>2 DEF Distribution!TypeOK, Distribution!Init
<1>6. Distribution!KeysKept /\ Distribution!NothingLeaks /\ Distribution!SlotsOpen
         /\ Distribution!LowBytesOrdered /\ Distribution!SortsOrLeaves /\ Placing
  BY DEF Distribution!Init, Distribution!KeysKept, Distribution!NothingLeaks, Distribution!SlotsOpen,
     Distribution!LowBytesOrdered, Distribution!SortsOrLeaves, Placing, Distribution!Running
<1>7. Resting
  BY <1>2, <1>3, <1>4 DEF Distribution!Init, Resting, Distribution!Running
<1> QED
  BY <1>5, <1>6, <1>7 DEF DistIndInv, Distribution!DistributionInvariant

LEMMA CountRefuseKeeps ==
  ASSUME Distribution!DistributionAssumption, DistIndInv, NEW s \in {"counting", "radix"}, Distribution!Refuse(s) \/ Distribution!SortFew(s)
  PROVE  DistIndInv'
<1>1. /\ UNCHANGED keys /\ given' = keys /\ method' = s /\ stage = "idle" /\ stage' = "idle"
      /\ counts' = Distribution!Nothing /\ out_items' = Distribution!Nothing /\ left' = 0 /\ pass' = 0
           /\ limit' = 0 /\ held' = 0
      /\ done' \in BOOLEAN
      /\ done' => Distribution!count = 0 \/ (s = "radix" /\ Distribution!count = 1)
  BY DEF Distribution!Refuse, Distribution!SortFew, Distribution!Return
<1>2. 0 \in 0 .. Distribution!Passes - 1
  BY DEF Distribution!Passes
<1>3. /\ Distribution!TypeOK' /\ Distribution!KeysKept' /\ Distribution!SlotsOpen' /\ Placing'
      /\ Distribution!count' = Distribution!count /\ Distribution!count' \in Nat
           /\ Distribution!count \in Nat
      /\ out_items' \in [DOMAIN out_items' -> Values]
  BY <1>1, <1>2, ArrayRests
<1>4. Distribution!NothingLeaks' /\ Distribution!LowBytesOrdered' /\ Resting'
  BY <1>1, <1>3 DEF Distribution!NothingLeaks, Distribution!LowBytesOrdered, Resting,
     Distribution!Running
<1>5. Distribution!SortsOrLeaves'
  <2>1. ASSUME done' PROVE Distribution!OrderedBy(Distribution!Passes, keys)
    <3>1. DOMAIN keys = 0 .. Distribution!count - 1
      BY DEF DistIndInv, Distribution!DistributionInvariant, Distribution!TypeOK
    <3>2. \A i, j \in DOMAIN keys : ~(i < j)
      <4> HIDE DEF Distribution!count
      <4> QED
        BY <1>1, <1>3, <2>1, <3>1
    <3> QED
      BY <3>2 DEF Distribution!OrderedBy
  <2>2. done' => Distribution!OrderedBy(Distribution!Passes, keys)'
    BY <1>1, <2>1 DEF Distribution!OrderedBy, Distribution!LowPart
  <2> QED
    BY <1>1, <2>2 DEF Distribution!SortsOrLeaves, Distribution!Running
<1> QED
  BY <1>3, <1>4, <1>5 DEF DistIndInv, Distribution!DistributionInvariant

LEMMA BeginsKeep ==
  ASSUME Distribution!DistributionAssumption, DistIndInv, Distribution!RadixBegins \/ \E n \in KeyLimits : Distribution!CountingBegins(n)
  PROVE  DistIndInv'
<1>1. /\ UNCHANGED <<keys, pass, counts, out_items, left, done>> /\ given' = keys
      /\ stage = "idle" /\ stage' = "tally" /\ held' = held + 1 /\ Distribution!count > 0
      /\ \/ method' = "radix" /\ limit' = Radix
         \/ method' = "counting" /\ limit' \in KeyLimits
  <2>1. Distribution!count \in Nat
    BY DEF DistIndInv, Resting
  <2> HIDE DEF Distribution!count
  <2> QED
    BY <2>1 DEF Distribution!RadixBegins, Distribution!CountingBegins
<1>2. /\ counts = Distribution!Nothing /\ out_items = Distribution!Nothing /\ left = 0 /\ pass = 0
           /\ held = 0 /\ done \in BOOLEAN
  BY <1>1 DEF DistIndInv, Distribution!DistributionInvariant, Resting, Distribution!NothingLeaks,
     Distribution!TypeOK
<1>3. limit' \in Nat /\ 0 \in 0 .. Distribution!Passes - 1
  <2>1. Radix \in Nat /\ \A n \in KeyLimits : n \in Nat
    BY DEF Distribution!DistributionAssumption
  <2>2. limit' = Radix \/ limit' \in KeyLimits
    BY <1>1
  <2>3. limit' \in Nat
    BY <2>1, <2>2
  <2> QED
    BY <2>3 DEF Distribution!Passes
<1>4. /\ Distribution!TypeOK' /\ Distribution!KeysKept' /\ Distribution!SlotsOpen' /\ Placing'
      /\ Distribution!count' = Distribution!count /\ Distribution!count' \in Nat
           /\ Distribution!count \in Nat
      /\ out_items' \in [DOMAIN out_items' -> Values]
  BY <1>1, <1>2, <1>3, ArrayRests
<1>5. Distribution!NothingLeaks' /\ Resting'
  <2> HIDE DEF Distribution!count
  <2> QED
    BY <1>1, <1>2, <1>4 DEF Distribution!NothingLeaks, Resting, Distribution!Running
<1>6. Distribution!LowBytesOrdered'
  <2>1. Distribution!OrderedBy(0, keys)
    BY NoBytesOrder DEF DistIndInv, Distribution!DistributionInvariant
  <2> QED
    BY <1>1, <1>2, <2>1 DEF Distribution!LowBytesOrdered, Distribution!OrderedBy, Distribution!LowPart
<1>7. Distribution!SortsOrLeaves'
  BY <1>1 DEF Distribution!SortsOrLeaves, Distribution!Running
<1> QED
  BY <1>4, <1>5, <1>6, <1>7 DEF DistIndInv, Distribution!DistributionInvariant

(* A call that fails before or between its passes. *)
LEMMA GivingUpKeeps ==
  ASSUME Distribution!DistributionAssumption, DistIndInv, Distribution!TallyFails \/ (Distribution!NextPass /\ stage' = "idle")
  PROVE  DistIndInv'
<1>1. /\ UNCHANGED <<keys, given, method>> /\ stage \in {"tally", "next"} /\ stage' = "idle"
      /\ counts' = Distribution!Nothing /\ out_items' = Distribution!Nothing /\ left' = 0 /\ pass' = 0
           /\ limit' = 0 /\ held' = 0
      /\ done' = FALSE
  BY DEF Distribution!TallyFails, Distribution!NextPass, Distribution!Return
<1>2. 0 \in 0 .. Distribution!Passes - 1 /\ method \in {"counting", "radix"}
  BY DEF Distribution!Passes, DistIndInv, Distribution!DistributionInvariant, Distribution!TypeOK
<1>3. /\ Distribution!TypeOK' /\ Distribution!KeysKept' /\ Distribution!SlotsOpen' /\ Placing'
      /\ Distribution!count' = Distribution!count /\ Distribution!count' \in Nat
           /\ Distribution!count \in Nat
      /\ out_items' \in [DOMAIN out_items' -> Values]
  BY <1>1, <1>2, ArrayRests
<1>4. Distribution!NothingLeaks' /\ Distribution!LowBytesOrdered' /\ Resting'
  BY <1>1, <1>3 DEF Distribution!NothingLeaks, Distribution!LowBytesOrdered, Resting,
     Distribution!Running
<1>5. Distribution!SortsOrLeaves'
  BY <1>1 DEF Distribution!SortsOrLeaves, Distribution!Running, DistIndInv
<1> QED
  BY <1>3, <1>4, <1>5 DEF DistIndInv, Distribution!DistributionInvariant

LEMMA NextPassKeeps ==
  ASSUME Distribution!DistributionAssumption, DistIndInv, Distribution!NextPass, stage' # "idle"
  PROVE  DistIndInv'
<1>1. /\ UNCHANGED <<keys, given, method, limit, pass, counts, out_items, left, done>>
      /\ stage = "next" /\ stage' = "tally" /\ held' = held + 1
  BY DEF Distribution!NextPass, Distribution!Return
<1>2. /\ counts = Distribution!Nothing /\ out_items = Distribution!Nothing /\ left = 0 /\ held = 0
           /\ done \in BOOLEAN
      /\ limit \in Nat /\ pass \in 0 .. Distribution!Passes - 1 /\ method \in {"counting", "radix"}
  BY <1>1 DEF DistIndInv, Distribution!DistributionInvariant, Resting, Distribution!NothingLeaks,
     Distribution!TypeOK
<1>3. /\ Distribution!TypeOK' /\ Distribution!KeysKept' /\ Distribution!SlotsOpen' /\ Placing'
      /\ Distribution!count' = Distribution!count /\ Distribution!count' \in Nat
           /\ Distribution!count \in Nat
      /\ out_items' \in [DOMAIN out_items' -> Values]
  BY <1>1, <1>2, ArrayRests
<1>4. Distribution!NothingLeaks' /\ Resting'
  <2> HIDE DEF Distribution!count
  <2> QED
    BY <1>1, <1>2, <1>3 DEF Distribution!NothingLeaks, Resting, Distribution!Running, DistIndInv
<1>5. Distribution!LowBytesOrdered'
  BY <1>1 DEF Distribution!LowBytesOrdered, Distribution!OrderedBy, Distribution!LowPart,
     Distribution!Running, DistIndInv, Distribution!DistributionInvariant
<1>6. Distribution!SortsOrLeaves'
  BY <1>1 DEF Distribution!SortsOrLeaves, Distribution!Running, DistIndInv
<1> QED
  BY <1>3, <1>4, <1>5, <1>6 DEF DistIndInv, Distribution!DistributionInvariant

(* -------------------------------- one pass -------------------------------- *)
LEMMA TallyTotalsKeeps ==
  ASSUME Distribution!DistributionAssumption, DistIndInv, Distribution!TallyTotals
  PROVE  DistIndInv'
<1>1. /\ UNCHANGED <<keys, given, method, limit, pass, out_items, done>>
      /\ stage = "tally" /\ stage' = "place" /\ held' = held + 1 /\ left' = Distribution!count
      /\ counts' = [m \in 0 .. limit - 1 |-> Distribution!Below(m + 1)]
      /\ \A i \in DOMAIN keys : ~(Distribution!Digit(keys[i]) >= limit)
  BY DEF Distribution!TallyTotals, Distribution!OutOfRange, Distribution!EndsOfBlocks
<1>2. /\ out_items = Distribution!Nothing /\ Distribution!count > 0 /\ held = 1 /\ limit \in Nat
           /\ Distribution!count \in Nat
  BY <1>1 DEF DistIndInv, Distribution!DistributionInvariant, Resting, Distribution!NothingLeaks,
     Distribution!TypeOK, Distribution!Running
<1>3. /\ Distribution!TypeOK /\ Distribution!KeysKept /\ Distribution!LowBytesOrdered
           /\ Distribution!SortsOrLeaves /\ Resting
  BY DEF DistIndInv, Distribution!DistributionInvariant
<1>4. Distribution!count' = Distribution!count
  BY <1>1 DEF Distribution!count
<1>5. DOMAIN out_items = {}
  BY <1>2 DEF Distribution!Nothing
<1>6. /\ DOMAIN keys = 0 .. Distribution!count - 1
      /\ \A i \in 0 .. Distribution!count - 1 : /\ keys[i] \in Values /\ keys[i] \in Nat
                                   /\ Digits[i] = Distribution!Digit(keys[i]) /\ Digits[i] \in Nat
      /\ \A m : Distribution!Below(m) = Fewer(Digits, Distribution!count, m)
      /\ \A l \in 0 .. Distribution!count : \A m :
           Distribution!Cardinality({i \in 0 .. l - 1 : Distribution!Digit(keys[i]) = m}) = Alike(Digits, l, m)
  BY <1>2, <1>3, Tallied
<1>7. (\A v : Distribution!Digit(v)' = Distribution!Digit(v))
         /\ (\A m : Distribution!Below(m)' = Distribution!Below(m))
  BY <1>1 DEF Distribution!Digit, Distribution!Below
<1> HIDE DEF Distribution!count
<1>8. ASSUME NEW m \in 0 .. limit - 1
      PROVE  /\ counts'[m] = Distribution!Below(m + 1)
                  /\ Distribution!Below(m + 1) \in 0 .. Distribution!count
             /\ Distribution!Below(m + 1) = Distribution!Below(m) + Distribution!Cardinality({i \in 0 .. Distribution!count - 1 : Distribution!Digit(keys[i]) = m})
  <2>1. counts'[m] = Distribution!Below(m + 1)
    BY <1>1
  <2>2. m \in Nat /\ \A i \in 0 .. Distribution!count - 1 : Digits[i] \in Nat
    BY <1>2, <1>6
  <2>3. Fewer(Digits, Distribution!count, m + 1) = Fewer(Digits, Distribution!count, m) + Alike(Digits, Distribution!count, m)
    BY <1>2, <2>2, NextBlock
  <2>4. Fewer(Digits, Distribution!count, m + 1) \in 0 .. Distribution!count
    BY <1>2, TalliesAreNaturals
  <2>5. Distribution!count \in 0 .. Distribution!count
    BY <1>2
  <2> QED
    BY <1>6, <2>1, <2>3, <2>4, <2>5
<1>9. counts' \in [0 .. limit - 1 -> 0 .. Distribution!count]
  BY <1>1, <1>8
<1>10. Distribution!TypeOK'
  <2>1. /\ DOMAIN counts' = 0 .. limit - 1
             /\ \A m \in DOMAIN counts' : counts'[m] \in 0 .. Distribution!count
        /\ 0 .. limit - 1 \subseteq Nat /\ Distribution!count \in 0 .. Distribution!count
    BY <1>2, <1>9
  <2> QED
    BY <1>1, <1>3, <1>4, <2>1 DEF Distribution!TypeOK
<1>11. Distribution!KeysKept'
  <2>1. ASSUME NEW v \in Values
        PROVE  /\ Distribution!Times(v, keys, DOMAIN keys) = Distribution!Times(v, given, DOMAIN given)
               /\ Distribution!Times(v, out_items, DOMAIN out_items) = Distribution!Times(v, keys, left' .. Distribution!count - 1)
    <3>1. {i \in {} : out_items[i] = v} = {}
             /\ {i \in Distribution!count .. Distribution!count - 1 : keys[i] = v} = {}
      BY <1>2
    <3>2. Distribution!Times(v, out_items, DOMAIN out_items) = Distribution!Times(v, keys, left' .. Distribution!count - 1)
      BY <1>1, <1>5, <3>1 DEF Distribution!Times
    <3> QED
      BY <1>3, <3>2 DEF Distribution!KeysKept
  <2> QED
    BY <1>1, <1>4, <2>1 DEF Distribution!KeysKept
<1>12. Distribution!SlotsOpen'
  <2>1. ASSUME NEW m \in 0 .. limit - 1
        PROVE  /\ counts'[m] = Distribution!Below(m) + Distribution!Cardinality({i \in 0 .. left' - 1 : Distribution!Digit(keys[i]) = m})
               /\ \A s \in Distribution!Below(m) .. Distribution!Below(m + 1) - 1 : s \in DOMAIN out_items <=> s >= counts'[m]
    BY <1>1, <1>5, <1>8
  <2>2. ASSUME NEW m \in 0 .. limit' - 1
        PROVE  /\ counts'[m] = Distribution!Below(m)' + Distribution!Cardinality({i \in 0 .. left' - 1 : Distribution!Digit(keys[i])' = m})
               /\ \A s \in Distribution!Below(m)' .. Distribution!Below(m + 1)' - 1 : s \in DOMAIN out_items' <=> s >= counts'[m]
    BY <1>1, <1>7, <2>1
  <2> QED
    BY <1>1, <2>2 DEF Distribution!SlotsOpen
<1>13. Distribution!LowBytesOrdered' /\ Distribution!SortsOrLeaves'
  <2>1. Distribution!OrderedBy(pass + 1, out_items)
    BY <1>5 DEF Distribution!OrderedBy
  <2> QED
    BY <1>1, <1>3, <2>1 DEF Distribution!LowBytesOrdered, Distribution!SortsOrLeaves,
       Distribution!OrderedBy, Distribution!LowPart, Distribution!Running
<1>14. Distribution!NothingLeaks'
  BY <1>1, <1>2 DEF Distribution!NothingLeaks
<1>15. Resting'
  BY <1>1, <1>2, <1>3, <1>4 DEF Resting, Distribution!Running
<1>16. Placing'
  <2>1. ASSUME NEW i \in 0 .. Distribution!count - 1 PROVE Distribution!Digit(keys[i]) < limit
    <3>1. Distribution!Digit(keys[i]) \in Nat /\ ~(Distribution!Digit(keys[i]) >= limit)
      BY <1>1, <1>6
    <3> QED
      BY <1>2, <3>1
  <2> QED
    BY <1>1, <1>2, <1>4, <1>5, <1>7, <1>9, <2>1 DEF Placing
<1> QED
  BY <1>10, <1>11, <1>12, <1>13, <1>14, <1>15, <1>16 DEF DistIndInv, Distribution!DistributionInvariant

(* Where the last key not placed goes: to a slot of the block of its       *)
(* number that is open.                                                    *)
LEMMA LastKey ==
  ASSUME Distribution!DistributionAssumption, DistIndInv, stage = "place",
         NEW v, v = keys[left - 1], NEW slot, slot = counts[Distribution!Digit(v)] - 1
  PROVE  /\ left \in 1 .. Distribution!count /\ left - 1 \in 0 .. Distribution!count - 1
              /\ Distribution!count \in Nat
         /\ v \in Values /\ v \in Nat /\ Distribution!Digit(v) \in 0 .. limit - 1
         /\ counts \in [0 .. limit - 1 -> 0 .. Distribution!count]
         /\ InBlock(slot, Distribution!Digit(v)) /\ slot \in 0 .. Distribution!count - 1
              /\ slot \notin DOMAIN out_items
         /\ \A a \in 0 .. limit - 1 : Distribution!Below(a) \in 0 .. Distribution!count
              /\ Distribution!Below(a + 1) \in 0 .. Distribution!count
         /\ \A a, b \in 0 .. limit - 1 : a < b => Distribution!Below(a + 1) <= Distribution!Below(b)
         /\ \A m \in 0 .. limit - 1 :
              Distribution!Cardinality({i \in 0 .. left - 1 : Distribution!Digit(keys[i]) = m})
                = Distribution!Cardinality({i \in 0 .. (left - 1) - 1 : Distribution!Digit(keys[i]) = m}) + (IF m = Distribution!Digit(v) THEN 1 ELSE 0)
<1>1. Distribution!TypeOK /\ Distribution!SlotsOpen /\ Distribution!count \in Nat /\ limit \in Nat
         /\ left \in 0 .. Distribution!count
  BY DEF DistIndInv, Distribution!DistributionInvariant, Resting, Distribution!TypeOK
<1>2. /\ left > 0 /\ counts \in [0 .. limit - 1 -> 0 .. Distribution!count]
      /\ \A i \in 0 .. Distribution!count - 1 : Distribution!Digit(keys[i]) < limit
  BY DEF DistIndInv, Placing
<1>3. /\ DOMAIN keys = 0 .. Distribution!count - 1
      /\ \A i \in 0 .. Distribution!count - 1 : /\ keys[i] \in Values /\ keys[i] \in Nat
                                   /\ Digits[i] = Distribution!Digit(keys[i]) /\ Digits[i] \in Nat
      /\ \A m : Distribution!Below(m) = Fewer(Digits, Distribution!count, m)
      /\ \A l \in 0 .. Distribution!count : \A m :
           Distribution!Cardinality({i \in 0 .. l - 1 : Distribution!Digit(keys[i]) = m}) = Alike(Digits, l, m)
  BY <1>1, Tallied
<1> HIDE DEF Distribution!count
<1>4. left \in 1 .. Distribution!count /\ left - 1 \in 0 .. Distribution!count - 1
         /\ left - 1 \in 0 .. Distribution!count /\ left \in Nat
  BY <1>1, <1>2
<1>5. v \in Values /\ v \in Nat /\ Digits[left - 1] = Distribution!Digit(v)
         /\ Distribution!Digit(v) \in 0 .. limit - 1
  <2>1. v \in Values /\ v \in Nat /\ Digits[left - 1] = Distribution!Digit(v)
           /\ Distribution!Digit(v) \in Nat
    BY <1>3, <1>4
  <2>2. Distribution!Digit(v) < limit
    BY <1>2, <1>4
  <2> QED
    BY <1>1, <2>1, <2>2
<1>6. ASSUME NEW m \in 0 .. limit - 1
      PROVE  Alike(Digits, left, m) = Alike(Digits, left - 1, m) + (IF m = Distribution!Digit(v) THEN 1 ELSE 0)
  <2>1. Alike(Digits, left, m) = Alike(Digits, left - 1, m) + (IF Digits[left - 1] = m THEN 1 ELSE 0)
    BY <1>2, <1>4, TallyOne
  <2> QED
    BY <1>5, <2>1
<1>7. \A a \in Nat : Fewer(Digits, Distribution!count, a) \in 0 .. Distribution!count
  BY <1>1, TalliesAreNaturals
<1>8. ASSUME NEW a \in 0 .. limit - 1, NEW b \in 0 .. limit - 1, a < b
      PROVE  Fewer(Digits, Distribution!count, a + 1) <= Fewer(Digits, Distribution!count, b)
  <2>1. a + 1 \in Nat /\ b \in Nat /\ a + 1 <= b
    BY <1>1, <1>8
  <2> QED
    BY <1>1, <1>3, <2>1, BlocksRise
<1> DEFINE d == Distribution!Digit(v)
<1>9. /\ counts[d] = Distribution!Below(d) + Alike(Digits, left, d)
      /\ \A s \in Distribution!Below(d) .. Distribution!Below(d + 1) - 1 : s \in DOMAIN out_items <=> s >= counts[d]
  BY <1>1, <1>3, <1>4, <1>5 DEF Distribution!SlotsOpen
<1> HIDE DEF d
<1>10. d \in 0 .. limit - 1 /\ d \in Nat /\ slot = counts[d] - 1
  BY <1>5 DEF d
<1>11. Distribution!Below(d + 1) = Distribution!Below(d) + Alike(Digits, Distribution!count, d)
  BY <1>1, <1>3, <1>10, NextBlock
<1>12. Alike(Digits, left, d) <= Alike(Digits, Distribution!count, d)
          /\ Alike(Digits, left - 1, d) \in 0 .. left - 1
       /\ Alike(Digits, left, d) = Alike(Digits, left - 1, d) + 1
  <2>1. left - 1 \in Nat
    BY <1>4
  <2> QED
    BY <1>1, <1>6, <1>10, <2>1, TalliesShrink, TalliesAreNaturals DEF d
<1>13. Distribution!Below(d) \in 0 .. Distribution!count
          /\ Distribution!Below(d + 1) \in 0 .. Distribution!count
               /\ Alike(Digits, Distribution!count, d) \in Nat
  <2>1. d + 1 \in Nat
    BY <1>10
  <2>2. Alike(Digits, Distribution!count, d) \in 0 .. Distribution!count
    BY <1>1, TalliesAreNaturals
  <2>3. Distribution!Below(d) = Fewer(Digits, Distribution!count, d)
           /\ Distribution!Below(d + 1) = Fewer(Digits, Distribution!count, d + 1)
    BY <1>3
  <2>4. Fewer(Digits, Distribution!count, d) \in 0 .. Distribution!count
           /\ Fewer(Digits, Distribution!count, d + 1) \in 0 .. Distribution!count
    BY <1>7, <1>10, <2>1
  <2> QED
    BY <1>1, <2>2, <2>3, <2>4
<1>14. InBlock(slot, d) /\ slot \in 0 .. Distribution!count - 1
          /\ slot \in Distribution!Below(d) .. Distribution!Below(d + 1) - 1 /\ ~(slot >= counts[d])
  <2>1. slot = Distribution!Below(d) + Alike(Digits, left - 1, d) /\ slot < Distribution!Below(d + 1)
           /\ Distribution!Below(d) <= slot
    BY <1>1, <1>4, <1>9, <1>10, <1>11, <1>12, <1>13
  <2>2. slot \in Int /\ counts[d] = slot + 1
    <3>1. counts[d] \in 0 .. Distribution!count
      BY <1>2, <1>10
    <3> QED
      BY <1>1, <1>10, <3>1
  <2> QED
    BY <1>1, <1>13, <2>1, <2>2 DEF InBlock
<1>15. slot \notin DOMAIN out_items
  BY <1>9, <1>14
<1>16. \A a \in 0 .. limit - 1 : Distribution!Below(a) \in 0 .. Distribution!count
          /\ Distribution!Below(a + 1) \in 0 .. Distribution!count
  <2> SUFFICES ASSUME NEW a \in 0 .. limit - 1 PROVE Distribution!Below(a) \in 0 .. Distribution!count
         /\ Distribution!Below(a + 1) \in 0 .. Distribution!count
    OBVIOUS
  <2>1. a \in Nat /\ a + 1 \in Nat
    BY <1>1
  <2> QED
    BY <1>3, <1>7, <2>1
<1>17. \A a, b \in 0 .. limit - 1 : a < b => Distribution!Below(a + 1) <= Distribution!Below(b)
  BY <1>3, <1>8
<1>18. ASSUME NEW m \in 0 .. limit - 1
       PROVE  Distribution!Cardinality({i \in 0 .. left - 1 : Distribution!Digit(keys[i]) = m})
                = Distribution!Cardinality({i \in 0 .. (left - 1) - 1 : Distribution!Digit(keys[i]) = m}) + (IF m = Distribution!Digit(v) THEN 1 ELSE 0)
  <2>1. left \in 0 .. Distribution!count /\ left - 1 \in 0 .. Distribution!count
    BY <1>1, <1>4
  <2>2. /\ Distribution!Cardinality({i \in 0 .. left - 1 : Distribution!Digit(keys[i]) = m}) = Alike(Digits, left, m)
        /\ Distribution!Cardinality({i \in 0 .. (left - 1) - 1 : Distribution!Digit(keys[i]) = m}) = Alike(Digits, left - 1, m)
    BY <1>3, <2>1
  <2> QED
    BY <1>6, <2>2
<1> QED
  BY <1>1, <1>2, <1>4, <1>5, <1>14, <1>15, <1>16, <1>17, <1>18 DEF d

LEMMA PlaceKeeps ==
  ASSUME Distribution!DistributionAssumption, DistIndInv, Distribution!Place
  PROVE  DistIndInv'
<1> DEFINE v == keys[left - 1]
           d == Distribution!Digit(v)
           slot == counts[d] - 1
           from == left - 1
<1>1. /\ UNCHANGED <<keys, given, method, limit, pass, held, done>>
      /\ stage = "place" /\ left' = from
      /\ stage' = IF left = 1 THEN "copy" ELSE "place"
      /\ counts' = [counts EXCEPT ![d] = slot] /\ out_items' = Distribution!Written(slot, v)
  BY DEF Distribution!Place
<1>2. /\ Distribution!TypeOK /\ Distribution!KeysKept /\ Distribution!SlotsOpen
           /\ Distribution!LowBytesOrdered /\ Distribution!SortsOrLeaves /\ Resting /\ Placing
                /\ Distribution!NothingLeaks
  BY DEF DistIndInv, Distribution!DistributionInvariant
<1>3. /\ left \in 1 .. Distribution!count /\ from \in 0 .. Distribution!count - 1
           /\ Distribution!count \in Nat
      /\ v \in Values /\ v \in Nat /\ d \in 0 .. limit - 1
      /\ counts \in [0 .. limit - 1 -> 0 .. Distribution!count]
      /\ InBlock(slot, d) /\ slot \in 0 .. Distribution!count - 1 /\ slot \notin DOMAIN out_items
      /\ \A a \in 0 .. limit - 1 : Distribution!Below(a) \in 0 .. Distribution!count
           /\ Distribution!Below(a + 1) \in 0 .. Distribution!count
      /\ \A a, b \in 0 .. limit - 1 : a < b => Distribution!Below(a + 1) <= Distribution!Below(b)
      /\ \A m \in 0 .. limit - 1 :
           Distribution!Cardinality({i \in 0 .. left - 1 : Distribution!Digit(keys[i]) = m})
             = Distribution!Cardinality({i \in 0 .. from - 1 : Distribution!Digit(keys[i]) = m}) + (IF m = d THEN 1 ELSE 0)
  <2> HIDE DEF Distribution!count, DistIndInv
  <2> QED
    BY <1>1, LastKey
<1>4. /\ Distribution!count' = Distribution!count
           /\ (\A x : Distribution!Digit(x)' = Distribution!Digit(x))
                /\ (\A m : Distribution!Below(m)' = Distribution!Below(m))
      /\ (\A s, b : InBlock(s, b)' = InBlock(s, b)) /\ (\A a, b : InOrder(a, b)' = InOrder(a, b))
  BY <1>1 DEF Distribution!count, Distribution!Digit, Distribution!Below, InBlock, InOrder,
     Distribution!LowPart
<1>5. /\ DOMAIN keys = 0 .. Distribution!count - 1 /\ limit \in Nat
           /\ pass \in 0 .. Distribution!Passes - 1
      /\ \A i \in 0 .. Distribution!count - 1 : keys[i] \in Values
  BY <1>2 DEF Distribution!TypeOK
<1>6. /\ \A i \in 0 .. Distribution!count - 1 : Distribution!Digit(keys[i]) < limit
      /\ \A s \in DOMAIN out_items :
           /\ \E k \in left .. Distribution!count - 1 : out_items[s] = keys[k]
           /\ InBlock(s, Distribution!Digit(out_items[s]))
      /\ \A s, t \in DOMAIN out_items : s < t => InOrder(out_items[s], out_items[t])
      /\ DOMAIN out_items \subseteq 0 .. Distribution!count - 1
  BY <1>1, <1>2, <1>5 DEF Placing, Distribution!TypeOK
<1> HIDE DEF Distribution!count
<1>7. /\ DOMAIN out_items' = DOMAIN out_items \cup {slot}
      /\ out_items'[slot] = v
      /\ \A s \in DOMAIN out_items : out_items'[s] = out_items[s]
  BY <1>1, <1>3 DEF Distribution!Written
<1>8. /\ counts'[d] = slot
      /\ \A m \in 0 .. limit - 1 : m # d => counts'[m] = counts[m]
      /\ counts' \in [0 .. limit - 1 -> 0 .. Distribution!count]
  <2>1. slot \in 0 .. Distribution!count
    BY <1>3
  <2> HIDE DEF slot, d
  <2> QED
    BY <1>1, <1>3, <2>1
<1>9. out_items' \in [DOMAIN out_items' -> Values]
         /\ \A s \in DOMAIN out_items' : out_items'[s] \in Values
  <2>1. \A s \in DOMAIN out_items : out_items[s] \in Values
    BY <1>2 DEF Resting
  <2>2. \A s \in DOMAIN out_items' : out_items'[s] \in Values
    BY <1>3, <1>7, <2>1
  <2>3. out_items' = [s \in DOMAIN out_items' |-> out_items'[s]]
    BY <1>1 DEF Distribution!Written
  <2> QED
    BY <2>2, <2>3
<1> HIDE DEF v, d, slot, from
<1>10. from = left - 1 /\ left \in Nat /\ from \in Nat /\ slot = counts[d] - 1 /\ v = keys[from]
          /\ d = Distribution!Digit(v)
  BY <1>3 DEF from, slot, v, d
<1>11. Distribution!TypeOK'
  <2>1. DOMAIN counts' = 0 .. limit - 1
           /\ \A m \in DOMAIN counts' : counts'[m] \in 0 .. Distribution!count
    BY <1>8
  <2>2. DOMAIN counts' \subseteq Nat
    BY <1>5, <2>1
  <2>3. DOMAIN out_items' \subseteq DOMAIN keys
    BY <1>3, <1>5, <1>6, <1>7
  <2>4. left' \in 0 .. Distribution!count
    BY <1>1, <1>3
  <2> QED
    BY <1>1, <1>2, <1>4, <2>1, <2>2, <2>3, <2>4 DEF Distribution!TypeOK
<1>12. Distribution!KeysKept'
  <2>1. ASSUME NEW x \in Values
        PROVE  Distribution!Times(x, out_items', DOMAIN out_items') = Distribution!Times(x, keys, from .. Distribution!count - 1)
    <3> DEFINE O == {s \in DOMAIN out_items : out_items[s] = x}
               I == {i \in left .. Distribution!count - 1 : keys[i] = x}
    <3>1. Distribution!Cardinality(O) = Distribution!Cardinality(I)
      BY <1>1, <1>2 DEF Distribution!KeysKept, Distribution!Times
    <3>2. IsFiniteSet(O) /\ IsFiniteSet(I)
      <4>1. O \subseteq 0 .. Distribution!count - 1 /\ I \subseteq 0 .. Distribution!count - 1
               /\ 0 \in Int /\ Distribution!count - 1 \in Int
        BY <1>3, <1>6
      <4> QED
        BY <4>1, PartIsFinite, SameCardinality
    <3>3. slot \notin O /\ from \notin I
             /\ from .. Distribution!count - 1 = (left .. Distribution!count - 1) \cup {from}
      <4>1. from \in Int /\ Distribution!count \in Int /\ left = from + 1
               /\ from <= Distribution!count - 1
        BY <1>3, <1>10
      <4>2. from .. Distribution!count - 1 = ((from + 1) .. Distribution!count - 1) \cup {from}
               /\ from \notin (from + 1) .. Distribution!count - 1
        BY <4>1
      <4> QED
        BY <1>3, <4>1, <4>2
    <3>4. CASE v = x
      <4>1. {s \in DOMAIN out_items' : out_items'[s] = x} = O \cup {slot}
        BY <1>7, <3>4
      <4>2. {i \in from .. Distribution!count - 1 : keys[i] = x} = I \cup {from}
        BY <1>10, <3>3, <3>4
      <4> HIDE DEF O, I
      <4>3. Distribution!Cardinality(O \cup {slot}) = Distribution!Cardinality(O) + 1
               /\ Distribution!Cardinality(I \cup {from}) = Distribution!Cardinality(I) + 1
        BY <3>2, <3>3, FS_AddElement, SameCardinality
      <4> QED
        BY <3>1, <4>1, <4>2, <4>3 DEF Distribution!Times
    <3>5. CASE v # x
      <4>1. {s \in DOMAIN out_items' : out_items'[s] = x} = O
        BY <1>7, <3>5
      <4>2. {i \in from .. Distribution!count - 1 : keys[i] = x} = I
        BY <1>10, <3>3, <3>5
      <4> QED
        BY <3>1, <4>1, <4>2 DEF Distribution!Times
    <3> QED
      BY <3>4, <3>5
  <2>2. ASSUME NEW x \in Values
        PROVE  Distribution!Times(x, keys, DOMAIN keys) = Distribution!Times(x, given, DOMAIN given)
    BY <1>2 DEF Distribution!KeysKept
  <2> QED
    BY <1>1, <1>4, <2>1, <2>2 DEF Distribution!KeysKept
<1>13. Distribution!SlotsOpen'
  <2>1. ASSUME NEW m \in 0 .. limit - 1
        PROVE  /\ counts'[m] = Distribution!Below(m) + Distribution!Cardinality({i \in 0 .. from - 1 : Distribution!Digit(keys[i]) = m})
               /\ \A s \in Distribution!Below(m) .. Distribution!Below(m + 1) - 1 : s \in DOMAIN out_items' <=> s >= counts'[m]
    <3> DEFINE before == Distribution!Cardinality({i \in 0 .. left - 1 : Distribution!Digit(keys[i]) = m})
               after == Distribution!Cardinality({i \in 0 .. from - 1 : Distribution!Digit(keys[i]) = m})
    <3>1. counts[m] = Distribution!Below(m) + before
             /\ \A s \in Distribution!Below(m) .. Distribution!Below(m + 1) - 1 : s \in DOMAIN out_items <=> s >= counts[m]
      BY <1>1, <1>2 DEF Distribution!SlotsOpen
    <3>2. before = after + (IF m = d THEN 1 ELSE 0)
      BY <1>3
    <3>3. after \in Nat
      <4>1. {i \in 0 .. from - 1 : Distribution!Digit(keys[i]) = m} \subseteq 0 .. from - 1 /\ 0 \in Int
               /\ from - 1 \in Int
        BY <1>10
      <4> QED
        BY <4>1, PartIsFinite, SameCardinality
    <3>4. Distribution!Below(m) \in 0 .. Distribution!count
             /\ Distribution!Below(m + 1) \in 0 .. Distribution!count
                  /\ counts[m] \in 0 .. Distribution!count
      BY <1>3
    <3> HIDE DEF before, after
    <3>5. CASE m = d
      <4>1. counts'[m] = Distribution!Below(m) + after /\ counts[m] = counts'[m] + 1 /\ slot = counts'[m]
        BY <1>3, <1>8, <1>10, <3>1, <3>2, <3>3, <3>4, <3>5, SMTT(30)
      <4>2. ASSUME NEW s \in Distribution!Below(m) .. Distribution!Below(m + 1) - 1
            PROVE  s \in DOMAIN out_items' <=> s >= counts'[m]
        <5>1. s \in DOMAIN out_items' <=> s >= counts[m] \/ s = slot
          BY <1>7, <3>1
        <5> QED
          BY <1>3, <3>4, <4>1, <5>1, SMTT(30)
      <4> QED
        BY <4>1, <4>2 DEF after
    <3>6. CASE m # d
      <4>1. counts'[m] = counts[m] /\ before = after
        BY <1>8, <3>2, <3>3, <3>6
      <4>2. slot \notin Distribution!Below(m) .. Distribution!Below(m + 1) - 1
        <5>1. Distribution!Below(d) <= slot /\ slot < Distribution!Below(d + 1)
          BY <1>3 DEF InBlock
        <5>2. m < d \/ d < m
          BY <1>3, <1>5, <3>6
        <5>3. Distribution!Below(m + 1) <= Distribution!Below(d) \/ Distribution!Below(d + 1) <= Distribution!Below(m)
          BY <1>3, <5>2
        <5>4. Distribution!Below(d) \in Nat /\ Distribution!Below(d + 1) \in Nat
          BY <1>3
        <5> QED
          BY <1>3, <3>4, <5>1, <5>3, <5>4
      <4> QED
        BY <1>7, <3>1, <4>1, <4>2 DEF after
    <3> QED
      BY <3>5, <3>6
  <2>2. ASSUME NEW m \in 0 .. limit' - 1
        PROVE  /\ counts'[m] = Distribution!Below(m)' + Distribution!Cardinality({i \in 0 .. left' - 1 : Distribution!Digit(keys[i])' = m})
               /\ \A s \in Distribution!Below(m)' .. Distribution!Below(m + 1)' - 1 : s \in DOMAIN out_items' <=> s >= counts'[m]
    BY <1>1, <1>4, <2>1
  <2> QED
    BY <1>1, <2>2 DEF Distribution!SlotsOpen

<1>14. /\ \A i \in 0 .. Distribution!count - 1 : Distribution!Digit(keys[i]) < limit
       /\ \A s \in DOMAIN out_items' :
            /\ \E k \in from .. Distribution!count - 1 : out_items'[s] = keys[k]
            /\ InBlock(s, Distribution!Digit(out_items'[s]))
  <2>1. ASSUME NEW s \in DOMAIN out_items'
        PROVE  /\ \E k \in from .. Distribution!count - 1 : out_items'[s] = keys[k]
               /\ InBlock(s, Distribution!Digit(out_items'[s]))
    <3>1. CASE s = slot
      BY <1>3, <1>7, <1>10, <3>1
    <3>2. CASE s \in DOMAIN out_items
      <4>1. PICK k \in left .. Distribution!count - 1 : out_items[s] = keys[k]
        BY <1>6, <3>2
      <4>2. k \in from .. Distribution!count - 1
        BY <1>3, <1>10, <4>1
      <4> QED
        BY <1>6, <1>7, <3>2, <4>1, <4>2
    <3> QED
      BY <1>7, <3>1, <3>2
  <2> QED
    BY <1>6, <2>1
<1>15. ASSUME NEW s \in DOMAIN out_items
       PROVE  /\ s < slot => InOrder(out_items[s], v)
              /\ slot < s => InOrder(v, out_items[s])
  <2> DEFINE e == Distribution!Digit(out_items[s])
  <2>1. PICK k \in left .. Distribution!count - 1 : out_items[s] = keys[k]
    BY <1>6
  <2>2. k \in 0 .. Distribution!count - 1 /\ k \in DOMAIN keys /\ from \in DOMAIN keys /\ from < k
    BY <1>3, <1>5, <1>10, <2>1
  <2>3. e < limit /\ e = Distribution!Digit(keys[k]) /\ e \in Nat
    <3>1. keys[k] \in Nat
      BY <1>5, <2>2, WholeKey
    <3> QED
      BY <1>5, <1>6, <2>1, <2>2, <3>1, DigitIsNatural
  <2>4. InBlock(s, e)
    BY <1>6
  <2>5. s \in 0 .. Distribution!count - 1
    BY <1>6
  <2> HIDE DEF e
  <2>6. e \in 0 .. limit - 1
    BY <1>5, <2>3
  <2>7. Distribution!Below(e) <= s /\ s < Distribution!Below(e + 1) /\ Distribution!Below(d) <= slot
           /\ slot < Distribution!Below(d + 1)
    BY <1>3, <2>4 DEF InBlock
  <2>8. Distribution!Below(e) \in 0 .. Distribution!count
           /\ Distribution!Below(e + 1) \in 0 .. Distribution!count
                /\ Distribution!Below(d) \in 0 .. Distribution!count
                     /\ Distribution!Below(d + 1) \in 0 .. Distribution!count
    BY <1>3, <2>6
  <2>9. e < d => s < slot
    <3>1. e < d => Distribution!Below(e + 1) <= Distribution!Below(d)
      BY <1>3, <2>6
    <3> QED
      BY <1>3, <2>5, <2>7, <2>8, <3>1
  <2>10. d < e => slot < s
    <3>1. d < e => Distribution!Below(d + 1) <= Distribution!Below(e)
      BY <1>3, <2>6
    <3> QED
      BY <1>3, <2>5, <2>7, <2>8, <3>1
  <2>11. CASE e = d
    <3>1. s \in Distribution!Below(d) .. Distribution!Below(d + 1) - 1
      BY <2>5, <2>7, <2>8, <2>11
    <3>2. s >= counts[d]
      BY <1>1, <1>2, <1>3, <3>1 DEF Distribution!SlotsOpen
    <3>3. slot < s
      <4>1. counts[d] \in 0 .. Distribution!count
        BY <1>3
      <4> QED
        BY <1>10, <2>5, <3>2, <4>1
    <3>4. method = "radix" => Distribution!LowPart(v, pass) <= Distribution!LowPart(out_items[s], pass)
      <4>1. method = "radix" => Distribution!OrderedBy(pass, keys)
        BY <1>1, <1>2 DEF Distribution!LowBytesOrdered, Distribution!Running
      <4> QED
        BY <1>10, <2>1, <2>2, <4>1 DEF Distribution!OrderedBy
    <3>5. ~(s < slot)
      BY <1>3, <2>5, <3>3
    <3> QED
      BY <1>10, <2>11, <3>4, <3>5 DEF InOrder, e
  <2>12. CASE e # d
    <3>1. d < e \/ e < d
      BY <1>3, <2>6, <2>12
    <3>2. ~(s < slot /\ slot < s)
      BY <1>3, <2>5
    <3> QED
      BY <1>10, <2>9, <2>10, <3>1, <3>2 DEF InOrder, e
  <2> QED
    BY <2>11, <2>12
<1>16. ASSUME NEW s \in DOMAIN out_items', NEW t \in DOMAIN out_items', s < t
       PROVE  InOrder(out_items'[s], out_items'[t])
  <2>1. CASE s = slot /\ t = slot
    <3>1. ~(slot < slot)
      BY <1>3
    <3> QED
      BY <1>16, <2>1, <3>1
  <2>2. CASE s = slot /\ t \in DOMAIN out_items
    BY <1>7, <1>15, <1>16, <2>2
  <2>3. CASE s \in DOMAIN out_items /\ t = slot
    BY <1>7, <1>15, <1>16, <2>3
  <2>4. CASE s \in DOMAIN out_items /\ t \in DOMAIN out_items
    BY <1>6, <1>7, <1>16, <2>4
  <2> QED
    BY <1>7, <2>1, <2>2, <2>3, <2>4
<1>17. Placing'
  <2>1. stage' = "place" <=> left' > 0
    BY <1>1, <1>3, <1>10
  <2> QED
    BY <1>1, <1>4, <1>8, <1>14, <1>16, <2>1 DEF Placing
<1>18. Distribution!LowBytesOrdered' /\ Distribution!SortsOrLeaves'
  <2>1. ASSUME method = "radix", NEW s \in DOMAIN out_items', NEW t \in DOMAIN out_items', s < t
        PROVE  Distribution!LowPart(out_items'[s], pass + 1) <= Distribution!LowPart(out_items'[t], pass + 1)
    <3>1. out_items'[s] \in Nat /\ out_items'[t] \in Nat
      BY <1>9, WholeKey
    <3>2. InOrder(out_items'[s], out_items'[t])
      BY <1>16, <2>1
    <3> QED
      BY <1>5, <2>1, <3>1, <3>2, PassOrders
  <2>2. method = "radix" => Distribution!OrderedBy(pass + 1, out_items')
    BY <2>1 DEF Distribution!OrderedBy
  <2> QED
    BY <1>1, <1>2, <2>2 DEF Distribution!LowBytesOrdered, Distribution!SortsOrLeaves,
       Distribution!OrderedBy, Distribution!LowPart, Distribution!Running
<1>19. Distribution!NothingLeaks' /\ Resting'
  BY <1>1, <1>2, <1>4, <1>9 DEF Distribution!NothingLeaks, Resting, Distribution!Running
<1> QED
  BY <1>11, <1>12, <1>13, <1>17, <1>18, <1>19 DEF DistIndInv, Distribution!DistributionInvariant

(* When the last key is placed all slots are written. *)
LEMMA AllSlotsWritten ==
  ASSUME Distribution!DistributionAssumption, DistIndInv, stage = "copy"
  PROVE  DOMAIN out_items = 0 .. Distribution!count - 1 /\ left = 0 /\ Distribution!count \in Nat
<1>1. Distribution!TypeOK /\ Distribution!SlotsOpen /\ Distribution!count \in Nat /\ limit \in Nat
         /\ left = 0
  BY DEF DistIndInv, Distribution!DistributionInvariant, Resting, Distribution!TypeOK, Placing
<1>2. \A i \in 0 .. Distribution!count - 1 : Distribution!Digit(keys[i]) < limit
  BY DEF DistIndInv, Placing
<1>3. /\ DOMAIN keys = 0 .. Distribution!count - 1
      /\ \A i \in 0 .. Distribution!count - 1 : /\ keys[i] \in Values /\ keys[i] \in Nat
                                   /\ Digits[i] = Distribution!Digit(keys[i]) /\ Digits[i] \in Nat
      /\ \A m : Distribution!Below(m) = Fewer(Digits, Distribution!count, m)
      /\ \A l \in 0 .. Distribution!count : \A m :
           Distribution!Cardinality({i \in 0 .. l - 1 : Distribution!Digit(keys[i]) = m}) = Alike(Digits, l, m)
  BY <1>1, Tallied
<1>4. DOMAIN out_items \subseteq 0 .. Distribution!count - 1
  BY <1>1, <1>3 DEF Distribution!TypeOK
<1> HIDE DEF Distribution!count
<1>5. ASSUME NEW s \in 0 .. Distribution!count - 1
      PROVE  s \in DOMAIN out_items
  <2>1. PICK b \in 0 .. limit - 1 : Fewer(Digits, Distribution!count, b) <= s
           /\ s < Fewer(Digits, Distribution!count, b + 1)
    <3>1. \A i \in 0 .. Distribution!count - 1 : Digits[i] \in Nat /\ Digits[i] < limit
      BY <1>2, <1>3
    <3> QED
      BY <1>1, <3>1, SlotHasBlock
  <2>2. Fewer(Digits, Distribution!count, b) \in 0 .. Distribution!count
           /\ Fewer(Digits, Distribution!count, b + 1) \in 0 .. Distribution!count
    BY <1>1, TalliesAreNaturals
  <2>3. s \in Distribution!Below(b) .. Distribution!Below(b + 1) - 1
    BY <1>3, <2>1, <2>2
  <2>4. counts[b] = Distribution!Below(b)
    <3>1. counts[b] = Distribution!Below(b) + Distribution!Cardinality({i \in 0 .. left - 1 : Distribution!Digit(keys[i]) = b})
      BY <1>1, <2>1 DEF Distribution!SlotsOpen
    <3>2. {i \in 0 .. left - 1 : Distribution!Digit(keys[i]) = b} = {}
      BY <1>1
    <3>3. Distribution!Cardinality({i \in 0 .. left - 1 : Distribution!Digit(keys[i]) = b}) = 0
      BY <3>2, FS_EmptySet, SameCardinality
    <3>4. Distribution!Below(b) \in Int
      BY <1>3, <2>2
    <3> QED
      BY <3>1, <3>3, <3>4
  <2>5. s \in DOMAIN out_items <=> s >= counts[b]
    BY <1>1, <2>1, <2>3 DEF Distribution!SlotsOpen
  <2> QED
    BY <1>3, <2>1, <2>2, <2>4, <2>5
<1> QED
  BY <1>1, <1>4, <1>5

LEMMA CopyBackKeeps ==
  ASSUME Distribution!DistributionAssumption, DistIndInv, Distribution!CopyBack
  PROVE  DistIndInv'
<1>1. /\ UNCHANGED <<given, method>> /\ stage = "copy" /\ keys' = out_items
      /\ counts' = Distribution!Nothing /\ out_items' = Distribution!Nothing
      /\ \/ /\ method = "radix" /\ pass + 1 < Distribution!Passes
            /\ pass' = pass + 1 /\ stage' = "next" /\ held' = held - 2
            /\ UNCHANGED <<limit, left, done>>
         \/ /\ ~(method = "radix" /\ pass + 1 < Distribution!Passes)
            /\ pass' = 0 /\ limit' = 0 /\ left' = 0 /\ held' = 0 /\ stage' = "idle" /\ done' = TRUE
  BY DEF Distribution!CopyBack, Distribution!Return
<1>2. /\ Distribution!TypeOK /\ Distribution!KeysKept /\ Distribution!LowBytesOrdered
           /\ Distribution!SortsOrLeaves /\ Resting /\ Placing /\ Distribution!NothingLeaks
  BY DEF DistIndInv, Distribution!DistributionInvariant
<1>3. DOMAIN out_items = 0 .. Distribution!count - 1 /\ left = 0 /\ Distribution!count \in Nat
  BY <1>1, AllSlotsWritten
<1>4. DOMAIN keys = 0 .. Distribution!count - 1
  BY <1>2 DEF Distribution!TypeOK
<1>5. Distribution!count' = Distribution!count
  BY <1>1, <1>3, <1>4 DEF Distribution!count
<1>6. held = 2 /\ Distribution!count > 0
  BY <1>1, <1>2 DEF Distribution!NothingLeaks, Resting, Distribution!Running
<1> HIDE DEF Distribution!count
<1>7. \A s \in DOMAIN out_items : out_items[s] \in Values
  BY <1>2 DEF Resting
<1>8. DOMAIN Distribution!Nothing = {}
         /\ Distribution!Nothing \in [DOMAIN Distribution!Nothing -> Values]
  BY DEF Distribution!Nothing
<1>9. pass \in 0 .. Distribution!Passes - 1 /\ pass' \in 0 .. Distribution!Passes - 1
  <2>1. pass \in 0 .. Distribution!Passes - 1
    BY <1>2 DEF Distribution!TypeOK
  <2> QED
    BY <1>1, <2>1 DEF Distribution!Passes
<1>10. Distribution!TypeOK'
  <2>1. keys' \in [0 .. Distribution!count - 1 -> Values]
    BY <1>1, <1>2, <1>3 DEF Resting
  <2>2. left' = 0 /\ 0 \in 0 .. Distribution!count
    BY <1>1, <1>3
  <2>3. DOMAIN counts' = {} /\ DOMAIN out_items' = {}
    BY <1>1, <1>8
  <2>4. /\ limit' \in Nat /\ done' \in BOOLEAN /\ method' \in {"counting", "radix"}
        /\ given' \in [0 .. Distribution!count - 1 -> Values] /\ stage' \in {"idle", "next"}
    <3>1. limit \in Nat /\ done \in BOOLEAN /\ method \in {"counting", "radix"}
             /\ given \in [0 .. Distribution!count - 1 -> Values]
      BY <1>2 DEF Distribution!TypeOK
    <3>2. (limit' = limit /\ done' = done /\ stage' = "next") \/ (limit' = 0 /\ done' = TRUE /\ stage' = "idle")
      BY <1>1
    <3>3. done' \in BOOLEAN
      BY <3>1, <3>2, Zenon
    <3>4. limit' \in Nat /\ stage' \in {"idle", "next"}
      BY <3>1, <3>2
    <3> QED
      BY <1>1, <3>1, <3>3, <3>4
  <2> QED
    BY <1>5, <1>9, <2>1, <2>2, <2>3, <2>4 DEF Distribution!TypeOK
<1>11. Distribution!KeysKept'
  <2>1. ASSUME NEW x \in Values
        PROVE  Distribution!Times(x, out_items, DOMAIN out_items) = Distribution!Times(x, given, DOMAIN given)
    BY <1>1, <1>2, <1>3, <1>4 DEF Distribution!KeysKept
  <2>2. stage' \notin {"place", "copy"}
    BY <1>1
  <2> QED
    BY <1>1, <2>1, <2>2 DEF Distribution!KeysKept
<1>12. Distribution!SlotsOpen' /\ Placing' /\ Distribution!NothingLeaks'
  BY <1>1, <1>6 DEF Distribution!SlotsOpen, Placing, Distribution!NothingLeaks
<1>13. Resting'
  <2>1. pass + 1 >= 1 /\ 1 > 0
    BY <1>9
  <2>2. method \in {"counting", "radix"}
    BY <1>2 DEF Distribution!TypeOK
  <2> QED
    BY <1>1, <1>2, <1>3, <1>5, <1>6, <1>8, <2>1, <2>2 DEF Resting, Distribution!Running
<1>14. Distribution!LowBytesOrdered'
  <2>1. method = "radix" => Distribution!OrderedBy(pass + 1, out_items)
    BY <1>1, <1>2 DEF Distribution!LowBytesOrdered, Distribution!Running
  <2> QED
    BY <1>1, <2>1 DEF Distribution!LowBytesOrdered, Distribution!OrderedBy, Distribution!LowPart,
       Distribution!Running
<1>15. Distribution!SortsOrLeaves'
  <2>1. CASE stage' = "next"
    <3>1. pass' # 0 /\ method = "radix"
      BY <1>1, <1>9, <2>1
    <3> QED
      BY <1>1, <2>1, <3>1 DEF Distribution!SortsOrLeaves, Distribution!Running
  <2>2. CASE stage' = "idle"
    <3>1. Distribution!OrderedBy(Distribution!Passes, out_items)
      <4>1. CASE method = "radix"
        <5>1. pass + 1 = Distribution!Passes
          BY <1>1, <1>9, <2>2, <4>1 DEF Distribution!Passes
        <5> QED
          BY <1>1, <1>2, <4>1, <5>1 DEF Distribution!LowBytesOrdered, Distribution!Running
      <4>2. CASE method # "radix"
        <5>1. ASSUME NEW s \in DOMAIN out_items, NEW t \in DOMAIN out_items, s < t
              PROVE  Distribution!LowPart(out_items[s], Distribution!Passes) <= Distribution!LowPart(out_items[t], Distribution!Passes)
          <6>1. InOrder(out_items[s], out_items[t])
            BY <1>1, <1>2, <5>1 DEF Placing
          <6>2. /\ out_items[s] \in Nat
                     /\ Distribution!LowPart(out_items[s], Distribution!Passes) = out_items[s]
                /\ out_items[t] \in Nat
                     /\ Distribution!LowPart(out_items[t], Distribution!Passes) = out_items[t]
            BY <1>7, WholeKey
          <6> QED
            BY <4>2, <6>1, <6>2 DEF InOrder, Distribution!Digit
        <5> QED
          BY <5>1 DEF Distribution!OrderedBy
      <4> QED
        BY <4>1, <4>2
    <3> QED
      BY <1>1, <2>2, <3>1 DEF Distribution!SortsOrLeaves, Distribution!OrderedBy, Distribution!LowPart,
         Distribution!Running
  <2> QED
    BY <1>1, <2>1, <2>2
<1> QED
  BY <1>10, <1>11, <1>12, <1>13, <1>14, <1>15 DEF DistIndInv, Distribution!DistributionInvariant

LEMMA DistributionNextKeeps ==
  ASSUME Distribution!DistributionAssumption, DistIndInv, Distribution!Next
  PROVE  DistIndInv'
<1>1. ASSUME NEW s \in {"counting", "radix"}, Distribution!Refuse(s) \/ Distribution!SortFew(s) PROVE DistIndInv'
  BY <1>1, CountRefuseKeeps
<1>2. CASE Distribution!RadixBegins \/ \E n \in KeyLimits : Distribution!CountingBegins(n)
  BY <1>2, BeginsKeep
<1>3. CASE Distribution!TallyTotals
  BY <1>3, TallyTotalsKeeps
<1>4. CASE Distribution!TallyFails
  BY <1>4, GivingUpKeeps
<1>5. CASE Distribution!Place
  BY <1>5, PlaceKeeps
<1>6. CASE Distribution!CopyBack
  BY <1>6, CopyBackKeeps
<1>7. CASE Distribution!NextPass
  BY <1>7, GivingUpKeeps, NextPassKeeps
<1> QED
  BY <1>1, <1>2, <1>3, <1>4, <1>5, <1>6, <1>7 DEF Distribution!Next, Distribution!Step

(* ------------------------------- the harness ------------------------------ *)
LEMMA HarnessCardinality == \A S : Harness!Cardinality(S) = Cardinality(S)
BY DEF Harness!Cardinality, Cardinality

(* p visits the places 1 .. n, all of them, so that t rises.               *)
Rising(p, t, n) ==
  /\ p \in [1 .. n -> 1 .. n]
  /\ \A i \in 1 .. n : \E j \in 1 .. n : p[j] = i
  /\ \A i, j \in 1 .. n : i < j => t[p[i]] <= t[p[j]]

(* One more number is put where the first larger one was.                  *)
LEMMA OneMoreRises ==
  ASSUME NEW n \in Nat, n >= 1, NEW t \in [1 .. n -> Nat], NEW p, Rising(p, t, n - 1)
  PROVE  \E q : Rising(q, t, n)
<1> DEFINE Larger == {i \in 1 .. n : i = n \/ t[p[i]] > t[n]}
<1>1. /\ \A i \in 1 .. n - 1 : p[i] \in 1 .. n - 1 /\ p[i] \in 1 .. n /\ t[p[i]] \in Nat
      /\ n \in 1 .. n /\ t[n] \in Nat
  <2>1. \A i \in 1 .. n - 1 : p[i] \in 1 .. n - 1
    BY DEF Rising
  <2> QED
    BY <2>1
<1>2. PICK k \in 1 .. n : k \in Larger /\ \A i \in Larger : k <= i
  <2>1. Larger \subseteq Nat /\ Larger # {}
    OBVIOUS
  <2> HIDE DEF Larger
  <2>2. PICK m \in Larger : \A i \in Larger : m <= i
    BY <2>1, LeastExists
  <2> QED
    BY <2>2 DEF Larger
<1>3. \A i \in 1 .. n - 1 : i < k => t[p[i]] <= t[n]
  BY <1>1, <1>2
<1>4. \A i \in 1 .. n - 1 : i >= k => t[n] <= t[p[i]]
  <2> TAKE i \in 1 .. n - 1
  <2> SUFFICES ASSUME i >= k PROVE t[n] <= t[p[i]]
    OBVIOUS
  <2>0. k \in 1 .. n - 1
    BY <1>2
  <2>1. k \in 1 .. n - 1 /\ t[n] <= t[p[k]]
    <3>1. k # n /\ t[p[k]] > t[n]
      BY <1>2, <2>0
    <3> QED
      BY <1>1, <2>0, <3>1
  <2>2. i = k \/ t[p[k]] <= t[p[i]]
    <3>1. \A a, b \in 1 .. n - 1 : a < b => t[p[a]] <= t[p[b]]
      BY DEF Rising
    <3>2. k = i \/ k < i
      BY <2>1
    <3> HIDE DEF Larger
    <3> QED
      BY <2>1, <3>1, <3>2
  <2>3. t[p[k]] \in Nat /\ t[p[i]] \in Nat
    BY <1>1, <2>1
  <2> QED
    BY <1>1, <2>1, <2>2, <2>3
<1> DEFINE q == [i \in 1 .. n |-> IF i < k THEN p[i] ELSE IF i = k THEN n ELSE p[i - 1]]
<1>5. /\ \A i \in 1 .. n : i < k => q[i] = p[i] /\ i \in 1 .. n - 1
      /\ q[k] = n
      /\ \A i \in 1 .. n : i > k => q[i] = p[i - 1] /\ i - 1 \in 1 .. n - 1 /\ i - 1 >= k
  OBVIOUS
<1>6. q \in [1 .. n -> 1 .. n]
  BY <1>1
<1> HIDE DEF q, Larger
<1>7. ASSUME NEW i \in 1 .. n PROVE \E j \in 1 .. n : q[j] = i
  <2>1. CASE i = n
    BY <1>5, <2>1
  <2>2. CASE i # n
    <3>1. PICK j \in 1 .. n - 1 : p[j] = i
      BY <2>2 DEF Rising
    <3>2. j < k => j \in 1 .. n /\ q[j] = i
      BY <1>5, <3>1
    <3>3. j >= k => j + 1 \in 1 .. n /\ j + 1 > k /\ (j + 1) - 1 = j
      BY <3>1
    <3>4. j >= k => q[j + 1] = i
      BY <1>5, <3>1, <3>3
    <3> QED
      BY <3>2, <3>3, <3>4
  <2> QED
    BY <2>1, <2>2
<1>8. ASSUME NEW i \in 1 .. n, NEW j \in 1 .. n, i < j PROVE t[q[i]] <= t[q[j]]
  <2>1. CASE j < k
    <3>1. i < k /\ q[i] = p[i] /\ q[j] = p[j] /\ i \in 1 .. n - 1 /\ j \in 1 .. n - 1
      BY <1>5, <1>8, <2>1
    <3> QED
      BY <1>8, <3>1 DEF Rising
  <2>2. CASE j = k
    <3>1. q[i] = p[i] /\ q[j] = n /\ i \in 1 .. n - 1 /\ i < k
      BY <1>5, <1>8, <2>2
    <3> QED
      BY <1>3, <3>1
  <2>3. CASE j > k /\ i = k
    <3>1. q[i] = n /\ q[j] = p[j - 1] /\ j - 1 \in 1 .. n - 1 /\ j - 1 >= k
      BY <1>5, <2>3
    <3> QED
      BY <1>4, <3>1
  <2>4. CASE j > k /\ i < k
    <3>1. q[i] = p[i] /\ i \in 1 .. n - 1 /\ q[j] = p[j - 1] /\ j - 1 \in 1 .. n - 1 /\ i < j - 1
      BY <1>5, <2>4
    <3> QED
      BY <3>1 DEF Rising
  <2>5. CASE i > k
    <3>1. /\ q[i] = p[i - 1] /\ i - 1 \in 1 .. n - 1 /\ q[j] = p[j - 1] /\ j - 1 \in 1 .. n - 1
          /\ i - 1 < j - 1
      BY <1>5, <1>8, <2>5
    <3> QED
      BY <3>1 DEF Rising
  <2> QED
    BY <1>8, <2>1, <2>2, <2>3, <2>4, <2>5
<1>9. Rising(q, t, n)
  BY <1>6, <1>7, <1>8 DEF Rising
<1> QED
  BY <1>9

LEMMA RisingExists ==
  ASSUME NEW n \in Nat, NEW t \in [1 .. n -> Nat]
  PROVE  \E p : Rising(p, t, n)
<1> DEFINE S == {m \in 0 .. n : \E p : Rising(p, t, m)}
<1>1. 0 \in S
  <2>1. Rising([i \in 1 .. 0 |-> 0], t, 0)
    BY DEF Rising
  <2> QED
    BY <2>1
<1>2. ASSUME NEW m \in 1 .. n, m - 1 \in S PROVE m \in S
  <2>1. PICK p : Rising(p, t, m - 1)
    BY <1>2
  <2> DEFINE u == [i \in 1 .. m |-> t[i]]
  <2>2. u \in [1 .. m -> Nat] /\ \A i \in 1 .. m : u[i] = t[i]
    OBVIOUS
  <2> HIDE DEF u
  <2>3. Rising(p, u, m - 1)
    <3>1. /\ p \in [1 .. m - 1 -> 1 .. m - 1]
          /\ \A i \in 1 .. m - 1 : \E j \in 1 .. m - 1 : p[j] = i
          /\ \A i, j \in 1 .. m - 1 : i < j => t[p[i]] <= t[p[j]]
      BY <2>1 DEF Rising
    <3>2. \A i \in 1 .. m - 1 : p[i] \in 1 .. m
      BY <3>1
    <3>3. \A i \in 1 .. m - 1 : u[p[i]] = t[p[i]]
      BY <2>2, <3>2
    <3> QED
      BY <3>1, <3>3 DEF Rising
  <2>4. PICK q : Rising(q, u, m)
    BY <2>2, <2>3, OneMoreRises
  <2>5. Rising(q, t, m)
    BY <2>2, <2>4 DEF Rising
  <2> QED
    BY <2>5
<1>3. \A m \in 0 .. n : m \in S
  <2> HIDE DEF S
  <2> QED
    BY <1>1, <1>2, Upward
<1> QED
  BY <1>3

(* What qsort leaves are the samples, at other places and in order.        *)
LEMMA QsortRises ==
  ASSUME NEW D, D \subseteq Nat, NEW s \in Seq(D)
  PROVE  \E p : /\ Rising(p, s, Len(s))
                /\ \A i \in 1 .. Len(s) : Harness!Ascending(s)[i] = s[p[i]]
<1>1. DOMAIN s = 1 .. Len(s) /\ Len(s) \in Nat /\ s \in [1 .. Len(s) -> D]
  OBVIOUS
<1>0. s \in [1 .. Len(s) -> Nat]
  BY <1>1
<1> DEFINE Right(p) == /\ \A i \in DOMAIN s : \E j \in DOMAIN s : p[j] = i
                       /\ \A i, j \in DOMAIN s : i < j => s[p[i]] <= s[p[j]]
           from == CHOOSE p \in [DOMAIN s -> DOMAIN s] : Right(p)
<1>2. \E p \in [DOMAIN s -> DOMAIN s] : Right(p)
  <2>1. PICK p : Rising(p, s, Len(s))
    BY <1>0, <1>1, RisingExists
  <2>2. p \in [DOMAIN s -> DOMAIN s] /\ Right(p)
    BY <1>1, <2>1 DEF Rising
  <2> QED
    BY <2>2
<1>3. from \in [DOMAIN s -> DOMAIN s] /\ Right(from)
  BY <1>2
<1>4. Harness!Ascending(s) = [i \in DOMAIN s |-> s[from[i]]]
  BY DEF Harness!Ascending
<1> HIDE DEF from
<1>5. Rising(from, s, Len(s))
  BY <1>1, <1>3 DEF Rising
<1> QED
  BY <1>1, <1>4, <1>5

(* The samples at the places that p visits from a to b are b - a + 1 at    *)
(* most.                                                                   *)
LEMMA FewPlaces ==
  ASSUME NEW n \in Nat, NEW p \in [1 .. n -> 1 .. n], NEW h \in Nat, NEW l \in Nat, h + l <= n,
         NEW A, A \subseteq 1 .. n, \A i \in A : \E j \in l + 1 .. l + h : p[j] = i
  PROVE  Cardinality(A) \in Nat /\ Cardinality(A) <= h
<1> DEFINE B == {j \in l + 1 .. l + h : p[j] \in A}
           g == [j \in B |-> p[j]]
<1>1. IsFiniteSet(1 .. n) /\ IsFiniteSet(l + 1 .. l + h) /\ Cardinality(l + 1 .. l + h) = h
  BY FS_Interval
<1>2. B \subseteq l + 1 .. l + h
  OBVIOUS
<1>3. IsFiniteSet(A)
  BY <1>1, FS_Subset
<1>4. IsFiniteSet(B)
  BY <1>1, <1>2, FS_Subset
<1>5. Cardinality(B) <= h
  BY <1>1, <1>2, FS_Subset
<1>6. g \in Surjection(B, A)
  BY DEF Surjection
<1> HIDE DEF g, B
<1>7. Cardinality(A) <= Cardinality(B)
  BY <1>3, <1>4, <1>6, FS_Surjection
<1>8. Cardinality(A) \in Nat /\ Cardinality(B) \in Nat
  BY <1>3, <1>4, FS_CardinalityType
<1> QED
  BY <1>5, <1>7, <1>8

(* The middle of what rises: what is below it lies before the middle, what *)
(* is above it lies behind.                                                *)
LEMMA MedianIsRight ==
  ASSUME NEW D, D \subseteq Nat, NEW s \in Seq(D), s # <<>>
  PROVE  Harness!MedianIsMiddle(s)
<1> DEFINE n == Len(s)
           a == Harness!Ascending(s)
           h == n \div 2
           twice == IF n % 2 = 0 THEN a[h] + a[h + 1] ELSE 2 * a[h + 1]
<1>1. n \in Nat /\ n >= 1 /\ DOMAIN s = 1 .. n /\ \A i \in 1 .. n : s[i] \in Nat
  <2>1. n \in Nat /\ n >= 1 /\ DOMAIN s = 1 .. n
    OBVIOUS
  <2>2. \A i \in 1 .. n : s[i] \in D
    OBVIOUS
  <2> QED
    BY <2>1, <2>2
<1>2. PICK p : Rising(p, s, n) /\ \A i \in 1 .. n : a[i] = s[p[i]]
  BY QsortRises
<1>3. /\ Harness!Result(s).min = a[1] /\ Harness!Result(s).max = a[n]
      /\ Harness!Result(s).twice_median = twice
  BY DEF Harness!Result
<1> HIDE DEF a, n
<1>4. /\ h \in Nat /\ (n % 2 = 0 => n = 2 * h) /\ (n % 2 # 0 => n = 2 * h + 1)
      /\ h + 1 <= n + 1
  BY <1>1
<1>5. \A i \in 1 .. n : p[i] \in 1 .. n /\ a[i] = s[p[i]] /\ a[i] \in Nat
  <2>1. \A i \in 1 .. n : p[i] \in 1 .. n
    BY <1>2 DEF Rising
  <2> QED
    BY <1>1, <1>2, <2>1
<1>6. ASSUME NEW i \in 1 .. n, NEW j \in 1 .. n, i <= j PROVE a[i] <= a[j]
  <2>1. i < j => s[p[i]] <= s[p[j]]
    BY <1>2 DEF Rising
  <2> QED
    BY <1>5, <1>6, <2>1
<1>7. ASSUME NEW i \in 1 .. n PROVE \E j \in 1 .. n : p[j] = i /\ a[j] = s[i]
  BY <1>2 DEF Rising
<1>8. ASSUME NEW i \in 1 .. n PROVE a[1] <= s[i] /\ s[i] <= a[n]
  <2>1. PICK j \in 1 .. n : a[j] = s[i]
    BY <1>7
  <2> QED
    BY <1>1, <1>6, <2>1
<1> DEFINE l == n - h
<1>9. l \in Nat /\ l >= h /\ h + l = n /\ (l = h \/ l = h + 1) /\ l >= 1 /\ (n % 2 = 0 <=> l = h)
         /\ 2 * h <= n
  BY <1>1, <1>4
<1>10. (l = h => h \in 1 .. n /\ h + 1 \in 1 .. n) /\ h + 1 \in 1 .. n
  BY <1>1, <1>9
<1>11. /\ l = h => twice = a[h] + a[h + 1]
       /\ l # h => twice = 2 * a[h + 1]
  BY <1>1, <1>4, <1>9
<1> HIDE DEF h, twice, l
<1>12. ASSUME NEW j \in 1 .. n, 2 * a[j] < twice PROVE j <= h
  <2> SUFFICES ASSUME j > h PROVE FALSE
    BY <1>1, <1>4, <1>9
  <2>1. h + 1 <= j /\ (l = h => h <= j)
    BY <1>1, <1>4, <1>9
  <2>2. a[h + 1] <= a[j] /\ (l = h => a[h] <= a[j])
    BY <1>6, <1>10, <2>1
  <2> QED
    BY <1>5, <1>10, <1>11, <1>12, <2>2
<1>13. ASSUME NEW j \in 1 .. n, 2 * a[j] > twice PROVE j > l
  <2> SUFFICES ASSUME j <= l PROVE FALSE
    BY <1>1, <1>4, <1>9
  <2>1. j <= h + 1 /\ (l = h => j <= h)
    BY <1>1, <1>4, <1>9
  <2>2. a[j] <= a[h + 1] /\ (l = h => a[j] <= a[h])
    BY <1>6, <1>10, <2>1
  <2> QED
    BY <1>5, <1>10, <1>11, <1>13, <2>2
<1>14. p \in [1 .. n -> 1 .. n]
  BY <1>2 DEF Rising
<1> DEFINE Below == {i \in 1 .. n : 2 * s[i] < twice}
           Above == {i \in 1 .. n : 2 * s[i] > twice}
<1>15. Cardinality(Below) \in Nat /\ Cardinality(Below) <= h
  <2>1. ASSUME NEW i \in Below PROVE \E j \in 0 + 1 .. 0 + h : p[j] = i
    <3>1. PICK j \in 1 .. n : p[j] = i /\ a[j] = s[i]
      BY <1>7
    <3>2. j <= h
      BY <1>12, <3>1
    <3> QED
      BY <1>1, <1>4, <1>9, <3>1, <3>2
  <2>2. Below \subseteq 1 .. n /\ 0 \in Nat /\ h + 0 <= n
    BY <1>1, <1>4, <1>9
  <2> HIDE DEF Below
  <2> QED
    BY <1>1, <1>4, <1>14, <2>1, <2>2, FewPlaces
<1>16. Cardinality(Above) \in Nat /\ Cardinality(Above) <= h
  <2>1. ASSUME NEW i \in Above PROVE \E j \in l + 1 .. l + h : p[j] = i
    <3>1. PICK j \in 1 .. n : p[j] = i /\ a[j] = s[i]
      BY <1>7
    <3>2. j > l
      BY <1>13, <3>1
    <3> QED
      BY <1>1, <1>4, <1>9, <3>1, <3>2
  <2>2. Above \subseteq 1 .. n /\ h + l <= n
    BY <1>1, <1>4, <1>9
  <2> HIDE DEF Above
  <2> QED
    BY <1>1, <1>4, <1>9, <1>14, <2>1, <2>2, FewPlaces
<1>17. 2 * Cardinality(Below) <= n /\ 2 * Cardinality(Above) <= n
  <2> HIDE DEF Below, Above
  <2> QED
    BY <1>1, <1>4, <1>9, <1>15, <1>16
<1>18. /\ Cardinality(Below) = Harness!Cardinality(Below)
       /\ Cardinality(Above) = Harness!Cardinality(Above)
  BY HarnessCardinality
<1> QED
  BY <1>1, <1>3, <1>8, <1>17, <1>18 DEF Harness!MedianIsMiddle, n

(* How far the call is: only a timed batch reads the clock, a failed       *)
(* operation is not verified, and what is sampled is sampled in a call for *)
(* at least one sample.                                                    *)
Progress ==
  /\ phase \in {"idle", "allocate"} => ~measure
  /\ phase = "start" => measure
  /\ phase \notin {"stop", "verify", "teardown"} => succeeded
  /\ phase = "stop" => ~succeeded
  /\ ~measure => samples = <<>>
  /\ phase # "idle" => shape.samples > 0

LEMMA MediansAreRight ==
  ASSUME ArraysAssumption
  PROVE  \A s \in Seq(Durations) : s # <<>> => Harness!MedianIsMiddle(s)
<1>1. Durations \subseteq Nat
  BY DEF ArraysAssumption, Harness!BenchmarkAssumption
<1> QED
  BY <1>1, MedianIsRight

(* All but the median of the samples.                                      *)
Bookkeeping ==
  /\ Harness!TypeOK /\ Harness!BatchesAreReleased /\ Harness!SamplesFit /\ Harness!ResultKept
  /\ Progress

LEMMA BookkeepingSuffices == ArraysAssumption /\ Bookkeeping => Harness!HarnessInvariant
BY MediansAreRight DEF Bookkeeping, Harness!HarnessInvariant, Harness!TypeOK

LEMMA InitIsBookkeeping == Harness!Init => Bookkeeping
<1> SUFFICES ASSUME Harness!Init PROVE Bookkeeping
  OBVIOUS
<1>1. /\ shape = Harness!NoShape /\ measure = FALSE /\ remaining = 0 /\ succeeded = TRUE
      /\ prepared = 0 /\ samples = <<>> /\ allocated = 0
      /\ out_result = NoResult /\ phase = "idle" /\ timed = FALSE
  BY DEF Harness!Init
<1>2. Harness!TypeOK
  <2>1. samples \in Seq(Durations)
    BY <1>1
  <2>2. shape \in MCShapes \cup {Harness!NoShape}
    BY <1>1
  <2>3. measure \in BOOLEAN /\ succeeded \in BOOLEAN /\ timed \in BOOLEAN
    BY <1>1
  <2>4. remaining \in Nat /\ prepared \in Nat /\ allocated \in Nat
    BY <1>1
  <2> QED
    BY <1>1, <2>1, <2>2, <2>3, <2>4 DEF Harness!TypeOK
<1> QED
  BY <1>1, <1>2 DEF Bookkeeping, Progress, Harness!BatchesAreReleased, Harness!SamplesFit,
                    Harness!ResultKept, Harness!Running

LEMMA ReturnKeepsTypes ==
  ASSUME NEW result \in BOOLEAN, Harness!Return(result), Harness!TypeOK, UNCHANGED shape,
         prepared' = 0
  PROVE  Harness!TypeOK'
<1>1. samples' \in Seq(Durations)
  BY DEF Harness!Return
<1>2. measure' \in BOOLEAN /\ succeeded' \in BOOLEAN /\ timed' \in BOOLEAN
  BY DEF Harness!Return
<1>3. remaining' \in Nat /\ prepared' \in Nat /\ allocated' \in Nat /\ phase' = "idle"
  BY DEF Harness!Return
<1>4. shape' \in MCShapes \cup {Harness!NoShape}
  BY DEF Harness!TypeOK
<1> QED
  BY <1>1, <1>2, <1>3, <1>4 DEF Harness!TypeOK

LEMMA HarnessNextKeeps ==
  ASSUME ArraysAssumption, Bookkeeping, Harness!Next
  PROVE  Bookkeeping'
<1>1. /\ Harness!TypeOK /\ Harness!BatchesAreReleased /\ Harness!SamplesFit /\ Harness!ResultKept
      /\ Progress
  BY DEF Bookkeeping
<1>2. /\ \A s \in MCShapes \cup {Harness!NoShape} :
           s.warmups \in Nat /\ s.samples \in Nat /\ s.iterations \in Nat
      /\ shape \in MCShapes \cup {Harness!NoShape}
  BY <1>1 DEF MCShapes, Harness!NoShape, Harness!TypeOK
<1>16. succeeded \in BOOLEAN /\ measure \in BOOLEAN /\ timed \in BOOLEAN
  BY <1>1 DEF Harness!TypeOK
<1> USE DEF Bookkeeping, Harness!TypeOK, Harness!BatchesAreReleased, Harness!SamplesFit,
            Harness!ResultKept, Harness!Running, Progress
<1>3. CASE Harness!Refuse
  BY <1>1, <1>3 DEF Harness!Refuse, Harness!Return
<1>4. CASE \E s \in MCShapes : Harness!Begin(s)
  <2>1. PICK s \in MCShapes : Harness!Begin(s)
    BY <1>4
  <2>2. s.warmups \in Nat /\ s.samples > 0
    BY <1>2, <2>1 DEF Harness!Begin
  <2> QED
    BY <1>1, <2>1, <2>2 DEF Harness!Begin
<1>5. CASE Harness!Allocate
  BY <1>1, <1>2, <1>5 DEF Harness!Allocate
<1>6. CASE Harness!AllocateFails
  BY <1>1, <1>6 DEF Harness!AllocateFails, Harness!Return
<1>7. CASE Harness!Setup
  <2>1. Harness!TypeOK'
    BY <1>1, <1>16, <1>7 DEF Harness!Setup
  <2>2. Harness!BatchesAreReleased' /\ Harness!ResultKept'
    BY <1>1, <1>16, <1>7 DEF Harness!Setup
  <2>3. Harness!SamplesFit'
    BY <1>1, <1>16, <1>7 DEF Harness!Setup
  <2>4. Progress'
    BY <1>1, <1>16, <1>7 DEF Harness!Setup
  <2> QED
    BY <2>1, <2>2, <2>3, <2>4
<1>8. CASE Harness!SetupFails
  <2>1. Harness!Return(FALSE) /\ prepared' = 0 /\ UNCHANGED <<shape, out_result>> /\ phase = "setup"
    BY <1>1, <1>8 DEF Harness!SetupFails
  <2> QED
    BY <1>1, <2>1, ReturnKeepsTypes DEF Harness!Return
<1>9. CASE Harness!Start
  <2>1. succeeded' \in BOOLEAN
    BY <1>16, <1>9 DEF Harness!Start
  <2>2. Harness!TypeOK'
    BY <1>1, <1>9, <2>1 DEF Harness!Start
  <2>3. Harness!BatchesAreReleased' /\ Harness!ResultKept'
    BY <1>1, <1>9 DEF Harness!Start
  <2>4. Harness!SamplesFit' /\ Progress'
    BY <1>1, <1>9 DEF Harness!Start
  <2> QED
    BY <2>2, <2>3, <2>4
<1>10. CASE Harness!Operate
  <2>1. CASE remaining' = remaining - 1 /\ UNCHANGED <<succeeded, phase>>
    BY <1>1, <1>10, <2>1 DEF Harness!Operate
  <2>2. CASE succeeded' = FALSE /\ phase' = "stop" /\ UNCHANGED remaining
    BY <1>1, <1>10, <2>2 DEF Harness!Operate
  <2> QED
    BY <1>10, <2>1, <2>2 DEF Harness!Operate
<1>11. CASE Harness!Stop
  <2>1. succeeded' \in BOOLEAN
    BY <1>16, <1>11 DEF Harness!Stop
  <2>2. Harness!TypeOK'
    BY <1>1, <1>11, <2>1 DEF Harness!Stop
  <2>3. Harness!BatchesAreReleased' /\ Harness!ResultKept'
    BY <1>1, <1>11 DEF Harness!Stop
  <2>4. Harness!SamplesFit' /\ Progress'
    BY <1>1, <1>11 DEF Harness!Stop
  <2> QED
    BY <2>2, <2>3, <2>4
<1>12. CASE Harness!Verify
  <2>1. succeeded' \in BOOLEAN
    BY <1>16, <1>12 DEF Harness!Verify
  <2>2. Harness!TypeOK'
    BY <1>1, <1>12, <2>1 DEF Harness!Verify
  <2>3. Harness!BatchesAreReleased' /\ Harness!ResultKept'
    BY <1>1, <1>12 DEF Harness!Verify
  <2>4. Harness!SamplesFit' /\ Progress'
    BY <1>1, <1>12 DEF Harness!Verify
  <2> QED
    BY <2>2, <2>3, <2>4
<1>13. CASE Harness!Teardown /\ ~succeeded
  <2>0. prepared' = 0
    BY <1>1, <1>13 DEF Harness!Teardown
  <2>1. Harness!Return(FALSE) /\ UNCHANGED <<shape, out_result>> /\ phase = "teardown"
    BY <1>13, Zenon DEF Harness!Teardown, Harness!BatchFailed
  <2> QED
    BY <1>1, <2>0, <2>1, ReturnKeepsTypes DEF Harness!Return
<1>14. CASE Harness!Teardown /\ succeeded /\ ~measure
  <2>0. prepared' = 0
    BY <1>1, <1>14 DEF Harness!Teardown
  <2>1. /\ phase = "teardown" /\ phase' = "allocate" /\ ~measure /\ succeeded
        /\ UNCHANGED <<shape, measure, remaining, succeeded, samples, allocated, out_result, timed>>
    BY <1>14, Zenon DEF Harness!Teardown, Harness!WarmedUp
  <2>2. Harness!TypeOK'
    BY <1>1, <2>0, <2>1
  <2> QED
    BY <1>1, <2>0, <2>1, <2>2
<1>15. CASE Harness!Teardown /\ succeeded /\ measure
  <2>1. PICK d \in Durations : Harness!Sampled(d)
    BY <1>15 DEF Harness!Teardown
  <2>2. Append(samples, d) \in Seq(Durations) /\ prepared' = 0
    BY <1>1, <1>15 DEF Harness!Teardown
  <2>3. CASE Len(Append(samples, d)) < shape.samples
    BY <1>1, <1>2, <1>15, <2>1, <2>2, <2>3 DEF Harness!Sampled
  <2>4. CASE ~(Len(Append(samples, d)) < shape.samples)
    <3>1. Harness!Return(TRUE) /\ UNCHANGED shape
      BY <2>1, <2>4 DEF Harness!Sampled
    <3> QED
      BY <1>1, <2>2, <3>1, ReturnKeepsTypes DEF Harness!Return
  <2> QED
    BY <2>3, <2>4
<1> QED
  BY <1>3, <1>4, <1>5, <1>6, <1>7, <1>8, <1>9, <1>10, <1>11, <1>12, <1>13, <1>14, <1>15
     DEF Harness!Next, Harness!Step, Harness!Teardown

LEMMA HarnessRests == Bookkeeping /\ UNCHANGED harnessVars => Bookkeeping'
BY DEF harnessVars, Bookkeeping, Harness!TypeOK, Harness!BatchesAreReleased, Harness!SamplesFit,
       Harness!ResultKept, Harness!Running, Progress

(* --------------------------------- the run -------------------------------- *)
(* A step of the run is a step of one kind of algorithm; the others rest.  *)
LEMMA DistributionRests ==
  ASSUME DistIndInv, UNCHANGED countVars
  PROVE  DistIndInv'
<1>1. UNCHANGED <<keys, given, method, limit, pass, counts, out_items, left, held, stage, done>>
  BY DEF countVars
<1>2. \A v : Distribution!Digit(v)' = Distribution!Digit(v)
  BY <1>1 DEF Distribution!Digit
<1>3. /\ Distribution!count' = Distribution!count
      /\ \A m : Distribution!Below(m)' = Distribution!Below(m)
      /\ \A s, b : InBlock(s, b)' = InBlock(s, b)
      /\ \A a, b : InOrder(a, b)' = InOrder(a, b)
  BY <1>1, <1>2 DEF Distribution!count, Distribution!Below, InBlock, InOrder, Distribution!LowPart
<1>4. Distribution!TypeOK' /\ Distribution!KeysKept' /\ Distribution!NothingLeaks'
  BY <1>1, <1>3 DEF Distribution!TypeOK, Distribution!KeysKept, Distribution!NothingLeaks,
                    DistIndInv, Distribution!DistributionInvariant
<1>5. Distribution!SlotsOpen'
  <2>1. Distribution!SlotsOpen
    BY DEF DistIndInv, Distribution!DistributionInvariant
  <2> QED
    BY <1>1, <1>2, <1>3, <2>1 DEF Distribution!SlotsOpen
<1>6. Distribution!LowBytesOrdered' /\ Distribution!SortsOrLeaves' /\ Resting'
  BY <1>1, <1>3 DEF Distribution!LowBytesOrdered, Distribution!SortsOrLeaves, Resting,
                    Distribution!OrderedBy, Distribution!LowPart, Distribution!Running,
                    DistIndInv, Distribution!DistributionInvariant
<1>7. Placing'
  <2>1. Placing
    BY DEF DistIndInv
  <2> QED
    BY <1>1, <1>2, <1>3, <2>1 DEF Placing
<1> QED
  BY <1>4, <1>5, <1>6, <1>7 DEF DistIndInv, Distribution!DistributionInvariant

ArraysIndInv == SearchIndInv /\ IndInv /\ DistIndInv /\ Bookkeeping

LEMMA ArraysNextKeeps ==
  ASSUME ArraysIndInv, [ArraysNext]_arraysVars
  PROVE  ArraysIndInv'
<1>1. [Next]_vars => IndInv'
  BY NextKeeps DEF ArraysIndInv
<1>2. UNCHANGED vars => IndInv'
  BY <1>1
<1>3. Next => IndInv'
  BY <1>1
<1>4. UNCHANGED searchVars => SearchIndInv'
  <2>1. UNCHANGED searchVars => UNCHANGED Searching!vars
    BY DEF searchVars, Searching!vars
  <2> QED
    BY <2>1, SearchesKeepInv DEF ArraysIndInv
<1>5. UNCHANGED countVars => DistIndInv'
  BY DistributionRests DEF ArraysIndInv
<1>6. Distribution!Next => DistIndInv'
  BY DistributionNextKeeps, ArraysAssumption DEF ArraysIndInv
<1>7. Searching!Next => SearchIndInv'
  BY SearchesKeepInv DEF ArraysIndInv
<1>8. UNCHANGED harnessVars => Bookkeeping'
  BY HarnessRests DEF ArraysIndInv
<1>9. Harness!Next => Bookkeeping'
  BY HarnessNextKeeps, ArraysAssumption DEF ArraysIndInv
<1>10. CASE UNCHANGED arraysVars
  BY <1>2, <1>4, <1>5, <1>8, <1>10 DEF arraysVars, ArraysIndInv
<1>11. CASE ArraysNext
  BY <1>2, <1>3, <1>4, <1>5, <1>6, <1>7, <1>8, <1>9, <1>11 DEF ArraysNext, ArraysIndInv
<1> QED
  BY <1>10, <1>11

LEMMA ArraysKeepInv == ArraysSpec => []ArraysIndInv
<1>1. ArraysInit => ArraysIndInv
  <2>1. ArraysInit => IndInv
    BY ArraysAssumption, InitIsIndInv DEF ArraysInit
  <2>2. ArraysInit => DistIndInv
    BY ArraysAssumption, InitIsDistIndInv DEF ArraysInit
  <2> QED
    BY <2>1, <2>2, InitIsSearchIndInv, InitIsBookkeeping DEF ArraysInit, ArraysIndInv
<1>2. ArraysIndInv /\ [ArraysNext]_arraysVars => ArraysIndInv'
  BY ArraysNextKeeps
<1> QED
  BY <1>1, <1>2, PTL DEF ArraysSpec

(* The loop invariants of all eight sorts, for arrays of every length and  *)
(* keys of any four bytes.  heap_sort's heap is one only if an int holds   *)
(* the index of its last parent.                                           *)
THEOREM SortLoopsKeepInvariant ==
  ASSUME HeapFits
  PROVE  ArraysSpec => []SortInvariant
<1>1. ArraysIndInv => SortInvariant
  <2>1. IndInv => WellFormed /\ LoopInvariant
    BY IndInvIsRight
  <2> QED
    BY <2>1 DEF ArraysIndInv, DistIndInv, SortInvariant
<1> QED
  BY <1>1, ArraysKeepInv, PTL

(* A call of any of the eight sorts that returns true has put the array in *)
(* order; a comparison sort that fails has left it as it was, one that     *)
(* counts has nothing moved before its first pass was complete.            *)
THEOREM SortsSortOrLeave ==
  ASSUME HeapFits
  PROVE  ArraysSpec => []SortedOrLeft
<1>1. ArraysIndInv => SortedOrLeft
  <2>1. IndInv => SortsOrLeaves
    BY IndInvIsRight
  <2> QED
    BY <2>1 DEF ArraysIndInv, DistIndInv, SortedOrLeft
<1> QED
  BY <1>1, ArraysKeepInv, PTL

(* Both searches find the key exactly if it is there, linear_search its    *)
(* lowest index, and a miss leaves *out_index alone; between any two       *)
(* probes the window still holds the key if the array does.                *)
THEOREM SearchesFind == ArraysSpec => []SearchInvariant
<1>1. ArraysIndInv => SearchInvariant
  BY DEF ArraysIndInv, SearchIndInv, SearchInvariant
<1> QED
  BY <1>1, ArraysKeepInv, PTL

(* benchmark_run releases what setup prepared once on every way out of a   *)
(* batch, measures complete batches only, leaves the result alone when it  *)
(* fails, and reports a median in the middle of the samples, however many  *)
(* there are: the two of them that are read are next to the middle.        *)
THEOREM HarnessKeepsInvariant == ArraysSpec => []HarnessInvariant
<1>1. ArraysIndInv => HarnessInvariant
  BY ArraysAssumption, BookkeepingSuffices DEF ArraysIndInv, HarnessInvariant
<1> QED
  BY <1>1, ArraysKeepInv, PTL
=============================================================================
