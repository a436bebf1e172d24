----------------------------- MODULE MCTreesProofs ---------------------------
(***************************************************************************)
(* The two trees whose nodes lie in arrays that grow, for every SIZE_MAX   *)
(* and every pointer size.                                                 *)
(*                                                                         *)
(* binary_heap.c keeps the heap order through both sift loops, for every   *)
(* set of items and every comparator that ranks them; its root is always   *)
(* an item of the lowest rank; it implements the priority queue.           *)
(*                                                                         *)
(* prefix_trie.c keeps its links, its counter and its blocks in order, for *)
(* every set of keys; a removal finds the key it is called for; and the    *)
(* walks of its GraphView adapter number the nodes as a tree.              *)
(***************************************************************************)
EXTENDS MCTrees, Arithmetic, FiniteSetTheorems, SequenceTheorems

(* The buffer is one malloc could grant, and it never has fewer than the   *)
(* three slots it starts with, so that no child index wraps around.        *)
Addressable ==
  /\ Fits(capacity)
  /\ live => capacity >= 3

Inv == TypeOK /\ MemoryMatches /\ Addressable /\ SiftInvariant

------------------------------------------------------------------------------
(* A result that fits in a size_t is the mathematical one. *)
LEMMA WrapFits ==
  ASSUME NEW u \in 0 .. SizeMax
  PROVE  Wrap(u) = u
BY FitsInWord, SizeAssumption DEF Wrap

(* A slot count that Fits has a byte count that does not wrap, so malloc   *)
(* grants that many slots; and the count is itself a size_t.               *)
LEMMA GrantedInFull ==
  ASSUME NEW u \in Nat, Fits(u)
  PROVE  SlotsGranted(u) = u /\ u <= SizeMax
<1>1. u * PtrSize <= SizeMax /\ u <= u * PtrSize
  BY SizeAssumption DEF Fits
<1>2. u * PtrSize \in 0 .. SizeMax /\ (u * PtrSize) \div PtrSize = u
  BY <1>1, SizeAssumption
<1> QED
  BY <1>1, <1>2, WrapFits, SizeAssumption DEF SlotsGranted

(* Zero slots always fit. *)
LEMMA ZeroSlotsFit == Fits(0)
BY SizeAssumption DEF Fits

(* The children of m are 2m+1 and 2m+2. *)
LEMMA ParentOf ==
  ASSUME NEW i \in Nat, i > 0
  PROVE  /\ Parent(i) \in Nat
         /\ Parent(i) < i
         /\ \A m \in Nat : Parent(i) = m <=> i = 2 * m + 1 \/ i = 2 * m + 2
BY DEF Parent

(* The child indexes of a slot of the buffer are computed without wrapping. *)
LEMMA ChildrenOf ==
  ASSUME Inv, live, NEW i \in Slots(capacity)
  PROVE  Left(i) = 2 * i + 1 /\ Right(i) = 2 * i + 2
<1>1. capacity \in Nat /\ PtrSize >= 2 /\ PtrSize \in Nat /\ i \in Nat
  BY HeapAssumption, SizeAssumption DEF Inv, TypeOK, Slots
<1>2. 2 * capacity <= capacity * PtrSize
  BY <1>1
<1>3. capacity * PtrSize <= SizeMax
  BY <1>1, SizeAssumption DEF Inv, Addressable, Fits
<1>4. i * 2 + 1 \in 0 .. SizeMax /\ i * 2 + 2 \in 0 .. SizeMax
  BY <1>1, <1>2, <1>3, SizeAssumption DEF Slots
<1> QED
  BY <1>1, <1>4, WrapFits DEF Left, Right

(* A growth that the guards allow gets all the slots it asks for. *)
LEMMA Growth ==
  ASSUME Inv, CanGrow
  PROVE  /\ NewCapacity \in Nat /\ NewCapacity > capacity
         /\ Fits(NewCapacity)
         /\ Reallocated = [i \in Slots(NewCapacity) |->
                             IF i \in Slots(capacity) THEN items[i] ELSE Garbage]
<1>1. capacity \in Nat /\ capacity * 2 + 1 \in 0 .. SizeMax
  BY SizeAssumption, HeapAssumption, GrantedInFull DEF Inv, TypeOK, CanGrow
<1>2. NewCapacity = capacity * 2 + 1
  BY <1>1, WrapFits DEF NewCapacity
<1>3. SlotsGranted(NewCapacity) = NewCapacity
  BY <1>1, <1>2, GrantedInFull DEF CanGrow
<1> QED
  BY <1>1, <1>2, <1>3 DEF CanGrow, Reallocated, Inv, MemoryMatches

LEMMA InitInv == Init => Inv
<1> SUFFICES ASSUME Init PROVE Inv
  OBVIOUS
<1>1. TypeOK
  <2>1. Slots(size) = {} /\ items \in [DOMAIN items -> Item \cup {NULL, Garbage}]
    BY DEF Init, NoSlots, Slots
  <2> QED
    BY <2>1 DEF Init, TypeOK
<1>2. MemoryMatches
  BY DEF Init, MemoryMatches, NoSlots, Slots
<1>3. Addressable
  BY ZeroSlotsFit DEF Init, Addressable
<1>4. SiftInvariant
  BY DEF Init, SiftInvariant
<1> QED
  BY <1>1, <1>2, <1>3, <1>4 DEF Inv

------------------------------------------------------------------------------
(* Ranks of stored items are numbers. *)
LEMMA RanksAreNat ==
  ASSUME Inv, NEW i \in Slots(size)
  PROVE  items[i] \in Item /\ Rank[items[i]] \in Nat
BY HeapAssumption DEF Inv, TypeOK

(* One turn of the loop of binary_heap_push. *)
LEMMA SiftUpKeepsInv ==
  ASSUME Inv, SiftUp
  PROVE  Inv'
<1> DEFINE p == Parent(n)
<1>1. /\ n \in Nat /\ n > 0 /\ n < size /\ size \in Nat /\ pc = "up"
      /\ capacity \in Nat /\ size <= capacity
      /\ items \in [Slots(capacity) -> Item \cup {NULL, Garbage}]
      /\ \A i \in Slots(size) : items[i] \in Item
  BY DEF Inv, TypeOK, SiftInvariant, MemoryMatches, SiftUp
<1>2. p \in Nat /\ p < n /\ n \in Slots(size) /\ p \in Slots(size)
  BY <1>1, ParentOf DEF Slots
<1>3. /\ size' = size /\ capacity' = capacity /\ live' = live /\ pc' = pc
      /\ blocks' = blocks /\ reply' = reply /\ n' = p
      /\ items' = Swapped(n, p)
      /\ Rank[items[p]] > Rank[items[n]]
  BY DEF SiftUp, Above
<1> HIDE DEF p
<1>4. /\ items' \in [Slots(capacity) -> Item \cup {NULL, Garbage}]
      /\ DOMAIN items' = Slots(capacity)
      /\ items'[n] = items[p] /\ items'[p] = items[n]
      /\ \A i \in Slots(size) : i # n /\ i # p => items'[i] = items[i]
  BY <1>1, <1>2, <1>3 DEF Swapped, Slots
<1>5. TypeOK'
  <2>1. \A i \in Slots(size) : items'[i] \in Item
    BY <1>1, <1>2, <1>4
  <2> QED
    BY <1>2, <1>3, <1>4, <2>1 DEF Inv, TypeOK
<1>6. MemoryMatches' /\ Addressable'
  BY <1>3, <1>4 DEF Inv, MemoryMatches, Addressable
<1>7. SiftInvariant'
  <2>1. ASSUME NEW i \in 1 .. size - 1
        PROVE  /\ i # p => Rank[items'[Parent(i)]] <= Rank[items'[i]]
               /\ p > 0 /\ Parent(i) = p =>
                    Rank[items'[Parent(p)]] <= Rank[items'[i]]
    <3>1. i \in Slots(size) /\ i \in Nat /\ i > 0
      BY <1>1 DEF Slots
    <3>2. /\ Parent(i) \in Nat /\ Parent(i) < i /\ Parent(i) \in Slots(size)
      BY <1>1, <3>1, ParentOf DEF Slots
    <3>3. /\ i # n => Rank[items[Parent(i)]] <= Rank[items[i]]
          /\ Parent(i) = n => Rank[items[p]] <= Rank[items[i]]
      BY <1>1 DEF Inv, SiftInvariant, Ordered, p
    <3>4. /\ Rank[items[i]] \in Nat /\ Rank[items[Parent(i)]] \in Nat
          /\ Rank[items[n]] \in Nat /\ Rank[items[p]] \in Nat
      BY <1>2, <3>1, <3>2, RanksAreNat
    <3>5. i # p => Rank[items'[Parent(i)]] <= Rank[items'[i]]
      <4>1. CASE i = n
        BY <1>3, <1>4, <3>4, <4>1 DEF p
      <4>2. CASE i # n /\ Parent(i) = n /\ i # p
        BY <1>4, <3>1, <3>3, <4>2
      <4>3. CASE i # n /\ Parent(i) = p /\ i # p
        BY <1>3, <1>4, <3>1, <3>3, <3>4, <4>3
      <4>4. CASE i # n /\ i # p /\ Parent(i) # n /\ Parent(i) # p
        BY <1>4, <3>1, <3>2, <3>3, <4>4
      <4> QED
        BY <4>1, <4>2, <4>3, <4>4
    <3>6. ASSUME p > 0, Parent(i) = p
          PROVE  Rank[items'[Parent(p)]] <= Rank[items'[i]]
      <4>1. Parent(p) \in Nat /\ Parent(p) < p /\ Parent(p) \in Slots(size)
        BY <1>1, <1>2, <3>6, ParentOf DEF Slots
      <4>2. items'[Parent(p)] = items[Parent(p)] /\ Rank[items[Parent(p)]] \in Nat
        BY <1>2, <1>4, <4>1, RanksAreNat
      <4>3. Rank[items[Parent(p)]] <= Rank[items[p]]
        BY <1>1, <1>2, <3>6 DEF Inv, SiftInvariant, Ordered
      <4>4. CASE i = n
        BY <1>4, <4>2, <4>3, <4>4
      <4>5. CASE i # n
        <5>1. i # p /\ items'[i] = items[i] /\ Rank[items[p]] <= Rank[items[i]]
          BY <1>4, <3>1, <3>2, <3>3, <3>6, <4>5
        <5> QED
          BY <3>4, <4>2, <4>3, <5>1
      <4> QED
        BY <4>4, <4>5
    <3> QED
      BY <3>5, <3>6
  <2> QED
    BY <1>1, <1>2, <1>3, <2>1 DEF SiftInvariant, Ordered
<1> QED
  BY <1>5, <1>6, <1>7 DEF Inv

(* The child a sift-down compares with is the lower of the children. *)
LEMMA LowerChild ==
  ASSUME Inv, live, n \in Slots(capacity), Left(n) < size
  PROVE  /\ Child \in Slots(size) /\ Child > n /\ Child > 0
         /\ Parent(Child) = n
         /\ \A i \in 1 .. size - 1 :
              Parent(i) = n => Rank[items[Child]] <= Rank[items[i]]
<1>1. Left(n) = 2 * n + 1 /\ Right(n) = 2 * n + 2
  BY ChildrenOf
<1>2. n \in Nat /\ size \in Nat
  BY DEF Inv, TypeOK
<1>3. Left(n) \in Slots(size) /\ Rank[items[Left(n)]] \in Nat
  BY <1>1, <1>2, RanksAreNat DEF Slots
<1>4. Right(n) < size =>
        Right(n) \in Slots(size) /\ Rank[items[Right(n)]] \in Nat
  BY <1>1, <1>2, RanksAreNat DEF Slots
<1>5. Parent(Left(n)) = n /\ Parent(Right(n)) = n
  BY <1>1, <1>2, ParentOf
<1>6. ASSUME NEW i \in 1 .. size - 1, Parent(i) = n
      PROVE  Rank[items[Child]] <= Rank[items[i]]
  <2>1. i = Left(n) \/ i = Right(n)
    BY <1>1, <1>2, <1>6, ParentOf
  <2> QED
    BY <1>2, <1>3, <1>4, <2>1 DEF Child, Above
<1> QED
  BY <1>1, <1>2, <1>3, <1>4, <1>5, <1>6 DEF Child

(* One turn of the loop of binary_heap_pop. *)
LEMMA SiftDownKeepsInv ==
  ASSUME Inv, SiftDown
  PROVE  Inv'
<1> DEFINE c == Child
<1>1. /\ n \in Nat /\ size \in Nat /\ pc = "down" /\ live
      /\ capacity \in Nat /\ size <= capacity /\ n \in Slots(capacity)
      /\ items \in [Slots(capacity) -> Item \cup {NULL, Garbage}]
      /\ \A i \in Slots(size) : items[i] \in Item
  BY DEF Inv, TypeOK, SiftInvariant, MemoryMatches, SiftDown, Slots
<1>2. /\ c \in Slots(size) /\ c > n /\ c > 0 /\ Parent(c) = n
      /\ \A i \in 1 .. size - 1 :
           Parent(i) = n => Rank[items[c]] <= Rank[items[i]]
  BY <1>1, LowerChild DEF SiftDown
<1>3. /\ size' = size /\ capacity' = capacity /\ live' = live /\ pc' = pc
      /\ blocks' = blocks /\ reply' = reply /\ n' = c
      /\ items' = Swapped(n, c)
      /\ Rank[items[n]] > Rank[items[c]]
  BY DEF SiftDown, Above
<1> HIDE DEF c
<1>4. n \in Slots(size) /\ c \in Nat /\ c < capacity /\ c \in 1 .. size - 1
  BY <1>1, <1>2 DEF Slots
<1>5. /\ items' \in [Slots(capacity) -> Item \cup {NULL, Garbage}]
      /\ DOMAIN items' = Slots(capacity)
      /\ items'[n] = items[c] /\ items'[c] = items[n]
      /\ \A i \in Slots(size) : i # n /\ i # c => items'[i] = items[i]
  BY <1>1, <1>2, <1>3, <1>4 DEF Swapped, Slots
<1>6. TypeOK'
  <2>1. \A i \in Slots(size) : items'[i] \in Item
    BY <1>1, <1>2, <1>4, <1>5
  <2> QED
    BY <1>3, <1>4, <1>5, <2>1 DEF Inv, TypeOK
<1>7. MemoryMatches' /\ Addressable'
  BY <1>3, <1>5 DEF Inv, MemoryMatches, Addressable
<1>8. SiftInvariant'
  <2>1. ASSUME NEW i \in 1 .. size - 1
        PROVE  /\ Parent(i) # c => Rank[items'[Parent(i)]] <= Rank[items'[i]]
               /\ Parent(i) = c => Rank[items'[Parent(c)]] <= Rank[items'[i]]
    <3>1. i \in Slots(size) /\ i \in Nat /\ i > 0
      BY <1>1 DEF Slots
    <3>2. Parent(i) \in Nat /\ Parent(i) < i /\ Parent(i) \in Slots(size)
      BY <1>1, <3>1, ParentOf DEF Slots
    <3>3. Parent(i) # n => Rank[items[Parent(i)]] <= Rank[items[i]]
      BY <1>1 DEF Inv, SiftInvariant, Ordered
    <3>4. /\ Rank[items[i]] \in Nat /\ Rank[items[Parent(i)]] \in Nat
          /\ Rank[items[n]] \in Nat /\ Rank[items[c]] \in Nat
      BY <1>2, <1>4, <3>1, <3>2, RanksAreNat
    <3>5. Parent(i) # c => Rank[items'[Parent(i)]] <= Rank[items'[i]]
      <4>1. CASE i = c
        BY <1>2, <1>3, <1>5, <3>4, <4>1
      <4>2. CASE i # c /\ Parent(i) = n
        BY <1>2, <1>5, <3>1, <3>2, <4>2
      <4>3. CASE i = n /\ Parent(i) # c
        <5>1. Rank[items[Parent(n)]] <= Rank[items[c]]
          BY <1>1, <1>2, <1>4, <3>1, <4>3 DEF Inv, SiftInvariant
        <5>2. items'[Parent(i)] = items[Parent(n)]
          BY <1>5, <3>2, <4>3
        <5> QED
          BY <1>5, <4>3, <5>1, <5>2
      <4>4. CASE i # n /\ i # c /\ Parent(i) # n /\ Parent(i) # c
        BY <1>5, <3>1, <3>2, <3>3, <4>4
      <4> QED
        BY <4>1, <4>2, <4>3, <4>4
    <3>6. ASSUME Parent(i) = c
          PROVE  Rank[items'[Parent(c)]] <= Rank[items'[i]]
      <4>1. i # c /\ i # n /\ items'[i] = items[i]
        BY <1>1, <1>2, <1>5, <3>1, <3>2, <3>6
      <4>2. Rank[items[c]] <= Rank[items[i]]
        BY <1>1, <1>2, <3>3, <3>6
      <4> QED
        BY <1>2, <1>5, <4>1, <4>2
    <3> QED
      BY <3>5, <3>6
  <2> QED
    BY <1>1, <1>3, <1>4, <2>1 DEF SiftInvariant, Ordered
<1> QED
  BY <1>6, <1>7, <1>8 DEF Inv

(* Where a sift loop stops, the order is restored. *)
LEMMA SiftEndsKeepInv ==
  ASSUME Inv, SiftUpEnds \/ SiftDownEnds
  PROVE  Inv'
<1>1. /\ n \in Nat /\ size \in Nat /\ live /\ capacity \in Nat
      /\ size' = size /\ capacity' = capacity /\ live' = live /\ pc' = "idle"
      /\ blocks' = blocks /\ reply' = reply /\ items' = items /\ n' = 0
  BY DEF Inv, TypeOK, MemoryMatches, SiftUpEnds, SiftDownEnds
<1>2. ASSUME NEW i \in 1 .. size - 1
      PROVE  Ordered(i)
  <2>1. i \in Slots(size) /\ Parent(i) \in Slots(size)
    BY <1>1, ParentOf DEF Slots
  <2>2. Rank[items[i]] \in Nat /\ Rank[items[Parent(i)]] \in Nat
    BY <2>1, RanksAreNat
  <2>3. CASE SiftUpEnds
    <3>1. pc = "up" /\ (n > 0 => ~(Rank[items[Parent(n)]] > Rank[items[n]]))
      BY <2>3 DEF SiftUpEnds, Above
    <3> QED
      BY <2>2, <3>1 DEF Inv, SiftInvariant, Ordered
  <2>4. CASE SiftDownEnds
    <3>1. pc = "down" /\ n \in Slots(capacity)
      BY <1>1, <2>4 DEF SiftDownEnds, Inv, SiftInvariant, Slots
    <3>2. CASE Parent(i) # n
      BY <3>1, <3>2 DEF Inv, SiftInvariant
    <3>3. CASE Parent(i) = n
      <4>1. Left(n) < size
        BY <1>1, <3>1, <3>3, ChildrenOf, ParentOf
      <4>2. ~(Rank[items[n]] > Rank[items[Child]])
        BY <2>4, <4>1 DEF SiftDownEnds, Above
      <4>3. Child \in Slots(size) /\ Rank[items[Child]] <= Rank[items[i]]
        BY <1>1, <3>1, <3>3, <4>1, LowerChild
      <4>4. Rank[items[Child]] \in Nat
        BY <4>3, RanksAreNat
      <4> QED
        BY <2>2, <3>3, <4>2, <4>3, <4>4 DEF Ordered
    <3> QED
      BY <3>2, <3>3
  <2> QED
    BY <2>3, <2>4
<1>3. TypeOK' /\ MemoryMatches' /\ Addressable'
  BY <1>1 DEF Inv, TypeOK, MemoryMatches, Addressable
<1>4. SiftInvariant'
  BY <1>1, <1>2 DEF SiftInvariant, Ordered
<1> QED
  BY <1>3, <1>4 DEF Inv
------------------------------------------------------------------------------
(* Storing an item after the last one, in a buffer b of c slots that holds *)
(* the same items, breaks the order at most where the sift begins.         *)
LEMMA PlaceKeepsInv ==
  ASSUME Inv, pc = "idle", live, NEW x \in Item, NEW c \in Nat, NEW b,
         b \in [Slots(c) -> Item \cup {NULL, Garbage}],
         size < c, c >= 3, Fits(c), capacity' = c,
         \A i \in Slots(size) : b[i] = items[i],
         Place(b, x)
  PROVE  Inv'
<1>1. /\ size \in Nat /\ size \in Slots(c) /\ c <= SizeMax
      /\ \A i \in Slots(size) : items[i] \in Item
  BY GrantedInFull DEF Inv, TypeOK, Slots
<1>2. Wrap(size + 1) = size + 1
  <2>1. size + 1 \in 0 .. SizeMax
    BY <1>1, SizeAssumption
  <2> QED
    BY <2>1, WrapFits
<1>3. /\ size' = size + 1 /\ pc' = "up" /\ n' = size /\ live' = live
      /\ blocks' = blocks /\ Answer("push", TRUE, Untouched)
      /\ items' = [b EXCEPT ![size] = x]
  BY <1>2 DEF Place
<1>4. /\ items' \in [Slots(c) -> Item \cup {NULL, Garbage}]
      /\ DOMAIN items' = Slots(c)
      /\ items'[size] = x
      /\ \A i \in Slots(size) : items'[i] = items[i]
  BY <1>1, <1>3 DEF Slots
<1>5. TypeOK'
  <2>1. \A i \in Slots(size + 1) : items'[i] \in Item
    BY <1>1, <1>4 DEF Slots
  <2> QED
    BY <1>1, <1>3, <1>4, <2>1 DEF Inv, TypeOK, Answer
<1>6. MemoryMatches' /\ Addressable'
  BY <1>1, <1>3, <1>4 DEF Inv, MemoryMatches, Addressable
<1>7. SiftInvariant'
  <2>1. ASSUME NEW i \in 1 .. size
        PROVE  /\ i # size => Rank[items'[Parent(i)]] <= Rank[items'[i]]
               /\ Parent(i) # size
    <3>1. i \in Nat /\ i > 0 /\ Parent(i) \in Nat /\ Parent(i) < i
      BY <1>1, ParentOf
    <3>2. CASE i # size
      <4>1. i \in 1 .. size - 1 /\ i \in Slots(size) /\ Parent(i) \in Slots(size)
        BY <1>1, <3>1, <3>2 DEF Slots
      <4>2. Rank[items[Parent(i)]] <= Rank[items[i]]
        BY <4>1 DEF Inv, SiftInvariant, Ordered
      <4> QED
        BY <1>1, <1>4, <3>1, <4>1, <4>2
    <3> QED
      BY <1>1, <3>1, <3>2
  <2> QED
    BY <1>1, <1>3, <2>1 DEF SiftInvariant, Ordered
<1> QED
  BY <1>5, <1>6, <1>7 DEF Inv

LEMMA PushKeepsInv ==
  ASSUME Inv, NEW x \in Item, Push(x) \/ PushGrowing(x)
  PROVE  Inv'
<1>1. /\ capacity \in Nat /\ size <= capacity /\ size \in Nat
      /\ items \in [Slots(capacity) -> Item \cup {NULL, Garbage}]
      /\ pc = "idle" /\ live /\ capacity >= 3 /\ Fits(capacity)
  BY DEF Inv, TypeOK, MemoryMatches, Addressable, Push, PushGrowing
<1>2. CASE Push(x)
  <2>1. size < capacity /\ capacity' = capacity /\ Place(items, x)
    BY <1>1, <1>2 DEF Push
  <2> QED
    BY <1>1, <2>1, PlaceKeepsInv
<1>3. CASE PushGrowing(x)
  <2> DEFINE d == NewCapacity
  <2>1. size = capacity /\ CanGrow /\ capacity' = d /\ Place(Reallocated, x)
    BY <1>3 DEF PushGrowing
  <2>2. /\ d \in Nat /\ d > capacity /\ Fits(d)
        /\ Reallocated = [i \in Slots(d) |->
                            IF i \in Slots(capacity) THEN items[i] ELSE Garbage]
    BY <2>1, Growth
  <2> HIDE DEF d
  <2>3. /\ Reallocated \in [Slots(d) -> Item \cup {NULL, Garbage}]
        /\ \A i \in Slots(size) : Reallocated[i] = items[i]
    BY <1>1, <2>1, <2>2 DEF Slots
  <2> QED
    BY <1>1, <2>1, <2>2, <2>3, PlaceKeepsInv
<1> QED
  BY <1>2, <1>3

(* Taking the root away breaks the order at most at the root. *)
LEMMA PopKeepsInv ==
  ASSUME Inv, Pop
  PROVE  Inv'
<1>1. /\ size \in Nat /\ size > 0 /\ capacity \in Nat /\ size <= capacity
      /\ items \in [Slots(capacity) -> Item \cup {NULL, Garbage}]
      /\ \A i \in Slots(size) : items[i] \in Item
      /\ pc = "idle" /\ live /\ capacity >= 3
  BY DEF Inv, TypeOK, MemoryMatches, Addressable, Pop
<1>2. 0 \in Slots(size) /\ size - 1 \in Slots(size)
      /\ 0 \in Slots(capacity) /\ size - 1 \in Slots(capacity)
  BY <1>1 DEF Slots
<1>3. /\ size' = size - 1 /\ capacity' = capacity /\ live' = live
      /\ blocks' = blocks /\ pc' = "down" /\ n' = 0
      /\ reply' = [op |-> "pop", ok |-> TRUE, item |-> items[0]]
      /\ items' = [items EXCEPT ![0] = items[size - 1], ![size - 1] = NULL]
  BY DEF Pop, Answer
<1>4. /\ items' \in [Slots(capacity) -> Item \cup {NULL, Garbage}]
      /\ DOMAIN items' = Slots(capacity)
      /\ size > 1 => items'[0] = items[size - 1]
      /\ \A i \in Slots(capacity) : i # 0 /\ i # size - 1 => items'[i] = items[i]
  BY <1>1, <1>2, <1>3
<1>5. TypeOK'
  <2>1. ASSUME NEW i \in Slots(size - 1)
        PROVE  items'[i] \in Item
    <3>1. i \in Slots(size) /\ i \in Slots(capacity) /\ i # size - 1 /\ size > 1
      BY <1>1 DEF Slots
    <3> QED
      BY <1>1, <1>2, <1>4, <3>1
  <2>2. items[0] \in Item /\ size - 1 \in Nat
    BY <1>1, <1>2
  <2> QED
    BY <1>3, <1>4, <2>1, <2>2 DEF Inv, TypeOK
<1>6. MemoryMatches' /\ Addressable'
  BY <1>1, <1>3, <1>4 DEF Inv, MemoryMatches, Addressable
<1>7. SiftInvariant'
  <2>1. ASSUME NEW i \in 1 .. size' - 1, Parent(i) # 0
        PROVE  Rank[items'[Parent(i)]] <= Rank[items'[i]]
    <3>1. /\ i \in 1 .. size - 1 /\ i \in Slots(capacity) /\ i # size - 1 /\ i # 0
          /\ Parent(i) \in Slots(capacity) /\ Parent(i) # size - 1
      BY <1>1, <1>3, ParentOf DEF Slots
    <3>2. Rank[items[Parent(i)]] <= Rank[items[i]]
      BY <1>1, <3>1 DEF Inv, SiftInvariant, Ordered
    <3> QED
      BY <1>4, <2>1, <3>1, <3>2
  <2>2. pc' = "down" /\ n' = 0 /\ n' < capacity'
    BY <1>1, <1>3
  <2>3. \A i \in 1 .. size' - 1 : Parent(i) # 0 => Ordered(i)'
    BY <2>1 DEF Ordered
  <2> QED
    BY <2>2, <2>3 DEF SiftInvariant
<1> QED
  BY <1>5, <1>6, <1>7 DEF Inv

(* Creation leaves an empty heap, destruction none. *)
LEMMA CreateDestroyKeepInv ==
  ASSUME Inv, Create \/ Destroy
  PROVE  Inv'
<1>1. /\ size' = 0 /\ pc' = "idle" /\ n' = n /\ n \in Nat
  BY DEF Inv, TypeOK, Create, Destroy
<1>2. CASE Create
  <2>1. /\ live' = TRUE /\ capacity' = 3 /\ blocks' = 2
        /\ items' = [i \in Slots(3) |-> Garbage]
        /\ reply' = [op |-> "create", ok |-> TRUE, item |-> Untouched]
    BY <1>2 DEF Create, Inv, MemoryMatches, Answer
  <2>2. TypeOK'
    <3>1. Slots(0) = {} /\ items' \in [DOMAIN items' -> Item \cup {NULL, Garbage}]
      BY <2>1 DEF Slots
    <3> QED
      BY <1>1, <2>1, <3>1 DEF TypeOK
  <2>3. MemoryMatches' /\ Addressable' /\ SiftInvariant'
    BY <1>1, <2>1, HeapAssumption DEF MemoryMatches, Addressable, SiftInvariant
  <2> QED
    BY <2>2, <2>3 DEF Inv
<1>3. CASE Destroy
  <2>1. /\ live' = FALSE /\ capacity' = 0 /\ blocks' = 0 /\ items' = NoSlots
        /\ reply' = [op |-> "destroy", ok |-> TRUE, item |-> Untouched]
    BY <1>3 DEF Destroy, Inv, MemoryMatches, Answer
  <2>2. /\ Slots(0) = {} /\ DOMAIN items' = {}
        /\ items' \in [DOMAIN items' -> Item \cup {NULL, Garbage}]
    BY <2>1 DEF Slots, NoSlots
  <2>3. TypeOK'
    BY <1>1, <2>1, <2>2 DEF TypeOK
  <2>4. MemoryMatches' /\ Addressable' /\ SiftInvariant'
    BY <1>1, <2>1, <2>2, ZeroSlotsFit
       DEF MemoryMatches, Addressable, SiftInvariant
  <2> QED
    BY <2>3, <2>4 DEF Inv
<1> QED
  BY <1>2, <1>3

(* The calls that change nothing but the reply. *)
LEMMA AnswerKeepsInv ==
  ASSUME Inv, CreateFails \/ PushFails \/ TakeFails \/ Peek
  PROVE  Inv'
<1>1. UNCHANGED <<live, size, capacity, items, blocks, pc, n>>
  BY DEF CreateFails, PushFails, TakeFails, Peek, Fail
<1>2. reply' \in [op : {"none", "create", "destroy", "push", "pop", "peek"},
                  ok : BOOLEAN, item : Item \cup {Untouched}]
  <2>1. CASE Peek
    <3>1. 0 \in Slots(size)
      BY <2>1 DEF Peek, Slots, Inv, TypeOK
    <3> QED
      BY <2>1, <3>1, RanksAreNat DEF Peek, Answer
  <2>2. ASSUME NEW op \in {"create", "push", "pop", "peek"}, Fail(op)
        PROVE  reply' \in [op : {"none", "create", "destroy", "push", "pop", "peek"},
                           ok : BOOLEAN, item : Item \cup {Untouched}]
    BY <2>2 DEF Fail, Answer
  <2>3. CASE CreateFails \/ PushFails \/ TakeFails
    BY <2>2, <2>3 DEF CreateFails, PushFails, TakeFails
  <2> QED
    BY <2>1, <2>3
<1>3. TypeOK'
  BY <1>1, <1>2 DEF Inv, TypeOK
<1>4. MemoryMatches' /\ Addressable' /\ SiftInvariant'
  BY <1>1 DEF Inv, MemoryMatches, Addressable, SiftInvariant, Ordered
<1> QED
  BY <1>3, <1>4 DEF Inv

LEMMA Invariance == Spec => []Inv
<1>1. Init => Inv
  BY InitInv
<1>2. ASSUME Inv, [Next]_vars
      PROVE  Inv'
  <2>1. CASE Create \/ Destroy
    BY <1>2, <2>1, CreateDestroyKeepInv
  <2>2. CASE CreateFails \/ PushFails \/ TakeFails \/ Peek
    BY <1>2, <2>2, AnswerKeepsInv
  <2>3. CASE \E x \in Item : Push(x) \/ PushGrowing(x)
    BY <1>2, <2>3, PushKeepsInv
  <2>4. CASE Pop
    BY <1>2, <2>4, PopKeepsInv
  <2>5. CASE SiftUp
    BY <1>2, <2>5, SiftUpKeepsInv
  <2>6. CASE SiftDown
    BY <1>2, <2>6, SiftDownKeepsInv
  <2>7. CASE SiftUpEnds \/ SiftDownEnds
    BY <1>2, <2>7, SiftEndsKeepInv
  <2>8. CASE UNCHANGED vars
    BY <1>2, <2>8 DEF vars, Inv, TypeOK, MemoryMatches, Addressable,
                      SiftInvariant, Ordered
  <2> QED
    BY <1>2, <2>1, <2>2, <2>3, <2>4, <2>5, <2>6, <2>7, <2>8 DEF Next, Sift
<1> QED
  BY <1>1, <1>2, PTL DEF Spec

------------------------------------------------------------------------------
(* Every step leaves the slots past the last item without an item pointer: *)
(* growth fills them with what realloc left there, and pop clears the slot *)
(* it vacates.                                                             *)
LEMMA StaleStep ==
  ASSUME Inv, StaleSlotsClear, [Next]_vars
  PROVE  StaleSlotsClear'
<1>1. /\ size \in Nat /\ capacity \in Nat /\ size <= capacity
      /\ capacity <= SizeMax /\ DOMAIN items = Slots(capacity)
      /\ pc = "up" => n < size
  BY GrantedInFull DEF Inv, TypeOK, MemoryMatches, Addressable, SiftInvariant
<1>2. CASE Create \/ Destroy
  BY <1>2 DEF Create, Destroy, NoSlots, StaleSlotsClear
<1>3. CASE \/ CreateFails \/ PushFails \/ TakeFails \/ Peek
           \/ SiftUpEnds \/ SiftDownEnds \/ UNCHANGED vars
  <2>1. UNCHANGED <<size, items>>
    BY <1>3 DEF CreateFails, PushFails, TakeFails, Fail, Peek, SiftUpEnds,
                SiftDownEnds, vars
  <2> QED
    BY <2>1 DEF StaleSlotsClear
<1>4. ASSUME NEW x \in Item, Push(x)
      PROVE  StaleSlotsClear'
  <2>1. size + 1 \in 0 .. SizeMax
    BY <1>1, <1>4, SizeAssumption DEF Push
  <2>2. size' = size + 1 /\ items' = [items EXCEPT ![size] = x]
    BY <1>4, <2>1, WrapFits DEF Push, Place
  <2>3. ASSUME NEW i \in DOMAIN items', i >= size + 1
        PROVE  items'[i] \in {NULL, Garbage}
    BY <1>1, <2>2, <2>3 DEF StaleSlotsClear, Slots
  <2> QED
    BY <2>2, <2>3 DEF StaleSlotsClear
<1>5. ASSUME NEW x \in Item, PushGrowing(x)
      PROVE  StaleSlotsClear'
  <2> DEFINE d == NewCapacity
             b == Reallocated
  <2>1. /\ d \in Nat /\ d > capacity /\ d <= SizeMax /\ size = capacity
        /\ b = [i \in Slots(d) |->
                  IF i \in Slots(capacity) THEN items[i] ELSE Garbage]
    BY <1>5, Growth, GrantedInFull DEF PushGrowing
  <2>2. size + 1 \in 0 .. SizeMax
    BY <1>1, <2>1, SizeAssumption
  <2>3. size' = size + 1 /\ items' = [b EXCEPT ![size] = x]
    BY <1>5, <2>2, WrapFits DEF PushGrowing, Place
  <2> HIDE DEF d, b
  <2>4. ASSUME NEW i \in DOMAIN items', i >= size + 1
        PROVE  items'[i] \in {NULL, Garbage}
    BY <1>1, <2>1, <2>3, <2>4 DEF Slots
  <2> QED
    BY <2>3, <2>4 DEF StaleSlotsClear
<1>6. CASE Pop
  <2>1. size > 0 /\ size' = size - 1
        /\ items' = [items EXCEPT ![0] = items[size - 1], ![size - 1] = NULL]
    BY <1>6 DEF Pop
  <2>2. ASSUME NEW i \in DOMAIN items', i >= size - 1
        PROVE  items'[i] \in {NULL, Garbage}
    <3>1. i \in Slots(capacity) /\ size - 1 \in Slots(capacity)
      BY <1>1, <2>1, <2>2 DEF Slots
    <3>2. CASE i = size - 1
      BY <1>1, <2>1, <3>1, <3>2
    <3>3. CASE i # size - 1
      BY <1>1, <2>1, <2>2, <3>1, <3>3 DEF Slots, StaleSlotsClear
    <3> QED
      BY <3>2, <3>3
  <2> QED
    BY <2>1, <2>2 DEF StaleSlotsClear
<1>7. ASSUME NEW j \in Slots(size), NEW k \in Slots(size),
             items' = Swapped(j, k), size' = size
      PROVE  StaleSlotsClear'
  <2>1. \A i \in DOMAIN items' :
          i >= size => i \in DOMAIN items /\ items'[i] = items[i]
    BY <1>1, <1>7 DEF Swapped, Slots
  <2> QED
    BY <1>7, <2>1 DEF StaleSlotsClear
<1>8. CASE SiftUp
  <2>1. n \in Slots(size) /\ Parent(n) \in Slots(size)
    BY <1>1, <1>8, ParentOf DEF SiftUp, Slots, Inv, TypeOK
  <2> QED
    BY <1>7, <1>8, <2>1 DEF SiftUp
<1>9. CASE SiftDown
  <2>1. n \in Slots(capacity) /\ live
    BY <1>1, <1>9 DEF SiftDown, Slots, Inv, TypeOK, SiftInvariant, MemoryMatches
  <2>2. Child \in Slots(size) /\ Child > n
    BY <1>9, <2>1, LowerChild DEF SiftDown
  <2>3. n \in Slots(size)
    BY <1>1, <2>1, <2>2 DEF Slots
  <2> QED
    BY <1>7, <1>9, <2>2, <2>3 DEF SiftDown
<1> QED
  BY <1>2, <1>3, <1>4, <1>5, <1>6, <1>8, <1>9 DEF Next, Sift

(* The overflow guards of binary_heap_push are enough for the buffer to    *)
(* have the slots its capacity says, no block is leaked, every slot in use *)
(* holds an item that was pushed, so that the comparator never meets a     *)
(* cleared or an uninitialised pointer, and no other slot holds one.       *)
THEOREM MemoryCorrect == Spec => []WellFormed
<1>1. Init => StaleSlotsClear
  BY DEF Init, StaleSlotsClear, NoSlots
<1>2. Inv /\ StaleSlotsClear /\ [Next]_vars => StaleSlotsClear'
  BY StaleStep
<1>3. Inv /\ StaleSlotsClear => WellFormed
  BY DEF Inv, WellFormed
<1> QED
  BY <1>1, <1>2, <1>3, Invariance, PTL DEF Spec

(* The loop invariant of both sift loops holds throughout every call. *)
THEOREM SiftCorrect == Spec => []SiftInvariant
<1>1. Inv => SiftInvariant
  BY DEF Inv
<1> QED
  BY <1>1, Invariance, PTL

(* In a heap no slot ranks below the root: the first slot that would has a *)
(* parent that does too.                                                   *)
LEMMA RootIsLeast ==
  ASSUME Inv, pc = "idle", NEW j \in Slots(size)
  PROVE  Rank[items[0]] <= Rank[items[j]]
<1> DEFINE Below == {i \in Slots(size) : Rank[items[i]] < Rank[items[0]]}
<1>1. size \in Nat /\ size > 0 /\ 0 \in Slots(size) /\ Below \subseteq Nat
  BY DEF Inv, TypeOK, Slots
<1>2. Below = {}
  <2> SUFFICES ASSUME Below # {} PROVE FALSE
    OBVIOUS
  <2>1. PICK m \in Below : \A k \in Below : m <= k
    BY <1>1, LeastExists
  <2>2. m \in Slots(size) /\ m \in Nat /\ Rank[items[m]] < Rank[items[0]]
    BY <1>1, <2>1
  <2> HIDE DEF Below
  <2>3. Rank[items[0]] \in Nat /\ Rank[items[m]] \in Nat
    BY <1>1, <2>2, RanksAreNat
  <2>4. m > 0 /\ m \in 1 .. size - 1
    BY <1>1, <2>2, <2>3 DEF Slots
  <2>5. Parent(m) \in Slots(size) /\ Parent(m) < m /\ Parent(m) \in Nat
    BY <1>1, <2>2, <2>4, ParentOf DEF Slots
  <2>6. Rank[items[Parent(m)]] <= Rank[items[m]]
    BY <2>4 DEF Inv, SiftInvariant, Ordered
  <2>7. Rank[items[Parent(m)]] \in Nat
    BY <2>5, RanksAreNat
  <2>8. Parent(m) \in Below
    BY <2>2, <2>3, <2>5, <2>6, <2>7 DEF Below
  <2> QED
    BY <2>1, <2>2, <2>5, <2>8
<1> QED
  BY <1>1, <1>2, RanksAreNat

(* What pop and peek return is an item of the lowest rank stored. *)
THEOREM RootCorrect == Spec => []LeastAtRoot
<1>1. Inv => LeastAtRoot
  BY RootIsLeast DEF LeastAtRoot
<1> QED
  BY <1>1, Invariance, PTL

(* The last slot a heap can occupy still has child indexes that a size_t   *)
(* holds, because the bytes of the buffer do.                              *)
LEMMA ViewRefusesNone ==
  ASSUME Inv, NEW i \in Slots(size)
  PROVE  ViewAnswers(i)
<1>1. size \in Nat /\ i \in Nat /\ i < size /\ capacity \in Nat /\ size <= capacity
  BY DEF Inv, TypeOK, MemoryMatches, Slots
<1>2. 2 * size <= SizeMax
  <2>1. 2 * capacity <= capacity * PtrSize
    BY <1>1, SizeAssumption, HeapAssumption
  <2>2. capacity * PtrSize <= SizeMax
    BY <1>1, SizeAssumption DEF Inv, Addressable, Fits
  <2> QED
    BY <1>1, <2>1, <2>2, SizeAssumption
<1>3. SizeMax \in Nat /\ i <= (SizeMax - 2) \div 2
  BY <1>1, <1>2, SizeAssumption
<1> QED
  BY <1>1, <1>3 DEF ViewAnswers

(* Whatever the heap was told, its GraphView shows one tree, in order.     *)
THEOREM ViewCorrect == Spec => []ViewIsHeap
<1>1. ASSUME Inv, pc = "idle" PROVE ViewIsHeap
  <2>1. ASSUME NEW i \in Slots(size)
        PROVE  i \in Slots(capacity) /\ live
    BY <1>1 DEF Inv, TypeOK, MemoryMatches, Slots
  <2>2. ASSUME NEW i \in Slots(size), NEW c \in Slots(size)
        PROVE  c \in Neighbors(i) <=> c > 0 /\ i = Parent(c)
    <3>1. i \in Nat /\ c \in Nat /\ size \in Nat /\ i < size /\ c < size
      BY <1>1 DEF Inv, TypeOK, Slots
    <3>2. Left(i) = 2 * i + 1 /\ Right(i) = 2 * i + 2
      BY <1>1, <2>1, ChildrenOf
    <3>3. c \in Neighbors(i) <=> c = 2 * i + 1 \/ c = 2 * i + 2
      BY <3>1, <3>2 DEF Neighbors
    <3> QED
      BY <3>1, <3>3 DEF Parent
  <2>3. ASSUME NEW i \in Slots(size), NEW c \in Neighbors(i)
        PROVE  Rank[items[i]] <= Rank[items[c]]
    <3>1. c \in Slots(size)
      <4>1. Left(i) = 2 * i + 1 /\ Right(i) = 2 * i + 2
        BY <1>1, <2>1, ChildrenOf
      <4>2. i \in Nat /\ size \in Nat
        BY <1>1 DEF Inv, TypeOK, Slots
      <4> QED
        BY <2>3, <4>1, <4>2 DEF Neighbors, Slots
    <3>2. c > 0 /\ i = Parent(c)
      BY <2>2, <2>3, <3>1
    <3>3. c \in 1 .. size - 1
      BY <1>1, <3>1, <3>2 DEF Inv, TypeOK, Slots
    <3> QED
      BY <1>1, <3>2, <3>3 DEF Inv, SiftInvariant, Ordered
  <2> QED
    BY <1>1, <2>2, <2>3, ViewRefusesNone DEF ViewIsHeap
<1>2. Inv => ViewIsHeap
  BY <1>1 DEF ViewIsHeap
<1> QED
  BY <1>2, Invariance, PTL

------------------------------------------------------------------------------
(* The slots below m of buffer a that hold x, and how many they are.       *)
At(a, m, x) == {i \in Slots(m) : a[i] = x}
Times(a, m, x) == Cardinality(At(a, m, x))

LEMMA TimesIsNat ==
  ASSUME NEW a, NEW m \in Nat, NEW x
  PROVE  /\ IsFiniteSet(At(a, m, x))
         /\ Times(a, m, x) \in Nat
         /\ Times(a, m, x) > 0 <=> \E i \in Slots(m) : a[i] = x
<1>1. IsFiniteSet(Slots(m))
  BY FS_Interval DEF Slots
<1>2. At(a, m, x) \in SUBSET Slots(m)
  BY DEF At
<1>3. IsFiniteSet(At(a, m, x))
  BY <1>1, <1>2, FS_Subset
<1>4. Times(a, m, x) \in Nat /\ (Times(a, m, x) = 0 <=> At(a, m, x) = {})
  BY <1>3, FS_CardinalityType, FS_EmptySet DEF Times
<1>5. At(a, m, x) # {} <=> \E i \in Slots(m) : a[i] = x
  BY DEF At
<1> QED
  BY <1>3, <1>4, <1>5

(* Only what the slots below m hold counts.                                *)
LEMMA TimesOfSame ==
  ASSUME NEW a, NEW b, NEW m \in Nat, NEW x, \A i \in Slots(m) : b[i] = a[i]
  PROVE  Times(b, m, x) = Times(a, m, x)
<1>1. At(b, m, x) = At(a, m, x)
  BY DEF At
<1> QED
  BY <1>1 DEF Times

(* A swap counts nothing twice and drops nothing.                          *)
LEMMA TimesOfSwap ==
  ASSUME NEW a, NEW b, NEW m \in Nat, NEW x, NEW j \in Slots(m), NEW k \in Slots(m),
         b[j] = a[k], b[k] = a[j],
         \A i \in Slots(m) : i # j /\ i # k => b[i] = a[i]
  PROVE  Times(b, m, x) = Times(a, m, x)
<1>1. /\ IsFiniteSet(At(a, m, x)) /\ Times(a, m, x) \in Nat
      /\ IsFiniteSet(At(b, m, x)) /\ Times(b, m, x) \in Nat
  BY TimesIsNat
<1>2. CASE (a[j] = x) = (a[k] = x)
  <2>1. At(b, m, x) = At(a, m, x)
    BY <1>2 DEF At
  <2> QED
    BY <2>1 DEF Times
<1>3. ASSUME NEW p \in {j, k}, NEW q \in {j, k}, p # q, a[p] = x, a[q] # x,
             b[p] = a[q], b[q] = a[p]
      PROVE  Times(b, m, x) = Times(a, m, x)
  <2> DEFINE rest == At(a, m, x) \ {p}
  <2>1. p \in At(a, m, x) /\ q \notin rest /\ At(b, m, x) = rest \cup {q}
    BY <1>3 DEF At
  <2>2. IsFiniteSet(rest) /\ Cardinality(rest) = Times(a, m, x) - 1
    BY <1>1, <2>1, FS_RemoveElement DEF Times
  <2> HIDE DEF rest
  <2>3. Cardinality(rest \cup {q}) = Cardinality(rest) + 1
    BY <2>1, <2>2, FS_AddElement
  <2> QED
    BY <1>1, <2>1, <2>2, <2>3 DEF Times
<1>4. CASE a[j] = x /\ a[k] # x
  <2>1. j # k
    BY <1>4
  <2> QED
    BY <1>3, <1>4, <2>1
<1>5. CASE a[k] = x /\ a[j] # x
  <2>1. j # k
    BY <1>5
  <2> QED
    BY <1>3, <1>5, <2>1
<1> QED
  BY <1>2, <1>4, <1>5

(* One slot more.                                                          *)
LEMMA TimesOfNext ==
  ASSUME NEW a, NEW m \in Nat, NEW x
  PROVE  Times(a, m + 1, x) = IF a[m] = x THEN Times(a, m, x) + 1 ELSE Times(a, m, x)
<1>1. IsFiniteSet(At(a, m, x))
  BY TimesIsNat
<1>2. Slots(m + 1) = Slots(m) \cup {m} /\ m \notin Slots(m)
  BY DEF Slots
<1>3. m \notin At(a, m, x)
  BY <1>2 DEF At
<1>4. CASE a[m] = x
  <2>1. At(a, m + 1, x) = At(a, m, x) \cup {m}
    BY <1>2, <1>4 DEF At
  <2> QED
    BY <1>1, <1>3, <1>4, <2>1, FS_AddElement DEF Times
<1>5. CASE a[m] # x
  <2>1. At(a, m + 1, x) = At(a, m, x)
    BY <1>2, <1>5 DEF At
  <2> QED
    BY <1>5, <2>1 DEF Times
<1> QED
  BY <1>4, <1>5

(* The bag is what Times counts of every item.                             *)
LEMMA StoredIs ==
  /\ Stored = [x \in Item |-> Times(items, size, x)]
  /\ Stored' = [x \in Item |-> Times(items', size', x)]
BY DEF Stored, Times, At

LEMMA EmptyBag ==
  ASSUME NEW a
  PROVE  \A x : Times(a, 0, x) = 0
<1>1. Slots(0) = {} /\ 0 \in Nat
  BY DEF Slots
<1> SUFFICES ASSUME NEW x PROVE Times(a, 0, x) = 0
  OBVIOUS
<1>2. Times(a, 0, x) \in Nat /\ ~(Times(a, 0, x) > 0)
  BY <1>1, TimesIsNat
<1> QED
  BY <1>2

LEMMA InitMaps == Init => Promise!Init
<1> SUFFICES ASSUME Init PROVE Promise!Init
  OBVIOUS
<1>1. Stored = [x \in Item |-> 0]
  BY EmptyBag, StoredIs DEF Init
<1> QED
  BY <1>1 DEF Init, Promise!Init, Promise!Nothing, Promise!Answer

(* Calls that fail, and those that begin and end the life of a heap.       *)
LEMMA FailMaps ==
  ASSUME CreateFails \/ PushFails \/ TakeFails
  PROVE  Promise!Next
<1>1. PICK op \in {"create", "push", "pop", "peek"} : Fail(op)
  BY DEF CreateFails, PushFails, TakeFails
<1>2. Stored' = Stored
  BY <1>1, StoredIs DEF Fail
<1> QED
  BY <1>1, <1>2 DEF Fail, Answer, Promise!Next, Promise!Refuse, Promise!Answer

LEMMA CreateDestroyMap ==
  ASSUME Create \/ Destroy
  PROVE  Promise!Next
<1>1. PICK op \in {"create", "destroy"} : size' = 0 /\ Answer(op, TRUE, Untouched)
  BY DEF Create, Destroy
<1>2. Stored' = [x \in Item |-> 0]
  BY <1>1, EmptyBag, StoredIs
<1> QED
  BY <1>1, <1>2 DEF Answer, Promise!Next, Promise!Reset, Promise!Nothing, Promise!Answer

(* Between calls the root is one of the lowest stored.                     *)
LEMMA RootIsLowest ==
  ASSUME Inv, pc = "idle", size > 0
  PROVE  items[0] \in Item /\ Promise!Lowest(items[0])
<1>1. size \in Nat /\ 0 \in Slots(size) /\ items[0] \in Item
  BY DEF Inv, TypeOK, Slots
<1>2. Stored[items[0]] > 0
  BY <1>1, TimesIsNat, StoredIs
<1>3. ASSUME NEW y \in Item, Stored[y] > 0
      PROVE  Rank[items[0]] <= Rank[y]
  <2>1. PICK i \in Slots(size) : items[i] = y
    BY <1>1, <1>3, TimesIsNat, StoredIs
  <2> QED
    BY <2>1, RootIsLeast
<1> QED
  BY <1>1, <1>2, <1>3 DEF Promise!Lowest

LEMMA PeekMaps ==
  ASSUME Inv, Peek
  PROVE  Promise!Next
<1>1. Stored' = Stored
  BY StoredIs DEF Peek
<1>2. items[0] \in Item /\ Promise!Lowest(items[0])
  BY RootIsLowest DEF Peek
<1> QED
  BY <1>1, <1>2 DEF Peek, Answer, Promise!Next, Promise!Peek, Promise!Answer

(* The store of binary_heap_push adds one item.                            *)
LEMMA PlaceMaps ==
  ASSUME Inv, NEW x \in Item, NEW c \in Nat, NEW b,
         b \in [Slots(c) -> Item \cup {NULL, Garbage}],
         size < c, Fits(c), \A i \in Slots(size) : b[i] = items[i],
         Place(b, x)
  PROVE  Promise!Next
<1>1. size \in Nat /\ size \in Slots(c) /\ c <= SizeMax
  BY GrantedInFull DEF Inv, TypeOK, Slots
<1>2. size + 1 \in 0 .. SizeMax
  BY <1>1, SizeAssumption
<1>3. size' = size + 1 /\ items' = [b EXCEPT ![size] = x] /\ Answer("push", TRUE, Untouched)
  BY <1>2, WrapFits DEF Place
<1>4. items'[size] = x /\ \A i \in Slots(size) : items'[i] = items[i]
  BY <1>1, <1>3 DEF Slots
<1>5. ASSUME NEW y \in Item
      PROVE  Times(items', size', y) = IF y = x THEN Times(items, size, y) + 1
                                       ELSE Times(items, size, y)
  <2>1. Times(items', size, y) = Times(items, size, y)
    BY <1>1, <1>4, TimesOfSame
  <2>2. Times(items', size + 1, y) = IF items'[size] = y THEN Times(items', size, y) + 1
                                     ELSE Times(items', size, y)
    BY <1>1, TimesOfNext
  <2> QED
    BY <1>3, <1>4, <2>1, <2>2
<1>6. Stored' = [Stored EXCEPT ![x] = @ + 1]
  BY <1>5, StoredIs
<1> QED
  BY <1>3, <1>6 DEF Answer, Promise!Next, Promise!Push, Promise!Answer

LEMMA PushMaps ==
  ASSUME Inv, NEW x \in Item, Push(x) \/ PushGrowing(x)
  PROVE  Promise!Next
<1>1. /\ capacity \in Nat /\ size <= capacity /\ size \in Nat /\ Fits(capacity)
      /\ items \in [Slots(capacity) -> Item \cup {NULL, Garbage}]
  BY DEF Inv, TypeOK, MemoryMatches, Addressable
<1>2. CASE Push(x)
  <2>1. size < capacity /\ Place(items, x)
    BY <1>1, <1>2 DEF Push
  <2> QED
    BY <1>1, <2>1, PlaceMaps
<1>3. CASE PushGrowing(x)
  <2> DEFINE d == NewCapacity
  <2>1. size = capacity /\ CanGrow /\ Place(Reallocated, x)
    BY <1>3 DEF PushGrowing
  <2>2. /\ d \in Nat /\ d > capacity /\ Fits(d)
        /\ Reallocated = [i \in Slots(d) |->
                            IF i \in Slots(capacity) THEN items[i] ELSE Garbage]
    BY <2>1, Growth
  <2> HIDE DEF d
  <2>3. /\ Reallocated \in [Slots(d) -> Item \cup {NULL, Garbage}]
        /\ \A i \in Slots(size) : Reallocated[i] = items[i]
    BY <1>1, <2>1, <2>2 DEF Slots
  <2> QED
    BY <1>1, <2>1, <2>2, <2>3, PlaceMaps
<1> QED
  BY <1>2, <1>3

(* Taking the root away is swapping it with the last item and forgetting   *)
(* the last slot.                                                          *)
LEMMA PopMaps ==
  ASSUME Inv, Pop
  PROVE  Promise!Next
<1>1. /\ size \in Nat /\ size > 0 /\ capacity \in Nat /\ size <= capacity /\ pc = "idle"
      /\ DOMAIN items = Slots(capacity) /\ items \in [Slots(capacity) -> Item \cup {NULL, Garbage}]
  BY DEF Inv, TypeOK, MemoryMatches, Pop
<1>2. /\ size' = size - 1 /\ Answer("pop", TRUE, items[0])
      /\ items' = [items EXCEPT ![0] = items[size - 1], ![size - 1] = NULL]
  BY DEF Pop
<1>3. items[0] \in Item /\ Promise!Lowest(items[0])
  BY <1>1, RootIsLowest
<1> DEFINE last == size - 1
           swapped == Swapped(0, last)
<1>4. /\ last \in Nat /\ last + 1 = size /\ 0 \in Slots(size) /\ last \in Slots(size)
      /\ 0 \in Slots(capacity) /\ last \in Slots(capacity)
      /\ \A i \in Slots(size) : i \in Slots(capacity)
  BY <1>1 DEF Slots
<1>5. /\ swapped[0] = items[last] /\ swapped[last] = items[0]
      /\ \A i \in Slots(size) : i # 0 /\ i # last => swapped[i] = items[i]
  BY <1>1, <1>4 DEF Swapped
<1>6. \A i \in Slots(last) : items'[i] = swapped[i]
  <2> SUFFICES ASSUME NEW i \in Slots(last) PROVE items'[i] = swapped[i]
    OBVIOUS
  <2>1. i \in Slots(capacity) /\ i # last
    BY <1>1, <1>4 DEF Slots
  <2> QED
    BY <1>1, <1>2, <1>4, <2>1 DEF Swapped
<1> HIDE DEF last, swapped
<1>7. ASSUME NEW y \in Item
      PROVE  Times(items', size', y) = IF y = items[0] THEN Times(items, size, y) - 1
                                       ELSE Times(items, size, y)
  <2>1. Times(items', last, y) = Times(swapped, last, y)
    BY <1>4, <1>6, TimesOfSame
  <2>2. Times(swapped, last + 1, y) = IF swapped[last] = y THEN Times(swapped, last, y) + 1
                                      ELSE Times(swapped, last, y)
    BY <1>4, TimesOfNext
  <2>3. Times(swapped, size, y) = Times(items, size, y)
    BY <1>1, <1>4, <1>5, TimesOfSwap
  <2>4. Times(swapped, last, y) \in Nat
    BY <1>4, TimesIsNat
  <2>5. size' = last
    BY <1>2 DEF last
  <2> QED
    BY <1>4, <1>5, <2>1, <2>2, <2>3, <2>4, <2>5
<1>8. Stored' = [Stored EXCEPT ![items[0]] = @ - 1]
  BY <1>3, <1>7, StoredIs
<1> QED
  BY <1>2, <1>3, <1>8 DEF Answer, Promise!Next, Promise!Pop, Promise!Answer

(* A turn of a sift loop cannot be seen.                                   *)
LEMMA SiftMaps ==
  ASSUME Inv, Sift
  PROVE  UNCHANGED Promise!vars
<1>1. size \in Nat /\ capacity \in Nat /\ DOMAIN items = Slots(capacity) /\ size <= capacity
  BY DEF Inv, TypeOK, MemoryMatches
<1>2. UNCHANGED <<size, reply>>
  BY DEF Sift, SiftUp, SiftUpEnds, SiftDown, SiftDownEnds
<1>3. ASSUME NEW j \in Slots(size), NEW k \in Slots(size), items' = Swapped(j, k)
      PROVE  Stored' = Stored
  <2>1. /\ items'[j] = items[k] /\ items'[k] = items[j]
        /\ \A i \in Slots(size) : i # j /\ i # k => items'[i] = items[i]
    BY <1>1, <1>3 DEF Swapped, Slots
  <2> DEFINE b == items'
  <2>2. /\ b[j] = items[k] /\ b[k] = items[j]
        /\ \A i \in Slots(size) : i # j /\ i # k => b[i] = items[i]
    BY <2>1
  <2> HIDE DEF b
  <2>3. ASSUME NEW x
        PROVE  Times(b, size, x) = Times(items, size, x)
    BY <1>1, <2>2, TimesOfSwap
  <2> QED
    BY <1>2, <2>3, StoredIs DEF b
<1>4. CASE SiftUp
  <2>1. n \in Slots(size) /\ Parent(n) \in Slots(size)
    BY <1>1, <1>4, ParentOf DEF SiftUp, Slots, Inv, TypeOK, SiftInvariant
  <2> QED
    BY <1>2, <1>3, <1>4, <2>1 DEF SiftUp, Promise!vars
<1>5. CASE SiftDown
  <2>1. n \in Slots(capacity) /\ live
    BY <1>1, <1>5 DEF SiftDown, Slots, Inv, TypeOK, SiftInvariant, MemoryMatches
  <2>2. Child \in Slots(size) /\ Child > n
    BY <1>5, <2>1, LowerChild DEF SiftDown
  <2>3. n \in Slots(size)
    BY <1>1, <2>1, <2>2 DEF Slots
  <2> QED
    BY <1>2, <1>3, <1>5, <2>2, <2>3 DEF SiftDown, Promise!vars
<1>6. CASE SiftUpEnds \/ SiftDownEnds
  <2>1. items' = items
    BY <1>6 DEF SiftUpEnds, SiftDownEnds
  <2>2. Stored' = Stored
    BY <1>2, <2>1, StoredIs
  <2> QED
    BY <1>2, <2>2 DEF Promise!vars
<1> QED
  BY <1>4, <1>5, <1>6 DEF Sift

LEMMA NextMaps ==
  ASSUME Inv, [Next]_vars
  PROVE  [Promise!Next]_(Promise!vars)
<1>1. CASE Create \/ Destroy
  BY <1>1, CreateDestroyMap
<1>2. CASE CreateFails \/ PushFails \/ TakeFails
  BY <1>2, FailMaps
<1>3. ASSUME NEW x \in Item, Push(x) \/ PushGrowing(x) PROVE Promise!Next
  BY <1>3, PushMaps
<1>4. CASE Pop
  BY <1>4, PopMaps
<1>5. CASE Peek
  BY <1>5, PeekMaps
<1>6. CASE Sift
  BY <1>6, SiftMaps
<1>7. CASE UNCHANGED vars
  <2>1. Stored' = Stored
    BY <1>7, StoredIs DEF vars
  <2> QED
    BY <1>7, <2>1 DEF vars, Promise!vars
<1> QED
  BY <1>1, <1>2, <1>3, <1>4, <1>5, <1>6, <1>7 DEF Next

(* To its caller the array heap is a bag from which the lowest comes out:  *)
(* the swaps of a sift and the growth of the buffer lose and duplicate     *)
(* nothing, and what pop and peek return is the lowest of all.             *)
THEOREM PriorityQueueImplemented == Spec => ImplementsPriorityQueue
<1>1. Init => Promise!Init
  BY InitMaps
<1>2. Inv /\ [Next]_vars => [Promise!Next]_(Promise!vars)
  BY NextMaps
<1> QED
  BY <1>1, <1>2, Invariance, PTL DEF Spec, ImplementsPriorityQueue, Promise!Spec

(* In the composition with the trie the heap makes no steps but its own:   *)
(* what is proved of Spec holds of it too.                                 *)
LEMMA TreesRunHeap == TreesSpec => Spec
<1>1. TreesInit => Init
  BY DEF TreesInit
<1>2. [TreesNext]_treesVars => [Next]_vars
  BY DEF TreesNext, treesVars
<1> QED
  BY <1>1, <1>2, PTL DEF TreesSpec, Spec

------------------------------------------------------------------------------
(* Operators of Sequences, under names the provers match on. *)
Paths == Seq(Char)
UptoOf(k, i) == SubSeq(k, 1, i)
Under(p, c) == Append(p, c)

LEMMA UptoIs ==
  ASSUME NEW k \in Paths, NEW i \in 0 .. Len(k)
  PROVE  /\ UptoOf(k, i) \in Paths /\ Len(UptoOf(k, i)) = i
         /\ \A j \in 1 .. i : UptoOf(k, i)[j] = k[j]
<1>1. \A j \in 1 .. i : k[j] \in Char
  BY ElementOfSeq DEF Paths
<1> QED
  BY <1>1, SubSeqProperties DEF Paths, UptoOf

LEMMA PathEqual ==
  ASSUME NEW p \in Paths, NEW q \in Paths, Len(p) = Len(q), \A j \in 1 .. Len(p) : p[j] = q[j]
  PROVE  p = q
BY SeqEqual DEF Paths

LEMMA AppendIs ==
  ASSUME NEW p \in Paths, NEW x \in Char
  PROVE  /\ Under(p, x) \in Paths /\ Len(Under(p, x)) = Len(p) + 1
         /\ \A j \in 1 .. Len(p) : Under(p, x)[j] = p[j]
         /\ Under(p, x)[Len(p) + 1] = x
         /\ Under(p, x) # <<>>
BY DEF Paths, Under

LEMMA UptoEnds ==
  ASSUME NEW k \in Paths
  PROVE  UptoOf(k, 0) = <<>> /\ UptoOf(k, Len(k)) = k
<1>1. Len(k) \in Nat
  BY LenProperties DEF Paths
<1>2. UptoOf(k, 0) \in Paths /\ Len(UptoOf(k, 0)) = 0 /\ <<>> \in Paths /\ Len(<<>>) = 0
  BY <1>1, UptoIs DEF Paths
<1>3. UptoOf(k, 0) = <<>>
  BY <1>2, PathEqual
<1>4. /\ UptoOf(k, Len(k)) \in Paths /\ Len(UptoOf(k, Len(k))) = Len(k)
      /\ \A j \in 1 .. Len(k) : UptoOf(k, Len(k))[j] = k[j]
  BY <1>1, UptoIs
<1> QED
  BY <1>3, <1>4, PathEqual

LEMMA UptoUpto ==
  ASSUME NEW k \in Paths, NEW i \in 0 .. Len(k), NEW j \in 0 .. i
  PROVE  UptoOf(UptoOf(k, i), j) = UptoOf(k, j)
<1>1. Len(k) \in Nat
  BY LenProperties DEF Paths
<1>2. /\ UptoOf(k, i) \in Paths /\ Len(UptoOf(k, i)) = i
      /\ \A m \in 1 .. i : UptoOf(k, i)[m] = k[m]
  BY UptoIs
<1>3. /\ UptoOf(k, j) \in Paths /\ Len(UptoOf(k, j)) = j
      /\ \A m \in 1 .. j : UptoOf(k, j)[m] = k[m]
  BY <1>1, UptoIs
<1> DEFINE q == UptoOf(k, i)
<1>4. /\ UptoOf(q, j) \in Paths /\ Len(UptoOf(q, j)) = j
      /\ \A m \in 1 .. j : UptoOf(q, j)[m] = q[m]
  <2> HIDE DEF q
  <2>1. q \in Paths /\ j \in 0 .. Len(q)
    BY <1>2 DEF q
  <2> QED
    BY <2>1, UptoIs
<1>5. \A m \in 1 .. j : UptoOf(q, j)[m] = UptoOf(k, j)[m]
  BY <1>1, <1>2, <1>3, <1>4
<1> HIDE DEF q
<1> QED
  BY <1>3, <1>4, <1>5, PathEqual DEF q

LEMMA UptoStep ==
  ASSUME NEW k \in Paths, NEW i \in 0 .. Len(k) - 1
  PROVE  k[i + 1] \in Char /\ Under(UptoOf(k, i), k[i + 1]) = UptoOf(k, i + 1)
<1>1. Len(k) \in Nat
  BY LenProperties DEF Paths
<1>2. k[i + 1] \in Char
  BY <1>1, ElementOfSeq DEF Paths
<1>3. /\ UptoOf(k, i) \in Paths /\ Len(UptoOf(k, i)) = i
      /\ \A m \in 1 .. i : UptoOf(k, i)[m] = k[m]
  BY <1>1, UptoIs
<1>4. /\ UptoOf(k, i + 1) \in Paths /\ Len(UptoOf(k, i + 1)) = i + 1
      /\ \A m \in 1 .. i + 1 : UptoOf(k, i + 1)[m] = k[m]
  BY <1>1, UptoIs
<1> DEFINE q == Under(UptoOf(k, i), k[i + 1])
<1>5. /\ q \in Paths /\ Len(q) = i + 1
      /\ \A j \in 1 .. i : q[j] = k[j]
      /\ q[i + 1] = k[i + 1]
  <2> DEFINE u == UptoOf(k, i)
             x == k[i + 1]
  <2>1. /\ u \in Paths /\ Len(u) = i /\ x \in Char /\ q = Under(u, x)
        /\ \A j \in 1 .. i : u[j] = k[j]
    BY <1>2, <1>3
  <2> HIDE DEF u, q
  <2>2. /\ q \in Paths /\ Len(q) = Len(u) + 1
        /\ \A j \in 1 .. Len(u) : q[j] = u[j]
        /\ q[Len(u) + 1] = x
    BY <2>1, AppendIs
  <2> QED
    BY <2>1, <2>2
<1> HIDE DEF q
<1>6. \A j \in 1 .. Len(q) : q[j] = UptoOf(k, i + 1)[j]
  BY <1>1, <1>4, <1>5
<1> QED
  BY <1>2, <1>4, <1>5, <1>6, PathEqual DEF q

LEMMA AppendParts ==
  ASSUME NEW p \in Paths, NEW x \in Char
  PROVE  /\ UptoOf(Under(p, x), Len(p)) = p
         /\ \A j \in 0 .. Len(p) : UptoOf(Under(p, x), j) = UptoOf(p, j)
<1> DEFINE q == Under(p, x)
<1>1. Len(p) \in Nat
  BY LenProperties DEF Paths
<1>2. q \in Paths /\ Len(q) = Len(p) + 1 /\ \A j \in 1 .. Len(p) : q[j] = p[j]
  BY AppendIs
<1> HIDE DEF q
<1>3. ASSUME NEW j \in 0 .. Len(p) PROVE UptoOf(q, j) = UptoOf(p, j)
  <2>1. /\ UptoOf(p, j) \in Paths /\ Len(UptoOf(p, j)) = j
        /\ \A m \in 1 .. j : UptoOf(p, j)[m] = p[m]
    BY UptoIs
  <2>2. /\ UptoOf(q, j) \in Paths /\ Len(UptoOf(q, j)) = j
        /\ \A m \in 1 .. j : UptoOf(q, j)[m] = q[m]
    BY <1>1, <1>2, UptoIs
  <2>3. \A m \in 1 .. j : UptoOf(q, j)[m] = UptoOf(p, j)[m]
    BY <1>1, <1>2, <2>1, <2>2
  <2> QED
    BY <2>1, <2>2, <2>3, PathEqual
<1>4. UptoOf(q, Len(p)) = p
  BY <1>1, <1>3, UptoEnds
<1> QED
  BY <1>3, <1>4 DEF q

LEMMA AppendsDiffer ==
  ASSUME NEW p \in Paths, NEW q \in Paths, NEW x \in Char, NEW y \in Char,
         Under(p, x) = Under(q, y)
  PROVE  p = q /\ x = y
BY AppendInjective DEF Paths, Under

LEMMA PathParts ==
  ASSUME NEW p \in Paths, p # <<>>
  PROVE  /\ Len(p) \in Nat /\ Len(p) >= 1
         /\ UptoOf(p, Len(p) - 1) \in Paths /\ p[Len(p)] \in Char
         /\ p = Under(UptoOf(p, Len(p) - 1), p[Len(p)])
<1>1. Len(p) \in Nat /\ Len(p) >= 1
  BY EmptySeq DEF Paths
<1>2. UptoOf(p, Len(p) - 1) \in Paths
  BY <1>1, UptoIs
<1>3. (Len(p) - 1) + 1 = Len(p) /\ Len(p) - 1 \in 0 .. Len(p) - 1
  BY <1>1
<1>4. p[Len(p)] \in Char /\ Under(UptoOf(p, Len(p) - 1), p[Len(p)]) = UptoOf(p, Len(p))
  BY <1>3, UptoStep
<1> QED
  BY <1>1, <1>2, <1>4, UptoEnds

------------------------------------------------------------------------------
(* Child arrays that make a tree: siblings differ, a slot leads to a node, *)
(* and a node hangs from a slot.                                           *)
Sprouts(ch) ==
  /\ DOMAIN ch \subseteq Paths /\ IsFiniteSet(DOMAIN ch)
  /\ \A p \in DOMAIN ch :
       /\ ch[p] \in Seq(Char)
       /\ \A m, h \in 1 .. Len(ch[p]) : m # h => ch[p][m] # ch[p][h]
       /\ \A m \in 1 .. Len(ch[p]) : Under(p, ch[p][m]) \in DOMAIN ch
  /\ \A p \in Paths : \A c \in Char :
       Under(p, c) \in DOMAIN ch =>
         p \in DOMAIN ch /\ \E m \in 1 .. Len(ch[p]) : ch[p][m] = c

LEMMA PrefixesStay ==
  ASSUME NEW ch, Sprouts(ch), NEW p \in DOMAIN ch
  PROVE  p \in Paths /\ Len(p) \in Nat /\ \A j \in 0 .. Len(p) : UptoOf(p, j) \in DOMAIN ch
<1>1. p \in Paths
  BY DEF Sprouts
<1>2. Len(p) \in Nat
  BY <1>1 DEF Paths
<1> DEFINE S == {i \in 0 .. Len(p) : UptoOf(p, Len(p) - i) \in DOMAIN ch}
<1>3. 0 \in S
  <2>1. Len(p) - 0 = Len(p)
    BY <1>2
  <2> QED
    BY <1>1, <1>2, <2>1, UptoEnds
<1>4. ASSUME NEW i \in 1 .. Len(p), i - 1 \in S PROVE i \in S
  <2> DEFINE j == Len(p) - i
  <2>1. j \in 0 .. Len(p) - 1 /\ j + 1 = Len(p) - (i - 1) /\ j \in 0 .. Len(p)
    BY <1>2
  <2>2. UptoOf(p, j + 1) \in DOMAIN ch
    BY <1>4, <2>1
  <2>3. p[j + 1] \in Char /\ Under(UptoOf(p, j), p[j + 1]) = UptoOf(p, j + 1)
    BY <1>1, <2>1, UptoStep
  <2>4. UptoOf(p, j) \in Paths
    BY <1>1, <2>1, UptoIs
  <2>5. UptoOf(p, j) \in DOMAIN ch
    BY <2>2, <2>3, <2>4 DEF Sprouts
  <2> QED
    BY <1>2, <2>5
<1> HIDE DEF S
<1>5. \A i \in 0 .. Len(p) : i \in S
  BY <1>2, <1>3, <1>4, Upward
<1>6. ASSUME NEW j \in 0 .. Len(p) PROVE UptoOf(p, j) \in DOMAIN ch
  <2>1. Len(p) - j \in 0 .. Len(p) /\ Len(p) - (Len(p) - j) = j
    BY <1>2
  <2>2. Len(p) - j \in S
    BY <1>5, <2>1
  <2> QED
    BY <2>1, <2>2 DEF S
<1> QED
  BY <1>1, <1>2, <1>6

(* A longer prefix is a node only if the shorter ones are. *)
LEMMA ShorterToo ==
  ASSUME NEW ch, Sprouts(ch), NEW k \in Paths, NEW i \in 0 .. Len(k), NEW j \in 0 .. i,
         UptoOf(k, i) \in DOMAIN ch
  PROVE  UptoOf(k, j) \in DOMAIN ch
<1>1. Len(UptoOf(k, i)) = i
  BY UptoIs
<1>2. UptoOf(UptoOf(k, i), j) = UptoOf(k, j)
  BY UptoUpto
<1>3. UptoOf(UptoOf(k, i), j) \in DOMAIN ch
  BY <1>1, PrefixesStay
<1> QED
  BY <1>2, <1>3

LEMMA LinkedIs ==
  ASSUME NEW ch, Sprouts(ch), NEW p \in Paths, NEW c \in Char
  PROVE  Under(p, c) \in DOMAIN ch <=>
           p \in DOMAIN ch /\ \E m \in 1 .. Len(ch[p]) : ch[p][m] = c
BY DEF Sprouts

LEMMA FollowsIff ==
  ASSUME Sprouts(children), <<>> \in DOMAIN children, NEW k \in Paths, NEW i \in 0 .. Len(k)
  PROVE  Trie!Follows(k, i) <=> UptoOf(k, i) \in DOMAIN children
<1>1. Len(k) \in Nat
  BY DEF Paths
<1>2. ASSUME NEW j \in 1 .. i
      PROVE  /\ j - 1 \in 0 .. Len(k) - 1 /\ UptoOf(k, j - 1) \in Paths /\ k[j] \in Char
             /\ Under(UptoOf(k, j - 1), k[j]) = UptoOf(k, j)
  <2>1. j - 1 \in 0 .. Len(k) - 1 /\ (j - 1) + 1 = j /\ j - 1 \in 0 .. Len(k)
    BY <1>1
  <2> QED
    BY <2>1, UptoIs, UptoStep
<1>3. ASSUME NEW j \in 1 .. i
      PROVE  (Trie!Upto(k, j - 1) \in Trie!Nodes /\ Trie!Linked(Trie!Upto(k, j - 1), k[j]))
               <=> UptoOf(k, j) \in DOMAIN children
  <2>1. Trie!Upto(k, j - 1) = UptoOf(k, j - 1) /\ Trie!Nodes = DOMAIN children
    BY DEF Trie!Upto, Trie!Nodes, UptoOf
  <2>2. Trie!Linked(UptoOf(k, j - 1), k[j])
          <=> \E m \in 1 .. Len(children[UptoOf(k, j - 1)]) : children[UptoOf(k, j - 1)][m] = k[j]
    BY DEF Trie!Linked, Trie!Occupied
  <2> QED
    BY <1>2, <2>1, <2>2, LinkedIs
<1>4. CASE i = 0
  <2>1. UptoOf(k, i) = <<>>
    BY <1>4, UptoEnds
  <2> QED
    BY <1>4, <2>1 DEF Trie!Follows
<1>5. CASE i > 0
  <2>1. ASSUME Trie!Follows(k, i) PROVE UptoOf(k, i) \in DOMAIN children
    <3>1. i \in 1 .. i
      BY <1>1, <1>5
    <3> QED
      BY <1>3, <2>1, <3>1 DEF Trie!Follows
  <2>2. ASSUME UptoOf(k, i) \in DOMAIN children PROVE Trie!Follows(k, i)
    <3>1. \A j \in 1 .. i : UptoOf(k, j) \in DOMAIN children
      BY <1>1, <2>2, ShorterToo
    <3> QED
      BY <1>3, <3>1 DEF Trie!Follows
  <2> QED
    BY <2>1, <2>2
<1> QED
  BY <1>1, <1>4, <1>5

LEMMA KeysArePaths ==
  ASSUME NEW k \in TrieKey
  PROVE  k \in Paths /\ k # <<>> /\ Len(k) \in Nat /\ Len(k) >= 1
<1>1. k \in Paths /\ k # <<>>
  BY TrieAssumption DEF Trie!KeyAssumption, Paths
<1> QED
  BY <1>1, PathParts

LEMMA NoKeyIsNoPath == NoKey \notin Paths
BY TrieAssumption DEF Trie!KeyAssumption, Paths

(* The prefixes of k longer than i. *)
Span(k, i) == {UptoOf(k, j) : j \in i + 1 .. Len(k)}

LEMMA SpanCount ==
  ASSUME NEW k \in Paths, NEW i \in 0 .. Len(k)
  PROVE  IsFiniteSet(Span(k, i)) /\ Cardinality(Span(k, i)) = Len(k) - i
<1>1. Len(k) \in Nat
  BY DEF Paths
<1> DEFINE S == i + 1 .. Len(k)
           f == [j \in S |-> UptoOf(k, j)]
<1>2. IsFiniteSet(S) /\ Cardinality(S) = Len(k) - i
  <2>1. i + 1 \in Int /\ Len(k) \in Int
    BY <1>1
  <2>2. IsFiniteSet(S) /\ Cardinality(S) = IF i + 1 > Len(k) THEN 0 ELSE Len(k) - (i + 1) + 1
    BY <2>1, FS_Interval
  <2> QED
    BY <1>1, <2>2
<1>3. f \in [S -> Span(k, i)] /\ \A q \in Span(k, i) : \E j \in S : f[j] = q
  BY DEF Span
<1>4. ASSUME NEW j \in S, NEW m \in S, f[j] = f[m] PROVE j = m
  <2>1. Len(UptoOf(k, j)) = j /\ Len(UptoOf(k, m)) = m
    BY <1>1, UptoIs
  <2> QED
    BY <1>4, <2>1
<1>5. f \in Bijection(S, Span(k, i))
  BY <1>3, <1>4 DEF Bijection, Injection, Surjection, IsInjective
<1>6. ExistsBijection(S, Span(k, i))
  BY <1>5 DEF ExistsBijection
<1> QED
  BY <1>2, <1>6, FS_Bijection

LEMMA SpanBelow ==
  ASSUME NEW ch, Sprouts(ch), NEW k \in Paths, NEW i \in 0 .. Len(k) - 1,
         UptoOf(k, i) \in DOMAIN ch, UptoOf(k, i + 1) \notin DOMAIN ch
  PROVE  /\ \A j \in i + 1 .. Len(k) : UptoOf(k, j) \notin DOMAIN ch
         /\ k \in Span(k, i) /\ UptoOf(k, i) \notin Span(k, i)
<1>1. Len(k) \in Nat
  BY DEF Paths
<1>2. ASSUME NEW j \in i + 1 .. Len(k), UptoOf(k, j) \in DOMAIN ch PROVE FALSE
  <2>1. j \in 0 .. Len(k) /\ i + 1 \in 0 .. j
    BY <1>1
  <2> QED
    BY <1>2, <2>1, ShorterToo
<1>3. k = UptoOf(k, Len(k)) /\ Len(k) \in i + 1 .. Len(k)
  BY <1>1, UptoEnds
<1> QED
  BY <1>2, <1>3 DEF Span

(* ch2 is ch with the branch that spells the rest of k. *)
Grafted(ch, ch2, k, i) ==
  LET at == UptoOf(k, i)
  IN  /\ DOMAIN ch2 = DOMAIN ch \cup Span(k, i)
      /\ ch2[at] = Append(ch[at], k[i + 1])
      /\ \A j \in i + 1 .. Len(k) - 1 : ch2[UptoOf(k, j)] = <<k[j + 1]>>
      /\ ch2[k] = <<>>
      /\ \A p \in DOMAIN ch \ {at} : ch2[p] = ch[p]

LEMMA GraftSprouts ==
  ASSUME NEW ch, Sprouts(ch), NEW k \in Paths, NEW i \in 0 .. Len(k) - 1,
         UptoOf(k, i) \in DOMAIN ch, UptoOf(k, i + 1) \notin DOMAIN ch,
         NEW ch2, Grafted(ch, ch2, k, i)
  PROVE  /\ Sprouts(ch2)
         /\ \A p \in DOMAIN ch2 : ch2[p] = <<>> => p = k \/ (p \in DOMAIN ch /\ ch[p] = <<>>)
<1> DEFINE at == UptoOf(k, i)
           D == DOMAIN ch
<1>1. /\ Len(k) \in Nat /\ i \in 0 .. Len(k) /\ i + 1 \in 0 .. Len(k)
      /\ \A j \in i + 1 .. Len(k) - 1 : j \in 0 .. Len(k) - 1 /\ j \in 0 .. Len(k)
  BY DEF Paths
<1>2. \A j \in i + 1 .. Len(k) : UptoOf(k, j) \notin D
  BY SpanBelow
<1>3. at \in Paths /\ Len(at) = i /\ at \in D /\ ch[at] \in Seq(Char)
  BY <1>1, UptoIs DEF Sprouts
<1>4. \A j \in 0 .. Len(k) - 1 : k[j + 1] \in Char /\ Under(UptoOf(k, j), k[j + 1]) = UptoOf(k, j + 1)
  BY UptoStep
<1>5. k[i + 1] \in Char /\ Under(at, k[i + 1]) = UptoOf(k, i + 1)
  BY <1>4
<1>6. \A m \in 1 .. Len(ch[at]) : ch[at][m] # k[i + 1]
  BY <1>2, <1>3, <1>5, LinkedIs
<1>7. /\ ch2[at] \in Seq(Char) /\ Len(ch[at]) \in Nat /\ Len(ch2[at]) = Len(ch[at]) + 1
      /\ \A m \in 1 .. Len(ch[at]) : ch2[at][m] = ch[at][m]
      /\ ch2[at][Len(ch[at]) + 1] = k[i + 1]
  <2> DEFINE s == ch[at]
             x == k[i + 1]
  <2>1. s \in Seq(Char) /\ x \in Char /\ ch2[at] = Append(s, x)
    BY <1>3, <1>5 DEF Grafted
  <2> HIDE DEF s, x
  <2>2. /\ Append(s, x) \in Seq(Char) /\ Len(s) \in Nat /\ Len(Append(s, x)) = Len(s) + 1
        /\ \A m \in 1 .. Len(s) : Append(s, x)[m] = s[m]
        /\ Append(s, x)[Len(s) + 1] = x
    BY <2>1, AppendProperties, LenProperties
  <2> QED
    BY <2>1, <2>2 DEF s, x
<1>8. ASSUME NEW p \in DOMAIN ch2
      PROVE  \/ p = at
             \/ p \in D /\ p # at /\ ch2[p] = ch[p]
             \/ p = k /\ ch2[p] = <<>>
             \/ \E j \in i + 1 .. Len(k) - 1 : p = UptoOf(k, j) /\ ch2[p] = <<k[j + 1]>>
  <2>1. CASE p \in D
    BY <2>1 DEF Grafted
  <2>2. CASE p \notin D
    <3>1. PICK j \in i + 1 .. Len(k) : p = UptoOf(k, j)
      BY <2>2 DEF Grafted, Span
    <3>2. CASE j = Len(k)
      <4>1. p = k
        BY <3>1, <3>2, UptoEnds
      <4> QED
        BY <4>1 DEF Grafted
    <3>3. CASE j < Len(k)
      <4>1. j \in i + 1 .. Len(k) - 1
        BY <1>1, <3>3
      <4> QED
        BY <3>1, <4>1 DEF Grafted
    <3> QED
      BY <1>1, <3>2, <3>3
  <2> QED
    BY <2>1, <2>2
<1>9. DOMAIN ch2 = D \cup Span(k, i)
  BY DEF Grafted
<1> HIDE DEF at, D
<1>10. \A j \in i + 1 .. Len(k) : UptoOf(k, j) \in DOMAIN ch2
  BY <1>9 DEF Span
<1>11. DOMAIN ch2 \subseteq Paths /\ IsFiniteSet(DOMAIN ch2)
  <2>1. IsFiniteSet(D) /\ D \subseteq Paths
    BY DEF Sprouts, D
  <2>2. IsFiniteSet(Span(k, i))
    BY <1>1, SpanCount
  <2>3. IsFiniteSet(D \cup Span(k, i))
    BY <2>1, <2>2, FS_Union
  <2>4. Span(k, i) \subseteq Paths
    <3>1. \A j \in i + 1 .. Len(k) : j \in 0 .. Len(k)
      BY <1>1
    <3> QED
      BY <3>1, UptoIs DEF Span
  <2> QED
    BY <1>9, <2>1, <2>3, <2>4
<1>12. ASSUME NEW p \in DOMAIN ch2
       PROVE  /\ ch2[p] \in Seq(Char)
              /\ \A m, h \in 1 .. Len(ch2[p]) : m # h => ch2[p][m] # ch2[p][h]
              /\ \A m \in 1 .. Len(ch2[p]) : Under(p, ch2[p][m]) \in DOMAIN ch2
  <2>1. CASE p = at
    <3>1. \A m \in 1 .. Len(ch[at]) : Under(at, ch[at][m]) \in D
      BY <1>3 DEF Sprouts, D
    <3>2. \A m, h \in 1 .. Len(ch[at]) : m # h => ch[at][m] # ch[at][h]
      BY <1>3 DEF Sprouts, D
    <3>3. \A m \in 1 .. Len(ch2[at]) : m \in 1 .. Len(ch[at]) \/ m = Len(ch[at]) + 1
      BY <1>7
    <3>4. Under(at, k[i + 1]) \in DOMAIN ch2
      BY <1>1, <1>5, <1>10
    <3>5. \A m \in 1 .. Len(ch2[at]) : Under(at, ch2[at][m]) \in DOMAIN ch2
      BY <1>7, <1>9, <3>1, <3>3, <3>4
    <3>6. \A m, h \in 1 .. Len(ch2[at]) : m # h => ch2[at][m] # ch2[at][h]
      BY <1>6, <1>7, <3>2, <3>3
    <3> QED
      BY <1>7, <2>1, <3>5, <3>6
  <2>2. CASE p \in D /\ p # at /\ ch2[p] = ch[p]
    <3>1. /\ ch[p] \in Seq(Char)
          /\ \A m, h \in 1 .. Len(ch[p]) : m # h => ch[p][m] # ch[p][h]
          /\ \A m \in 1 .. Len(ch[p]) : Under(p, ch[p][m]) \in D
      BY <2>2 DEF Sprouts, D
    <3> QED
      BY <1>9, <2>2, <3>1
  <2>3. CASE p = k /\ ch2[p] = <<>>
    <3>1. <<>> \in Seq(Char) /\ Len(<<>>) = 0
      OBVIOUS
    <3> QED
      BY <2>3, <3>1
  <2>4. ASSUME NEW j \in i + 1 .. Len(k) - 1, p = UptoOf(k, j), ch2[p] = <<k[j + 1]>>
        PROVE  /\ ch2[p] \in Seq(Char)
               /\ \A m, h \in 1 .. Len(ch2[p]) : m # h => ch2[p][m] # ch2[p][h]
               /\ \A m \in 1 .. Len(ch2[p]) : Under(p, ch2[p][m]) \in DOMAIN ch2
    <3>1. k[j + 1] \in Char /\ Under(p, k[j + 1]) = UptoOf(k, j + 1) /\ j + 1 \in i + 1 .. Len(k)
      BY <1>1, <1>4, <2>4
    <3>2. ch2[p] \in Seq(Char) /\ Len(ch2[p]) = 1 /\ ch2[p][1] = k[j + 1]
      BY <2>4, <3>1
    <3> QED
      BY <1>10, <3>1, <3>2
  <2> QED
    BY <1>8, <2>1, <2>2, <2>3, <2>4
<1>13. ASSUME NEW p \in Paths, NEW c \in Char, Under(p, c) \in DOMAIN ch2
       PROVE  p \in DOMAIN ch2 /\ \E m \in 1 .. Len(ch2[p]) : ch2[p][m] = c
  <2>1. CASE Under(p, c) \in D
    <3>1. p \in D /\ \E m \in 1 .. Len(ch[p]) : ch[p][m] = c
      BY <2>1, LinkedIs DEF D
    <3>2. CASE p = at
      BY <1>7, <1>9, <3>1, <3>2
    <3>3. CASE p # at
      <4>1. ch2[p] = ch[p]
        BY <3>1, <3>3 DEF Grafted, at, D
      <4> QED
        BY <1>9, <3>1, <4>1
    <3> QED
      BY <3>2, <3>3
  <2>2. CASE Under(p, c) \notin D
    <3>1. PICK j \in i + 1 .. Len(k) : Under(p, c) = UptoOf(k, j)
      BY <1>9, <2>2, <1>13 DEF Span
    <3>2. j - 1 \in 0 .. Len(k) - 1 /\ (j - 1) + 1 = j /\ j - 1 \in 0 .. Len(k)
      BY <1>1
    <3>3. k[j] \in Char /\ Under(UptoOf(k, j - 1), k[j]) = UptoOf(k, j) /\ UptoOf(k, j - 1) \in Paths
      BY <1>4, <3>2, UptoIs
    <3>4. p = UptoOf(k, j - 1) /\ c = k[j]
      BY <3>1, <3>3, AppendsDiffer
    <3>5. CASE j = i + 1
      <4>1. p = at /\ c = k[i + 1]
        BY <1>1, <3>4, <3>5 DEF at
      <4>2. Len(ch[at]) + 1 \in 1 .. Len(ch2[at])
        BY <1>7
      <4> QED
        BY <1>3, <1>7, <1>9, <4>1, <4>2
    <3>6. CASE j > i + 1
      <4>1. j - 1 \in i + 1 .. Len(k) - 1 /\ j - 1 \in i + 1 .. Len(k)
        BY <1>1, <3>6
      <4>2. ch2[p] = <<k[j]>>
        BY <3>2, <3>4, <4>1 DEF Grafted
      <4>3. Len(ch2[p]) = 1 /\ ch2[p][1] = c
        BY <3>4, <4>2
      <4>4. p \in DOMAIN ch2
        BY <1>10, <3>4, <4>1
      <4> QED
        BY <4>3, <4>4
    <3> QED
      BY <1>1, <3>5, <3>6
  <2> QED
    BY <2>1, <2>2
<1>14. ASSUME NEW p \in DOMAIN ch2, ch2[p] = <<>>
       PROVE  p = k \/ (p \in D /\ ch[p] = <<>>)
  <2>1. p # at
    <3>1. Len(<<>>) = 0
      OBVIOUS
    <3> QED
      BY <1>7, <1>14, <3>1
  <2>2. \A j \in i + 1 .. Len(k) - 1 : <<k[j + 1]>> # <<>>
    OBVIOUS
  <2> QED
    BY <1>8, <1>14, <2>1, <2>2
<1> QED
  BY <1>11, <1>12, <1>13, <1>14 DEF Sprouts, D

------------------------------------------------------------------------------
(* The nodes, their arrays and the marks of a trie that is there. *)
Grows(ch, cap, W) ==
  /\ Sprouts(ch)
  /\ DOMAIN cap = DOMAIN ch
  /\ \A p \in DOMAIN ch : cap[p] \in Nat /\ Len(ch[p]) <= cap[p] /\ Trie!Fits(cap[p])
  /\ \A p \in DOMAIN ch \ {<<>>} :
       /\ \E k \in TrieKey : \E i \in 1 .. Len(k) : p = UptoOf(k, i)
       /\ ch[p] = <<>> => p \in W
  /\ W \subseteq DOMAIN ch \ {<<>>}
  /\ Cardinality(DOMAIN ch) <= TrieSizeMax

ArraysOf(cap) == {p \in DOMAIN cap : cap[p] > 0}

TrieInv ==
  /\ Grows(children, slots, words)
  /\ planted \in BOOLEAN
  /\ planted <=> <<>> \in DOMAIN children
  /\ ~planted => DOMAIN children = {}
  /\ word_count = Cardinality(words)
  /\ held = IF planted THEN 1 + Cardinality(DOMAIN children) + Cardinality(ArraysOf(slots)) ELSE 0
  /\ answer.key \in TrieKey \cup {NoKey} /\ answer.ok \in BOOLEAN

(* Zero slots and two always fit. *)
LEMMA TrieSizes ==
  /\ TrieSizeMax \in Nat /\ TrieSizeMax >= 2
  /\ Trie!Fits(0) /\ Trie!Fits(2)
  /\ \A c \in Nat : Trie!Fits(c) => c <= TrieSizeMax
  /\ \A c \in 0 .. TrieSizeMax : Trie!Wrap(c) = c
<1>1. TrieSizeMax \in Nat /\ PtrSize \in Nat /\ PtrSize > 0
  BY TrieAssumption DEF Trie!SizeAssumption
<1>2. 2 <= TrieSizeMax \div PtrSize
  BY TrieAssumption DEF Trie!KeyAssumption, Trie!Fits
<1>3. TrieSizeMax \div PtrSize <= TrieSizeMax /\ TrieSizeMax \div PtrSize \in Nat
  BY <1>1
<1>4. \A c \in 0 .. TrieSizeMax : Trie!Wrap(c) = c
  BY <1>1, FitsInWord DEF Trie!Wrap
<1> QED
  BY <1>1, <1>2, <1>3, <1>4 DEF Trie!Fits

(* Fewer words than nodes: the counter never wraps. *)
LEMMA WordsCounted ==
  ASSUME NEW ch, NEW cap, NEW W, Grows(ch, cap, W), <<>> \in DOMAIN ch
  PROVE  /\ IsFiniteSet(W) /\ Cardinality(W) \in Nat /\ Cardinality(W) < TrieSizeMax
         /\ IsFiniteSet(DOMAIN ch) /\ Cardinality(DOMAIN ch) \in Nat /\ Cardinality(DOMAIN ch) > 0
<1>1. IsFiniteSet(DOMAIN ch)
  BY DEF Grows, Sprouts
<1>2. /\ IsFiniteSet(DOMAIN ch \ {<<>>})
      /\ Cardinality(DOMAIN ch \ {<<>>}) = Cardinality(DOMAIN ch) - 1
  BY <1>1, FS_RemoveElement
<1>3. W \in SUBSET (DOMAIN ch \ {<<>>})
  BY DEF Grows
<1>4. IsFiniteSet(W) /\ Cardinality(W) <= Cardinality(DOMAIN ch) - 1
  BY <1>2, <1>3, FS_Subset
<1>5. Cardinality(DOMAIN ch) \in Nat /\ Cardinality(W) \in Nat
  BY <1>1, <1>4, FS_CardinalityType
<1> QED
  BY <1>1, <1>4, <1>5, TrieSizes DEF Grows

LEMMA BranchIs ==
  ASSUME TrieInv, planted, NEW k \in TrieKey, ~Trie!Reaches(k)
  PROVE  \E i \in 0 .. Len(k) - 1 :
           /\ UptoOf(k, i) \in DOMAIN children /\ UptoOf(k, i + 1) \notin DOMAIN children
           /\ Trie!Branch(k) = UptoOf(k, i) /\ Trie!Suffix(k) = Span(k, i)
<1>1. k \in Paths /\ Len(k) \in Nat /\ Len(k) >= 1
  BY KeysArePaths
<1>2. Sprouts(children) /\ <<>> \in DOMAIN children
  BY DEF TrieInv, Grows
<1>3. \A i \in 0 .. Len(k) : Trie!Follows(k, i) <=> UptoOf(k, i) \in DOMAIN children
  BY <1>1, <1>2, FollowsIff
<1> DEFINE F(i) == Trie!Follows(k, i) /\ ~Trie!Follows(k, i + 1)
           S == {i \in 0 .. Len(k) : Trie!Follows(k, i)}
<1>4. \E i \in 0 .. Len(k) - 1 : F(i)
  <2>1. SUFFICES ASSUME \A i \in 0 .. Len(k) - 1 : ~F(i) PROVE FALSE
    OBVIOUS
  <2>2. 0 \in S
    <3>1. UptoOf(k, 0) = <<>> /\ 0 \in 0 .. Len(k)
      BY <1>1, UptoEnds
    <3> QED
      BY <1>2, <1>3, <3>1
  <2>3. ASSUME NEW i \in 1 .. Len(k), i - 1 \in S PROVE i \in S
    <3>1. i - 1 \in 0 .. Len(k) - 1 /\ (i - 1) + 1 = i /\ i \in 0 .. Len(k)
      BY <1>1
    <3>2. ~F(i - 1)
      BY <2>1, <3>1
    <3> QED
      BY <2>3, <3>1, <3>2
  <2> HIDE DEF S, F
  <2>4. \A i \in 0 .. Len(k) : i \in S
    BY <1>1, <2>2, <2>3, Upward
  <2>5. Trie!Follows(k, Len(k))
    BY <1>1, <2>4 DEF S
  <2> QED
    BY <2>5 DEF Trie!Reaches
<1> DEFINE i == CHOOSE i \in 0 .. Len(k) - 1 : Trie!Follows(k, i) /\ ~Trie!Follows(k, i + 1)
<1>5. i \in 0 .. Len(k) - 1 /\ Trie!Follows(k, i) /\ ~Trie!Follows(k, i + 1)
  BY <1>4
<1>6. Trie!Branch(k) = UptoOf(k, i)
  BY DEF Trie!Branch, Trie!Upto, UptoOf
<1> HIDE DEF i
<1>7. i \in 0 .. Len(k) /\ i + 1 \in 0 .. Len(k)
  BY <1>1, <1>5
<1>8. UptoOf(k, i) \in DOMAIN children /\ UptoOf(k, i + 1) \notin DOMAIN children
  BY <1>3, <1>5, <1>7
<1>9. Len(UptoOf(k, i)) = i
  BY <1>1, <1>7, UptoIs
<1>10. Trie!Suffix(k) = Span(k, i)
  BY <1>6, <1>9 DEF Trie!Suffix, Span, Trie!Upto, UptoOf
<1> QED
  BY <1>5, <1>6, <1>8, <1>10

(* The array at the branch has room for one child more. *)
LEMMA GrownFits ==
  ASSUME TrieInv, NEW p \in DOMAIN children, Trie!IsFull(p) => Trie!CanGrow(p)
  PROVE  /\ Trie!Grown(p) \in Nat /\ Trie!Grown(p) > 0
         /\ Len(children[p]) + 1 <= Trie!Grown(p) /\ Trie!Fits(Trie!Grown(p))
<1>1. /\ slots[p] \in Nat /\ Len(children[p]) <= slots[p] /\ Trie!Fits(slots[p])
      /\ Len(children[p]) \in Nat
  BY DEF TrieInv, Grows, Sprouts
<1>2. CASE slots[p] = 0
  BY <1>1, <1>2, TrieSizes DEF Trie!Grown
<1>3. CASE slots[p] > 0 /\ Trie!IsFull(p)
  <2>1. slots[p] * 2 \in Nat /\ Trie!Fits(slots[p] * 2)
    BY <1>1, <1>3 DEF Trie!CanGrow
  <2>2. slots[p] * 2 \in 0 .. TrieSizeMax
    BY <2>1, TrieSizes
  <2>3. Trie!Grown(p) = slots[p] * 2
    BY <1>3, <2>2, TrieSizes DEF Trie!Grown
  <2> QED
    BY <1>1, <1>3, <2>1, <2>3
<1>4. CASE slots[p] > 0 /\ ~Trie!IsFull(p)
  BY <1>1, <1>4 DEF Trie!Grown, Trie!IsFull
<1> QED
  BY <1>1, <1>2, <1>3, <1>4

(* The arrays after a branch was built. *)
Provided(cap, cap2, k, i) ==
  LET at == UptoOf(k, i)
  IN  /\ DOMAIN cap2 = DOMAIN cap \cup Span(k, i)
      /\ cap2[k] = 0
      /\ \A p \in Span(k, i) \ {k} : cap2[p] = 2
      /\ \A p \in DOMAIN cap \ {at} : cap2[p] = cap[p]

LEMMA BranchGrows ==
  ASSUME NEW ch, NEW cap, NEW W, Grows(ch, cap, W), NEW k \in TrieKey, NEW i \in 0 .. Len(k) - 1,
         UptoOf(k, i) \in DOMAIN ch, UptoOf(k, i + 1) \notin DOMAIN ch,
         NEW ch2, Grafted(ch, ch2, k, i), NEW cap2, Provided(cap, cap2, k, i),
         NEW c \in Nat, cap2[UptoOf(k, i)] = c, Len(ch[UptoOf(k, i)]) + 1 <= c, Trie!Fits(c),
         Cardinality(DOMAIN ch \cup Span(k, i)) <= TrieSizeMax
  PROVE  Grows(ch2, cap2, W \cup {k})
<1> DEFINE at == UptoOf(k, i)
           D == DOMAIN ch
           N == Span(k, i)
<1>1. k \in Paths /\ Len(k) \in Nat /\ Len(k) >= 1 /\ k # <<>> /\ Sprouts(ch)
  BY KeysArePaths DEF Grows
<1>2. /\ Sprouts(ch2)
      /\ \A p \in DOMAIN ch2 : ch2[p] = <<>> => p = k \/ (p \in D /\ ch[p] = <<>>)
  BY <1>1, GraftSprouts
<1>3. /\ DOMAIN ch2 = D \cup N /\ DOMAIN cap2 = D \cup N
  BY DEF Grafted, Provided, Grows
<1>4. \A j \in i + 1 .. Len(k) : UptoOf(k, j) \notin D
  BY <1>1, SpanBelow
<1>5. k \in N /\ at \notin N
  BY <1>1, SpanBelow
<1>6. \A p \in N : p \notin D
  BY <1>4 DEF Span
<1>7. ASSUME NEW p \in D \cup N
      PROVE  cap2[p] \in Nat /\ Len(ch2[p]) <= cap2[p] /\ Trie!Fits(cap2[p])
  <2>1. CASE p = at
    <3>1. ch2[at] = Append(ch[at], k[i + 1]) /\ ch[at] \in Seq(Char)
      BY DEF Grafted, Grows, Sprouts
    <3>2. Len(ch2[at]) = Len(ch[at]) + 1
      BY <3>1
    <3> QED
      BY <2>1, <3>2
  <2>2. CASE p \in D /\ p # at
    <3>1. ch2[p] = ch[p] /\ cap2[p] = cap[p]
      BY <2>2 DEF Grafted, Provided, Grows
    <3> QED
      BY <2>2, <3>1 DEF Grows
  <2>3. CASE p = k
    <3>1. ch2[p] = <<>> /\ cap2[p] = 0 /\ Len(<<>>) = 0
      BY <2>3 DEF Grafted, Provided
    <3> QED
      BY <3>1, TrieSizes
  <2>4. CASE p \in N /\ p # k
    <3>1. cap2[p] = 2
      BY <2>4 DEF Provided
    <3>2. PICK j \in i + 1 .. Len(k) : p = UptoOf(k, j)
      BY <2>4 DEF Span
    <3>3. j # Len(k)
      BY <1>1, <2>4, <3>2, UptoEnds
    <3>4. j \in i + 1 .. Len(k) - 1
      BY <1>1, <3>3
    <3>5. ch2[p] = <<k[j + 1]>>
      BY <3>2, <3>4 DEF Grafted
    <3>6. Len(ch2[p]) = 1
      BY <3>5
    <3> QED
      BY <3>1, <3>6, TrieSizes
  <2> QED
    BY <2>1, <2>2, <2>3, <2>4
<1>8. ASSUME NEW p \in (D \cup N) \ {<<>>}
      PROVE  /\ \E l \in TrieKey : \E j \in 1 .. Len(l) : p = UptoOf(l, j)
             /\ ch2[p] = <<>> => p \in W \cup {k}
  <2>1. ch2[p] = <<>> => p \in W \cup {k}
    BY <1>2, <1>3 DEF Grows
  <2>2. CASE p \in D
    BY <2>1, <2>2 DEF Grows
  <2>3. CASE p \in N
    <3>1. PICK j \in i + 1 .. Len(k) : p = UptoOf(k, j)
      BY <2>3 DEF Span
    <3>2. j \in 1 .. Len(k)
      BY <1>1
    <3> QED
      BY <2>1, <3>1, <3>2
  <2> QED
    BY <2>2, <2>3
<1>9. W \cup {k} \subseteq (D \cup N) \ {<<>>}
  BY <1>1, <1>5 DEF Grows
<1> HIDE DEF D, N, at
<1> QED
  BY <1>2, <1>3, <1>7, <1>8, <1>9 DEF Grows, D, N

LEMMA ApartCounted ==
  ASSUME NEW S, NEW T, IsFiniteSet(S), IsFiniteSet(T), S \cap T = {}
  PROVE  /\ IsFiniteSet(S \cup T) /\ Cardinality(S) \in Nat /\ Cardinality(T) \in Nat
         /\ Cardinality(S \cup T) = Cardinality(S) + Cardinality(T)
<1>1. /\ IsFiniteSet(S \cup T)
      /\ Cardinality(S \cup T) = Cardinality(S) + Cardinality(T) - Cardinality(S \cap T)
  BY FS_Union
<1>2. Cardinality(S \cap T) = 0
  BY FS_EmptySet
<1>3. Cardinality(S) \in Nat /\ Cardinality(T) \in Nat
  BY FS_CardinalityType
<1> QED
  BY <1>1, <1>2, <1>3

(* One array more for every new node but the last, and one for a branch    *)
(* that had none.                                                          *)
LEMMA BranchOwned ==
  ASSUME NEW ch, Sprouts(ch), NEW cap, DOMAIN cap = DOMAIN ch, \A p \in DOMAIN cap : cap[p] \in Nat,
         NEW k \in TrieKey, NEW i \in 0 .. Len(k) - 1,
         UptoOf(k, i) \in DOMAIN ch, UptoOf(k, i + 1) \notin DOMAIN ch,
         NEW cap2, Provided(cap, cap2, k, i), cap2[UptoOf(k, i)] \in Nat, cap2[UptoOf(k, i)] > 0
  PROVE  1 + Cardinality(DOMAIN ch \cup Span(k, i)) + Cardinality(ArraysOf(cap2)) =
           1 + Cardinality(DOMAIN ch) + Cardinality(ArraysOf(cap))
             + (2 * Cardinality(Span(k, i)) - 1 + IF cap[UptoOf(k, i)] = 0 THEN 1 ELSE 0)
<1> DEFINE at == UptoOf(k, i)
           D == DOMAIN ch
           N == Span(k, i)
           A == ArraysOf(cap)
<1>1. k \in Paths /\ Len(k) \in Nat
  BY KeysArePaths
<1>2. k \in N /\ at \notin N /\ \A j \in i + 1 .. Len(k) : UptoOf(k, j) \notin D
  BY <1>1, SpanBelow
<1>3. \A p \in N : p \notin D
  BY <1>2 DEF Span
<1>4. IsFiniteSet(D)
  BY DEF Sprouts
<1>5. i \in 0 .. Len(k)
  BY <1>1
<1>6. IsFiniteSet(N)
  BY <1>1, <1>5, SpanCount
<1>7. A \in SUBSET D
  BY DEF ArraysOf
<1>8. IsFiniteSet(A)
  BY <1>4, <1>7, FS_Subset
<1>9. /\ Cardinality(D) \in Nat /\ Cardinality(N) \in Nat /\ Cardinality(A) \in Nat
  BY <1>4, <1>6, <1>8, FS_CardinalityType
<1>10. Cardinality(D \cup N) = Cardinality(D) + Cardinality(N)
  <2>1. D \cap N = {}
    BY <1>3
  <2> QED
    BY <1>4, <1>6, <2>1, ApartCounted
<1>11. ArraysOf(cap2) = (A \cup {at}) \cup (N \ {k})
  <2>1. ASSUME NEW p \in D \cup N PROVE cap2[p] > 0 <=> p \in (A \cup {at}) \cup (N \ {k})
    <3>1. CASE p \in N
      BY <1>2, <1>3, <3>1 DEF Provided, ArraysOf
    <3>2. CASE p \in D
      BY <1>3, <3>2 DEF Provided, ArraysOf
    <3> QED
      BY <3>1, <3>2
  <2>2. DOMAIN cap2 = D \cup N
    BY DEF Provided
  <2>3. (A \cup {at}) \cup (N \ {k}) \subseteq D \cup N
    BY <1>7
  <2> HIDE DEF A, D, N, at
  <2> QED
    BY <2>1, <2>2, <2>3 DEF ArraysOf
<1>12. IsFiniteSet(N \ {k}) /\ Cardinality(N \ {k}) = Cardinality(N) - 1
  BY <1>2, <1>6, FS_RemoveElement
<1>13. /\ IsFiniteSet(A \cup {at})
       /\ Cardinality(A \cup {at}) = IF at \in A THEN Cardinality(A) ELSE Cardinality(A) + 1
  BY <1>8, FS_AddElement
<1>14. Cardinality(ArraysOf(cap2)) = Cardinality(A \cup {at}) + Cardinality(N \ {k})
  <2>1. (A \cup {at}) \cap (N \ {k}) = {}
    BY <1>2, <1>3, <1>7
  <2> HIDE DEF A, D, N, at
  <2> QED
    BY <1>11, <1>12, <1>13, <2>1, ApartCounted
<1>15. cap[at] \in Nat /\ (at \in A <=> cap[at] # 0)
  BY DEF ArraysOf
<1>16. CASE at \in A
  <2>1. Cardinality(ArraysOf(cap2)) = Cardinality(A) + Cardinality(N) - 1 /\ cap[at] # 0
    BY <1>9, <1>12, <1>13, <1>14, <1>15, <1>16
  <2> HIDE DEF A
  <2> QED
    BY <1>9, <1>10, <2>1 DEF A
<1>17. CASE at \notin A
  <2>1. Cardinality(ArraysOf(cap2)) = Cardinality(A) + Cardinality(N) /\ cap[at] = 0
    BY <1>9, <1>12, <1>13, <1>14, <1>15, <1>17
  <2> HIDE DEF A
  <2> QED
    BY <1>9, <1>10, <2>1 DEF A
<1> QED
  BY <1>16, <1>17

------------------------------------------------------------------------------
LEMMA TrieCardinality == \A S : Trie!Cardinality(S) = Cardinality(S)
BY DEF Trie!Cardinality, Cardinality

LEMMA TrieStarts == Trie!Init => TrieInv
<1>1. SUFFICES ASSUME Trie!Init PROVE TrieInv
  OBVIOUS
<1>2. /\ children = [p \in {} |-> <<>>] /\ slots = [p \in {} |-> <<>>] /\ words = {}
      /\ planted = FALSE /\ word_count = 0 /\ held = 0
      /\ answer = [op |-> "none", key |-> NoKey, ok |-> TRUE]
  BY <1>1 DEF Trie!Init, Trie!Nowhere
<1>3. DOMAIN children = {} /\ DOMAIN slots = {}
  BY <1>2
<1>4. IsFiniteSet({}) /\ Cardinality({}) = 0
  BY FS_EmptySet
<1>5. \A p \in Paths : \A c \in Char : Under(p, c) \notin DOMAIN children
  BY <1>3
<1>6. Grows(children, slots, words)
  BY <1>2, <1>3, <1>4, <1>5, TrieSizes DEF Grows, Sprouts
<1> QED
  BY <1>2, <1>3, <1>4, <1>6 DEF TrieInv

LEMMA TrieCreated ==
  ASSUME TrieInv, Trie!Create
  PROVE  TrieInv'
<1>1. /\ ~planted /\ planted' = TRUE
      /\ children' = [p \in {<<>>} |-> <<>>] /\ slots' = [p \in {<<>>} |-> 0]
      /\ held' = held + 2 /\ words' = words /\ word_count' = word_count
      /\ answer' = [op |-> "create", key |-> NoKey, ok |-> TRUE]
  BY DEF Trie!Create, Trie!Answer
<1>2. PICK ch, cap, W : ch = children' /\ cap = slots' /\ W = words'
  OBVIOUS
<1>3. DOMAIN children = {} /\ words = {}
  BY <1>1 DEF TrieInv, Grows
<1>4. DOMAIN ch = {<<>>} /\ DOMAIN cap = {<<>>} /\ ch[<<>>] = <<>> /\ cap[<<>>] = 0 /\ W = {}
  BY <1>1, <1>2, <1>3
<1>5. IsFiniteSet({<<>>}) /\ Cardinality({<<>>}) = 1
  BY FS_Singleton
<1>6. \A p \in Paths : \A c \in Char : Under(p, c) \notin DOMAIN ch
  BY <1>4, AppendIs
<1>7. Sprouts(ch)
  <2>1. <<>> \in Paths /\ <<>> \in Seq(Char) /\ Len(<<>>) = 0
    BY DEF Paths
  <2>2. ASSUME NEW p \in DOMAIN ch
        PROVE  /\ ch[p] \in Seq(Char)
               /\ \A m, h \in 1 .. Len(ch[p]) : m # h => ch[p][m] # ch[p][h]
               /\ \A m \in 1 .. Len(ch[p]) : Under(p, ch[p][m]) \in DOMAIN ch
    <3>1. ch[p] \in Seq(Char) /\ Len(ch[p]) = 0
      BY <1>4, <2>1
    <3> QED
      BY <3>1
  <2>3. DOMAIN ch \subseteq Paths /\ IsFiniteSet(DOMAIN ch)
    BY <1>4, <1>5, <2>1
  <2> QED
    BY <1>6, <2>2, <2>3 DEF Sprouts
<1>8. Grows(ch, cap, W)
  <2>1. Len(<<>>) = 0
    OBVIOUS
  <2> QED
    BY <1>4, <1>5, <1>7, <2>1, TrieSizes DEF Grows
<1>9. ArraysOf(cap) = {}
  BY <1>4 DEF ArraysOf
<1>10. held = 0 /\ word_count = 0 /\ Cardinality({}) = 0
  BY <1>1, <1>3, FS_EmptySet DEF TrieInv
<1>11. Grows(children', slots', words')
  BY <1>2, <1>8
<1>12. ArraysOf(slots') = {} /\ DOMAIN children' = {<<>>} /\ words' = {}
  BY <1>2, <1>4, <1>9
<1>13. /\ held' = 1 + Cardinality(DOMAIN children') + Cardinality(ArraysOf(slots'))
       /\ word_count' = Cardinality(words')
  <2>1. Cardinality(DOMAIN children') = 1 /\ Cardinality(ArraysOf(slots')) = 0 /\ Cardinality(words') = 0
    BY <1>5, <1>10, <1>12, Zenon
  <2>2. held' = 2 /\ word_count' = 0
    BY <1>1, <1>10
  <2> QED
    BY <2>1, <2>2
<1>14. /\ <<>> \in DOMAIN children'
       /\ answer'.key \in TrieKey \cup {NoKey} /\ answer'.ok \in BOOLEAN
  BY <1>1, <1>12
<1> QED
  BY <1>1, <1>11, <1>13, <1>14 DEF TrieInv

LEMMA TrieDestroyed ==
  ASSUME TrieInv, Trie!Destroy
  PROVE  TrieInv'
<1>1. /\ planted /\ planted' = FALSE
      /\ children' = [p \in {} |-> <<>>] /\ slots' = [p \in {} |-> <<>>]
      /\ words' = {} /\ word_count' = 0
      /\ held' = held - (1 + Cardinality(DOMAIN children) + Cardinality(Trie!Arrays))
      /\ answer' = [op |-> "destroy", key |-> NoKey, ok |-> TRUE]
  BY TrieCardinality DEF Trie!Destroy, Trie!Answer, Trie!Nowhere, Trie!Nodes
<1>2. Trie!Arrays = ArraysOf(slots)
  BY DEF Trie!Arrays, ArraysOf, Trie!Nodes, TrieInv, Grows
<1>3. /\ Grows(children, slots, words) /\ <<>> \in DOMAIN children
      /\ held = 1 + Cardinality(DOMAIN children) + Cardinality(ArraysOf(slots))
  BY <1>1 DEF TrieInv
<1>4. held' = 0
  <2>1. IsFiniteSet(DOMAIN children)
    BY <1>3, WordsCounted
  <2>2. ArraysOf(slots) \in SUBSET DOMAIN children
    BY <1>3 DEF ArraysOf, Grows
  <2>3. IsFiniteSet(ArraysOf(slots))
    BY <2>1, <2>2, FS_Subset
  <2>4. Cardinality(DOMAIN children) \in Nat /\ Cardinality(ArraysOf(slots)) \in Nat
    BY <2>1, <2>3, FS_CardinalityType
  <2> QED
    BY <1>1, <1>2, <1>3, <2>4
<1>5. DOMAIN children' = {} /\ DOMAIN slots' = {}
  BY <1>1
<1>6. IsFiniteSet({}) /\ Cardinality({}) = 0
  BY FS_EmptySet
<1>7. Grows(children', slots', words')
  BY <1>1, <1>5, <1>6, TrieSizes DEF Grows, Sprouts
<1> QED
  BY <1>1, <1>4, <1>5, <1>6, <1>7 DEF TrieInv

(* A call that answers and leaves the structure alone. *)
LEMMA TrieRests ==
  ASSUME TrieInv, UNCHANGED Trie!structure, answer'.key \in TrieKey \cup {NoKey}, answer'.ok \in BOOLEAN
  PROVE  TrieInv'
BY DEF TrieInv, Trie!structure

LEMMA TrieMarked ==
  ASSUME TrieInv, NEW k \in TrieKey, Trie!InsertMarks(k)
  PROVE  TrieInv'
<1>1. /\ planted /\ Trie!Reaches(k) /\ ~Trie!Contained(k)
      /\ words' = words \cup {k} /\ word_count' = Trie!Wrap(word_count + 1)
      /\ planted' = planted /\ children' = children /\ slots' = slots /\ held' = held
      /\ answer' = [op |-> "insert", key |-> k, ok |-> TRUE]
  BY DEF Trie!InsertMarks, Trie!Answer
<1>2. k \in Paths /\ k # <<>> /\ Len(k) \in Nat
  BY KeysArePaths
<1>3. Grows(children, slots, words) /\ <<>> \in DOMAIN children /\ Sprouts(children)
  BY <1>1 DEF TrieInv, Grows
<1>4. k \in DOMAIN children
  <2>1. Len(k) \in 0 .. Len(k) /\ UptoOf(k, Len(k)) = k
    BY <1>2, UptoEnds
  <2> QED
    BY <1>1, <1>2, <1>3, <2>1, FollowsIff DEF Trie!Reaches
<1>5. k \notin words
  BY <1>1 DEF Trie!Contained
<1>6. Grows(children, slots, words \cup {k})
  BY <1>2, <1>3, <1>4 DEF Grows
<1>7. /\ IsFiniteSet(words) /\ Cardinality(words) \in Nat
      /\ Cardinality(words \cup {k}) = Cardinality(words) + 1
  BY <1>3, <1>5, WordsCounted, FS_AddElement
<1>8. Cardinality(words \cup {k}) < TrieSizeMax
  BY <1>3, <1>6, WordsCounted
<1>9. word_count' = Cardinality(words')
  <2>1. word_count = Cardinality(words)
    BY DEF TrieInv
  <2>2. word_count + 1 \in 0 .. TrieSizeMax
    BY <1>7, <1>8, <2>1, TrieSizes
  <2> QED
    BY <1>1, <1>7, <2>1, <2>2, TrieSizes
<1>10. Grows(children', slots', words')
  BY <1>1, <1>6
<1> QED
  BY <1>1, <1>9, <1>10 DEF TrieInv

LEMMA TrieBuilt ==
  ASSUME TrieInv, NEW k \in TrieKey, Trie!InsertBuilds(k)
  PROVE  TrieInv'
<1> DEFINE at == Trie!Branch(k)
           new == Trie!Suffix(k)
<1>0. /\ planted /\ ~Trie!Reaches(k)
      /\ Trie!IsFull(at) => Trie!CanGrow(at)
      /\ Trie!Cardinality(DOMAIN children \cup new) <= TrieSizeMax
      /\ children' = [p \in DOMAIN children \cup new |->
              IF p = at THEN Append(children[p], k[Len(p) + 1])
              ELSE IF p \in new THEN (IF p = k THEN <<>> ELSE <<k[Len(p) + 1]>>)
              ELSE children[p]]
      /\ slots' = [p \in DOMAIN children \cup new |->
              IF p = at THEN Trie!Grown(p)
              ELSE IF p \in new THEN (IF p = k THEN 0 ELSE 2)
              ELSE slots[p]]
      /\ held' = held + 2 * Trie!Cardinality(new) - 1 + IF slots[at] = 0 THEN 1 ELSE 0
      /\ words' = words \cup {k} /\ word_count' = Trie!Wrap(word_count + 1) /\ planted' = planted
      /\ answer' = [op |-> "insert", key |-> k, ok |-> TRUE]
  BY DEF Trie!InsertBuilds, Trie!Answer, Trie!Nodes
<1>1. /\ planted /\ ~Trie!Reaches(k)
      /\ Trie!IsFull(at) => Trie!CanGrow(at)
      /\ Cardinality(DOMAIN children \cup new) <= TrieSizeMax
      /\ held' = held + 2 * Cardinality(new) - 1 + IF slots[at] = 0 THEN 1 ELSE 0
      /\ words' = words \cup {k} /\ word_count' = Trie!Wrap(word_count + 1) /\ planted' = planted
      /\ answer' = [op |-> "insert", key |-> k, ok |-> TRUE]
  <2> HIDE DEF at, new
  <2> QED
    BY <1>0, TrieCardinality
<1>2. k \in Paths /\ k # <<>> /\ Len(k) \in Nat /\ Len(k) >= 1
  BY KeysArePaths
<1>3. Grows(children, slots, words) /\ <<>> \in DOMAIN children /\ Sprouts(children)
  BY <1>1 DEF TrieInv, Grows
<1>4. PICK i \in 0 .. Len(k) - 1 :
        /\ UptoOf(k, i) \in DOMAIN children /\ UptoOf(k, i + 1) \notin DOMAIN children
        /\ at = UptoOf(k, i) /\ new = Span(k, i)
  BY <1>1, BranchIs
<1> HIDE DEF at, new
<1>5. i \in 0 .. Len(k) /\ Len(at) = i
  <2>1. i \in 0 .. Len(k)
    BY <1>2
  <2> QED
    BY <1>2, <1>4, <2>1, UptoIs
<1>6. /\ k \in new /\ at \notin new /\ \A p \in new : p \notin DOMAIN children
  BY <1>2, <1>3, <1>4, SpanBelow DEF Span
<1>7. /\ Trie!Grown(at) \in Nat /\ Trie!Grown(at) > 0
      /\ Len(children[at]) + 1 <= Trie!Grown(at) /\ Trie!Fits(Trie!Grown(at))
  BY <1>1, <1>4, GrownFits
<1>8. PICK ch2, cap2 : ch2 = children' /\ cap2 = slots'
  OBVIOUS
<1>9. /\ DOMAIN ch2 = DOMAIN children \cup new /\ DOMAIN cap2 = DOMAIN children \cup new
      /\ \A p \in DOMAIN children \cup new :
           /\ ch2[p] = IF p = at THEN Append(children[p], k[Len(p) + 1])
                       ELSE IF p \in new THEN (IF p = k THEN <<>> ELSE <<k[Len(p) + 1]>>)
                       ELSE children[p]
           /\ cap2[p] = IF p = at THEN Trie!Grown(p)
                        ELSE IF p \in new THEN (IF p = k THEN 0 ELSE 2)
                        ELSE slots[p]
  BY <1>0, <1>8
<1>10. Grafted(children, ch2, k, i)
  <2>1. ch2[at] = Append(children[at], k[i + 1])
    BY <1>4, <1>5, <1>9
  <2>2. ASSUME NEW j \in i + 1 .. Len(k) - 1 PROVE ch2[UptoOf(k, j)] = <<k[j + 1]>>
    <3>1. j \in 0 .. Len(k) /\ j \in i + 1 .. Len(k) /\ j # Len(k)
      BY <1>2
    <3>2. Len(UptoOf(k, j)) = j
      BY <1>2, <3>1, UptoIs
    <3>3. UptoOf(k, j) \in new /\ UptoOf(k, j) # k
      BY <1>4, <3>1, <3>2 DEF Span
    <3> QED
      BY <1>6, <1>9, <3>2, <3>3
  <2>3. ch2[k] = <<>>
    BY <1>6, <1>9
  <2>4. \A p \in DOMAIN children \ {at} : ch2[p] = children[p]
    BY <1>6, <1>9
  <2> QED
    BY <1>4, <1>9, <2>1, <2>2, <2>3, <2>4 DEF Grafted
<1>11. Provided(slots, cap2, k, i)
  <2>1. DOMAIN slots = DOMAIN children
    BY <1>3 DEF Grows
  <2> QED
    BY <1>4, <1>6, <1>9, <2>1 DEF Provided
<1>12. cap2[at] = Trie!Grown(at)
  BY <1>4, <1>9
<1>13. Grows(ch2, cap2, words \cup {k})
  BY <1>1, <1>3, <1>4, <1>7, <1>10, <1>11, <1>12, BranchGrows
<1>14. 1 + Cardinality(DOMAIN ch2) + Cardinality(ArraysOf(cap2)) = held'
  <2>1. DOMAIN slots = DOMAIN children /\ \A p \in DOMAIN slots : slots[p] \in Nat
    BY <1>3 DEF Grows
  <2>2. 1 + Cardinality(DOMAIN children \cup Span(k, i)) + Cardinality(ArraysOf(cap2)) =
           1 + Cardinality(DOMAIN children) + Cardinality(ArraysOf(slots))
             + (2 * Cardinality(Span(k, i)) - 1 + IF slots[UptoOf(k, i)] = 0 THEN 1 ELSE 0)
    BY <1>3, <1>4, <1>7, <1>11, <1>12, <2>1, BranchOwned
  <2>3. held = 1 + Cardinality(DOMAIN children) + Cardinality(ArraysOf(slots))
    BY <1>1 DEF TrieInv
  <2>4. Cardinality(Span(k, i)) \in Nat
    BY <1>2, <1>5, SpanCount
  <2>5. Cardinality(DOMAIN children) \in Nat /\ Cardinality(ArraysOf(slots)) \in Nat
    <3>1. IsFiniteSet(DOMAIN children)
      BY <1>3 DEF Sprouts
    <3>2. ArraysOf(slots) \in SUBSET DOMAIN children
      BY <2>1 DEF ArraysOf
    <3>3. IsFiniteSet(ArraysOf(slots))
      BY <3>1, <3>2, FS_Subset
    <3> QED
      BY <3>1, <3>3, FS_CardinalityType
  <2> QED
    BY <1>1, <1>4, <1>9, <2>2, <2>3, <2>4, <2>5
<1>15. word_count' = Cardinality(words')
  <2>1. word_count = Cardinality(words) /\ words \subseteq DOMAIN children
    BY <1>3 DEF TrieInv, Grows
  <2>2. k \notin words
    BY <1>6, <2>1
  <2>3. /\ IsFiniteSet(words) /\ Cardinality(words) \in Nat
        /\ Cardinality(words \cup {k}) = Cardinality(words) + 1
    BY <1>3, <2>2, WordsCounted, FS_AddElement
  <2>4. Cardinality(words \cup {k}) < TrieSizeMax
    BY <1>3, <1>9, <1>13, WordsCounted
  <2>5. word_count + 1 \in 0 .. TrieSizeMax
    BY <2>1, <2>3, <2>4, TrieSizes
  <2> QED
    BY <1>1, <2>1, <2>3, <2>5, TrieSizes
<1>16. Grows(children', slots', words')
  BY <1>1, <1>8, <1>13
<1>17. DOMAIN children' = DOMAIN ch2 /\ ArraysOf(slots') = ArraysOf(cap2) /\ <<>> \in DOMAIN ch2
  BY <1>3, <1>8, <1>9
<1> QED
  BY <1>1, <1>14, <1>15, <1>16, <1>17 DEF TrieInv

------------------------------------------------------------------------------
Lowest(H) == CHOOSE m \in H : \A h \in H : m <= h

(* One step of the scan, g being the rest of it. *)
ScanStep(g, k, i, p, h) ==
  IF i > Len(k) \/ Trie!Hits(p, h, k[i]) = {} THEN <<>>
  ELSE LET m == Lowest(Trie!Hits(p, h, k[i]))
           child == Append(p, k[i])
           below == IF i < Len(k) THEN g[child][1]
                    ELSE IF child \in words THEN child ELSE <<>>
       IN  IF below # <<>> THEN below ELSE g[p][m + 1]

ScansFor(f, k) ==
  f = [i \in 1 .. Len(k) + 1 |-> [p \in DOMAIN children |-> [h \in Nat |-> ScanStep(f[i + 1], k, i, p, h)]]]

LEMMA TargetScans ==
  ASSUME NEW k
  PROVE  Trie!Target(k) = (CHOOSE f : ScansFor(f, k))[1][<<>>][1]
BY DEF Trie!Target, ScansFor, ScanStep, Lowest, Trie!Nodes

LEMMA LowestIs ==
  ASSUME NEW H, H \subseteq Nat, H # {}
  PROVE  Lowest(H) \in H
<1>1. \E m \in H : \A h \in H : m <= h
  BY LeastExists
<1> QED
  BY <1>1 DEF Lowest

LEMMA HitsAre ==
  ASSUME Sprouts(children), NEW p \in DOMAIN children, NEW c \in Char, NEW h \in Nat
  PROVE  /\ Trie!Hits(p, h, c) \subseteq Nat
         /\ Trie!Hits(p, h, c) # {} => Under(p, c) \in DOMAIN children
         /\ Under(p, c) \in DOMAIN children => Trie!Hits(p, 1, c) # {}
<1>1. Len(children[p]) \in Nat /\ p \in Paths
  BY DEF Sprouts
<1>2. \A m \in 1 .. Len(children[p]) : m \in Nat /\ m >= 1
  BY <1>1
<1> QED
  BY <1>1, <1>2, LinkedIs DEF Trie!Hits, Trie!Occupied

LEMMA ScanStays ==
  ASSUME Sprouts(children), words \subseteq DOMAIN children \ {<<>>},
         NEW k \in Paths, NEW i \in 1 .. Len(k), NEW p \in DOMAIN children, NEW h \in Nat,
         NEW g \in [DOMAIN children -> [Nat -> words \cup {<<>>}]]
  PROVE  ScanStep(g, k, i, p, h) \in words \cup {<<>>}
<1>1. Len(k) \in Nat /\ k[i] \in Char /\ ~(i > Len(k))
  BY ElementOfSeq DEF Paths
<1> DEFINE H == Trie!Hits(p, h, k[i])
           m == Lowest(H)
           child == Under(p, k[i])
           below == IF i < Len(k) THEN g[child][1] ELSE IF child \in words THEN child ELSE <<>>
<1>2. CASE H = {}
  BY <1>2 DEF ScanStep
<1>3. CASE H # {}
  <2>1. H \subseteq Nat /\ child \in DOMAIN children
    BY <1>1, <1>3, HitsAre
  <2>2. m \in Nat
    BY <1>3, <2>1, LowestIs
  <2>3. m + 1 \in Nat
    BY <2>2
  <2>4. ScanStep(g, k, i, p, h) = IF below # <<>> THEN below ELSE g[p][m + 1]
    BY <1>1, <1>3 DEF ScanStep, Under
  <2> HIDE DEF m, H, child
  <2>5. below \in words \cup {<<>>}
    BY <2>1
  <2>6. g[p][m + 1] \in words \cup {<<>>}
    BY <2>3
  <2> HIDE DEF below
  <2> QED
    BY <2>4, <2>5, <2>6
<1> QED
  BY <1>2, <1>3

LEMMA ScanExists ==
  ASSUME Sprouts(children), words \subseteq DOMAIN children \ {<<>>}, NEW k \in Paths
  PROVE  \E f : ScansFor(f, k)
<1> DEFINE D == DOMAIN children
           V == words \cup {<<>>}
           X == [D -> [Nat -> V]]
           L == Len(k)
           first == [p \in D |-> [h \in Nat |-> <<>>]]
           Level(g, j) == [p \in D |-> [h \in Nat |-> ScanStep(g, k, L + 1 - j, p, h)]]
           step == [j \in 1 .. L |-> [g \in X |-> Level(g, j)]]
<1>1. L \in Nat
  BY DEF Paths
<1>2. first \in X
  OBVIOUS
<1>3. ASSUME NEW j \in 1 .. L, NEW g \in X PROVE Level(g, j) \in X
  <2>1. L + 1 - j \in 1 .. L
    BY <1>1
  <2>2. \A p \in D : \A h \in Nat : ScanStep(g, k, L + 1 - j, p, h) \in V
    BY <2>1, ScanStays
  <2> QED
    BY <2>2
<1>4. step \in [1 .. L -> [X -> X]]
  <2> HIDE DEF X, Level
  <2> QED
    BY <1>3
<1>5. PICK F \in [0 .. L -> X] : Recurs(F, L, first, step)
  <2> HIDE DEF X, step, first, L
  <2> QED
    BY <1>1, <1>2, <1>4, RecursionExists
<1>6. F[0] = first /\ \A j \in 1 .. L : F[j] = Level(F[j - 1], j)
  <2>1. ASSUME NEW j \in 1 .. L PROVE F[j] = Level(F[j - 1], j)
    <3>1. F[j] = step[j][F[j - 1]]
      BY <1>5 DEF Recurs
    <3>2. j - 1 \in 0 .. L
      BY <1>1
    <3> HIDE DEF X, Level
    <3>3. F[j - 1] \in X
      BY <1>5, <3>2
    <3> QED
      BY <3>1, <3>3
  <2> QED
    BY <1>5, <2>1 DEF Recurs
<1> DEFINE f == [i \in 1 .. L + 1 |-> F[L + 1 - i]]
<1>7. ASSUME NEW i \in 1 .. L + 1
      PROVE  f[i] = [p \in D |-> [h \in Nat |-> ScanStep(f[i + 1], k, i, p, h)]]
  <2>1. CASE i = L + 1
    <3>1. \A g, p, h : ScanStep(g, k, i, p, h) = <<>>
      BY <1>1, <2>1 DEF ScanStep
    <3>2. f[i] = first
      BY <1>1, <1>6, <2>1
    <3>3. [p \in D |-> [h \in Nat |-> ScanStep(f[i + 1], k, i, p, h)]] = first
      <4> HIDE DEF f
      <4> QED
        BY <3>1
    <3> QED
      BY <3>2, <3>3
  <2>2. CASE i # L + 1
    <3>1. /\ L + 1 - i \in 1 .. L /\ i + 1 \in 1 .. L + 1 /\ L + 1 - (i + 1) = (L + 1 - i) - 1
          /\ L + 1 - (L + 1 - i) = i
      BY <1>1, <2>2
    <3>2. f[i] = F[L + 1 - i] /\ f[i + 1] = F[(L + 1 - i) - 1]
      BY <3>1
    <3>3. F[L + 1 - i] = Level(F[(L + 1 - i) - 1], L + 1 - i)
      BY <1>6, <3>1
    <3> HIDE DEF f
    <3> QED
      BY <3>1, <3>2, <3>3
  <2> QED
    BY <2>1, <2>2
<1>8. f = [i \in 1 .. L + 1 |-> [p \in D |-> [h \in Nat |-> ScanStep(f[i + 1], k, i, p, h)]]]
  <2>1. f = [i \in 1 .. L + 1 |-> f[i]]
    OBVIOUS
  <2> HIDE DEF f
  <2> QED
    BY <1>7, <2>1
<1> HIDE DEF f
<1> QED
  BY <1>8 DEF ScansFor

LEMMA ScanUnfolds ==
  ASSUME NEW k, NEW f, ScansFor(f, k), NEW i \in 1 .. Len(k) + 1, NEW p \in DOMAIN children, NEW h \in Nat
  PROVE  f[i][p][h] = ScanStep(f[i + 1], k, i, p, h)
<1> DEFINE D == DOMAIN children
<1>1. f = [j \in 1 .. Len(k) + 1 |-> [q \in D |-> [m \in Nat |-> ScanStep(f[j + 1], k, j, q, m)]]]
  BY DEF ScansFor
<1>2. f[i] = [q \in D |-> [m \in Nat |-> ScanStep(f[i + 1], k, i, q, m)]]
  BY <1>1, Zenon
<1>3. f[i][p] = [m \in Nat |-> ScanStep(f[i + 1], k, i, p, m)]
  BY <1>2, Zenon
<1> QED
  BY <1>3, Zenon

(* What the search finds is a stored word, and it finds a stored word. *)
LEMMA TargetIs ==
  ASSUME TrieInv, planted, NEW k \in TrieKey
  PROVE  /\ Trie!Target(k) \in words \cup {<<>>}
         /\ k \in words => Trie!Target(k) = k
<1>1. k \in Paths /\ k # <<>> /\ Len(k) \in Nat /\ Len(k) >= 1
  BY KeysArePaths
<1>2. /\ Sprouts(children) /\ <<>> \in DOMAIN children /\ words \subseteq DOMAIN children \ {<<>>}
  BY DEF TrieInv, Grows
<1> DEFINE f == CHOOSE f : ScansFor(f, k)
           V == words \cup {<<>>}
           L == Len(k)
           X == [DOMAIN children -> [Nat -> V]]
<1>3. ScansFor(f, k)
  BY <1>1, <1>2, ScanExists
<1>4. Trie!Target(k) = f[1][<<>>][1]
  BY TargetScans
<1> HIDE DEF f
<1>5. \A i \in 1 .. L + 1 : \A p \in DOMAIN children : \A h \in Nat :
        f[i][p][h] = ScanStep(f[i + 1], k, i, p, h)
  BY <1>3, ScanUnfolds
<1>6. \A i \in 1 .. L + 1 : f[i] = [p \in DOMAIN children |-> [h \in Nat |-> f[i][p][h]]]
  <2>1. ASSUME NEW i \in 1 .. L + 1
        PROVE  f[i] = [p \in DOMAIN children |-> [h \in Nat |-> f[i][p][h]]]
    <3>1. f[i] = [p \in DOMAIN children |-> [h \in Nat |-> ScanStep(f[i + 1], k, i, p, h)]]
      BY <1>3, Zenon DEF ScansFor
    <3>2. ASSUME NEW p \in DOMAIN children
          PROVE  [h \in Nat |-> ScanStep(f[i + 1], k, i, p, h)] = [h \in Nat |-> f[i][p][h]]
      BY <1>5
    <3> QED
      BY <3>1, <3>2
  <2> QED
    BY <2>1
<1> DEFINE S == {j \in 0 .. L : f[L + 1 - j] \in X}
<1>7. \A j \in 0 .. L : j \in S
  <2>1. 0 \in S
    <3>1. L + 1 - 0 = L + 1 /\ L + 1 \in 1 .. L + 1 /\ L + 1 > L
      BY <1>1
    <3>2. \A g, p, h : ScanStep(g, k, L + 1, p, h) = <<>>
      BY <3>1 DEF ScanStep
    <3>3. \A p \in DOMAIN children : \A h \in Nat : f[L + 1][p][h] = <<>>
      BY <1>5, <3>1, <3>2
    <3>4. [p \in DOMAIN children |-> [h \in Nat |-> f[L + 1][p][h]]] \in X
      BY <3>3
    <3>5. f[L + 1] \in X
      <4> HIDE DEF X
      <4> QED
        BY <1>6, <3>1, <3>4
    <3> QED
      BY <1>1, <3>1, <3>5
  <2>2. ASSUME NEW j \in 1 .. L, j - 1 \in S PROVE j \in S
    <3>1. /\ L + 1 - j \in 1 .. L /\ L + 1 - j \in 1 .. L + 1 /\ L + 1 - (j - 1) = (L + 1 - j) + 1
          /\ j \in 0 .. L
      BY <1>1
    <3> DEFINE i == L + 1 - j
    <3>2. f[i + 1] \in X
      BY <2>2, <3>1
    <3> HIDE DEF i
    <3>3. i \in 1 .. L /\ i \in 1 .. L + 1 /\ i = L + 1 - j
      BY <3>1 DEF i
    <3>4. \A p \in DOMAIN children : \A h \in Nat : ScanStep(f[i + 1], k, i, p, h) \in V
      BY <1>1, <1>2, <3>2, <3>3, ScanStays
    <3>5. \A p \in DOMAIN children : \A h \in Nat : f[i][p][h] \in V
      BY <1>5, <3>3, <3>4
    <3>6. [p \in DOMAIN children |-> [h \in Nat |-> f[i][p][h]]] \in X
      BY <3>5
    <3>7. f[i] \in X
      <4> HIDE DEF X
      <4> QED
        BY <1>6, <3>3, <3>6
    <3> QED
      BY <3>1, <3>3, <3>7
  <2> HIDE DEF S
  <2> QED
    BY <1>1, <2>1, <2>2, Upward
<1>8. \A i \in 1 .. L + 1 : f[i] \in X
  <2>1. ASSUME NEW i \in 1 .. L + 1 PROVE f[i] \in X
    <3>1. L + 1 - i \in 0 .. L /\ L + 1 - (L + 1 - i) = i
      BY <1>1
    <3>2. L + 1 - i \in S
      BY <1>7, <3>1
    <3> QED
      BY <3>1, <3>2
  <2> QED
    BY <2>1
<1>9. Trie!Target(k) \in words \cup {<<>>}
  <2>1. f[1] \in X
    BY <1>1, <1>8
  <2> QED
    BY <1>2, <1>4, <2>1
<1> DEFINE T == {j \in 0 .. L : j # 0 => f[L + 1 - j][UptoOf(k, L - j)][1] = k}
<1>10. ASSUME k \in words PROVE Trie!Target(k) = k
  <2>1. UptoOf(k, L) \in DOMAIN children /\ UptoOf(k, L) = k /\ L \in 0 .. L
    BY <1>1, <1>2, <1>10, UptoEnds
  <2>2. \A i \in 0 .. L : UptoOf(k, i) \in DOMAIN children
    BY <1>1, <1>2, <2>1, ShorterToo
  <2>3. 0 \in T
    BY <1>1
  <2>4. ASSUME NEW j \in 1 .. L, j - 1 \in T PROVE j \in T
    <3> DEFINE i == L + 1 - j
               p == UptoOf(k, L - j)
               child == Under(p, k[i])
               H == Trie!Hits(p, 1, k[i])
               below == IF i < L THEN f[i + 1][child][1] ELSE IF child \in words THEN child ELSE <<>>
    <3>1. /\ i \in 1 .. L /\ i \in 1 .. L + 1 /\ i - 1 = L - j /\ L - j \in 0 .. L /\ L - j \in 0 .. L - 1
          /\ (L - j) + 1 = i /\ L + 1 - (j - 1) = i + 1 /\ L - (j - 1) = i /\ i \in 0 .. L
          /\ j - 1 \in 0 .. L /\ (i < L => j - 1 # 0) /\ ~(i > L) /\ (~(i < L) => i = L)
      BY <1>1
    <3>2. k[i] \in Char /\ child = UptoOf(k, i) /\ p \in DOMAIN children
      <4>1. k[(L - j) + 1] \in Char /\ Under(UptoOf(k, L - j), k[(L - j) + 1]) = UptoOf(k, (L - j) + 1)
        BY <1>1, <3>1, UptoStep
      <4> QED
        BY <2>2, <3>1, <4>1
    <3>3. i < L => f[i + 1][UptoOf(k, i)][1] = k
      <4>1. j - 1 # 0 => f[L + 1 - (j - 1)][UptoOf(k, L - (j - 1))][1] = k
        BY <2>4
      <4> QED
        BY <3>1, <4>1
    <3> HIDE DEF i
    <3>4. ~(i < L) => child = k
      BY <2>1, <3>1, <3>2
    <3>5. H # {}
      <4>1. child \in DOMAIN children
        BY <2>2, <3>1, <3>2
      <4> QED
        BY <1>2, <3>2, <4>1, HitsAre
    <3>6. below = k
      <4> HIDE DEF child
      <4> QED
        BY <1>10, <3>2, <3>3, <3>4
    <3>7. ScanStep(f[i + 1], k, i, p, 1) = IF below # <<>> THEN below ELSE f[i + 1][p][Lowest(H) + 1]
      BY <3>1, <3>5 DEF ScanStep, Under
    <3> HIDE DEF below, H, p
    <3>8. f[i][p][1] = k
      BY <1>1, <1>5, <3>1, <3>2, <3>6, <3>7
    <3> QED
      BY <1>1, <3>8 DEF i, p
  <2> HIDE DEF T
  <2>5. L \in T
    <3>1. \A j \in 0 .. L : j \in T
      BY <1>1, <2>3, <2>4, Upward
    <3> QED
      BY <1>1, <3>1
  <2>6. L + 1 - L = 1 /\ L - L = 0 /\ L # 0
    BY <1>1
  <2>7. f[1][UptoOf(k, 0)][1] = k
    BY <2>5, <2>6 DEF T
  <2> QED
    BY <1>1, <1>4, <2>7, UptoEnds
<1> QED
  BY <1>9, <1>10

------------------------------------------------------------------------------
(* r holds the characters of s but c, each at one place. *)
Without(s, c, r) ==
  /\ r \in Seq(Char) /\ Len(s) \in Nat /\ Len(r) = Len(s) - 1
  /\ \A j \in 1 .. Len(r) : r[j] # c /\ \E m \in 1 .. Len(s) : r[j] = s[m]
  /\ \A l, j \in 1 .. Len(r) : l # j => r[l] # r[j]
  /\ \A m \in 1 .. Len(s) : s[m] # c => \E j \in 1 .. Len(r) : r[j] = s[m]

Distinct(s) == \A l, m \in 1 .. Len(s) : l # m => s[l] # s[m]

(* Compaction takes away one character and keeps the others. *)
LEMMA CompactedIs ==
  ASSUME NEW s \in Seq(Char), NEW c \in Char, NEW h \in 1 .. Len(s), s[h] = c, Distinct(s)
  PROVE  Without(s, c, Trie!Compacted(s, c))
<1> DEFINE r == Trie!Compacted(s, c)
           L == Len(s)
<1>1. L \in Nat /\ L >= 1 /\ h <= L /\ h >= 1 /\ h \in Nat
  OBVIOUS
<1>2. (CHOOSE n_1 \in 1 .. Len(s) : s[n_1] = c) = h
  BY DEF Distinct
<1>3. r = [m \in 1 .. L - 1 |-> IF m = h THEN s[L] ELSE s[m]]
  BY <1>2 DEF Trie!Compacted
<1>4. \A m \in 1 .. L : s[m] \in Char
  OBVIOUS
<1>5. r \in [1 .. L - 1 -> Char] /\ L - 1 \in Nat
  BY <1>1, <1>3, <1>4
<1>6. r \in Seq(Char)
  BY <1>5, SeqDef
<1>7. Len(r) = L - 1
  <2>1. DOMAIN r = 1 .. L - 1 /\ DOMAIN r = 1 .. Len(r) /\ Len(r) \in Nat
    BY <1>5, <1>6, LenProperties
  <2> QED
    BY <1>5, <2>1
<1>8. \A m \in 1 .. L - 1 : r[m] = IF m = h THEN s[L] ELSE s[m]
  BY <1>3
<1> HIDE DEF r, L
<1>9. \A m \in 1 .. L - 1 : m \in 1 .. L /\ m # L
  BY <1>1
<1>10. \A l, m \in 1 .. L : l # m => s[l] # s[m]
  BY DEF L, Distinct
<1>11. \A j \in 1 .. Len(r) : r[j] # c /\ \E m \in 1 .. L : r[j] = s[m]
  <2>1. ASSUME NEW j \in 1 .. L - 1 PROVE r[j] # c /\ \E m \in 1 .. L : r[j] = s[m]
    <3>1. j \in 1 .. L /\ L \in 1 .. L /\ h \in 1 .. L /\ j # L
      BY <1>1
    <3>2. CASE j = h
      BY <1>8, <1>10, <3>1, <3>2
    <3>3. CASE j # h
      BY <1>8, <1>10, <3>1, <3>3
    <3> QED
      BY <3>2, <3>3
  <2> QED
    BY <1>7, <2>1
<1>12. \A l, j \in 1 .. Len(r) : l # j => r[l] # r[j]
  BY <1>1, <1>7, <1>8, <1>9, <1>10
<1>13. \A m \in 1 .. L : s[m] # c => \E j \in 1 .. Len(r) : r[j] = s[m]
  <2>1. ASSUME NEW m \in 1 .. L, s[m] # c PROVE \E j \in 1 .. Len(r) : r[j] = s[m]
    <3>1. m # h
      BY <2>1
    <3>2. CASE m = L
      <4>1. h \in 1 .. L - 1
        BY <1>1, <3>1, <3>2
      <4> QED
        BY <1>7, <1>8, <3>2, <4>1
    <3>3. CASE m # L
      <4>1. m \in 1 .. L - 1
        BY <1>1, <3>3
      <4> QED
        BY <1>7, <1>8, <3>1, <4>1
    <3> QED
      BY <3>2, <3>3
  <2> QED
    BY <2>1
<1> QED
  BY <1>1, <1>6, <1>7, <1>11, <1>12, <1>13 DEF r, L, Without

(* A node the unwind would delete once the word t is gone. *)
Idle(ch, W, t, j) ==
  LET q == UptoOf(t, j)
  IN  Len(ch[q]) = (IF q = t THEN 0 ELSE 1) /\ (q # t => q \notin W)

LEMMA GoneIs ==
  ASSUME NEW t \in Paths, Len(t) >= 1
  PROVE  \E m \in 0 .. Len(t) :
           /\ Trie!Unneeded(t) = Span(t, m)
           /\ \A j \in m + 1 .. Len(t) : Idle(children, words, t, j)
           /\ m > 0 => ~Idle(children, words, t, m)
<1>1. Len(t) \in Nat
  BY DEF Paths
<1> DEFINE P(j) == Idle(children, words, t, j)
           S == {m \in 0 .. Len(t) : \A j \in m + 1 .. Len(t) : P(j)}
<1>2. Len(t) \in S
  BY <1>1
<1>3. S \subseteq Nat
  BY <1>1
<1>4. PICK m \in S : \A l \in S : m <= l
  <2> HIDE DEF S
  <2> QED
    BY <1>2, <1>3, LeastExists
<1>5. m \in 0 .. Len(t) /\ \A j \in m + 1 .. Len(t) : P(j)
  BY <1>4
<1>6. ASSUME m > 0, P(m) PROVE FALSE
  <2>1. \A j \in (m - 1) + 1 .. Len(t) : j = m \/ j \in m + 1 .. Len(t)
    BY <1>1, <1>5
  <2>2. m - 1 \in 0 .. Len(t)
    BY <1>1, <1>5, <1>6
  <2>3. m - 1 \in S
    <3> HIDE DEF P
    <3> QED
      BY <1>5, <1>6, <2>1, <2>2
  <2> HIDE DEF S
  <2> QED
    BY <1>1, <1>4, <1>5, <2>3
<1> HIDE DEF S
<1>7. ASSUME NEW i \in 1 .. Len(t)
      PROVE  (\A j \in i .. Len(t) : P(j)) <=> i \in m + 1 .. Len(t)
  <2>1. ASSUME i \in m + 1 .. Len(t) PROVE \A j \in i .. Len(t) : P(j)
    <3>1. \A j \in i .. Len(t) : j \in m + 1 .. Len(t)
      BY <1>1, <1>5, <2>1
    <3> HIDE DEF P
    <3> QED
      BY <1>5, <3>1
  <2>2. ASSUME i \notin m + 1 .. Len(t), \A j \in i .. Len(t) : P(j) PROVE FALSE
    <3>1. m > 0 /\ m \in i .. Len(t)
      BY <1>1, <1>5, <2>2
    <3> HIDE DEF P
    <3> QED
      BY <1>6, <2>2, <3>1
  <2> QED
    BY <2>1, <2>2
<1>8. \A i \in 1 .. Len(t) : Len(UptoOf(t, i)) = i
  <2>1. \A i \in 1 .. Len(t) : i \in 0 .. Len(t)
    BY <1>1
  <2> QED
    BY <2>1, UptoIs
<1> DEFINE Q(p) == \A q \in {UptoOf(t, i) : i \in Len(p) .. Len(t)} :
                      /\ Len(children[q]) = IF q = t THEN 0 ELSE 1
                      /\ q # t => q \notin words
<1>9. Trie!Unneeded(t) = {p \in {UptoOf(t, i) : i \in 1 .. Len(t)} : Q(p)}
  BY DEF Trie!Unneeded, Trie!Upto, UptoOf
<1>10. ASSUME NEW i \in 1 .. Len(t) PROVE Q(UptoOf(t, i)) <=> i \in m + 1 .. Len(t)
  <2>1. Q(UptoOf(t, i)) <=> \A j \in i .. Len(t) : P(j)
    BY <1>8 DEF Idle
  <2> QED
    BY <1>7, <2>1
<1> HIDE DEF Q, P
<1>11. Trie!Unneeded(t) = Span(t, m)
  <2>1. \A i \in m + 1 .. Len(t) : i \in 1 .. Len(t)
    BY <1>1, <1>5
  <2> QED
    BY <1>9, <1>10, <2>1 DEF Span
<1> QED
  BY <1>5, <1>6, <1>11 DEF P

(* ch2 is ch without the end of t that m leaves over. *)
Pruned(ch, ch2, t, m) ==
  /\ DOMAIN ch2 = DOMAIN ch \ Span(t, m)
  /\ \A p \in DOMAIN ch2 : p # UptoOf(t, m) \/ m = Len(t) => ch2[p] = ch[p]
  /\ m < Len(t) => ch2[UptoOf(t, m)] = Trie!Compacted(ch[UptoOf(t, m)], t[m + 1])

LEMMA PruneShape ==
  ASSUME NEW ch, Sprouts(ch), NEW W, W \subseteq DOMAIN ch, NEW t \in DOMAIN ch, Len(t) >= 1, t \in W,
         \A p \in DOMAIN ch \ {<<>>} : ch[p] = <<>> => p \in W,
         NEW m \in 0 .. Len(t), \A j \in m + 1 .. Len(t) : Idle(ch, W, t, j), m > 0 => ~Idle(ch, W, t, m),
         NEW ch2, Pruned(ch, ch2, t, m)
  PROVE  /\ Sprouts(ch2)
         /\ \A p \in DOMAIN ch2 : Len(ch2[p]) <= Len(ch[p])
         /\ \A p \in DOMAIN ch2 \ {<<>>} : ch2[p] = <<>> => p \in W \ {t}
         /\ W \ {t} \subseteq DOMAIN ch2
         /\ <<>> \in DOMAIN ch2
<1> DEFINE D == DOMAIN ch
           D2 == DOMAIN ch2
           at == UptoOf(t, m)
           N == Span(t, m)
<1>1. /\ t \in Paths /\ Len(t) \in Nat /\ \A j \in 0 .. Len(t) : UptoOf(t, j) \in D
      /\ UptoOf(t, Len(t)) = t
  BY PrefixesStay, UptoEnds
<1>2. D2 = D \ N
  BY DEF Pruned
<1>3. \A j \in 0 .. Len(t) : UptoOf(t, j) \in Paths /\ Len(UptoOf(t, j)) = j
  BY <1>1, UptoIs
<1>4. at \in D2 /\ at \in Paths /\ \A j \in 0 .. Len(t) : UptoOf(t, j) \in N <=> j > m
  <2>1. \A j \in m + 1 .. Len(t) : j \in 0 .. Len(t) /\ j > m
    BY <1>1
  <2>2. ASSUME NEW j \in 0 .. Len(t) PROVE UptoOf(t, j) \in N <=> j > m
    <3>1. ASSUME UptoOf(t, j) \in N PROVE j > m
      <4>1. PICK l \in m + 1 .. Len(t) : UptoOf(t, j) = UptoOf(t, l)
        BY <3>1 DEF Span
      <4>2. l = j
        BY <1>3, <2>1, <4>1
      <4> QED
        BY <2>1, <4>2
    <3>2. ASSUME j > m PROVE UptoOf(t, j) \in N
      <4>1. j \in m + 1 .. Len(t)
        BY <1>1, <3>2
      <4> QED
        BY <4>1 DEF Span
    <3> QED
      BY <3>1, <3>2
  <2>3. ~(m > m)
    BY <1>1
  <2> QED
    BY <1>1, <1>2, <1>3, <2>2, <2>3
<1>5. \A j \in 0 .. Len(t) - 1 : t[j + 1] \in Char /\ Under(UptoOf(t, j), t[j + 1]) = UptoOf(t, j + 1)
  BY <1>1, UptoStep
<1>6. \A p \in D : /\ ch[p] \in Seq(Char) /\ Len(ch[p]) \in Nat
                   /\ \A l, h \in 1 .. Len(ch[p]) : l # h => ch[p][l] # ch[p][h]
                   /\ \A h \in 1 .. Len(ch[p]) : Under(p, ch[p][h]) \in D /\ ch[p][h] \in Char
  BY DEF Sprouts
<1>7. D \subseteq Paths /\ IsFiniteSet(D)
  BY DEF Sprouts
<1> DEFINE s == ch[at]
           r == ch2[at]
           c == t[m + 1]
<1>8. ASSUME m < Len(t)
      PROVE  /\ r \in Seq(Char) /\ Len(s) \in Nat /\ Len(r) = Len(s) - 1
             /\ \A j \in 1 .. Len(r) : r[j] # c /\ \E h \in 1 .. Len(s) : r[j] = s[h]
             /\ \A l, j \in 1 .. Len(r) : l # j => r[l] # r[j]
             /\ \A h \in 1 .. Len(s) : s[h] # c => \E j \in 1 .. Len(r) : r[j] = s[h]
             /\ c \in Char /\ Under(at, c) = UptoOf(t, m + 1) /\ m + 1 \in 0 .. Len(t) /\ m \in 0 .. Len(t) - 1
  <2>1. m \in 0 .. Len(t) - 1 /\ m + 1 \in 0 .. Len(t)
    BY <1>1, <1>8
  <2>2. c \in Char /\ Under(at, c) = UptoOf(t, m + 1)
    BY <1>5, <2>1
  <2>3. Under(at, c) \in D
    BY <1>1, <2>1, <2>2
  <2>4. at \in D /\ s \in Seq(Char) /\ Distinct(s)
    BY <1>1, <1>6 DEF Distinct
  <2>5. PICK h \in 1 .. Len(s) : s[h] = c
    BY <1>4, <2>2, <2>3, LinkedIs
  <2>6. r = Trie!Compacted(s, c)
    BY <1>8 DEF Pruned
  <2> HIDE DEF s, r, c
  <2>7. Without(s, c, r)
    BY <2>2, <2>4, <2>5, <2>6, CompactedIs
  <2> QED
    BY <2>1, <2>2, <2>7 DEF Without
<1>9. \A p \in D2 : p # at \/ ~(m < Len(t)) => ch2[p] = ch[p]
  <2>1. ~(m < Len(t)) => m = Len(t)
    BY <1>1
  <2> QED
    BY <2>1 DEF Pruned
<1> HIDE DEF D, D2, at, N, s, r, c
<1>10. ASSUME NEW p \in D2
       PROVE  /\ ch2[p] \in Seq(Char)
              /\ \A l, h \in 1 .. Len(ch2[p]) : l # h => ch2[p][l] # ch2[p][h]
              /\ Len(ch2[p]) <= Len(ch[p])
              /\ \A j \in 1 .. Len(ch2[p]) : \E h \in 1 .. Len(ch[p]) : ch2[p][j] = ch[p][h]
              /\ p = at /\ m < Len(t) => \A j \in 1 .. Len(ch2[p]) : ch2[p][j] # c
  <2>1. CASE p = at /\ m < Len(t)
    BY <1>8, <2>1 DEF r, s
  <2>2. CASE p # at \/ ~(m < Len(t))
    <3>1. p \in D /\ ch2[p] = ch[p]
      BY <1>2, <1>9, <2>2
    <3> QED
      BY <1>6, <2>2, <3>1
  <2> QED
    BY <2>1, <2>2
<1>11. ASSUME NEW p \in D2, NEW j \in 1 .. Len(ch2[p])
       PROVE  Under(p, ch2[p][j]) \in D2
  <2>1. PICK h \in 1 .. Len(ch[p]) : ch2[p][j] = ch[p][h]
    BY <1>10
  <2>2. p \in D /\ p \in Paths
    BY <1>2, <1>7
  <2>3. Under(p, ch2[p][j]) \in D /\ ch2[p][j] \in Char
    BY <1>6, <2>1, <2>2
  <2>4. ASSUME Under(p, ch2[p][j]) \in N PROVE FALSE
    <3>1. PICK l \in m + 1 .. Len(t) : Under(p, ch2[p][j]) = UptoOf(t, l)
      BY <2>4 DEF N, Span
    <3>2. l - 1 \in 0 .. Len(t) - 1 /\ (l - 1) + 1 = l /\ l - 1 \in 0 .. Len(t) /\ m < Len(t)
      BY <1>1
    <3>3. t[l] \in Char /\ Under(UptoOf(t, l - 1), t[l]) = UptoOf(t, l) /\ UptoOf(t, l - 1) \in Paths
      BY <1>3, <1>5, <3>2
    <3>4. p = UptoOf(t, l - 1) /\ ch2[p][j] = t[l]
      BY <2>2, <2>3, <3>1, <3>3, AppendsDiffer
    <3>5. ~(l - 1 > m)
      BY <1>2, <1>4, <3>2, <3>4
    <3>6. l = m + 1 /\ l - 1 = m
      BY <1>1, <3>2, <3>5
    <3>7. p = at /\ ch2[p][j] = c
      BY <3>4, <3>6 DEF at, c
    <3> QED
      BY <1>10, <3>2, <3>7
  <2> QED
    BY <1>2, <2>3, <2>4
<1>12. ASSUME NEW p \in Paths, NEW x \in Char, Under(p, x) \in D2
       PROVE  p \in D2 /\ \E j \in 1 .. Len(ch2[p]) : ch2[p][j] = x
  <2>1. Under(p, x) \in D /\ Under(p, x) \notin N
    BY <1>2, <1>12
  <2>2. p \in D /\ \E h \in 1 .. Len(ch[p]) : ch[p][h] = x
    BY <2>1, LinkedIs DEF D
  <2>3. PICK h \in 1 .. Len(ch[p]) : ch[p][h] = x
    BY <2>2
  <2>4. ASSUME p \in N PROVE FALSE
    <3>1. PICK l \in m + 1 .. Len(t) : p = UptoOf(t, l)
      BY <2>4 DEF N, Span
    <3>2. l \in 0 .. Len(t)
      BY <1>1
    <3>3. Len(ch[p]) = (IF p = t THEN 0 ELSE 1)
      BY <3>1 DEF Idle
    <3>4. p # t /\ Len(ch[p]) = 1 /\ h = 1
      <4>1. Len(ch[p]) # 0
        BY <1>6, <2>2, <2>3
      <4> QED
        BY <2>3, <3>3, <4>1
    <3>5. l # Len(t)
      BY <1>1, <3>1, <3>4
    <3>6. l \in 0 .. Len(t) - 1 /\ l + 1 \in 0 .. Len(t) /\ l + 1 > m
      BY <1>1, <3>5
    <3>7. Under(p, t[l + 1]) = UptoOf(t, l + 1) /\ t[l + 1] \in Char
      BY <1>5, <3>1, <3>6
    <3>8. UptoOf(t, l + 1) \in D /\ UptoOf(t, l + 1) \in N
      BY <1>1, <1>4, <3>6
    <3>9. \E g \in 1 .. Len(ch[p]) : ch[p][g] = t[l + 1]
      BY <3>7, <3>8, LinkedIs DEF D
    <3>10. x = t[l + 1]
      BY <2>3, <3>4, <3>9
    <3> QED
      BY <2>1, <3>7, <3>8, <3>10
  <2>5. p \in D2
    BY <1>2, <2>2, <2>4
  <2>6. CASE p = at /\ m < Len(t)
    <3>1. x # c
      <4>1. UptoOf(t, m + 1) \in N
        <5>1. m + 1 > m
          BY <1>1
        <5> QED
          BY <1>4, <1>8, <2>6, <5>1
      <4> QED
        BY <1>8, <2>1, <2>6, <4>1
    <3> QED
      BY <1>8, <2>3, <2>5, <2>6, <3>1 DEF r, s
  <2>7. CASE p # at \/ ~(m < Len(t))
    BY <1>9, <2>3, <2>5, <2>7
  <2> QED
    BY <2>5, <2>6, <2>7
<1>13. ASSUME NEW p \in D2 \ {<<>>}, ch2[p] = <<>> PROVE p \in W \ {t}
  <2>1. p \in D /\ p \notin N /\ Len(ch2[p]) = 0
    BY <1>2, <1>13
  <2>2. CASE p # at \/ ~(m < Len(t))
    <3>1. ch[p] = <<>>
      BY <1>9, <1>13, <2>2
    <3>2. p \in W
      BY <1>13, <2>1, <3>1 DEF D
    <3>3. ASSUME p = t PROVE FALSE
      <4>1. ~(Len(t) > m)
        BY <1>1, <1>4, <2>1, <3>3
      <4>2. m = Len(t) /\ m > 0 /\ UptoOf(t, m) = t
        BY <1>1, <4>1
      <4>3. Idle(ch, W, t, m)
        BY <3>1, <3>3, <4>2 DEF Idle
      <4> QED
        BY <4>2, <4>3
    <3> QED
      BY <3>2, <3>3
  <2>3. CASE p = at /\ m < Len(t)
    <3>1. Len(ch[at]) = 1
      <4>1. Len(r) = Len(s) - 1 /\ Len(s) \in Nat
        BY <1>8, <2>3
      <4>2. Len(r) = 0
        BY <2>1, <2>3 DEF r
      <4> QED
        BY <4>1, <4>2 DEF s
    <3>2. at # t
      <4>1. Len(at) = m
        BY <1>3 DEF at
      <4> QED
        BY <1>1, <2>3, <4>1
    <3>3. m > 0
      <4>1. m = 0 => at = <<>>
        BY <1>1, UptoEnds DEF at
      <4> QED
        BY <1>13, <2>3, <4>1
    <3>4. at \in W
      BY <3>1, <3>2, <3>3 DEF Idle, at
    <3> QED
      BY <2>3, <3>2, <3>4
  <2> QED
    BY <2>2, <2>3
<1>14. W \ {t} \subseteq D2
  <2>1. ASSUME NEW p \in W \ {t}, p \in N PROVE FALSE
    <3>1. PICK l \in m + 1 .. Len(t) : p = UptoOf(t, l)
      BY <2>1 DEF N, Span
    <3> QED
      BY <2>1, <3>1 DEF Idle
  <2> QED
    BY <1>2, <2>1 DEF D
<1>15. <<>> \in D2
  <2>1. UptoOf(t, 0) = <<>> /\ 0 \in 0 .. Len(t) /\ ~(0 > m)
    BY <1>1, UptoEnds
  <2> QED
    BY <1>1, <1>2, <1>4, <2>1
<1>16. D2 \subseteq Paths /\ IsFiniteSet(D2)
  <2>1. D2 \in SUBSET D
    BY <1>2
  <2>2. IsFiniteSet(D2)
    BY <1>7, <2>1, FS_Subset
  <2> QED
    BY <1>7, <2>1, <2>2
<1>17. Sprouts(ch2)
  BY <1>10, <1>11, <1>12, <1>16 DEF Sprouts, D2
<1> QED
  BY <1>10, <1>13, <1>14, <1>15, <1>17 DEF D2

LEMMA TrieRemoved ==
  ASSUME TrieInv, NEW k \in TrieKey, Trie!Remove(k)
  PROVE  TrieInv' /\ Trie!Target(k) # <<>> /\ words' = words \ {Trie!Target(k)}
<1> DEFINE t == Trie!Target(k)
           gone == Trie!Unneeded(t)
           above == Trie!Upto(t, Len(t) - Trie!Cardinality(gone))
<1>1. /\ planted /\ word_count > 0 /\ t # <<>>
      /\ words' = words \ {t}
      /\ children' = [p \in DOMAIN children \ gone |->
              IF p = above /\ gone # {} THEN Trie!Compacted(children[p], t[Len(p) + 1])
              ELSE children[p]]
      /\ slots' = [p \in DOMAIN children \ gone |-> slots[p]]
      /\ held' = held - Trie!Cardinality(gone) - Trie!Cardinality(gone \cap Trie!Arrays)
      /\ word_count' = word_count - 1 /\ planted' = planted
      /\ answer' = [op |-> "remove", key |-> k, ok |-> TRUE]
  BY DEF Trie!Remove, Trie!Answer, Trie!Nodes
<1>2. /\ Grows(children, slots, words) /\ Sprouts(children) /\ <<>> \in DOMAIN children
      /\ words \subseteq DOMAIN children \ {<<>>}
  BY <1>1 DEF TrieInv, Grows
<1>3. t \in words
  BY <1>1, TargetIs
<1> HIDE DEF t
<1>4. t \in DOMAIN children /\ t \in Paths /\ Len(t) \in Nat /\ Len(t) >= 1
  <2>1. t \in DOMAIN children /\ t \in Paths
    BY <1>2, <1>3 DEF Sprouts
  <2> QED
    BY <1>1, <2>1, PathParts
<1>5. PICK m \in 0 .. Len(t) :
        /\ gone = Span(t, m)
        /\ \A j \in m + 1 .. Len(t) : Idle(children, words, t, j)
        /\ m > 0 => ~Idle(children, words, t, m)
  BY <1>4, GoneIs
<1>6. IsFiniteSet(gone) /\ Cardinality(gone) = Len(t) - m
  BY <1>4, <1>5, SpanCount
<1>7. above = UptoOf(t, m) /\ Len(above) = m
  <2>1. Len(t) - Trie!Cardinality(gone) = m
    <3> HIDE DEF gone
    <3> QED
      BY <1>4, <1>6, TrieCardinality
  <2>2. above = UptoOf(t, m)
    BY <2>1 DEF Trie!Upto, UptoOf
  <2> HIDE DEF above
  <2> QED
    BY <1>4, <2>2, UptoIs
<1>8. gone # {} <=> m < Len(t)
  <2> HIDE DEF gone
  <2> QED
    BY <1>4, <1>6, FS_EmptySet
<1> HIDE DEF gone, above
<1>9. PICK ch2, cap2 : ch2 = children' /\ cap2 = slots'
  OBVIOUS
<1>10. /\ DOMAIN ch2 = DOMAIN children \ gone /\ DOMAIN cap2 = DOMAIN children \ gone
       /\ \A p \in DOMAIN children \ gone :
            /\ ch2[p] = IF p = above /\ gone # {} THEN Trie!Compacted(children[p], t[Len(p) + 1])
                        ELSE children[p]
            /\ cap2[p] = slots[p]
  BY <1>1, <1>9
<1>11. above \in DOMAIN children \ gone
  <2>1. above \in DOMAIN children
    BY <1>2, <1>4, <1>7, PrefixesStay
  <2>2. ASSUME above \in gone PROVE FALSE
    <3>1. PICK l \in m + 1 .. Len(t) : above = UptoOf(t, l)
      BY <1>5, <2>2 DEF Span
    <3>2. Len(UptoOf(t, l)) = l
      <4>1. l \in 0 .. Len(t)
        BY <1>4
      <4> QED
        BY <1>4, <4>1, UptoIs
    <3> QED
      BY <1>7, <3>1, <3>2
  <2> QED
    BY <2>1, <2>2
<1>12. Pruned(children, ch2, t, m)
  <2>1. ASSUME NEW p \in DOMAIN ch2, p # UptoOf(t, m) \/ m = Len(t) PROVE ch2[p] = children[p]
    BY <1>4, <1>7, <1>8, <1>10, <2>1
  <2>2. ASSUME m < Len(t)
        PROVE  ch2[UptoOf(t, m)] = Trie!Compacted(children[UptoOf(t, m)], t[m + 1])
    BY <1>7, <1>8, <1>10, <1>11, <2>2
  <2> QED
    BY <1>5, <1>10, <2>1, <2>2 DEF Pruned
<1>13. /\ Sprouts(ch2)
       /\ \A p \in DOMAIN ch2 : Len(ch2[p]) <= Len(children[p])
       /\ \A p \in DOMAIN ch2 \ {<<>>} : ch2[p] = <<>> => p \in words \ {t}
       /\ words \ {t} \subseteq DOMAIN ch2
       /\ <<>> \in DOMAIN ch2
  <2>1. \A p \in DOMAIN children \ {<<>>} : children[p] = <<>> => p \in words
    BY <1>2 DEF Grows
  <2>2. words \subseteq DOMAIN children
    BY <1>2
  <2> QED
    BY <1>2, <1>3, <1>4, <1>5, <1>12, <2>1, <2>2, PruneShape
<1>14. /\ IsFiniteSet(DOMAIN children) /\ IsFiniteSet(words) /\ Cardinality(words) \in Nat
       /\ Cardinality(DOMAIN children) \in Nat
  BY <1>2, WordsCounted
<1>15. /\ Cardinality(DOMAIN ch2) = Cardinality(DOMAIN children) - Cardinality(gone)
       /\ Cardinality(gone) \in Nat
  <2>1. gone \subseteq DOMAIN children
    BY <1>2, <1>4, <1>5, PrefixesStay DEF Span
  <2>2. DOMAIN children \cap gone = gone
    BY <2>1
  <2> QED
    BY <1>6, <1>10, <1>14, <2>2, FS_Difference, FS_CardinalityType
<1>16. Grows(ch2, cap2, words \ {t})
  <2>1. \A p \in DOMAIN ch2 : cap2[p] \in Nat /\ Len(ch2[p]) <= cap2[p] /\ Trie!Fits(cap2[p])
    <3>1. ASSUME NEW p \in DOMAIN ch2
          PROVE  cap2[p] \in Nat /\ Len(ch2[p]) <= cap2[p] /\ Trie!Fits(cap2[p])
      <4>1. /\ slots[p] \in Nat /\ Len(children[p]) <= slots[p] /\ Trie!Fits(slots[p])
            /\ cap2[p] = slots[p] /\ Len(children[p]) \in Nat
        BY <1>2, <1>10 DEF Grows, Sprouts
      <4>2. Len(ch2[p]) <= Len(children[p]) /\ Len(ch2[p]) \in Nat
        BY <1>13 DEF Sprouts
      <4> QED
        BY <4>1, <4>2
    <3> QED
      BY <3>1
  <2>2. \A p \in DOMAIN ch2 \ {<<>>} : \E l \in TrieKey : \E i \in 1 .. Len(l) : p = UptoOf(l, i)
    BY <1>2, <1>10 DEF Grows
  <2>3. words \ {t} \subseteq DOMAIN ch2 \ {<<>>}
    BY <1>2, <1>13
  <2>4. Cardinality(DOMAIN ch2) <= TrieSizeMax
    <3>1. Cardinality(DOMAIN children) <= TrieSizeMax
      BY <1>2 DEF Grows
    <3> QED
      BY <1>14, <1>15, <3>1, TrieSizes
  <2> QED
    BY <1>10, <1>13, <2>1, <2>2, <2>3, <2>4 DEF Grows
<1>17. held' = 1 + Cardinality(DOMAIN ch2) + Cardinality(ArraysOf(cap2))
  <2>1. Trie!Arrays = ArraysOf(slots)
    BY <1>2 DEF Trie!Arrays, ArraysOf, Trie!Nodes, Grows
  <2>2. ArraysOf(cap2) = ArraysOf(slots) \ gone
    BY <1>2, <1>10 DEF ArraysOf, Grows
  <2>3. ArraysOf(slots) \in SUBSET DOMAIN children
    BY <1>2 DEF ArraysOf, Grows
  <2>4. IsFiniteSet(ArraysOf(slots))
    BY <1>14, <2>3, FS_Subset
  <2>5. Cardinality(ArraysOf(cap2)) = Cardinality(ArraysOf(slots)) - Cardinality(ArraysOf(slots) \cap gone)
    BY <2>2, <2>4, FS_Difference
  <2>6. IsFiniteSet(ArraysOf(slots) \cap gone)
    BY <2>4, FS_Intersection
  <2>7. Cardinality(ArraysOf(slots)) \in Nat /\ Cardinality(ArraysOf(slots) \cap gone) \in Nat
    BY <2>4, <2>6, FS_CardinalityType
  <2>8. gone \cap Trie!Arrays = ArraysOf(slots) \cap gone
    BY <2>1
  <2>9. held = 1 + Cardinality(DOMAIN children) + Cardinality(ArraysOf(slots))
    BY <1>1 DEF TrieInv
  <2>10. held' = held - Cardinality(gone) - Cardinality(ArraysOf(slots) \cap gone)
    BY <1>1, <2>8, TrieCardinality
  <2> QED
    BY <1>14, <1>15, <2>5, <2>7, <2>9, <2>10
<1>18. word_count' = Cardinality(words \ {t})
  <2>1. Cardinality(words \ {t}) = Cardinality(words) - 1
    BY <1>3, <1>14, FS_RemoveElement
  <2> QED
    BY <1>1, <2>1 DEF TrieInv
<1>19. Grows(children', slots', words')
  BY <1>1, <1>9, <1>16
<1>20. DOMAIN children' = DOMAIN ch2 /\ ArraysOf(slots') = ArraysOf(cap2) /\ words' = words \ {t}
  BY <1>1, <1>9
<1>21. TrieInv'
  BY <1>1, <1>13, <1>17, <1>18, <1>19, <1>20 DEF TrieInv
<1> QED
  BY <1>1, <1>21 DEF t

(* A slot count that Fits has a byte count that does not wrap. *)
LEMMA TrieGranted ==
  ASSUME NEW c \in Nat, Trie!Fits(c)
  PROVE  Trie!SlotsGranted(c) = c
<1>1. TrieSizeMax \in Nat /\ PtrSize \in Nat /\ PtrSize > 0
  BY TrieAssumption DEF Trie!SizeAssumption
<1>2. c * PtrSize <= TrieSizeMax
  BY <1>1 DEF Trie!Fits
<1>3. c * PtrSize \in 0 .. TrieSizeMax /\ (c * PtrSize) \div PtrSize = c
  BY <1>1, <1>2
<1>4. Trie!Wrap(c * PtrSize) = c * PtrSize
  BY <1>3, TrieSizes
<1> QED
  BY <1>3, <1>4 DEF Trie!SlotsGranted

LEMMA TrieHolds ==
  ASSUME TrieInv
  PROVE  Trie!WellFormed /\ Trie!NoDeadBranch
<1>1. /\ Grows(children, slots, words) /\ Sprouts(children) /\ Trie!Nodes = DOMAIN children
      /\ Trie!Arrays = ArraysOf(slots)
  BY DEF TrieInv, Grows, Trie!Nodes, Trie!Arrays, ArraysOf
<1>2. IsFiniteSet(DOMAIN children) /\ IsFiniteSet(words) /\ IsFiniteSet(ArraysOf(slots))
  <2>1. IsFiniteSet(DOMAIN children) /\ words \in SUBSET DOMAIN children
        /\ ArraysOf(slots) \in SUBSET DOMAIN children
    BY <1>1 DEF Sprouts, Grows, ArraysOf
  <2> QED
    BY <2>1, FS_Subset
<1>3. /\ Cardinality(DOMAIN children) \in Nat /\ Cardinality(words) \in Nat
      /\ Cardinality(ArraysOf(slots)) \in Nat
  BY <1>2, FS_CardinalityType
<1>4. Trie!OwnsItsBlocks /\ held \in Nat
  BY <1>1, <1>3, TrieCardinality DEF Trie!OwnsItsBlocks, TrieInv
<1>5. Trie!SizeCountsWords /\ word_count \in Nat
  BY <1>3, TrieCardinality DEF Trie!SizeCountsWords, TrieInv
<1>6. Trie!TypeOK
  <2>1. \A k, i : Trie!Upto(k, i) = UptoOf(k, i)
    BY DEF Trie!Upto, UptoOf
  <2>2. \A p \in Trie!Nodes \ {<<>>} : \E k \in TrieKey : \E i \in 1 .. Len(k) : p = Trie!Upto(k, i)
    BY <1>1, <2>1 DEF Grows
  <2> QED
    BY <1>1, <1>4, <1>5, <2>2 DEF Trie!TypeOK, TrieInv, Grows
<1>7. Trie!WellLinked
  <2>1. ASSUME NEW p \in DOMAIN children
        PROVE  /\ \A m, h \in Trie!Occupied(p) : m # h => children[p][m] # children[p][h]
               /\ \A h \in Trie!Occupied(p) : Append(p, children[p][h]) \in Trie!Nodes
               /\ p # <<>> => /\ Trie!Upto(p, Len(p) - 1) \in Trie!Nodes
                              /\ Trie!Linked(Trie!Upto(p, Len(p) - 1), p[Len(p)])
               /\ Len(children[p]) <= slots[p]
               /\ Trie!SlotsGranted(slots[p]) = slots[p]
    <3>1. /\ \A m, h \in Trie!Occupied(p) : m # h => children[p][m] # children[p][h]
          /\ \A h \in Trie!Occupied(p) : Append(p, children[p][h]) \in Trie!Nodes
      BY <1>1 DEF Sprouts, Trie!Occupied, Under
    <3>2. ASSUME p # <<>>
          PROVE  /\ Trie!Upto(p, Len(p) - 1) \in Trie!Nodes
                 /\ Trie!Linked(Trie!Upto(p, Len(p) - 1), p[Len(p)])
      <4>1. p \in Paths
        BY <1>1 DEF Sprouts
      <4> DEFINE q == UptoOf(p, Len(p) - 1)
                 c == p[Len(p)]
      <4>2. q \in Paths /\ c \in Char /\ p = Under(q, c)
        BY <3>2, <4>1, PathParts
      <4>3. Trie!Upto(p, Len(p) - 1) = q
        BY DEF Trie!Upto, UptoOf
      <4> HIDE DEF q, c
      <4>4. q \in DOMAIN children /\ \E m \in 1 .. Len(children[q]) : children[q][m] = c
        BY <1>1, <4>2, LinkedIs
      <4> QED
        BY <1>1, <4>3, <4>4 DEF Trie!Linked, Trie!Occupied, c
    <3>3. slots[p] \in Nat /\ Len(children[p]) <= slots[p] /\ Trie!Fits(slots[p])
      BY <1>1 DEF Grows
    <3>4. Trie!SlotsGranted(slots[p]) = slots[p]
      BY <3>3, TrieGranted
    <3> QED
      BY <3>1, <3>2, <3>3, <3>4
  <2> QED
    BY <1>1, <2>1 DEF Trie!WellLinked
<1>8. Trie!NoDeadBranch
  BY <1>1 DEF Trie!NoDeadBranch, Grows
<1> QED
  BY <1>4, <1>5, <1>6, <1>7, <1>8 DEF Trie!WellFormed

(* Whatever a failed insertion has allocated hangs from the nodes that its *)
(* frames delete, so it is all freed.                                      *)
LEMMA PartialIsDeleted ==
  ASSUME TrieInv, planted, NEW k \in TrieKey, ~Trie!Reaches(k), NEW made \in Trie!Partial(k)
  PROVE  /\ UNION {Trie!Deleted(made, d) : d \in made.frames} = made.nodes
         /\ made.arrays \subseteq made.nodes
         /\ IsFiniteSet(made.nodes) /\ IsFiniteSet(made.arrays)
<1> DEFINE first == Len(Trie!Branch(k)) + 1
           gone == UNION {Trie!Deleted(made, d) : d \in made.frames}
<1>1. k \in Paths /\ Len(k) \in Nat
  BY KeysArePaths
<1>2. first \in 1 .. Len(k)
  <2>1. PICK i \in 0 .. Len(k) - 1 : Trie!Branch(k) = UptoOf(k, i)
    BY BranchIs
  <2>2. i \in 0 .. Len(k)
    BY <1>1, <2>1
  <2>3. Len(Trie!Branch(k)) = i
    BY <1>1, <2>1, <2>2, UptoIs
  <2> QED
    BY <1>1, <2>1, <2>3
<1>3. made \in {[nodes |-> first .. last, arrays |-> {}, frames |-> first .. last] :
                  last \in first - 1 .. Len(k) - 1}
              \cup {[nodes |-> first .. Len(k), arrays |-> i .. Len(k) - 1, frames |-> first .. i] :
                  i \in {i \in first .. Len(k) : i = first => Trie!IsFull(Trie!Branch(k))}}
  BY DEF Trie!Partial
<1> HIDE DEF first
<1>4. ASSUME NEW last \in first - 1 .. Len(k) - 1,
             made = [nodes |-> first .. last, arrays |-> {}, frames |-> first .. last]
      PROVE  gone = made.nodes /\ made.arrays \subseteq made.nodes
             /\ IsFiniteSet(made.nodes) /\ IsFiniteSet(made.arrays)
  <2>1. made.nodes = first .. last /\ made.arrays = {} /\ made.frames = first .. last
    BY <1>4
  <2>2. last \in Int /\ first \in Int
    BY <1>1, <1>2
  <2>3. \A d \in made.frames : d \in Trie!Deleted(made, d)
    BY <2>1, <2>2 DEF Trie!Deleted
  <2>4. \A d \in made.frames : Trie!Deleted(made, d) \subseteq made.nodes
    BY DEF Trie!Deleted
  <2>5. gone = made.nodes
    BY <2>1, <2>3, <2>4
  <2>6. IsFiniteSet(first .. last) /\ IsFiniteSet({})
    BY <2>2, FS_Interval, FS_EmptySet
  <2> QED
    BY <2>1, <2>5, <2>6
<1>5. ASSUME NEW i \in first .. Len(k),
             made = [nodes |-> first .. Len(k), arrays |-> i .. Len(k) - 1, frames |-> first .. i]
      PROVE  gone = made.nodes /\ made.arrays \subseteq made.nodes
             /\ IsFiniteSet(made.nodes) /\ IsFiniteSet(made.arrays)
  <2>1. made.nodes = first .. Len(k) /\ made.arrays = i .. Len(k) - 1 /\ made.frames = first .. i
    BY <1>5
  <2>2. i \in Int /\ first \in Int /\ Len(k) \in Int /\ Len(k) - 1 \in Int /\ i \in made.frames
    BY <1>1, <1>2, <2>1
  <2>3. \A d \in made.frames : Trie!Deleted(made, d) \subseteq made.nodes
    BY DEF Trie!Deleted
  <2>4. ASSUME NEW e \in made.nodes PROVE e \in gone
    <3>1. CASE e < i
      <4>1. e \in made.frames /\ e \in Trie!Deleted(made, e)
        BY <2>1, <2>2, <3>1 DEF Trie!Deleted
      <4> QED
        BY <4>1
    <3>2. CASE e >= i
      <4>1. e \in Trie!Deleted(made, i)
        BY <2>1, <2>2, <3>2 DEF Trie!Deleted
      <4> QED
        BY <2>2, <4>1
    <3> QED
      BY <2>1, <2>2, <3>1, <3>2
  <2>5. made.arrays \subseteq made.nodes
    BY <2>1, <2>2
  <2> QED
    BY <2>1, <2>2, <2>3, <2>4, <2>5, FS_Interval
<1> QED
  BY <1>3, <1>4, <1>5

(* So a failed insertion leaves the trie, and what it owns, as it was. *)
LEMMA InsertFailsRests ==
  ASSUME TrieInv, NEW k \in TrieKey, Trie!InsertFails(k)
  PROVE  UNCHANGED Trie!structure /\ answer' = [op |-> "insert", key |-> k, ok |-> FALSE]
<1>1. /\ planted /\ ~Trie!Reaches(k)
      /\ UNCHANGED <<planted, children, slots, words, word_count>>
      /\ answer' = [op |-> "insert", key |-> k, ok |-> FALSE]
      /\ \E made \in Trie!Partial(k) :
           LET gone == UNION {Trie!Deleted(made, d) : d \in made.frames}
           IN  held' = held + Trie!Cardinality(made.nodes) + Trie!Cardinality(made.arrays)
                       - Trie!Cardinality(gone) - Trie!Cardinality(gone \cap made.arrays)
  BY DEF Trie!InsertFails, Trie!Answer
<1>2. PICK made \in Trie!Partial(k) :
        LET gone == UNION {Trie!Deleted(made, d) : d \in made.frames}
        IN  held' = held + Trie!Cardinality(made.nodes) + Trie!Cardinality(made.arrays)
                    - Trie!Cardinality(gone) - Trie!Cardinality(gone \cap made.arrays)
  BY <1>1
<1>3. /\ UNION {Trie!Deleted(made, d) : d \in made.frames} = made.nodes
      /\ made.nodes \cap made.arrays = made.arrays
      /\ IsFiniteSet(made.nodes) /\ IsFiniteSet(made.arrays)
  BY <1>1, PartialIsDeleted
<1>4. Cardinality(made.nodes) \in Nat /\ Cardinality(made.arrays) \in Nat
  BY <1>3, FS_CardinalityType
<1>5. held' = held + Cardinality(made.nodes) + Cardinality(made.arrays)
              - Cardinality(made.nodes) - Cardinality(made.arrays)
  BY <1>2, <1>3, TrieCardinality
<1>6. held \in Nat
  BY TrieHolds DEF Trie!WellFormed, Trie!TypeOK
<1>7. held' = held
  BY <1>4, <1>5, <1>6
<1> QED
  BY <1>1, <1>7 DEF Trie!structure

LEMMA TrieKept ==
  ASSUME TrieInv, Trie!Next
  PROVE  TrieInv'
<1>1. CASE Trie!Create
  BY <1>1, TrieCreated
<1>2. CASE Trie!CreateFails
  BY <1>2, TrieRests DEF Trie!CreateFails, Trie!Fail, Trie!Answer
<1>3. CASE Trie!Destroy
  BY <1>3, TrieDestroyed
<1>4. ASSUME NEW k \in TrieKey, Trie!Contains(k) \/ Trie!StartsWith(k) PROVE TrieInv'
  <2>1. Trie!Contained(k) \in BOOLEAN /\ Trie!Reaches(k) \in BOOLEAN
    BY DEF Trie!Contained, Trie!Reaches, Trie!Follows
  <2>2. UNCHANGED Trie!structure /\ answer'.key = k /\ answer'.ok \in BOOLEAN
    <3>1. CASE Trie!Contains(k)
      <4>1. UNCHANGED Trie!structure /\ answer' = [op |-> "contains", key |-> k, ok |-> Trie!Contained(k)]
        BY <3>1 DEF Trie!Contains, Trie!Answer
      <4> QED
        BY <2>1, <4>1
    <3>2. CASE Trie!StartsWith(k)
      <4>1. UNCHANGED Trie!structure /\ answer' = [op |-> "starts_with", key |-> k, ok |-> Trie!Reaches(k)]
        BY <3>2 DEF Trie!StartsWith, Trie!Answer
      <4> QED
        BY <2>1, <4>1
    <3> QED
      BY <1>4, <3>1, <3>2
  <2> QED
    BY <2>2, TrieRests
<1>5. ASSUME NEW k \in TrieKey,
             \/ Trie!InsertAgain(k) \/ Trie!InsertFails(k) \/ Trie!InsertRefused(k)
             \/ Trie!RemoveFails(k)
      PROVE  TrieInv'
  <2>1. UNCHANGED Trie!structure /\ answer'.key = k /\ answer'.ok \in BOOLEAN
    <3>1. CASE Trie!InsertAgain(k)
      <4>1. UNCHANGED Trie!structure /\ answer' = [op |-> "insert", key |-> k, ok |-> TRUE]
        BY <3>1 DEF Trie!InsertAgain, Trie!Answer
      <4> QED
        BY <4>1
    <3>2. CASE Trie!InsertFails(k)
      <4>1. UNCHANGED Trie!structure /\ answer' = [op |-> "insert", key |-> k, ok |-> FALSE]
        BY <3>2, InsertFailsRests
      <4> QED
        BY <4>1
    <3>3. CASE Trie!RemoveFails(k)
      <4>1. UNCHANGED Trie!structure /\ answer' = [op |-> "remove", key |-> k, ok |-> FALSE]
        BY <3>3 DEF Trie!RemoveFails, Trie!Fail, Trie!Answer
      <4> QED
        BY <4>1
    <3>4. CASE Trie!InsertRefused(k)
      <4>1. UNCHANGED Trie!structure /\ answer' = [op |-> "insert", key |-> k, ok |-> FALSE]
        BY <3>4 DEF Trie!InsertRefused, Trie!Fail, Trie!Answer
      <4> QED
        BY <4>1
    <3> QED
      BY <1>5, <3>1, <3>2, <3>3, <3>4
  <2> QED
    BY <2>1, TrieRests
<1>6. ASSUME NEW k \in TrieKey, Trie!InsertMarks(k) \/ Trie!InsertBuilds(k) \/ Trie!Remove(k)
      PROVE  TrieInv'
  BY <1>6, TrieMarked, TrieBuilt, TrieRemoved
<1> QED
  BY <1>1, <1>2, <1>3, <1>4, <1>5, <1>6 DEF Trie!Next

------------------------------------------------------------------------------
LEMMA RemovesStored ==
  ASSUME TrieInv, [Trie!Next]_(Trie!vars), answer'.op = "remove", answer'.key \in words
  PROVE  UNCHANGED Trie!vars \/ (answer'.ok /\ words' = words \ {answer'.key})
<1>1. CASE UNCHANGED Trie!vars
  BY <1>1
<1>2. CASE Trie!Create \/ Trie!CreateFails \/ Trie!Destroy
  <2>1. answer'.op \in {"create", "destroy"}
    BY <1>2 DEF Trie!Create, Trie!CreateFails, Trie!Destroy, Trie!Fail, Trie!Answer
  <2> QED
    BY <2>1
<1>3. ASSUME NEW k \in TrieKey,
             \/ Trie!Contains(k) \/ Trie!StartsWith(k) \/ Trie!InsertAgain(k)
             \/ Trie!InsertMarks(k) \/ Trie!InsertBuilds(k)
             \/ Trie!InsertFails(k) \/ Trie!InsertRefused(k)
      PROVE  FALSE
  <2>1. answer'.op \in {"contains", "starts_with", "insert"}
    BY <1>3 DEF Trie!Contains, Trie!StartsWith, Trie!InsertAgain, Trie!InsertMarks, Trie!InsertBuilds,
                Trie!InsertFails, Trie!InsertRefused, Trie!Fail, Trie!Answer
  <2> QED
    BY <2>1
<1>4. ASSUME NEW k \in TrieKey, Trie!Remove(k) PROVE answer'.ok /\ words' = words \ {answer'.key}
  <2>1. answer' = [op |-> "remove", key |-> k, ok |-> TRUE] /\ planted
    BY <1>4 DEF Trie!Remove, Trie!Answer
  <2>2. answer'.key = k /\ answer'.ok
    BY <2>1
  <2>3. Trie!Target(k) = k
    BY <2>1, <2>2, TargetIs
  <2> QED
    BY <1>4, <2>2, <2>3, TrieRemoved
<1>5. ASSUME NEW k \in TrieKey, Trie!RemoveFails(k) PROVE FALSE
  <2>1. answer' = [op |-> "remove", key |-> k, ok |-> FALSE]
    BY <1>5 DEF Trie!RemoveFails, Trie!Fail, Trie!Answer
  <2>2. k \in words
    BY <2>1
  <2>3. planted
    BY <2>2 DEF TrieInv, Grows
  <2>4. word_count > 0
    <3>1. <<>> \in DOMAIN children /\ Grows(children, slots, words)
      BY <2>3 DEF TrieInv
    <3>2. IsFiniteSet(words) /\ Cardinality(words) \in Nat
      BY <3>1, WordsCounted
    <3>3. Cardinality(words) # 0
      BY <2>2, <3>2, FS_EmptySet
    <3> QED
      BY <3>2, <3>3 DEF TrieInv
  <2>5. Trie!Target(k) = k
    BY <2>2, <2>3, TargetIs
  <2>6. k # <<>>
    BY KeysArePaths
  <2> QED
    BY <1>5, <2>3, <2>4, <2>5, <2>6 DEF Trie!RemoveFails
<1> QED
  BY <1>1, <1>2, <1>3, <1>4, <1>5 DEF Trie!Next

LEMMA TreesKeepTrie == TreesSpec => []TrieInv
<1>1. TreesInit => TrieInv
  BY TrieStarts DEF TreesInit
<1>2. TrieInv /\ [TreesNext]_treesVars => TrieInv'
  <2> SUFFICES ASSUME TrieInv, [TreesNext]_treesVars PROVE TrieInv'
    OBVIOUS
  <2>1. CASE Trie!Next
    BY <2>1, TrieKept
  <2>2. CASE UNCHANGED trieVars
    BY <2>2 DEF trieVars, TrieInv
  <2> QED
    BY <2>1, <2>2 DEF TreesNext, treesVars
<1> QED
  BY <1>1, <1>2, PTL DEF TreesSpec

(* prefix_trie_remove of a stored key finds that key and no other, though  *)
(* its scan goes on with the key already advanced after a child that did   *)
(* not hold the word, whatever order the children are in.                  *)
THEOREM TrieRemovesKeys == TreesSpec => RemovesStoredKey
<1>1. TrieInv /\ [TreesNext]_treesVars =>
        [answer'.op = "remove" /\ answer'.key \in words =>
           answer'.ok /\ words' = words \ {answer'.key}]_(Trie!vars)
  <2> SUFFICES ASSUME TrieInv, [TreesNext]_treesVars, ~(UNCHANGED Trie!vars),
                      answer'.op = "remove", answer'.key \in words
               PROVE  answer'.ok /\ words' = words \ {answer'.key}
    OBVIOUS
  <2>1. [Trie!Next]_(Trie!vars)
    BY DEF TreesNext, treesVars, trieVars, Trie!vars, Trie!structure
  <2> QED
    BY <2>1, RemovesStored
<1> QED
  BY <1>1, TreesKeepTrie, PTL DEF TreesSpec, RemovesStoredKey, Trie!RemovesStoredKey

------------------------------------------------------------------------------
(* The nodes from p on, and p with those below its first i children. *)
Beneath(p) == {q \in DOMAIN children : Len(p) <= Len(q) /\ UptoOf(q, Len(p)) = p}
FirstOf(p, i) ==
  {p} \cup {q \in Beneath(p) : Len(p) < Len(q) /\ \E m \in 1 .. i : q[Len(p) + 1] = children[p][m]}
ChildAt(p, i) == Under(p, children[p][i])

LEMMA UnderSplits ==
  ASSUME NEW p \in Paths, NEW x \in Char, NEW q \in Paths
  PROVE  (Len(Under(p, x)) <= Len(q) /\ UptoOf(q, Len(Under(p, x))) = Under(p, x))
           <=> (Len(p) < Len(q) /\ UptoOf(q, Len(p)) = p /\ q[Len(p) + 1] = x)
<1>1. Len(p) \in Nat /\ Len(q) \in Nat /\ Len(Under(p, x)) = Len(p) + 1
  <2>1. Len(p) \in Nat /\ Len(q) \in Nat
    BY DEF Paths
  <2> QED
    BY <2>1, AppendIs
<1> DEFINE i == Len(p)
<1>2. ASSUME i < Len(q) PROVE UptoOf(q, i + 1) = Under(p, x) <=> (UptoOf(q, i) = p /\ q[i + 1] = x)
  <2>1. i \in 0 .. Len(q) - 1 /\ i + 1 \in 0 .. Len(q) /\ i \in 0 .. i + 1 /\ i \in 0 .. Len(q)
    BY <1>1, <1>2
  <2>2. q[i + 1] \in Char /\ Under(UptoOf(q, i), q[i + 1]) = UptoOf(q, i + 1)
    BY <2>1, UptoStep
  <2>3. UptoOf(q, i) \in Paths
    BY <2>1, UptoIs
  <2>4. ASSUME UptoOf(q, i + 1) = Under(p, x) PROVE UptoOf(q, i) = p /\ q[i + 1] = x
    BY <2>2, <2>3, <2>4, AppendsDiffer
  <2> HIDE DEF i
  <2> QED
    BY <2>2, <2>4
<1> QED
  BY <1>1, <1>2

LEMMA PartsAre ==
  ASSUME Sprouts(children), NEW p \in DOMAIN children
  PROVE  /\ Len(children[p]) \in Nat
         /\ FirstOf(p, 0) = {p} /\ FirstOf(p, Len(children[p])) = Beneath(p)
         /\ p \in Beneath(p)
         /\ \A i \in 1 .. Len(children[p]) :
              /\ ChildAt(p, i) \in DOMAIN children /\ Len(ChildAt(p, i)) = Len(p) + 1
              /\ FirstOf(p, i) = FirstOf(p, i - 1) \cup Beneath(ChildAt(p, i))
              /\ FirstOf(p, i - 1) \cap Beneath(ChildAt(p, i)) = {}
         /\ \A i \in 0 .. Len(children[p]) : FirstOf(p, i) \subseteq Beneath(p)
<1> DEFINE D == DOMAIN children
           s == children[p]
           L == Len(s)
<1>1. /\ p \in Paths /\ Len(p) \in Nat /\ s \in Seq(Char) /\ L \in Nat /\ D \subseteq Paths
      /\ \A i \in 1 .. L : s[i] \in Char
      /\ \A l, m \in 1 .. L : l # m => s[l] # s[m]
      /\ \A i \in 1 .. L : ChildAt(p, i) \in D
  BY DEF Sprouts, ChildAt, Paths
<1>2. FirstOf(p, 0) = {p}
  BY DEF FirstOf
<1>3. p \in Beneath(p)
  BY <1>1, UptoEnds DEF Beneath
<1>4. \A i \in 0 .. L : FirstOf(p, i) \subseteq Beneath(p)
  BY <1>3 DEF FirstOf
<1>5. FirstOf(p, L) = Beneath(p)
  <2>1. ASSUME NEW q \in Beneath(p), q # p PROVE q \in FirstOf(p, L)
    <3>1. q \in D /\ q \in Paths /\ Len(q) \in Nat /\ Len(p) <= Len(q) /\ UptoOf(q, Len(p)) = p
      BY <1>1, PrefixesStay DEF Beneath
    <3>2. Len(p) # Len(q)
      BY <2>1, <3>1, UptoEnds
    <3>3. Len(p) < Len(q) /\ Len(p) \in 0 .. Len(q) - 1 /\ Len(p) + 1 \in 0 .. Len(q)
      BY <1>1, <3>1, <3>2
    <3>4. q[Len(p) + 1] \in Char /\ Under(p, q[Len(p) + 1]) = UptoOf(q, Len(p) + 1)
      BY <3>1, <3>3, UptoStep
    <3>5. Under(p, q[Len(p) + 1]) \in D
      BY <3>1, <3>3, <3>4, PrefixesStay
    <3>6. \E m \in 1 .. L : s[m] = q[Len(p) + 1]
      BY <1>1, <3>4, <3>5, LinkedIs
    <3> QED
      BY <3>3, <3>6 DEF FirstOf
  <2>2. p \in FirstOf(p, L)
    BY DEF FirstOf
  <2>3. L \in 0 .. L
    BY <1>1
  <2> QED
    BY <1>4, <2>1, <2>2, <2>3
<1>6. ASSUME NEW i \in 1 .. L
      PROVE  /\ ChildAt(p, i) \in D /\ Len(ChildAt(p, i)) = Len(p) + 1
             /\ FirstOf(p, i) = FirstOf(p, i - 1) \cup Beneath(ChildAt(p, i))
             /\ FirstOf(p, i - 1) \cap Beneath(ChildAt(p, i)) = {}
  <2> DEFINE x == s[i]
             c == ChildAt(p, i)
  <2>1. x \in Char /\ c = Under(p, x) /\ Len(c) = Len(p) + 1
    BY <1>1, AppendIs DEF ChildAt
  <2>2. ASSUME NEW q \in D
        PROVE  q \in Beneath(c) <=> (q \in Beneath(p) /\ Len(p) < Len(q) /\ q[Len(p) + 1] = x)
    <3>1. q \in Paths /\ Len(q) \in Nat
      BY PrefixesStay
    <3>2. (Len(c) <= Len(q) /\ UptoOf(q, Len(c)) = c)
           <=> (Len(p) < Len(q) /\ UptoOf(q, Len(p)) = p /\ q[Len(p) + 1] = x)
      BY <1>1, <2>1, <3>1, UnderSplits
    <3> HIDE DEF c, x
    <3>3. Len(p) < Len(q) => Len(p) <= Len(q)
      BY <1>1, <3>1
    <3> QED
      BY <3>2, <3>3 DEF Beneath
  <2>3. \A q : q \in Beneath(c) => q \in D
    BY DEF Beneath
  <2>4. \A q : q \in Beneath(p) => q \in D
    BY DEF Beneath
  <2>5. \A m : m \in 1 .. i <=> (m \in 1 .. i - 1 \/ m = i)
    BY <1>1
  <2>6. \A m \in 1 .. i - 1 : s[m] # x
    BY <1>1
  <2> HIDE DEF c, x, s
  <2>7. FirstOf(p, i) = FirstOf(p, i - 1) \cup Beneath(c)
    BY <2>2, <2>3, <2>4, <2>5 DEF FirstOf, x, s
  <2>8. FirstOf(p, i - 1) \cap Beneath(c) = {}
    <3>1. ~(Len(p) < Len(p))
      BY <1>1
    <3> QED
      BY <2>2, <2>3, <2>6, <3>1 DEF FirstOf, s
  <2> QED
    BY <1>1, <2>1, <2>7, <2>8 DEF c, s
<1> QED
  BY <1>1, <1>2, <1>3, <1>4, <1>5, <1>6

LEMMA PartsCounted ==
  ASSUME Sprouts(children), NEW p \in DOMAIN children
  PROVE  /\ IsFiniteSet(Beneath(p)) /\ Cardinality(Beneath(p)) \in Nat
         /\ Cardinality(FirstOf(p, 0)) = 1
         /\ Cardinality(FirstOf(p, Len(children[p]))) = Cardinality(Beneath(p))
         /\ \A i \in 0 .. Len(children[p]) :
              /\ Cardinality(FirstOf(p, i)) \in Nat
              /\ Cardinality(FirstOf(p, i)) <= Cardinality(Beneath(p))
         /\ \A i \in 1 .. Len(children[p]) :
              /\ Cardinality(FirstOf(p, i)) = Cardinality(FirstOf(p, i - 1)) + Cardinality(Beneath(ChildAt(p, i)))
              /\ Cardinality(Beneath(ChildAt(p, i))) \in Nat
<1>1. \A q : IsFiniteSet(Beneath(q))
  <2>1. ASSUME NEW q PROVE IsFiniteSet(Beneath(q))
    <3>1. Beneath(q) \in SUBSET DOMAIN children /\ IsFiniteSet(DOMAIN children)
      BY DEF Beneath, Sprouts
    <3> QED
      BY <3>1, FS_Subset
  <2> QED
    BY <2>1
<1>2. \A q : Cardinality(Beneath(q)) \in Nat
  BY <1>1, FS_CardinalityType
<1>3. Cardinality(FirstOf(p, 0)) = 1
  BY PartsAre, FS_Singleton
<1>4. ASSUME NEW i \in 0 .. Len(children[p])
      PROVE  /\ IsFiniteSet(FirstOf(p, i)) /\ Cardinality(FirstOf(p, i)) \in Nat
             /\ Cardinality(FirstOf(p, i)) <= Cardinality(Beneath(p))
  <2>1. FirstOf(p, i) \in SUBSET Beneath(p)
    BY PartsAre
  <2>2. IsFiniteSet(FirstOf(p, i)) /\ Cardinality(FirstOf(p, i)) <= Cardinality(Beneath(p))
    BY <1>1, <2>1, FS_Subset
  <2> QED
    BY <2>2, FS_CardinalityType
<1>5. ASSUME NEW i \in 1 .. Len(children[p])
      PROVE  Cardinality(FirstOf(p, i)) = Cardinality(FirstOf(p, i - 1)) + Cardinality(Beneath(ChildAt(p, i)))
  <2>1. Len(children[p]) \in Nat /\ i - 1 \in 0 .. Len(children[p])
    BY PartsAre
  <2>2. /\ FirstOf(p, i) = FirstOf(p, i - 1) \cup Beneath(ChildAt(p, i))
        /\ FirstOf(p, i - 1) \cap Beneath(ChildAt(p, i)) = {}
    BY PartsAre
  <2>3. IsFiniteSet(FirstOf(p, i - 1)) /\ IsFiniteSet(Beneath(ChildAt(p, i)))
    BY <1>1, <1>4, <2>1
  <2> QED
    BY <2>2, <2>3, ApartCounted
<1>6. FirstOf(p, Len(children[p])) = Beneath(p)
  BY PartsAre
<1> QED
  BY <1>1, <1>2, <1>3, <1>4, <1>5, <1>6

(* No path is longer than there are nodes. *)
LEMMA DepthBound ==
  ASSUME Sprouts(children), NEW p \in DOMAIN children
  PROVE  Cardinality(DOMAIN children) \in Nat /\ Len(p) \in Nat /\ Len(p) < Cardinality(DOMAIN children)
<1>1. p \in Paths /\ Len(p) \in Nat /\ \A j \in 0 .. Len(p) : UptoOf(p, j) \in DOMAIN children
  BY PrefixesStay
<1> DEFINE f == [j \in 0 .. Len(p) |-> UptoOf(p, j)]
<1>2. f \in [0 .. Len(p) -> DOMAIN children]
  BY <1>1
<1>3. ASSUME NEW j \in 0 .. Len(p), NEW m \in 0 .. Len(p), f[j] = f[m] PROVE j = m
  <2>1. Len(UptoOf(p, j)) = j /\ Len(UptoOf(p, m)) = m
    BY <1>1, UptoIs
  <2> QED
    BY <1>3, <2>1
<1>4. f \in Injection(0 .. Len(p), DOMAIN children)
  BY <1>2, <1>3 DEF Injection, IsInjective
<1>5. IsFiniteSet(DOMAIN children)
  BY DEF Sprouts
<1>6. Cardinality(0 .. Len(p)) <= Cardinality(DOMAIN children) /\ Cardinality(DOMAIN children) \in Nat
  BY <1>4, <1>5, FS_Injection, FS_CardinalityType
<1>7. Cardinality(0 .. Len(p)) = Len(p) + 1
  <2>1. Cardinality(0 .. Len(p)) = IF 0 > Len(p) THEN 0 ELSE Len(p) - 0 + 1
    BY <1>1, FS_Interval
  <2> QED
    BY <1>1, <2>1
<1> QED
  BY <1>1, <1>6, <1>7

(* The numbers a walk in pre-order gives the nodes. *)
Numbers(num) ==
  /\ num \in [DOMAIN children -> Nat] /\ num[<<>>] = 0
  /\ \A p \in DOMAIN children : \A i \in 1 .. Len(children[p]) :
       num[ChildAt(p, i)] = num[p] + Cardinality(FirstOf(p, i - 1))

LEMMA NumbersExist ==
  ASSUME Sprouts(children), <<>> \in DOMAIN children
  PROVE  \E num : Numbers(num)
<1> DEFINE D == DOMAIN children
           N == Cardinality(D)
           X == [D -> Nat]
           Stem(q) == UptoOf(q, Len(q) - 1)
           SlotOf(q) == CHOOSE i \in 1 .. Len(children[Stem(q)]) : ChildAt(Stem(q), i) = q
           gap == [q \in D |-> IF q = <<>> THEN 0 ELSE Cardinality(FirstOf(Stem(q), SlotOf(q) - 1))]
           Level(g) == [q \in D |-> IF q = <<>> THEN 0 ELSE g[Stem(q)] + gap[q]]
           first == [q \in D |-> 0]
           step == [j \in 1 .. N |-> [g \in X |-> Level(g)]]
<1>1. N \in Nat
  BY DepthBound
<1>2. ASSUME NEW q \in D, q # <<>>
      PROVE  /\ Stem(q) \in D /\ Len(Stem(q)) = Len(q) - 1 /\ Len(q) \in Nat /\ Len(q) >= 1
             /\ SlotOf(q) \in 1 .. Len(children[Stem(q)]) /\ ChildAt(Stem(q), SlotOf(q)) = q
  <2>1. q \in Paths
    BY DEF Sprouts
  <2>2. /\ Len(q) \in Nat /\ Len(q) >= 1 /\ Stem(q) \in Paths /\ q[Len(q)] \in Char
        /\ q = Under(Stem(q), q[Len(q)])
    BY <1>2, <2>1, PathParts
  <2>3. Len(q) - 1 \in 0 .. Len(q)
    BY <2>2
  <2>4. Len(Stem(q)) = Len(q) - 1
    BY <2>1, <2>3, UptoIs
  <2>5. Under(Stem(q), q[Len(q)]) \in D
    BY <2>2
  <2> HIDE DEF Stem
  <2>6. Stem(q) \in D /\ \E m \in 1 .. Len(children[Stem(q)]) : children[Stem(q)][m] = q[Len(q)]
    BY <2>2, <2>5, LinkedIs
  <2>7. \E i \in 1 .. Len(children[Stem(q)]) : ChildAt(Stem(q), i) = q
    BY <2>2, <2>6 DEF ChildAt
  <2>8. SlotOf(q) \in 1 .. Len(children[Stem(q)]) /\ ChildAt(Stem(q), SlotOf(q)) = q
    BY <2>7
  <2> QED
    BY <2>2, <2>4, <2>6, <2>8
<1> HIDE DEF Stem, SlotOf
<1>3. ASSUME NEW q \in D PROVE gap[q] \in Nat
  <2>1. CASE q = <<>>
    BY <2>1
  <2>2. CASE q # <<>>
    <3>1. SlotOf(q) - 1 \in 0 .. Len(children[Stem(q)]) /\ Stem(q) \in D
      BY <1>2, <2>2, PartsAre
    <3>2. Cardinality(FirstOf(Stem(q), SlotOf(q) - 1)) \in Nat
      BY <3>1, PartsCounted
    <3> QED
      BY <2>2, <3>2
  <2> QED
    BY <2>1, <2>2
<1>4. ASSUME NEW g \in X PROVE Level(g) \in X
  <2>1. ASSUME NEW q \in D PROVE (IF q = <<>> THEN 0 ELSE g[Stem(q)] + gap[q]) \in Nat
    <3> HIDE DEF gap
    <3> QED
      BY <1>2, <1>3
  <2> HIDE DEF gap
  <2> QED
    BY <2>1
<1>5. first \in X
  OBVIOUS
<1>6. step \in [1 .. N -> [X -> X]]
  <2> HIDE DEF X, Level
  <2> QED
    BY <1>4
<1>7. PICK F \in [0 .. N -> X] : Recurs(F, N, first, step)
  <2> HIDE DEF X, step, first, N
  <2> QED
    BY <1>1, <1>5, <1>6, RecursionExists
<1>8. \A j \in 1 .. N : F[j] = Level(F[j - 1])
  <2>1. ASSUME NEW j \in 1 .. N PROVE F[j] = Level(F[j - 1])
    <3>1. F[j] = step[j][F[j - 1]]
      BY <1>7 DEF Recurs
    <3>2. j - 1 \in 0 .. N
      BY <1>1
    <3> HIDE DEF X, Level
    <3>3. F[j - 1] \in X
      BY <1>7, <3>2
    <3> QED
      BY <3>1, <3>3
  <2> QED
    BY <2>1
<1>9. F[0] = first
  BY <1>7 DEF Recurs
<1> DEFINE num == [q \in D |-> F[Len(q)][q]]
<1>10. \A q \in D : Len(q) \in 0 .. N
  BY DepthBound
<1>11. num \in [D -> Nat]
  <2> HIDE DEF N
  <2> QED
    BY <1>7, <1>10
<1>12. num[<<>>] = 0
  BY <1>9
<1>13. ASSUME NEW q \in D, q # <<>> PROVE num[q] = num[Stem(q)] + gap[q]
  <2>1. Len(q) \in 1 .. N /\ Stem(q) \in D /\ Len(Stem(q)) = Len(q) - 1
    BY <1>1, <1>2, <1>10, <1>13
  <2>2. F[Len(q)] = Level(F[Len(q) - 1])
    BY <1>8, <2>1
  <2> HIDE DEF gap
  <2>3. F[Len(q)][q] = F[Len(q) - 1][Stem(q)] + gap[q]
    BY <1>13, <2>2
  <2> QED
    BY <2>1, <2>3
<1>14. ASSUME NEW p \in D, NEW i \in 1 .. Len(children[p])
       PROVE  num[ChildAt(p, i)] = num[p] + Cardinality(FirstOf(p, i - 1))
  <2> DEFINE q == ChildAt(p, i)
  <2>1. q \in D /\ Len(q) = Len(p) + 1 /\ Len(p) \in Nat
    BY PartsAre, DepthBound
  <2>2. q # <<>>
    BY <2>1
  <2>3. Stem(q) \in D /\ SlotOf(q) \in 1 .. Len(children[Stem(q)]) /\ ChildAt(Stem(q), SlotOf(q)) = q
    BY <1>2, <2>1, <2>2
  <2>4. Stem(q) = p /\ children[Stem(q)][SlotOf(q)] = children[p][i]
    <3>1. p \in Paths /\ Stem(q) \in Paths /\ children[p][i] \in Char /\ children[Stem(q)][SlotOf(q)] \in Char
      BY <2>3 DEF Sprouts
    <3>2. Under(Stem(q), children[Stem(q)][SlotOf(q)]) = Under(p, children[p][i])
      BY <2>3 DEF ChildAt
    <3> HIDE DEF q
    <3> QED
      BY <3>1, <3>2, AppendsDiffer
  <2>5. SlotOf(q) = i
    BY <2>3, <2>4 DEF Sprouts
  <2>6. gap[q] = Cardinality(FirstOf(p, i - 1))
    BY <2>1, <2>2, <2>4, <2>5
  <2> HIDE DEF gap, num, q
  <2>7. num[q] = num[p] + gap[q]
    BY <1>13, <2>1, <2>2, <2>4
  <2> QED
    BY <2>6, <2>7 DEF q
<1> HIDE DEF num
<1>15. Numbers(num)
  BY <1>11, <1>12, <1>14 DEF Numbers
<1> QED
  BY <1>15

LEMMA NumbersRange ==
  ASSUME Sprouts(children), NEW num, Numbers(num), NEW q \in DOMAIN children, NEW j \in 0 .. Len(q)
  PROVE  /\ UptoOf(q, j) \in DOMAIN children /\ num[UptoOf(q, j)] \in Nat /\ num[q] \in Nat
         /\ num[UptoOf(q, j)] <= num[q]
         /\ num[q] < num[UptoOf(q, j)] + Cardinality(Beneath(UptoOf(q, j)))
<1> DEFINE D == DOMAIN children
           L == Len(q)
           Good(p) == num[p] <= num[q] /\ num[q] < num[p] + Cardinality(Beneath(p))
           S == {i \in 0 .. L : Good(UptoOf(q, L - i))}
<1>1. q \in Paths /\ L \in Nat /\ (\A i \in 0 .. L : UptoOf(q, i) \in D) /\ UptoOf(q, L) = q
  BY PrefixesStay, UptoEnds
<1>2. \A p \in D : num[p] \in Nat
  BY DEF Numbers
<1>3. 0 \in S
  <2>1. L - 0 = L /\ 0 \in 0 .. L
    BY <1>1
  <2>2. q \in Beneath(q) /\ IsFiniteSet(Beneath(q)) /\ Cardinality(Beneath(q)) \in Nat
    BY PartsAre, PartsCounted
  <2>3. Cardinality(Beneath(q)) # 0
    BY <2>2, FS_EmptySet
  <2>4. Good(q)
    BY <1>2, <2>2, <2>3
  <2> HIDE DEF Good
  <2> QED
    BY <1>1, <2>1, <2>4
<1>4. ASSUME NEW i \in 1 .. L, i - 1 \in S PROVE i \in S
  <2> DEFINE l == L - i
             p == UptoOf(q, l)
             x == q[l + 1]
             c == UptoOf(q, l + 1)
  <2>1. l \in 0 .. L - 1 /\ l \in 0 .. L /\ l + 1 = L - (i - 1) /\ l + 1 \in 0 .. L
    BY <1>1
  <2>2. x \in Char /\ c = Under(p, x) /\ p \in D /\ c \in D /\ p \in Paths
    BY <1>1, <2>1, UptoStep, UptoIs
  <2>3. Good(c)
    BY <1>4, <2>1
  <2> HIDE DEF l, p, x, c
  <2>4. PICK m \in 1 .. Len(children[p]) : children[p][m] = x
    BY <2>2, LinkedIs
  <2>5. ChildAt(p, m) = c
    BY <2>2, <2>4 DEF ChildAt
  <2>6. num[c] = num[p] + Cardinality(FirstOf(p, m - 1))
    BY <2>2, <2>5 DEF Numbers
  <2>7. m - 1 \in 0 .. Len(children[p]) /\ m \in 0 .. Len(children[p])
    BY <2>2, PartsAre
  <2>8. /\ Cardinality(FirstOf(p, m)) = Cardinality(FirstOf(p, m - 1)) + Cardinality(Beneath(c))
        /\ Cardinality(Beneath(c)) \in Nat /\ Cardinality(FirstOf(p, m - 1)) \in Nat
        /\ Cardinality(FirstOf(p, m)) <= Cardinality(Beneath(p)) /\ Cardinality(Beneath(p)) \in Nat
    BY <2>2, <2>5, <2>7, PartsCounted
  <2>9. Good(p)
    BY <1>2, <2>2, <2>3, <2>6, <2>8
  <2>10. i \in 0 .. L
    BY <1>1
  <2> HIDE DEF Good
  <2> QED
    BY <2>9, <2>10 DEF p, l
<1> HIDE DEF S, Good
<1>5. \A i \in 0 .. L : i \in S
  BY <1>1, <1>3, <1>4, Upward
<1>6. L - j \in 0 .. L /\ L - (L - j) = j
  BY <1>1
<1>7. Good(UptoOf(q, j))
  <2>1. L - j \in S
    BY <1>5, <1>6
  <2> QED
    BY <1>6, <2>1 DEF S
<1> QED
  BY <1>1, <1>2, <1>7 DEF Good

LEMMA BeneathRange ==
  ASSUME Sprouts(children), NEW num, Numbers(num), NEW p \in DOMAIN children, NEW q \in Beneath(p)
  PROVE  /\ num[p] \in Nat /\ num[q] \in Nat /\ num[p] <= num[q]
         /\ num[q] < num[p] + Cardinality(Beneath(p))
<1>1. q \in DOMAIN children /\ p = UptoOf(q, Len(p)) /\ Len(p) <= Len(q)
  BY DEF Beneath
<1>2. Len(p) \in 0 .. Len(q)
  BY <1>1, PrefixesStay
<1> QED
  BY <1>1, <1>2, NumbersRange

(* The nodes below one child are numbered between those of its neighbours. *)
LEMMA SlotRange ==
  ASSUME Sprouts(children), NEW num, Numbers(num), NEW p \in DOMAIN children,
         NEW i \in 0 .. Len(children[p]), NEW q \in FirstOf(p, i)
  PROVE  num[q] \in Nat /\ num[q] < num[p] + Cardinality(FirstOf(p, i))
<1> DEFINE L == Len(children[p])
           S == {j \in 0 .. L : \A r \in FirstOf(p, j) : num[r] \in Nat /\ num[r] < num[p] + Cardinality(FirstOf(p, j))}
<1>1. L \in Nat /\ num[p] \in Nat
  BY PartsAre DEF Numbers
<1>2. 0 \in S
  <2>1. FirstOf(p, 0) = {p} /\ Cardinality(FirstOf(p, 0)) = 1
    BY PartsAre, PartsCounted
  <2> QED
    BY <1>1, <2>1
<1>3. ASSUME NEW j \in 1 .. L, j - 1 \in S PROVE j \in S
  <2>1. j - 1 \in 0 .. L /\ j \in 0 .. L
    BY <1>1
  <2> DEFINE c == ChildAt(p, j)
  <2>2. /\ c \in DOMAIN children /\ FirstOf(p, j) = FirstOf(p, j - 1) \cup Beneath(c)
        /\ Cardinality(FirstOf(p, j)) = Cardinality(FirstOf(p, j - 1)) + Cardinality(Beneath(c))
        /\ Cardinality(FirstOf(p, j - 1)) \in Nat /\ Cardinality(Beneath(c)) \in Nat
        /\ num[c] = num[p] + Cardinality(FirstOf(p, j - 1))
    BY <2>1, PartsAre, PartsCounted DEF Numbers
  <2> HIDE DEF c
  <2>3. ASSUME NEW r \in FirstOf(p, j) PROVE num[r] \in Nat /\ num[r] < num[p] + Cardinality(FirstOf(p, j))
    <3>1. CASE r \in FirstOf(p, j - 1)
      <4>1. num[r] \in Nat /\ num[r] < num[p] + Cardinality(FirstOf(p, j - 1))
        BY <1>3, <3>1
      <4> QED
        BY <1>1, <2>2, <4>1
    <3>2. CASE r \in Beneath(c)
      <4>1. num[r] \in Nat /\ num[r] < num[c] + Cardinality(Beneath(c))
        BY <2>2, <3>2, BeneathRange
      <4> QED
        BY <1>1, <2>2, <4>1
    <3> QED
      BY <2>2, <3>1, <3>2
  <2> QED
    BY <2>1, <2>3
<1> HIDE DEF S
<1>4. \A j \in 0 .. L : j \in S
  BY <1>1, <1>2, <1>3, Upward
<1> QED
  BY <1>4 DEF S

------------------------------------------------------------------------------
(* What a walk returns: a node or NoKey, and the counter. *)
Landing == (DOMAIN children \cup {NoKey}) \X Nat

SlotEquation(s, f, p, current) ==
  s = [i \in 0 .. Len(children[p]) |->
        IF i = 0 THEN <<NoKey, current + 1>>
        ELSE LET before == s[i - 1]
             IN  IF before[1] # NoKey THEN before
                 ELSE f[Append(p, children[p][i])][before[2]]]

SlotWalk(f, p, current) == (CHOOSE s : SlotEquation(s, f, p, current))[Len(children[p])]

SlotsOf(s, f, p, current) ==
  /\ s[0] = <<NoKey, current + 1>>
  /\ \A i \in 1 .. Len(children[p]) :
       s[i] = IF s[i - 1][1] # NoKey THEN s[i - 1] ELSE f[ChildAt(p, i)][s[i - 1][2]]

LEMMA EquationIs ==
  ASSUME Sprouts(children), NEW p \in DOMAIN children, NEW f, NEW current, NEW s
  PROVE  /\ SlotEquation(s, f, p, current) => SlotsOf(s, f, p, current)
         /\ s = [i \in 0 .. Len(children[p]) |-> s[i]] /\ SlotsOf(s, f, p, current)
              => SlotEquation(s, f, p, current)
<1> DEFINE L == Len(children[p])
           Body(i) == IF i = 0 THEN <<NoKey, current + 1>>
                      ELSE IF s[i - 1][1] # NoKey THEN s[i - 1]
                      ELSE f[ChildAt(p, i)][s[i - 1][2]]
<1>1. L \in Nat
  BY PartsAre
<1>2. SlotEquation(s, f, p, current) <=> s = [i \in 0 .. L |-> Body(i)]
  BY DEF SlotEquation, ChildAt, Under
<1>3. ASSUME SlotEquation(s, f, p, current) PROVE SlotsOf(s, f, p, current)
  <2>1. s = [i \in 0 .. L |-> Body(i)]
    BY <1>2, <1>3
  <2>2. ASSUME NEW i \in 0 .. L PROVE s[i] = Body(i)
    BY <2>1, Zenon
  <2>3. 0 \in 0 .. L /\ \A i \in 1 .. L : i \in 0 .. L /\ i # 0
    BY <1>1
  <2>4. s[0] = <<NoKey, current + 1>>
    BY <2>2, <2>3
  <2>5. \A i \in 1 .. L : s[i] = IF s[i - 1][1] # NoKey THEN s[i - 1] ELSE f[ChildAt(p, i)][s[i - 1][2]]
    BY <2>2, <2>3
  <2> QED
    BY <2>4, <2>5 DEF SlotsOf
<1>4. ASSUME s = [i \in 0 .. L |-> s[i]], SlotsOf(s, f, p, current) PROVE SlotEquation(s, f, p, current)
  <2>1. ASSUME NEW i \in 0 .. L PROVE s[i] = Body(i)
    <3>1. i = 0 \/ i \in 1 .. L
      BY <1>1
    <3>2. CASE i = 0
      BY <1>4, <3>2 DEF SlotsOf
    <3>3. CASE i \in 1 .. L
      <4>1. i # 0
        BY <1>1, <3>3
      <4>2. s[i] = IF s[i - 1][1] # NoKey THEN s[i - 1] ELSE f[ChildAt(p, i)][s[i - 1][2]]
        BY <1>4, <3>3 DEF SlotsOf
      <4> QED
        BY <4>1, <4>2
    <3> QED
      BY <3>1, <3>2, <3>3
  <2> HIDE DEF Body
  <2>2. s = [i \in 0 .. L |-> Body(i)]
    BY <1>4, <2>1
  <2> QED
    BY <1>2, <2>2
<1> QED
  BY <1>3, <1>4

LEMMA SlotWalkIs ==
  ASSUME Sprouts(children), NEW p \in DOMAIN children, NEW f, NEW current \in Nat,
         \A i \in 1 .. Len(children[p]) : \A x \in Nat : f[ChildAt(p, i)][x] \in Landing
  PROVE  \E s \in [0 .. Len(children[p]) -> Landing] :
           SlotsOf(s, f, p, current) /\ SlotWalk(f, p, current) = s[Len(children[p])]
<1> DEFINE L == Len(children[p])
           X == Landing
           first == <<NoKey, current + 1>>
           After(i, x) == IF x[1] # NoKey THEN x ELSE f[ChildAt(p, i)][x[2]]
           step == [i \in 1 .. L |-> [x \in X |-> After(i, x)]]
<1>1. L \in Nat /\ 0 \in 0 .. L /\ \A i \in 1 .. L : i - 1 \in 0 .. L
  BY PartsAre
<1>2. first \in X
  BY DEF Landing
<1>3. \A x \in X : x[2] \in Nat
  BY DEF Landing
<1> HIDE DEF first, X
<1>4. ASSUME NEW i \in 1 .. L, NEW x \in X PROVE After(i, x) \in X
  BY <1>3 DEF X
<1>5. step \in [1 .. L -> [X -> X]]
  <2> HIDE DEF After
  <2> QED
    BY <1>4
<1>6. PICK s \in [0 .. L -> X] : Recurs(s, L, first, step)
  <2> HIDE DEF step, L
  <2> QED
    BY <1>1, <1>2, <1>5, RecursionExists
<1>7. SlotsOf(s, f, p, current)
  <2>1. s[0] = <<NoKey, current + 1>>
    BY <1>6 DEF Recurs, first
  <2>2. ASSUME NEW i \in 1 .. L
        PROVE  s[i] = IF s[i - 1][1] # NoKey THEN s[i - 1] ELSE f[ChildAt(p, i)][s[i - 1][2]]
    <3>1. s[i] = step[i][s[i - 1]] /\ s[i - 1] \in X
      BY <1>1, <1>6 DEF Recurs
    <3>2. step[i][s[i - 1]] = After(i, s[i - 1])
      <4> HIDE DEF After
      <4> QED
        BY <3>1
    <3> QED
      BY <3>1, <3>2
  <2> QED
    BY <2>1, <2>2 DEF SlotsOf
<1>8. SlotEquation(s, f, p, current)
  <2>1. s = [i \in 0 .. L |-> s[i]]
    BY <1>6
  <2> QED
    BY <1>7, <2>1, EquationIs
<1> DEFINE u == CHOOSE u : SlotEquation(u, f, p, current)
<1>9. SlotEquation(u, f, p, current)
  BY <1>8
<1>10. SlotWalk(f, p, current) = u[L]
  BY DEF SlotWalk
<1> HIDE DEF u
<1>11. SlotsOf(u, f, p, current)
  BY <1>9, EquationIs
<1>12. u = [i \in 0 .. L |-> u[i]]
  BY <1>9 DEF SlotEquation
<1> DEFINE S == {i \in 0 .. L : u[i] \in X}
<1>13. 0 \in S
  BY <1>1, <1>2, <1>11 DEF SlotsOf, first
<1>14. ASSUME NEW i \in 1 .. L, i - 1 \in S PROVE i \in S
  <2>1. u[i] = After(i, u[i - 1]) /\ u[i - 1] \in X
    BY <1>11, <1>14 DEF SlotsOf
  <2>2. i \in 0 .. L
    BY <1>1
  <2> HIDE DEF After
  <2> QED
    BY <1>4, <2>1, <2>2
<1> HIDE DEF S
<1>15. \A i \in 0 .. L : i \in S
  BY <1>1, <1>13, <1>14, Upward
<1>16. u \in [0 .. L -> X]
  BY <1>12, <1>15 DEF S
<1> QED
  BY <1>10, <1>11, <1>16 DEF X

(* Walks that agree on the children agree on the node. *)
LEMMA SlotWalksAgree ==
  ASSUME Sprouts(children), NEW p \in DOMAIN children, NEW f, NEW g, NEW current \in Nat,
         \A i \in 1 .. Len(children[p]) : \A x \in Nat : f[ChildAt(p, i)][x] \in Landing,
         \A i \in 1 .. Len(children[p]) : f[ChildAt(p, i)] = g[ChildAt(p, i)]
  PROVE  SlotWalk(f, p, current) = SlotWalk(g, p, current) /\ SlotWalk(f, p, current) \in Landing
<1> DEFINE L == Len(children[p])
<1>1. L \in Nat
  BY PartsAre
<1>2. \A i \in 1 .. L : \A x \in Nat : g[ChildAt(p, i)][x] \in Landing
  OBVIOUS
<1>3. PICK s \in [0 .. L -> Landing] : SlotsOf(s, f, p, current) /\ SlotWalk(f, p, current) = s[L]
  BY SlotWalkIs
<1>4. PICK u \in [0 .. L -> Landing] : SlotsOf(u, g, p, current) /\ SlotWalk(g, p, current) = u[L]
  BY <1>2, SlotWalkIs
<1> DEFINE S == {i \in 0 .. L : s[i] = u[i]}
<1>5. 0 \in S
  BY <1>1, <1>3, <1>4 DEF SlotsOf
<1>6. ASSUME NEW i \in 1 .. L, i - 1 \in S PROVE i \in S
  <2>1. s[i - 1] = u[i - 1] /\ i \in 0 .. L
    BY <1>1, <1>6
  <2>2. s[i] = IF s[i - 1][1] # NoKey THEN s[i - 1] ELSE f[ChildAt(p, i)][s[i - 1][2]]
    BY <1>3 DEF SlotsOf
  <2>3. u[i] = IF u[i - 1][1] # NoKey THEN u[i - 1] ELSE g[ChildAt(p, i)][u[i - 1][2]]
    BY <1>4 DEF SlotsOf
  <2>4. f[ChildAt(p, i)] = g[ChildAt(p, i)]
    OBVIOUS
  <2> QED
    BY <2>1, <2>2, <2>3, <2>4
<1> HIDE DEF S
<1>7. \A i \in 0 .. L : i \in S
  BY <1>1, <1>5, <1>6, Upward
<1>8. L \in 0 .. L
  BY <1>1
<1> QED
  BY <1>3, <1>4, <1>7, <1>8 DEF S

(* A walk that stops at the nodes and counts of H. *)
WalkOf(f, H) ==
  f = [p \in DOMAIN children |-> [current \in Nat |->
        IF <<p, current>> \in H THEN <<p, current>> ELSE SlotWalk(f, p, current)]]

LEMMA WalkExists ==
  ASSUME Sprouts(children), NEW H
  PROVE  \E f : WalkOf(f, H)
<1> DEFINE D == DOMAIN children
           N == Cardinality(D)
           X == [D -> [Nat -> Landing]]
           Level(g) == [p \in D |-> [current \in Nat |->
                          IF <<p, current>> \in H THEN <<p, current>> ELSE SlotWalk(g, p, current)]]
           first == [p \in D |-> [current \in Nat |-> <<NoKey, 0>>]]
           step == [j \in 1 .. N |-> [g \in X |-> Level(g)]]
<1>1. \A p \in D : N \in Nat /\ Len(p) \in Nat /\ Len(p) < N
  BY DepthBound
<1>2. first \in X
  <2>1. <<NoKey, 0>> \in Landing
    BY DEF Landing
  <2> HIDE DEF D
  <2> QED
    BY <2>1
<1>3. ASSUME NEW g \in X PROVE Level(g) \in X
  <2>1. ASSUME NEW p \in D, NEW current \in Nat
        PROVE  (IF <<p, current>> \in H THEN <<p, current>> ELSE SlotWalk(g, p, current)) \in Landing
    <3>1. \A i \in 1 .. Len(children[p]) : \A x \in Nat : g[ChildAt(p, i)][x] \in Landing
      BY PartsAre
    <3>2. SlotWalk(g, p, current) \in Landing
      BY <3>1, SlotWalksAgree
    <3>3. <<p, current>> \in Landing
      BY DEF Landing
    <3> QED
      BY <3>2, <3>3
  <2> HIDE DEF D
  <2> QED
    BY <2>1
<1>4. step \in [1 .. N -> [X -> X]]
  <2> HIDE DEF X, Level
  <2> QED
    BY <1>3
<1>5. CASE D = {}
  <2>1. WalkOf([p \in D |-> 0], H)
    BY <1>5 DEF WalkOf
  <2> QED
    BY <2>1
<1>6. CASE D # {}
  <2>1. N \in Nat
    BY <1>1, <1>6
  <2>2. PICK F \in [0 .. N -> X] : Recurs(F, N, first, step)
    <3> HIDE DEF X, step, first, N
    <3> QED
      BY <1>2, <1>4, <2>1, RecursionExists
  <2>3. \A j \in 1 .. N : F[j] = Level(F[j - 1]) /\ F[j - 1] \in X /\ F[j] \in X
    <3>1. ASSUME NEW j \in 1 .. N PROVE F[j] = Level(F[j - 1]) /\ F[j - 1] \in X /\ F[j] \in X
      <4>1. F[j] = step[j][F[j - 1]]
        BY <2>2 DEF Recurs
      <4>2. j - 1 \in 0 .. N /\ j \in 0 .. N
        BY <2>1
      <4> HIDE DEF X, Level
      <4>3. F[j - 1] \in X /\ F[j] \in X
        BY <2>2, <4>2
      <4> QED
        BY <4>1, <4>3
    <3> QED
      BY <3>1
  <2> DEFINE f == [p \in D |-> F[N - Len(p)][p]]
  <2>4. ASSUME NEW p \in D
        PROVE  f[p] = [current \in Nat |->
                         IF <<p, current>> \in H THEN <<p, current>> ELSE SlotWalk(f, p, current)]
    <3> DEFINE j == N - Len(p)
               g == F[j - 1]
    <3>1. j \in 1 .. N
      BY <1>1
    <3>2. f[p] = F[j][p] /\ F[j] = Level(g) /\ g \in X
      BY <2>3, <3>1
    <3>3. ASSUME NEW i \in 1 .. Len(children[p])
          PROVE  g[ChildAt(p, i)] = f[ChildAt(p, i)] /\ ChildAt(p, i) \in D
      <4>1. ChildAt(p, i) \in D /\ Len(ChildAt(p, i)) = Len(p) + 1
        BY PartsAre
      <4>2. N - Len(ChildAt(p, i)) = j - 1
        BY <1>1, <4>1
      <4> QED
        BY <4>1, <4>2
    <3> HIDE DEF j, f, g
    <3>4. \A i \in 1 .. Len(children[p]) : \A x \in Nat : g[ChildAt(p, i)][x] \in Landing
      BY <3>2, <3>3
    <3>5. ASSUME NEW current \in Nat PROVE SlotWalk(g, p, current) = SlotWalk(f, p, current)
      BY <3>3, <3>4, SlotWalksAgree
    <3>6. Level(g)[p] = [current \in Nat |->
                         IF <<p, current>> \in H THEN <<p, current>> ELSE SlotWalk(f, p, current)]
      <4>1. Level(g)[p] = [current \in Nat |->
                         IF <<p, current>> \in H THEN <<p, current>> ELSE SlotWalk(g, p, current)]
        BY Zenon
      <4> QED
        BY <3>5, <4>1
    <3> QED
      BY <3>2, <3>6
  <2>5. f = [p \in D |-> f[p]]
    OBVIOUS
  <2> HIDE DEF f
  <2>6. WalkOf(f, H)
    BY <2>4, <2>5 DEF WalkOf
  <2> QED
    BY <2>6
<1> QED
  BY <1>5, <1>6

LEMMA WalkUnfolds ==
  ASSUME NEW H, NEW f, WalkOf(f, H)
  PROVE  /\ \A p \in DOMAIN children : \A current \in Nat :
              f[p][current] = IF <<p, current>> \in H THEN <<p, current>> ELSE SlotWalk(f, p, current)
         /\ \A p \in DOMAIN children : f[p] = [current \in Nat |-> f[p][current]]
         /\ f = [p \in DOMAIN children |-> f[p]]
<1> DEFINE D == DOMAIN children
<1>1. f = [p \in D |-> [current \in Nat |->
              IF <<p, current>> \in H THEN <<p, current>> ELSE SlotWalk(f, p, current)]]
  BY DEF WalkOf
<1>2. ASSUME NEW p \in D
      PROVE  f[p] = [current \in Nat |->
                       IF <<p, current>> \in H THEN <<p, current>> ELSE SlotWalk(f, p, current)]
  BY <1>1, Zenon
<1>3. ASSUME NEW p \in D, NEW current \in Nat
      PROVE  f[p][current] = IF <<p, current>> \in H THEN <<p, current>> ELSE SlotWalk(f, p, current)
  BY <1>2, Zenon
<1>4. ASSUME NEW p \in D PROVE f[p] = [current \in Nat |-> f[p][current]]
  <2>1. PICK e : e = [current \in Nat |->
                       IF <<p, current>> \in H THEN <<p, current>> ELSE SlotWalk(f, p, current)]
    OBVIOUS
  <2>2. e = [current \in Nat |-> e[current]]
    BY <2>1
  <2> QED
    BY <1>2, <2>1, <2>2
<1>5. f = [p \in D |-> f[p]]
  <2>1. PICK e : e = [p \in D |-> [current \in Nat |->
              IF <<p, current>> \in H THEN <<p, current>> ELSE SlotWalk(f, p, current)]]
    OBVIOUS
  <2>2. e = [p \in D |-> e[p]]
    BY <2>1
  <2> QED
    BY <1>1, <2>1, <2>2
<1> QED
  BY <1>3, <1>4, <1>5

(* Induction from the leaves to the root. *)
LEMMA FromTheLeaves ==
  ASSUME Sprouts(children), NEW S,
         \A p \in DOMAIN children :
           (\A i \in 1 .. Len(children[p]) : ChildAt(p, i) \in S) => p \in S
  PROVE  \A p \in DOMAIN children : p \in S
<1> SUFFICES ASSUME NEW q \in DOMAIN children PROVE q \in S
  OBVIOUS
<1> DEFINE D == DOMAIN children
           N == Cardinality(D)
           T == {j \in 0 .. N : \A p \in D : Len(p) + j >= N => p \in S}
<1>1. N \in Nat /\ \A p \in D : Len(p) \in Nat /\ Len(p) < N
  BY DepthBound
<1> HIDE DEF N
<1>2. 0 \in T
  BY <1>1
<1>3. ASSUME NEW j \in 1 .. N, j - 1 \in T PROVE j \in T
  <2>1. ASSUME NEW p \in D, Len(p) + j >= N PROVE p \in S
    <3>1. ASSUME NEW i \in 1 .. Len(children[p]) PROVE ChildAt(p, i) \in S
      <4>1. ChildAt(p, i) \in D /\ Len(ChildAt(p, i)) = Len(p) + 1
        BY PartsAre
      <4>2. Len(ChildAt(p, i)) + (j - 1) >= N
        BY <1>1, <2>1, <4>1
      <4> QED
        BY <1>3, <4>1, <4>2
    <3> QED
      BY <3>1
  <2> QED
    BY <1>1, <2>1
<1> HIDE DEF T
<1>4. \A j \in 0 .. N : j \in T
  BY <1>1, <1>2, <1>3, Upward
<1>5. N \in T /\ Len(q) + N >= N
  BY <1>1, <1>4
<1> QED
  BY <1>5 DEF T

LEMMA WalkTyped ==
  ASSUME Sprouts(children), NEW H, NEW f, WalkOf(f, H)
  PROVE  f \in [DOMAIN children -> [Nat -> Landing]]
<1> DEFINE D == DOMAIN children
           S == {p \in D : \A current \in Nat : f[p][current] \in Landing}
<1>1. /\ \A p \in D : \A current \in Nat :
              f[p][current] = IF <<p, current>> \in H THEN <<p, current>> ELSE SlotWalk(f, p, current)
      /\ \A p \in D : f[p] = [current \in Nat |-> f[p][current]]
      /\ f = [p \in D |-> f[p]]
  BY WalkUnfolds
<1>2. ASSUME NEW p \in D, \A i \in 1 .. Len(children[p]) : ChildAt(p, i) \in S PROVE p \in S
  <2>1. \A i \in 1 .. Len(children[p]) : \A x \in Nat : f[ChildAt(p, i)][x] \in Landing
    BY <1>2
  <2>2. ASSUME NEW current \in Nat PROVE f[p][current] \in Landing
    <3>1. SlotWalk(f, p, current) \in Landing
      BY <2>1, SlotWalksAgree
    <3>2. <<p, current>> \in Landing
      BY DEF Landing
    <3> QED
      BY <1>1, <3>1, <3>2
  <2> QED
    BY <2>2
<1> HIDE DEF S
<1>3. \A p \in D : p \in S
  BY <1>2, FromTheLeaves
<1>4. \A p \in D : f[p] \in [Nat -> Landing]
  <2>1. ASSUME NEW p \in D PROVE f[p] \in [Nat -> Landing]
    <3>1. \A current \in Nat : f[p][current] \in Landing
      BY <1>3 DEF S
    <3>2. PICK e : e = f[p]
      OBVIOUS
    <3>3. e = [current \in Nat |-> e[current]] /\ \A current \in Nat : e[current] \in Landing
      BY <1>1, <3>1, <3>2
    <3>4. e \in [Nat -> Landing]
      BY <3>3
    <3> QED
      BY <3>2, <3>4
  <2> QED
    BY <2>1
<1> QED
  BY <1>1, <1>4

(* Every node below p but p itself is below one of its children. *)
LEMMA BelowAChild ==
  ASSUME Sprouts(children), NEW p \in DOMAIN children, NEW q \in Beneath(p), q # p
  PROVE  \E i \in 1 .. Len(children[p]) : q \in Beneath(ChildAt(p, i))
<1> DEFINE L == Len(children[p])
           Found(r) == r = p \/ \E i \in 1 .. L : r \in Beneath(ChildAt(p, i))
           S == {j \in 0 .. L : \A r \in FirstOf(p, j) : Found(r)}
<1>1. L \in Nat /\ FirstOf(p, 0) = {p} /\ FirstOf(p, L) = Beneath(p)
  BY PartsAre
<1>2. 0 \in S
  BY <1>1
<1>3. ASSUME NEW j \in 1 .. L, j - 1 \in S PROVE j \in S
  <2>1. FirstOf(p, j) = FirstOf(p, j - 1) \cup Beneath(ChildAt(p, j)) /\ j \in 0 .. L
    BY <1>1, PartsAre
  <2>2. ASSUME NEW r \in FirstOf(p, j) PROVE Found(r)
    <3>1. CASE r \in FirstOf(p, j - 1)
      BY <1>3, <3>1
    <3>2. CASE r \in Beneath(ChildAt(p, j))
      BY <3>2
    <3> QED
      BY <2>1, <2>2, <3>1, <3>2
  <2> HIDE DEF Found
  <2> QED
    BY <2>1, <2>2
<1> HIDE DEF S, Found
<1>4. \A j \in 0 .. L : j \in S
  BY <1>1, <1>2, <1>3, Upward
<1>5. L \in S
  BY <1>1, <1>4
<1>6. Found(q)
  BY <1>1, <1>5 DEF S
<1> QED
  BY <1>6 DEF Found

(* The walk through p finds the node of Hit below p, or counts them all. *)
Lands(f, num, Hit, p) ==
  /\ \A q \in Hit : q \in Beneath(p) => f[p][num[p]] = <<q, num[q]>>
  /\ (\A q \in Hit : q \notin Beneath(p)) => f[p][num[p]] = <<NoKey, num[p] + Cardinality(Beneath(p))>>

LEMMA SlotsLand ==
  ASSUME Sprouts(children), NEW num, Numbers(num), NEW f \in [DOMAIN children -> [Nat -> Landing]],
         NEW Hit \in SUBSET DOMAIN children, \A q, r \in Hit : num[q] = num[r],
         NEW p \in DOMAIN children, p \notin Hit,
         \A i \in 1 .. Len(children[p]) : Lands(f, num, Hit, ChildAt(p, i)),
         f[p][num[p]] = SlotWalk(f, p, num[p])
  PROVE  Lands(f, num, Hit, p)
<1> DEFINE L == Len(children[p])
           W(i) == Cardinality(FirstOf(p, i))
           c(i) == ChildAt(p, i)
<1>1. L \in Nat /\ FirstOf(p, 0) = {p} /\ FirstOf(p, L) = Beneath(p) /\ num[p] \in Nat
  BY PartsAre DEF Numbers
<1>2. \A i \in 1 .. L : \A x \in Nat : f[c(i)][x] \in Landing
  BY PartsAre
<1>3. PICK s \in [0 .. L -> Landing] : SlotsOf(s, f, p, num[p]) /\ SlotWalk(f, p, num[p]) = s[L]
  BY <1>1, <1>2, SlotWalkIs
<1>4. NoKey \notin DOMAIN children
  BY NoKeyIsNoPath DEF Sprouts
<1> DEFINE Holds(i) == /\ \A q \in Hit : q \in FirstOf(p, i) => s[i] = <<q, num[q]>>
                       /\ (\A q \in Hit : q \notin FirstOf(p, i)) => s[i] = <<NoKey, num[p] + W(i)>>
           S == {i \in 0 .. L : Holds(i)}
<1>5. 0 \in S
  <2>1. s[0] = <<NoKey, num[p] + 1>> /\ W(0) = 1
    BY <1>3, PartsCounted DEF SlotsOf
  <2> QED
    BY <1>1, <2>1
<1>6. ASSUME NEW i \in 1 .. L, i - 1 \in S PROVE i \in S
  <2>1. i - 1 \in 0 .. L /\ i \in 0 .. L
    BY <1>1
  <2>2. /\ FirstOf(p, i) = FirstOf(p, i - 1) \cup Beneath(c(i)) /\ c(i) \in DOMAIN children
        /\ W(i) = W(i - 1) + Cardinality(Beneath(c(i)))
        /\ W(i - 1) \in Nat /\ Cardinality(Beneath(c(i))) \in Nat
        /\ num[c(i)] = num[p] + W(i - 1)
    BY <2>1, PartsAre, PartsCounted DEF Numbers
  <2>3. s[i] = IF s[i - 1][1] # NoKey THEN s[i - 1] ELSE f[c(i)][s[i - 1][2]]
    BY <1>3 DEF SlotsOf
  <2>4. Lands(f, num, Hit, c(i))
    OBVIOUS
  <2>5. Holds(i - 1)
    BY <1>6
  <2> HIDE DEF W, c
  <2>6. CASE \E q \in Hit : q \in FirstOf(p, i - 1)
    <3>1. PICK q \in Hit : q \in FirstOf(p, i - 1)
      BY <2>6
    <3>2. s[i - 1] = <<q, num[q]>>
      BY <2>5, <3>1
    <3>3. s[i] = <<q, num[q]>>
      BY <1>4, <2>3, <3>2
    <3>4. num[q] \in Nat /\ num[q] < num[p] + W(i - 1)
      BY <2>1, <3>1, SlotRange DEF W
    <3>5. ASSUME NEW r \in Hit, r \in FirstOf(p, i) PROVE s[i] = <<r, num[r]>>
      <4>1. CASE r \in FirstOf(p, i - 1)
        <5>1. s[i - 1] = <<r, num[r]>>
          BY <2>5, <4>1
        <5> QED
          BY <3>2, <3>3, <5>1
      <4>2. CASE r \in Beneath(c(i))
        <5>1. num[c(i)] <= num[r] /\ num[r] \in Nat /\ num[r] = num[q]
          BY <2>2, <3>1, <4>2, BeneathRange
        <5> QED
          BY <1>1, <2>2, <3>4, <5>1
      <4> QED
        BY <2>2, <3>5, <4>1, <4>2
    <3> QED
      BY <2>1, <2>2, <3>1, <3>5
  <2>7. CASE \A q \in Hit : q \notin FirstOf(p, i - 1)
    <3>1. s[i - 1] = <<NoKey, num[p] + W(i - 1)>>
      BY <2>5, <2>7
    <3>2. s[i] = f[c(i)][num[c(i)]]
      BY <2>2, <2>3, <3>1
    <3>3. \A q \in Hit : q \in FirstOf(p, i) <=> q \in Beneath(c(i))
      BY <2>2, <2>7
    <3>4. num[c(i)] + Cardinality(Beneath(c(i))) = num[p] + W(i)
      BY <1>1, <2>2
    <3>5. Holds(i)
      BY <2>4, <3>2, <3>3, <3>4 DEF Lands
    <3> QED
      BY <2>1, <3>5
  <2> QED
    BY <2>6, <2>7
<1> HIDE DEF S, Holds, W
<1>7. \A i \in 0 .. L : i \in S
  BY <1>1, <1>5, <1>6, Upward
<1>8. Holds(L)
  BY <1>1, <1>7 DEF S
<1>9. W(L) = Cardinality(Beneath(p))
  BY <1>1 DEF W
<1> QED
  BY <1>1, <1>3, <1>8, <1>9 DEF Holds, Lands

LEMMA WalkLands ==
  ASSUME Sprouts(children), NEW num, Numbers(num), NEW H, NEW f, WalkOf(f, H),
         NEW Hit \in SUBSET DOMAIN children, \A q, r \in Hit : num[q] = num[r],
         \A p \in DOMAIN children : <<p, num[p]>> \in H <=> p \in Hit
  PROVE  \A p \in DOMAIN children : Lands(f, num, Hit, p)
<1> DEFINE D == DOMAIN children
           S == {p \in D : Lands(f, num, Hit, p)}
<1>1. f \in [D -> [Nat -> Landing]]
  BY WalkTyped
<1>2. \A p \in D : num[p] \in Nat
  BY DEF Numbers
<1>3. \A p \in D : f[p][num[p]] = IF p \in Hit THEN <<p, num[p]>> ELSE SlotWalk(f, p, num[p])
  BY <1>2, WalkUnfolds
<1>4. ASSUME NEW p \in D, \A i \in 1 .. Len(children[p]) : ChildAt(p, i) \in S PROVE p \in S
  <2>1. CASE p \in Hit
    <3>1. f[p][num[p]] = <<p, num[p]>> /\ p \in Beneath(p)
      BY <1>3, <2>1, PartsAre
    <3>2. ASSUME NEW q \in Hit, q \in Beneath(p), q # p PROVE FALSE
      <4>1. PICK i \in 1 .. Len(children[p]) : q \in Beneath(ChildAt(p, i))
        BY <3>2, BelowAChild
      <4>2. ChildAt(p, i) \in D /\ i - 1 \in 0 .. Len(children[p])
        BY PartsAre
      <4>3. num[ChildAt(p, i)] <= num[q] /\ num[q] \in Nat
        BY <4>1, <4>2, BeneathRange
      <4>4. p \in FirstOf(p, i - 1)
        BY DEF FirstOf
      <4>5. num[p] < num[p] + Cardinality(FirstOf(p, i - 1))
        BY <4>2, <4>4, SlotRange
      <4>6. num[ChildAt(p, i)] = num[p] + Cardinality(FirstOf(p, i - 1))
        BY DEF Numbers
      <4>7. num[q] = num[p] /\ num[p] \in Nat
        BY <1>2, <2>1
      <4>8. num[ChildAt(p, i)] \in Nat
        BY <1>2, <4>2
      <4> QED
        BY <4>3, <4>5, <4>6, <4>7, <4>8
    <3>3. Lands(f, num, Hit, p)
      BY <2>1, <3>1, <3>2 DEF Lands
    <3> QED
      BY <3>3
  <2>2. CASE p \notin Hit
    <3>1. \A i \in 1 .. Len(children[p]) : Lands(f, num, Hit, ChildAt(p, i))
      BY <1>4
    <3>2. f[p][num[p]] = SlotWalk(f, p, num[p])
      BY <1>3, <2>2
    <3>3. Lands(f, num, Hit, p)
      BY <1>1, <2>2, <3>1, <3>2, SlotsLand
    <3> QED
      BY <3>3
  <2> QED
    BY <2>1, <2>2
<1> HIDE DEF S
<1>5. \A p \in D : p \in S
  BY <1>4, FromTheLeaves
<1> QED
  BY <1>5 DEF S

------------------------------------------------------------------------------
(* The walks of index_of and of node_at. *)
IndexWalks(f, t) ==
  f = [p \in DOMAIN children |-> [current \in Nat |->
        IF p = t THEN <<p, current>> ELSE SlotWalk(f, p, current)]]

NodeWalks(f, h) ==
  f = [p \in DOMAIN children |-> [current \in Nat |->
        IF current = h THEN <<p, current>> ELSE SlotWalk(f, p, current)]]

LEMMA IndexOfWalks ==
  ASSUME NEW t
  PROVE  Trie!IndexOf(t) = (CHOOSE f : IndexWalks(f, t))[<<>>][0][2]
BY DEF Trie!IndexOf, IndexWalks, SlotWalk, SlotEquation, Trie!Nodes

LEMMA NodeAtWalks ==
  ASSUME NEW h
  PROVE  Trie!NodeAt(h) = (CHOOSE f : NodeWalks(f, h))[<<>>][0][1]
BY DEF Trie!NodeAt, NodeWalks, SlotWalk, SlotEquation, Trie!Nodes

LEMMA BeneathRoot ==
  ASSUME Sprouts(children), <<>> \in DOMAIN children
  PROVE  Beneath(<<>>) = DOMAIN children
<1>1. ASSUME NEW q \in DOMAIN children PROVE q \in Beneath(<<>>)
  <2>1. q \in Paths /\ Len(q) \in Nat
    BY PrefixesStay
  <2>2. UptoOf(q, 0) = <<>>
    BY <2>1, UptoEnds
  <2>3. Len(<<>>) = 0
    OBVIOUS
  <2> QED
    BY <2>1, <2>2, <2>3 DEF Beneath
<1> QED
  BY <1>1 DEF Beneath

LEMMA IndexOfIs ==
  ASSUME Sprouts(children), <<>> \in DOMAIN children, NEW num, Numbers(num),
         NEW t \in DOMAIN children
  PROVE  Trie!IndexOf(t) = num[t]
<1> DEFINE D == DOMAIN children
           H == {t} \X Nat
           f == CHOOSE f : IndexWalks(f, t)
<1>1. \A g : IndexWalks(g, t) <=> WalkOf(g, H)
  <2>1. ASSUME NEW g PROVE IndexWalks(g, t) <=> WalkOf(g, H)
    <3>1. ASSUME NEW p \in D
          PROVE  [current \in Nat |-> IF p = t THEN <<p, current>> ELSE SlotWalk(g, p, current)]
                 = [current \in Nat |-> IF <<p, current>> \in H THEN <<p, current>> ELSE SlotWalk(g, p, current)]
      <4>1. \A current \in Nat : <<p, current>> \in H <=> p = t
        OBVIOUS
      <4> HIDE DEF H
      <4> QED
        BY <4>1
    <3> HIDE DEF H
    <3> QED
      BY <3>1 DEF IndexWalks, WalkOf
  <2> QED
    BY <2>1
<1>2. \E g : WalkOf(g, H)
  BY WalkExists
<1>3. WalkOf(f, H)
  <2> HIDE DEF H
  <2>1. \E g : IndexWalks(g, t)
    BY <1>1, <1>2
  <2>2. IndexWalks(f, t)
    BY <2>1
  <2> QED
    BY <1>1, <2>2
<1>4. Trie!IndexOf(t) = f[<<>>][0][2]
  BY IndexOfWalks
<1>5. /\ {t} \in SUBSET D /\ (\A q, r \in {t} : num[q] = num[r])
      /\ \A p \in D : <<p, num[p]>> \in H <=> p \in {t}
  BY DEF Numbers
<1> HIDE DEF f, H
<1>6. Lands(f, num, {t}, <<>>)
  BY <1>3, <1>5, WalkLands
<1>7. num[<<>>] = 0 /\ t \in Beneath(<<>>)
  BY BeneathRoot DEF Numbers
<1>8. f[<<>>][0] = <<t, num[t]>>
  BY <1>6, <1>7 DEF Lands
<1> QED
  BY <1>4, <1>8

LEMMA NodeAtIs ==
  ASSUME Sprouts(children), <<>> \in DOMAIN children, NEW num, Numbers(num), NEW h \in Nat
  PROVE  /\ \A q \in DOMAIN children : num[q] = h => Trie!NodeAt(h) = q
         /\ (\A q \in DOMAIN children : num[q] # h) => Trie!NodeAt(h) = NoKey
<1> DEFINE D == DOMAIN children
           H == D \X {h}
           Hit == {q \in D : num[q] = h}
           f == CHOOSE f : NodeWalks(f, h)
<1>1. \A g : NodeWalks(g, h) <=> WalkOf(g, H)
  <2>1. ASSUME NEW g PROVE NodeWalks(g, h) <=> WalkOf(g, H)
    <3>1. ASSUME NEW p \in D
          PROVE  [current \in Nat |-> IF current = h THEN <<p, current>> ELSE SlotWalk(g, p, current)]
                 = [current \in Nat |-> IF <<p, current>> \in H THEN <<p, current>> ELSE SlotWalk(g, p, current)]
      <4>1. \A current \in Nat : <<p, current>> \in H <=> current = h
        OBVIOUS
      <4> HIDE DEF H
      <4> QED
        BY <4>1
    <3> HIDE DEF H
    <3> QED
      BY <3>1 DEF NodeWalks, WalkOf
  <2> QED
    BY <2>1
<1>2. \E g : WalkOf(g, H)
  BY WalkExists
<1>3. WalkOf(f, H)
  <2> HIDE DEF H
  <2>1. \E g : NodeWalks(g, h)
    BY <1>1, <1>2
  <2>2. NodeWalks(f, h)
    BY <2>1
  <2> QED
    BY <1>1, <2>2
<1>4. Trie!NodeAt(h) = f[<<>>][0][1]
  BY NodeAtWalks
<1>5. /\ Hit \in SUBSET D /\ (\A q, r \in Hit : num[q] = num[r])
      /\ \A p \in D : <<p, num[p]>> \in H <=> p \in Hit
  OBVIOUS
<1> HIDE DEF f, H
<1>6. Lands(f, num, Hit, <<>>)
  <2> HIDE DEF Hit
  <2> QED
    BY <1>3, <1>5, WalkLands
<1>7. num[<<>>] = 0 /\ Beneath(<<>>) = D
  BY BeneathRoot DEF Numbers
<1>8. ASSUME NEW q \in D, num[q] = h PROVE Trie!NodeAt(h) = q
  <2>1. f[<<>>][0] = <<q, num[q]>>
    BY <1>6, <1>7, <1>8 DEF Lands
  <2> QED
    BY <1>4, <2>1
<1>9. ASSUME \A q \in D : num[q] # h PROVE Trie!NodeAt(h) = NoKey
  <2>1. f[<<>>][0] = <<NoKey, 0 + Cardinality(D)>>
    BY <1>6, <1>7, <1>9 DEF Lands
  <2> QED
    BY <1>4, <2>1
<1> QED
  BY <1>8, <1>9

(* The numbers are those of the view: one for each node. *)
LEMMA ViewNumbers ==
  ASSUME Sprouts(children), <<>> \in DOMAIN children, NEW num, Numbers(num)
  PROVE  /\ Cardinality(DOMAIN children) \in Nat
         /\ \A q \in DOMAIN children : /\ num[q] \in 0 .. Cardinality(DOMAIN children) - 1
                                       /\ Trie!NodeAt(num[q]) = q
         /\ \A i \in 0 .. Cardinality(DOMAIN children) - 1 :
              Trie!NodeAt(i) \in DOMAIN children /\ num[Trie!NodeAt(i)] = i
         /\ Trie!NodeAt(Cardinality(DOMAIN children)) = NoKey
<1> DEFINE D == DOMAIN children
           N == Cardinality(D)
           I == 0 .. N - 1
<1>1. N \in Nat /\ IsFiniteSet(D)
  BY DepthBound DEF Sprouts
<1>2. ASSUME NEW q \in D PROVE num[q] \in I /\ num[q] \in Nat
  <2>1. num[<<>>] = 0 /\ q \in Beneath(<<>>) /\ Beneath(<<>>) = D
    BY BeneathRoot DEF Numbers
  <2>2. num[q] \in Nat /\ num[q] < 0 + N
    BY <2>1, BeneathRange
  <2> HIDE DEF N
  <2> QED
    BY <1>1, <2>2
<1>3. ASSUME NEW q \in D PROVE Trie!NodeAt(num[q]) = q
  BY <1>2, NodeAtIs
<1> DEFINE g == [q \in D |-> num[q]]
<1>4. g \in Injection(D, I)
  <2>1. g \in [D -> I]
    BY <1>2
  <2>2. \A q, r \in D : g[q] = g[r] => q = r
    BY <1>3
  <2> QED
    BY <2>1, <2>2 DEF Injection, IsInjective
<1>5. IsFiniteSet(I) /\ Cardinality(I) = N
  <2> HIDE DEF N
  <2>1. IsFiniteSet(0 .. N - 1) /\ Cardinality(0 .. N - 1) = IF 0 > N - 1 THEN 0 ELSE N - 1 - 0 + 1
    BY <1>1, FS_Interval
  <2> QED
    BY <1>1, <2>1
<1>6. g \in Surjection(D, I)
  BY <1>4, <1>5, FS_Injection
<1>7. ASSUME NEW i \in I PROVE Trie!NodeAt(i) \in D /\ num[Trie!NodeAt(i)] = i
  <2>1. PICK q \in D : g[q] = i
    BY <1>6 DEF Surjection
  <2>2. num[q] = i
    BY <2>1
  <2> QED
    BY <1>3, <2>2
<1>8. Trie!NodeAt(N) = NoKey
  <2>1. \A q \in D : num[q] # N
    BY <1>1, <1>2
  <2> HIDE DEF N
  <2> QED
    BY <1>1, <2>1, NodeAtIs
<1> QED
  BY <1>1, <1>2, <1>3, <1>7, <1>8

LEMMA NeighborsAre ==
  ASSUME Sprouts(children), <<>> \in DOMAIN children, NEW num, Numbers(num),
         NEW p \in DOMAIN children
  PROVE  /\ DOMAIN Trie!Neighbors(num[p]) = 1 .. Len(children[p])
         /\ Len(Trie!Neighbors(num[p])) = Len(children[p])
         /\ \A s \in 1 .. Len(children[p]) : Trie!Neighbors(num[p])[s] = num[ChildAt(p, s)]
<1> DEFINE L == Len(children[p])
           nbr == [s \in 1 .. L |-> num[ChildAt(p, s)]]
<1>1. L \in Nat /\ \A s \in 1 .. L : ChildAt(p, s) \in DOMAIN children
  BY PartsAre
<1>2. Trie!NodeAt(num[p]) = p
  BY ViewNumbers
<1>3. \A s \in 1 .. L : Trie!IndexOf(ChildAt(p, s)) = num[ChildAt(p, s)]
  BY <1>1, IndexOfIs
<1>4. Trie!Neighbors(num[p]) = [s \in 1 .. L |-> Trie!IndexOf(ChildAt(p, s))]
  BY <1>2 DEF Trie!Neighbors, Trie!Occupied, ChildAt, Under
<1>5. Trie!Neighbors(num[p]) = nbr
  BY <1>3, <1>4
<1>6. nbr \in Seq(Nat) /\ DOMAIN nbr = 1 .. L /\ Len(nbr) = L
  <2>1. nbr \in [1 .. L -> Nat]
    BY <1>1 DEF Numbers
  <2> HIDE DEF nbr, L
  <2>2. nbr \in Seq(Nat)
    BY <1>1, <2>1, SeqDef
  <2> QED
    BY <1>1, <2>1, <2>2, LenProperties
<1> QED
  BY <1>5, <1>6

(* Where a number is found among the neighbours of another. *)
LEMMA ViewEdges ==
  ASSUME Sprouts(children), <<>> \in DOMAIN children, NEW num, Numbers(num),
         NEW p \in DOMAIN children, NEW q \in DOMAIN children
  PROVE  /\ \A s \in 1 .. Len(children[p]) :
              /\ num[ChildAt(p, s)] \in Nat /\ num[p] \in Nat /\ num[p] < num[ChildAt(p, s)]
              /\ s # 1 => num[ChildAt(p, s - 1)] < num[ChildAt(p, s)]
         /\ (\E s \in 1 .. Len(children[p]) : num[ChildAt(p, s)] = num[q])
              <=> q # <<>> /\ p = UptoOf(q, Len(q) - 1)
<1> DEFINE D == DOMAIN children
           L == Len(children[p])
<1>1. /\ L \in Nat /\ p \in Paths /\ q \in Paths
      /\ \A s \in 1 .. L : ChildAt(p, s) \in D /\ children[p][s] \in Char
  <2>1. p \in Paths /\ q \in Paths /\ children[p] \in Seq(Char)
    BY DEF Sprouts
  <2>2. L \in Nat /\ \A s \in 1 .. L : children[p][s] \in Char
    BY <2>1, LenProperties, ElementOfSeq
  <2>3. \A s \in 1 .. L : ChildAt(p, s) \in D
    BY PartsAre
  <2> QED
    BY <2>1, <2>2, <2>3
<1>2. ASSUME NEW s \in 1 .. L
      PROVE  /\ num[ChildAt(p, s)] \in Nat /\ num[p] \in Nat /\ num[p] < num[ChildAt(p, s)]
             /\ s # 1 => num[ChildAt(p, s - 1)] < num[ChildAt(p, s)]
  <2>1. s - 1 \in 0 .. L
    BY <1>1
  <2>2. num[ChildAt(p, s)] = num[p] + Cardinality(FirstOf(p, s - 1))
    BY DEF Numbers
  <2>3. p \in FirstOf(p, s - 1)
    BY DEF FirstOf
  <2>4. num[p] < num[ChildAt(p, s)]
    BY <2>1, <2>2, <2>3, SlotRange
  <2>5. ASSUME s # 1 PROVE num[ChildAt(p, s - 1)] < num[ChildAt(p, s)]
    <3>1. s - 1 \in 1 .. L
      BY <1>1, <2>5
    <3>2. ChildAt(p, s - 1) \in FirstOf(p, s - 1)
      <4>1. ChildAt(p, s - 1) \in D /\ FirstOf(p, s - 1) = FirstOf(p, s - 1 - 1) \cup Beneath(ChildAt(p, s - 1))
        BY <3>1, PartsAre
      <4>2. ChildAt(p, s - 1) \in Beneath(ChildAt(p, s - 1))
        BY <4>1, PartsAre
      <4> QED
        BY <4>1, <4>2
    <3> QED
      BY <2>1, <2>2, <3>2, SlotRange
  <2>6. num[p] \in Nat /\ num[ChildAt(p, s)] \in Nat
    BY <1>1 DEF Numbers
  <2> QED
    BY <2>4, <2>5, <2>6
<1>3. ASSUME NEW s \in 1 .. L, num[ChildAt(p, s)] = num[q]
      PROVE  q # <<>> /\ p = UptoOf(q, Len(q) - 1)
  <2>1. ChildAt(p, s) = q
    <3>1. ChildAt(p, s) \in D
      BY <1>1
    <3>2. Trie!NodeAt(num[ChildAt(p, s)]) = ChildAt(p, s) /\ Trie!NodeAt(num[q]) = q
      BY <3>1, ViewNumbers
    <3> QED
      BY <1>3, <3>2
  <2>2. q = Under(p, children[p][s])
    BY <2>1 DEF ChildAt
  <2>3. Len(q) = Len(p) + 1 /\ Len(p) \in Nat /\ UptoOf(q, Len(p)) = p
    BY <1>1, <2>2, AppendIs, AppendParts DEF Paths
  <2>4. Len(q) - 1 = Len(p) /\ Len(q) # 0
    BY <2>3
  <2> QED
    BY <2>3, <2>4
<1>4. ASSUME q # <<>>, p = UptoOf(q, Len(q) - 1)
      PROVE  \E s \in 1 .. L : num[ChildAt(p, s)] = num[q]
  <2>1. Len(q) \in Nat /\ Len(q) >= 1
    BY <1>1, <1>4 DEF Paths
  <2>2. Len(q) - 1 \in 0 .. Len(q) - 1 /\ Len(q) - 1 + 1 = Len(q) /\ UptoOf(q, Len(q)) = q
    BY <1>1, <2>1, UptoEnds
  <2>3. q[Len(q)] \in Char /\ Under(p, q[Len(q)]) = q
    BY <1>1, <1>4, <2>2, UptoStep
  <2>4. PICK s \in 1 .. L : children[p][s] = q[Len(q)]
    BY <1>1, <2>3, LinkedIs
  <2> QED
    BY <2>3, <2>4 DEF ChildAt
<1> QED
  BY <1>2, <1>3, <1>4

(* ViewIsTree of the nodes given, and of as many indexes. *)
ViewOf(nodes, count) ==
  LET indexes == 0 .. count - 1
      at == [i \in indexes |-> Trie!NodeAt(i)]
      next == [i \in indexes |-> Trie!Neighbors(i)]
      parents(j) == {i \in indexes : \E s \in DOMAIN next[i] : next[i][s] = j}
  IN  /\ \A i \in indexes : at[i] \in nodes /\ Trie!IndexOf(at[i]) = i
      /\ Trie!NodeAt(count) = NoKey
      /\ parents(0) = {}
      /\ \A j \in indexes \ {0} : \E i \in 0 .. j - 1 : parents(j) = {i}
      /\ \A i \in indexes : \A s \in 2 .. Len(next[i]) : next[i][s - 1] < next[i][s]

LEMMA ViewHolds ==
  ASSUME TrieInv
  PROVE  Trie!ViewIsTree
<1> SUFFICES ASSUME planted PROVE Trie!ViewIsTree
  BY DEF Trie!ViewIsTree
<1>1. Sprouts(children) /\ <<>> \in DOMAIN children
  BY DEF TrieInv, Grows
<1> DEFINE D == DOMAIN children
           N == Cardinality(D)
           I == 0 .. N - 1
           next == [i \in I |-> Trie!Neighbors(i)]
           parents(j) == {i \in I : \E s \in DOMAIN next[i] : next[i][s] = j}
<1>2. PICK num : Numbers(num)
  BY <1>1, NumbersExist
<1>3. /\ N \in Nat
      /\ \A q \in D : num[q] \in I /\ Trie!NodeAt(num[q]) = q
      /\ \A i \in I : Trie!NodeAt(i) \in D /\ num[Trie!NodeAt(i)] = i
      /\ Trie!NodeAt(N) = NoKey
  BY <1>1, <1>2, ViewNumbers
<1>4. Trie!Nodes = D /\ Trie!NodeCount = N
  BY TrieCardinality DEF Trie!Nodes, Trie!NodeCount
<1> HIDE DEF N
<1>5. ASSUME NEW i \in I
      PROVE  /\ Trie!NodeAt(i) \in D /\ Trie!IndexOf(Trie!NodeAt(i)) = i
             /\ DOMAIN next[i] = 1 .. Len(children[Trie!NodeAt(i)])
             /\ Len(next[i]) = Len(children[Trie!NodeAt(i)]) /\ Len(next[i]) \in Nat
             /\ \A s \in DOMAIN next[i] : next[i][s] = num[ChildAt(Trie!NodeAt(i), s)]
  <2> DEFINE p == Trie!NodeAt(i)
  <2>1. p \in D /\ num[p] = i
    BY <1>3
  <2>2. next[i] = Trie!Neighbors(num[p])
    BY <2>1
  <2>3. Trie!IndexOf(p) = i
    BY <1>1, <1>2, <2>1, IndexOfIs
  <2>4. Len(children[p]) \in Nat
    BY <1>1, <2>1, PartsAre
  <2> HIDE DEF p, next
  <2>5. /\ DOMAIN Trie!Neighbors(num[p]) = 1 .. Len(children[p])
        /\ Len(Trie!Neighbors(num[p])) = Len(children[p])
        /\ \A s \in 1 .. Len(children[p]) : Trie!Neighbors(num[p])[s] = num[ChildAt(p, s)]
    BY <1>1, <1>2, <2>1, NeighborsAre
  <2>6. /\ DOMAIN next[i] = 1 .. Len(children[p]) /\ Len(next[i]) = Len(children[p])
        /\ \A s \in DOMAIN next[i] : next[i][s] = num[ChildAt(p, s)]
    BY <2>2, <2>5
  <2> QED
    BY <2>1, <2>3, <2>4, <2>6 DEF p
<1>6. ASSUME NEW q \in D, NEW i \in I
      PROVE  i \in parents(num[q]) <=> q # <<>> /\ Trie!NodeAt(i) = UptoOf(q, Len(q) - 1)
  <2> DEFINE p == Trie!NodeAt(i)
  <2>1. /\ p \in D /\ DOMAIN next[i] = 1 .. Len(children[p])
        /\ \A s \in DOMAIN next[i] : next[i][s] = num[ChildAt(p, s)]
    BY <1>5
  <2>2. i \in parents(num[q]) <=> \E s \in DOMAIN next[i] : next[i][s] = num[q]
    OBVIOUS
  <2> HIDE DEF p, next, parents
  <2>3. i \in parents(num[q]) <=> \E s \in 1 .. Len(children[p]) : num[ChildAt(p, s)] = num[q]
    BY <2>1, <2>2
  <2>4. (\E s \in 1 .. Len(children[p]) : num[ChildAt(p, s)] = num[q])
           <=> q # <<>> /\ p = UptoOf(q, Len(q) - 1)
    BY <1>1, <1>2, <2>1, ViewEdges
  <2> QED
    BY <2>3, <2>4 DEF p
<1>7. \A j : parents(j) \subseteq I
  OBVIOUS
<1>8. parents(0) = {}
  <2>1. num[<<>>] = 0
    BY <1>2 DEF Numbers
  <2> HIDE DEF parents
  <2>2. \A i \in I : i \notin parents(0)
    BY <1>1, <1>6, <2>1
  <2> QED
    BY <1>7, <2>2
<1>9. ASSUME NEW j \in I \ {0} PROVE \E i \in 0 .. j - 1 : parents(j) = {i}
  <2> DEFINE q == Trie!NodeAt(j)
             p == UptoOf(q, Len(q) - 1)
             i == num[p]
  <2>1. q \in D /\ num[q] = j /\ j \in I /\ j # 0
    BY <1>3
  <2>2. q # <<>>
    BY <1>2, <2>1 DEF Numbers
  <2> HIDE DEF q
  <2>3. q \in Paths /\ Len(q) \in Nat /\ (\A l \in 0 .. Len(q) : UptoOf(q, l) \in D)
    BY <1>1, <2>1, PrefixesStay
  <2>4. Len(q) - 1 \in 0 .. Len(q)
    <3>1. Len(q) # 0
      BY <2>2, <2>3, EmptySeq DEF Paths
    <3> QED
      BY <2>3, <3>1
  <2>5. p \in D
    BY <2>3, <2>4
  <2>6. i \in I /\ Trie!NodeAt(i) = p
    BY <1>3, <2>5
  <2> HIDE DEF p, parents
  <2>7. i \in parents(j)
    BY <1>6, <2>1, <2>2, <2>6 DEF p
  <2>8. ASSUME NEW h \in parents(j) PROVE h = i
    <3>1. h \in I
      BY <1>7, <2>8
    <3>2. Trie!NodeAt(h) = p
      BY <1>6, <2>1, <2>8, <3>1 DEF p
    <3> QED
      BY <1>3, <3>1, <3>2
  <2>9. i < j
    <3>1. \E s \in 1 .. Len(children[p]) : num[ChildAt(p, s)] = num[q]
      BY <1>1, <1>2, <2>1, <2>2, <2>5, ViewEdges DEF p
    <3>2. PICK s \in 1 .. Len(children[p]) : num[ChildAt(p, s)] = j
      BY <2>1, <3>1
    <3>3. num[p] < num[ChildAt(p, s)]
      BY <1>1, <1>2, <2>1, <2>5, ViewEdges
    <3> QED
      BY <3>2, <3>3
  <2>10. i \in 0 .. j - 1
    BY <1>3, <2>1, <2>6, <2>9
  <2> HIDE DEF i
  <2>11. parents(j) = {i}
    BY <2>7, <2>8
  <2> QED
    BY <2>10, <2>11
<1>10. ASSUME NEW i \in I, NEW s \in 2 .. Len(next[i]) PROVE next[i][s - 1] < next[i][s]
  <2> DEFINE p == Trie!NodeAt(i)
  <2>1. /\ p \in D /\ Len(next[i]) = Len(children[p]) /\ Len(next[i]) \in Nat
        /\ DOMAIN next[i] = 1 .. Len(children[p])
        /\ \A l \in DOMAIN next[i] : next[i][l] = num[ChildAt(p, l)]
    BY <1>5
  <2> HIDE DEF p, next
  <2>2. s \in 1 .. Len(children[p]) /\ s - 1 \in 1 .. Len(children[p]) /\ s # 1
    BY <2>1
  <2>3. num[ChildAt(p, s - 1)] < num[ChildAt(p, s)]
    BY <1>1, <1>2, <2>1, <2>2, ViewEdges
  <2> QED
    BY <2>1, <2>2, <2>3
<1>11. \A i \in I : Trie!NodeAt(i) \in D /\ Trie!IndexOf(Trie!NodeAt(i)) = i
  BY <1>5
<1> DEFINE at == [i \in I |-> Trie!NodeAt(i)]
<1>12. \A i \in I : at[i] \in D /\ Trie!IndexOf(at[i]) = i
  BY <1>11
<1>13. /\ \A i \in I : at[i] \in D /\ Trie!IndexOf(at[i]) = i
       /\ Trie!NodeAt(N) = NoKey
       /\ parents(0) = {}
       /\ \A j \in I \ {0} : \E i \in 0 .. j - 1 : parents(j) = {i}
       /\ \A i \in I : \A s \in 2 .. Len(next[i]) : next[i][s - 1] < next[i][s]
  BY <1>3, <1>8, <1>9, <1>10, <1>12
<1>14. ViewOf(D, N)
  BY <1>13 DEF ViewOf
<1>15. ViewOf(Trie!Nodes, Trie!NodeCount) => Trie!ViewIsTree
  BY DEF Trie!ViewIsTree, ViewOf
<1> QED
  BY <1>4, <1>14, <1>15

(* The trie: its child links agree with its nodes and every node hangs     *)
(* from one slot, size counts the stored keys, nothing leaks, no branch is *)
(* left without a stored key, and the two walks of the GraphView adapter   *)
(* number the nodes of a tree in pre-order, each the inverse of the other; *)
(* for every set of keys and every size of memory.                         *)
THEOREM TrieStaysWellFormed == TreesSpec => []TrieWellFormed
<1>1. TrieInv => TrieWellFormed
  BY TrieHolds, ViewHolds DEF TrieWellFormed
<1> QED
  BY <1>1, TreesKeepTrie, PTL
==============================================================================
