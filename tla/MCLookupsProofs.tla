--------------------------- MODULE MCLookupsProofs ---------------------------
(***************************************************************************)
(* The two structures of module MCLookups are in order in every state of   *)
(* every call and keep their promises, for sets and tables of every size.  *)
(*                                                                         *)
(* First the forest of module UnionFind, whose names MCLookups shares.     *)
(* RootOf is defined by recursion over the links.  The first part proves,  *)
(* by least counterexamples, that the recursion has a solution, that it    *)
(* climbs to a root, and that a function that is constant along the links  *)
(* and fixed on the roots is RootOf: so what a step does to RootOf is seen *)
(* from one candidate for its new value.  The same serves to count the     *)
(* groups, which a rank never outgrows.                                    *)
(*                                                                         *)
(* Then the hash table.  Every entry gets a label, the chain it is to be   *)
(* in; links and heads agree with the labels, no entry is linked to twice, *)
(* and a set that holds the heads and that no link leads out of is the     *)
(* whole heap.  Linking an entry, unlinking one and giving the chains      *)
(* other names preserve that, and every step of the table is made of       *)
(* these three.                                                            *)
(***************************************************************************)
EXTENDS MCLookups, Arithmetic, FiniteSetTheorems

(* Ancestor as a function of the links alone, and its recursion up to n. *)
Climb(p, c) ==
  CHOOSE f : f = [k \in 0 .. c |->
                    [x \in 0 .. c - 1 |-> IF k = 0 THEN x ELSE p[f[k - 1][x]]]]

Unfolds(f, p, c, n) ==
  f = [k \in 0 .. n |-> [x \in 0 .. c - 1 |-> IF k = 0 THEN x ELSE p[f[k - 1][x]]]]

Top(p, c, x) == Climb(p, c)[c][x]

LEMMA ClimbExists ==
  ASSUME NEW c \in Nat, NEW p, NEW n \in Nat
  PROVE  \E f : Unfolds(f, p, c, n)
<1> DEFINE S == {m \in 0 .. n : \E f : Unfolds(f, p, c, m)}
<1>1. 0 \in S
  <2> DEFINE f == [k \in 0 .. 0 |-> [x \in 0 .. c - 1 |-> x]]
  <2>1. \A k \in 0 .. 0 : [x \in 0 .. c - 1 |-> x]
                          = [x \in 0 .. c - 1 |-> IF k = 0 THEN x ELSE p[f[k - 1][x]]]
    OBVIOUS
  <2>2. f = [k \in 0 .. 0 |-> [x \in 0 .. c - 1 |-> IF k = 0 THEN x ELSE p[f[k - 1][x]]]]
    BY <2>1
  <2> HIDE DEF f
  <2>3. Unfolds(f, p, c, 0)
    BY <2>2 DEF Unfolds
  <2> QED
    BY <2>3
<1>2. ASSUME NEW m \in 1 .. n, m - 1 \in S
      PROVE  m \in S
  <2>1. PICK f : Unfolds(f, p, c, m - 1)
    BY <1>2
  <2> DEFINE g == [k \in 0 .. m |-> IF k = m THEN [x \in 0 .. c - 1 |-> p[f[m - 1][x]]] ELSE f[k]]
  <2>2. ASSUME NEW k \in 0 .. m
        PROVE  g[k] = [x \in 0 .. c - 1 |-> IF k = 0 THEN x ELSE p[g[k - 1][x]]]
    <3>1. CASE k = m
      <4>1. k # 0 /\ m - 1 \in 0 .. m /\ m - 1 # m
        BY <3>1
      <4>2. g[m - 1] = f[m - 1]
        BY <4>1
      <4> QED
        BY <3>1, <4>1, <4>2
    <3>2. CASE k # m
      <4>1. k \in 0 .. m - 1
        BY <3>2
      <4>2. g[k] = f[k]
        BY <3>2
      <4>3. f[k] = [x \in 0 .. c - 1 |-> IF k = 0 THEN x ELSE p[f[k - 1][x]]]
        BY <2>1, <4>1 DEF Unfolds
      <4>4. k # 0 => g[k - 1] = f[k - 1]
        BY <4>1
      <4> QED
        BY <4>2, <4>3, <4>4
    <3> QED
      BY <3>1, <3>2
  <2>3. g = [k \in 0 .. m |-> g[k]]
    OBVIOUS
  <2> HIDE DEF g
  <2>4. Unfolds(g, p, c, m)
    BY <2>2, <2>3 DEF Unfolds
  <2>5. m \in 0 .. n
    OBVIOUS
  <2> QED
    BY <2>4, <2>5
<1> HIDE DEF S
<1>3. \A m \in 0 .. n : m \in S
  BY <1>1, <1>2, Upward
<1>4. n \in S
  BY <1>3
<1> QED
  BY <1>4 DEF S

(* A row of f follows each link once more than the row before it.          *)
Links(f, p, c) ==
  /\ \A x \in 0 .. c - 1 : f[0][x] = x
  /\ \A k \in 1 .. c, x \in 0 .. c - 1 : f[k][x] = p[f[k - 1][x]]

LEMMA ClimbSteps ==
  ASSUME NEW c \in Nat, NEW p
  PROVE  Links(Climb(p, c), p, c)
<1> DEFINE f == Climb(p, c)
<1>1. Unfolds(f, p, c, c)
  <2>1. \E h : Unfolds(h, p, c, c)
    BY ClimbExists
  <2>2. f = CHOOSE h : Unfolds(h, p, c, c)
    BY DEF Climb, Unfolds
  <2> QED
    BY <2>1, <2>2
<1> HIDE DEF f
<1>2. \A k \in 0 .. c, x \in 0 .. c - 1 : f[k][x] = IF k = 0 THEN x ELSE p[f[k - 1][x]]
  BY <1>1 DEF Unfolds
<1>3. 0 \in 0 .. c /\ \A k \in 1 .. c : k \in 0 .. c /\ k # 0
  OBVIOUS
<1>4. \A x \in 0 .. c - 1 : f[0][x] = x
  BY <1>2, <1>3
<1>5. \A k \in 1 .. c, x \in 0 .. c - 1 : f[k][x] = p[f[k - 1][x]]
  BY <1>2, <1>3
<1> QED
  BY <1>4, <1>5 DEF f, Links

(* Where the climb has come to after k links. *)
LEMMA Climbs ==
  ASSUME NEW c \in Nat, NEW p \in [0 .. c - 1 -> 0 .. c - 1], NEW r \in [0 .. c - 1 -> Nat],
         \A x \in 0 .. c - 1 : p[x] # x => r[x] < r[p[x]],
         NEW k \in 0 .. c, NEW x \in 0 .. c - 1
  PROVE  LET y == Climb(p, c)[k][x]
         IN  /\ y \in 0 .. c - 1
             /\ y = x \/ r[x] < r[y]
             /\ p[x] = x => y = x
             /\ p[y] = y \/ r[y] >= k
             /\ Climb(p, c)[k][p[x]] = p[y]
<1> DEFINE f == Climb(p, c)
<1>0. Links(f, p, c)
  BY ClimbSteps
<1> HIDE DEF f
<1>1. /\ \A z \in 0 .. c - 1 : f[0][z] = z
      /\ \A j \in 1 .. c, z \in 0 .. c - 1 : f[j][z] = p[f[j - 1][z]]
  BY <1>0 DEF Links
<1> DEFINE Good(j, z) == /\ f[j][z] \in 0 .. c - 1
                         /\ f[j][z] = z \/ r[z] < r[f[j][z]]
                         /\ p[z] = z => f[j][z] = z
                         /\ p[f[j][z]] = f[j][z] \/ r[f[j][z]] >= j
                         /\ f[j][p[z]] = p[f[j][z]]
           S == {j \in 0 .. c : \A z \in 0 .. c - 1 : Good(j, z)}
<1>2. 0 \in S
  <2>1. 0 \in 0 .. c /\ \A z \in 0 .. c - 1 : r[z] \in Nat /\ p[z] \in 0 .. c - 1
    OBVIOUS
  <2>2. \A z \in 0 .. c - 1 : f[0][z] = z /\ f[0][p[z]] = p[z] /\ r[z] >= 0
    BY SMTT(30), <1>1, <2>1
  <2> QED
    BY <2>1, <2>2
<1>3. ASSUME NEW j \in 1 .. c, j - 1 \in S
      PROVE  j \in S
  <2> SUFFICES ASSUME NEW z \in 0 .. c - 1
               PROVE  Good(j, z)
    OBVIOUS
  <2>1. Good(j - 1, z) /\ p[z] \in 0 .. c - 1
    BY <1>3
  <2> DEFINE y == f[j - 1][z]
  <2>2. /\ y \in 0 .. c - 1 /\ p[y] \in 0 .. c - 1
        /\ y = z \/ r[z] < r[y]
        /\ p[z] = z => y = z
        /\ p[y] = y \/ r[y] >= j - 1
        /\ f[j - 1][p[z]] = p[y]
        /\ p[y] # y => r[y] < r[p[y]]
        /\ r[z] \in Nat /\ r[y] \in Nat /\ r[p[y]] \in Nat
    BY <2>1
  <2>3. f[j][z] = p[y] /\ f[j][p[z]] = p[p[y]]
    <3>1. f[j][z] = p[f[j - 1][z]] /\ f[j][p[z]] = p[f[j - 1][p[z]]]
      BY <1>1, <2>1
    <3> QED
      BY <3>1, <2>2
  <2> HIDE DEF y
  <2>4. p[y] = z \/ r[z] < r[p[y]]
    <3>1. CASE p[y] = y
      <4>1. y = z \/ r[z] < r[y]
        BY <2>2
      <4> QED
        BY <3>1, <4>1
    <3>2. CASE p[y] # y
      <4>1. r[y] < r[p[y]] /\ (y = z \/ r[z] < r[y])
        BY <2>2, <3>2
      <4>2. r[z] \in Nat /\ r[y] \in Nat /\ r[p[y]] \in Nat
        BY <2>2
      <4> QED
        BY <4>1, <4>2
    <3> QED
      BY <3>1, <3>2
  <2>5. p[p[y]] = p[y] \/ r[p[y]] >= j
    <3>1. CASE p[y] = y
      BY <3>1
    <3>2. CASE p[y] # y
      <4>1. r[y] >= j - 1 /\ r[y] < r[p[y]]
        BY <2>2, <3>2
      <4> QED
        BY <4>1, <2>2
    <3> QED
      BY <3>1, <3>2
  <2> QED
    BY <2>2, <2>3, <2>4, <2>5
<1> HIDE DEF S
<1>4. k \in S
  BY <1>2, <1>3, Upward
<1> QED
  BY <1>4 DEF S, f

(* A forest whose ranks increase along the links and stay below c.         *)
Climbable(p, c, r) ==
  /\ p \in [0 .. c - 1 -> 0 .. c - 1] /\ r \in [0 .. c - 1 -> Nat]
  /\ \A x \in 0 .. c - 1 : p[x] # x => r[x] < r[p[x]]
  /\ \A x \in 0 .. c - 1 : r[x] < c

LEMMA TopIsRoot ==
  ASSUME NEW c \in Nat, NEW p, NEW r, Climbable(p, c, r), NEW x \in 0 .. c - 1
  PROVE  /\ Top(p, c, x) \in 0 .. c - 1
         /\ p[Top(p, c, x)] = Top(p, c, x)
         /\ Top(p, c, p[x]) = Top(p, c, x)
         /\ p[x] = x => Top(p, c, x) = x
         /\ x # Top(p, c, x) => r[x] < r[Top(p, c, x)]
<1> DEFINE y == Climb(p, c)[c][x]
<1>1. c \in 0 .. c
  OBVIOUS
<1>2. /\ y \in 0 .. c - 1
      /\ y = x \/ r[x] < r[y]
      /\ p[x] = x => y = x
      /\ p[y] = y \/ r[y] >= c
      /\ Climb(p, c)[c][p[x]] = p[y]
  BY ZenonT(60), <1>1, Climbs DEF Climbable
<1> HIDE DEF y
<1>3. r[y] < c /\ r[y] \in Nat
  BY <1>2 DEF Climbable
<1>4. p[y] = y
  BY <1>2, <1>3
<1>5. y = Top(p, c, x) /\ Top(p, c, p[x]) = Climb(p, c)[c][p[x]]
  BY DEF y, Top
<1> QED
  BY <1>2, <1>4, <1>5

(* What is constant along the links and fixed on the roots is the root.    *)
LEMMA OneLabelling ==
  ASSUME NEW c \in Nat, NEW p, NEW r, Climbable(p, c, r), NEW L,
         \A x \in 0 .. c - 1 : L[p[x]] = L[x] /\ (p[x] = x => L[x] = x),
         NEW x \in 0 .. c - 1
  PROVE  Top(p, c, x) = L[x]
<1> DEFINE f == Climb(p, c)
           S == {j \in 0 .. c : L[f[j][x]] = L[x]}
<1>1. /\ f[0][x] = x
      /\ \A j \in 1 .. c : f[j][x] = p[f[j - 1][x]]
      /\ \A j \in 0 .. c : f[j][x] \in 0 .. c - 1
  <2>1. \A j \in 0 .. c : f[j][x] \in 0 .. c - 1
    BY Climbs DEF Climbable
  <2>2. Links(f, p, c)
    BY ClimbSteps
  <2> HIDE DEF f
  <2> QED
    BY <2>1, <2>2 DEF Links
<1> HIDE DEF f
<1>2. 0 \in S
  BY <1>1
<1>3. ASSUME NEW j \in 1 .. c, j - 1 \in S
      PROVE  j \in S
  <2>1. j - 1 \in 0 .. c /\ j \in 0 .. c
    OBVIOUS
  <2>2. f[j - 1][x] \in 0 .. c - 1 /\ L[f[j - 1][x]] = L[x] /\ f[j][x] = p[f[j - 1][x]]
    BY <1>1, <1>3, <2>1
  <2> QED
    BY <2>1, <2>2
<1> HIDE DEF S
<1>4. c \in S
  <2>1. \A j \in 0 .. c : j \in S
    BY <1>2, <1>3, Upward
  <2> QED
    BY <2>1
<1>5. L[Top(p, c, x)] = L[x]
  BY <1>4 DEF S, f, Top
<1>6. Top(p, c, x) \in 0 .. c - 1 /\ p[Top(p, c, x)] = Top(p, c, x)
  BY TopIsRoot
<1> QED
  BY <1>5, <1>6

(* What a relinking of find, and the link of a union, do to the roots.     *)
LEMMA RelinkKeepsTop ==
  ASSUME NEW c \in Nat, NEW p, NEW r, Climbable(p, c, r), NEW i \in 0 .. c - 1, p[i] # i
  PROVE  LET q == [p EXCEPT ![i] = Top(p, c, i)]
         IN  Climbable(q, c, r) /\ \A x \in 0 .. c - 1 : Top(q, c, x) = Top(p, c, x)
<1> DEFINE t == Top(p, c, i)
           q == [p EXCEPT ![i] = t]
           L == [x \in 0 .. c - 1 |-> Top(p, c, x)]
<1>1. t \in 0 .. c - 1 /\ p[t] = t /\ i # t /\ r[i] < r[t] /\ Top(p, c, t) = t
  <2>1. t \in 0 .. c - 1 /\ p[t] = t /\ (i # t => r[i] < r[t])
    BY TopIsRoot
  <2>2. Top(p, c, t) = t
    BY <2>1, TopIsRoot
  <2> QED
    BY <2>1, <2>2
<1> HIDE DEF t
<1>2. /\ q \in [0 .. c - 1 -> 0 .. c - 1]
      /\ \A x \in 0 .. c - 1 : q[x] = IF x = i THEN t ELSE p[x]
  BY <1>1 DEF Climbable
<1> HIDE DEF q
<1>3. Climbable(q, c, r)
  BY <1>1, <1>2 DEF Climbable
<1>4. ASSUME NEW x \in 0 .. c - 1
      PROVE  L[q[x]] = L[x] /\ (q[x] = x => L[x] = x)
  <2>1. p[x] \in 0 .. c - 1 /\ Top(p, c, p[x]) = Top(p, c, x) /\ (p[x] = x => Top(p, c, x) = x)
    BY ZenonT(60), TopIsRoot DEF Climbable
  <2>2. L[x] = Top(p, c, x) /\ L[p[x]] = Top(p, c, p[x]) /\ L[t] = t
    BY <1>1, <2>1
  <2>3. L[i] = t
    BY DEF t
  <2> HIDE DEF L
  <2>4. CASE x = i
    BY <1>1, <1>2, <2>2, <2>3, <2>4
  <2>5. CASE x # i
    BY <1>2, <2>1, <2>2, <2>5
  <2> QED
    BY <2>4, <2>5
<1>5. ASSUME NEW x \in 0 .. c - 1
      PROVE  Top(q, c, x) = Top(p, c, x)
  <2> HIDE DEF L
  <2>1. Top(q, c, x) = L[x]
    BY <1>3, <1>4, OneLabelling
  <2> QED
    BY <2>1 DEF L
<1> QED
  BY <1>3, <1>5 DEF q, t

LEMMA LinkMovesTop ==
  ASSUME NEW c \in Nat, NEW p, NEW r, Climbable(p, c, r),
         NEW w \in 0 .. c - 1, NEW l \in 0 .. c - 1, p[w] = w, p[l] = l, w # l,
         NEW q, \A z \in 0 .. c - 1 : q[z] = IF z = l THEN w ELSE p[z],
         NEW s, Climbable(q, c, s),
         NEW x \in 0 .. c - 1
  PROVE  Top(q, c, x) = IF Top(p, c, x) = l THEN w ELSE Top(p, c, x)
<1> DEFINE L == [z \in 0 .. c - 1 |-> IF Top(p, c, z) = l THEN w ELSE Top(p, c, z)]
<1>1. Top(p, c, w) = w /\ Top(p, c, l) = l
  BY TopIsRoot
<1>2. ASSUME NEW z \in 0 .. c - 1
      PROVE  L[q[z]] = L[z] /\ (q[z] = z => L[z] = z)
  <2>1. p[z] \in 0 .. c - 1 /\ Top(p, c, p[z]) = Top(p, c, z) /\ (p[z] = z => Top(p, c, z) = z)
    <3>1. p[z] \in 0 .. c - 1
      BY DEF Climbable
    <3>2. Climbable(p, c, r)
      OBVIOUS
    <3> QED
      BY <3>1, <3>2, TopIsRoot
  <2>2. L[l] = w /\ L[w] = w /\ L[p[z]] = L[z] /\ (p[z] = z /\ z # l => L[z] = z)
    BY <1>1, <2>1
  <2> HIDE DEF L
  <2> QED
    BY <1>1, <2>2
<1>3. Top(q, c, x) = L[x]
  <2> HIDE DEF L
  <2> QED
    BY <1>2, OneLabelling
<1> QED
  BY <1>3

------------------------------------------------------------------------------
Rep(x) == Top(parents, capacity, x)

(* A union costs a group and raises the highest rank by one at most, so    *)
(* no rank reaches the number of elements.                                 *)
RanksBounded == \A x \in Elements : groups > 0 /\ ranks[x] + groups <= capacity

CallHolds ==
  pc # "idle" =>
    /\ call.op \in {"find", "union", "connected"}
    /\ call.a \in Elements /\ call.b \in Elements
    /\ index \in Elements /\ root \in Elements
    /\ call.second => /\ firstRoot \in Elements
                      /\ parents[firstRoot] = firstRoot
                      /\ Rep(call.a) = firstRoot

(* The walk goes up towards the root of its element; the second pass goes  *)
(* up the same path and found that root.                                   *)
WalkHolds ==
  pc = "walk" => root \in {index, parents[index]} /\ Rep(index) = Rep(Element)

CompressHolds ==
  pc = "compress" =>
    /\ found = root /\ parents[root] = root
    /\ Rep(index) = root /\ Rep(Element) = root

IndInv ==
  /\ TypeOK
  /\ RanksIncrease /\ RanksBounded
  /\ GroupsCountRoots
  /\ CallHolds /\ WalkHolds /\ CompressHolds
  /\ FindCompresses

(* The facts of a state that every step uses.                              *)
LEMMA Facts ==
  ASSUME IndInv
  PROVE  /\ capacity \in Nat /\ capacity <= MaxElements
         /\ Climbable(parents, capacity, ranks)
         /\ \A x \in Elements : /\ parents[x] \in Elements
                                /\ Rep(x) \in Elements
                                /\ parents[Rep(x)] = Rep(x)
                                /\ Rep(parents[x]) = Rep(x)
                                /\ parents[x] = x => Rep(x) = x
<1>1. capacity \in Nat /\ capacity <= MaxElements
  BY ElementsAssumption DEF IndInv, TypeOK
<1>2. Climbable(parents, capacity, ranks)
  <2>1. \A x \in 0 .. capacity - 1 : ranks[x] < capacity
    BY <1>1 DEF IndInv, TypeOK, RanksBounded, Elements
  <2> QED
    BY <2>1 DEF IndInv, TypeOK, RanksIncrease, Elements, Climbable
<1> QED
  BY ZenonT(60), <1>1, <1>2, TopIsRoot DEF Rep, Elements, Climbable

LEMMA InitIndInv == Init => IndInv
<1> SUFFICES ASSUME Init PROVE IndInv
  OBVIOUS
<1>1. Elements = {} /\ capacity = 0 /\ 0 \in Nat /\ 0 \in 0 .. MaxElements
  BY ElementsAssumption DEF Init, Elements
<1>2. TypeOK
  BY <1>1 DEF Init, NoElements, NoCall, TypeOK
<1>3. GroupsCountRoots
  <2>1. Roots = {}
    BY <1>1 DEF Roots
  <2> QED
    BY <2>1, FS_EmptySet DEF Init, GroupsCountRoots
<1> QED
  BY <1>1, <1>2, <1>3 DEF Init, IndInv, RanksIncrease, RanksBounded,
     CallHolds, WalkHolds, CompressHolds, FindCompresses

------------------------------------------------------------------------------
LEMMA CreateKeepsInv ==
  ASSUME IndInv, NEW count \in 0 .. MaxElements, Create(count)
  PROVE  IndInv'
<1>1. /\ count \in Nat /\ capacity' = count /\ Elements' = 0 .. count - 1
      /\ \A x \in 0 .. count - 1 : x \in Nat /\ parents'[x] = x /\ ranks'[x] = 0
  BY ElementsAssumption DEF Create, Elements
<1>2. TypeOK'
  <2>1. parents' \in [Elements' -> Elements'] /\ ranks' \in [Elements' -> Nat]
    BY <1>1 DEF Create
  <2>2. /\ live' \in BOOLEAN /\ capacity' \in 0 .. MaxElements /\ groups' \in Nat
        /\ pc' \in {"idle", "walk", "compress"}
        /\ reply' \in [op : {"none", "create", "destroy", "find", "union", "connected"},
                       ok : BOOLEAN,
                       rep : Nat \cup {Untouched},
                       flag : BOOLEAN \cup {Untouched}]
    BY <1>1 DEF Create, Answer
  <2> QED
    BY <2>1, <2>2 DEF IndInv, TypeOK, Create, locals
<1>3. GroupsCountRoots'
  <2>1. Roots' = 0 .. count - 1
    BY <1>1 DEF Roots
  <2>2. Cardinality(0 .. count - 1) = count
    BY <1>1, FS_Interval
  <2> QED
    BY <2>1, <2>2 DEF GroupsCountRoots, Create
<1>4. RanksBounded' /\ RanksIncrease'
  BY <1>1 DEF RanksBounded, RanksIncrease, Create
<1> QED
  BY <1>2, <1>3, <1>4 DEF IndInv, Create, CallHolds, WalkHolds, CompressHolds, FindCompresses

LEMMA DestroyKeepsInv ==
  ASSUME IndInv, Destroy
  PROVE  IndInv'
<1>1. Elements' = {} /\ 0 \in Nat /\ 0 \in 0 .. MaxElements
  BY ElementsAssumption DEF Destroy, Elements
<1>2. TypeOK'
  BY <1>1 DEF IndInv, TypeOK, Destroy, NoElements, locals, Answer
<1>3. Roots' = {}
  BY <1>1 DEF Roots
<1> QED
  BY <1>1, <1>2, <1>3, FS_EmptySet DEF IndInv, Destroy, GroupsCountRoots, RanksIncrease,
     RanksBounded, CallHolds, WalkHolds, CompressHolds, FindCompresses

(* The parts of the invariant that a step keeps that leaves the forest.    *)
LEMMA SameForest ==
  ASSUME IndInv, UNCHANGED forest
  PROVE  /\ RanksIncrease' /\ RanksBounded' /\ GroupsCountRoots'
         /\ Elements' = Elements /\ parents' = parents
         /\ \A x : Rep(x)' = Rep(x)
BY DEF IndInv, forest, RanksIncrease, RanksBounded, GroupsCountRoots, Roots, Elements, Rep

LEMMA RefuseKeepsInv ==
  ASSUME IndInv, NEW op \in {"create", "find", "union", "connected"}, Refuse(op)
  PROVE  IndInv'
<1>1. UNCHANGED forest
  BY DEF Refuse
<1>2. TypeOK'
  BY DEF IndInv, TypeOK, Refuse, forest, locals, Answer, Elements
<1> QED
  BY <1>1, <1>2, SameForest DEF IndInv, Refuse, CallHolds, WalkHolds, CompressHolds, FindCompresses

LEMMA BeginKeepsInv ==
  ASSUME IndInv, NEW op \in {"find", "union", "connected"},
         NEW x \in Elements, NEW y \in Elements, Begin(op, x, y)
  PROVE  IndInv'
<1>1. /\ UNCHANGED forest /\ pc' = "walk" /\ index' = x /\ root' = x
      /\ call' = [op |-> op, a |-> x, b |-> y, second |-> FALSE]
  BY DEF Begin, StartFind
<1>2. x \in Nat /\ y \in Nat
  BY Facts DEF Elements
<1>3. TypeOK'
  <2>1. call' \in [op : {"none", "find", "union", "connected"},
                   a : Nat, b : Nat, second : BOOLEAN]
    BY <1>1, <1>2
  <2>2. pc' \in {"idle", "walk", "compress"} /\ index' \in Nat /\ root' \in Nat
    BY <1>1, <1>2
  <2> QED
    BY <2>1, <2>2 DEF IndInv, TypeOK, Begin, forest, Elements
<1>4. CallHolds' /\ WalkHolds'
  BY <1>1, SameForest DEF CallHolds, WalkHolds, Element
<1> QED
  BY <1>1, <1>3, <1>4, SameForest DEF IndInv, CompressHolds, FindCompresses

LEMMA WalkKeepsInv ==
  ASSUME IndInv, Walk
  PROVE  IndInv'
<1>1. UNCHANGED forest /\ pc = "walk" /\ pc' = "walk" /\ call' = call /\ firstRoot' = firstRoot
  BY DEF Walk
<1>2. /\ index \in Elements /\ parents[index] \in Elements
      /\ parents[parents[index]] \in Elements
      /\ Rep(parents[index]) = Rep(Element)
  BY <1>1, Facts DEF IndInv, CallHolds, WalkHolds
<1>3. TypeOK'
  <2>1. parents[index] \in Nat /\ parents[parents[index]] \in Nat
    BY <1>2, Facts DEF Elements
  <2> QED
    BY <2>1, <1>1 DEF IndInv, TypeOK, Walk, forest, Elements
<1>4. CallHolds' /\ WalkHolds'
  BY <1>1, <1>2, SameForest DEF IndInv, CallHolds, WalkHolds, Walk, Element
<1> QED
  BY <1>1, <1>3, <1>4, SameForest DEF IndInv, CompressHolds, FindCompresses

LEMMA WalkEndsKeepsInv ==
  ASSUME IndInv, WalkEnds
  PROVE  IndInv'
<1>1. /\ UNCHANGED forest /\ pc = "walk" /\ pc' = "compress" /\ call' = call
      /\ firstRoot' = firstRoot /\ root' = root /\ index' = Element /\ found' = parents[index]
      /\ index = parents[index]
  BY DEF WalkEnds
<1>2. /\ index \in Elements /\ Element \in Elements
      /\ root = index /\ Rep(index) = index /\ Rep(Element) = index
  <2>1. index \in Elements /\ Element \in Elements /\ root = index /\ Rep(index) = Rep(Element)
    BY <1>1 DEF IndInv, CallHolds, WalkHolds, Element
  <2> QED
    BY <1>1, <2>1, Facts
<1>3. TypeOK'
  <2>1. parents[index] \in Nat /\ Element \in Nat
    BY <1>1, <1>2, Facts DEF Elements
  <2> QED
    BY <2>1, <1>1 DEF IndInv, TypeOK, WalkEnds, forest, Elements
<1>4. Element' = Element
  BY <1>1 DEF Element
<1>5. CallHolds' /\ CompressHolds' /\ FindCompresses'
  BY <1>1, <1>2, <1>4, SameForest DEF IndInv, CallHolds, CompressHolds, FindCompresses
<1> QED
  BY <1>1, <1>3, <1>5, SameForest DEF IndInv, WalkHolds

(* A relinking changes no representative.                                  *)
LEMMA CompressKeepsRep ==
  ASSUME IndInv, Compress
  PROVE  /\ capacity' = capacity /\ ranks' = ranks
         /\ index \in Elements /\ root \in Elements /\ index # root
         /\ parents' = [parents EXCEPT ![index] = root]
         /\ Climbable(parents', capacity, ranks)
         /\ \A x \in Elements : Rep(x)' = Rep(x)
<1>1. /\ capacity' = capacity /\ ranks' = ranks /\ parents[index] # index
      /\ index \in Elements /\ root \in Elements /\ parents[root] = root
      /\ parents' = [parents EXCEPT ![index] = root]
      /\ Top(parents, capacity, index) = root
  BY DEF IndInv, CallHolds, CompressHolds, Compress, Rep
<1>2. /\ Climbable(parents', capacity, ranks)
      /\ \A x \in 0 .. capacity - 1 : Top(parents', capacity, x) = Top(parents, capacity, x)
  <2>1. capacity \in Nat /\ Climbable(parents, capacity, ranks) /\ index \in 0 .. capacity - 1
    BY <1>1, Facts DEF Elements
  <2> DEFINE q == [parents EXCEPT ![index] = Top(parents, capacity, index)]
  <2>2. Climbable(q, capacity, ranks)
        /\ \A x \in 0 .. capacity - 1 : Top(q, capacity, x) = Top(parents, capacity, x)
    BY <1>1, <2>1, RelinkKeepsTop
  <2>3. parents' = q
    BY <1>1
  <2> QED
    BY <2>2, <2>3
<1> QED
  BY <1>1, <1>2 DEF Rep, Elements

LEMMA CompressKeepsInv ==
  ASSUME IndInv, Compress
  PROVE  IndInv'
<1>1. /\ pc = "compress" /\ pc' = pc /\ call' = call /\ root' = root /\ found' = found
      /\ firstRoot' = firstRoot /\ groups' = groups /\ index' = parents[index]
      /\ parents[index] # index
  BY DEF Compress
<1>2. Elements' = Elements /\ Element' = Element
  BY <1>1, CompressKeepsRep DEF Elements, Element
<1>3. /\ index \in Elements /\ root \in Elements /\ parents[index] \in Elements
      /\ Element \in Elements /\ found = root /\ parents[root] = root
      /\ Rep(index) = root /\ Rep(parents[index]) = root /\ Rep(Element) = root
  <2>1. /\ index \in Elements /\ root \in Elements /\ Element \in Elements
        /\ found = root /\ parents[root] = root /\ Rep(index) = root /\ Rep(Element) = root
    BY <1>1 DEF IndInv, CallHolds, CompressHolds, Element
  <2> QED
    BY <2>1, Facts
<1>4. \A x \in Elements : parents'[x] = IF x = index THEN root ELSE parents[x]
  BY CompressKeepsRep DEF IndInv, TypeOK
<1>5. TypeOK'
  <2>1. parents' \in [Elements -> Elements]
    BY <1>3, CompressKeepsRep DEF IndInv, TypeOK
  <2>2. parents[index] \in Nat
    BY <1>3, Facts DEF Elements
  <2> QED
    BY <2>1, <2>2, <1>1, <1>2 DEF IndInv, TypeOK, Compress
<1>6. RanksIncrease'
  BY <1>2, CompressKeepsRep DEF RanksIncrease, Climbable, Elements
<1>7. RanksBounded'
  BY <1>1, <1>2, CompressKeepsRep DEF IndInv, RanksBounded
<1>8. GroupsCountRoots'
  <2>1. Roots' = Roots
    BY <1>1, <1>2, <1>4, CompressKeepsRep DEF Roots
  <2> QED
    BY <2>1, <1>1 DEF IndInv, GroupsCountRoots
<1>9. CallHolds'
  <2>1. ASSUME call.second
        PROVE  firstRoot \in Elements /\ parents'[firstRoot] = firstRoot /\ Rep(call.a)' = firstRoot
    <3>1. /\ firstRoot \in Elements /\ call.a \in Elements
          /\ parents[firstRoot] = firstRoot /\ Rep(call.a) = firstRoot
      BY <1>1, <2>1 DEF IndInv, CallHolds
    <3>2. firstRoot # index
      BY <1>1, <3>1
    <3> QED
      BY <3>1, <3>2, <1>1, <1>4, CompressKeepsRep
  <2> QED
    BY <2>1, <1>1, <1>2, <1>3 DEF IndInv, CallHolds, Rep
<1>10. CompressHolds'
  <2>1. parents'[root] = root
    BY <1>3, <1>4
  <2>2. \A x \in Elements : Top(parents', capacity', x) = Rep(x)
    BY CompressKeepsRep DEF Rep
  <2>3. Top(parents', capacity', index') = root /\ Top(parents', capacity', Element') = root
    BY <1>1, <1>2, <1>3, <2>2
  <2> QED
    BY <2>1, <2>3, <1>1, <1>2, <1>3 DEF CompressHolds, Rep
<1>11. FindCompresses'
  BY <1>1, <1>2, <1>3, <1>4 DEF IndInv, FindCompresses
<1> QED
  BY <1>1, <1>5, <1>6, <1>7, <1>8, <1>9, <1>10, <1>11 DEF IndInv, WalkHolds

LEMMA FindReturnsKeepsInv ==
  ASSUME IndInv, Return, UNCHANGED forest,
         reply' \in [op : {"find", "union", "connected"}, ok : BOOLEAN,
                     rep : Nat \cup {Untouched}, flag : BOOLEAN \cup {Untouched}]
  PROVE  IndInv'
<1>1. TypeOK'
  <2>1. reply' \in [op : {"none", "create", "destroy", "find", "union", "connected"}, ok : BOOLEAN,
                    rep : Nat \cup {Untouched}, flag : BOOLEAN \cup {Untouched}]
    OBVIOUS
  <2> QED
    BY <2>1 DEF IndInv, TypeOK, Return, NoCall, forest, Elements
<1>2. pc' = "idle"
  BY DEF Return
<1> QED
  BY <1>1, <1>2, SameForest DEF IndInv, CallHolds, WalkHolds, CompressHolds, FindCompresses

(* What a find has when its second pass ends.                              *)
LEMMA FindIsDone ==
  ASSUME IndInv, CompressDone
  PROVE  /\ Element \in Elements
         /\ found = root /\ root \in Elements /\ parents[root] = root /\ Rep(Element) = found
BY DEF IndInv, CompressDone, CallHolds, CompressHolds, Element

LEMMA FirstFoundKeepsInv ==
  ASSUME IndInv, FirstFound
  PROVE  IndInv'
<1>1. /\ UNCHANGED forest /\ pc' = "walk" /\ index' = call.b /\ root' = call.b
      /\ firstRoot' = found /\ found' = found /\ reply' = reply
      /\ call' = [call EXCEPT !.second = TRUE] /\ ~call.second
  BY DEF FirstFound, StartFind
<1>2. call \in [op : {"none", "find", "union", "connected"}, a : Nat, b : Nat, second : BOOLEAN]
  BY DEF IndInv, TypeOK
<1>3. /\ call'.op = call.op /\ call'.a = call.a /\ call'.b = call.b /\ call'.second
      /\ call' \in [op : {"none", "find", "union", "connected"}, a : Nat, b : Nat, second : BOOLEAN]
  BY <1>1, <1>2
<1>4. /\ call.op \in {"find", "union", "connected"} /\ call.a \in Elements /\ call.b \in Elements
      /\ found \in Elements /\ parents[found] = found /\ Rep(call.a) = found
  <2>1. pc # "idle" /\ Element = call.a
    BY <1>1 DEF FirstFound, CompressDone, Element
  <2> QED
    BY <2>1, FindIsDone DEF IndInv, CallHolds, FirstFound
<1>5. TypeOK'
  BY <1>1, <1>2, <1>3 DEF IndInv, TypeOK, forest, Elements
<1>6. CallHolds' /\ WalkHolds'
  BY <1>1, <1>3, <1>4, SameForest DEF CallHolds, WalkHolds, Element
<1> QED
  BY <1>1, <1>5, <1>6, SameForest DEF IndInv, CompressHolds, FindCompresses

(* The two roots of a union, and what linking them does.                   *)
LEMMA LinkJoins ==
  ASSUME IndInv, Link
  PROVE  \E winner, loser \in Elements :
           /\ {winner, loser} = {firstRoot, found} /\ winner # loser
           /\ parents[winner] = winner /\ parents[loser] = loser
           /\ Rep(call.a) = firstRoot /\ Rep(call.b) = found
           /\ call.a \in Elements /\ call.b \in Elements
           /\ capacity' = capacity /\ groups' = groups - 1
           /\ parents' \in [Elements -> Elements]
           /\ \A x \in Elements : parents'[x] = IF x = loser THEN winner ELSE parents[x]
           /\ ranks[loser] <= ranks[winner]
           /\ ranks' \in [Elements -> Nat]
           /\ \A x \in Elements :
                ranks'[x] = IF x = winner /\ ranks[loser] = ranks[winner] THEN ranks[x] + 1 ELSE ranks[x]
<1>1. /\ firstRoot \in Elements /\ found \in Elements /\ firstRoot # found
      /\ parents[firstRoot] = firstRoot /\ parents[found] = found
      /\ Rep(call.a) = firstRoot /\ Rep(call.b) = found
      /\ call.a \in Elements /\ call.b \in Elements
  <2>1. pc # "idle" /\ call.second /\ Element = call.b /\ CompressDone /\ firstRoot # found
    BY DEF Link, BothFound, CompressDone, Element
  <2> QED
    BY <2>1, FindIsDone DEF IndInv, CallHolds
<1>2. ranks[firstRoot] \in Nat /\ ranks[found] \in Nat
  BY <1>1 DEF IndInv, TypeOK
<1> DEFINE Under(winner, loser) ==
             /\ parents' \in [Elements -> Elements]
             /\ \A x \in Elements : parents'[x] = IF x = loser THEN winner ELSE parents[x]
           Raised(winner, loser) ==
             /\ ranks' \in [Elements -> Nat]
             /\ \A x \in Elements :
                  ranks'[x] = IF x = winner /\ ranks[loser] = ranks[winner]
                              THEN ranks[x] + 1 ELSE ranks[x]
<1>3. capacity' = capacity /\ groups' = groups - 1
  BY DEF Link
<1>4. CASE ranks[firstRoot] < ranks[found]
  <2>1. ranks[firstRoot] # ranks[found] /\ ranks[firstRoot] <= ranks[found]
    BY <1>2, <1>4
  <2>2. Under(found, firstRoot) /\ Raised(found, firstRoot)
    BY <1>1, <1>4, <2>1 DEF Link, IndInv, TypeOK
  <2> QED
    BY <1>1, <1>3, <2>1, <2>2
<1>5. CASE ~(ranks[firstRoot] < ranks[found])
  <2>1. ranks[found] <= ranks[firstRoot]
    BY <1>2, <1>5
  <2>2. Under(firstRoot, found)
    BY <1>1, <1>5 DEF Link, IndInv, TypeOK
  <2>3. Raised(firstRoot, found)
    <3>1. ranks \in [Elements -> Nat]
      BY DEF IndInv, TypeOK
    <3>2. CASE ranks[firstRoot] = ranks[found]
      <4>1. ranks' = [ranks EXCEPT ![firstRoot] = ranks[firstRoot] + 1]
            /\ ranks[firstRoot] + 1 \in Nat
        BY <1>2, <3>2 DEF Link
      <4> QED
        BY <1>1, <3>1, <3>2, <4>1
    <3>3. CASE ranks[firstRoot] # ranks[found]
      BY <3>1, <3>3 DEF Link
    <3> QED
      BY <3>2, <3>3
  <2> QED
    BY <1>1, <1>3, <2>1, <2>2, <2>3
<1> QED
  BY <1>4, <1>5

(* The link moves the loser's group under the winner, and nothing else.    *)
LEMMA LinkMoves ==
  ASSUME IndInv, NEW winner \in Elements, NEW loser \in Elements, winner # loser,
         parents[winner] = winner, parents[loser] = loser,
         capacity' = capacity, groups' = groups - 1,
         parents' \in [Elements -> Elements],
         \A x \in Elements : parents'[x] = IF x = loser THEN winner ELSE parents[x],
         ranks[loser] <= ranks[winner],
         ranks' \in [Elements -> Nat],
         \A x \in Elements :
           ranks'[x] = IF x = winner /\ ranks[loser] = ranks[winner] THEN ranks[x] + 1 ELSE ranks[x]
  PROVE  /\ RanksIncrease' /\ RanksBounded' /\ GroupsCountRoots'
         /\ parents' \in [Elements -> Elements] /\ ranks' \in [Elements -> Nat]
         /\ groups' \in Nat
         /\ \A x \in Elements : Rep(x)' = IF Rep(x) = loser THEN winner ELSE Rep(x)
<1>1. /\ Elements' = Elements /\ capacity \in Nat /\ groups \in Nat
      /\ parents \in [Elements -> Elements] /\ ranks \in [Elements -> Nat]
      /\ \A x \in Elements : parents[x] # x => ranks[x] < ranks[parents[x]]
      /\ \A x \in Elements : groups > 0 /\ ranks[x] + groups <= capacity
  BY Facts DEF IndInv, TypeOK, RanksIncrease, RanksBounded, Elements
<1>2. /\ parents' \in [Elements -> Elements]
      /\ \A x \in Elements : parents'[x] = IF x = loser THEN winner ELSE parents[x]
  BY <1>1
<1>3. /\ ranks'[loser] < ranks'[winner]
      /\ \A x \in Elements : /\ ranks[x] <= ranks'[x] /\ ranks'[x] <= ranks[x] + 1
                             /\ x # winner => ranks'[x] = ranks[x]
  <2>1. \A x \in Elements : ranks[x] \in Nat
    BY <1>1
  <2> QED
    BY <2>1
<1>4. RanksIncrease'
  <2> SUFFICES ASSUME NEW x \in Elements, parents'[x] # x
               PROVE  ranks'[x] < ranks'[parents'[x]]
    BY <1>1 DEF RanksIncrease
  <2>1. CASE x = loser
    BY <1>2, <1>3, <2>1
  <2>2. CASE x # loser
    <3>1. /\ parents'[x] = parents[x] /\ parents[x] # x /\ parents[x] \in Elements
          /\ x # winner
      BY <1>1, <1>2, <2>2
    <3>2. ranks[x] < ranks[parents[x]] /\ ranks'[x] = ranks[x]
          /\ ranks[parents[x]] <= ranks'[parents[x]]
      BY <1>1, <1>3, <3>1
    <3>3. ranks[x] \in Nat /\ ranks[parents[x]] \in Nat /\ ranks'[parents[x]] \in Nat
      BY <1>1, <1>3, <3>1
    <3> QED
      BY <3>1, <3>2, <3>3
  <2> QED
    BY <2>1, <2>2
<1>5. /\ Roots' = Roots \ {loser} /\ loser \in Roots /\ winner \in Roots'
  BY <1>1, <1>2 DEF Roots
<1>6. IsFiniteSet(Roots)
  <2>1. IsFiniteSet(Elements)
    BY <1>1, FS_Interval DEF Elements
  <2> QED
    BY <2>1, FS_Subset DEF Roots
<1>7. GroupsCountRoots' /\ groups' \in Nat \ {0}
  <2>1. IsFiniteSet(Roots \ {loser}) /\ Cardinality(Roots \ {loser}) = Cardinality(Roots) - 1
    BY <1>5, <1>6, FS_RemoveElement
  <2>2. groups' = Cardinality(Roots')
    BY <1>5, <2>1 DEF IndInv, GroupsCountRoots
  <2>3. Cardinality(Roots') \in Nat /\ Cardinality(Roots') # 0
    BY <1>5, <2>1, FS_CardinalityType, FS_EmptySet
  <2> QED
    BY <2>2, <2>3 DEF GroupsCountRoots
<1>8. RanksBounded'
  <2> SUFFICES ASSUME NEW x \in Elements
               PROVE  groups' > 0 /\ ranks'[x] + groups' <= capacity'
    BY <1>1 DEF RanksBounded
  <2>1. ranks[x] \in Nat /\ ranks'[x] \in Nat /\ ranks'[x] <= ranks[x] + 1
        /\ ranks[x] + groups <= capacity
    BY <1>1, <1>3
  <2> QED
    BY <1>1, <1>7, <2>1
<1>9. ASSUME NEW x \in Elements
      PROVE  Rep(x)' = IF Rep(x) = loser THEN winner ELSE Rep(x)
  <2>1. Climbable(parents', capacity, ranks')
    <3>1. \A y \in Elements : ranks'[y] < capacity
      <4> TAKE y \in Elements
      <4>1. ranks'[y] + groups' <= capacity' /\ ranks'[y] \in Nat
        BY <1>1, <1>3, <1>8 DEF RanksBounded
      <4> QED
        BY <1>1, <1>7, <4>1
    <3> QED
      BY <3>1, <1>1, <1>2, <1>3, <1>4 DEF Climbable, RanksIncrease, Elements
  <2>2. Climbable(parents, capacity, ranks) /\ capacity \in Nat
    BY Facts
  <2>3. /\ winner \in 0 .. capacity - 1 /\ loser \in 0 .. capacity - 1 /\ x \in 0 .. capacity - 1
        /\ \A z \in 0 .. capacity - 1 : parents'[z] = IF z = loser THEN winner ELSE parents[z]
    BY DEF Elements
  <2>4. Top(parents', capacity, x)
        = IF Top(parents, capacity, x) = loser THEN winner ELSE Top(parents, capacity, x)
    BY <2>1, <2>2, <2>3, LinkMovesTop
  <2>5. Rep(x)' = Top(parents', capacity, x)
    BY DEF Rep
  <2> QED
    BY <2>4, <2>5 DEF Rep
<1> QED
  BY <1>2, <1>3, <1>4, <1>7, <1>8, <1>9

LEMMA LinkKeepsInv ==
  ASSUME IndInv, Link
  PROVE  IndInv'
<1>1. PICK winner \in Elements, loser \in Elements :
        /\ winner # loser
        /\ parents[winner] = winner /\ parents[loser] = loser
        /\ capacity' = capacity /\ groups' = groups - 1
        /\ parents' \in [Elements -> Elements]
        /\ \A x \in Elements : parents'[x] = IF x = loser THEN winner ELSE parents[x]
        /\ ranks[loser] <= ranks[winner]
        /\ ranks' \in [Elements -> Nat]
        /\ \A x \in Elements :
             ranks'[x] = IF x = winner /\ ranks[loser] = ranks[winner] THEN ranks[x] + 1 ELSE ranks[x]
  BY LinkJoins
<1>2. /\ RanksIncrease' /\ RanksBounded' /\ GroupsCountRoots'
      /\ parents' \in [Elements -> Elements] /\ ranks' \in [Elements -> Nat]
      /\ groups' \in Nat
  BY <1>1, LinkMoves
<1>3. Elements' = Elements /\ pc' = "idle"
  BY <1>1 DEF Elements, Link, Return
<1>4. TypeOK'
  <2>1. reply' \in [op : {"none", "create", "destroy", "find", "union", "connected"}, ok : BOOLEAN,
                    rep : Nat \cup {Untouched}, flag : BOOLEAN \cup {Untouched}]
    BY DEF Link, Answer
  <2>2. call' \in [op : {"none", "find", "union", "connected"},
                   a : Nat, b : Nat, second : BOOLEAN]
    BY DEF Link, Return, NoCall
  <2> QED
    BY <1>2, <1>3, <2>1, <2>2 DEF IndInv, TypeOK, Link, Return
<1> QED
  BY <1>2, <1>3, <1>4 DEF IndInv, CallHolds, WalkHolds, CompressHolds, FindCompresses

LEMMA StepKeepsInv ==
  ASSUME IndInv, Step
  PROVE  IndInv'
<1>1. CASE Walk
  BY <1>1, WalkKeepsInv
<1>2. CASE WalkEnds
  BY <1>2, WalkEndsKeepsInv
<1>3. CASE Compress
  BY <1>3, CompressKeepsInv
<1>4. CASE FindReturns
  <2>1. found \in Nat
    BY DEF IndInv, TypeOK
  <2> QED
    BY <1>4, <2>1, FindReturnsKeepsInv DEF FindReturns, Answer
<1>5. CASE FirstFound
  BY <1>5, FirstFoundKeepsInv
<1>6. CASE ConnectedReturns
  BY <1>6, FindReturnsKeepsInv DEF ConnectedReturns, Answer
<1>7. CASE SameGroup
  BY <1>7, FindReturnsKeepsInv DEF SameGroup, Answer
<1>8. CASE Link
  BY <1>8, LinkKeepsInv
<1> QED
  BY <1>1, <1>2, <1>3, <1>4, <1>5, <1>6, <1>7, <1>8 DEF Step

LEMMA NextKeepsInv ==
  ASSUME IndInv, [Next]_vars
  PROVE  IndInv'
<1>1. ASSUME NEW count \in 0 .. MaxElements, Create(count) PROVE IndInv'
  BY <1>1, CreateKeepsInv
<1>2. CASE Destroy
  BY <1>2, DestroyKeepsInv
<1>3. ASSUME NEW op \in {"create", "find", "union", "connected"}, Refuse(op) PROVE IndInv'
  BY <1>3, RefuseKeepsInv
<1>4. ASSUME NEW x \in Elements, Begin("find", x, x) PROVE IndInv'
  BY <1>4, BeginKeepsInv
<1>5. ASSUME NEW op \in {"union", "connected"}, NEW x \in Elements, NEW y \in Elements,
             Begin(op, x, y)
      PROVE  IndInv'
  BY <1>5, BeginKeepsInv
<1>6. CASE Step
  BY <1>6, StepKeepsInv
<1>7. CASE UNCHANGED vars
  <2>1. UNCHANGED forest /\ UNCHANGED <<pc, call, index, root, found, firstRoot, reply>>
    BY <1>7 DEF vars, locals
  <2> QED
    BY <2>1, SameForest DEF forest, IndInv, TypeOK, CallHolds, WalkHolds, CompressHolds,
       FindCompresses, Element, Elements, Rep
<1> QED
  BY <1>1, <1>2, <1>3, <1>4, <1>5, <1>6, <1>7 DEF Next

LEMMA Inductive == Spec => []IndInv
<1>1. Init => IndInv
  BY InitIndInv
<1>2. IndInv /\ [Next]_vars => IndInv'
  BY NextKeepsInv
<1> QED
  BY <1>1, <1>2, PTL DEF Spec

(* The forest is in order in every state of every call, on sets of every   *)
(* size: types, ranks that increase along the links, a count of the groups *)
(* and a compressed path behind the second pass of find.                   *)
THEOREM ForestCorrect == Spec => []WellFormed
<1>1. IndInv => WellFormed
  BY DEF IndInv, WellFormed
<1> QED
  BY <1>1, Inductive, PTL

------------------------------------------------------------------------------
(* The groups as the caller sees them.                                     *)
Label == [x \in Elements |-> RootOf(x)]

LEMMA RootOfIsRep == \A x : RootOf(x) = Rep(x) /\ RootOf(x)' = Rep(x)'
<1>1. \A x : RootOf(x) = Rep(x)
  BY DEF RootOf, Ancestor, Rep, Top, Climb, Elements
<1>2. \A x : RootOf(x)' = Rep(x)'
  BY DEF RootOf, Ancestor, Rep, Top, Climb, Elements
<1> QED
  BY <1>1, <1>2

LEMMA LabelMeans ==
  /\ DOMAIN Label = Elements /\ \A x \in Elements : Label[x] = Rep(x)
  /\ Label' = [x \in Elements' |-> Rep(x)']
<1>1. Label = [x \in Elements |-> Rep(x)]
  BY RootOfIsRep DEF Label
<1>2. Label' = [x \in Elements' |-> Rep(x)']
  BY RootOfIsRep DEF Label
<1> QED
  BY <1>1, <1>2

LEMMA LabelStays ==
  ASSUME Elements' = Elements, \A x \in Elements : Rep(x)' = Rep(x)
  PROVE  Label' = Label
<1>1. Label = [x \in Elements |-> Rep(x)]
  BY RootOfIsRep DEF Label
<1> QED
  BY <1>1, LabelMeans

LEMMA InitMaps == Init => Promise!Init
<1> SUFFICES ASSUME Init PROVE Promise!Init
  OBVIOUS
<1>1. Elements = {}
  BY DEF Init, Elements
<1>2. [x \in Elements |-> RootOf(x)] = [x \in {} |-> x]
  BY <1>1
<1> QED
  BY <1>2 DEF Init, Promise!Init, Promise!Answer

LEMMA CreateMaps ==
  ASSUME IndInv, NEW count \in 0 .. MaxElements, Create(count)
  PROVE  Promise!Next
<1>1. /\ Elements' = 0 .. count - 1
      /\ \A x \in Elements' : parents'[x] = x
  BY DEF Create, Elements
<1>2. \A x \in Elements' : Rep(x)' = x
  <2> SUFFICES ASSUME NEW x \in Elements' PROVE Rep(x)' = x
    OBVIOUS
  <2>1. Climbable(parents', count, ranks') /\ count \in Nat /\ capacity' = count
    BY ElementsAssumption DEF Create, Climbable
  <2>2. x \in 0 .. count - 1 /\ parents'[x] = x
    BY <1>1
  <2>3. Top(parents', count, x) = x
    BY <2>1, <2>2, TopIsRoot
  <2> QED
    BY <2>1, <2>3 DEF Rep
<1>3. Label' = [x \in 0 .. count - 1 |-> x]
  BY <1>1, <1>2, LabelMeans
<1>4. Promise!Create(count)
  BY <1>3 DEF Create, Answer, Label, Promise!Create, Promise!Answer
<1> QED
  BY <1>4 DEF Promise!Next

LEMMA DestroyMaps ==
  ASSUME IndInv, Destroy
  PROVE  Promise!Next
<1>1. Elements' = {}
  BY DEF Destroy, Elements
<1>2. Label' = [x \in {} |-> x]
  BY <1>1, LabelMeans
<1>3. Promise!Destroy
  BY <1>2 DEF Destroy, Answer, Label, Promise!Destroy, Promise!Answer
<1> QED
  BY <1>3 DEF Promise!Next

(* A step that leaves the forest leaves the groups, and so does Compress.  *)
LEMMA SameForestSameLabel ==
  ASSUME IndInv, UNCHANGED forest
  PROVE  Label' = Label
BY SameForest, LabelStays

LEMMA RefuseMaps ==
  ASSUME IndInv, NEW op \in {"create", "find", "union", "connected"}, Refuse(op)
  PROVE  Promise!Next
<1>1. UNCHANGED forest /\ reply' = [op |-> op, ok |-> FALSE, rep |-> Untouched, flag |-> Untouched]
  BY DEF Refuse, Answer
<1>2. Promise!Refuse(op)
  BY <1>1, SameForestSameLabel DEF Label, Promise!Refuse, Promise!Answer
<1> QED
  BY <1>2 DEF Promise!Next

(* The steps inside a call are not seen.                                   *)
LEMMA Unseen ==
  ASSUME IndInv, UNCHANGED reply,
         \/ UNCHANGED forest
         \/ Compress
  PROVE  UNCHANGED Promise!vars
<1>1. Label' = Label
  <2>1. CASE UNCHANGED forest
    BY <2>1, SameForestSameLabel
  <2>2. CASE Compress
    <3>1. Elements' = Elements
      BY <2>2, CompressKeepsRep DEF Elements
    <3> QED
      BY <2>2, <3>1, CompressKeepsRep, LabelStays
  <2> QED
    BY <2>1, <2>2
<1> QED
  BY <1>1 DEF Label, Promise!vars

(* What union and connected have when both finds have returned.            *)
LEMMA BothRoots ==
  ASSUME IndInv, NEW op, BothFound(op)
  PROVE  /\ call.a \in DOMAIN Label /\ call.b \in DOMAIN Label
         /\ Label[call.a] = firstRoot /\ Label[call.b] = found
<1>1. pc # "idle" /\ call.second /\ Element = call.b /\ CompressDone
  BY DEF BothFound, CompressDone, Element
<1> QED
  BY <1>1, FindIsDone, LabelMeans DEF IndInv, CallHolds

LEMMA FindMaps ==
  ASSUME IndInv, FindReturns
  PROVE  Promise!Next
<1>1. UNCHANGED forest /\ reply' = [op |-> "find", ok |-> TRUE, rep |-> found, flag |-> Untouched]
      /\ CompressDone
  BY DEF FindReturns, Answer
<1>2. Element \in DOMAIN Label /\ Label[Element] = found
  BY <1>1, FindIsDone, LabelMeans
<1>3. Promise!Find(Element)
  BY <1>1, <1>2, SameForestSameLabel DEF Label, Promise!Find, Promise!Answer
<1> QED
  BY <1>2, <1>3 DEF Promise!Next, Promise!Elements, Label

LEMMA ConnectedMaps ==
  ASSUME IndInv, ConnectedReturns
  PROVE  Promise!Next
<1>1. /\ UNCHANGED forest /\ BothFound("connected")
      /\ reply' = [op |-> "connected", ok |-> TRUE, rep |-> Untouched, flag |-> firstRoot = found]
  BY DEF ConnectedReturns, Answer
<1>2. Promise!Connected(call.a, call.b)
  BY <1>1, BothRoots, SameForestSameLabel DEF Label, Promise!Connected, Promise!Answer
<1>3. call.a \in Promise!Elements /\ call.b \in Promise!Elements
  BY <1>1, BothRoots DEF Promise!Elements, Label
<1> QED
  BY <1>2, <1>3 DEF Promise!Next

LEMMA SameGroupMaps ==
  ASSUME IndInv, SameGroup
  PROVE  Promise!Next
<1>1. /\ UNCHANGED forest /\ BothFound("union") /\ firstRoot = found
      /\ reply' = [op |-> "union", ok |-> TRUE, rep |-> Untouched, flag |-> FALSE]
  BY DEF SameGroup, Answer
<1>2. Promise!AlreadyOne(call.a, call.b)
  BY <1>1, BothRoots, SameForestSameLabel DEF Label, Promise!AlreadyOne, Promise!Answer
<1>3. call.a \in Promise!Elements /\ call.b \in Promise!Elements
  BY <1>1, BothRoots DEF Promise!Elements, Label
<1> QED
  BY <1>2, <1>3 DEF Promise!Next

LEMMA LinkMaps ==
  ASSUME IndInv, Link
  PROVE  Promise!Next
<1>1. PICK winner \in Elements, loser \in Elements :
        /\ {winner, loser} = {firstRoot, found} /\ winner # loser
        /\ parents[winner] = winner /\ parents[loser] = loser
        /\ capacity' = capacity /\ groups' = groups - 1
        /\ parents' \in [Elements -> Elements]
        /\ \A x \in Elements : parents'[x] = IF x = loser THEN winner ELSE parents[x]
        /\ ranks[loser] <= ranks[winner]
        /\ ranks' \in [Elements -> Nat]
        /\ \A x \in Elements :
             ranks'[x] = IF x = winner /\ ranks[loser] = ranks[winner] THEN ranks[x] + 1 ELSE ranks[x]
  BY LinkJoins
<1>2. /\ BothFound("union") /\ firstRoot # found
      /\ reply' = [op |-> "union", ok |-> TRUE, rep |-> Untouched, flag |-> TRUE]
  BY DEF Link, Answer
<1>3. /\ call.a \in DOMAIN Label /\ call.b \in DOMAIN Label
      /\ Label[call.a] = firstRoot /\ Label[call.b] = found
  BY <1>2, BothRoots
<1>4. \A x \in Elements : Rep(x)' = IF Rep(x) = loser THEN winner ELSE Rep(x)
  BY <1>1, LinkMoves
<1>5. Label' = [z \in DOMAIN Label |->
                  IF Label[z] \in {firstRoot, found} THEN winner ELSE Label[z]]
  <2>1. Elements' = Elements
    BY <1>1 DEF Elements
  <2>2. \A z \in Elements : Rep(z)' = IF Label[z] \in {firstRoot, found} THEN winner ELSE Label[z]
    BY <1>1, <1>4, LabelMeans
  <2> QED
    BY <2>1, <2>2, LabelMeans
<1>6. Promise!Merge(call.a, call.b)
  <2>1. winner \in {firstRoot, found}
    BY <1>1
  <2> QED
    BY <2>1, <1>2, <1>3, <1>5 DEF Label, Promise!Merge, Promise!Answer, Promise!Elements
<1>7. call.a \in Promise!Elements /\ call.b \in Promise!Elements
  BY <1>3 DEF Promise!Elements, Label
<1> QED
  BY <1>6, <1>7 DEF Promise!Next

LEMMA NextMaps ==
  ASSUME IndInv, [Next]_vars
  PROVE  [Promise!Next]_(Promise!vars)
<1>1. ASSUME NEW count \in 0 .. MaxElements, Create(count) PROVE Promise!Next
  BY <1>1, CreateMaps
<1>2. CASE Destroy
  BY <1>2, DestroyMaps
<1>3. ASSUME NEW op \in {"create", "find", "union", "connected"}, Refuse(op) PROVE Promise!Next
  BY <1>3, RefuseMaps
<1>4. ASSUME NEW op, NEW x, NEW y, Begin(op, x, y) PROVE UNCHANGED Promise!vars
  BY <1>4, Unseen DEF Begin
<1>5. CASE Step
  <2>1. CASE Walk \/ WalkEnds \/ Compress \/ FirstFound
    <3>1. UNCHANGED reply /\ (UNCHANGED forest \/ Compress)
      BY <2>1 DEF Walk, WalkEnds, Compress, FirstFound
    <3> QED
      BY <3>1, Unseen
  <2>2. CASE FindReturns
    BY <2>2, FindMaps
  <2>3. CASE ConnectedReturns
    BY <2>3, ConnectedMaps
  <2>4. CASE SameGroup
    BY <2>4, SameGroupMaps
  <2>5. CASE Link
    BY <2>5, LinkMaps
  <2> QED
    BY <1>5, <2>1, <2>2, <2>3, <2>4, <2>5 DEF Step
<1>6. CASE UNCHANGED vars
  BY <1>6, Unseen DEF vars
<1> QED
  BY <1>1, <1>2, <1>3, <1>4, <1>5, <1>6 DEF Next

(* The forest is a partition to its caller: compression changes no answer, *)
(* an effective union merges the two groups of its elements and no other,  *)
(* and a union inside one group changes nothing.                           *)
THEOREM PartitionImplemented == Spec => ImplementsPartition
<1>1. Init => Promise!Init
  BY InitMaps
<1>2. IndInv /\ [Next]_vars => [Promise!Next]_(Promise!vars)
  BY NextMaps
<1> QED
  BY <1>1, <1>2, Inductive, PTL DEF Spec, ImplementsPartition, Promise!Spec

------------------------------------------------------------------------------
(* The size of the groups.                                                 *)
LEMMA TwoToDoubles ==
  /\ TwoTo[0] = 1
  /\ \A n \in 0 .. MaxElements : TwoTo[n] \in Nat
  /\ \A n \in 1 .. MaxElements : TwoTo[n] = 2 * TwoTo[n - 1]
<1> DEFINE double == [n \in 1 .. MaxElements |-> [v \in Nat |-> 2 * v]]
           Powers(f) == f = [n \in 0 .. MaxElements |-> IF n = 0 THEN 1 ELSE 2 * f[n - 1]]
<1>1. MaxElements \in Nat
  BY ElementsAssumption
<1>2. \E f \in [0 .. MaxElements -> Nat] : Recurs(f, MaxElements, 1, double)
  <2>1. double \in [1 .. MaxElements -> [Nat -> Nat]] /\ 1 \in Nat
    OBVIOUS
  <2> HIDE DEF double
  <2> QED
    BY <1>1, <2>1, RecursionExists
<1>3. PICK f \in [0 .. MaxElements -> Nat] : Recurs(f, MaxElements, 1, double)
  BY <1>2
<1>4. f[0] = 1 /\ \A n \in 1 .. MaxElements : f[n] = 2 * f[n - 1]
  <2>1. \A n \in 1 .. MaxElements : n - 1 \in 0 .. MaxElements /\ f[n - 1] \in Nat
    BY <1>1
  <2> QED
    BY <1>3, <2>1 DEF Recurs
<1>5. Powers(f)
  <2>1. \A n \in 0 .. MaxElements : f[n] = IF n = 0 THEN 1 ELSE 2 * f[n - 1]
    BY <1>1, <1>4
  <2> QED
    BY <2>1
<1>6. TwoTo = CHOOSE g : Powers(g)
  BY DEF TwoTo
<1>7. Powers(TwoTo)
  <2> HIDE DEF Powers
  <2> QED
    BY <1>5, <1>6
<1>8. \A n \in 0 .. MaxElements : TwoTo[n] = IF n = 0 THEN 1 ELSE 2 * TwoTo[n - 1]
  BY <1>7
<1> DEFINE S == {n \in 0 .. MaxElements : TwoTo[n] \in Nat}
<1>9. 0 \in S /\ \A n \in 1 .. MaxElements : n - 1 \in S => n \in S
  BY <1>1, <1>8
<1>10. \A n \in 0 .. MaxElements : n \in S
  <2> HIDE DEF S
  <2> QED
    BY <1>1, <1>9, Upward
<1> QED
  BY <1>1, <1>8, <1>10

Group(r) == {x \in Elements : Rep(x) = r}

LEMMA RankMeans ==
  RankIsLogarithmic <=> \A r \in Roots : TwoTo[ranks[r]] <= Cardinality(Group(r))
<1>1. \A r : {x \in Elements : RootOf(x) = r} = Group(r)
  BY RootOfIsRep DEF Group
<1> QED
  BY <1>1 DEF RankIsLogarithmic

LEMMA RankMeansNext ==
  RankIsLogarithmic' <=> \A r \in Roots' : TwoTo[ranks'[r]] <= Cardinality(Group(r)')
<1>1. \A r : {x \in Elements' : RootOf(x)' = r} = Group(r)'
  BY RootOfIsRep DEF Group
<1> QED
  BY <1>1 DEF RankIsLogarithmic

LEMMA RootsStandAlone == IndInv => \A x \in Elements : parents[x] = x => Rep(x) = x
BY Facts

LEMMA RootsStandAloneNext == IndInv' => \A x \in Elements' : parents'[x] = x => Rep(x)' = x
<1>1. (IndInv => \A x \in Elements : parents[x] = x => Rep(x) = x)'
  BY RootsStandAlone, PTL
<1> QED
  BY <1>1

LEMMA CreateKeepsRank ==
  ASSUME IndInv, NEW count \in 0 .. MaxElements, Create(count)
  PROVE  RankIsLogarithmic'
<1>1. /\ capacity' = count /\ Elements' = 0 .. count - 1
      /\ \A x \in Elements' : parents'[x] = x /\ ranks'[x] = 0
  BY DEF Create, Elements
<1>2. SUFFICES ASSUME NEW r \in Roots' PROVE TwoTo[ranks'[r]] <= Cardinality(Group(r)')
  BY RankMeansNext
<1>3. r \in Elements'
  BY <1>2 DEF Roots
<1>4. IndInv'
  BY CreateKeepsInv
<1>5. \A x \in Elements' : Rep(x)' = x
  BY <1>1, <1>4, RootsStandAloneNext
<1>6. Group(r)' = {r}
  BY <1>3, <1>5 DEF Group
<1>7. Cardinality(Group(r)') = 1
  BY <1>6, FS_Singleton
<1> QED
  BY <1>1, <1>3, <1>7, TwoToDoubles

(* Of two groups that are joined the root of no lower rank stays; its rank *)
(* grows by one only if the other group is as large as that rank promises. *)
LEMMA LinkKeepsRank ==
  ASSUME IndInv, Link, RankIsLogarithmic
  PROVE  RankIsLogarithmic'
<1>1. PICK winner \in Elements, loser \in Elements :
        /\ winner # loser
        /\ parents[winner] = winner /\ parents[loser] = loser
        /\ capacity' = capacity /\ groups' = groups - 1
        /\ parents' \in [Elements -> Elements]
        /\ \A x \in Elements : parents'[x] = IF x = loser THEN winner ELSE parents[x]
        /\ ranks[loser] <= ranks[winner]
        /\ ranks' \in [Elements -> Nat]
        /\ \A x \in Elements :
             ranks'[x] = IF x = winner /\ ranks[loser] = ranks[winner]
                         THEN ranks[x] + 1 ELSE ranks[x]
  BY LinkJoins
<1>2. \A x \in Elements : Rep(x)' = IF Rep(x) = loser THEN winner ELSE Rep(x)
  BY <1>1, LinkMoves
<1>3. /\ Elements' = Elements /\ capacity \in Nat /\ capacity <= MaxElements
      /\ \A x \in Elements : ranks[x] \in Nat /\ ranks[x] < capacity
  <2>1. \A x \in Elements : ranks[x] \in Nat /\ groups \in Nat
                            /\ groups > 0 /\ ranks[x] + groups <= capacity
    BY DEF IndInv, TypeOK, RanksBounded
  <2>2. capacity \in Nat /\ capacity <= MaxElements
    BY Facts
  <2>3. Elements' = Elements
    BY <1>1 DEF Elements
  <2> QED
    BY <2>1, <2>2, <2>3
<1>4. \A r \in Roots : TwoTo[ranks[r]] <= Cardinality(Group(r))
  BY RankMeans
<1>5. \A r : IsFiniteSet(Group(r)) /\ Cardinality(Group(r)) \in Nat
  <2>1. IsFiniteSet(Elements)
    BY <1>3, FS_Interval DEF Elements
  <2>2. \A r : IsFiniteSet(Group(r))
    BY <2>1, FS_Subset DEF Group
  <2> QED
    BY <2>2, FS_CardinalityType
<1>6. SUFFICES ASSUME NEW r \in Roots' PROVE TwoTo[ranks'[r]] <= Cardinality(Group(r)')
  BY RankMeansNext
<1>7. r \in Elements /\ r # loser /\ r \in Roots
  BY <1>1, <1>3, <1>6 DEF Roots
<1>8. CASE r # winner
  <2>1. Group(r)' = Group(r)
    BY <1>2, <1>3, <1>7, <1>8 DEF Group
  <2>2. ranks'[r] = ranks[r]
    BY <1>1, <1>7, <1>8
  <2> QED
    BY <1>4, <1>7, <2>1, <2>2
<1>9. CASE r = winner
  <2>1. Group(r)' = Group(winner) \cup Group(loser)
    BY <1>2, <1>3, <1>9 DEF Group
  <2>2. Group(winner) \cap Group(loser) = {}
    BY <1>1 DEF Group
  <2>3. Cardinality(Group(r)') = Cardinality(Group(winner)) + Cardinality(Group(loser))
    <3>1. IsFiniteSet(Group(winner)) /\ IsFiniteSet(Group(loser))
      BY <1>5
    <3>2. Cardinality(Group(winner) \cup Group(loser))
            = Cardinality(Group(winner)) + Cardinality(Group(loser))
              - Cardinality(Group(winner) \cap Group(loser))
      BY <3>1, FS_Union
    <3>3. Cardinality(Group(winner) \cap Group(loser)) = 0
      BY <2>2, FS_EmptySet
    <3> QED
      BY <1>5, <2>1, <3>2, <3>3
  <2>4. /\ TwoTo[ranks[winner]] <= Cardinality(Group(winner))
        /\ TwoTo[ranks[loser]] <= Cardinality(Group(loser))
    BY <1>1, <1>4 DEF Roots
  <2>5. ranks[winner] \in 0 .. MaxElements /\ ranks[winner] + 1 \in 1 .. MaxElements
    BY <1>1, <1>3, ElementsAssumption
  <2>6. TwoTo[ranks[winner]] \in Nat /\ TwoTo[ranks[winner] + 1] = 2 * TwoTo[ranks[winner]]
    <3>1. (ranks[winner] + 1) - 1 = ranks[winner]
      BY <1>3
    <3> QED
      BY <2>5, <3>1, TwoToDoubles
  <2>7. CASE ranks[loser] = ranks[winner]
    <3>1. ranks'[r] = ranks[winner] + 1
      BY <1>1, <1>9, <2>7
    <3> QED
      BY <1>5, <2>3, <2>4, <2>6, <2>7, <3>1
  <2>8. CASE ranks[loser] # ranks[winner]
    <3>1. ranks'[r] = ranks[winner]
      BY <1>1, <1>9, <2>8
    <3> QED
      BY <1>5, <2>3, <2>4, <2>6, <3>1
  <2> QED
    BY <2>7, <2>8
<1> QED
  BY <1>8, <1>9

LEMMA SameGroupsSameRank ==
  ASSUME RankIsLogarithmic, Elements' = Elements, Roots' = Roots, ranks' = ranks,
         \A x \in Elements : Rep(x)' = Rep(x)
  PROVE  RankIsLogarithmic'
<1>1. \A r : Group(r)' = Group(r)
  BY DEF Group
<1> QED
  BY <1>1, RankMeans, RankMeansNext

LEMMA RankStays ==
  ASSUME IndInv, RankIsLogarithmic, UNCHANGED forest
  PROVE  RankIsLogarithmic'
<1>1. Elements' = Elements /\ ranks' = ranks /\ Roots' = Roots
  BY DEF forest, Elements, Roots
<1> QED
  BY <1>1, SameForest, SameGroupsSameRank

LEMMA CompressKeepsRank ==
  ASSUME IndInv, RankIsLogarithmic, Compress
  PROVE  RankIsLogarithmic'
<1>1. /\ Elements' = Elements /\ ranks' = ranks /\ index # root /\ parents[index] # index
      /\ index \in Elements /\ root \in Elements /\ parents' = [parents EXCEPT ![index] = root]
      /\ \A x \in Elements : Rep(x)' = Rep(x)
  BY CompressKeepsRep DEF Elements, Compress
<1>2. parents \in [Elements -> Elements]
  BY DEF IndInv, TypeOK
<1>3. \A x \in Elements : parents'[x] = IF x = index THEN root ELSE parents[x]
  BY <1>1, <1>2
<1>4. Roots' = Roots
  BY <1>1, <1>3 DEF Roots
<1> QED
  BY <1>1, <1>4, SameGroupsSameRank

LEMMA NextKeepsRank ==
  ASSUME IndInv, RankIsLogarithmic, [Next]_vars
  PROVE  RankIsLogarithmic'
<1>1. ASSUME NEW count \in 0 .. MaxElements, Create(count) PROVE RankIsLogarithmic'
  BY <1>1, CreateKeepsRank
<1>2. CASE Destroy
  <2>1. Roots' = {}
    BY <1>2 DEF Destroy, Roots, Elements
  <2> QED
    BY <2>1, RankMeansNext
<1>3. ASSUME NEW op, Refuse(op) PROVE RankIsLogarithmic'
  BY <1>3, RankStays DEF Refuse
<1>4. ASSUME NEW op, NEW x, NEW y, Begin(op, x, y) PROVE RankIsLogarithmic'
  BY <1>4, RankStays DEF Begin
<1>5. CASE Step
  <2>1. CASE Walk \/ WalkEnds \/ FindReturns \/ FirstFound \/ ConnectedReturns \/ SameGroup
    <3>1. UNCHANGED forest
      BY <2>1 DEF Walk, WalkEnds, FindReturns, FirstFound, ConnectedReturns, SameGroup
    <3> QED
      BY <3>1, RankStays
  <2>2. CASE Compress
    BY <2>2, CompressKeepsRank
  <2>3. CASE Link
    BY <2>3, LinkKeepsRank
  <2> QED
    BY <1>5, <2>1, <2>2, <2>3 DEF Step
<1>6. CASE UNCHANGED vars
  BY <1>6, RankStays DEF vars
<1> QED
  BY <1>1, <1>2, <1>3, <1>4, <1>5, <1>6 DEF Next

(* Union by rank on sets of every size: a tree of rank r has at least 2^r  *)
(* elements, so no find walks further than the logarithm of the set.       *)
THEOREM ForestIsFlat == Spec => []RankIsLogarithmic
<1>1. Init => RankIsLogarithmic
  <2>1. Init => Roots = {}
    BY DEF Init, Roots, Elements
  <2> QED
    BY <2>1, RankMeans
<1>2. IndInv /\ RankIsLogarithmic /\ [Next]_vars => RankIsLogarithmic'
  BY NextKeepsRank
<1> QED
  BY <1>1, <1>2, Inductive, PTL DEF Spec

------------------------------------------------------------------------------
(* An instance has copies of its own of what it extends; they are equal. *)
LEMMA TableCardinality == \A S : Table!Cardinality(S) = Cardinality(S)
BY DEF Table!Cardinality, Cardinality

(* Cells linked by nx, each in the one chain that its label names, and     *)
(* hd, the head of each chain.                                             *)
OnlyOwnHeads(cells, lab, at, hd) ==
  \A p \in at : hd[p] # NULL => hd[p] \in cells /\ lab[hd[p]] = p

LinksStay(cells, nx, lab) ==
  \A e \in cells : nx[e] # NULL => nx[e] \in cells /\ lab[nx[e]] = lab[e]

LinkedOnce(cells, nx, at, hd) ==
  /\ \A e, f \in cells : nx[e] = nx[f] /\ nx[e] # NULL => e = f
  /\ \A e \in cells : \A p \in at : nx[e] = hd[p] => nx[e] = NULL

ClosedBy(nx, set) == \A e \in set : nx[e] \in set \cup {NULL}

AllReached(cells, nx, at, hd) ==
  \A set \in SUBSET cells :
    (\A p \in at : hd[p] \in set \cup {NULL}) /\ ClosedBy(nx, set) => set = cells

Chains(cells, nx, lab, at, hd) ==
  /\ NULL \notin cells
  /\ OnlyOwnHeads(cells, lab, at, hd)
  /\ LinksStay(cells, nx, lab)
  /\ LinkedOnce(cells, nx, at, hd)
  /\ AllReached(cells, nx, at, hd)

(* Cell c becomes the head of chain q. *)
LinksCell(cells, nx, lab, at, hd, c, q, nx2, lab2, hd2) ==
  /\ c \notin cells /\ c # NULL /\ q \in at
  /\ nx2[c] = hd[q] /\ lab2[c] = q
  /\ \A e \in cells : nx2[e] = nx[e] /\ lab2[e] = lab[e]
  /\ hd2[q] = c /\ \A p \in at : p # q => hd2[p] = hd[p]

LEMMA ChainsLink ==
  ASSUME NEW cells, NEW nx, NEW lab, NEW at, NEW hd, Chains(cells, nx, lab, at, hd),
         NEW c, NEW q, NEW nx2, NEW lab2, NEW hd2,
         LinksCell(cells, nx, lab, at, hd, c, q, nx2, lab2, hd2)
  PROVE  Chains(cells \cup {c}, nx2, lab2, at, hd2)
<1> USE DEF LinksCell
<1>1. OnlyOwnHeads(cells \cup {c}, lab2, at, hd2)
  BY DEF Chains, OnlyOwnHeads
<1>2. LinksStay(cells \cup {c}, nx2, lab2)
  BY DEF Chains, OnlyOwnHeads, LinksStay
<1>3. LinkedOnce(cells \cup {c}, nx2, at, hd2)
  <2>1. \A p, r \in at : hd[p] = hd[r] /\ hd[p] # NULL => p = r
    BY DEF Chains, OnlyOwnHeads
  <2>2. \A e \in cells : nx[e] # c
    BY DEF Chains, LinksStay
  <2>3. \A p \in at : hd[p] # c
    BY DEF Chains, OnlyOwnHeads
  <2>4. ASSUME NEW e \in cells \cup {c}, NEW f \in cells \cup {c}, nx2[e] = nx2[f],
               nx2[e] # NULL
        PROVE  e = f
    BY <2>4 DEF Chains, LinkedOnce
  <2>5. ASSUME NEW e \in cells \cup {c}, NEW p \in at, nx2[e] = hd2[p]
        PROVE  nx2[e] = NULL
    BY <2>1, <2>2, <2>3, <2>5 DEF Chains, LinkedOnce
  <2> QED
    BY <2>4, <2>5 DEF LinkedOnce
<1>4. AllReached(cells \cup {c}, nx2, at, hd2)
  <2>1. SUFFICES ASSUME NEW set \in SUBSET (cells \cup {c}),
                        \A p \in at : hd2[p] \in set \cup {NULL}, ClosedBy(nx2, set)
                 PROVE  set = cells \cup {c}
    BY DEF AllReached
  <2>2. c \in set
    BY <2>1
  <2>3. set \ {c} \in SUBSET cells
    OBVIOUS
  <2>4. \A p \in at : hd[p] \in (set \ {c}) \cup {NULL}
    BY <2>1, <2>2 DEF ClosedBy, Chains, OnlyOwnHeads
  <2>5. ClosedBy(nx, set \ {c})
    BY <2>1 DEF ClosedBy, Chains, LinksStay
  <2>6. set \ {c} = cells
    BY <2>3, <2>4, <2>5 DEF Chains, AllReached
  <2> QED
    BY <2>2, <2>6
<1> QED
  BY <1>1, <1>2, <1>3, <1>4 DEF Chains

(* Cell c leaves its chain. *)
UnlinksCell(cells, nx, lab, at, hd, c, nx2, lab2, hd2) ==
  /\ c \in cells
  /\ \A e \in cells \ {c} : nx2[e] = IF nx[e] = c THEN nx[c] ELSE nx[e]
  /\ \A e \in cells \ {c} : lab2[e] = lab[e]
  /\ \A p \in at : hd2[p] = IF hd[p] = c THEN nx[c] ELSE hd[p]

LEMMA ChainsUnlink ==
  ASSUME NEW cells, NEW nx, NEW lab, NEW at, NEW hd, Chains(cells, nx, lab, at, hd),
         NEW c, NEW nx2, NEW lab2, NEW hd2,
         UnlinksCell(cells, nx, lab, at, hd, c, nx2, lab2, hd2)
  PROVE  Chains(cells \ {c}, nx2, lab2, at, hd2)
<1> USE DEF UnlinksCell
<1>10. c # NULL
  BY DEF Chains
<1>0. nx[c] # c /\ ((\E p \in at : hd[p] = c) \/ (\E e \in cells \ {c} : nx[e] = c))
  <2>1. CASE \E p \in at : hd[p] = c
    BY <2>1, <1>10 DEF Chains, LinkedOnce
  <2>2. CASE (\A p \in at : hd[p] # c) /\ (\A e \in cells \ {c} : nx[e] # c)
    <3>1. \A p \in at : hd[p] \in (cells \ {c}) \cup {NULL}
      BY <2>2 DEF Chains, OnlyOwnHeads
    <3>2. ClosedBy(nx, cells \ {c})
      BY <2>2 DEF Chains, LinksStay, ClosedBy
    <3>3. cells \ {c} = cells
      BY <3>1, <3>2 DEF Chains, AllReached
    <3> QED
      BY <3>3
  <2>3. CASE \E e \in cells \ {c} : nx[e] = c
    <3>1. PICK e \in cells \ {c} : nx[e] = c
      BY <2>3
    <3>2. nx[c] # c
      BY <3>1, <1>10 DEF Chains, LinkedOnce
    <3> QED
      BY <2>3, <3>2
  <2> QED
    BY <2>1, <2>2, <2>3
<1>1. OnlyOwnHeads(cells \ {c}, lab2, at, hd2)
  BY <1>0, <1>10 DEF Chains, OnlyOwnHeads, LinksStay
<1>2. LinksStay(cells \ {c}, nx2, lab2)
  BY <1>0, <1>10 DEF Chains, LinksStay
<1>3. LinkedOnce(cells \ {c}, nx2, at, hd2)
  <2>1. ASSUME NEW e \in cells \ {c}, NEW f \in cells \ {c}, nx2[e] = nx2[f], nx2[e] # NULL
        PROVE  e = f
    BY <2>1, <1>10 DEF Chains, LinkedOnce
  <2>2. ASSUME NEW e \in cells \ {c}, NEW p \in at, nx2[e] = hd2[p]
        PROVE  nx2[e] = NULL
    BY <2>2, <1>10 DEF Chains, LinkedOnce
  <2> QED
    BY <2>1, <2>2 DEF LinkedOnce
<1>4. AllReached(cells \ {c}, nx2, at, hd2)
  <2>1. SUFFICES ASSUME NEW set \in SUBSET (cells \ {c}),
                        \A p \in at : hd2[p] \in set \cup {NULL}, ClosedBy(nx2, set)
                 PROVE  set = cells \ {c}
    BY DEF AllReached
  <2>2. CASE (\E p \in at : hd[p] = c) \/ (\E e \in set : nx[e] = c)
    <3>1. nx[c] \in set \cup {NULL}
      BY <2>1, <2>2, <1>0 DEF ClosedBy
    <3>2. \A p \in at : hd[p] \in set \cup {c} \cup {NULL}
      BY <2>1
    <3>3. ClosedBy(nx, set \cup {c})
      BY <2>1, <3>1 DEF ClosedBy
    <3>4. set \cup {c} = cells
      BY <3>2, <3>3 DEF Chains, AllReached
    <3> QED
      BY <3>4
  <2>3. CASE (\A p \in at : hd[p] # c) /\ (\A e \in set : nx[e] # c)
    <3>1. \A p \in at : hd[p] \in set \cup {NULL}
      BY <2>1, <2>3
    <3>2. ClosedBy(nx, set)
      BY <2>1, <2>3 DEF ClosedBy
    <3>3. set = cells
      BY <3>1, <3>2 DEF Chains, AllReached
    <3> QED
      BY <3>3
  <2> QED
    BY <2>2, <2>3
<1> QED
  BY <1>1, <1>2, <1>3, <1>4 DEF Chains

(* The chains get other names, or some that are empty come or go. *)
RenamesChains(cells, nx, lab, at, hd, to, nx2, lab2, at2, hd2) ==
  /\ \A e \in cells : nx2[e] = nx[e] /\ lab2[e] = to[lab[e]]
  /\ \A p \in at : hd[p] # NULL => to[p] \in at2 /\ hd2[to[p]] = hd[p]
  /\ \A p \in at2 : hd2[p] # NULL => \E q \in at : to[q] = p /\ hd[q] = hd2[p]

LEMMA ChainsRename ==
  ASSUME NEW cells, NEW nx, NEW lab, NEW at, NEW hd, Chains(cells, nx, lab, at, hd),
         NEW nx2, NEW lab2, NEW at2, NEW hd2, NEW to,
         RenamesChains(cells, nx, lab, at, hd, to, nx2, lab2, at2, hd2)
  PROVE  Chains(cells, nx2, lab2, at2, hd2)
<1> USE DEF RenamesChains
<1>1. OnlyOwnHeads(cells, lab2, at2, hd2)
  BY DEF Chains, OnlyOwnHeads
<1>2. LinksStay(cells, nx2, lab2)
  BY DEF Chains, LinksStay
<1>3. LinkedOnce(cells, nx2, at2, hd2)
  BY DEF Chains, LinkedOnce
<1>4. AllReached(cells, nx2, at2, hd2)
  <2>1. SUFFICES ASSUME NEW set \in SUBSET cells,
                        \A p \in at2 : hd2[p] \in set \cup {NULL}, ClosedBy(nx2, set)
                 PROVE  set = cells
    BY DEF AllReached
  <2>2. \A p \in at : hd[p] \in set \cup {NULL}
    BY <2>1
  <2>3. ClosedBy(nx, set)
    BY <2>1 DEF ClosedBy
  <2> QED
    BY <2>2, <2>3 DEF Chains, AllReached
<1> QED
  BY <1>1, <1>2, <1>3, <1>4 DEF Chains

(* The cells that nx leads to from an entry or NULL. *)
Follows(cells, nx, head) ==
  {e \in cells :
     \A set \in SUBSET (cells \ {e}) : head \in set \cup {NULL} => ~ClosedBy(nx, set)}

LEMMA FollowsHead ==
  ASSUME NEW cells, NEW nx, NEW h \in cells, NULL \notin cells
  PROVE  h \in Follows(cells, nx, h)
BY DEF Follows

LEMMA FollowsLinks ==
  ASSUME NEW cells, NEW nx, NEW h, NULL \notin cells,
         NEW e \in Follows(cells, nx, h), nx[e] \in cells
  PROVE  nx[e] \in Follows(cells, nx, h)
<1>1. e \in cells
  BY DEF Follows
<1>2. ASSUME NEW set \in SUBSET (cells \ {nx[e]}), h \in set \cup {NULL}, ClosedBy(nx, set)
      PROVE  FALSE
  <2>1. e \notin set
    BY <1>2 DEF ClosedBy
  <2>2. set \in SUBSET (cells \ {e})
    BY <2>1
  <2> QED
    BY <1>2, <2>2 DEF Follows
<1> QED
  BY <1>2 DEF Follows

(* A chain holds cells of its own place alone ... *)
LEMMA FollowsStays ==
  ASSUME NEW cells, NEW nx, NEW lab, NEW at, NEW hd, Chains(cells, nx, lab, at, hd),
         NEW p \in at, NEW e \in Follows(cells, nx, hd[p])
  PROVE  lab[e] = p
<1> DEFINE set == {c \in cells : lab[c] = p}
<1>1. hd[p] \in set \cup {NULL}
  BY DEF Chains, OnlyOwnHeads
<1>2. ClosedBy(nx, set)
  BY DEF ClosedBy, Chains, LinksStay
<1>3. CASE e \notin set
  <2>1. set \in SUBSET (cells \ {e})
    BY <1>3
  <2> HIDE DEF set
  <2> QED
    BY <1>1, <1>2, <2>1 DEF Follows
<1> QED
  BY <1>3

(* ... and every cell is in one. *)
LEMMA FollowsAll ==
  ASSUME NEW cells, NEW nx, NEW lab, NEW at, NEW hd, Chains(cells, nx, lab, at, hd),
         NEW e \in cells
  PROVE  lab[e] \in at /\ e \in Follows(cells, nx, hd[lab[e]])
<1> DEFINE set == {c \in cells : lab[c] \in at /\ c \in Follows(cells, nx, hd[lab[c]])}
<1>1. ASSUME NEW p \in at
      PROVE  hd[p] \in set \cup {NULL}
  <2>1. SUFFICES ASSUME hd[p] # NULL PROVE hd[p] \in set
    OBVIOUS
  <2>2. hd[p] \in cells /\ lab[hd[p]] = p /\ NULL \notin cells
    BY <2>1 DEF Chains, OnlyOwnHeads
  <2>3. hd[p] \in Follows(cells, nx, hd[p])
    BY <2>2, FollowsHead
  <2> QED
    BY <2>2, <2>3
<1>2. ASSUME NEW c \in set
      PROVE  nx[c] \in set \cup {NULL}
  <2>1. SUFFICES ASSUME nx[c] # NULL PROVE nx[c] \in set
    OBVIOUS
  <2>2. nx[c] \in cells /\ lab[nx[c]] = lab[c] /\ NULL \notin cells
    BY <2>1 DEF Chains, LinksStay
  <2>3. nx[c] \in Follows(cells, nx, hd[lab[c]])
    BY <2>2, FollowsLinks
  <2> QED
    BY <2>2, <2>3
<1>3. set \in SUBSET cells
  OBVIOUS
<1> HIDE DEF set
<1>4. set = cells
  BY <1>1, <1>2, <1>3 DEF Chains, AllReached, ClosedBy
<1> QED
  BY <1>4 DEF set

(* Each cell is a head or has a cell before it. *)
LEMMA SomethingBefore ==
  ASSUME NEW cells, NEW nx, NEW lab, NEW at, NEW hd, Chains(cells, nx, lab, at, hd),
         NEW c \in cells
  PROVE  (\E p \in at : hd[p] = c) \/ (\E e \in cells : nx[e] = c)
<1>1. SUFFICES ASSUME \A p \in at : hd[p] # c, \A e \in cells : nx[e] # c PROVE FALSE
  OBVIOUS
<1>2. \A p \in at : hd[p] \in (cells \ {c}) \cup {NULL}
  BY <1>1 DEF Chains, OnlyOwnHeads
<1>3. ClosedBy(nx, cells \ {c})
  BY <1>1 DEF Chains, LinksStay, ClosedBy
<1>4. cells \ {c} = cells
  BY <1>2, <1>3 DEF Chains, AllReached
<1> QED
  BY <1>4

------------------------------------------------------------------------------
(* The table's chains.  While entries move, those that have are the ones   *)
(* in the new buckets.                                                     *)
Nexts == [e \in Table!Heap |-> entries[e].next]

Labels(moved) ==
  [e \in Table!Heap |-> IF e \in moved THEN <<"new", Table!NewBucket(e)>>
                  ELSE <<"old", Table!Bucket(entries[e].key)>>]

TablePlaceIds ==
  IF Table!Idle THEN {"old"} \X Table!Slots(slots)
  ELSE ({"new"} \X Table!Slots(Table!NewCapacity)) \cup ({"old"} \X (moving.n .. slots - 1))

TableHeadOf ==
  [p \in TablePlaceIds |-> IF p[1] = "new" THEN moving.buckets[p[2]]
                      ELSE IF ~Table!Idle /\ p[2] = moving.n THEN moving.temp
                      ELSE buckets[p[2]]]

TableChains(moved) == Chains(Table!Heap, Nexts, Labels(moved), TablePlaceIds, TableHeadOf)

(* What the call that grows the table keeps. *)
TableGrowth ==
  /\ stored /\ Table!CanGrow /\ moving.n \in 0 .. slots - 1
  /\ moving.temp \in Entry \cup {NULL}
  /\ moving.buckets \in [Table!Slots(Table!NewCapacity) -> Entry \cup {NULL}]
  /\ moving = [buckets |-> moving.buckets, n |-> moving.n, temp |-> moving.temp,
               entry |-> moving.entry, key |-> moving.key, value |-> moving.value]
  /\ moving.entry \in Entry \ Table!Heap /\ moving.key \in TableKey /\ moving.value \in Value
  /\ \A e \in Table!Heap : TableId(entries[e].key) # TableId(moving.key)

TableBounds ==
  /\ ~stored => Table!Idle /\ slots = 0 /\ Table!Heap = {}
  /\ stored => slots > 0
  /\ Table!Heap \subseteq Entry
  /\ ~Table!Idle => TableGrowth

KeysDiffer ==
  \A e, f \in Table!Heap : e # f => TableId(entries[e].key) # TableId(entries[f].key)

ChainsRight == \E moved \in SUBSET Table!Heap : (Table!Idle => moved = {}) /\ TableChains(moved)

TableInv == Table!TypeOK /\ Table!CountsAndBlocks /\ TableBounds /\ KeysDiffer /\ ChainsRight

------------------------------------------------------------------------------
LEMMA TableMemory ==
  /\ SizeMax \in Nat /\ PtrSize \in Nat \ {0}
  /\ IsFiniteSet(Entry) /\ NULL \notin Entry /\ NULL \notin TableKey
  /\ Cardinality(Entry) <= SizeMax
  /\ Capacities \subseteq Nat
  /\ \A k \in TableKey : TableHash(TableId(k)) \in Nat
BY TableAssumption, TableCardinality
   DEF Table!TableAssumption, Table!SizeAssumption, Table!IsFiniteSet, IsFiniteSet

LEMMA FitsFacts ==
  ASSUME NEW n \in Nat, Table!Fits(n)
  PROVE  Table!SlotsGranted(n) = n /\ n <= SizeMax
<1>1. n * PtrSize \in Nat /\ n * PtrSize <= SizeMax /\ n <= n * PtrSize
  BY TableMemory DEF Table!Fits
<1>2. n * PtrSize < SizeMax + 1 /\ SizeMax \in Nat
  BY <1>1, TableMemory
<1>3. Table!Wrap(n * PtrSize) = n * PtrSize
  BY <1>1, <1>2, FitsInWord DEF Table!Wrap
<1>4. (n * PtrSize) \div PtrSize = n
  BY TableMemory
<1> QED
  BY <1>1, <1>2, <1>3, <1>4 DEF Table!SlotsGranted

LEMMA GrowthDoubles ==
  ASSUME slots \in Nat, Table!CanGrow
  PROVE  Table!NewCapacity = 2 * slots /\ Table!NewCapacity \in Nat
         /\ Table!SlotsGranted(Table!NewCapacity) = Table!NewCapacity
<1>1. slots * 2 \in Nat /\ slots * 2 <= SizeMax /\ SizeMax \in Nat
  BY TableMemory DEF Table!CanGrow
<1>2. Table!NewCapacity = slots * 2
  BY <1>1, FitsInWord DEF Table!NewCapacity, Table!Wrap
<1>3. Table!NewCapacity \in Nat /\ Table!Fits(Table!NewCapacity)
  BY <1>1, <1>2 DEF Table!CanGrow
<1> QED
  BY <1>1, <1>2, <1>3, FitsFacts

LEMMA HashSlot ==
  ASSUME NEW k \in TableKey, NEW c \in Nat \ {0}
  PROVE  TableHash(TableId(k)) % c \in Table!Slots(c)
BY TableMemory DEF Table!Slots

LEMMA ChainIsFollows ==
  ASSUME NEW h
  PROVE  Table!Chain(h) = Follows(Table!Heap, Nexts, h)
<1>1. \A set \in SUBSET Table!Heap : Table!Closed(set) <=> ClosedBy(Nexts, set)
  BY DEF Table!Closed, ClosedBy, Nexts
<1> QED
  BY <1>1 DEF Table!Chain, Follows

LEMMA PlacesAre ==
  ASSUME Table!TypeOK, TableBounds
  PROVE  Table!Places = {<<p[1], p[2], TableHeadOf[p]>> : p \in TablePlaceIds}
<1>1. slots \in Nat /\ DOMAIN buckets = Table!Slots(slots)
  BY DEF Table!TypeOK
<1>2. CASE Table!Idle
  <2>1. TablePlaceIds = {"old"} \X Table!Slots(slots)
    BY <1>2 DEF TablePlaceIds
  <2>2. \A b \in Table!Slots(slots) : TableHeadOf[<<"old", b>>] = buckets[b]
    BY <1>2, <2>1 DEF TableHeadOf
  <2>3. Table!Places = {<<"old", b, buckets[b]>> : b \in Table!Slots(slots)}
    BY <1>1, <1>2 DEF Table!Places
  <2>4. ASSUME NEW b \in Table!Slots(slots)
        PROVE  <<"old", b>> \in TablePlaceIds
               /\ <<"old", b, buckets[b]>> = <<"old", b, TableHeadOf[<<"old", b>>]>>
    BY <2>1, <2>2
  <2>5. ASSUME NEW p \in TablePlaceIds
        PROVE  p[2] \in Table!Slots(slots)
               /\ <<p[1], p[2], TableHeadOf[p]>> = <<"old", p[2], buckets[p[2]]>>
    BY <2>1, <2>2
  <2> HIDE DEF TableHeadOf
  <2>6. ASSUME NEW x \in Table!Places
        PROVE  \E p \in TablePlaceIds : x = <<p[1], p[2], TableHeadOf[p]>>
    <3>1. PICK b \in Table!Slots(slots) : x = <<"old", b, buckets[b]>>
      BY <2>3
    <3>2. <<"old", b>>[1] = "old" /\ <<"old", b>>[2] = b
      OBVIOUS
    <3> QED
      BY <3>1, <3>2, <2>4
  <2>7. ASSUME NEW p \in TablePlaceIds
        PROVE  <<p[1], p[2], TableHeadOf[p]>> \in Table!Places
    BY <2>3, <2>5
  <2> QED
    BY <2>6, <2>7
<1>3. CASE ~Table!Idle
  <2>0. moving.n \in 0 .. slots - 1 /\ DOMAIN moving.buckets = Table!Slots(Table!NewCapacity)
    BY <1>3 DEF TableBounds, TableGrowth, Table!TypeOK
  <2>1. TablePlaceIds = ({"new"} \X Table!Slots(Table!NewCapacity))
          \cup ({"old"} \X (moving.n .. slots - 1))
    BY <1>3 DEF TablePlaceIds
  <2>2. \A b \in Table!Slots(Table!NewCapacity) : TableHeadOf[<<"new", b>>] = moving.buckets[b]
    BY <2>1 DEF TableHeadOf
  <2>3. TableHeadOf[<<"old", moving.n>>] = moving.temp
    BY <1>3, <1>1, <2>0, <2>1 DEF TableHeadOf
  <2>4. \A b \in moving.n + 1 .. slots - 1 : TableHeadOf[<<"old", b>>] = buckets[b]
    BY <1>3, <1>1, <2>0, <2>1 DEF TableHeadOf
  <2>5. Table!Places = {<<"new", b, moving.buckets[b]>> : b \in Table!Slots(Table!NewCapacity)}
                 \cup {<<"old", moving.n, moving.temp>>}
                 \cup {<<"old", b, buckets[b]>> : b \in moving.n + 1 .. slots - 1}
    BY <1>3, <2>0 DEF Table!Places
  <2>6. ASSUME NEW x \in Table!Places
        PROVE  \E p \in TablePlaceIds : x = <<p[1], p[2], TableHeadOf[p]>>
    <3>1. CASE x \in {<<"new", b, moving.buckets[b]>> : b \in Table!Slots(Table!NewCapacity)}
      <4>1. PICK b \in Table!Slots(Table!NewCapacity) : x = <<"new", b, moving.buckets[b]>>
        BY <3>1
      <4> QED
        BY <4>1, <2>1, <2>2
    <3>2. CASE x = <<"old", moving.n, moving.temp>>
      BY <3>2, <2>0, <2>1, <2>3
    <3>3. CASE x \in {<<"old", b, buckets[b]>> : b \in moving.n + 1 .. slots - 1}
      <4>1. PICK b \in moving.n + 1 .. slots - 1 : x = <<"old", b, buckets[b]>>
        BY <3>3
      <4>2. b \in moving.n .. slots - 1
        BY <1>1, <2>0
      <4> QED
        BY <4>1, <4>2, <2>1, <2>4
    <3> QED
      BY <2>5, <3>1, <3>2, <3>3
  <2>7. ASSUME NEW p \in TablePlaceIds
        PROVE  <<p[1], p[2], TableHeadOf[p]>> \in Table!Places
    <3>1. CASE p \in {"new"} \X Table!Slots(Table!NewCapacity)
      BY <3>1, <2>2, <2>5
    <3>2. CASE p \in {"old"} \X (moving.n .. slots - 1)
      <4>1. p[1] = "old" /\ p = <<"old", p[2]>>
            /\ (p[2] = moving.n \/ p[2] \in moving.n + 1 .. slots - 1)
        BY <3>2, <1>1, <2>0
      <4> QED
        BY <4>1, <2>3, <2>4, <2>5
    <3> QED
      BY <2>1, <3>1, <3>2
  <2> QED
    BY <2>6, <2>7
<1> QED
  BY <1>2, <1>3

LEMMA IdleHeads ==
  ASSUME Table!TypeOK, Table!Idle
  PROVE  /\ TablePlaceIds = {"old"} \X Table!Slots(slots)
         /\ \A b \in Table!Slots(slots) : TableHeadOf[<<"old", b>>] = buckets[b]
BY DEF TablePlaceIds, TableHeadOf

LEMMA IdleChains ==
  ASSUME TableInv, Table!Idle
  PROVE  TableChains({})
BY DEF TableInv, ChainsRight

(* get finds every entry, by any pointer to its logical key. *)
LEMMA EntryInChain ==
  ASSUME TableInv, Table!Idle, NEW e \in Table!Heap
  PROVE  e \in Table!Chain(buckets[Table!Bucket(entries[e].key)])
         /\ Table!Bucket(entries[e].key) \in Table!Slots(slots)
<1>1. Labels({})[e] = <<"old", Table!Bucket(entries[e].key)>>
  BY DEF Labels
<1>2. Labels({})[e] \in TablePlaceIds
      /\ e \in Follows(Table!Heap, Nexts, TableHeadOf[Labels({})[e]])
  BY IdleChains, FollowsAll DEF TableChains
<1>3. Table!Bucket(entries[e].key) \in Table!Slots(slots)
  BY <1>1, <1>2, IdleHeads DEF TableInv
<1>4. TableHeadOf[Labels({})[e]] = buckets[Table!Bucket(entries[e].key)]
  BY <1>1, <1>3, IdleHeads DEF TableInv
<1> QED
  BY <1>2, <1>3, <1>4, ChainIsFollows

LEMMA HitsAre ==
  ASSUME TableInv, Table!Idle, NEW k \in TableKey
  PROVE  Table!Hits(k) = {e \in Table!Heap : TableId(entries[e].key) = TableId(k)}
<1>1. ASSUME NEW e \in Table!Heap, TableId(entries[e].key) = TableId(k)
      PROVE  e \in Table!Chain(buckets[Table!Bucket(k)])
  <2>1. Table!Bucket(k) = Table!Bucket(entries[e].key)
    BY <1>1 DEF Table!Bucket
  <2> QED
    BY <2>1, EntryInChain
<1> QED
  BY <1>1 DEF Table!Hits

LEMMA ChainedAreAll ==
  ASSUME TableInv, Table!Idle
  PROVE  Table!Chained = Table!Heap
<1>1. DOMAIN buckets = Table!Slots(slots)
  BY DEF TableInv, Table!TypeOK
<1>2. \A e \in Table!Heap : \E b \in DOMAIN buckets : e \in Table!Chain(buckets[b])
  BY <1>1, EntryInChain
<1>3. \A h : Table!Chain(h) \subseteq Table!Heap
  BY DEF Table!Chain
<1> QED
  BY <1>2, <1>3 DEF Table!Chained

LEMMA SingletonCounts ==
  ASSUME NEW S, NEW x, x \in S, \A y \in S : y = x
  PROVE  Cardinality(S) = 1
<1>1. S = {x}
  OBVIOUS
<1> QED
  BY <1>1, FS_Singleton, TableCardinality

LEMMA EmptyCounts ==
  ASSUME NEW S, \A y \in S : FALSE
  PROVE  Cardinality(S) = 0
<1>1. S = {}
  OBVIOUS
<1> QED
  BY <1>1, FS_EmptySet, TableCardinality

LEMMA TableInItsChain ==
  ASSUME TableInv
  PROVE  Table!EveryEntryInItsChain
<1> USE DEF TableInv
<1>1. PICK moved \in SUBSET Table!Heap : (Table!Idle => moved = {}) /\ TableChains(moved)
  BY DEF ChainsRight
<1> DEFINE lab == Labels(moved)
           triple(p) == <<p[1], p[2], TableHeadOf[p]>>
           chain == [p \in Table!Places |-> Table!Chain(p[3])]
<1>2. Table!Places = {triple(p) : p \in TablePlaceIds}
  BY PlacesAre
<1>3. ASSUME NEW e \in Table!Heap
      PROVE  LET at == {p \in Table!Places : e \in chain[p]}
                 b == IF \E p \in at : p[1] = "new" THEN Table!NewBucket(e)
                         ELSE Table!Bucket(entries[e].key)
             IN  Cardinality(at) = 1 /\ \A p \in at : p[2] = b
  <2> DEFINE at == {p \in Table!Places : e \in chain[p]}
             b == IF \E p \in at : p[1] = "new" THEN Table!NewBucket(e)
                     ELSE Table!Bucket(entries[e].key)
  <2>1. lab[e] \in TablePlaceIds /\ e \in Table!Chain(TableHeadOf[lab[e]])
    BY <1>1, FollowsAll, ChainIsFollows DEF TableChains
  <2>2. \A p \in TablePlaceIds : e \in Table!Chain(TableHeadOf[p]) => lab[e] = p
    BY <1>1, FollowsStays, ChainIsFollows DEF TableChains
  <2>3. lab[e] = IF e \in moved THEN <<"new", Table!NewBucket(e)>>
                    ELSE <<"old", Table!Bucket(entries[e].key)>>
    BY DEF Labels
  <2> HIDE DEF lab
  <2>4. triple(lab[e]) \in at
    BY <1>2, <2>1
  <2>5. ASSUME NEW p \in at
        PROVE  p = triple(lab[e])
    <3>1. PICK q \in TablePlaceIds : p = triple(q)
      BY <1>2
    <3>2. e \in Table!Chain(TableHeadOf[q])
      BY <3>1
    <3> QED
      BY <2>2, <3>1, <3>2
  <2> HIDE DEF at
  <2>6. Cardinality(at) = 1
    BY <2>4, <2>5, SingletonCounts, TableCardinality
  <2>7. \A p \in at : p[1] = lab[e][1] /\ p[2] = lab[e][2]
    BY <2>5
  <2>8. \A p \in at : p[2] = b
    BY <2>3, <2>4, <2>7
  <2> QED
    BY <2>6, <2>8 DEF at
<1>4. ASSUME NEW e \in Table!Heap
      PROVE  Cardinality({f \in Table!Heap : entries[f].next = e})
               + Cardinality({p \in Table!Places : p[3] = e}) = 1
  <2> DEFINE F == {f \in Table!Heap : entries[f].next = e}
             P == {p \in Table!Places : p[3] = e}
  <2>0. \A f \in Table!Heap : Nexts[f] = entries[f].next
    BY DEF Nexts
  <2>1. e # NULL /\ LinkedOnce(Table!Heap, Nexts, TablePlaceIds, TableHeadOf)
        /\ OnlyOwnHeads(Table!Heap, lab, TablePlaceIds, TableHeadOf)
    BY <1>1 DEF TableChains, Chains
  <2>2. CASE \E p \in TablePlaceIds : TableHeadOf[p] = e
    <3>1. PICK p \in TablePlaceIds : TableHeadOf[p] = e
      BY <2>2
    <3>2. triple(p) \in P
      BY <1>2, <3>1
    <3>3. \A q \in TablePlaceIds : TableHeadOf[q] = e => q = p
      BY <2>1, <3>1 DEF OnlyOwnHeads
    <3>4. ASSUME NEW y \in P
          PROVE  y = triple(p)
      <4>1. PICK q \in TablePlaceIds : y = triple(q)
        BY <1>2
      <4>2. TableHeadOf[q] = e
        BY <4>1
      <4> QED
        BY <3>3, <4>1, <4>2
    <3>5. \A f \in F : FALSE
      BY <2>0, <2>1, <3>1 DEF LinkedOnce
    <3> HIDE DEF F, P, triple
    <3>6. Cardinality(P) = 1
      BY <3>2, <3>4, SingletonCounts, TableCardinality
    <3>7. Cardinality(F) = 0
      BY <3>5, EmptyCounts, TableCardinality
    <3> QED
      BY <3>6, <3>7 DEF F, P
  <2>3. CASE \A p \in TablePlaceIds : TableHeadOf[p] # e
    <3>1. PICK f \in Table!Heap : Nexts[f] = e
      BY <1>1, <2>3, SomethingBefore DEF TableChains
    <3>2. f \in F
      BY <2>0, <3>1
    <3>3. \A y \in F : y = f
      BY <2>0, <2>1, <3>1 DEF LinkedOnce
    <3>4. ASSUME NEW y \in P PROVE FALSE
      <4>1. PICK q \in TablePlaceIds : y = triple(q)
        BY <1>2
      <4>2. TableHeadOf[q] = e
        BY <4>1
      <4> QED
        BY <2>3, <4>2
    <3> HIDE DEF F, P
    <3>5. Cardinality(F) = 1
      BY <3>2, <3>3, SingletonCounts, TableCardinality
    <3>6. Cardinality(P) = 0
      BY <3>4, EmptyCounts, TableCardinality
    <3> QED
      BY <3>5, <3>6 DEF F, P
  <2> QED
    BY <2>2, <2>3
<1> HIDE DEF lab, triple
<1> QED
  BY <1>3, <1>4, TableCardinality DEF Table!EveryEntryInItsChain, KeysDiffer

------------------------------------------------------------------------------
LEMMA TableInitInv == Table!Init => TableInv
<1> SUFFICES ASSUME Table!Init PROVE TableInv
  OBVIOUS
<1>1. Table!Idle /\ Table!Heap = {} /\ ~stored /\ size = 0 /\ slots = 0 /\ blocks = 0
  BY DEF Table!Init, Table!Idle, Table!NoEntries, Table!Heap
<1>2. Table!Slots(slots) = {} /\ buckets = Table!NoBuckets
  BY <1>1 DEF Table!Init, Table!Slots
<1>3. Table!TypeOK
  <2>1. buckets \in [Table!Slots(slots) -> Entry \cup {NULL}]
    BY <1>2 DEF Table!NoBuckets
  <2>2. entries \in [Table!Heap -> [key : TableKey, value : Value, next : Entry \cup {NULL}]]
    BY <1>1 DEF Table!Init, Table!NoEntries
  <2>3. stored \in BOOLEAN
    BY DEF Table!Init
  <2>4. size \in Nat /\ slots \in Nat /\ blocks \in Nat
        /\ \A e \in Table!Heap : entries[e].next \in Table!Heap \cup {NULL}
    BY <1>1
  <2> QED
    BY <1>1, <2>1, <2>2, <2>3, <2>4, Zenon DEF Table!TypeOK
<1>4. Table!CountsAndBlocks
  BY <1>1, FS_EmptySet, TableCardinality DEF Table!CountsAndBlocks
<1>5. TablePlaceIds = {}
  BY <1>1, <1>2 DEF TablePlaceIds
<1>6. TableChains({})
  <2>1. AllReached(Table!Heap, Nexts, TablePlaceIds, TableHeadOf)
    BY <1>1 DEF AllReached
  <2> QED
    BY <1>1, <1>5, <2>1 DEF TableChains, Chains, OnlyOwnHeads, LinksStay, LinkedOnce
<1>7. ChainsRight
  BY <1>6 DEF ChainsRight
<1> QED
  BY <1>1, <1>3, <1>4, <1>7 DEF TableInv, TableBounds, KeysDiffer

(* What a call that fails had allocated it has freed. *)
LEMMA SetFailsRests ==
  ASSUME TableInv, NEW k, NEW op, Table!SetFails(op, k)
  PROVE  Table!Fail(op, k) /\ Table!Hits(k) = {}
<1>1. PICK made \in {{}, {"entry"}} :
        blocks' = blocks + Table!Cardinality(made) - Table!Cardinality(Table!Discarded(made))
  BY DEF Table!SetFails
<1>2. IsFiniteSet({}) /\ IsFiniteSet({"entry"})
  BY FS_EmptySet, FS_Singleton
<1>3. Table!Cardinality(made) \in Nat
  BY <1>1, <1>2, FS_CardinalityType, TableCardinality
<1>4. blocks' = blocks
  BY <1>1, <1>3 DEF Table!Discarded, TableInv, Table!TypeOK
<1> QED
  BY <1>4 DEF Table!SetFails, Table!Fail, Table!table

(* A call that changes no variable but the reply. *)
LEMMA TableRestKeeps == TableInv /\ UNCHANGED <<Table!table, moving>> => TableInv'
<1> SUFFICES ASSUME TableInv, UNCHANGED <<Table!table, moving>> PROVE TableInv'
  OBVIOUS
<1> USE DEF TableInv
<1>1. Table!Heap' = Table!Heap /\ Table!Idle' = Table!Idle
      /\ UNCHANGED <<stored, size, slots, buckets, entries, blocks, moving>>
  BY DEF Table!table, Table!Heap, Table!Idle
<1>2. Table!NewCapacity' = Table!NewCapacity /\ Table!CanGrow' = Table!CanGrow
  BY <1>1 DEF Table!NewCapacity, Table!CanGrow
<1>3. Table!TypeOK'
  BY <1>1, <1>2, Zenon DEF Table!TypeOK
<1>4. Table!CountsAndBlocks' /\ KeysDiffer'
  BY <1>1, TableCardinality DEF Table!CountsAndBlocks, KeysDiffer
<1>5. TableGrowth' = TableGrowth
  BY <1>1, <1>2 DEF TableGrowth
<1>6. TableBounds'
  BY <1>1, <1>5 DEF TableBounds
<1>7. Nexts' = Nexts /\ TablePlaceIds' = TablePlaceIds /\ TableHeadOf' = TableHeadOf
  BY <1>1, <1>2 DEF Nexts, TablePlaceIds, TableHeadOf
<1>8. \A moved : Labels(moved)' = Labels(moved)
  BY <1>1, <1>2 DEF Labels, Table!Bucket, Table!NewBucket
<1>9. \A moved : TableChains(moved)' = TableChains(moved)
  BY <1>1, <1>7, <1>8 DEF TableChains
<1>10. ChainsRight'
  BY <1>1, <1>9 DEF ChainsRight
<1> QED
  BY <1>3, <1>4, <1>6, <1>10

LEMMA TableCreateKeeps ==
  ASSUME TableInv, NEW count \in Capacities, Table!Create(count)
  PROVE  TableInv'
<1> USE DEF TableInv
<1>1. count \in Nat /\ count > 0 /\ Table!Idle /\ Table!Heap = {}
      /\ UNCHANGED <<size, entries, moving>>
  BY TableMemory DEF Table!Create, TableBounds
<1>2. Table!Heap' = {} /\ Table!Idle' /\ stored' /\ slots' = count
      /\ buckets' = Table!Empty(count) /\ blocks' = blocks + 2
  BY <1>1 DEF Table!Create, Table!Heap, Table!Idle
<1>3. Table!TypeOK'
  <2>1. Table!SlotsGranted(count) = count
    BY <1>1, FitsFacts DEF Table!Create
  <2>2. (buckets \in [Table!Slots(slots) -> Entry \cup {NULL}])'
    BY <1>2 DEF Table!Empty
  <2> QED
    BY <1>1, <1>2, <2>2 DEF Table!TypeOK, Table!Heap
<1>4. Table!CountsAndBlocks'
  BY <1>1, <1>2, TableCardinality DEF Table!CountsAndBlocks, Table!Create
<1>5. (TablePlaceIds = {"old"} \X Table!Slots(slots)
        /\ \A b \in Table!Slots(slots) : TableHeadOf[<<"old", b>>] = buckets[b])'
  BY <1>2, <1>3 DEF TablePlaceIds, TableHeadOf
<1>6. \A p \in TablePlaceIds' : TableHeadOf'[p] = NULL
  BY <1>2, <1>5 DEF Table!Empty
<1>7. TableChains({})'
  <2>1. AllReached(Table!Heap', Nexts', TablePlaceIds', TableHeadOf')
    BY <1>2 DEF AllReached
  <2> QED
    BY <1>2, <1>6, <2>1 DEF TableChains, Chains, OnlyOwnHeads, LinksStay, LinkedOnce
<1>8. ChainsRight'
  BY <1>7 DEF ChainsRight
<1> QED
  BY <1>1, <1>2, <1>3, <1>4, <1>8 DEF TableBounds, KeysDiffer

LEMMA TableDestroyKeeps ==
  ASSUME TableInv, Table!Destroy
  PROVE  TableInv'
<1> USE DEF TableInv
<1>1. Table!Idle /\ UNCHANGED moving /\ Table!Chained = Table!Heap /\ stored
  BY ChainedAreAll DEF Table!Destroy
<1>2. entries' = [e \in {} |-> entries[e]] /\ Table!Heap' = {}
  BY <1>1 DEF Table!Destroy, Table!Heap
<1>3. Table!Idle' /\ ~stored' /\ slots' = 0 /\ size' = 0 /\ buckets' = Table!NoBuckets
      /\ blocks' = 0
  BY <1>1, TableCardinality DEF Table!Destroy, Table!Idle, Table!CountsAndBlocks
<1>4. Table!TypeOK'
  <2>1. (buckets \in [Table!Slots(slots) -> Entry \cup {NULL}])'
    BY <1>3 DEF Table!NoBuckets, Table!Slots
  <2>2. stored' \in BOOLEAN
    BY DEF Table!Destroy
  <2>3. (entries \in [Table!Heap -> [key : TableKey, value : Value, next : Entry \cup {NULL}]])'
    BY <1>2
  <2> QED
    BY <1>2, <1>3, <2>1, <2>2, <2>3 DEF Table!TypeOK
<1>5. Table!CountsAndBlocks'
  BY <1>2, <1>3, FS_EmptySet, TableCardinality DEF Table!CountsAndBlocks
<1>6. TablePlaceIds' = {}
  BY <1>3 DEF TablePlaceIds, Table!Slots
<1>7. TableChains({})'
  <2>1. AllReached(Table!Heap', Nexts', TablePlaceIds', TableHeadOf')
    BY <1>2 DEF AllReached
  <2> QED
    BY <1>2, <1>6, <2>1 DEF TableChains, Chains, OnlyOwnHeads, LinksStay, LinkedOnce
<1>8. ChainsRight'
  BY <1>7 DEF ChainsRight
<1> QED
  BY <1>2, <1>3, <1>4, <1>5, <1>8 DEF TableBounds, KeysDiffer

------------------------------------------------------------------------------
(* A table that has capacity' buckets, heads, before an entry is linked.   *)
TableReady(heads, lab, hd) ==
  /\ heads \in [Table!Slots(slots') -> Entry \cup {NULL}]
  /\ \A e \in Table!Heap : lab[e] = <<"old", TableHash(TableId(entries[e].key)) % slots'>>
  /\ \A b \in Table!Slots(slots') : hd[<<"old", b>>] = heads[b]
  /\ Chains(Table!Heap, Nexts, lab, {"old"} \X Table!Slots(slots'), hd)

LEMMA LinkKeeps ==
  ASSUME TableInv, NEW c \in Entry \ Table!Heap, NEW k \in TableKey, NEW v \in Value, NEW heads,
         NEW lab, NEW hd, TableReady(heads, lab, hd),
         \A e \in Table!Heap : TableId(entries[e].key) # TableId(k),
         stored, stored', Table!Idle', slots' \in Nat \ {0}, blocks' = 2,
         Table!Link(c, k, v, heads)
  PROVE  TableInv'
<1> USE DEF TableInv
<1> DEFINE slot == TableHash(TableId(k)) % slots'
           row == [key |-> k, value |-> v, next |-> heads[slot]]
<1>1. slot \in Table!Slots(slots') /\ c # NULL /\ c \notin Table!Heap /\ c \in Entry
  BY HashSlot, TableMemory
<1>2. entries' = [f \in Table!Heap \cup {c} |-> IF f = c THEN row ELSE entries[f]]
  BY DEF Table!Link
<1>3. Table!Heap' = Table!Heap \cup {c} /\ entries'[c] = row
      /\ \A e \in Table!Heap : entries'[e] = entries[e]
  BY <1>1, <1>2 DEF Table!Heap
<1>4. buckets' = [heads EXCEPT ![slot] = c] /\ size' = Table!Wrap(size + 1)
  BY DEF Table!Link
<1>5. heads[slot] \in Table!Heap \cup {NULL}
  <2>1. hd[<<"old", slot>>] = heads[slot] /\ <<"old", slot>> \in {"old"} \X Table!Slots(slots')
    BY <1>1 DEF TableReady
  <2> QED
    BY <2>1 DEF TableReady, Chains, OnlyOwnHeads
<1>6. /\ \A e \in Table!Heap :
         /\ entries[e] \in [key : TableKey, value : Value, next : Entry \cup {NULL}]
                         /\ entries[e].next \in Table!Heap \cup {NULL}
      /\ row \in [key : TableKey, value : Value, next : Entry \cup {NULL}]
  <2>1. Table!Heap \subseteq Entry
    BY DEF TableBounds
  <2>2. row \in [key : TableKey, value : Value, next : Entry \cup {NULL}]
    BY <1>5, <2>1
  <2> QED
    BY <2>2 DEF Table!TypeOK
<1>7. size' = size + 1 /\ size' = Cardinality(Table!Heap')
  <2>1. IsFiniteSet(Table!Heap') /\ Cardinality(Table!Heap') <= Cardinality(Entry)
        /\ IsFiniteSet(Table!Heap)
    <3>1. Table!Heap \cup {c} \subseteq Entry /\ Table!Heap \subseteq Entry
      BY <1>1 DEF TableBounds
    <3>2. IsFiniteSet(Entry)
      BY TableMemory
    <3> QED
      BY <1>3, <3>1, <3>2, FS_Subset, TableCardinality
  <2>2. Cardinality(Table!Heap') = Cardinality(Table!Heap) + 1
          /\ Cardinality(Table!Heap) \in Nat
    BY <1>1, <1>3, <2>1, FS_AddElement, FS_CardinalityType, TableCardinality
  <2>3. size = Cardinality(Table!Heap) /\ Cardinality(Entry) \in Nat
        /\ Cardinality(Entry) <= SizeMax /\ SizeMax \in Nat
    BY TableMemory, FS_CardinalityType, TableCardinality DEF Table!CountsAndBlocks
  <2>4. size + 1 \in 0 .. SizeMax
    BY <2>1, <2>2, <2>3
  <2>5. Table!Wrap(size + 1) = size + 1
    BY <2>3, <2>4, FitsInWord DEF Table!Wrap
  <2> QED
    BY <1>4, <2>2, <2>3, <2>5
<1> HIDE DEF row
<1>8. Table!TypeOK'
  <2>1. (buckets \in [Table!Slots(slots) -> Entry \cup {NULL}])'
    BY <1>1, <1>4 DEF TableReady
  <2>2. (entries \in [Table!Heap -> [key : TableKey, value : Value, next : Entry \cup {NULL}]])'
    BY <1>2, <1>3, <1>6
  <2>3. row.next = heads[slot]
    BY DEF row
  <2>4. \A e \in Table!Heap' : entries'[e].next \in Table!Heap' \cup {NULL}
    BY <1>3, <1>5, <1>6, <2>3
  <2>5. size' \in Nat /\ slots' \in Nat /\ blocks' \in Nat
    BY <1>7 DEF Table!TypeOK
  <2>6. stored' \in BOOLEAN
    OBVIOUS
  <2> QED
    BY <2>1, <2>2, <2>4, <2>5, <2>6, Zenon DEF Table!TypeOK
<1>9. Table!CountsAndBlocks'
  BY <1>7, TableCardinality DEF Table!CountsAndBlocks
<1>10. TableBounds'
  BY <1>1, <1>3 DEF TableBounds
<1>11. KeysDiffer'
  <2>1. row.key = k
    BY DEF row
  <2> QED
    BY <1>3, <2>1 DEF KeysDiffer
<1>12. TableChains({})'
  <2>1. TablePlaceIds' = {"old"} \X Table!Slots(slots')
        /\ \A b \in Table!Slots(slots') : TableHeadOf'[<<"old", b>>] = buckets'[b]
    BY <1>8 DEF TablePlaceIds, TableHeadOf
  <2> DEFINE q == <<"old", slot>>
             at == {"old"} \X Table!Slots(slots')
  <2>2. q \in at /\ hd[q] = heads[slot] /\ TableHeadOf'[q] = c
    BY <1>1, <1>4, <2>1 DEF TableReady
  <2>3. \A p \in at : p # q => TableHeadOf'[p] = hd[p]
    <3>1. TAKE p \in at
    <3>2. p = <<"old", p[2]>> /\ p[2] \in Table!Slots(slots')
      OBVIOUS
    <3>3. TableHeadOf'[p] = buckets'[p[2]] /\ hd[p] = heads[p[2]]
      BY <2>1, <3>2 DEF TableReady
    <3> QED
      BY <1>4, <3>2, <3>3 DEF TableReady
  <2>4. \A e \in Table!Heap : Nexts'[e] = Nexts[e] /\ Labels({})'[e] = lab[e]
    BY <1>3 DEF Nexts, Labels, Table!Bucket, TableReady
  <2>5. Nexts'[c] = hd[q] /\ Labels({})'[c] = q
    <3>1. row.key = k /\ row.next = heads[slot]
      BY DEF row
    <3> QED
      BY <1>3, <2>2, <3>1 DEF Nexts, Labels, Table!Bucket
  <2>6. Chains(Table!Heap, Nexts, lab, at, hd)
    BY DEF TableReady
  <2> HIDE DEF at, q
  <2>7. Chains(Table!Heap \cup {c}, Nexts', Labels({})', at, TableHeadOf')
    <3> DEFINE lab2 == Labels({})'
    <3>1. c \notin Table!Heap /\ c # NULL /\ q \in at
      BY <1>1, <2>2
    <3>2. /\ Nexts'[c] = hd[q] /\ lab2[c] = q
          /\ \A e \in Table!Heap : Nexts'[e] = Nexts[e] /\ lab2[e] = lab[e]
      BY <2>4, <2>5
    <3> HIDE DEF lab2
    <3>3. LinksCell(Table!Heap, Nexts, lab, at, hd, c, q, Nexts', lab2, TableHeadOf')
      BY <2>2, <2>3, <3>1, <3>2 DEF LinksCell
    <3>4. Chains(Table!Heap \cup {c}, Nexts', lab2, at, TableHeadOf')
      BY <2>6, <3>3, ChainsLink
    <3> QED
      BY <3>4 DEF lab2
  <2> QED
    BY <1>3, <2>1, <2>7 DEF TableChains, at
<1>13. ChainsRight'
  BY <1>12 DEF ChainsRight
<1> QED
  BY <1>8, <1>9, <1>10, <1>11, <1>13

LEMMA TableInsertKeeps ==
  ASSUME TableInv, NEW op, NEW k \in TableKey, NEW v \in Value, Table!Insert(op, k, v)
  PROVE  TableInv'
<1>1. stored /\ Table!Idle /\ Table!Hits(k) = {} /\ Table!HasFree /\ slots' = slots
      /\ UNCHANGED <<stored, blocks, moving>>
      /\ Table!Link(Table!New, k, v, buckets)
  BY DEF Table!Insert
<1>2. Table!New \in Entry \ Table!Heap
  BY <1>1 DEF Table!HasFree, Table!New
<1>3. \A e \in Table!Heap : TableId(entries[e].key) # TableId(k)
  BY <1>1, HitsAre
<1>4. stored' /\ Table!Idle' /\ blocks' = 2 /\ slots' \in Nat \ {0}
  BY <1>1, TableCardinality
     DEF Table!Idle, TableInv, Table!CountsAndBlocks, Table!TypeOK, TableBounds
<1>5. TableReady(buckets, Labels({}), TableHeadOf)
  <2>1. buckets \in [Table!Slots(slots') -> Entry \cup {NULL}]
    BY <1>1 DEF TableInv, Table!TypeOK
  <2>2. \A e \in Table!Heap :
            Labels({})[e] = <<"old", TableHash(TableId(entries[e].key)) % slots'>>
    BY <1>1 DEF Labels, Table!Bucket
  <2>3. TablePlaceIds = {"old"} \X Table!Slots(slots')
        /\ \A b \in Table!Slots(slots') : TableHeadOf[<<"old", b>>] = buckets[b]
    BY <1>1, IdleHeads DEF TableInv
  <2> QED
    BY <1>1, <2>1, <2>2, <2>3, IdleChains DEF TableReady, TableChains
<1> QED
  BY <1>1, <1>2, <1>3, <1>4, <1>5, LinkKeeps

LEMMA TableReplaceKeeps ==
  ASSUME TableInv, NEW op, NEW k \in TableKey, NEW v \in Value, Table!Replace(op, k, v)
  PROVE  TableInv'
<1> USE DEF TableInv
<1>1. stored /\ Table!Idle /\ Table!Found(k) \in Table!Heap
      /\ UNCHANGED <<stored, size, slots, buckets, blocks, moving>>
  BY HitsAre DEF Table!Replace, Table!Found
<1>2. entries' = [entries EXCEPT ![Table!Found(k)].value = v]
  BY DEF Table!Replace
<1>3. Table!Heap' = Table!Heap /\ Table!Idle'
  BY <1>1, <1>2 DEF Table!Heap, Table!Idle
<1>4. \A e \in Table!Heap :
          entries'[e] = IF e = Table!Found(k) THEN [entries[e] EXCEPT !.value = v]
                           ELSE entries[e]
  BY <1>2 DEF Table!Heap
<1>5. \A e \in Table!Heap :
          entries[e] \in [key : TableKey, value : Value, next : Entry \cup {NULL}]
  BY DEF Table!TypeOK
<1>6. \A e \in Table!Heap :
      /\ entries'[e] \in [key : TableKey, value : Value, next : Entry \cup {NULL}]
                      /\ entries'[e].key = entries[e].key /\ entries'[e].next = entries[e].next
  BY <1>4, <1>5
<1>7. Table!TypeOK'
  <2>1. (entries \in [Table!Heap -> [key : TableKey, value : Value, next : Entry \cup {NULL}]])'
    BY <1>2, <1>3, <1>6 DEF Table!Heap
  <2>2. \A e \in Table!Heap' : entries'[e].next \in Table!Heap' \cup {NULL}
    BY <1>3, <1>6 DEF Table!TypeOK
  <2> QED
    BY <1>1, <1>3, <2>1, <2>2, Zenon DEF Table!TypeOK
<1>8. Table!CountsAndBlocks' /\ TableBounds' /\ KeysDiffer'
  BY <1>1, <1>3, <1>6, TableCardinality DEF Table!CountsAndBlocks, TableBounds, KeysDiffer
<1>9. Nexts' = Nexts /\ Labels({})' = Labels({})
  BY <1>1, <1>3, <1>6 DEF Nexts, Labels, Table!Bucket
<1>10. TablePlaceIds' = TablePlaceIds /\ TableHeadOf' = TableHeadOf
  BY <1>1, <1>3 DEF TablePlaceIds, TableHeadOf
<1>11. TableChains({})'
  BY <1>1, <1>3, <1>9, <1>10, IdleChains DEF TableChains
<1>12. ChainsRight'
  BY <1>11 DEF ChainsRight
<1> QED
  BY <1>7, <1>8, <1>12

LEMMA StartMovingKeeps ==
  ASSUME TableInv, NEW k \in TableKey, NEW v \in Value, Table!StartMoving(k, v)
  PROVE  TableInv'
<1> USE DEF TableInv
<1>1. /\ stored /\ Table!Idle /\ Table!Hits(k) = {} /\ Table!HasFree /\ Table!CanGrow
         /\ UNCHANGED <<stored, size, slots, buckets, entries>>
      /\ moving' = [buckets |-> Table!Empty(Table!SlotsGranted(Table!NewCapacity)), n |-> 0,
                    temp |-> buckets[0],
                    entry |-> Table!New, key |-> k, value |-> v]
      /\ blocks' = blocks + 2
  BY DEF Table!StartMoving
<1>2. slots \in Nat \ {0} /\ 0 \in Table!Slots(slots)
  BY <1>1 DEF Table!TypeOK, TableBounds, Table!Slots
<1>3. Table!SlotsGranted(Table!NewCapacity) = Table!NewCapacity
  BY <1>1, <1>2, GrowthDoubles
<1>4. Table!New \in Entry \ Table!Heap /\ Table!New # NULL
  BY <1>1, TableMemory DEF Table!HasFree, Table!New
<1>5. moving'.buckets = Table!Empty(Table!NewCapacity) /\ moving'.n = 0
      /\ moving'.temp = buckets[0]
      /\ moving'.entry = Table!New /\ moving'.key = k /\ moving'.value = v
  BY <1>1, <1>3
<1>6. ~Table!Idle'
  <2>1. Table!NotMoving.entry = NULL
    BY DEF Table!NotMoving
  <2> QED
    BY <1>4, <1>5, <2>1 DEF Table!Idle, Table!NotMoving
<1>7. Table!Heap' = Table!Heap /\ Table!NewCapacity' = Table!NewCapacity /\ Table!CanGrow'
  BY <1>1 DEF Table!Heap, Table!NewCapacity, Table!CanGrow
<1>8. Table!TypeOK'
  <2>1. DOMAIN moving'.buckets = Table!Slots(Table!NewCapacity')
    BY <1>5, <1>7 DEF Table!Empty
  <2>2. blocks' \in Nat
    BY <1>1 DEF Table!TypeOK
  <2> QED
    BY <1>1, <1>7, <2>1, <2>2, Zenon DEF Table!TypeOK
<1>9. Table!CountsAndBlocks' /\ KeysDiffer'
  BY <1>1, <1>6, <1>7, TableCardinality DEF Table!CountsAndBlocks, KeysDiffer
<1>10. TableGrowth'
  <2>1. \A e \in Table!Heap : TableId(entries[e].key) # TableId(k)
    BY <1>1, HitsAre
  <2>2. moving'.buckets \in [Table!Slots(Table!NewCapacity') -> Entry \cup {NULL}]
    BY <1>5, <1>7 DEF Table!Empty
  <2>3. moving'.temp \in Entry \cup {NULL} /\ moving'.n \in 0 .. slots - 1
    BY <1>2, <1>5 DEF Table!TypeOK, Table!Slots
  <2>4. moving' = [buckets |-> moving'.buckets, n |-> moving'.n, temp |-> moving'.temp,
                   entry |-> moving'.entry, key |-> moving'.key, value |-> moving'.value]
    BY <1>1
  <2> QED
    BY <1>1, <1>4, <1>5, <1>7, <2>1, <2>2, <2>3, <2>4 DEF TableGrowth
<1>11. TableBounds'
  BY <1>1, <1>7, <1>10 DEF TableBounds
<1>12. TableChains({})'
  <2> DEFINE to == [p \in TablePlaceIds |-> p]
  <2>1. TablePlaceIds = {"old"} \X Table!Slots(slots)
        /\ \A b \in Table!Slots(slots) : TableHeadOf[<<"old", b>>] = buckets[b]
    BY <1>1, IdleHeads
  <2>2. TablePlaceIds' = ({"new"} \X Table!Slots(Table!NewCapacity))
          \cup ({"old"} \X Table!Slots(slots))
    BY <1>1, <1>5, <1>6, <1>7 DEF TablePlaceIds, Table!Slots
  <2>3. \A b \in Table!Slots(slots) : TableHeadOf'[<<"old", b>>] = buckets[b]
    BY <1>1, <1>5, <1>6, <2>2 DEF TableHeadOf
  <2>4. \A b \in Table!Slots(Table!NewCapacity) : TableHeadOf'[<<"new", b>>] = NULL
    BY <1>5, <2>2 DEF TableHeadOf, Table!Empty
  <2>5. \A p \in TablePlaceIds :
            to[p] \in TablePlaceIds' /\ TableHeadOf'[to[p]] = TableHeadOf[p]
    BY <2>1, <2>2, <2>3
  <2>6. ASSUME NEW p \in TablePlaceIds', TableHeadOf'[p] # NULL
        PROVE  \E q \in TablePlaceIds : to[q] = p /\ TableHeadOf[q] = TableHeadOf'[p]
    <3>1. CASE p \in {"new"} \X Table!Slots(Table!NewCapacity)
      <4>1. p = <<"new", p[2]>> /\ p[2] \in Table!Slots(Table!NewCapacity)
        BY <3>1
      <4> QED
        BY <2>4, <2>6, <4>1
    <3>2. CASE p \in {"old"} \X Table!Slots(slots)
      <4>1. p \in TablePlaceIds /\ to[p] = p
        BY <2>1, <3>2
      <4> QED
        BY <2>5, <4>1
    <3> QED
      BY <2>2, <3>1, <3>2
  <2>7. \A e \in Table!Heap : Nexts'[e] = Nexts[e] /\ Labels({})'[e] = Labels({})[e]
    BY <1>1, <1>7 DEF Nexts, Labels, Table!Bucket
  <2>8. Chains(Table!Heap, Nexts, Labels({}), TablePlaceIds, TableHeadOf)
    BY <1>1, IdleChains DEF TableChains
  <2>9. \A e \in Table!Heap : Labels({})'[e] = to[Labels({})[e]]
    <3>1. \A e \in Table!Heap : Labels({})[e] \in TablePlaceIds
      BY <2>8, FollowsAll
    <3> QED
      BY <2>7, <3>1
  <2> HIDE DEF to
  <2>10. Chains(Table!Heap, Nexts', Labels({})', TablePlaceIds', TableHeadOf')
    <3>1. RenamesChains(Table!Heap, Nexts, Labels({}), TablePlaceIds, TableHeadOf, to,
                        Nexts', Labels({})', TablePlaceIds', TableHeadOf')
      BY <2>5, <2>6, <2>7, <2>9 DEF RenamesChains
    <3> QED
      BY <2>8, <3>1, ChainsRename
  <2> QED
    BY <1>7, <2>10 DEF TableChains
<1>13. ChainsRight'
  BY <1>12 DEF ChainsRight
<1> QED
  BY <1>8, <1>9, <1>11, <1>13

MovingPlaces ==
  /\ TablePlaceIds = ({"new"} \X Table!Slots(Table!NewCapacity))
       \cup ({"old"} \X (moving.n .. slots - 1))
  /\ \A b \in Table!Slots(Table!NewCapacity) : TableHeadOf[<<"new", b>>] = moving.buckets[b]
  /\ TableHeadOf[<<"old", moving.n>>] = moving.temp
  /\ \A b \in moving.n + 1 .. slots - 1 : TableHeadOf[<<"old", b>>] = buckets[b]

LEMMA MovingHeads == Table!TypeOK /\ TableBounds /\ ~Table!Idle => MovingPlaces
<1> SUFFICES ASSUME Table!TypeOK, TableBounds, ~Table!Idle PROVE MovingPlaces
  OBVIOUS
<1>1. moving.n \in 0 .. slots - 1 /\ slots \in Nat
  BY DEF TableBounds, TableGrowth, Table!TypeOK
<1>2. TablePlaceIds = ({"new"} \X Table!Slots(Table!NewCapacity))
        \cup ({"old"} \X (moving.n .. slots - 1))
  BY DEF TablePlaceIds
<1>3. moving.n \in moving.n .. slots - 1
      /\ \A b \in moving.n + 1 .. slots - 1 : b \in moving.n .. slots - 1 /\ b # moving.n
  BY <1>1
<1> QED
  BY <1>2, <1>3 DEF TableHeadOf, MovingPlaces

LEMMA NextBucketKeeps ==
  ASSUME TableInv, Table!NextBucket
  PROVE  TableInv'
<1> USE DEF TableInv
<1>1. ~Table!Idle /\ moving.temp = NULL /\ moving.n + 1 # slots
      /\ UNCHANGED <<stored, size, slots, buckets, entries, blocks>>
      /\ moving' = [moving EXCEPT !.n = @ + 1, !.temp = buckets[moving.n + 1]]
  BY DEF Table!NextBucket, Table!table
<1>2. TableGrowth /\ slots \in Nat /\ moving.n \in 0 .. slots - 1
      /\ moving.n + 1 \in Table!Slots(slots)
  BY <1>1 DEF TableBounds, TableGrowth, Table!TypeOK, Table!Slots
<1>3. moving' = [buckets |-> moving.buckets, n |-> moving.n + 1, temp |-> buckets[moving.n + 1],
                 entry |-> moving.entry, key |-> moving.key, value |-> moving.value]
  BY <1>1, <1>2 DEF TableGrowth
<1>4. moving'.buckets = moving.buckets /\ moving'.n = moving.n + 1
      /\ moving'.temp = buckets[moving.n + 1]
      /\ moving'.entry = moving.entry /\ moving'.key = moving.key
           /\ moving'.value = moving.value
  BY <1>3
<1>5. ~Table!Idle'
  <2>1. Table!NotMoving.entry = NULL /\ moving.entry # NULL
    BY <1>2, TableMemory DEF Table!NotMoving, TableGrowth
  <2> QED
    BY <1>4, <2>1 DEF Table!Idle, Table!NotMoving
<1>6. Table!Heap' = Table!Heap /\ Table!NewCapacity' = Table!NewCapacity
      /\ Table!CanGrow' = Table!CanGrow
  BY <1>1 DEF Table!Heap, Table!NewCapacity, Table!CanGrow
<1>7. Table!TypeOK'
  BY <1>1, <1>4, <1>6, Zenon DEF Table!TypeOK
<1>8. Table!CountsAndBlocks' /\ KeysDiffer'
  BY <1>1, <1>5, <1>6, TableCardinality DEF Table!CountsAndBlocks, KeysDiffer
<1>9. TableGrowth'
  <2>1. moving'.temp \in Entry \cup {NULL} /\ moving'.n \in 0 .. slots' - 1
    BY <1>1, <1>2, <1>4 DEF Table!TypeOK, Table!Slots
  <2> QED
    BY <1>1, <1>2, <1>3, <1>4, <1>6, <2>1 DEF TableGrowth
<1>10. TableBounds'
  BY <1>1, <1>6, <1>9 DEF TableBounds
<1>11. PICK moved \in SUBSET Table!Heap : TableChains(moved)
  BY DEF ChainsRight
<1>12. TableChains(moved)'
  <2> DEFINE to == [p \in TablePlaceIds |-> p]
  <2>1. /\ TablePlaceIds = ({"new"} \X Table!Slots(Table!NewCapacity))
             \cup ({"old"} \X (moving.n .. slots - 1))
        /\ \A b \in Table!Slots(Table!NewCapacity) :
               TableHeadOf[<<"new", b>>] = moving.buckets[b]
        /\ TableHeadOf[<<"old", moving.n>>] = moving.temp
        /\ \A b \in moving.n + 1 .. slots - 1 : TableHeadOf[<<"old", b>>] = buckets[b]
    BY <1>1, MovingHeads DEF MovingPlaces
  <2>2. /\ TablePlaceIds' = ({"new"} \X Table!Slots(Table!NewCapacity))
             \cup ({"old"} \X (moving.n + 1 .. slots - 1))
        /\ \A b \in Table!Slots(Table!NewCapacity) :
               TableHeadOf'[<<"new", b>>] = moving.buckets[b]
        /\ TableHeadOf'[<<"old", moving.n + 1>>] = buckets[moving.n + 1]
        /\ \A b \in moving.n + 1 + 1 .. slots - 1 : TableHeadOf'[<<"old", b>>] = buckets[b]
    <3>1. (Table!TypeOK /\ TableBounds /\ ~Table!Idle => MovingPlaces)'
      BY MovingHeads, PTL
    <3>2. MovingPlaces'
      BY <1>5, <1>7, <1>10, <3>1
    <3>3. Table!Slots(Table!NewCapacity)' = Table!Slots(Table!NewCapacity)
      BY <1>6 DEF Table!Slots
    <3> QED
      BY <1>1, <1>4, <1>6, <3>2, <3>3 DEF MovingPlaces
  <2>3. \A b \in moving.n + 1 .. slots - 1 : TableHeadOf'[<<"old", b>>] = buckets[b]
    <3>1. \A b \in moving.n + 1 .. slots - 1 : b = moving.n + 1
          \/ b \in moving.n + 1 + 1 .. slots - 1
      BY <1>2
    <3> QED
      BY <2>2, <3>1
  <2>4. \A b \in moving.n .. slots - 1 : b = moving.n \/ b \in moving.n + 1 .. slots - 1
    BY <1>2
  <2>5. \A b \in moving.n + 1 .. slots - 1 : b \in moving.n .. slots - 1
    BY <1>2
  <2>6. ASSUME NEW p \in TablePlaceIds, TableHeadOf[p] # NULL
        PROVE  to[p] \in TablePlaceIds' /\ TableHeadOf'[to[p]] = TableHeadOf[p]
    <3>1. CASE p \in {"new"} \X Table!Slots(Table!NewCapacity)
      <4>1. p = <<"new", p[2]>> /\ p[2] \in Table!Slots(Table!NewCapacity)
        BY <3>1
      <4> QED
        BY <2>1, <2>2, <4>1
    <3>2. CASE p \in {"old"} \X (moving.n .. slots - 1)
      <4>1. p = <<"old", p[2]>> /\ p[2] \in moving.n .. slots - 1 /\ p[2] # moving.n
        BY <1>1, <2>1, <2>6, <3>2
      <4>2. p[2] \in moving.n + 1 .. slots - 1
        BY <2>4, <4>1
      <4> QED
        BY <2>1, <2>2, <2>3, <4>1, <4>2
    <3> QED
      BY <2>1, <3>1, <3>2
  <2>7. ASSUME NEW p \in TablePlaceIds', TableHeadOf'[p] # NULL
        PROVE  \E q \in TablePlaceIds : to[q] = p /\ TableHeadOf[q] = TableHeadOf'[p]
    <3>1. CASE p \in {"new"} \X Table!Slots(Table!NewCapacity)
      <4>1. p = <<"new", p[2]>> /\ p[2] \in Table!Slots(Table!NewCapacity)
        BY <3>1
      <4>2. p \in TablePlaceIds /\ TableHeadOf[p] = TableHeadOf'[p]
        BY <2>1, <2>2, <4>1
      <4> QED
        BY <4>2
    <3>2. CASE p \in {"old"} \X (moving.n + 1 .. slots - 1)
      <4>1. p = <<"old", p[2]>> /\ p[2] \in moving.n + 1 .. slots - 1
        BY <3>2
      <4>2. p \in TablePlaceIds /\ TableHeadOf[p] = TableHeadOf'[p]
        BY <2>1, <2>3, <2>5, <4>1
      <4> QED
        BY <4>2
    <3> QED
      BY <2>2, <3>1, <3>2
  <2>8. \A e \in Table!Heap : Nexts'[e] = Nexts[e] /\ Labels(moved)'[e] = Labels(moved)[e]
    BY <1>1, <1>6 DEF Nexts, Labels, Table!Bucket, Table!NewBucket
  <2>9. Chains(Table!Heap, Nexts, Labels(moved), TablePlaceIds, TableHeadOf)
    BY <1>11 DEF TableChains
  <2>10. \A e \in Table!Heap : Labels(moved)'[e] = to[Labels(moved)[e]]
    <3>1. \A e \in Table!Heap : Labels(moved)[e] \in TablePlaceIds
      BY <2>9, FollowsAll
    <3> QED
      BY <2>8, <3>1
  <2> HIDE DEF to
  <2>11. Chains(Table!Heap, Nexts', Labels(moved)', TablePlaceIds', TableHeadOf')
    <3>1. RenamesChains(Table!Heap, Nexts, Labels(moved), TablePlaceIds, TableHeadOf, to,
                        Nexts', Labels(moved)', TablePlaceIds', TableHeadOf')
      BY <2>6, <2>7, <2>8, <2>10 DEF RenamesChains
    <3> QED
      BY <2>9, <3>1, ChainsRename
  <2> QED
    BY <1>6, <2>11 DEF TableChains
<1>13. ChainsRight'
  BY <1>5, <1>6, <1>12 DEF ChainsRight
<1> QED
  BY <1>7, <1>8, <1>10, <1>13

LEMMA MoveKeepsEntry ==
  ASSUME TableInv, Table!Move, NEW e, e = moving.temp
  PROVE  TableInv'
<1> USE DEF TableInv
<1> DEFINE b == Table!NewBucket(e)
<1>0. ~Table!Idle
  <2>1. Table!NotMoving.temp = NULL
    BY DEF Table!NotMoving
  <2> QED
    BY <2>1 DEF Table!Move, Table!Idle
<1>1. /\ e # NULL /\ UNCHANGED <<stored, size, slots, buckets, blocks>>
      /\ entries' = [entries EXCEPT ![e].next = moving.buckets[b]]
      /\ moving' = [moving EXCEPT !.temp = Table!After(e), !.buckets[b] = e]
  BY DEF Table!Move
<1>2. TableGrowth /\ slots \in Nat \ {0} /\ moving.n \in 0 .. slots - 1
      /\ Table!NewCapacity \in Nat \ {0}
  <2>1. TableGrowth /\ slots \in Nat \ {0} /\ moving.n \in 0 .. slots - 1
    BY <1>0 DEF TableBounds, TableGrowth, Table!TypeOK
  <2>2. Table!NewCapacity = 2 * slots
    BY <2>1, GrowthDoubles DEF TableGrowth
  <2> QED
    BY <2>1, <2>2
<1>3. PICK moved \in SUBSET Table!Heap : TableChains(moved)
  BY DEF ChainsRight
<1>4. MovingPlaces
  BY <1>0, MovingHeads
<1> DEFINE here == <<"old", moving.n>>
           there == <<"new", b>>
           lab == Labels(moved)
<1>5. here \in TablePlaceIds /\ TableHeadOf[here] = e
  BY <1>2, <1>4 DEF MovingPlaces
<1>6. e \in Table!Heap /\ lab[e] = here /\ \A p \in TablePlaceIds :
          TableHeadOf[p] = e => p = here
  BY <1>1, <1>3, <1>5 DEF TableChains, Chains, OnlyOwnHeads
<1>7. b \in Table!Slots(Table!NewCapacity) /\ there \in TablePlaceIds
      /\ TableHeadOf[there] = moving.buckets[b] /\ there # here
  <2>1. entries[e].key \in TableKey
    BY <1>6 DEF Table!TypeOK
  <2>2. b \in Table!Slots(Table!NewCapacity)
    BY <1>2, <2>1, HashSlot DEF Table!NewBucket
  <2> QED
    BY <1>4, <2>2 DEF MovingPlaces
<1>8. moving.buckets[b] \in Table!Heap \cup {NULL}
  BY <1>3, <1>7 DEF TableChains, Chains, OnlyOwnHeads
<1>9. Table!Heap' = Table!Heap
      /\ \A f \in Table!Heap :
             entries'[f] = IF f = e THEN [entries[e] EXCEPT !.next = moving.buckets[b]]
                              ELSE entries[f]
  BY <1>1, <1>6 DEF Table!Heap
<1>10. \A f \in Table!Heap :
       /\ entries[f] \in [key : TableKey, value : Value, next : Entry \cup {NULL}]
                       /\ entries[f].next \in Table!Heap \cup {NULL}
  BY DEF Table!TypeOK
<1>11. \A f \in Table!Heap :
       /\ entries'[f] \in [key : TableKey, value : Value, next : Entry \cup {NULL}]
                       /\ entries'[f].key = entries[f].key
                       /\ entries'[f].next = IF f = e THEN moving.buckets[b]
                                                ELSE entries[f].next
  <2>1. moving.buckets[b] \in Entry \cup {NULL}
    BY <1>8 DEF TableBounds
  <2> QED
    BY <1>9, <1>10, <2>1
<1>12. moving' = [buckets |-> [moving.buckets EXCEPT ![b] = e], n |-> moving.n,
                  temp |-> entries[e].next,
                  entry |-> moving.entry, key |-> moving.key, value |-> moving.value]
  BY <1>1, <1>2 DEF TableGrowth, Table!After
<1>13. /\ moving'.buckets = [moving.buckets EXCEPT ![b] = e] /\ moving'.n = moving.n
       /\ moving'.temp = entries[e].next /\ moving'.entry = moving.entry
       /\ moving'.key = moving.key /\ moving'.value = moving.value
  BY <1>12
<1> HIDE DEF b
<1>14. ~Table!Idle'
  <2>1. Table!NotMoving.entry = NULL /\ moving.entry # NULL
    BY <1>2, TableMemory DEF Table!NotMoving, TableGrowth
  <2> QED
    BY <1>13, <2>1 DEF Table!Idle, Table!NotMoving
<1>15. Table!NewCapacity' = Table!NewCapacity /\ Table!CanGrow' = Table!CanGrow
  BY <1>1 DEF Table!NewCapacity, Table!CanGrow
<1>16. moving'.buckets \in [Table!Slots(Table!NewCapacity) -> Entry \cup {NULL}]
  <2>1. e \in Entry
    BY <1>6 DEF TableBounds
  <2> QED
    BY <1>2, <1>13, <2>1 DEF TableGrowth
<1>17. Table!TypeOK'
  <2>1. (entries \in [Table!Heap -> [key : TableKey, value : Value, next : Entry \cup {NULL}]])'
    BY <1>1, <1>9, <1>11 DEF Table!Heap
  <2>2. \A f \in Table!Heap' : entries'[f].next \in Table!Heap' \cup {NULL}
    BY <1>8, <1>9, <1>10, <1>11
  <2>3. DOMAIN moving'.buckets = Table!Slots(Table!NewCapacity')
    BY <1>15, <1>16
  <2> QED
    BY <1>1, <2>1, <2>2, <2>3, Zenon DEF Table!TypeOK
<1>18. Table!CountsAndBlocks' /\ KeysDiffer'
  BY <1>0, <1>1, <1>9, <1>11, <1>14, TableCardinality DEF Table!CountsAndBlocks, KeysDiffer
<1>19. TableGrowth'
  <2>1. moving'.temp \in Entry \cup {NULL}
    BY <1>6, <1>10, <1>13
  <2>2. \A f \in Table!Heap' : TableId(entries'[f].key) # TableId(moving'.key)
    BY <1>2, <1>9, <1>11, <1>13 DEF TableGrowth
  <2>3. moving' = [buckets |-> moving'.buckets, n |-> moving'.n, temp |-> moving'.temp,
                   entry |-> moving'.entry, key |-> moving'.key, value |-> moving'.value]
    BY <1>12, <1>13
  <2>4. stored' /\ Table!CanGrow' /\ moving'.n \in 0 .. slots' - 1
        /\ moving'.buckets \in [Table!Slots(Table!NewCapacity') -> Entry \cup {NULL}]
    BY <1>1, <1>2, <1>13, <1>15, <1>16 DEF TableGrowth
  <2>5. moving'.entry \in Entry \ Table!Heap' /\ moving'.key \in TableKey
        /\ moving'.value \in Value
    BY <1>2, <1>9, <1>13 DEF TableGrowth
  <2> QED
    BY <2>1, <2>2, <2>3, <2>4, <2>5 DEF TableGrowth
<1>20. TableBounds'
  BY <1>1, <1>2, <1>9, <1>19 DEF TableBounds, TableGrowth
<1>21. TableChains(moved \cup {e})'
  <2> DEFINE left == [p \in TablePlaceIds |-> IF p = here THEN Nexts[e] ELSE TableHeadOf[p]]
  <2>1. \A p \in TablePlaceIds :
            left[p] = IF TableHeadOf[p] = e THEN Nexts[e] ELSE TableHeadOf[p]
    BY <1>5, <1>6
  <2>2. \A f \in Table!Heap \ {e} : Nexts[f] # e
    BY <1>1, <1>3, <1>5, <1>6 DEF TableChains, Chains, LinkedOnce
  <2>3. Chains(Table!Heap, Nexts, lab, TablePlaceIds, TableHeadOf)
    BY <1>3 DEF TableChains
  <2>4. left[there] = moving.buckets[b] /\ \A p \in TablePlaceIds : p # here
        => left[p] = TableHeadOf[p]
    BY <1>7
  <2>5. left[here] = entries[e].next
    BY <1>5, <1>6 DEF Nexts
  <2> HIDE DEF left, lab, here, there
  <2>6. Chains(Table!Heap \ {e}, Nexts, lab, TablePlaceIds, left)
    <3>1. UnlinksCell(Table!Heap, Nexts, lab, TablePlaceIds, TableHeadOf, e, Nexts, lab, left)
      BY <1>6, <2>1, <2>2 DEF UnlinksCell
    <3> QED
      BY <2>3, <3>1, ChainsUnlink
  <2>7. Nexts'[e] = left[there] /\ \A f \in Table!Heap \ {e} : Nexts'[f] = Nexts[f]
    BY <1>6, <1>9, <1>11, <2>4 DEF Nexts
  <2>8. Labels(moved \cup {e})'[e] = there
        /\ \A f \in Table!Heap \ {e} : Labels(moved \cup {e})'[f] = lab[f]
    <3>1. \A f \in Table!Heap : Table!NewBucket(f)' = Table!NewBucket(f)
          /\ Table!Bucket(entries[f].key)' = Table!Bucket(entries[f].key)
      BY <1>1, <1>11, <1>15 DEF Table!NewBucket, Table!Bucket
    <3>2. \A f \in Table!Heap :
              Labels(moved \cup {e})'[f]
                = IF f \in moved \cup {e} THEN <<"new", Table!NewBucket(f)>>
                     ELSE <<"old", Table!Bucket(entries[f].key)>>
      BY <1>9, <3>1 DEF Labels
    <3>3. \A f \in Table!Heap :
              lab[f] = IF f \in moved THEN <<"new", Table!NewBucket(f)>>
                          ELSE <<"old", Table!Bucket(entries[f].key)>>
      BY DEF lab, Labels
    <3> QED
      BY <1>6, <3>2, <3>3 DEF there, b
  <2>9. TablePlaceIds' = TablePlaceIds
    BY <1>0, <1>1, <1>13, <1>14, <1>15 DEF TablePlaceIds, Table!Slots
  <2>10. MovingPlaces'
    <3>1. (Table!TypeOK /\ TableBounds /\ ~Table!Idle => MovingPlaces)'
      BY MovingHeads, PTL
    <3> QED
      BY <1>14, <1>17, <1>20, <3>1
  <2>15. /\ TablePlaceIds = ({"new"} \X Table!Slots(Table!NewCapacity))
              \cup ({"old"} \X (moving.n .. slots - 1))
         /\ \A i \in Table!Slots(Table!NewCapacity) :
                TableHeadOf[<<"new", i>>] = moving.buckets[i]
         /\ \A i \in moving.n + 1 .. slots - 1 : TableHeadOf[<<"old", i>>] = buckets[i]
    BY <1>4 DEF MovingPlaces
  <2>16. /\ \A i \in Table!Slots(Table!NewCapacity) :
                TableHeadOf'[<<"new", i>>] = IF i = b THEN e ELSE moving.buckets[i]
         /\ TableHeadOf'[<<"old", moving.n>>] = entries[e].next
         /\ \A i \in moving.n + 1 .. slots - 1 : TableHeadOf'[<<"old", i>>] = buckets[i]
    <3>1. Table!Slots(Table!NewCapacity)' = Table!Slots(Table!NewCapacity)
          /\ DOMAIN moving.buckets = Table!Slots(Table!NewCapacity)
      BY <1>2, <1>15 DEF Table!Slots, TableGrowth
    <3> QED
      BY <1>1, <1>13, <2>10, <3>1 DEF MovingPlaces
  <2>11. TableHeadOf'[there] = e
    BY <1>7, <2>16 DEF there
  <2>12. ASSUME NEW p \in TablePlaceIds, p # there
         PROVE  TableHeadOf'[p] = left[p]
    <3>1. CASE p \in {"new"} \X Table!Slots(Table!NewCapacity)
      <4>1. p = <<"new", p[2]>> /\ p[2] \in Table!Slots(Table!NewCapacity) /\ p # here
        BY <3>1 DEF here
      <4>2. p[2] # b
        BY <2>12, <4>1 DEF there
      <4> QED
        BY <2>15, <2>16, <2>4, <4>1, <4>2
    <3>2. CASE p \in {"old"} \X (moving.n .. slots - 1)
      <4>1. p = <<"old", p[2]>> /\ (p[2] = moving.n \/ p[2] \in moving.n + 1 .. slots - 1)
        BY <1>2, <3>2
      <4>2. CASE p[2] = moving.n
        BY <2>5, <2>16, <4>1, <4>2 DEF here
      <4>3. CASE p[2] \in moving.n + 1 .. slots - 1
        <5>1. p # here
          BY <1>2, <4>3 DEF here
        <5> QED
          BY <2>15, <2>16, <2>4, <4>1, <4>3, <5>1
      <4> QED
        BY <4>1, <4>2, <4>3
    <3> QED
      BY <2>15, <3>1, <3>2
  <2>13. Chains((Table!Heap \ {e}) \cup {e}, Nexts', Labels(moved \cup {e})', TablePlaceIds,
                TableHeadOf')
    <3> DEFINE rest == Table!Heap \ {e}
               lab2 == Labels(moved \cup {e})'
    <3>1. e \notin rest /\ e # NULL /\ there \in TablePlaceIds
          /\ Chains(rest, Nexts, lab, TablePlaceIds, left)
      BY <1>1, <1>7, <2>6
    <3>2. /\ Nexts'[e] = left[there] /\ lab2[e] = there
          /\ \A f \in rest : Nexts'[f] = Nexts[f] /\ lab2[f] = lab[f]
      BY <2>7, <2>8
    <3>3. TableHeadOf'[there] = e /\ \A p \in TablePlaceIds : p # there
          => TableHeadOf'[p] = left[p]
      BY <2>11, <2>12
    <3> HIDE DEF rest, lab2
    <3>4. LinksCell(rest, Nexts, lab, TablePlaceIds, left, e, there, Nexts', lab2, TableHeadOf')
      BY <3>1, <3>2, <3>3 DEF LinksCell
    <3>5. Chains(rest \cup {e}, Nexts', lab2, TablePlaceIds, TableHeadOf')
      BY <3>1, <3>4, ChainsLink
    <3> QED
      BY <3>5 DEF rest, lab2
  <2>14. (Table!Heap \ {e}) \cup {e} = Table!Heap'
    BY <1>6, <1>9
  <2> QED
    BY <2>9, <2>13, <2>14 DEF TableChains
<1>22. ChainsRight'
  <2>1. moved \cup {e} \in SUBSET Table!Heap'
    BY <1>6, <1>9
  <2> QED
    BY <1>14, <1>21, <2>1 DEF ChainsRight
<1> QED
  BY <1>17, <1>18, <1>20, <1>22

LEMMA TableMoveKeeps == TableInv /\ Table!Move => TableInv'
BY MoveKeepsEntry

LEMMA NoneFollowsNull ==
  ASSUME NEW cells, NEW nx
  PROVE  Follows(cells, nx, NULL) = {}
<1>1. ASSUME NEW e \in Follows(cells, nx, NULL) PROVE FALSE
  <2>1. {} \in SUBSET (cells \ {e}) /\ NULL \in {} \cup {NULL} /\ ClosedBy(nx, {})
    BY DEF ClosedBy
  <2> QED
    BY <2>1 DEF Follows
<1> QED
  BY <1>1

LEMMA EndMovingKeeps ==
  ASSUME TableInv, Table!EndMoving
  PROVE  TableInv'
<1> USE DEF TableInv
<1>1. /\ ~Table!Idle /\ moving.temp = NULL /\ moving.n + 1 = slots /\ slots' = Table!NewCapacity
      /\ Table!Link(moving.entry, moving.key, moving.value, moving.buckets)
      /\ blocks' = blocks - 2 /\ moving' = Table!NotMoving /\ UNCHANGED stored
  BY DEF Table!EndMoving
<1>2. TableGrowth /\ slots \in Nat \ {0} /\ moving.n \in 0 .. slots - 1
      /\ Table!NewCapacity \in Nat \ {0}
  <2>1. TableGrowth /\ slots \in Nat \ {0} /\ moving.n \in 0 .. slots - 1
    BY <1>1 DEF TableBounds, TableGrowth, Table!TypeOK
  <2>2. Table!NewCapacity = 2 * slots
    BY <2>1, GrowthDoubles DEF TableGrowth
  <2> QED
    BY <2>1, <2>2
<1>3. PICK moved \in SUBSET Table!Heap : TableChains(moved)
  BY DEF ChainsRight
<1>4. MovingPlaces
  BY <1>1, MovingHeads
<1> DEFINE to == [p \in TablePlaceIds |-> <<"old", p[2]>>]
           at == {"old"} \X Table!Slots(Table!NewCapacity)
           hd == [p \in at |-> moving.buckets[p[2]]]
           lab == [e \in Table!Heap |-> <<"old", Table!NewBucket(e)>>]
<1>5. moving.n .. slots - 1 = {moving.n}
  BY <1>1, <1>2
<1>6. TablePlaceIds = ({"new"} \X Table!Slots(Table!NewCapacity)) \cup {<<"old", moving.n>>}
      /\ TableHeadOf[<<"old", moving.n>>] = NULL
  BY <1>1, <1>4, <1>5 DEF MovingPlaces
<1>7. \A b \in Table!Slots(Table!NewCapacity) : TableHeadOf[<<"new", b>>] = moving.buckets[b]
  BY <1>4 DEF MovingPlaces
<1>8. ASSUME NEW e \in Table!Heap
      PROVE  Labels(moved)[e] \in TablePlaceIds
             /\ Labels(moved)[e] = <<"new", Table!NewBucket(e)>>
  <2>1. Labels(moved)[e] \in TablePlaceIds
        /\ e \in Follows(Table!Heap, Nexts, TableHeadOf[Labels(moved)[e]])
    BY <1>3, FollowsAll DEF TableChains
  <2>2. Labels(moved)[e] # <<"old", moving.n>>
    BY <1>6, <2>1, NoneFollowsNull
  <2>3. Labels(moved)[e] \in {"new"} \X Table!Slots(Table!NewCapacity)
    BY <1>6, <2>1, <2>2
  <2>4. Labels(moved)[e][1] = "new"
    BY <2>3
  <2>5. Labels(moved)[e] = IF e \in moved THEN <<"new", Table!NewBucket(e)>>
                              ELSE <<"old", Table!Bucket(entries[e].key)>>
    BY DEF Labels
  <2> QED
    BY <2>1, <2>4, <2>5
<1>9. \A e \in Table!Heap : lab[e] = to[Labels(moved)[e]]
  BY <1>8
<1>10. ASSUME NEW p \in TablePlaceIds, TableHeadOf[p] # NULL
       PROVE  to[p] \in at /\ hd[to[p]] = TableHeadOf[p]
  <2>1. p = <<"new", p[2]>> /\ p[2] \in Table!Slots(Table!NewCapacity)
    BY <1>6, <1>10
  <2>2. to[p] = <<"old", p[2]>> /\ <<"old", p[2]>> \in at
        /\ hd[<<"old", p[2]>>] = moving.buckets[p[2]]
    BY <2>1
  <2> HIDE DEF to, hd, at
  <2> QED
    BY <1>7, <2>1, <2>2
<1>11. ASSUME NEW p \in at, hd[p] # NULL
       PROVE  \E q \in TablePlaceIds : to[q] = p /\ TableHeadOf[q] = hd[p]
  <2>1. p = <<"old", p[2]>> /\ p[2] \in Table!Slots(Table!NewCapacity)
        /\ hd[p] = moving.buckets[p[2]]
    OBVIOUS
  <2>2. <<"new", p[2]>> \in TablePlaceIds /\ TableHeadOf[<<"new", p[2]>>] = moving.buckets[p[2]]
    BY <1>6, <1>7, <2>1
  <2>3. to[<<"new", p[2]>>] = <<"old", p[2]>>
    BY <2>2
  <2> HIDE DEF to, hd, at
  <2> QED
    BY <2>1, <2>2, <2>3
<1>12. Chains(Table!Heap, Nexts, lab, at, hd)
  <2>1. Chains(Table!Heap, Nexts, Labels(moved), TablePlaceIds, TableHeadOf)
    BY <1>3 DEF TableChains
  <2> HIDE DEF to, hd, at, lab
  <2> QED
    <3>1. RenamesChains(Table!Heap, Nexts, Labels(moved), TablePlaceIds, TableHeadOf, to, Nexts,
                        lab, at, hd)
      BY <1>9, <1>10, <1>11 DEF RenamesChains
    <3> QED
      BY <2>1, <3>1, ChainsRename
<1>13. TableReady(moving.buckets, lab, hd)
  <2>1. moving.buckets \in [Table!Slots(slots') -> Entry \cup {NULL}]
    BY <1>1, <1>2 DEF TableGrowth
  <2>2. \A e \in Table!Heap : lab[e] = <<"old", TableHash(TableId(entries[e].key)) % slots'>>
    BY <1>1 DEF Table!NewBucket
  <2>3. \A b \in Table!Slots(slots') : hd[<<"old", b>>] = moving.buckets[b]
    BY <1>1
  <2>4. Chains(Table!Heap, Nexts, lab, {"old"} \X Table!Slots(slots'), hd)
    BY <1>1, <1>12
  <2> HIDE DEF hd, at, lab
  <2> QED
    BY <2>1, <2>2, <2>3, <2>4 DEF TableReady
<1>14. stored /\ stored' /\ Table!Idle' /\ blocks' = 2
  <2>1. stored /\ stored' /\ Table!Idle'
    BY <1>1, <1>2 DEF TableGrowth, Table!Idle, Table!NotMoving
  <2>2. blocks = 4
    BY <1>1, <2>1, TableCardinality DEF Table!CountsAndBlocks
  <2> QED
    BY <1>1, <2>1, <2>2
<1>15. moving.entry \in Entry \ Table!Heap /\ moving.key \in TableKey /\ moving.value \in Value
       /\ \A e \in Table!Heap : TableId(entries[e].key) # TableId(moving.key)
  BY <1>2 DEF TableGrowth
<1> HIDE DEF hd, lab
<1> QED
  BY <1>1, <1>2, <1>13, <1>14, <1>15, LinkKeeps

LEMMA RemoveKeepsEntry ==
  ASSUME TableInv, NEW k \in TableKey, Table!Remove(k), NEW c, c = Table!Found(k)
  PROVE  TableInv'
<1> USE DEF TableInv
<1>1. /\ stored /\ Table!Idle /\ Table!Hits(k) # {} /\ size' = size - 1
         /\ UNCHANGED <<stored, slots, blocks, moving>>
      /\ entries' = Table!Unlinked(c) /\ buckets' = Table!Heads(k, c)
  BY DEF Table!Remove
<1>2. c \in Table!Heap /\ TableId(entries[c].key) = TableId(k) /\ c # NULL
  <2>1. c \in Table!Hits(k)
    BY <1>1 DEF Table!Found
  <2>2. Table!Heap \subseteq Entry
    BY DEF TableBounds
  <2> QED
    BY <1>1, <2>1, <2>2, HitsAre, TableMemory
<1>3. Table!Idle' /\ Table!Heap' = Table!Heap \ {c}
  BY <1>1 DEF Table!Idle, Table!Heap, Table!Unlinked
<1>4. \A f \in Table!Heap :
      /\ entries[f] \in [key : TableKey, value : Value, next : Entry \cup {NULL}]
                      /\ entries[f].next \in Table!Heap \cup {NULL}
  BY DEF Table!TypeOK
<1>5. \A f \in Table!Heap \ {c} :
        entries'[f] = IF entries[f].next = c THEN [entries[f] EXCEPT !.next = entries[c].next]
                         ELSE entries[f]
  BY <1>1 DEF Table!Unlinked
<1>6. \A f \in Table!Heap \ {c} :
        /\ entries'[f] \in [key : TableKey, value : Value, next : Entry \cup {NULL}]
        /\ entries'[f].key = entries[f].key
        /\ entries'[f].next = IF entries[f].next = c THEN entries[c].next ELSE entries[f].next
  <2>1. TAKE f \in Table!Heap \ {c}
  <2>2. entries[f] \in [key : TableKey, value : Value, next : Entry \cup {NULL}]
        /\ entries[c].next \in Entry \cup {NULL}
    BY <1>2, <1>4
  <2> QED
    BY <1>5, <2>2
<1>7. Chains(Table!Heap, Nexts, Labels({}), TablePlaceIds, TableHeadOf)
  BY <1>1, IdleChains DEF TableChains
<1>8. TablePlaceIds = {"old"} \X Table!Slots(slots)
      /\ \A b \in Table!Slots(slots) : TableHeadOf[<<"old", b>>] = buckets[b]
  BY <1>1, IdleHeads
<1>9. Table!Bucket(k) \in Table!Slots(slots) /\ Labels({})[c] = <<"old", Table!Bucket(k)>>
  <2>1. Table!Bucket(entries[c].key) \in Table!Slots(slots)
        /\ Table!Bucket(entries[c].key) = Table!Bucket(k)
    BY <1>1, <1>2, EntryInChain DEF Table!Bucket
  <2> QED
    BY <1>2, <2>1 DEF Labels
<1>10. \A b \in Table!Slots(slots) :
           buckets'[b] = IF buckets[b] = c THEN entries[c].next ELSE buckets[b]
  <2>1. \A b \in Table!Slots(slots) : buckets[b] = c => b = Table!Bucket(k)
    <3>1. TAKE b \in Table!Slots(slots)
    <3>2. <<"old", b>> \in TablePlaceIds /\ TableHeadOf[<<"old", b>>] = buckets[b]
      BY <1>8
    <3>3. buckets[b] = c => Labels({})[c] = <<"old", b>>
      BY <1>2, <1>7, <3>2 DEF Chains, OnlyOwnHeads
    <3> QED
      BY <1>9, <3>3
  <2>2. buckets \in [Table!Slots(slots) -> Entry \cup {NULL}]
    BY DEF Table!TypeOK
  <2> QED
    BY <1>1, <1>9, <2>1, <2>2 DEF Table!Heads
<1>11. buckets' \in [Table!Slots(slots) -> Entry \cup {NULL}]
  <2>1. buckets \in [Table!Slots(slots) -> Entry \cup {NULL}]
        /\ entries[c].next \in Entry \cup {NULL}
    BY <1>2, <1>4 DEF Table!TypeOK
  <2> QED
    BY <1>1, <2>1 DEF Table!Heads
<1>12. TableChains({})'
  <2>1. TablePlaceIds' = TablePlaceIds
        /\ \A b \in Table!Slots(slots) : TableHeadOf'[<<"old", b>>] = buckets'[b]
    BY <1>1, <1>3, <1>8 DEF TablePlaceIds, TableHeadOf
  <2>2. \A p \in TablePlaceIds :
            TableHeadOf'[p] = IF TableHeadOf[p] = c THEN Nexts[c] ELSE TableHeadOf[p]
    <3>1. TAKE p \in TablePlaceIds
    <3>2. p = <<"old", p[2]>> /\ p[2] \in Table!Slots(slots)
      BY <1>8
    <3>3. TableHeadOf[p] = buckets[p[2]] /\ TableHeadOf'[p] = buckets'[p[2]]
      BY <1>8, <2>1, <3>2
    <3>4. Nexts[c] = entries[c].next
      BY <1>2 DEF Nexts
    <3> QED
      BY <1>10, <3>2, <3>3, <3>4
  <2>3. \A f \in Table!Heap \ {c} : Nexts'[f] = IF Nexts[f] = c THEN Nexts[c] ELSE Nexts[f]
    BY <1>2, <1>3, <1>6 DEF Nexts
  <2>4. \A f \in Table!Heap \ {c} : Labels({})'[f] = Labels({})[f]
    BY <1>1, <1>3, <1>6 DEF Labels, Table!Bucket
  <2>5. Chains(Table!Heap \ {c}, Nexts', Labels({})', TablePlaceIds, TableHeadOf')
    <3>1. UnlinksCell(Table!Heap, Nexts, Labels({}), TablePlaceIds, TableHeadOf, c, Nexts',
                      Labels({})', TableHeadOf')
      BY <1>2, <2>2, <2>3, <2>4 DEF UnlinksCell
    <3> QED
      BY <1>7, <3>1, ChainsUnlink
  <2> QED
    BY <1>3, <2>1, <2>5 DEF TableChains
<1>13. ChainsRight'
  BY <1>12 DEF ChainsRight
<1>14. size' = Cardinality(Table!Heap')  /\ size' \in Nat
  <2>1. IsFiniteSet(Table!Heap)
    <3>1. Table!Heap \subseteq Entry /\ IsFiniteSet(Entry)
      BY TableMemory DEF TableBounds
    <3> QED
      BY <3>1, FS_Subset, TableCardinality
  <2>2. Cardinality(Table!Heap \ {c}) = Cardinality(Table!Heap) - 1
        /\ IsFiniteSet(Table!Heap \ {c})
    BY <1>2, <2>1, FS_RemoveElement, TableCardinality
  <2>3. Cardinality(Table!Heap \ {c}) \in Nat
    BY <2>2, FS_CardinalityType, TableCardinality
  <2> QED
    BY <1>1, <1>3, <2>2, <2>3, TableCardinality DEF Table!CountsAndBlocks
<1>15. Table!TypeOK'
  <2>1. \A f \in Table!Heap' : entries'[f].next \in Table!Heap' \cup {NULL}
    <3>1. LinksStay(Table!Heap \ {c}, Nexts', Labels({})')
      BY <1>3, <1>12 DEF TableChains, Chains
    <3>2. \A f \in Table!Heap' : Nexts'[f] = entries'[f].next
      BY DEF Nexts
    <3> QED
      BY <1>3, <3>1, <3>2 DEF LinksStay
  <2>2. (entries \in [Table!Heap -> [key : TableKey, value : Value, next : Entry \cup {NULL}]])'
    <3>1. entries' = [f \in Table!Heap' |-> entries'[f]]
      BY <1>1, <1>3 DEF Table!Unlinked
    <3> QED
      BY <1>3, <1>6, <3>1
  <2>3. slots' \in Nat /\ blocks' \in Nat
    BY <1>1 DEF Table!TypeOK
  <2>4. stored' \in BOOLEAN
    BY <1>1
  <2>5. (buckets \in [Table!Slots(slots) -> Entry \cup {NULL}])'
    BY <1>1, <1>11
  <2> QED
    BY <1>3, <1>14, <2>1, <2>2, <2>3, <2>4, <2>5, Zenon DEF Table!TypeOK
<1>16. Table!CountsAndBlocks' /\ KeysDiffer' /\ TableBounds'
  BY <1>1, <1>3, <1>6, <1>14, TableCardinality DEF Table!CountsAndBlocks, KeysDiffer,
     TableBounds
<1> QED
  BY <1>13, <1>15, <1>16

LEMMA TableRemoveKeeps ==
  ASSUME TableInv, NEW k \in TableKey, Table!Remove(k)
  PROVE  TableInv'
BY RemoveKeepsEntry

------------------------------------------------------------------------------
LEMMA TableStepKeeps == TableInv /\ [Table!Next]_(Table!vars) => TableInv'
<1> SUFFICES ASSUME TableInv, [Table!Next]_(Table!vars) PROVE TableInv'
  OBVIOUS
<1>1. CASE UNCHANGED Table!vars
  BY <1>1, TableRestKeeps DEF Table!vars
<1>2. ASSUME NEW count \in Capacities, Table!Create(count) PROVE TableInv'
  BY <1>2, TableCreateKeeps
<1>3. CASE Table!CreateFails
  BY <1>3, TableRestKeeps DEF Table!CreateFails, Table!Fail
<1>4. CASE Table!Destroy
  BY <1>4, TableDestroyKeeps
<1>5. ASSUME NEW k \in TableKey, NEW op \in {"set", "set_resizing"}, NEW v \in Value,
             Table!Replace(op, k, v)
      PROVE  TableInv'
  BY <1>5, TableReplaceKeeps
<1>6. ASSUME NEW k \in TableKey, NEW op \in {"set", "set_resizing"}, NEW v \in Value,
             Table!Insert(op, k, v)
      PROVE  TableInv'
  BY <1>6, TableInsertKeeps
<1>7. ASSUME NEW k \in TableKey, NEW op \in {"set", "set_resizing"}, Table!SetFails(op, k)
      PROVE  TableInv'
  BY <1>7, SetFailsRests, TableRestKeeps DEF Table!Fail
<1>8. ASSUME NEW k \in TableKey, NEW v \in Value, Table!StartMoving(k, v)
      PROVE  TableInv'
  BY <1>8, StartMovingKeeps
<1>9. ASSUME NEW k \in TableKey, Table!Remove(k) \/ Table!RemoveFails(k)
      PROVE  TableInv'
  BY <1>9, TableRemoveKeeps, TableRestKeeps DEF Table!RemoveFails, Table!Fail
<1>10. CASE Table!Move
  BY <1>10, TableMoveKeeps
<1>11. CASE Table!NextBucket
  BY <1>11, NextBucketKeeps
<1>12. CASE Table!EndMoving
  BY <1>12, EndMovingKeeps
<1> QED
  BY <1>1, <1>2, <1>3, <1>4, <1>5, <1>6, <1>7, <1>8, <1>9, <1>10, <1>11, <1>12
     DEF Table!Next, Table!Step

LEMMA TableInvWellFormed == TableInv => Table!WellFormed
BY TableInItsChain DEF TableInv, Table!WellFormed

LEMMA ThresholdFacts ==
  ASSUME NEW c \in Nat \ {0}
  PROVE  Table!Threshold(c) \in Int /\ Table!Threshold(c) + 1 <= Table!Threshold(2 * c)
BY DEF Table!Threshold

LEMMA LinkCounts ==
  ASSUME TableInv, NEW c, NEW k, NEW v, NEW heads, Table!Link(c, k, v, heads)
  PROVE  size' <= size + 1 /\ size \in Nat /\ size' \in Int
<1>1. size \in Nat /\ SizeMax \in Nat
  BY TableMemory DEF TableInv, Table!TypeOK
<1>2. size' = (size + 1) % (SizeMax + 1)
  BY DEF Table!Link, Table!Wrap
<1> QED
  BY <1>1, <1>2

TableLoadStep ==
  answer' # answer /\ answer'.op = "set_resizing" /\ size <= Table!Threshold(slots)
    => size' <= Table!Threshold(slots')

LEMMA TableLoadKept == TableInv /\ [Table!Next]_(Table!vars) => [TableLoadStep]_(Table!vars)
<1> SUFFICES ASSUME TableInv, [Table!Next]_(Table!vars), answer' # answer,
                    answer'.op = "set_resizing",
                    size <= Table!Threshold(slots)
             PROVE  size' <= Table!Threshold(slots')
  BY DEF TableLoadStep
<1>1. Table!Next
  BY DEF Table!vars
<1>2. size \in Nat /\ slots \in Nat
  BY DEF TableInv, Table!TypeOK
<1>3. ASSUME UNCHANGED <<Table!table, moving>> PROVE size' <= Table!Threshold(slots')
  BY <1>3 DEF Table!table
<1>4. CASE \E count \in Capacities : Table!Create(count)
  BY <1>4 DEF Table!Create, Table!Answer
<1>5. CASE Table!CreateFails
  BY <1>3, <1>5 DEF Table!CreateFails, Table!Fail
<1>6. CASE Table!Destroy
  BY <1>6 DEF Table!Destroy, Table!Answer
<1>7. ASSUME NEW k \in TableKey, NEW op, NEW v, Table!Replace(op, k, v)
      PROVE  size' <= Table!Threshold(slots')
  BY <1>7 DEF Table!Replace
<1>8. ASSUME NEW k \in TableKey, NEW op, NEW v, Table!Insert(op, k, v)
      PROVE  size' <= Table!Threshold(slots')
  <2>1. op = "set_resizing"
    BY <1>8 DEF Table!Insert, Table!Answer
  <2>2. ~(size >= Table!Threshold(slots)) /\ slots' = slots
        /\ Table!Link(Table!New, k, v, buckets) /\ stored
    BY <1>8, <2>1 DEF Table!Insert, Table!Overloaded
  <2>3. size' <= size + 1 /\ size' \in Int
    BY <2>2, LinkCounts
  <2>4. Table!Threshold(slots) \in Int
    BY <2>2, ThresholdFacts DEF TableInv, Table!TypeOK, TableBounds
  <2>5. size + 1 <= Table!Threshold(slots)
    BY <1>2, <2>2, <2>4
  <2> QED
    BY <1>2, <2>2, <2>3, <2>4, <2>5
<1>9. ASSUME NEW k \in TableKey, NEW op, Table!SetFails(op, k)
      PROVE  size' <= Table!Threshold(slots')
  BY <1>3, <1>9 DEF Table!SetFails
<1>10. ASSUME NEW k \in TableKey, NEW v, Table!StartMoving(k, v)
       PROVE  FALSE
  BY <1>10 DEF Table!StartMoving
<1>11. ASSUME NEW k \in TableKey, Table!Remove(k) PROVE FALSE
  BY <1>11 DEF Table!Remove, Table!Answer
<1>12. ASSUME NEW k \in TableKey, Table!RemoveFails(k) PROVE FALSE
  BY <1>12 DEF Table!RemoveFails, Table!Fail, Table!Answer
<1>13. CASE Table!Move \/ Table!NextBucket
  BY <1>13 DEF Table!Move, Table!NextBucket
<1>14. CASE Table!EndMoving
  <2>1. slots' = Table!NewCapacity
        /\ Table!Link(moving.entry, moving.key, moving.value, moving.buckets) /\ ~Table!Idle
    BY <1>14 DEF Table!EndMoving
  <2>2. slots \in Nat \ {0} /\ Table!CanGrow
    BY <1>2, <2>1 DEF TableInv, TableBounds, TableGrowth
  <2>3. slots' = 2 * slots
    BY <2>1, <2>2, GrowthDoubles
  <2>4. size' <= size + 1 /\ size' \in Int
    BY <2>1, LinkCounts
  <2>5. Table!Threshold(slots) \in Int
          /\ Table!Threshold(slots) + 1 <= Table!Threshold(2 * slots)
    BY <2>2, ThresholdFacts
  <2>6. Table!Threshold(2 * slots) \in Int
    BY <2>2, ThresholdFacts
  <2> QED
    BY <1>2, <2>3, <2>4, <2>5, <2>6
<1> QED
  BY <1>1, <1>4, <1>5, <1>6, <1>7, <1>8, <1>9, <1>10, <1>11, <1>12, <1>13, <1>14
     DEF Table!Next, Table!Step

------------------------------------------------------------------------------
(* What the table promises. *)
LEMMA StoredAreAll ==
  ASSUME TableInv
  PROVE  Table!Stored = Table!Heap
<1>1. CASE ~Table!Idle
  BY <1>1 DEF Table!Stored
<1>2. CASE Table!Idle
  <2>1. ASSUME NEW e \in Table!Heap PROVE stored
               /\ e \in Table!Chain(buckets[Table!Bucket(entries[e].key)])
    BY <1>2, EntryInChain DEF TableInv, TableBounds
  <2> QED
    BY <1>2, <2>1 DEF Table!Stored
<1> QED
  BY <1>1, <1>2

(* The map holds the pointers and the value of each entry. *)
TableMaps ==
  /\ Table!Content = [i \in DOMAIN Table!Content |-> Table!Content[i]]
  /\ DOMAIN Table!Content = {TableId(entries[e].key) : e \in Table!Heap}
  /\ \A e \in Table!Heap :
         Table!Content[TableId(entries[e].key)]
           = [key |-> entries[e].key, value |-> entries[e].value]

LEMMA ContentMaps == TableInv => TableMaps
<1> SUFFICES ASSUME TableInv PROVE TableMaps
  OBVIOUS
<1>1. Table!Stored = Table!Heap
  BY StoredAreAll
<1>2. Table!Content = [i \in {TableId(entries[e].key) : e \in Table!Heap} |->
         [key |-> entries[CHOOSE e \in Table!Heap : TableId(entries[e].key) = i].key,
          value |-> entries[CHOOSE e \in Table!Heap : TableId(entries[e].key) = i].value]]
  BY <1>1 DEF Table!Content
<1>3. ASSUME NEW e \in Table!Heap
      PROVE  Table!Content[TableId(entries[e].key)]
               = [key |-> entries[e].key, value |-> entries[e].value]
  <2> DEFINE h == CHOOSE f \in Table!Heap : TableId(entries[f].key) = TableId(entries[e].key)
  <2>1. h \in Table!Heap /\ TableId(entries[h].key) = TableId(entries[e].key)
    OBVIOUS
  <2>2. h = e
    BY <2>1 DEF TableInv, KeysDiffer
  <2> QED
    BY <1>2, <2>2
<1> QED
  BY <1>2, <1>3 DEF TableMaps

LEMMA TableMapsNext == TableInv' => TableMaps'
<1>1. (TableInv => TableMaps)'
  BY ContentMaps, PTL
<1> QED
  BY <1>1

LEMMA SameAt ==
  ASSUME TableMaps, TableMaps', NEW e, e \in Table!Heap, e \in Table!Heap',
         entries'[e].key = entries[e].key, entries'[e].value = entries[e].value
  PROVE  Table!Content'[TableId(entries[e].key)] = Table!Content[TableId(entries[e].key)]
<1>1. Table!Content[TableId(entries[e].key)]
        = [key |-> entries[e].key, value |-> entries[e].value]
  BY DEF TableMaps
<1>2. Table!Content'[TableId(entries'[e].key)]
        = [key |-> entries'[e].key, value |-> entries'[e].value]
  BY DEF TableMaps
<1> QED
  BY <1>1, <1>2

(* The same keys and values make the same map. *)
LEMMA SameMap ==
  ASSUME TableMaps, TableMaps', Table!Heap' = Table!Heap,
         \A e \in Table!Heap : entries'[e].key = entries[e].key
         /\ entries'[e].value = entries[e].value
  PROVE  Table!Content' = Table!Content
<1>1. DOMAIN Table!Content' = DOMAIN Table!Content
  BY DEF TableMaps
<1>2. \A i \in DOMAIN Table!Content : Table!Content'[i] = Table!Content[i]
  <2>1. ASSUME NEW e \in Table!Heap
        PROVE Table!Content'[TableId(entries[e].key)] = Table!Content[TableId(entries[e].key)]
    BY SameAt
  <2> QED
    BY <2>1 DEF TableMaps
<1>3. Table!Content = [i \in DOMAIN Table!Content |-> Table!Content[i]]
      /\ Table!Content' = [i \in DOMAIN Table!Content' |-> Table!Content'[i]]
  BY DEF TableMaps
<1> QED
  BY <1>1, <1>2, <1>3

LEMMA SameMapStep ==
  ASSUME TableInv, TableInv', Table!Heap' = Table!Heap,
         \A e \in Table!Heap : entries'[e].key = entries[e].key
         /\ entries'[e].value = entries[e].value
  PROVE  Table!Content' = Table!Content
BY ContentMaps, TableMapsNext, SameMap

LEMMA TableRestStutters ==
  ASSUME TableInv, TableInv', UNCHANGED <<Table!table, moving>>
  PROVE  Table!Content' = Table!Content
BY SameMapStep DEF Table!table, Table!Heap

LEMMA PresentIs ==
  ASSUME TableInv, NEW k
  PROVE  Table!Promise!Present(k) <=> \E e \in Table!Heap : TableId(entries[e].key) = TableId(k)
BY ContentMaps DEF Table!Promise!Present, TableMaps

LEMMA TableInsertMaps ==
  ASSUME TableInv, TableInv', NEW op, NEW k \in TableKey, NEW v, NEW c, NEW heads,
         c \notin Table!Heap, Table!Link(c, k, v, heads), Table!Answer(op, k, TRUE, NULL),
         \A e \in Table!Heap : TableId(entries[e].key) # TableId(k)
  PROVE  Table!Promise!Insert(op, k, v)
<1>1. TableMaps /\ TableMaps'
  BY ContentMaps, TableMapsNext
<1>2. Table!Heap' = Table!Heap \cup {c} /\ entries'[c].key = k /\ entries'[c].value = v
      /\ \A e \in Table!Heap : entries'[e] = entries[e]
  BY DEF Table!Link, Table!Heap
<1>3. ~Table!Promise!Present(k)
  BY PresentIs
<1>4. DOMAIN Table!Content' = DOMAIN Table!Content \cup {TableId(k)}
  BY <1>1, <1>2 DEF TableMaps
<1>5. Table!Content'[TableId(k)] = [key |-> k, value |-> v]
  BY <1>1, <1>2 DEF TableMaps
<1>6. \A i \in DOMAIN Table!Content : i # TableId(k) /\ Table!Content'[i] = Table!Content[i]
  <2>1. ASSUME NEW e \in Table!Heap
        PROVE Table!Content'[TableId(entries[e].key)] = Table!Content[TableId(entries[e].key)]
    BY <1>1, <1>2, SameAt
  <2> QED
    BY <1>1, <2>1 DEF TableMaps
<1>7. Table!Content' = [i \in DOMAIN Table!Content' |-> Table!Content'[i]]
  BY <1>1 DEF TableMaps
<1>8. Table!Content' = [i \in DOMAIN Table!Content \cup {TableId(k)} |->
                         IF i = TableId(k) THEN [key |-> k, value |-> v] ELSE Table!Content[i]]
  BY <1>4, <1>5, <1>6, <1>7
<1> QED
  BY <1>3, <1>8 DEF Table!Promise!Insert, Table!Promise!Answer, Table!Answer

LEMMA TableReplaceMaps ==
  ASSUME TableInv, TableInv', NEW op, NEW k \in TableKey, NEW v, Table!Replace(op, k, v)
  PROVE  Table!Promise!Replace(op, k, v)
<1>1. TableMaps /\ TableMaps'
  BY ContentMaps, TableMapsNext
<1>2. PICK c : c = Table!Found(k)
  OBVIOUS
<1>3. c \in Table!Heap /\ TableId(entries[c].key) = TableId(k)
  BY <1>2, HitsAre DEF Table!Replace, Table!Found
<1>4. Table!Heap' = Table!Heap /\ entries' = [entries EXCEPT ![c].value = v]
      /\ Table!Answer(op, k, TRUE, entries[c].value)
  BY <1>2 DEF Table!Replace, Table!Heap
<1>5. Table!Promise!Present(k)
  BY <1>3, PresentIs
<1>6. Table!Content[TableId(k)] = [key |-> entries[c].key, value |-> entries[c].value]
  BY <1>1, <1>3 DEF TableMaps
<1>7. entries'[c] = [entries[c] EXCEPT !.value = v] /\ \A e \in Table!Heap : e # c
      => entries'[e] = entries[e]
  BY <1>3, <1>4 DEF Table!Heap
<1>8. entries[c] \in [key : TableKey, value : Value, next : Entry \cup {NULL}]
  BY <1>3 DEF TableInv, Table!TypeOK
<1>9. entries'[c].key = entries[c].key /\ entries'[c].value = v
  BY <1>7, <1>8
<1>10. DOMAIN Table!Content' = DOMAIN Table!Content
  BY <1>1, <1>4, <1>7, <1>9 DEF TableMaps
<1>11. Table!Content'[TableId(k)] = [key |-> entries[c].key, value |-> v]
  BY <1>1, <1>3, <1>4, <1>9 DEF TableMaps
<1>12. \A i \in DOMAIN Table!Content : i # TableId(k) => Table!Content'[i] = Table!Content[i]
  <2>1. ASSUME NEW e \in Table!Heap, TableId(entries[e].key) # TableId(k)
        PROVE  Table!Content'[TableId(entries[e].key)] = Table!Content[TableId(entries[e].key)]
    <3>1. e # c
      BY <1>3, <2>1
    <3> QED
      BY <1>1, <1>4, <1>7, <3>1, SameAt
  <2> QED
    BY <1>1, <2>1 DEF TableMaps
<1>13. Table!Content'[TableId(k)] = [Table!Content[TableId(k)] EXCEPT !.value = v]
  BY <1>6, <1>11
<1>14. Table!Content = [i \in DOMAIN Table!Content |-> Table!Content[i]]
       /\ Table!Content' = [i \in DOMAIN Table!Content' |-> Table!Content'[i]]
  BY <1>1 DEF TableMaps
<1>15. Table!Content' = [Table!Content EXCEPT ![TableId(k)].value = v]
  BY <1>10, <1>12, <1>13, <1>14
<1>16. answer'.out = Table!Content[TableId(k)].value
  BY <1>4, <1>6 DEF Table!Answer
<1> QED
  BY <1>4, <1>5, <1>15, <1>16 DEF Table!Promise!Replace, Table!Promise!Answer, Table!Answer

LEMMA TableRemoveMaps ==
  ASSUME TableInv, TableInv', NEW k \in TableKey, Table!Remove(k)
  PROVE  Table!Promise!Remove(k)
<1>1. TableMaps /\ TableMaps'
  BY ContentMaps, TableMapsNext
<1>2. PICK c : c = Table!Found(k)
  OBVIOUS
<1>3. c \in Table!Heap /\ TableId(entries[c].key) = TableId(k)
  BY <1>2, HitsAre DEF Table!Remove, Table!Found
<1>4. entries' = Table!Unlinked(c) /\ Table!Answer("remove", k, TRUE, entries[c].value)
  BY <1>2 DEF Table!Remove
<1>5. Table!Heap' = Table!Heap \ {c}
  BY <1>4 DEF Table!Heap, Table!Unlinked
<1>6. \A e \in Table!Heap \ {c} : entries'[e].key = entries[e].key
      /\ entries'[e].value = entries[e].value
  <2>1. \A e \in Table!Heap \ {c} :
            entries[e] \in [key : TableKey, value : Value, next : Entry \cup {NULL}]
    BY DEF TableInv, Table!TypeOK
  <2>2. \A e \in Table!Heap \ {c} :
          entries'[e]
            = IF entries[e].next = c THEN [entries[e] EXCEPT !.next = entries[c].next]
                 ELSE entries[e]
    BY <1>4 DEF Table!Unlinked
  <2> QED
    BY <2>1, <2>2
<1>7. Table!Promise!Present(k)
  BY <1>3, PresentIs
<1>8. Table!Content[TableId(k)] = [key |-> entries[c].key, value |-> entries[c].value]
  BY <1>1, <1>3 DEF TableMaps
<1>9. \A e \in Table!Heap \ {c} : TableId(entries[e].key) # TableId(k)
  BY <1>3 DEF TableInv, KeysDiffer
<1>10. DOMAIN Table!Content' = DOMAIN Table!Content \ {TableId(k)}
  BY <1>1, <1>3, <1>5, <1>6, <1>9 DEF TableMaps
<1>11. \A i \in DOMAIN Table!Content \ {TableId(k)} : Table!Content'[i] = Table!Content[i]
  <2>1. ASSUME NEW e \in Table!Heap \ {c}
        PROVE Table!Content'[TableId(entries[e].key)] = Table!Content[TableId(entries[e].key)]
    BY <1>1, <1>5, <1>6, SameAt
  <2> QED
    BY <1>1, <1>3, <2>1 DEF TableMaps
<1>12. Table!Content' = [i \in DOMAIN Table!Content' |-> Table!Content'[i]]
  BY <1>1 DEF TableMaps
<1>13. Table!Content' = [i \in DOMAIN Table!Content \ {TableId(k)} |-> Table!Content[i]]
  BY <1>10, <1>11, <1>12
<1>14. answer'.out = Table!Content[TableId(k)].value
  BY <1>4, <1>8 DEF Table!Answer
<1> QED
  BY <1>4, <1>7, <1>13, <1>14
     DEF Table!Promise!Remove, Table!Promise!Answer, Table!Promise!Restrict, Table!Answer

LEMMA EmptyMaps == TableInv /\ Table!Heap = {} => Table!Content = Table!Promise!Nothing
<1> SUFFICES ASSUME TableInv, Table!Heap = {} PROVE Table!Content = Table!Promise!Nothing
  OBVIOUS
<1>1. DOMAIN Table!Content = {}
      /\ Table!Content = [i \in DOMAIN Table!Content |-> Table!Content[i]]
  BY ContentMaps DEF TableMaps
<1> QED
  BY <1>1 DEF Table!Promise!Nothing

LEMMA EmptyMapsNext == TableInv' /\ Table!Heap' = {} => Table!Content' = Table!Promise!Nothing
<1>1. (TableInv /\ Table!Heap = {} => Table!Content = Table!Promise!Nothing)'
  BY EmptyMaps, PTL
<1>2. Table!Promise!Nothing' = Table!Promise!Nothing
  BY DEF Table!Promise!Nothing
<1> QED
  BY <1>1, <1>2

LEMMA FailRefuses ==
  ASSUME TableInv, TableInv', NEW op, NEW k, Table!Fail(op, k)
  PROVE  Table!Promise!Refuse(op, k)
BY TableRestStutters DEF Table!Fail, Table!Answer, Table!Promise!Refuse, Table!Promise!Answer

LEMMA TableStepMaps == TableInv /\ TableInv' /\ [Table!Next]_(Table!vars)
=> [Table!Promise!Next]_(Table!Promise!vars)
<1> SUFFICES ASSUME TableInv, TableInv', [Table!Next]_(Table!vars)
             PROVE  Table!Promise!Next \/ (Table!Content' = Table!Content /\ answer' = answer)
  BY DEF Table!Promise!vars
<1> DEFINE Ops == {"set", "set_resizing"}
<1>1. CASE UNCHANGED Table!vars
  BY <1>1, TableRestStutters DEF Table!vars
<1>2. ASSUME NEW count \in Capacities, Table!Create(count) PROVE Table!Promise!Next
  <2>1. Table!Heap' = {}
    BY <1>2 DEF Table!Create, Table!Heap, TableInv, TableBounds
  <2>2. Table!Promise!Reset("create")
    BY <1>2, <2>1, EmptyMapsNext
       DEF Table!Create, Table!Answer, Table!Promise!Reset, Table!Promise!Answer
  <2> QED
    BY <2>2 DEF Table!Promise!Next
<1>3. CASE Table!CreateFails
  <2>1. Table!Promise!Refuse("create", NULL)
    BY <1>3, FailRefuses DEF Table!CreateFails
  <2> QED
    BY <2>1 DEF Table!Promise!Next
<1>4. CASE Table!Destroy
  <2>1. Table!Heap' = {}
    BY <1>4, ChainedAreAll DEF Table!Destroy, Table!Heap
  <2>2. Table!Promise!Reset("destroy")
    BY <1>4, <2>1, EmptyMapsNext
       DEF Table!Destroy, Table!Answer, Table!Promise!Reset, Table!Promise!Answer
  <2> QED
    BY <2>2 DEF Table!Promise!Next
<1>5. ASSUME NEW k \in TableKey, NEW op \in Ops, NEW v \in Value, Table!Replace(op, k, v)
      PROVE  Table!Promise!Next
  <2>1. Table!Promise!Replace(op, k, v) /\ answer'.key = k
    BY <1>5, TableReplaceMaps DEF Table!Replace, Table!Answer
  <2> QED
    BY <2>1 DEF Table!Promise!Next
<1>6. ASSUME NEW k \in TableKey, NEW op \in Ops, NEW v \in Value, Table!Insert(op, k, v)
      PROVE  Table!Promise!Next
  <2>1. Table!New \notin Table!Heap /\ Table!Link(Table!New, k, v, buckets)
        /\ Table!Answer(op, k, TRUE, NULL)
        /\ \A e \in Table!Heap : TableId(entries[e].key) # TableId(k)
    BY <1>6, HitsAre DEF Table!Insert, Table!HasFree, Table!New
  <2>2. Table!Promise!Insert(op, k, v) /\ answer'.key = k
    BY <2>1, TableInsertMaps DEF Table!Answer
  <2> QED
    BY <2>2 DEF Table!Promise!Next
<1>7. ASSUME NEW k \in TableKey, NEW op \in Ops \cup {"remove"}, Table!Fail(op, k),
             Table!Hits(k) = {}
      PROVE  Table!Promise!Refuse(op, k) /\ ~Table!Promise!Present(k) /\ answer'.key = k
  <2>1. ~Table!Promise!Present(k)
    BY <1>7, HitsAre, PresentIs DEF Table!Fail
  <2> QED
    BY <1>7, <2>1, FailRefuses DEF Table!Fail, Table!Answer
<1>8. ASSUME NEW k \in TableKey, NEW op \in Ops, Table!SetFails(op, k)
      PROVE  Table!Promise!Next
  <2>1. Table!Promise!Refuse(op, k) /\ ~Table!Promise!Present(k) /\ answer'.key = k
    BY <1>7, <1>8, SetFailsRests
  <2> QED
    BY <2>1 DEF Table!Promise!Next
<1>9. ASSUME NEW k \in TableKey, NEW v \in Value, Table!StartMoving(k, v)
      PROVE  Table!Content' = Table!Content /\ answer' = answer
  BY <1>9, SameMapStep DEF Table!StartMoving, Table!Heap
<1>10. ASSUME NEW k \in TableKey, Table!Remove(k)
       PROVE  Table!Promise!Next
  <2>1. Table!Promise!Remove(k) /\ answer'.key = k
    BY <1>10, TableRemoveMaps DEF Table!Remove, Table!Answer
  <2> QED
    BY <2>1 DEF Table!Promise!Next
<1>11. ASSUME NEW k \in TableKey, Table!RemoveFails(k)
       PROVE  Table!Promise!Next
  <2>1. Table!Promise!Refuse("remove", k) /\ ~Table!Promise!Present(k) /\ answer'.key = k
    BY <1>7, <1>11 DEF Table!RemoveFails
  <2> QED
    BY <2>1 DEF Table!Promise!Next
<1>12. CASE Table!Move
  <2>1. Table!Heap' = Table!Heap /\ answer' = answer
    BY <1>12 DEF Table!Move, Table!Heap
  <2>2. PICK c, l : entries' = [entries EXCEPT ![c].next = l]
    BY <1>12 DEF Table!Move
  <2>3. \A e \in Table!Heap :
            entries[e] \in [key : TableKey, value : Value, next : Entry \cup {NULL}]
    BY DEF TableInv, Table!TypeOK
  <2>4. \A e \in Table!Heap : entries'[e].key = entries[e].key
        /\ entries'[e].value = entries[e].value
    BY <2>2, <2>3 DEF Table!Heap
  <2> QED
    BY <2>1, <2>4, SameMapStep
<1>13. CASE Table!NextBucket
  BY <1>13, SameMapStep DEF Table!NextBucket, Table!table, Table!Heap
<1>14. CASE Table!EndMoving
  <2>1. TableGrowth /\ Table!Link(moving.entry, moving.key, moving.value, moving.buckets)
        /\ Table!Answer("set_resizing", moving.key, TRUE, NULL)
    BY <1>14 DEF Table!EndMoving, TableInv, TableBounds
  <2>2. Table!Promise!Insert("set_resizing", moving.key, moving.value)
          /\ answer'.key = moving.key
    BY <2>1, TableInsertMaps DEF TableGrowth, Table!Answer
  <2>3. moving.key \in TableKey /\ moving.value \in Value
    BY <2>1 DEF TableGrowth
  <2>4. PICK k \in TableKey, v \in Value : Table!Promise!Insert("set_resizing", k, v)
        /\ answer'.key = k
    BY <2>2, <2>3
  <2> QED
    BY <2>4 DEF Table!Promise!Next
<1> QED
  BY <1>1, <1>2, <1>3, <1>4, <1>5, <1>6, <1>8, <1>9, <1>10, <1>11, <1>12, <1>13, <1>14
     DEF Table!Next, Table!Step

LEMMA TableInitMaps == Table!Init => Table!Promise!Init
<1> SUFFICES ASSUME Table!Init PROVE Table!Promise!Init
  OBVIOUS
<1>1. TableInv /\ Table!Heap = {}
  BY TableInitInv DEF Table!Init, Table!NoEntries, Table!Heap
<1> QED
  BY <1>1, EmptyMaps DEF Table!Init, Table!Promise!Init

------------------------------------------------------------------------------
(* The run: a caller uses one of the two, the other rests.                 *)
LookupsInv == IndInv /\ TableInv

LEMMA LookupsStep ==
  [LookupsNext]_lookupsVars => [Next]_vars /\ [Table!Next]_(Table!vars)
BY DEF LookupsNext, lookupsVars, tableVars, Table!vars, Table!table

LEMMA LookupsInductive == LookupsSpec => []LookupsInv
<1>1. LookupsInit => LookupsInv
  BY InitIndInv, TableInitInv DEF LookupsInit, LookupsInv
<1>2. LookupsInv /\ [LookupsNext]_lookupsVars => LookupsInv'
  BY LookupsStep, NextKeepsInv, TableStepKeeps DEF LookupsInv
<1> QED
  BY <1>1, <1>2, PTL DEF LookupsSpec

(* Between any two steps of hash_table.c, those of a growth too, every     *)
(* entry hangs from the bucket of its hash, once, and nothing leaks.       *)
THEOREM TableInOrder == LookupsSpec => []TableWellFormed
<1>1. LookupsInv => TableWellFormed
  BY TableInvWellFormed DEF LookupsInv, TableWellFormed
<1> QED
  BY <1>1, LookupsInductive, PTL

(* set_resizing leaves no table above the threshold that was within it     *)
(* before, whatever the capacity.                                          *)
THEOREM LoadBounded == LookupsSpec => LoadStaysBounded
<1>1. LookupsInv /\ [LookupsNext]_lookupsVars => [TableLoadStep]_(Table!vars)
  <2> SUFFICES ASSUME LookupsInv, [LookupsNext]_lookupsVars PROVE [TableLoadStep]_(Table!vars)
    OBVIOUS
  <2>1. TableInv /\ [Table!Next]_(Table!vars)
    BY LookupsStep DEF LookupsInv
  <2> QED
    BY <2>1, TableLoadKept
<1>2. LookupsSpec => [][TableLoadStep]_(Table!vars)
  BY <1>1, LookupsInductive, PTL DEF LookupsSpec
<1> QED
  BY <1>2 DEF LoadStaysBounded, Table!LoadStaysBounded, TableLoadStep

(* hash_table.c is the finite map of module Dictionary, however it was     *)
(* sized and grew.                                                         *)
THEOREM DictionaryImplemented == LookupsSpec => ImplementsDictionary
<1>1. LookupsInit => Table!Promise!Init
  BY TableInitMaps DEF LookupsInit
<1>2. LookupsInv /\ LookupsInv' /\ [LookupsNext]_lookupsVars
        => [Table!Promise!Next]_(Table!Promise!vars)
  BY LookupsStep, TableStepMaps DEF LookupsInv
<1>3. LookupsInv /\ LookupsInv' /\ [LookupsNext]_lookupsVars
        => [kind = "table" => [Table!Promise!Next]_(Table!Promise!vars)]_lookupsVars
  BY <1>2
<1> QED
  BY <1>1, <1>3, LookupsInductive, PTL DEF LookupsSpec, ImplementsDictionary
==============================================================================
