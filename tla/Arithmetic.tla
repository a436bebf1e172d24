----------------------------- MODULE Arithmetic ------------------------------
(***************************************************************************)
(* What the proofs need of the natural numbers.                            *)
(*                                                                         *)
(* Induction comes in the form that a nonempty set of naturals has a least *)
(* element: a proof by induction takes the set of counterexamples and      *)
(* refutes its least one.  The rest is about words of a limited width.     *)
(***************************************************************************)
EXTENDS Integers, WellFoundedInduction, TLAPS

LOCAL Less == {ss \in Nat \X Nat : ss[1] < ss[2]}

LEMMA LessIsWellFounded == IsWellFoundedOn(Less, Nat)
BY NatLessThanWellFounded DEF OpToRel, Less

(* Every nonempty set of naturals has a least element. *)
LEMMA LeastExists ==
  ASSUME NEW S, S \subseteq Nat, S # {}
  PROVE  \E m \in S : \A k \in S : m <= k
<1>1. PICK m \in S : \A k \in S : <<k, m>> \notin Less
  BY LessIsWellFounded, WFMin
<1>2. ASSUME NEW k \in S
      PROVE  m <= k
  <2>1. <<k, m>> \notin Less
    BY <1>1
  <2>2. k \in Nat /\ m \in Nat
    OBVIOUS
  <2> QED
    BY <2>1, <2>2 DEF Less
<1> QED
  BY <1>2

(* Induction up to c. *)
LEMMA Upward ==
  ASSUME NEW c \in Nat, NEW S, 0 \in S, \A k \in 1 .. c : k - 1 \in S => k \in S
  PROVE  \A k \in 0 .. c : k \in S
<1> DEFINE Bad == {k \in 0 .. c : k \notin S}
<1>1. ASSUME Bad # {} PROVE FALSE
  <2>1. Bad \subseteq Nat
    OBVIOUS
  <2> HIDE DEF Bad
  <2>2. PICK m \in Bad : \A k \in Bad : m <= k
    BY <1>1, <2>1, LeastExists
  <2>3. m \in 0 .. c /\ m \notin S
    BY <2>2 DEF Bad
  <2>4. m \in 1 .. c /\ m - 1 \in 0 .. c /\ ~(m <= m - 1)
    BY <2>3
  <2>5. m - 1 \notin Bad
    BY <2>2, <2>4
  <2>6. m - 1 \in S
    BY <2>4, <2>5 DEF Bad
  <2> QED
    BY <2>3, <2>4, <2>6
<1> QED
  BY <1>1

(* A recursion along 0 .. n has a solution. *)
Recurs(f, n, first, step) == f[0] = first /\ \A k \in 1 .. n : f[k] = step[k][f[k - 1]]

LEMMA RecursionExists ==
  ASSUME NEW n \in Nat, NEW X, NEW first \in X, NEW step \in [1 .. n -> [X -> X]]
  PROVE  \E f \in [0 .. n -> X] : Recurs(f, n, first, step)
<1> DEFINE Solves(f, m) == f[0] = first /\ \A k \in 1 .. m : f[k] = step[k][f[k - 1]]
           S == {m \in 0 .. n : \E f \in [0 .. m -> X] : Solves(f, m)}
<1>1. 0 \in S
  <2> DEFINE f == [k \in 0 .. 0 |-> first]
  <2>1. f \in [0 .. 0 -> X] /\ f[0] = first /\ \A k \in 1 .. 0 : FALSE
    OBVIOUS
  <2> HIDE DEF f
  <2> QED
    BY <2>1
<1>2. ASSUME NEW m \in 1 .. n, m - 1 \in S
      PROVE  m \in S
  <2>1. PICK f \in [0 .. m - 1 -> X] : Solves(f, m - 1)
    BY <1>2
  <2> DEFINE g == [k \in 0 .. m |-> IF k = m THEN step[m][f[m - 1]] ELSE f[k]]
  <2>2. f[m - 1] \in X /\ step[m] \in [X -> X]
    OBVIOUS
  <2>3. g \in [0 .. m -> X]
    BY <2>2
  <2>4. g[m] = step[m][f[m - 1]] /\ \A k \in 0 .. m - 1 : g[k] = f[k]
    OBVIOUS
  <2> HIDE DEF g
  <2>5. g[0] = first
    BY <2>1, <2>4
  <2>6. ASSUME NEW k \in 1 .. m PROVE g[k] = step[k][g[k - 1]]
    <3>1. CASE k = m
      <4>1. m - 1 \in 0 .. m - 1
        OBVIOUS
      <4> QED
        BY <2>4, <3>1, <4>1
    <3>2. CASE k # m
      <4>1. k \in 1 .. m - 1 /\ k \in 0 .. m - 1 /\ k - 1 \in 0 .. m - 1
        BY <3>2
      <4> QED
        BY <2>1, <2>4, <4>1
    <3> QED
      BY <3>1, <3>2
  <2>7. Solves(g, m)
    BY <2>5, <2>6
  <2> QED
    BY <2>3, <2>7
<1>3. \A m \in 0 .. n : m \in S
  <2> HIDE DEF S
  <2> QED
    BY <1>1, <1>2, Upward
<1>4. n \in S
  BY <1>3
<1> QED
  BY <1>4 DEF Recurs

(* A number that fits in a word is its own remainder. *)
LEMMA FitsInWord ==
  ASSUME NEW max \in Nat, NEW n \in 0 .. max
  PROVE  n % (max + 1) = n
OBVIOUS
==============================================================================
