------------------------------ MODULE PrefixTrie -----------------------------
(***************************************************************************)
(* The sparse trie of                                                      *)
(* src/data-structures/trees/tries/prefix-trie/prefix_trie.c.              *)
(*                                                                         *)
(* A node is named by the path of characters that leads to it, the root by *)
(* the empty path.  The order of a node's children is kept, because it     *)
(* depends on the history (a removed child is replaced by the last one)    *)
(* and the search of recursively_remove depends on it.                     *)
(***************************************************************************)
EXTENDS CSize, Sequences, FiniteSets

CONSTANTS
  Char,        (* the characters of keys, without the one that ends them   *)
  Key,         (* the keys a caller uses                                   *)
  NoKey        (* the key of a call that has none                          *)

(* The first array of children, of two pointers, does not fill the memory. *)
KeyAssumption ==
  /\ Key \subseteq Seq(Char) \ {<<>>}
  /\ NoKey \notin Seq(Char)
  /\ Fits(2)

VARIABLES
  live,        (* whether the caller holds a trie                          *)
  children,    (* the characters of each node's children, in slot order    *)
  capacity,    (* child_capacity of each node                              *)
  words,       (* the nodes that have is_end_of_word                       *)
  size,
  blocks,      (* live heap blocks of the trie: the wrapper, the nodes and *)
               (* their child arrays                                       *)
  reply        (* what the last call returned                              *)

structure == <<live, children, capacity, words, size, blocks>>
vars == <<structure, reply>>

Nodes == DOMAIN children
Occupied(p) == 1 .. Len(children[p])
Upto(k, i) == SubSeq(k, 1, i)

Answer(op, key, ok) == reply' = [op |-> op, key |-> key, ok |-> ok]

Fail(op, key) == UNCHANGED structure /\ Answer(op, key, FALSE)

Nowhere == [p \in {} |-> <<>>]

Init ==
  /\ live = FALSE
  /\ children = Nowhere /\ capacity = Nowhere /\ words = {}
  /\ size = 0 /\ blocks = 0
  /\ reply = [op |-> "none", key |-> NoKey, ok |-> TRUE]

Create ==
  /\ ~live
  /\ live' = TRUE
  /\ children' = [p \in {<<>>} |-> <<>>]
  /\ capacity' = [p \in {<<>>} |-> 0]
  /\ blocks' = blocks + 2
  /\ UNCHANGED <<words, size>>
  /\ Answer("create", NoKey, TRUE)

(* Either malloc returned NULL; the wrapper is freed again. *)
CreateFails == ~live /\ Fail("create", NoKey)

Arrays == {p \in Nodes : capacity[p] > 0}

Destroy ==
  /\ live
  /\ live' = FALSE
  /\ children' = Nowhere /\ capacity' = Nowhere /\ words' = {}
  /\ size' = 0
  /\ blocks' = blocks - (1 + Cardinality(Nodes) + Cardinality(Arrays))
  /\ Answer("destroy", NoKey, TRUE)

------------------------------------------------------------------------------
(* The walk of contains, starts_with and recursively_add: the longest      *)
(* prefix of k that child links lead to.                                   *)
Linked(p, c) == \E n \in Occupied(p) : children[p][n] = c

Follows(k, i) == \A j \in 1 .. i : Upto(k, j - 1) \in Nodes /\ Linked(Upto(k, j - 1), k[j])

Reaches(k) == Follows(k, Len(k))

Contained(k) == Reaches(k) /\ k \in words

Contains(k) ==
  /\ live
  /\ UNCHANGED structure
  /\ Answer("contains", k, Contained(k))

StartsWith(k) ==
  /\ live
  /\ UNCHANGED structure
  /\ Answer("starts_with", k, Reaches(k))

------------------------------------------------------------------------------
(* A key that is stored already is a success that changes nothing. *)
InsertAgain(k) ==
  /\ live /\ Contained(k)
  /\ UNCHANGED structure
  /\ Answer("insert", k, TRUE)

(* The nodes are there, as a prefix of longer keys. *)
InsertMarks(k) ==
  /\ live /\ Reaches(k) /\ ~Contained(k)
  /\ words' = words \cup {k}
  /\ size' = Wrap(size + 1)
  /\ UNCHANGED <<live, children, capacity, blocks>>
  /\ Answer("insert", k, TRUE)

(* The node where the missing suffix is linked, and the nodes of it. *)
Branch(k) == Upto(k, CHOOSE i \in 0 .. Len(k) - 1 : Follows(k, i) /\ ~Follows(k, i + 1))
Suffix(k) == {Upto(k, i) : i \in Len(Branch(k)) + 1 .. Len(k)}

IsFull(p) == Len(children[p]) = capacity[p]

(* Fault: growth does not check the byte count. *)
CanGrowUnchecked(p) == capacity[p] <= SizeMax \div 2

CanGrow(p) == capacity[p] <= SizeMax \div 2 /\ Fits(capacity[p] * 2)

Grown(p) ==
  IF capacity[p] = 0 THEN 2 ELSE IF IsFull(p) THEN Wrap(capacity[p] * 2) ELSE capacity[p]

(* The suffix is built detached, every node but the last with an array of  *)
(* two slots, and linked by one store when nothing can fail any more.      *)
(* malloc gives every node an address of its own.                          *)
InsertBuilds(k) ==
  /\ live /\ ~Reaches(k)
  /\ LET at == Branch(k)
         new == Suffix(k)
     IN  /\ IsFull(at) => CanGrow(at)
         /\ Cardinality(Nodes \cup new) <= SizeMax
         /\ children' = [p \in Nodes \cup new |->
              IF p = at THEN Append(children[p], k[Len(p) + 1])
              ELSE IF p \in new THEN (IF p = k THEN <<>> ELSE <<k[Len(p) + 1]>>)
              ELSE children[p]]
         /\ capacity' = [p \in Nodes \cup new |->
              IF p = at THEN Grown(p)
              ELSE IF p \in new THEN (IF p = k THEN 0 ELSE 2)
              ELSE capacity[p]]
         /\ blocks' = blocks + 2 * Cardinality(new) - 1 + IF capacity[at] = 0 THEN 1 ELSE 0
  /\ words' = words \cup {k}
  /\ size' = Wrap(size + 1)
  /\ UNCHANGED live
  /\ Answer("insert", k, TRUE)

(* What a call that fails has allocated, by depth: the detached nodes,     *)
(* those of them that have an array, and the nodes that recursively_delete *)
(* is called on as the recursion unwinds.  Either a node was lacking, and  *)
(* those above it are there without arrays, or all nodes are there and the *)
(* array that the one at depth i was to hang from was lacking or refused.  *)
Partial(k) ==
  LET first == Len(Branch(k)) + 1
  IN  {[nodes |-> first .. last, arrays |-> {}, frames |-> first .. last] :
         last \in first - 1 .. Len(k) - 1}
      \cup {[nodes |-> first .. Len(k), arrays |-> i .. Len(k) - 1, frames |-> first .. i] :
         i \in {i \in first .. Len(k) : i = first => IsFull(Branch(k))}}

(* Fault: the node is freed without what hangs from it. *)
DeletedAlone(made, d) == {d}

(* recursively_delete: the node at depth d and all that hangs from it. *)
Deleted(made, d) ==
  {e \in made.nodes : e >= d /\ \A above \in d .. e - 1 : above \in made.arrays}

(* The detached part of the suffix is freed, each frame of the recursion   *)
(* freeing its own node.                                                   *)
InsertFails(k) ==
  /\ live /\ ~Reaches(k)
  /\ \E made \in Partial(k) :
       LET gone == UNION {Deleted(made, d) : d \in made.frames}
       IN  blocks' = blocks + Cardinality(made.nodes) + Cardinality(made.arrays)
                     - Cardinality(gone) - Cardinality(gone \cap made.arrays)
  /\ UNCHANGED <<live, children, capacity, words, size>>
  /\ Answer("insert", k, FALSE)

(* There is no trie. *)
InsertRefused(k) == ~live /\ Fail("insert", k)

------------------------------------------------------------------------------
(* The slots of p from the n-th on whose child is for character c. *)
Hits(p, n, c) == {m \in Occupied(p) : m >= n /\ children[p][m] = c}

(* Fault: only a word that no other continues can be removed. *)
TargetIsLeaf(k) ==
  LET scan[i \in 1 .. Len(k) + 1] == [p \in Nodes |-> [n \in Nat |->
        IF i > Len(k) \/ Hits(p, n, k[i]) = {} THEN <<>>
        ELSE LET m == CHOOSE m \in Hits(p, n, k[i]) : \A h \in Hits(p, n, k[i]) : m <= h
                 child == Append(p, k[i])
                 below == IF i < Len(k) THEN scan[i + 1][child][1]
                          ELSE IF child \in words /\ children[child] = <<>> THEN child
                          ELSE <<>>
             IN  IF below # <<>> THEN below ELSE scan[i + 1][p][m + 1]]]
  IN  scan[1][<<>>][1]

(* The node recursively_remove takes the word mark from, <<>> if none: at  *)
(* node p it scans the children from slot n on for character i of the key. *)
(* After a child that matched but did not hold the word, the scan goes on  *)
(* with the key already advanced; past the key's end nothing matches.      *)
Target(k) ==
  LET scan[i \in 1 .. Len(k) + 1] == [p \in Nodes |-> [n \in Nat |->
        IF i > Len(k) \/ Hits(p, n, k[i]) = {} THEN <<>>
        ELSE LET m == CHOOSE m \in Hits(p, n, k[i]) : \A h \in Hits(p, n, k[i]) : m <= h
                 child == Append(p, k[i])
                 below == IF i < Len(k) THEN scan[i + 1][child][1]
                          ELSE IF child \in words THEN child ELSE <<>>
             IN  IF below # <<>> THEN below ELSE scan[i + 1][p][m + 1]]]
  IN  scan[1][<<>>][1]

(* Fault: the nodes above the removed leaf stay. *)
LeafOnly(t) == {p \in {t} : children[p] = <<>>}

(* The nodes deleted on the unwind once t is no word: t if it is a leaf,   *)
(* then each node above it that is left without a child and is no word.    *)
Unneeded(t) ==
  {p \in {Upto(t, i) : i \in 1 .. Len(t)} :
     \A q \in {Upto(t, i) : i \in Len(p) .. Len(t)} :
       /\ Len(children[q]) = IF q = t THEN 0 ELSE 1
       /\ q # t => q \notin words}

(* A slot is freed by moving the last child into it. *)
Compacted(s, c) ==
  LET n == CHOOSE n \in 1 .. Len(s) : s[n] = c
  IN  [m \in 1 .. Len(s) - 1 |-> IF m = n THEN s[Len(s)] ELSE s[m]]

Remove(k) ==
  /\ live /\ size > 0
  /\ LET t == Target(k)
         gone == Unneeded(t)
         above == Upto(t, Len(t) - Cardinality(gone))
     IN  /\ t # <<>>
         /\ words' = words \ {t}
         /\ children' = [p \in Nodes \ gone |->
              IF p = above /\ gone # {} THEN Compacted(children[p], t[Len(p) + 1])
              ELSE children[p]]
         /\ capacity' = [p \in Nodes \ gone |-> capacity[p]]
         /\ blocks' = blocks - Cardinality(gone) - Cardinality(gone \cap Arrays)
  /\ size' = size - 1
  /\ UNCHANGED live
  /\ Answer("remove", k, TRUE)

(* No trie, an empty trie, or the search found nothing to remove. *)
RemoveFails(k) ==
  /\ live /\ size > 0 => Target(k) = <<>>
  /\ Fail("remove", k)

------------------------------------------------------------------------------
Next ==
  \/ Create \/ CreateFails \/ Destroy
  \/ \E k \in Key :
       \/ Contains(k) \/ StartsWith(k)
       \/ InsertAgain(k) \/ InsertMarks(k) \/ InsertBuilds(k)
       \/ InsertFails(k) \/ InsertRefused(k)
       \/ Remove(k) \/ RemoveFails(k)

Spec == Init /\ [][Next]_vars

------------------------------------------------------------------------------
(* The GraphView adapter numbers the nodes in pre-order with a counter     *)
(* that the walks share with their recursion.  A walk is a function of the *)
(* node and the counter on entry to the node it found, NoKey if none, and  *)
(* the counter on exit; slot says the same of the walk through the first i *)
(* children.                                                               *)
NodeCount == Cardinality(Nodes)

(* Fault: the counter restarts for every child. *)
NodeAtRestarts(target) ==
  LET walk[p \in Nodes] == [current \in Nat |->
        IF current = target THEN <<p, current>>
        ELSE LET slot[i \in 0 .. Len(children[p])] ==
                   IF i = 0 THEN <<NoKey, current + 1>>
                   ELSE LET before == slot[i - 1]
                        IN  IF before[1] # NoKey THEN before
                            ELSE walk[Append(p, children[p][i])][current + 1]
             IN  slot[Len(children[p])]]
  IN  walk[<<>>][0][1]

(* prefix_trie_node_at: the node with a dense index. *)
NodeAt(target) ==
  LET walk[p \in Nodes] == [current \in Nat |->
        IF current = target THEN <<p, current>>
        ELSE LET slot[i \in 0 .. Len(children[p])] ==
                   IF i = 0 THEN <<NoKey, current + 1>>
                   ELSE LET before == slot[i - 1]
                        IN  IF before[1] # NoKey THEN before
                            ELSE walk[Append(p, children[p][i])][before[2]]
             IN  slot[Len(children[p])]]
  IN  walk[<<>>][0][1]

(* prefix_trie_index_of: the dense index of a node of this trie. *)
IndexOf(target) ==
  LET walk[p \in Nodes] == [current \in Nat |->
        IF p = target THEN <<p, current>>
        ELSE LET slot[i \in 0 .. Len(children[p])] ==
                   IF i = 0 THEN <<NoKey, current + 1>>
                   ELSE LET before == slot[i - 1]
                        IN  IF before[1] # NoKey THEN before
                            ELSE walk[Append(p, children[p][i])][before[2]]
             IN  slot[Len(children[p])]]
  IN  walk[<<>>][0][2]

(* The edges of the view, in the order a visitor meets them. *)
Neighbors(index) ==
  LET p == NodeAt(index) IN [i \in Occupied(p) |-> IndexOf(Append(p, children[p][i]))]

------------------------------------------------------------------------------
(* Every variable has its type. *)
TypeOK ==
  /\ live \in BOOLEAN
  /\ live <=> <<>> \in Nodes
  /\ \A p \in Nodes \ {<<>>} : \E k \in Key : \E i \in 1 .. Len(k) : p = Upto(k, i)
  /\ DOMAIN capacity = Nodes
  /\ words \subseteq Nodes
  /\ size \in Nat /\ blocks \in Nat
  /\ \A p \in Nodes : capacity[p] \in Nat
  /\ reply.key \in Key \cup {NoKey} /\ reply.ok \in BOOLEAN

(* The child arrays and the nodes agree: siblings differ, every node but   *)
(* the root hangs from exactly one slot, no array is overfull, and the     *)
(* bytes of an array never wrap around.                                    *)
WellLinked ==
  \A p \in Nodes :
    /\ \A m, n \in Occupied(p) : m # n => children[p][m] # children[p][n]
    /\ \A n \in Occupied(p) : Append(p, children[p][n]) \in Nodes
    /\ p # <<>> => Upto(p, Len(p) - 1) \in Nodes /\ Linked(Upto(p, Len(p) - 1), p[Len(p)])
    /\ Len(children[p]) <= capacity[p]
    /\ SlotsGranted(capacity[p]) = capacity[p]

(* No dead branch survives a removal: a leaf ends a stored key, so         *)
(* starts_with answers true only for the prefix of a key that is stored.   *)
NoDeadBranch ==
  \A p \in Nodes \ {<<>>} : children[p] = <<>> => p \in words

(* size counts the stored keys. *)
SizeCountsWords == size = Cardinality(words)

(* Nothing leaks: neither a suffix that could not be linked, whichever of  *)
(* its nodes and arrays were there already, nor a pruned branch.           *)
OwnsItsBlocks ==
  blocks = IF live THEN 1 + Cardinality(Nodes) + Cardinality(Arrays) ELSE 0

(* The nodes, their arrays, the counter and the heap blocks agree.         *)
WellFormed == TypeOK /\ WellLinked /\ SizeCountsWords /\ OwnsItsBlocks

(* The two walks of the GraphView adapter agree: an index leads to a node  *)
(* and that node back to the index, and beyond the last one to nothing.    *)
(* The view shows a tree: every index but the root's follows exactly one   *)
(* other, and that one is lower; siblings rise in slot order.              *)
ViewIsTree ==
  live =>
    LET indexes == 0 .. NodeCount - 1
        at == [i \in indexes |-> NodeAt(i)]
        next == [i \in indexes |-> Neighbors(i)]
        parents(j) == {i \in indexes : \E s \in DOMAIN next[i] : next[i][s] = j}
    IN  /\ \A i \in indexes : at[i] \in Nodes /\ IndexOf(at[i]) = i
        /\ NodeAt(NodeCount) = NoKey
        /\ parents(0) = {}
        /\ \A j \in indexes \ {0} : \E i \in 0 .. j - 1 : parents(j) = {i}
        /\ \A i \in indexes : \A s \in 2 .. Len(next[i]) : next[i][s - 1] < next[i][s]

(* Removing a key that is stored removes that key and no other, whatever   *)
(* the order of the children has become.                                   *)
RemovesStoredKey ==
  [][reply'.op = "remove" /\ reply'.key \in words =>
       reply'.ok /\ words' = words \ {reply'.key}]_vars

(* README.md: "Removal succeeds only for a stored complete key".           *)
RemovesOnlyStoredKeys ==
  [][reply'.op = "remove" /\ reply'.ok => reply'.key \in words]_vars
==============================================================================
