-------------------------------- MODULE MCTrees -------------------------------
(***************************************************************************)
(* Small instances, for TLC, of the two trees whose nodes lie in arrays    *)
(* that grow: the heap, with four items, two of equal rank, and the trie,  *)
(* with keys that share prefixes, keys that are prefixes of others, and    *)
(* more children than the first array holds.  Characters are numbers.  A   *)
(* caller uses one of the trees, the other rests.                          *)
(***************************************************************************)
EXTENDS BinaryHeap, Sequences

CONSTANTS
  TrieSizeMax,    (* SIZE_MAX for the trie, which needs fewer bytes        *)
  Char, TrieKey, NoKey

VARIABLES
  kind,        (* which of the trees it is                                 *)
  planted, children, slots, words, word_count, held, answer

MCItem == {10, 20, 21, 30}
MCRank == [x \in MCItem |-> x \div 10]
MCChar == 1 .. 5
MCKey == {<<1>>, <<2>>, <<3>>, <<4>>, <<5>>, <<1, 2>>, <<1, 2, 3>>}

Trie == INSTANCE PrefixTrie WITH
  Key <- TrieKey, SizeMax <- TrieSizeMax,
  live <- planted, capacity <- slots, size <- word_count, blocks <- held, reply <- answer

ASSUME TrieAssumption == Trie!KeyAssumption /\ Trie!SizeAssumption

TreesInit == kind \in {"heap", "trie"} /\ Init /\ Trie!Init

trieVars == <<planted, children, slots, words, word_count, held, answer>>
treesVars == <<vars, trieVars, kind>>

TreesNext ==
  \/ kind = "heap" /\ Next /\ UNCHANGED <<kind, trieVars>>
  \/ kind = "trie" /\ Trie!Next /\ UNCHANGED <<kind, vars>>

TreesSpec == TreesInit /\ [][TreesNext]_treesVars

------------------------------------------------------------------------------
(* In prefix_trie.c the nodes, their arrays of children, the counter and   *)
(* the heap blocks agree, no dead branch survives a removal, and both      *)
(* walks of the GraphView adapter number the nodes alike, in pre-order.    *)
TrieWellFormed == Trie!WellFormed /\ Trie!NoDeadBranch /\ Trie!ViewIsTree

(* prefix_trie_remove takes away a stored key it is called for, no other,  *)
(* whatever the order of the children has become.                          *)
RemovesStoredKey == Trie!RemovesStoredKey

(* prefix-trie/README.md: "Removal succeeds only for a stored complete     *)
(* key".                                                                   *)
RemovesOnlyStoredKeys == Trie!RemovesOnlyStoredKeys
==============================================================================
