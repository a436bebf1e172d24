# Verification of the C data structures and algorithms

TLA+ models of the library under `src/`, TLC configurations that check them on small
instances, and proofs, checked by TLAPS, that the main properties hold for every
instance. Paths below are relative to `src/src/`.

1. [The system](#1-the-system)
2. [What makes it hard](#2-what-makes-it-hard)
3. [Modules and the code they model](#3-modules-and-the-code-they-model)
4. [Runs, bounds and fairness](#4-runs-bounds-and-fairness)
5. [What is proved](#5-what-is-proved)
6. [What is only model-checked](#6-what-is-only-model-checked)
7. [Where the code differs from its documentation](#7-where-the-code-differs-from-its-documentation)
8. [What is not modelled](#8-what-is-not-modelled)
9. [Plan](#9-plan)

## 1. The system

A single-threaded C library of containers, graph representations and algorithms. A
caller owns the items; the containers keep pointers. Every call returns a bool; results
go to output locations that a failed call leaves alone. The only thing outside the
control of a call is whether `malloc` or `realloc` returns memory, and, for the
algorithms, what the callbacks they are given answer.

| Component | State it keeps | Operations | Correct when |
|---|---|---|---|
| Queue (`linear/queues/queue`) | ring buffer: head, tail, size, capacity | create, destroy, enqueue, dequeue, peek, size | FIFO across wrap-around and growth; indexes inside the buffer; no stale pointer |
| Stack (`linear/stacks/stack`) | array, size | create, destroy, push, pop, peek, size | LIFO; a failed realloc changes nothing |
| DynamicArray (`linear/arrays/dynamic-array`) | array, size | get, set, insert, append, pop, remove_at | a sequence; shifts lose nothing |
| SinglyLinkedList, DoublyLinkedList (`linear/linked`) | nodes, head, (tail,) size | get, set, insert, append, remove_at, and a GraphView | a sequence; links agree in both directions; no node leaks |
| HashTable (`associative/hash-tables/separate-chaining`) | bucket heads, chains of entries, size | set, set_resizing, get, contains, remove | a map; no entry lost while buckets are rebuilt; load bounded |
| BinaryHeap (`trees/heaps/binary-heap`) | array, size | push, pop, peek, a GraphView | a bag whose least item comes out; heap order between calls |
| BinarySearchTree (`trees/binary-search-trees`) | nodes with two links, root, size | insert, remove, find, three walks, a GraphView | a set in order; the view numbers nodes as the walk does |
| PrefixTrie (`trees/tries/prefix-trie`) | nodes with growing arrays of children, marks | insert, contains, starts_with, remove, a GraphView | a set of keys; no dead branch; insertion atomic |
| AdjacencyList, AdjacencyMatrix (`graphs/representations`) | nodes, edge records or cells, edge count | add_node, add_edge, (remove_edge,) has_edge, neighbors | one weighted graph; undirected edges symmetric; failed calls change nothing |
| UnionFind (`graphs/disjoint-sets`) | parents, ranks, set count | find, union, connected | a partition; compression changes no answer; depth logarithmic |
| GraphView (`graphs/view`) | none: a table of callbacks | node_count, neighbors, ... | passes the call on |
| Breadth- and depth-first search (`algorithms/graph-traversal`) | flags, a queue or a stack | one call | visits exactly what can be reached, each once; layers in order |
| Dijkstra (`algorithms/shortest-paths/dijkstra`) | distances, parents, settled flags, a heap of proposals | one call | shortest distances; a tree of tight parents; overflow reported |
| A* (`algorithms/shortest-paths/a-star`) | as Dijkstra, and a path | one call | an optimal path for admissible heuristics |
| Kruskal (`algorithms/minimum-spanning-trees`) | candidates, a sorted array of pointers, a union-find | one call | a least spanning forest; fails only when it must |
| Sorts and searches (`algorithms/sorting`, `algorithms/searching`) | the caller's array | one call | a sorted permutation; an index that holds the item |
| Benchmark harness (`../bench/benchmark.c`) | samples, the running batch | benchmark_run | every batch prepared is released; the samples fit; the median is one |

How they interact. Breadth-first search runs on the queue, depth-first search on the
stack, Dijkstra and A\* on the heap, Kruskal on the union-find and the quick sort. The
graph algorithms see a graph through a GraphView: a call of `graph_view_neighbors` calls
back into the algorithm once for each neighbor, and the algorithm may stop it by
returning false. Heap, search tree, trie and lists lend a read-only GraphView of
themselves. The benchmark harness calls back into a program's setup, operation, verification and
teardown.

## 2. What makes it hard

Nothing runs concurrently and nothing is persisted, so the hazards are those of
sequential code over shared mutable structure. `PROJECT.json` lists each at its line:

- **protocol sequences**: histories of legal calls that only together reach the critical
  layout, such as growth of a wrapped ring, removal of a node whose successor is far away,
  a matrix that has grown twice;
- **partial failure**: memory that runs out between the two stores of an undirected edge,
  half way along a new suffix of the trie, or with proposals still in the heap;
- **loops that break the invariant and repair it**: sifting, path compression, rehashing
  in place, enumerating neighbors from inside a callback, partitioning with three indexes;
- **numeric edges**: byte counts near `SIZE_MAX`, distances near `UINT64_MAX`, unsigned
  indexes that pass zero;
- **stale state**: outdated heap proposals, slots that keep freed pointers, selected edges
  stored in the array that is still being read, parents rewritten after a goal was proposed.

What turns such a loop into something to check is the grain of the model. A call is one
action where its intermediate states cannot be seen and hold no claim worth making; it is
one action per turn where the turns carry a loop invariant, where a callback or an
allocation can stop the call in the middle, or where termination is in doubt.

## 3. Modules and the code they model

### What all modules share

`CSize` has `size_t` arithmetic. `Wrap(n)` is an unsigned result, `Fits(n)` the check every
growth makes, and `SlotsGranted(n)` the number of slots that the possibly wrapped byte
count `n * sizeof(void *)` really buys. A buffer is a function whose domain is the slots
*granted*, not the slots the capacity field claims: a missing overflow check shows as an
index outside that domain or as a shape invariant that fails. `SizeMax` is a parameter, so
a small instance reaches it.

`blocks` counts the heap blocks the calls of a component have allocated and not freed (in
HashTable, those that are not entries already in the table); the invariants say it equals what
the structure can still free.
`reply` is what the last call returned, with the marker `Untouched` for an output that was
not written. A failed call is `Fail(op)`: all state unchanged, and any of its causes (no
container, bad argument, no memory) may be behind it. A call on the trie, the hash table or a
graph that allocates several blocks can fail with some of them made. There the action chooses
what was made (`Partial`; in `SetFails` the entry or nothing) and frees what the code frees (`Deleted` in the trie,
`Discarded` in the others), so that a block forgotten on the way out would stay in `blocks`
although nothing can free it. Two kinds of failure that also free blocks are taken at their net effect:
those of a create call, and those before the first turn of an algorithm. `live` is FALSE while
the caller holds no container, so create and destroy repeat.

### Abstract specifications and the modules that implement them

| Promise | What it says | Implemented by |
|---|---|---|
| `Fifo` | a sequence; enqueue at the back, dequeue at the front, failed calls change nothing | `RingQueue` |
| `PriorityQueue` | a bag of items; pop and peek give one of the lowest rank | `BinaryHeap` |
| `Partition` | a labelling of elements; union merges two groups, find and connected change nothing | `UnionFind` |
| `Dictionary` | a finite map from logical keys to values, each under its first pointer | `HashTable` |
| `OrderedSet` | a set of items of distinct ranks | `SearchTree` |
| `ItemList` | a sequence with insertion, removal and replacement at an index | `Stack`, `DynamicArray`, `SinglyLinkedList`, `DoublyLinkedList` |
| `WeightedGraph` | nodes, and a weight for each ordered pair that is joined; one edge count per logical edge | `AdjacencyList`, `AdjacencyMatrix` |

Each implementing module has a `Promise == INSTANCE ... WITH` and computes the abstract
state from its own: `Contents` unrolls the ring or walks the links, `Stored` counts the
items of the heap, `RootOf` follows the parents, `Shown` reads the records or the cells.
Where a call takes several actions the abstract step happens at one of them: the heap's at
`Push`/`Pop`, before the sift (the bag is then already right); the union's at `Link`; the
growing set of the hash table at `EndMoving`; the undirected edge of the list at
`AddReverse` (`Settled` hides the half that may still be rolled back). All other actions
are stuttering steps.

### Containers

- **RingQueue** (`queue.c`). `Enqueue` stores at the tail; `EnqueueGrowing` is the same call
  through the resize, where `Unwrapped` is the copy loop; `EnqueueFails` is a full buffer
  whose growth is refused or out of memory. `Dequeue` clears the slot it leaves.
- **BinaryHeap** (`binary_heap.c`). `Push`/`PushGrowing` place the item and enter the loop;
  `SiftUp`, `SiftUpEnds`, `SiftDown`, `SiftDownEnds` are its turns; `pc` and `n` are the
  position in it. `Pop` keeps the order of the code's stores: the output, the last item to
  the root, then NULL to the last slot, which also clears the root of a heap of one.
- **UnionFind** (`union_find.c`). `Walk` and `Compress` are the two loops of find; `union` and
  `connected` run find twice, `FirstFound` in between, with the first root held in a local
  across the second find's compression.
- **PrefixTrie** (`prefix_trie.c`). A node is the path that leads to it. `children[p]` keeps
  slot order because `remove` scans it and a removed child is replaced by the last one.
  `Target` is the scan of `recursively_remove`, with the key pointer it advances;
  `Unneeded` is what the unwind deletes; `InsertBuilds` links a suffix that was built apart. `InsertFails`
  is the same suffix cut short: its last nodes may be lacking, or all nodes are there and an array is
  lacking, and each frame of the recursion calls `recursively_delete` (`Deleted`) on its own node. Nodes have
  addresses of their own, so an insertion that would need more of them than a `size_t` can count fails.
- **HashTable** (`hash_table.c`). Entries have addresses and `next` links; `Chain` is what the links lead to. Only the growing
  `set_resizing` takes several actions: `StartMoving`, which makes the new entry and the larger
  buckets, a `Move` per entry, `NextBucket`, `EndMoving`. `SetFails` may have made the entry before the
  buckets were refused. `Id` and `Hash` stand for the caller's equals and hash callbacks.
- **SearchTree** (`binary_search_tree.c`). Nodes have addresses and two links; removal follows
  the code's cases (leaf, one child, successor adjacent or deeper, at the root or below). The
  view's numbering is computed both ways the adapter does.
- **Stack, DynamicArray, SinglyLinkedList, DoublyLinkedList**. Array items are slots, list
  nodes have addresses; a walk is a function on the number of steps, from the nearer end in the
  doubly linked list.
- **AdjacencyList, AdjacencyMatrix**. In the list an undirected `add_edge` is `AddForward`
  and then `AddReverse` or `RollBack`, with the locals of the call in `half`. A node or record is made
  before the array that is to hold it grows, and a matrix makes its node and its new array of nodes
  before the one of cells; the failing calls free what they made. In the matrix
  `Remapped` moves each cell from `row * old + column` to `row * new + column`, and `Address`
  wraps as the C product does.

### Algorithms

- **Dijkstra** (`dijkstra.c`). `Begin`, then `Settle` or `DropStale` for each pop, and one
  `RelaxKeeps`, `RelaxImproves` or `RelaxFails` per callback, in any order of the neighbors.
  The heap is used as `PriorityQueue` promises. Distances are words of `Infinity`
  = UINT64_MAX, so the check for overflow has its real meaning.
- **Traversal** (`breadth_first_search.c`, `depth_first_search.c`). `Visit` takes from the front
  or from the top; `Put` and `Skip` are the callback; `VisitStops`, `PutFails` and `ViewFails`
  leave in the middle.
- **Kruskal** (`kruskal.c`). `Collect` and `Passed` are the callback that keeps each edge from its
  lower end; `Sort` builds the array of pointers and puts each edge behind those that come before it; `Select`, `Reject` and `TooHeavy` are the
  turns of the loop that stores its result in the front of the array it reads. `NoRoom` is the last
  check; only what follows it writes the outputs (`OutputIsLast`).
- **AStar** (`a_star.c`). As Dijkstra's search, but without settled flags: a vertex whose score
  falls after it was expanded is expanded again, and `DropStale` compares g where the heap orders
  by f. `estimate` is any function the instance offers, consistent or not. When the goal is taken,
  the walk back over `parents` is one `WalkBack` per vertex, and its allocation can fail.
- **ComparisonSorts** (the six files of `sorting/comparison`). One action per turn of each loop;
  `at` holds the locals of the loop the call is in, `todo` the windows that the recursion of
  quick_sort and merge_sort has still to visit. An item is its key and the place it came from, so
  that stability and lost items can be told. Quick sort's downward scan wraps as a `size_t` does,
  and heap_sort's parent index is converted to an int of `IntMax`, as in the code.
- **DistributionSorts** (`counting_sort.c`, `radix_sort.c`). `TallyTotals`, one `Place` per key from
  the back, `CopyBack`, and `NextPass` with its own allocations, each of which may fail.
- **Searches** (`binary_search.c`, `linear_search.c`). One action per probe, with the window as state.

### The harness

- **Benchmark** (`bench/benchmark.c`). `benchmark_run` as the life of a batch: setup, start, the
  repeated operation, stop, verify, teardown; the warmup batch first, then the samples. Every
  callback except teardown, the clock and malloc may fail at every place. A missing callback is one
  that does nothing. `Ascending` is what qsort leaves, and the median is
  computed from it as the code does.

A definition named "Fault: ..." in its comment is a plausible mistake in the definition below
it. It is used by nothing; each property of a passing run is known to fail when the named
definition is replaced by its faulty form, so that no property holds by the shape of the model.

### Modules for TLC

`MCDijkstra` gives values to constants. The other MC modules check several
components in one run: a variable `kind` picks the component in the initial state and only that
component moves, so the run is the union of the runs of its parts and each property is
checked of all of them. They also assert the assumptions of the modules they instantiate.

| Module | Components |
|---|---|
| `MCTrees` | binary heap, prefix trie |
| `MCShortestPaths` | Dijkstra (through `MCDijkstra`), A\* |
| `MCContainers` | search tree, queue, stack, array, both lists |
| `MCLookups` | union-find, hash table |
| `MCWeightedGraphs` | adjacency list, adjacency matrix |
| `MCGraphAlgorithms` | both traversals, Kruskal |
| `MCSorts` | searches, comparison sorts, distribution sorts, benchmark harness |

## 4. Runs, bounds and fairness

| Run | Instance | What it shows |
|---|---|---|
| `trees` | heap: 4 items, two of equal rank, SizeMax 63: capacities 3, 7, the next refused; trie: 7 keys, 5 of them siblings (capacities 2, 4 and the growth to 8 refused by SizeMax 39) and two below one of them | the loop invariant of both sifts, the heap's view, a priority queue; links, marks and blocks of the trie, no dead branch, its view; a stored key is removed, alone |
| `shortest_paths` | Dijkstra: all 4096 graphs over 6 pairs (a loop, two opposite pairs) of 3 vertices, weights 0, 1, 3, largest word 4, every source; A\*: 4 vertices, two routes joined to a cycle before the last edge to the goal, weights 0, 1, 3, largest word 6, estimates from {0, 2, 4} | tight parents, loop invariants, distances and routes equal to Bellman and Ford's, settled is final, termination |
| `containers` | 1 item and NULL; queue: SizeMax 127 bytes, pointers of 8, so capacities 2, 4, 8, and the growth to 16 refused by the byte count; stack and array: SizeMax 39, so 4 slots; 5 list nodes; search tree: 6 items of 5 ranks, 5 nodes | shape and memory of all six, their views, no stale pointer, FIFO, a sequence, an ordered set |
| `weighted_graphs` | list: 3 nodes, 3 edges, SizeMax 39; matrix: cells of 16 bytes, SizeMax 511, 2 edges, growth refused by the byte count of the cells; 2 weights | mirrored edges, memory, one weighted graph |
| `lookups` | sets of 0 to 4 elements; tables created with 0, 2 or 5 buckets (5 is refused by SizeMax 39, which also stops growth past 4 buckets), 4 pointers of 3 logical keys with hashes 0, 2, 4, 3 entries | forest shape, logarithmic rank, compression, a partition; chains whole between any two moves, load bounded, a map; termination |
| `graph_algorithms` | traversals: all 512 graphs of 9 pairs of 4 vertices; Kruskal: all 729 graphs of 4 vertices, weights 1 and 3, largest word 5, room for 2 or 3 edges | loop invariants, reachability, layers, least forest, no output of a failed call, failure only when too heavy or without room, termination |
| `sorts_and_searches` | comparison sorts: every array of up to 5 items of 3 keys; distribution sorts: up to 4 keys of {0, 1, 2, 5, 8, 15} with bytes of 2 values; searches: up to 7 items of 3 keys; harness: up to 4 samples, 3 durations | window and loop invariants, sorted stable permutations, memory, hits and misses, released batches, termination |
| `prefix_trie_remove`, `dijkstra_farthest`, `heap_sort_int`, `radix_sort_failure` | as above; heap sort with INT_MAX 1 and 6 items | violations, see section 7 |

**Why these bounds are enough to be interesting.** Each was chosen by the smallest instance in
which the critical case exists, and the faulty definitions confirm that it is met. A ring needs 4
slots to grow while wrapped and 8 for a second growth of an unrolled one. A heap of 7 has
three levels, so that a sift takes two turns and an index has both children. Four
elements give a rank of 2 and a path that compression shortens. A search tree of 5 nodes is
the smallest where a removed node's successor is not its child and has a child. With 5 list nodes
both walks of the doubly linked list take two steps. Three vertices with a zero weight,
a loop and a largest word below the largest sum give ties, stale proposals, distances equal to
the word and overflow. Four vertices give Kruskal a cycle whose rejected edge would overflow, and
A\* a vertex that is expanded, improved and expanded again while the goal is already proposed. Five
items with three keys give quick sort a partition with all of less, equal and greater on both
sides, and heap sort three levels; four passes over bytes of two values are radix sort's
real number of passes. Medians of both parities need samples of 1 to 4. With 7 items binary search
takes three probes.
The arithmetic bounds `SizeMax` (bytes), `WeightMax` and `Infinity` are parameters of the code's own
types, `IntMax` that of an int; `MaxEdges`, `ListEdges`, `MaxNodes`, `MaxElements`, `MaxCount`,
`MaxSearched`, `MaxKeys`, `Address`, `Entry`, `Shapes` and `Durations` bound the instance.

**Symmetry** is used on items or addresses that the code compares for equality only, in runs
that check safety: `containers`.

**Fairness.** Weak fairness on the turns of a call that has begun (`Step` or `Turn`), and on
nothing a caller does. The code justifies it: the library is single-threaded and a loop waits for
nothing, so a call that can take a turn takes it. An allocation that fails, a view that fails or a
visitor that stops only ends a call sooner, so a fairness that treats them as alternatives to
going on asks nothing of the environment. `SearchesEnd` and `EveryCallEnds` then say that the loops
terminate: that compression, rehashing, draining stale proposals, reopening vertices, searching
cyclic graphs, partitioning and halving windows make progress. For the harness it assumes that the
callbacks return.

**Deadlock** is checked except in `graph_algorithms`, where Kruskal's one call ends in `done`
and nothing follows.

## 5. What is proved

TLAPS checks these for all values of the constants: every SIZE_MAX, every pointer size, every
set of items and every graph. The assumptions are those named in the modules and nothing else:
`SizeAssumption` (SIZE_MAX is a number and a pointer has a size), `ContainersAssumption` (the
markers for uninitialised and unwritten memory are not items; items of the search tree have ranks that are
numbers; the addresses of nodes are finitely many, and NULL is none of them), `HeapAssumption` (the
comparator ranks the items; NULL is not pushed; a pointer has at least 2 bytes and 3
pointers can be allocated), `TrieAssumption` (keys are nonempty sequences of characters, and two pointers
can be allocated), Dijkstra's `GraphAssumption` (weights are words),
A\*'s `RouteAssumption` (weights are words, an estimate is a function to words, a request names two vertices),
`TraversalAssumption` (edges join vertices),
`KruskalAssumption` (two or more vertices, weights are words, the mark of no edge is not one), `ElementsAssumption` (the number of elements is one),
`TableAssumption` (the hash of a key is a number; NULL is neither an entry nor a key; entries have
addresses of their own, so there are no more of them than a `size_t` can count),
the list's `GraphAssumption` and `MatrixAssumption` (a cell has a size, what marks an empty cell is not an edge, and edge
records have addresses of their own), `SearchAssumption` and `SortAssumption` (compare orders the items as numbers, and an array has no
more items than a `size_t` can count), and `DistributionAssumption` (a key is a number of four bytes,
a byte has at least two values). `HeapFits`, where a theorem asks for it, says that an int holds the
index of the last parent of the longest array; without it heap sort does not sort (section 7). The
run `sorts_and_searches` satisfies it.

| Theorem | Says |
|---|---|
| `MCContainersProofs!ContainersStayWellFormed` | `ContainersSpec => []ContainersWellFormed` |
| `MCContainersProofs!NoStalePointer` | `ContainersSpec => []StaleSlotsClear` |
| `MCContainersProofs!QueueIsFifo` | `ContainersSpec => ImplementsFifo` |
| `MCContainersProofs!ListsKeepItems` | `ContainersSpec => ImplementsItemList` |
| `MCContainersProofs!TreeIsOrderedSet` | `ContainersSpec => ImplementsOrderedSet` |
| `MCTreesProofs!MemoryCorrect` | `Spec => []WellFormed` |
| `MCTreesProofs!SiftCorrect` | `Spec => []SiftInvariant` |
| `MCTreesProofs!RootCorrect` | `Spec => []LeastAtRoot` |
| `MCTreesProofs!ViewCorrect` | `Spec => []ViewIsHeap` |
| `MCTreesProofs!PriorityQueueImplemented` | `Spec => ImplementsPriorityQueue` |
| `MCTreesProofs!TrieStaysWellFormed` | `TreesSpec => []TrieWellFormed` |
| `MCTreesProofs!TrieRemovesKeys` | `TreesSpec => RemovesStoredKey` |
| `MCLookupsProofs!ForestCorrect` | `Spec => []WellFormed` |
| `MCLookupsProofs!PartitionImplemented` | `Spec => ImplementsPartition` |
| `MCLookupsProofs!ForestIsFlat` | `Spec => []RankIsLogarithmic` |
| `MCLookupsProofs!TableInOrder` | `LookupsSpec => []TableWellFormed` |
| `MCLookupsProofs!LoadBounded` | `LookupsSpec => LoadStaysBounded` |
| `MCLookupsProofs!DictionaryImplemented` | `LookupsSpec => ImplementsDictionary` |
| `MCShortestPathsProofs!MemoryCorrect` | `Spec => []WellFormed` |
| `MCShortestPathsProofs!ParentsCorrect` | `Spec => []ParentsAreTight` |
| `MCShortestPathsProofs!LoopCorrect` | `Spec => []LoopInvariant` |
| `MCShortestPathsProofs!SettledStays` | `Spec => SettledIsFinal` |
| `MCShortestPathsProofs!DistancesCorrect` | `Spec => []GreatestPotential` |
| `MCShortestPathsProofs!ShortestCorrect` | `Spec => []ShortestWhenComplete` |
| `MCShortestPathsProofs!StarKeepsInvariant` | `SearchesSpec => []StarInvariant` |
| `MCShortestPathsProofs!StarFindsLightest` | `SearchesSpec => []RouteIsLightest` |
| `MCGraphAlgorithmsProofs!LoopCorrect` | `Spec => []WellFormed` |
| `MCGraphAlgorithmsProofs!ReachesAll` | `Spec => []VisitsReachable` |
| `MCGraphAlgorithmsProofs!LayersInOrder` | `Spec => []LayerByLayer` |
| `MCGraphAlgorithmsProofs!LoopsKeepInvariants` | `AlgorithmsSpec => []LoopsWellFormed` |
| `MCGraphAlgorithmsProofs!SpansWithLeast` | `AlgorithmsSpec => []SpanIsLeast` |
| `MCGraphAlgorithmsProofs!FailsOnlyWhenTooHeavy` | `AlgorithmsSpec => FailsWhenTooHeavy` |
| `MCSortsProofs!SortsWellFormed` | `Spec => []WellFormed` |
| `MCSortsProofs!SortLoopsCorrect` | `Spec => []LoopInvariant`, if `HeapFits` |
| `MCSortsProofs!SortsSort` | `Spec => []SortsOrLeaves`, if `HeapFits` |
| `MCSortsProofs!OthersSort` | `Spec => [](sort # "heap" => SortsOrLeaves)` |
| `MCSortsProofs!SearchesFind` | `ArraysSpec => []SearchInvariant` |
| `MCSortsProofs!SortLoopsKeepInvariant` | `ArraysSpec => []SortInvariant`, if `HeapFits` |
| `MCSortsProofs!SortsSortOrLeave` | `ArraysSpec => []SortedOrLeft`, if `HeapFits` |
| `MCSortsProofs!HarnessKeepsInvariant` | `ArraysSpec => []HarnessInvariant` |
| `MCWeightedGraphsProofs!GraphsStayWellFormed` | `GraphsSpec => []GraphsWellFormed` |
| `MCWeightedGraphsProofs!GraphsImplement` | `GraphsSpec => ImplementsWeightedGraph` |

**Arithmetic** has what the proofs need of the natural numbers: induction in the form that a
nonempty set of them has a least element, that a recursion along `0 .. n` has a solution, and that a
result which fits in a word does not wrap.

**Containers.** The invariant `ContainersInv` has a part for each kind of container. The containers share
variables, so each part is guarded by its kind and holds of that kind's steps alone; a step of one kind is a
stuttering step of the promises of the others (`KeepsPromises`).

*Queue.* The inductive invariant `QueueInv` adds `Addressable` to the type, the shape and the
ownership: without `Fits(capacity)` nothing excludes that `head + 1` or `size + 1` wraps
around, so the shape alone is not inductive. Four lemmas say what the ring operations do to
the sequence of items (`RingAppends`, `RingDrops`, `RingUnwraps`, `RingItemsSeq`), and one
lemma per action maps that action to an action of `Fifo`. `StaleSlotsClear` is proved on
top of `QueueInv`, because clearing one slot is enough only where `SlotOf` is injective.

*Search tree.* `TreeHeld` says that there is an assignment of a set of nodes to each node, its subtree, such
that the subtrees of two children are disjoint, lie on either side of the item of the node, and the root's is the
heap (`IsTree`, `Holds`). Three lemmas change a tree: a leaf is hung in (`HangingKeepsTree`), a
node with at most one child is bypassed (`BypassKeepsTree`), and a node with two gets the item of its
successor, which is the bypass of the leftmost node of its right subtree (`SuccessorHolds`).
That the walks of the code find what the subtrees say is proved for each of them: `TreeInduction` takes a
counterexample with a least subtree, `TreeRecursion` builds with it the solution of a
recursion over the links, and so `ReachedIs` (find), `LeftmostIs`, `BelowEnumerates` (in_order), `NodeAtIs` and
`IndexOfIs` (the adapter's two numberings, with the counter they carry) have their meaning.

*Stack, array and lists.* One item is added, taken or replaced at one place of a sequence (`Grows`, `Shrinks`,
`Changes`), and `AddStep`, `TakeStep` and `SetStep` turn that into a step of `ItemList`, whatever holds the sequence. For the
stack and the array that is `BufferInv`: the first slots in use hold items, the others NULL or what malloc left, and
`Fits(capacity)` again. The shifts of the array are the last of a row of buffers, one per turn of the loop (`OpenedIs`).
For the lists a *thread* is a sequence of all nodes, each once; `SinglyHolds(s)` and `DoublyHolds(s)` say that
the links run along `s`, in both directions for the doubly linked one. The invariant is that
there is a thread; a call is matched with the thread it leaves (`ThreadGrows`, `ThreadShrinks`), and the walks of
the code, from either end, arrive at the node of the thread with the index they are given
(`SinglyWalk`, `DoublyWalk`). `LinksAreMade` and `LinksAreCut` carry the four stores of a splice through.

**Heap.** `Inv` conjoins type, memory, `Addressable` and `SiftInvariant`. The sift invariant
says where the order may be broken (at the loop's index, upwards or downwards) and, the part
that makes it inductive, that the children of that index are already in order with its
parent, so that a swap never breaks an order behind the loop. That the root is least in a
heap of any size needs no induction over data: `LeastExists` takes the lowest index of an
item of least rank and derives a contradiction from its parent. `ViewCorrect` follows from
`SiftInvariant` and the index arithmetic of the adapter, whose own check for overflow refuses nothing
that a heap in memory has. For `PriorityQueueImplemented` the bag of the heap is counted slot by
slot: `Times` is how often an item occurs below a slot. A swap changes no count, one more slot adds
one to the count of its item, and a pop is a swap with the last slot and forgetting that slot;
`RootIsLowest` makes what was taken the lowest. The theorems are about the heap's own specification;
`TreesRunHeap` says that it makes no other steps in the run beside the trie.

**Trie.** The inductive invariant `TrieInv` is about the paths that are nodes. `Sprouts` says that siblings
differ, that a slot leads to a node and that a node hangs from a slot; so the prefixes of a node are nodes
(`PrefixesStay`) and `LinkedIs` turns what a walk follows into which paths there are (`FollowsIff`). `Grows`
adds the arrays, `Fits` of every capacity, the marks, that a leaf is marked, and that there are no more nodes
than a `size_t` can count, without which `size` could wrap. An insertion grafts a branch onto
the longest prefix that is there (`BranchIs`, `GraftSprouts`); a removal cuts the end of a path off
(`GoneIs`, `PruneShape`) and moves the last child into the slot (`CompactedIs`). That the scan of
`recursively_remove` stops at a stored key it is called for (`TargetIs`): siblings
differ, so at each node of its path the first slot that matches is that of the next node, and the scan never has to go on. For the
view, `FirstOf(p, i)` is `p` and all that is below its first `i` children; a numbering is defined by
it (`Numbers`), and `WalkLands` shows, from the leaves to the root, that a walk with the shared
counter either finds what it is after and its number, or counts exactly the nodes below
(`Lands`). So both walks follow the numbering, which by `ViewNumbers` is one of all nodes without gaps.

**Union-find.** The forest is acyclic because ranks increase along the links. `IndInv` adds
`RanksBounded` (a rank and the number of groups together never exceed the number of elements), so a
walk of `capacity` steps has met a root, and `CallHolds`, `WalkHolds` and `CompressHolds`: across all
turns of both finds, what a local holds is an element of the group the call is about, or its root.
`RootOf` is recursive, and the prover cannot be given the equation it satisfies; so
`OneLabelling` shows that any labelling that is constant along the links and fixed on the roots
gives each element its root (`Upward`, on the number of steps taken), and then each action only has
to say which labelling it produces: compression the same one, a link the one that relabels
a group. `ForestIsFlat` counts the groups: a link unites two that are disjoint, and a rank grows only over
two of the same promised size. The provers know nothing of powers, so `TwoTo` is the recursive function.

**Hash table.** The links of the entries are followed without recursion: a chain is the least set
that holds the head's entry and that no link leaves. The inductive invariant `TableInv` gives every entry a
label, the place (old or new buckets, and the index there) its chain hangs from; `Chains` says that a link
stays within its label, that a head is of its own, that no entry is linked to twice, and that
a set which holds all heads and which no link leaves is the whole heap, so that nothing is lost and nothing
runs in a circle. Three lemmas carry it through every step: an entry put before a
head (`ChainsLink`), an entry taken out after a head or after another entry (`ChainsUnlink`), and the chains
given other places (`ChainsRename`). A `Move` is the second and then the first; `NextBucket` and
`EndMoving` are the third; between two moves the entries moved so far are those labelled new. For
`DictionaryImplemented` distinct keys make `Content` a function, whose value at each key
a step changes or keeps. `LoadStaysBounded` needs of the arithmetic only that a capacity that passes the
checks is doubled without wrapping (`GrowthDoubles`).

**Dijkstra.** `IndInv` conjoins the checked invariants with `Bookkeeping`, what the loop relies
on between turns: the proposal being expanded is the one just settled, nothing in the heap
is nearer than what is settled, and the heap is finite. `ParentsAreTight` holds because an
improved vertex is never settled; that in turn needs the order of settling and weights that
are not negative. Optimality is proved in two forms. The first has no paths: a *potential* is 0 at
the source and grows along an edge by at most its weight; no path is shorter than a potential
says; and `GreatestPotential` says the reported distances are a potential (as far as the word
reaches) and every potential lies below them. The second is the recursion TLC checks:
`ShortestWhenComplete` says the distances are the least weights of paths of at most `VertexCount - 1`
edges. That every distance belongs to a path of so few edges needs that the tree of parents has no circle.
Edges may weigh 0, so the distances do not show it; `NoCircle` strengthens the invariant by a
number of hops for each settled vertex, greater than its parent's and less than the number of
vertices settled.

**A\*.** The search has no settled flags, so nothing is final and there is no order of settling to lean on.
The inductive invariant conjoins the parts of `StarInvariant` with `Bookkeeping` (the pair being
expanded has its vertex's score, and the heap is finite), `Tight` (a vertex's score is at least its
parent's plus the edge) and `Rooted`, that the parents lead to the source. Edges of weight 0 make scores
no measure of depth, so `Rooted` is stated of sets: no nonempty set of reached vertices without the source
holds the parents of all its members. `OpenedStaysRooted`: a set that the new parent of an improved vertex
closed holds both; its members whose scores are at most the new parent's were such a set
before, since no parent has a larger score than its child.
`ScoresWaitOrCarried` is the invariant that replaces settling: each score is proposed in the heap or has
been carried over every edge. `WaitsOnTheWay` concludes by induction on the edges still to go that while a
route lighter than `b` exists, some vertex on it waits with a proposal of at most `b`; with an admissible
estimate `GoalIsNearest` makes the goal's score least when the goal is taken, and with an empty heap it
makes every route too heavy (`DrainedMeans`). `WalkIsRoute` and `CostIsNotBelow` then say that the walk
back over the parents gives a simple path, of a weight that neither exceeds the goal's score nor is below
the least. Both theorems are about the specification the run checks; an instance has copies of all
definitions, so the names of this part begin with `Star`.

**Comparison sorts.** The inductive invariant `IndInv` has a part for each sort, about the states
its loops run in, and a step of one sort leaves the parts of the others alone; so there
are six proofs that share what every swap, shift and copy does to the items (`ItemsKept`). Bubble, insertion and selection sort
need little more than their loop invariant. Heap sort adds that the slots past `heap_size` are final and
not below the heap. Quick sort and merge sort keep windows still to visit in `todo`; their parts say
how the windows on that stack are nested and what is known of the items outside of them (`QuickOrder`: separated
by the pivots; `MergeOrder`, `SortedOrWaits`: a half is in order or waits), and what the three regions of a partition
or the two halves of a merge are (`PartitionFacts`, `ZipFacts`).

**Graph representations.** The matrix is seen by rows and columns (`CellOfPair`, `PairOfCell`), so that a
growth, which moves every cell, changes no edge. `MatrixInv` adds to the checked invariant that the
square of the capacity was below SIZE_MAX when it was allocated. That `edge_count` is the
number of edges needs what one more or less does to the set of edges, in an undirected graph the set of
unordered pairs (`EdgeAdded`, `EdgeDropped`). In the list a row is a sequence with one record per target, and a
record appended or given another weight changes one pair. Between the two
stores of an undirected edge its first record is there and its second is not. If that record is new it is left out
of the `SettledPairs`; if it has only been given the new weight, what was settled is the old one. `ListInv`
says that the settled edges are symmetric and counted, so a rollback settles nothing and `AddReverse`
settles both halves at once. The invariant the run checks says that no node's array is longer than the array of
nodes, which lets one check against SIZE_MAX stand for all. It is not inductive: a shorter array that is
doubled could pass the longer one. All capacities are on one *ladder*, the least set
that holds 1 and the double of each member (`OnLadder`), where a lower rung is at most half of a higher
one (`LadderHalves`). The number of blocks is counted by records and by rows that have an array.

**Distribution sorts.** The blocks of two numbers do not overlap, because the tallies below a number only
grow (`BlocksRise`), and every slot is in one (`SlotHasBlock`); so when the last key is placed all slots are
written. `Placing` says what a written slot holds: a key that was placed, in the block of its byte, in order with
all others written. A pass then brings the keys into the order of one more byte (`OneMoreByte`, `BytesDecide`),
because the last key with some byte goes to the last open slot of its block.
`MCSortsProofs` has the proofs of all algorithms on arrays, each about its own part of the
specification that the run checks; a step of one kind leaves the variables of the others alone.

**Harness.** `Bookkeeping` adds `Progress` to the checked invariant: only a timed batch reads the clock, a
failed operation is not verified, a call that samples asked for at least one sample. For the median,
`RisingExists` shows by induction that the samples can be put in order at all (one more is inserted
where the first larger one was), so that what `Ascending` chooses exists; then the samples below
the median lie before the middle of that order and those above it behind (`FewPlaces`, `MedianIsRight`).

**Searches.** `SearchIndInv` adds to the checked invariant that a binary search that runs was called for
items in order and that no search turns into the other. The window invariant is then what it says:
an item that compares less than the key rules out all before it.

**Traversals.** `IndInv` conjoins the checked invariants with `Enumerating`: the pending neighbors
are those of the vertex visited last. Reachability is stated without paths: the visited
vertices are the least set that holds the source and that no edge leaves. `HeadOnce` and `LastOnce`
say the same of both ends of the frontier, so one proof covers breadth and depth first.
`LayersInOrder` adds `Layered`: what was visited and what waits is one row in order of levels (`InLayers`),
no vertex further from the source than its place in that row, which bounds the levels by the number of
vertices; and `Ahead`: what is not marked is further away than the vertex visited last. Its step is the
visit that moves on to the next level, where `FrontierSeparates` shows that level to be all marked.

**Kruskal.** The groups a set of edges joins the vertices into are again stated without paths: with a
vertex go all that no closed set keeps apart from it. `ComponentsJoined` says what one more edge does to
them (it unites the groups of its ends), hence `OneFewer` and, by induction on the edges missing,
`FewerGroups`: a subset of a set of edges has at least as many groups, and at most one more for each edge
it lacks. A sum over a set is not available to the provers, so the weight of a set of edges is the number
of its *slices*, the pairs of an edge and a number below its weight. The exchange argument then needs
no exchange: if above each weight one set has no more edges than another, it is no heavier
(`LighterByCount`), and `NoneLighter` derives that from the numbers of groups. What it asks for is the
invariant `JoinsAll`: for every threshold, the selected edges of at most that weight join what all the
edges read so far of at most that weight join. `Copied` and `InOrder` say that the selected prefix,
written over the array that is being read, never reaches an edge still to be read, that what is not read
is as it was sorted and comes after all that was. `FailsWhenTooHeavy` is the same comparison with
the edge that overflows added to the selected ones: no spanning forest is lighter than that sum. The
only other failure of the loop is a forest that is complete and longer than the caller's array.
That the sort is one (`SortedFacts`) is derived from the place of an edge, the number of
candidates that come before it. Names of this part begin with `Span`.

## 6. What is only model-checked

Liveness: that every call ends (`SearchesEnd`, `EveryCallEnds`, and the `CallsEnd` of the components they are
made of). It is outside the prover's reach, as is anything about ENABLED.

Every invariant and every other action property and refinement of the runs is proved. Recursive functions
(`RootOf`, `Shortest`, `Within`, the walks of the lists and the trees, the scan of the trie) needed care: that
such a function satisfies its own defining equation is a library theorem with an operator as a
parameter, which the installed provers cannot instantiate. The equation was derived from CHOOSE by
hand: a solution is built level by level, and induction over numbers is replaced by `LeastExists`, by which
the set of counterexamples has a least member, which is refuted.

## 7. Where the code differs from its documentation

- **prefix_trie_remove** (`prefix_trie.c:353`). `recursively_remove` advances `key` when a child
  matches, and when the removal below that child fails it goes on scanning the siblings with the
  advanced key. With `a` and `b` stored, `prefix_trie_remove("ab")` fails below `a`, matches
  sibling `b`, deletes it and returns true. The trie's README says "Removal succeeds only for a
  stored complete key". The run `trees` shows that a key that *is* stored is always the one
  removed, so only calls with keys that are not stored are affected.
- **dijkstra_farthest** (`dijkstra.c:68`). A path of length exactly UINT64_MAX passes the
  overflow check and is then dropped because it is not below the initial distance, so the vertex
  is reported as unreachable and the call succeeds. `dijkstra.h:4` says DIJKSTRA_INFINITY
  "Marks an unreachable Node distance". `ShortestWhenComplete` states what does hold.
- **heap_sort_int** (`heap_sort.c:27`). The last parent index is kept in an int. Once `count / 2 - 1`
  exceeds INT_MAX it converts to a negative number, the heap is not built and the extraction
  loop leaves the array out of order, while the call returns true; `heap_sort.c:4` says "Sorts
  caller-owned item pointers in ascending comparison order". The run scales INT_MAX down to 1; with
  `IntMax` above the parent indexes, `sorts_and_searches` shows that heap sort sorts.
- **radix_sort_failure** (`radix_sort.c:102`). Each of the four passes allocates anew. When a later one
  fails the call returns false with the input reordered by the earlier ones; its README says
  "allocation failure must be reported cleanly and leave the input unmodified". `SortedOrLeft` states
  what does hold: no key is lost, and a failure of the first pass leaves the input as it was. An earlier
  line of the same README agrees with the code: "earlier successful passes may already have reordered
  `items`".

A remark that needs no run: a comment in `selection_sort.c` says that among equal minima the earliest
wins. The scan goes from the back to the item after `index`, so it wins among those; an item at
`index` that ties with a later one loses to it, although it is earlier. `selection_sort` is not
claimed to be stable, and `ComparisonSorts` does not count it among the `StableSorts`.

## 8. What is not modelled

- **GraphView** itself: it keeps no state. The algorithms model it as an enumeration in any order that
  may fail, and the adapters of all containers are modelled with them. What is left out is the check
  for a view that lacks a callback, which refuses the call.
- **The benchmark programs** (`bench/*_benchmark.c`): straight-line programs that fill a container,
  call `benchmark_run` and print; and in `benchmark.c` the printing and the division of times into
  nanoseconds per operation in floating point. Tests likewise.
- Comparators, hash and equality callbacks, visitors and weights come from the caller; they are
  constants (assumed to be what the headers ask for) or nondeterministic answers.
- Misuse the API cannot detect, such as an uninitialised container pointer.
- Kruskal's answer for fewer than two vertices, a constant.

## 9. Plan

Done, in this order: the queue with its promise and proofs; the heap; union-find; Dijkstra over the
heap's promise; the trie; the two graph representations; the hash table; the search tree; the lists,
array and stack; traversals, with proofs; Kruskal over the partition's promise; A\*; the sorts and
searches; the benchmark harness; the views of heap and trie; the proofs of union-find, of
the heap's promise, of the recursive distances, of the layers of breadth first search, of the searches, of
all eight sorts, of the harness, of A\*, of Kruskal's forest, of the hash table's chains, of both graph
representations, of the search tree, the stack, the array and both lists, and of the trie.

Nothing is left of this plan but what section 6 leaves to TLC.
