---------------------------- MODULE ComparisonSorts ---------------------------
(***************************************************************************)
(* The six sorts of src/algorithms/sorting/comparison: bubble_sort,        *)
(* insertion_sort, selection_sort, heap_sort, quick_sort and merge_sort.   *)
(*                                                                         *)
(* A pointer is a key, which the comparison callback sees, and the place   *)
(* it had when the call began, which tells equal items apart.  One action  *)
(* is one turn of a loop.  The recursion of quick_sort and merge_sort is   *)
(* the sequence of the windows it has still to visit.                      *)
(***************************************************************************)
EXTENDS Integers, Sequences, FiniteSets

CONSTANTS
  Keys,        (* what compare looks at; compare(x, y) has the sign of the *)
               (* difference of the keys                                   *)
  MaxCount,    (* bound: the longest array a caller sorts                  *)
  SizeMax,     (* SIZE_MAX                                                 *)
  IntMax       (* INT_MAX; heap_sort keeps a parent index in an int        *)

SortAssumption ==
  /\ Keys \subseteq Int
  /\ MaxCount \in Nat
  /\ SizeMax \in Nat /\ MaxCount <= SizeMax
  /\ IntMax \in Nat

Sorts == {"bubble", "insertion", "selection", "heap", "quick", "merge"}
StableSorts == {"bubble", "insertion", "merge"}

VARIABLES
  items,       (* the array, from index 0 on                               *)
  sort,        (* the sort that was called last                            *)
  at,          (* the indexes and other locals of its loops                *)
  todo,        (* the windows its recursion has still to visit             *)
  temp,        (* what merge_sort has merged of the current window         *)
  blocks,      (* blocks the call has allocated                            *)
  pc,          (* "idle", or the loop the call is in                       *)
  ok           (* what the last call returned                              *)

vars == <<items, sort, at, todo, temp, blocks, pc, ok>>

Arrays(c) == [0 .. c - 1 -> Keys]
count == Cardinality(DOMAIN items)

Compare(x, y) == x.key - y.key

Swapped(i, j) == [items EXCEPT ![i] = items[j], ![j] = items[i]]

(* i - 1 of a size_t. *)
Down(i) == (i - 1) % (SizeMax + 1)

(* The conversion of a size_t to int keeps the low bits. *)
ToInt(u) ==
  LET low == u % (2 * (IntMax + 1)) IN IF low > IntMax THEN low - 2 * (IntMax + 1) ELSE low

NoLocals == [n |-> 0]
Window(first, last) == [op |-> "visit", front |-> first, back |-> last]

Init ==
  /\ \E c \in 0 .. MaxCount : \E a \in Arrays(c) :
       items = [i \in 0 .. c - 1 |-> [key |-> a[i], place |-> i]]
  /\ sort = "bubble" /\ at = NoLocals /\ todo = <<>> /\ temp = <<>>
  /\ blocks = 0 /\ pc = "idle" /\ ok = FALSE

Return(result) ==
  /\ at' = NoLocals /\ todo' = <<>> /\ temp' = <<>>
  /\ blocks' = 0
  /\ pc' = "idle" /\ ok' = result

Renumbered == [i \in DOMAIN items |-> [key |-> items[i].key, place |-> i]]

(* An argument is missing. *)
Refuse(s) ==
  /\ pc = "idle"
  /\ sort' = s /\ items' = Renumbered
  /\ Return(FALSE)

(* Nothing to sort. *)
SortFew(s) ==
  /\ pc = "idle" /\ count <= 1
  /\ sort' = s /\ items' = Renumbered
  /\ Return(TRUE)

Starts(s, loop, locals) ==
  /\ pc = "idle" /\ count > 1
  /\ sort' = s /\ items' = Renumbered
  /\ at' = locals
  /\ pc' = loop
  /\ UNCHANGED <<todo, temp, ok>>

Loops(loop) == pc = loop /\ UNCHANGED <<sort, blocks, ok>>

------------------------------------------------------------------------------
(* bubble_sort.c *)
BubbleBegins ==
  /\ Starts("bubble", "bubble", [n |-> 0, boundary |-> count - 1, swapped |-> FALSE])
  /\ UNCHANGED blocks

OutOfOrder(n) == Compare(items[n], items[n + 1]) > 0

BubbleCompares ==
  /\ Loops("bubble") /\ at.n # at.boundary
  /\ IF OutOfOrder(at.n)
     THEN /\ items' = Swapped(at.n, at.n + 1)
          /\ at' = [at EXCEPT !.n = @ + 1, !.swapped = TRUE]
     ELSE /\ at' = [at EXCEPT !.n = @ + 1]
          /\ UNCHANGED items
  /\ UNCHANGED <<todo, temp, pc>>

BubbleNextPass ==
  /\ Loops("bubble") /\ at.n = at.boundary /\ at.swapped
  /\ at' = [n |-> 0, boundary |-> Down(at.boundary), swapped |-> FALSE]
  /\ UNCHANGED <<items, todo, temp, pc>>

BubbleEnds ==
  /\ pc = "bubble" /\ at.n = at.boundary /\ ~at.swapped
  /\ Return(TRUE)
  /\ UNCHANGED <<items, sort>>

------------------------------------------------------------------------------
(* insertion_sort.c *)
InsertionBegins ==
  /\ Starts("insertion", "insertion", [index |-> 1, i |-> 1])
  /\ UNCHANGED blocks

Displaced == at.i > 0 /\ Compare(items[at.i - 1], items[at.i]) > 0

InsertionShifts ==
  /\ Loops("insertion") /\ Displaced
  /\ items' = Swapped(at.i - 1, at.i)
  /\ at' = [at EXCEPT !.i = @ - 1]
  /\ UNCHANGED <<todo, temp, pc>>

InsertionNext ==
  /\ Loops("insertion") /\ ~Displaced /\ at.index + 1 # count
  /\ at' = [index |-> at.index + 1, i |-> at.index + 1]
  /\ UNCHANGED <<items, todo, temp, pc>>

InsertionEnds ==
  /\ pc = "insertion" /\ ~Displaced /\ at.index + 1 = count
  /\ Return(TRUE)
  /\ UNCHANGED <<items, sort>>

------------------------------------------------------------------------------
(* selection_sort.c *)
SelectionPass(index) == [index |-> index, n |-> count - 1, next |-> index]

SelectionBegins ==
  /\ Starts("selection", "selection", SelectionPass(0))
  /\ UNCHANGED blocks

(* A tie passes the title to the scanned item. *)
SelectionScans ==
  /\ Loops("selection") /\ at.n # at.index
  /\ at' = [at EXCEPT
       !.next = IF Compare(items[@], items[at.n]) < 0 THEN @ ELSE at.n,
       !.n = Down(@)]
  /\ UNCHANGED <<items, todo, temp, pc>>

SelectionPlaces ==
  /\ pc = "selection" /\ at.n = at.index
  /\ items' = Swapped(at.index, at.next)
  /\ UNCHANGED sort
  /\ IF at.index + 1 # count - 1
     THEN at' = SelectionPass(at.index + 1) /\ UNCHANGED <<todo, temp, blocks, pc, ok>>
     ELSE Return(TRUE)

------------------------------------------------------------------------------
(* heap_sort.c: the larger child of a parent in a heap of the given size,  *)
(* the right one if they are equal.                                        *)
LargerChild(p, size) ==
  IF 2 * p + 2 >= size \/ Compare(items[2 * p + 1], items[2 * p + 2]) > 0
  THEN 2 * p + 1 ELSE 2 * p + 2

(* Fault: the child to promote is always the left one. *)
SinksLeft(p, size) == 2 * p + 1 < size /\ Compare(items[p], items[2 * p + 1]) < 0

Sinks(p, size) == 2 * p + 1 < size /\ Compare(items[p], items[LargerChild(p, size)]) < 0

(* The parents still to be heapified are those up to the int n. *)
HeapifyFrom(n) == [n |-> n, parent |-> n, heap_size |-> count]

HeapBegins ==
  /\ Starts("heap", "heapify", HeapifyFrom(ToInt(count \div 2 - 1)))
  /\ UNCHANGED blocks

HeapifySinks ==
  /\ Loops("heapify") /\ at.n >= 0 /\ Sinks(at.parent, count)
  /\ items' = Swapped(at.parent, LargerChild(at.parent, count))
  /\ at' = [at EXCEPT !.parent = LargerChild(@, count)]
  /\ UNCHANGED <<todo, temp, pc>>

HeapifyNext ==
  /\ Loops("heapify") /\ at.n >= 0 /\ ~Sinks(at.parent, count)
  /\ at' = HeapifyFrom(at.n - 1)
  /\ UNCHANGED <<items, todo, temp, pc>>

(* The root goes to the end of the heap, what was there to the root. *)
HeapExtracts ==
  /\ Loops(pc)
  /\ \/ pc = "heapify" /\ at.n < 0
     \/ pc = "sift" /\ ~Sinks(at.parent, at.heap_size)
  /\ at.heap_size >= 1
  /\ items' = Swapped(0, at.heap_size - 1)
  /\ at' = [at EXCEPT !.heap_size = @ - 1, !.parent = 0]
  /\ pc' = "sift"
  /\ UNCHANGED <<todo, temp>>

HeapSifts ==
  /\ Loops("sift") /\ Sinks(at.parent, at.heap_size)
  /\ items' = Swapped(at.parent, LargerChild(at.parent, at.heap_size))
  /\ at' = [at EXCEPT !.parent = LargerChild(@, at.heap_size)]
  /\ UNCHANGED <<todo, temp, pc>>

HeapEnds ==
  /\ pc = "sift" /\ at.heap_size = 0
  /\ Return(TRUE)
  /\ UNCHANGED <<items, sort>>

------------------------------------------------------------------------------
(* quick_sort.c: the windows wait in the order recurse visits them. *)
QuickBegins ==
  /\ pc = "idle" /\ count > 1
  /\ sort' = "quick" /\ items' = Renumbered
  /\ todo' = <<Window(0, count)>>
  /\ pc' = "quick"
  /\ UNCHANGED <<at, temp, blocks, ok>>

(* The indexes of a partition are counted from the front of its window. *)
QuickPartition(w) ==
  [front |-> w.front, size |-> w.back - w.front, n |-> 0, less |-> 0,
   greater |-> w.back - w.front - 1, pivot |-> items[w.front + (w.back - w.front) \div 2]]

QuickOpens ==
  /\ Loops("quick") /\ todo # <<>>
  /\ todo' = Tail(todo)
  /\ IF Head(todo).back - Head(todo).front <= 1
     THEN UNCHANGED <<at, pc>>
     ELSE at' = QuickPartition(Head(todo)) /\ pc' = "partition"
  /\ UNCHANGED <<items, temp>>

Item(i) == items[at.front + i]
Exchanged(i, j) == Swapped(at.front + i, at.front + j)

QuickLess ==
  /\ Loops("partition") /\ at.n <= at.greater /\ Compare(Item(at.n), at.pivot) < 0
  /\ items' = Exchanged(at.n, at.less)
  /\ at' = [at EXCEPT !.less = @ + 1, !.n = @ + 1]
  /\ UNCHANGED <<todo, temp, pc>>

(* Fault: the scan passes over the item it has just fetched. *)
QuickGreaterSkips ==
  /\ Loops("partition") /\ at.n <= at.greater /\ Compare(Item(at.n), at.pivot) > 0
  /\ items' = Exchanged(at.n, at.greater)
  /\ at' = [at EXCEPT !.greater = Down(@), !.n = @ + 1]
  /\ UNCHANGED <<todo, temp, pc>>

QuickGreater ==
  /\ Loops("partition") /\ at.n <= at.greater /\ Compare(Item(at.n), at.pivot) > 0
  /\ items' = Exchanged(at.n, at.greater)
  /\ at' = [at EXCEPT !.greater = Down(@)]
  /\ UNCHANGED <<todo, temp, pc>>

QuickEqual ==
  /\ Loops("partition") /\ at.n <= at.greater /\ Compare(Item(at.n), at.pivot) = 0
  /\ at' = [at EXCEPT !.n = @ + 1]
  /\ UNCHANGED <<items, todo, temp, pc>>

QuickSplits ==
  /\ Loops("partition") /\ at.n > at.greater
  /\ todo' = <<Window(at.front, at.front + at.less),
               Window(at.front + at.greater + 1, at.front + at.size)>> \o todo
  /\ at' = NoLocals
  /\ pc' = "quick"
  /\ UNCHANGED <<items, temp>>

QuickEnds ==
  /\ pc = "quick" /\ todo = <<>>
  /\ Return(TRUE)
  /\ UNCHANGED <<items, sort>>

------------------------------------------------------------------------------
(* merge_sort.c: a window is first visited, then, when both halves have    *)
(* been, merged through the one buffer of the call.                        *)
MergeBegins ==
  /\ pc = "idle" /\ count > 1
  /\ sort' = "merge" /\ items' = Renumbered
  /\ todo' = <<Window(0, count)>>
  /\ blocks' = blocks + 1
  /\ pc' = "merge"
  /\ UNCHANGED <<at, temp, ok>>

(* The buffer is too large for a size_t or cannot be allocated. *)
MergeFails ==
  /\ pc = "idle" /\ count > 1
  /\ sort' = "merge" /\ items' = Renumbered
  /\ Return(FALSE)

Mid(w) == w.front + (w.back - w.front) \div 2

MergeVisits ==
  /\ Loops("merge") /\ todo # <<>> /\ Head(todo).op = "visit"
  /\ LET w == Head(todo)
     IN  todo' =
           IF w.back - w.front <= 1 THEN Tail(todo)
           ELSE <<Window(w.front, Mid(w)), Window(Mid(w), w.back), [w EXCEPT !.op = "merge"]>>
                \o Tail(todo)
  /\ UNCHANGED <<items, at, temp, pc>>

MergeOpens ==
  /\ Loops("merge") /\ todo # <<>> /\ Head(todo).op = "merge"
  /\ LET w == Head(todo)
     IN  at' = [front |-> w.front, mid |-> Mid(w), back |-> w.back,
                left |-> w.front, right |-> Mid(w)]
  /\ todo' = Tail(todo)
  /\ pc' = "zip"
  /\ UNCHANGED <<items, temp>>

(* Fault: a tie is taken from the right half. *)
TakesStrictlyLeft ==
  /\ at.left # at.mid
  /\ at.right = at.back \/ Compare(items[at.left], items[at.right]) < 0

TakesLeft ==
  /\ at.left # at.mid
  /\ at.right = at.back \/ Compare(items[at.left], items[at.right]) <= 0

MergeTakes ==
  /\ Loops("zip") /\ (at.left < at.mid \/ at.right < at.back)
  /\ IF TakesLeft
     THEN temp' = Append(temp, items[at.left]) /\ at' = [at EXCEPT !.left = @ + 1]
     ELSE temp' = Append(temp, items[at.right]) /\ at' = [at EXCEPT !.right = @ + 1]
  /\ UNCHANGED <<items, todo, pc>>

MergeCopies ==
  /\ Loops("zip") /\ at.left = at.mid /\ at.right = at.back
  /\ items' = [i \in DOMAIN items |->
       IF i \in at.front .. at.back - 1 THEN temp[i - at.front + 1] ELSE items[i]]
  /\ temp' = <<>>
  /\ at' = NoLocals
  /\ pc' = "merge"
  /\ UNCHANGED todo

MergeEnds ==
  /\ pc = "merge" /\ todo = <<>>
  /\ Return(TRUE)
  /\ UNCHANGED <<items, sort>>

------------------------------------------------------------------------------
Step ==
  \/ BubbleCompares \/ BubbleNextPass \/ BubbleEnds
  \/ InsertionShifts \/ InsertionNext \/ InsertionEnds
  \/ SelectionScans \/ SelectionPlaces
  \/ HeapifySinks \/ HeapifyNext \/ HeapExtracts \/ HeapSifts \/ HeapEnds
  \/ QuickOpens \/ QuickLess \/ QuickGreater \/ QuickEqual \/ QuickSplits \/ QuickEnds
  \/ MergeVisits \/ MergeOpens \/ MergeTakes \/ MergeCopies \/ MergeEnds

Next ==
  \/ \E s \in Sorts : Refuse(s) \/ SortFew(s)
  \/ BubbleBegins \/ InsertionBegins \/ SelectionBegins
  \/ HeapBegins \/ QuickBegins \/ MergeBegins \/ MergeFails
  \/ Step

(* A call that has begun runs on. *)
Spec == Init /\ [][Next]_vars /\ WF_vars(Step)
------------------------------------------------------------------------------
Running == pc # "idle"

Positions == 0 .. count - 1
AtMost(x, y) == Compare(x, y) <= 0

(* The order of a stable sort: equal items stay as they were. *)
Stably(x, y) == Compare(x, y) < 0 \/ (Compare(x, y) = 0 /\ x.place <= y.place)

Ordered(R(_, _), a, S) == \A i, j \in S : i < j => R(a[i], a[j])

(* Every variable has its type. *)
TypeOK ==
  /\ DOMAIN items = Positions /\ count <= MaxCount
  /\ \A i \in Positions : items[i] \in [key : Keys, place : Positions]
  /\ sort \in Sorts
  /\ \A i \in DOMAIN todo : todo[i] \in [op : {"visit", "merge"}, front : Nat, back : Nat]
  /\ \A i \in DOMAIN temp : temp[i] \in [key : Keys, place : Positions]
  /\ pc \in {"idle", "bubble", "insertion", "selection", "heapify", "sift",
             "quick", "partition", "merge", "zip"}
  /\ ok \in BOOLEAN

(* Whatever a sort does, the array holds the items it held, each once.     *)
ItemsKept == {items[i].place : i \in Positions} = Positions

(* No index leaves the array or the window that is sorted, although they   *)
(* are counted down in an unsigned type.                                   *)
IndexesStay ==
  /\ pc = "bubble" => at.n <= at.boundary /\ at.boundary \in Positions
  /\ pc = "insertion" => at.i <= at.index /\ at.index \in Positions
  /\ pc = "selection" => at.index <= at.n /\ {at.n, at.next} \subseteq at.index .. count - 1
  /\ pc = "heapify" => at.n < count /\ (at.n >= 0 => at.parent \in Positions)
  /\ pc = "sift" => at.parent \in Positions /\ at.heap_size < count
  /\ pc = "partition" =>
       /\ at.less <= at.n /\ at.n <= at.greater + 1
       /\ at.less <= at.greater /\ at.greater < at.size
  /\ pc = "zip" =>
       /\ at.left \in at.front .. at.mid /\ at.right \in at.mid .. at.back
       /\ Len(temp) = (at.left - at.front) + (at.right - at.mid)

(* The buffer of merge_sort is the only block, and it is freed.            *)
NothingLeaks == blocks = IF pc \in {"merge", "zip"} THEN 1 ELSE 0

WellFormed == TypeOK /\ ItemsKept /\ IndexesStay /\ NothingLeaks

------------------------------------------------------------------------------
(* What is above the boundary is final, and the scan carries the largest   *)
(* item it has met; it swaps nothing only if all it met is in order.       *)
BubbleLoop ==
  pc = "bubble" =>
    /\ \A j \in at.boundary + 1 .. count - 1, i \in Positions : i < j => Stably(items[i], items[j])
    /\ \A i \in 0 .. at.n : AtMost(items[i], items[at.n])
    /\ ~at.swapped => Ordered(Stably, items, 0 .. at.n)

(* The prefix up to index is in order but for the item that is moving, and *)
(* that one has passed only greater ones.                                  *)
InsertionLoop ==
  pc = "insertion" =>
    /\ Ordered(Stably, items, (0 .. at.index) \ {at.i})
    /\ \A j \in at.i + 1 .. at.index : Compare(items[at.i], items[j]) < 0
    /\ \A j \in at.index + 1 .. count - 1 : items[j].place = j

(* The prefix holds the least items in order, and next the least of what   *)
(* was scanned: the first of the equal ones, the item in place excepted.   *)
SelectionLoop ==
  pc = "selection" =>
    /\ \A i \in 0 .. at.index - 1, j \in Positions : i < j => AtMost(items[i], items[j])
    /\ AtMost(items[at.next], items[at.index])
    /\ \A j \in at.n + 1 .. count - 1 :
         AtMost(items[at.next], items[j]) /\ (j < at.next => Compare(items[at.next], items[j]) < 0)

(* A heap from position low on, but for the parent that is sinking: what   *)
(* is below that one is below its own parent as well.                      *)
HeapFrom(low, size) ==
  \A c \in 1 .. size - 1 :
    LET p == (c - 1) \div 2
    IN  IF p # at.parent THEN p >= low => AtMost(items[c], items[p])
        ELSE p > 0 /\ (p - 1) \div 2 >= low => AtMost(items[c], items[(p - 1) \div 2])

(* Heapifying works from the last parent to the root; then the heap is a   *)
(* prefix and what was extracted from it the sorted rest, no less than it. *)
HeapLoop ==
  /\ pc = "heapify" => HeapFrom(at.n, count)
  /\ pc = "sift" =>
       /\ HeapFrom(0, at.heap_size)
       /\ \A j \in at.heap_size .. count - 1, i \in Positions : i < j => AtMost(items[i], items[j])

(* Items out of order are in one window that waits or is being divided;    *)
(* the regions of that one are what the pivot makes them, and the pivot is *)
(* still between them, so greater cannot pass below it.                    *)
QuickLoop ==
  pc \in {"quick", "partition"} =>
    /\ \A i, j \in Positions :
         i < j /\ ~AtMost(items[i], items[j]) =>
           \/ \E w \in DOMAIN todo : {i, j} \subseteq todo[w].front .. todo[w].back - 1
           \/ pc = "partition" /\ {i, j} \subseteq at.front .. at.front + at.size - 1
    /\ pc = "partition" =>
         /\ \A i \in 0 .. at.less - 1 : Compare(Item(i), at.pivot) < 0
         /\ \A i \in at.less .. at.n - 1 : Compare(Item(i), at.pivot) = 0
         /\ \A i \in at.greater + 1 .. at.size - 1 : Compare(Item(i), at.pivot) > 0
         /\ \E i \in at.less .. at.greater : Item(i) = at.pivot

(* Items move inside their window only.  The halves of the window that is  *)
(* merged are in order, and what was taken of them is in order and before  *)
(* the rest.                                                               *)
MergeLoop ==
  pc = "zip" =>
    LET left == at.left .. at.mid - 1
        right == at.right .. at.back - 1
    IN  /\ \A i \in at.front .. at.back - 1 : items[i].place \in at.front .. at.back - 1
        /\ Ordered(Stably, items, at.front .. at.mid - 1)
        /\ Ordered(Stably, items, at.mid .. at.back - 1)
        /\ Ordered(Stably, temp, DOMAIN temp)
        /\ \A k \in DOMAIN temp, i \in left \cup right : Stably(temp[k], items[i])

(* The invariants of the loops.                                            *)
LoopInvariant ==
  BubbleLoop /\ InsertionLoop /\ SelectionLoop /\ HeapLoop /\ QuickLoop /\ MergeLoop

(* A call that succeeded leaves the items in order, equal ones as they     *)
(* were if the sort is a stable one; a call that failed leaves them as     *)
(* they were.                                                              *)
SortsOrLeaves ==
  ~Running =>
    IF ~ok THEN \A i \in Positions : items[i].place = i
    ELSE /\ Ordered(AtMost, items, Positions)
         /\ sort \in StableSorts => Ordered(Stably, items, Positions)

(* heap_sort.c:4: "Sorts caller-owned item pointers in ascending           *)
(* comparison order", whatever their number is.                            *)
HeapSortSorts == ~Running /\ ok /\ sort = "heap" => Ordered(AtMost, items, Positions)

(* Every call ends.                                                        *)
CallsEnd == Running ~> ~Running
==============================================================================
