------------------------------ MODULE HashTable -------------------------------
(***************************************************************************)
(* The separate-chaining hash table of                                     *)
(* src/data-structures/associative/hash-tables/separate-chaining/          *)
(* hash_table.c, down to the next pointers of its chains.                  *)
(*                                                                         *)
(* A call is one action, except for a set_resizing that grows the table:   *)
(* that one is an action per entry that moves to its new bucket.           *)
(***************************************************************************)
EXTENDS CSize, FiniteSets

CONSTANTS
  Key, Value,  (* the pointers a caller stores                             *)
  Id(_),       (* the logical key a pointer stands for: equals(a, b) is    *)
               (* Id(a) = Id(b)                                            *)
  Hash(_),     (* the hash of a logical key                                *)
  Entry,       (* the addresses malloc can give to entries                 *)
  Capacities,  (* the initial capacities a caller asks for                 *)
  NULL,
  Untouched    (* an output location the call did not write                *)

TableAssumption ==
  /\ IsFiniteSet(Entry) /\ NULL \notin Entry /\ NULL \notin Key
  /\ Cardinality(Entry) <= SizeMax  (* entries have addresses of their own *)
  /\ Capacities \subseteq Nat
  /\ \A k \in Key : Hash(Id(k)) \in Nat

VARIABLES
  live,        (* whether the caller holds a table                         *)
  size, capacity,
  buckets,     (* the heads of the chains                                  *)
  entries,     (* the entries on the heap: key, value and next             *)
  moving,      (* the locals of set_resizing while it moves entries, or    *)
               (* NotMoving                                                *)
  blocks,      (* live heap blocks that are not the entries above          *)
  reply        (* what the last call returned                              *)

table == <<live, size, capacity, buckets, entries, blocks>>
vars == <<table, moving, reply>>

Heap == DOMAIN entries

Answer(op, k, ok, out) == reply' = [op |-> op, key |-> k, ok |-> ok, out |-> out]

NoBuckets == [b \in {} |-> NULL]
NoEntries == [e \in {} |-> NULL]
Empty(slots) == [b \in Slots(slots) |-> NULL]

(* buckets: the array being filled; n, temp: the bucket and the entry that *)
(* are next; entry, key, value: what the call will insert at its end.      *)
NotMoving ==
  [buckets |-> NoBuckets, n |-> 0, temp |-> NULL, entry |-> NULL, key |-> NULL, value |-> NULL]
Idle == moving = NotMoving

Fail(op, k) ==
  /\ Idle
  /\ UNCHANGED <<table, moving>>
  /\ Answer(op, k, FALSE, Untouched)

Init ==
  /\ live = FALSE /\ size = 0 /\ capacity = 0
  /\ buckets = NoBuckets /\ entries = NoEntries
  /\ moving = NotMoving
  /\ blocks = 0
  /\ reply = [op |-> "none", key |-> NULL, ok |-> TRUE, out |-> Untouched]

Create(slots) ==
  /\ ~live
  /\ slots > 0 /\ Fits(slots)
  /\ live' = TRUE /\ capacity' = slots /\ buckets' = Empty(slots)
  /\ blocks' = blocks + 2
  /\ UNCHANGED <<size, entries, moving>>
  /\ Answer("create", NULL, TRUE, Untouched)

CreateFails == ~live /\ Fail("create", NULL)

------------------------------------------------------------------------------
(* No link leads out of the set. *)
Closed(set) == \A e \in set : entries[e].next \in set \cup {NULL}

(* The entries that the links lead to from an entry or NULL: from no set   *)
(* that holds it and lacks them does every link stay inside.               *)
Chain(head) ==
  {e \in Heap : \A set \in SUBSET (Heap \ {e}) : head \in set \cup {NULL} => ~Closed(set)}

Chained == UNION {Chain(buckets[b]) : b \in DOMAIN buckets}

Destroy ==
  /\ live /\ Idle
  /\ live' = FALSE /\ size' = 0 /\ capacity' = 0 /\ buckets' = NoBuckets
  /\ entries' = [e \in Heap \ Chained |-> entries[e]]
  /\ blocks' = blocks - 2
  /\ UNCHANGED moving
  /\ Answer("destroy", NULL, TRUE, Untouched)

Bucket(k) == Hash(Id(k)) % capacity

(* The walk of get, contains, remove and the setters: the entries of the   *)
(* key's chain that equal it.                                              *)
Hits(k) == {e \in Heap : Id(entries[e].key) = Id(k) /\ e \in Chain(buckets[Bucket(k)])}
Found(k) == CHOOSE e \in Hits(k) : TRUE

------------------------------------------------------------------------------
(* The new value goes under the key pointer that came first. *)
Replace(op, k, v) ==
  /\ live /\ Idle
  /\ Hits(k) # {}
  /\ entries' = [entries EXCEPT ![Found(k)].value = v]
  /\ UNCHANGED <<live, size, capacity, buckets, blocks, moving>>
  /\ Answer(op, k, TRUE, entries[Found(k)].value)

(* Three quarters of the capacity, rounded down. *)
Threshold(slots) == slots - (slots \div 4 + IF slots % 4 # 0 THEN 1 ELSE 0)

(* Fault: off by one. *)
OverloadedLate == size > Threshold(capacity)

Overloaded == size >= Threshold(capacity)

(* An entry that malloc may return.  No call compares addresses of entries *)
(* but for equality, so which free one it is makes no difference.          *)
HasFree == Entry \ Heap # {}
New == CHOOSE e \in Entry \ Heap : TRUE

(* The end of both setters: entry e becomes the head of its chain.         *)
Link(e, k, v, heads) ==
  LET b == Hash(Id(k)) % capacity'
  IN  /\ entries' = [f \in Heap \cup {e} |->
                       IF f = e THEN [key |-> k, value |-> v, next |-> heads[b]] ELSE entries[f]]
      /\ buckets' = [heads EXCEPT ![b] = e]
      /\ size' = Wrap(size + 1)

Insert(op, k, v) ==
  /\ live /\ Idle
  /\ Hits(k) = {}
  /\ op = "set_resizing" => ~Overloaded
  /\ HasFree
  /\ UNCHANGED capacity
  /\ Link(New, k, v, buckets)
  /\ UNCHANGED <<live, blocks, moving>>
  /\ Answer(op, k, TRUE, NULL)

NewCapacity == Wrap(capacity * 2)

CanGrow == capacity <= SizeMax \div 2 /\ Fits(NewCapacity)

(* A new entry and larger buckets are at hand, two blocks more: the        *)
(* entries start moving.                                                   *)
StartMoving(k, v) ==
  /\ live /\ Idle
  /\ Hits(k) = {}
  /\ HasFree /\ Overloaded /\ CanGrow
  /\ moving' = [buckets |-> Empty(SlotsGranted(NewCapacity)), n |-> 0, temp |-> buckets[0],
                entry |-> New, key |-> k, value |-> v]
  /\ blocks' = blocks + 2
  /\ UNCHANGED <<live, size, capacity, buckets, entries, reply>>

(* Fault: the entry is forgotten. *)
DiscardedNothing(made) == {}

(* The blocks freed by a set_resizing that could not grow the table. *)
Discarded(made) == made

(* No memory for the entry, or none for the larger buckets once the entry  *)
(* is made: too many bytes, or calloc refuses them.                        *)
SetFails(op, k) ==
  /\ live /\ Idle
  /\ Hits(k) = {}
  /\ \E made \in {{}, {"entry"}} :
       /\ made # {} => op = "set_resizing" /\ HasFree /\ Overloaded
       /\ blocks' = blocks + Cardinality(made) - Cardinality(Discarded(made))
  /\ UNCHANGED <<live, size, capacity, buckets, entries, moving>>
  /\ Answer(op, k, FALSE, Untouched)

NewBucket(e) == Hash(Id(entries[e].key)) % NewCapacity

(* Fault: the link is read after it was overwritten. *)
AfterRelinked(e) == moving.buckets[NewBucket(e)]

After(e) == entries[e].next

(* The entry becomes the head of its new chain; where its old chain goes   *)
(* on was read before the link was overwritten.                            *)
Move ==
  /\ moving.temp # NULL
  /\ LET e == moving.temp
         b == NewBucket(e)
     IN  /\ entries' = [entries EXCEPT ![e].next = moving.buckets[b]]
         /\ moving' = [moving EXCEPT !.temp = After(e), !.buckets[b] = e]
  /\ UNCHANGED <<live, size, capacity, buckets, blocks, reply>>

(* Fault: the bucket is not advanced. *)
NextBucketStays ==
  /\ ~Idle
  /\ moving.temp = NULL
  /\ moving.n + 1 # capacity
  /\ moving' = [moving EXCEPT !.temp = buckets[moving.n]]
  /\ UNCHANGED <<table, reply>>

NextBucket ==
  /\ ~Idle
  /\ moving.temp = NULL
  /\ moving.n + 1 # capacity
  /\ moving' = [moving EXCEPT !.n = @ + 1, !.temp = buckets[moving.n + 1]]
  /\ UNCHANGED <<table, reply>>

(* The old array of buckets is freed and the new entry joins the others.   *)
EndMoving ==
  /\ ~Idle
  /\ moving.temp = NULL
  /\ moving.n + 1 = capacity
  /\ capacity' = NewCapacity
  /\ Link(moving.entry, moving.key, moving.value, moving.buckets)
  /\ blocks' = blocks - 2
  /\ moving' = NotMoving
  /\ UNCHANGED live
  /\ Answer("set_resizing", moving.key, TRUE, NULL)

------------------------------------------------------------------------------
(* Fault: the head of the bucket is set whatever entry is removed. *)
HeadsAlways(k, e) == [buckets EXCEPT ![Bucket(k)] = entries[e].next]

(* The bucket heads without entry e. *)
Heads(k, e) ==
  IF buckets[Bucket(k)] = e THEN [buckets EXCEPT ![Bucket(k)] = entries[e].next] ELSE buckets

(* The links around the removed entry e: its successor follows the entry   *)
(* before it, or becomes the head.                                         *)
Unlinked(e) ==
  [f \in Heap \ {e} |->
     IF entries[f].next = e THEN [entries[f] EXCEPT !.next = entries[e].next] ELSE entries[f]]

Remove(k) ==
  /\ live /\ Idle
  /\ Hits(k) # {}
  /\ LET e == Found(k)
     IN  /\ entries' = Unlinked(e)
         /\ buckets' = Heads(k, e)
         /\ Answer("remove", k, TRUE, entries[e].value)
  /\ size' = size - 1
  /\ UNCHANGED <<live, capacity, blocks, moving>>

RemoveFails(k) ==
  /\ live
  /\ Hits(k) = {}
  /\ Fail("remove", k)

Step == Move \/ NextBucket \/ EndMoving

Next ==
  \/ \E slots \in Capacities : Create(slots)
  \/ CreateFails
  \/ Destroy
  \/ \E k \in Key :
       \/ \E op \in {"set", "set_resizing"} :
            (\E v \in Value : Replace(op, k, v) \/ Insert(op, k, v)) \/ SetFails(op, k)
       \/ \E v \in Value : StartMoving(k, v)
       \/ Remove(k) \/ RemoveFails(k)
  \/ Step

(* The loops of a call run without waiting for anything. *)
Spec == Init /\ [][Next]_vars /\ WF_vars(Step)

------------------------------------------------------------------------------
(* Every variable has its type; the bytes of the buckets never wrap.       *)
TypeOK ==
  /\ live \in BOOLEAN /\ size \in Nat /\ capacity \in Nat /\ blocks \in Nat
  /\ buckets \in [Slots(capacity) -> Entry \cup {NULL}]
  /\ entries \in [Heap -> [key : Key, value : Value, next : Entry \cup {NULL}]]
  /\ \A e \in Heap : entries[e].next \in Heap \cup {NULL}
  /\ ~Idle => DOMAIN moving.buckets = Slots(NewCapacity)

(* The heads an entry can be reached from while entries move: the new      *)
(* chains, what is left of the chain that is being moved, and the chains   *)
(* of the buckets that come after it.                                      *)
Places ==
  IF Idle THEN {<<"old", b, buckets[b]>> : b \in DOMAIN buckets}
  ELSE {<<"new", b, moving.buckets[b]>> : b \in DOMAIN moving.buckets}
       \cup {<<"old", moving.n, moving.temp>>}
       \cup {<<"old", b, buckets[b]>> : b \in moving.n + 1 .. capacity - 1}

(* Every entry is in exactly one chain, the one its hash selects, and no   *)
(* two entries have the same key: also between the moves of a growth no    *)
(* entry is lost, shared or linked into a cycle.                           *)
EveryEntryInItsChain ==
  /\ LET chain == [p \in Places |-> Chain(p[3])] IN \A e \in Heap :
       LET at == {p \in Places : e \in chain[p]}
           b == IF \E p \in at : p[1] = "new" THEN NewBucket(e) ELSE Bucket(entries[e].key)
       IN  Cardinality(at) = 1 /\ \A p \in at : p[2] = b
  /\ \A e \in Heap :
       Cardinality({f \in Heap : entries[f].next = e}) + Cardinality({p \in Places : p[3] = e}) = 1
  /\ \A e, f \in Heap : e # f => Id(entries[e].key) # Id(entries[f].key)

(* size counts the entries, and nothing leaks: while entries move there    *)
(* are two arrays of buckets and the new entry.                            *)
CountsAndBlocks ==
  /\ size = Cardinality(Heap)
  /\ blocks = IF ~live THEN 0 ELSE IF Idle THEN 2 ELSE 4

(* The chains hold all entries and the counters are right, also between    *)
(* the moves of a growth.                                                  *)
WellFormed == TypeOK /\ EveryEntryInItsChain /\ CountsAndBlocks

(* README.md: "doubles and rehashes before a new insertion at              *)
(* approximately 75% load".  set_resizing never leaves a table above the   *)
(* threshold that was within it before.                                    *)
LoadStaysBounded ==
  [][reply' # reply /\ reply'.op = "set_resizing" /\ size <= Threshold(capacity)
       => size' <= Threshold(capacity')]_vars

(* A call that moves entries ends. *)
CallsEnd == ~Idle ~> Idle

------------------------------------------------------------------------------
(* The entries that get finds; no lookup runs while entries move.          *)
Stored ==
  IF Idle THEN {e \in Heap : live /\ e \in Chain(buckets[Bucket(entries[e].key)])} ELSE Heap

Content ==
  [i \in {Id(entries[e].key) : e \in Stored} |->
     LET h == CHOOSE e \in Heap : Id(entries[e].key) = i
     IN  [key |-> entries[h].key, value |-> entries[h].value]]

Promise == INSTANCE Dictionary WITH map <- Content

(* The table is a finite map, however it was sized and grew.               *)
ImplementsDictionary == Promise!Spec
==============================================================================
