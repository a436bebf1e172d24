--------------------------- MODULE DistributionSorts --------------------------
(***************************************************************************)
(* The two sorts of src/algorithms/sorting/non-comparison: counting_sort,  *)
(* and radix_sort, which counts and places one byte of the keys per pass.  *)
(*                                                                         *)
(* A pass of radix_sort (radix_count) and counting_sort differ only in the *)
(* number a key is counted under and in how many such numbers there are.   *)
(* The placement of one key is an action; tallying the keys is one, too.   *)
(***************************************************************************)
EXTENDS Naturals, FiniteSets

CONSTANTS
  Values,      (* the keys callers sort                                    *)
  KeyLimits,   (* what callers pass as key_limit                           *)
  MaxCount,    (* bound: the longest array a caller sorts                  *)
  Radix        (* how many values a byte has                               *)

(* A uint32_t has as many bytes as radix_sort makes passes. *)
Passes == 4

(* What the byte at the shift of a pass counts for: 2^0, 2^8, 2^16, 2^24,  *)
(* and one more than the greatest uint32_t.                                *)
Weight(p) ==
  <<1, Radix, Radix * Radix, Radix * Radix * Radix, Radix * Radix * Radix * Radix>>[p + 1]

DistributionAssumption ==
  /\ Radix \in Nat /\ Radix > 1
  /\ Values \subseteq 0 .. Weight(Passes) - 1
  /\ KeyLimits \subseteq Nat
  /\ MaxCount \in Nat

VARIABLES
  items, given,  (* the array now, and as it was when the call began       *)
  sort,          (* "counting" or "radix"                                  *)
  limit,         (* key_limit, of a pass of radix_sort Radix               *)
  pass,          (* the passes of radix_sort that are done                 *)
  counts,        (* the tallies, then the ends of the blocks not placed    *)
  out_items,     (* the slots that are written                             *)
  left,          (* how many keys are left to place                        *)
  blocks,        (* blocks the call has allocated                          *)
  pc,            (* "idle", "tally", "place", "copy" or "next" pass        *)
  ok

vars == <<items, given, sort, limit, pass, counts, out_items, left, blocks, pc, ok>>

count == Cardinality(DOMAIN items)
Nothing == [n \in {} |-> 0]

Init ==
  /\ \E c \in 0 .. MaxCount : items \in [0 .. c - 1 -> Values]
  /\ given = items
  /\ sort = "counting" /\ limit = 0 /\ pass = 0
  /\ counts = Nothing /\ out_items = Nothing /\ left = 0
  /\ blocks = 0 /\ pc = "idle" /\ ok = FALSE

Return(result) ==
  /\ counts' = Nothing /\ out_items' = Nothing /\ left' = 0
  /\ pass' = 0 /\ limit' = 0
  /\ blocks' = 0
  /\ pc' = "idle" /\ ok' = result

(* The number a key is counted under: itself, or the byte of the pass. *)
Digit(v) == IF sort = "radix" THEN (v \div Weight(pass)) % Radix ELSE v

(* An argument is missing or key_limit is zero, or the first block could   *)
(* not be allocated.                                                       *)
Refuse(s) ==
  /\ pc = "idle"
  /\ sort' = s /\ given' = items
  /\ Return(FALSE)
  /\ UNCHANGED items

SortFew(s) ==
  /\ pc = "idle"
  /\ count = 0 \/ (s = "radix" /\ count = 1)
  /\ sort' = s /\ given' = items
  /\ Return(TRUE)
  /\ UNCHANGED items

CountingBegins(n) ==
  /\ pc = "idle" /\ count > 0 /\ n > 0
  /\ sort' = "counting" /\ limit' = n /\ given' = items
  /\ blocks' = blocks + 1
  /\ pc' = "tally"
  /\ UNCHANGED <<items, pass, counts, out_items, left, ok>>

RadixBegins ==
  /\ pc = "idle" /\ count > 1
  /\ sort' = "radix" /\ limit' = Radix /\ given' = items
  /\ blocks' = blocks + 1
  /\ pc' = "tally"
  /\ UNCHANGED <<items, pass, counts, out_items, left, ok>>

------------------------------------------------------------------------------
OutOfRange == \E i \in DOMAIN items : Digit(items[i]) >= limit

(* The keys counted under a number below n. *)
Below(n) == Cardinality({i \in DOMAIN items : Digit(items[i]) < n})

(* The prefix sums of the tallies: where the block of each number ends. *)
EndsOfBlocks == [n \in 0 .. limit - 1 |-> Below(n + 1)]

TallyTotals ==
  /\ pc = "tally" /\ ~OutOfRange
  /\ counts' = EndsOfBlocks
  /\ blocks' = blocks + 1
  /\ left' = count
  /\ pc' = "place"
  /\ UNCHANGED <<items, given, sort, limit, pass, out_items, ok>>

(* A key is out of range, or the output array cannot be allocated. *)
TallyFails ==
  /\ pc = "tally"
  /\ Return(FALSE)
  /\ UNCHANGED <<items, given, sort>>

Written(slot, v) ==
  [s \in DOMAIN out_items \cup {slot} |-> IF s = slot THEN v ELSE out_items[s]]

(* Fault: the keys are placed from the first one on. *)
PlaceForward ==
  /\ pc = "place"
  /\ LET v == items[count - left]
         slot == counts[Digit(v)] - 1
     IN  counts' = [counts EXCEPT ![Digit(v)] = slot] /\ out_items' = Written(slot, v)
  /\ left' = left - 1
  /\ pc' = IF left = 1 THEN "copy" ELSE "place"
  /\ UNCHANGED <<items, given, sort, limit, pass, blocks, ok>>

(* From the last key to the first, each to the last open slot of its block. *)
Place ==
  /\ pc = "place"
  /\ LET v == items[left - 1]
         slot == counts[Digit(v)] - 1
     IN  counts' = [counts EXCEPT ![Digit(v)] = slot] /\ out_items' = Written(slot, v)
  /\ left' = left - 1
  /\ pc' = IF left = 1 THEN "copy" ELSE "place"
  /\ UNCHANGED <<items, given, sort, limit, pass, blocks, ok>>

CopyBack ==
  /\ pc = "copy"
  /\ items' = out_items
  /\ UNCHANGED <<given, sort>>
  /\ IF sort = "radix" /\ pass + 1 < Passes
     THEN /\ pass' = pass + 1 /\ pc' = "next"
          /\ counts' = Nothing /\ out_items' = Nothing
          /\ blocks' = blocks - 2
          /\ UNCHANGED <<limit, left, ok>>
     ELSE Return(TRUE)

(* The counts of a further pass: allocated, or not. *)
NextPass ==
  /\ pc = "next"
  /\ \/ /\ blocks' = blocks + 1
        /\ pc' = "tally"
        /\ UNCHANGED <<limit, pass, counts, out_items, left, ok>>
     \/ Return(FALSE)
  /\ UNCHANGED <<items, given, sort>>

------------------------------------------------------------------------------
Step == TallyTotals \/ TallyFails \/ Place \/ CopyBack \/ NextPass

Next ==
  \/ \E s \in {"counting", "radix"} : Refuse(s) \/ SortFew(s)
  \/ \E n \in KeyLimits : CountingBegins(n)
  \/ RadixBegins
  \/ Step

(* A call that has begun runs on. *)
Spec == Init /\ [][Next]_vars /\ WF_vars(Step)

------------------------------------------------------------------------------
Running == pc # "idle"

(* Every variable has its type, and no block outlives the call. *)
TypeOK ==
  /\ items \in [0 .. count - 1 -> Values] /\ given \in [0 .. count - 1 -> Values]
  /\ sort \in {"counting", "radix"}
  /\ pass \in 0 .. Passes - 1 /\ limit \in Nat /\ left \in 0 .. count
  /\ DOMAIN counts \subseteq Nat /\ \A n \in DOMAIN counts : counts[n] \in 0 .. count
  /\ DOMAIN out_items \subseteq DOMAIN items
  /\ pc \in {"idle", "tally", "place", "copy", "next"}
  /\ ok \in BOOLEAN

NothingLeaks ==
  blocks = CASE pc = "tally" -> 1 [] pc \in {"place", "copy"} -> 2 [] OTHER -> 0

Times(v, a, S) == Cardinality({i \in S : a[i] = v})

(* No key is lost between the passes, nor while one is under way.          *)
KeysKept ==
  \A v \in Values :
    /\ Times(v, items, DOMAIN items) = Times(v, given, DOMAIN given)
    /\ pc \in {"place", "copy"} =>
         Times(v, out_items, DOMAIN out_items) = Times(v, items, left .. count - 1)

(* A number's open slots are those below its count, as many as it has keys *)
(* left: no slot is written twice and no count falls below zero.           *)
SlotsOpen ==
  pc \in {"place", "copy"} =>
    \A n \in 0 .. limit - 1 :
      /\ counts[n] = Below(n) + Cardinality({i \in 0 .. left - 1 : Digit(items[i]) = n})
      /\ \A s \in Below(n) .. Below(n + 1) - 1 : s \in DOMAIN out_items <=> s >= counts[n]

(* Bytes of the passes done; a comparison of two keys by these alone. *)
LowPart(v, p) == v % Weight(p)
OrderedBy(p, a) == \A i, j \in DOMAIN a : i < j => LowPart(a[i], p) <= LowPart(a[j], p)

(* After p passes the keys are in the order of their p low bytes, and a    *)
(* pass keeps that order among the keys of one byte.                       *)
LowBytesOrdered ==
  sort = "radix" /\ Running =>
    /\ OrderedBy(pass, items)
    /\ pc \in {"place", "copy"} => OrderedBy(pass + 1, out_items)

DistributionInvariant == TypeOK /\ NothingLeaks /\ KeysKept /\ SlotsOpen /\ LowBytesOrdered

(* A call that succeeded leaves the keys in order.  counting_sort leaves   *)
(* them as they were until it succeeds, radix_sort until its first pass.   *)
SortsOrLeaves ==
  /\ ~Running /\ ok => OrderedBy(Passes, items)
  /\ sort = "counting" /\ (Running \/ ~ok) => items = given
  /\ sort = "radix" /\ Running /\ pass = 0 => items = given

(* radix-sort/README.md:48: "allocation failure must be reported cleanly   *)
(* and leave the input unmodified".                                        *)
FailureLeavesInput == ~Running /\ ~ok => items = given

(* Every call ends. *)
CallsEnd == Running ~> ~Running
==============================================================================
