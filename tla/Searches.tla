------------------------------- MODULE Searches -------------------------------
(***************************************************************************)
(* binary_search and linear_search of src/algorithms/searching.            *)
(*                                                                         *)
(* The comparison callback sees of an item, and of the key, a number whose *)
(* order is the order compare decides; items may be equal.  An action is   *)
(* one probe: a frame of search (binary) or a turn of the loop (linear).   *)
(***************************************************************************)
EXTENDS Integers, FiniteSets

CONSTANTS
  Keys,        (* what compare looks at                                    *)
  NoKey,       (* no search was begun                                      *)
  MaxCount     (* bound: the longest array a caller searches               *)

SearchAssumption == Keys \subseteq Int /\ NoKey \notin Keys /\ MaxCount \in Nat

(* The caller's *out_index before a search wrote to it. *)
Untouched == -1

VARIABLES
  items,       (* the array, from index 0 on                               *)
  key,         (* what is searched for                                     *)
  low, high,   (* the window of binary_search that may hold it; in         *)
               (* linear_search low is the item to test next               *)
  out_index,   (* the caller's *out_index                                  *)
  pc,          (* "idle", "binary" or "linear"                             *)
  search,      (* the search that was called last                          *)
  ok           (* what it returned                                         *)

vars == <<items, key, low, high, out_index, pc, search, ok>>

count == Cardinality(DOMAIN items)

Compare(x, y) == x - y

Ascending == \A i, j \in DOMAIN items : i < j => items[i] <= items[j]

Init ==
  /\ \E c \in 0 .. MaxCount : items \in [0 .. c - 1 -> Keys]
  /\ key = NoKey
  /\ low = 0 /\ high = 0 /\ out_index = Untouched
  /\ pc = "idle" /\ search = "linear" /\ ok = FALSE

Return(result, index) ==
  /\ pc' = "idle" /\ ok' = result /\ out_index' = index
  /\ low' = 0 /\ high' = 0

(* An argument is missing. *)
Refuse(s) ==
  /\ pc = "idle"
  /\ search' = s /\ key' = NoKey
  /\ Return(FALSE, Untouched)
  /\ UNCHANGED items

SearchEmpty(s, k) ==
  /\ pc = "idle" /\ count = 0
  /\ search' = s /\ key' = k
  /\ Return(FALSE, Untouched)
  /\ UNCHANGED items

(* binary_search is called for items in ascending order only. *)
Begin(s, k) ==
  /\ pc = "idle" /\ count > 0
  /\ s = "binary" => Ascending
  /\ key' = k
  /\ low' = 0 /\ high' = count
  /\ out_index' = Untouched
  /\ pc' = s /\ search' = s
  /\ UNCHANGED <<items, ok>>

Mid == low + (high - low) \div 2

(* Fault: the half below an item that is too large is cut one short. *)
DiscardsUpperAndMore ==
  /\ pc = "binary" /\ low < high /\ Compare(key, items[Mid]) < 0
  /\ high' = IF Mid > 0 THEN Mid - 1 ELSE 0
  /\ UNCHANGED <<items, key, low, out_index, pc, search, ok>>

(* Fault: the item that was too small is kept in the window. *)
DiscardsLowerHalfOnly ==
  /\ pc = "binary" /\ low < high /\ Compare(key, items[Mid]) > 0
  /\ low' = Mid
  /\ UNCHANGED <<items, key, high, out_index, pc, search, ok>>

DiscardsLower ==
  /\ pc = "binary" /\ low < high /\ Compare(key, items[Mid]) > 0
  /\ low' = Mid + 1
  /\ UNCHANGED <<items, key, high, out_index, pc, search, ok>>

DiscardsUpper ==
  /\ pc = "binary" /\ low < high /\ Compare(key, items[Mid]) < 0
  /\ high' = Mid
  /\ UNCHANGED <<items, key, low, out_index, pc, search, ok>>

Hits ==
  /\ pc = "binary" /\ low < high /\ Compare(key, items[Mid]) = 0
  /\ Return(TRUE, Mid)
  /\ UNCHANGED <<items, key, search>>

Tests ==
  /\ pc = "linear" /\ low < count
  /\ IF Compare(key, items[low]) = 0
     THEN Return(TRUE, low)
     ELSE low' = low + 1 /\ UNCHANGED <<high, out_index, pc, ok>>
  /\ UNCHANGED <<items, key, search>>

Misses ==
  /\ pc # "idle" /\ low >= high
  /\ Return(FALSE, Untouched)
  /\ UNCHANGED <<items, key, search>>

Step == DiscardsLower \/ DiscardsUpper \/ Hits \/ Tests \/ Misses

Next ==
  \/ \E s \in {"binary", "linear"} : Refuse(s) \/ \E k \in Keys : SearchEmpty(s, k) \/ Begin(s, k)
  \/ Step

(* A call that has begun runs on. *)
Spec == Init /\ [][Next]_vars /\ WF_vars(Step)
------------------------------------------------------------------------------
Running == pc # "idle"

TypeOK ==
  /\ DOMAIN items = 0 .. count - 1 /\ \A i \in DOMAIN items : items[i] \in Keys
  /\ key \in Keys \cup {NoKey} /\ (pc # "idle" => key # NoKey)
  /\ low \in 0 .. count /\ high \in 0 .. count
  /\ out_index \in {Untouched} \cup 0 .. count - 1
  /\ pc \in {"idle", "binary", "linear"} /\ search \in {"binary", "linear"}
  /\ ok \in BOOLEAN

(* What the window no longer holds is not equal to the key: below it all   *)
(* items are less, above it all are greater (binary), or all items before  *)
(* the scan differ from it (linear).                                       *)
WindowHoldsKey ==
  /\ pc = "binary" =>
       /\ low <= high
       /\ \A i \in 0 .. low - 1 : items[i] < key
       /\ \A i \in high .. count - 1 : key < items[i]
  /\ pc = "linear" => high = count /\ \A i \in 0 .. low - 1 : items[i] # key

(* A search finds the key exactly if it is there: a hit is an index of it, *)
(* of linear_search the lowest one, and a miss leaves *out_index alone.    *)
Answers ==
  ~Running =>
    IF ok THEN /\ out_index \in DOMAIN items /\ items[out_index] = key
               /\ search = "linear" => \A i \in 0 .. out_index - 1 : items[i] # key
    ELSE /\ out_index = Untouched
         /\ \A i \in DOMAIN items : items[i] # key

SearchInvariant == TypeOK /\ WindowHoldsKey /\ Answers

(* A window that is probed again is a smaller one. *)
ProbesHalve == [][pc = "binary" /\ pc' = "binary" => 2 * (high' - low') <= high - low]_vars

CallsEnd == Running ~> ~Running
==============================================================================
