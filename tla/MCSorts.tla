-------------------------------- MODULE MCSorts -------------------------------
(***************************************************************************)
(* Small instances, for TLC, of the algorithms on arrays: the searches,    *)
(* the comparison sorts, and the sorts that count; and of the benchmark    *)
(* harness, which puts the times it measures of them in order.  One kind   *)
(* is used in a history of calls, the others rest.                         *)
(***************************************************************************)
EXTENDS ComparisonSorts

CONSTANTS
  NoKey, KeyLimits, Radix, Values, Durations, NoResult,
  MaxSearched, (* bounds on the arrays that are searched, and on those of  *)
  MaxKeys      (* the sorts that count                                     *)

VARIABLES
  kind,
  searched, key, low, high, out_index, probe, search, found,
  keys, given, method, limit, pass, counts, out_items, left, held, stage, done,
  shape, measure, remaining, succeeded, prepared, samples, allocated, out_result, phase, timed

Searching == INSTANCE Searches WITH
  MaxCount <- MaxSearched, items <- searched, pc <- probe, ok <- found

Distribution == INSTANCE DistributionSorts WITH
  MaxCount <- MaxKeys, items <- keys, sort <- method, blocks <- held, pc <- stage, ok <- done

(* Medians of both parities, with and without warmup, and what is refused. *)
MCShapes == [warmups : {0, 2}, samples : 0 .. 4, iterations : {0, 2}]

Harness == INSTANCE Benchmark WITH
  Shapes <- MCShapes, Untouched <- NoResult, left <- remaining, blocks <- allocated,
  pc <- phase, ok <- timed

ASSUME ArraysAssumption ==
  /\ SortAssumption /\ Searching!SearchAssumption
  /\ Distribution!DistributionAssumption /\ Harness!BenchmarkAssumption

Nowhere == [i \in {} |-> 0]

ArraysInit ==
  /\ kind \in {"search", "compare", "count", "measure"}
  /\ kind # "search" => searched = Nowhere
  /\ kind # "compare" => items = Nowhere
  /\ kind # "count" => keys = Nowhere
  /\ Init /\ Searching!Init /\ Distribution!Init /\ Harness!Init

searchVars == <<searched, key, low, high, out_index, probe, search, found>>
countVars == <<keys, given, method, limit, pass, counts, out_items, left, held, stage, done>>
harnessVars == <<shape, measure, remaining, succeeded, prepared, samples, allocated,
                 out_result, phase, timed>>
arraysVars == <<vars, searchVars, countVars, harnessVars, kind>>

SearchTurn == kind = "search" /\ Searching!Step /\ UNCHANGED <<kind, vars, countVars, harnessVars>>
CompareTurn == kind = "compare" /\ Step /\ UNCHANGED <<kind, searchVars, countVars, harnessVars>>
CountTurn == kind = "count" /\ Distribution!Step /\ UNCHANGED <<kind, vars, searchVars, harnessVars>>
HarnessTurn ==
  kind = "measure" /\ Harness!Step /\ UNCHANGED <<kind, vars, searchVars, countVars>>

ArraysNext ==
  \/ kind = "search" /\ Searching!Next /\ UNCHANGED <<kind, vars, countVars, harnessVars>>
  \/ kind = "compare" /\ Next /\ UNCHANGED <<kind, searchVars, countVars, harnessVars>>
  \/ kind = "count" /\ Distribution!Next /\ UNCHANGED <<kind, vars, searchVars, harnessVars>>
  \/ kind = "measure" /\ Harness!Next /\ UNCHANGED <<kind, vars, searchVars, countVars>>

ArraysSpec ==
  /\ ArraysInit /\ [][ArraysNext]_arraysVars
  /\ WF_arraysVars(SearchTurn) /\ WF_arraysVars(CompareTurn) /\ WF_arraysVars(CountTurn)
  /\ WF_arraysVars(HarnessTurn)

------------------------------------------------------------------------------
(* The loop invariants of all eight sorts: no item is lost, no index       *)
(* leaves its window although they are counted down in an unsigned type,   *)
(* what a loop has settled stays in order, and the blocks of a call are    *)
(* freed on every way out.                                                 *)
SortInvariant ==
  WellFormed /\ LoopInvariant /\ Distribution!DistributionInvariant

(* Between calls: a sort that succeeded has put its items in order, equal  *)
(* ones as they were if it is a stable one; a comparison sort that failed  *)
(* has moved nothing, a sort that counts nothing before its first pass was *)
(* complete.                                                               *)
SortedOrLeft == SortsOrLeaves /\ Distribution!SortsOrLeaves

(* A search finds the key exactly if it is there, linear_search its lowest *)
(* index; a miss leaves *out_index alone.  Between two probes the window   *)
(* holds the key if the array does.                                        *)
SearchInvariant == Searching!SearchInvariant

(* benchmark.c releases what setup prepared once on every way out of a     *)
(* batch, measures complete batches only, touches the result only when it  *)
(* succeeds, and the median it reports lies in the middle of them.         *)
HarnessInvariant == Harness!HarnessInvariant

(* Every call of a sort, a search or benchmark_run ends.                   *)
EveryCallEnds ==
  CallsEnd /\ Searching!CallsEnd /\ Distribution!CallsEnd /\ Harness!CallsEnd

(* radix-sort/README.md:48: "allocation failure must be reported cleanly   *)
(* and leave the input unmodified".                                        *)
FailureLeavesInput == Distribution!FailureLeavesInput
==============================================================================
