------------------------------- MODULE Benchmark ------------------------------
(***************************************************************************)
(* benchmark_run of bench/benchmark.c: one untimed warmup batch, then the  *)
(* timed ones.  A batch is the life of what setup prepares: the operation  *)
(* is repeated on it, verify inspects it, teardown releases it.            *)
(*                                                                         *)
(* The callbacks are the caller's; a missing one is one that does nothing. *)
(* Each may fail, but for teardown, and so may the clock and malloc.       *)
(***************************************************************************)
EXTENDS Naturals, Sequences, FiniteSets

CONSTANTS
  Shapes,      (* the warmups, samples and iterations callers ask for      *)
  Durations,   (* what the clock can show between start and stop           *)
  Untouched    (* the caller's *out_result before it is written            *)

BenchmarkAssumption ==
  /\ Shapes \subseteq [warmups : Nat, samples : Nat, iterations : Nat]
  /\ Durations \subseteq Nat

VARIABLES
  shape,       (* the configuration of the call                            *)
  measure,     (* whether the batch is a timed one                         *)
  left,        (* the operations the batch has still to call               *)
  succeeded,
  prepared,    (* what setup prepared and teardown has not released        *)
  samples,     (* the durations measured                                   *)
  blocks,      (* blocks the call has allocated                            *)
  out_result,
  pc,          (* "idle", or what the call does next                       *)
  ok

vars == <<shape, measure, left, succeeded, prepared, samples, blocks, out_result, pc, ok>>

NoShape == [warmups |-> 0, samples |-> 0, iterations |-> 0]

Init ==
  /\ shape = NoShape /\ measure = FALSE /\ left = 0 /\ succeeded = TRUE
  /\ prepared = 0 /\ samples = <<>> /\ blocks = 0
  /\ out_result = Untouched
  /\ pc = "idle" /\ ok = FALSE

(* The return of benchmark_run; it frees the samples if there are any. *)
Return(result) ==
  /\ blocks' = 0
  /\ samples' = <<>> /\ left' = 0 /\ measure' = FALSE /\ succeeded' = TRUE
  /\ pc' = "idle" /\ ok' = result

Refuse ==
  /\ pc = "idle"
  /\ Return(FALSE)
  /\ out_result' = Untouched
  /\ UNCHANGED <<shape, prepared>>

Begin(s) ==
  /\ pc = "idle"
  /\ s.samples > 0 /\ s.iterations > 0
  /\ shape' = s
  /\ out_result' = Untouched
  /\ left' = s.warmups
  /\ pc' = IF s.warmups > 0 THEN "setup" ELSE "allocate"
  /\ UNCHANGED <<measure, succeeded, prepared, samples, blocks, ok>>

Allocate ==
  /\ pc = "allocate"
  /\ blocks' = blocks + 1
  /\ measure' = TRUE /\ left' = shape.iterations
  /\ pc' = "setup"
  /\ UNCHANGED <<shape, succeeded, prepared, samples, out_result, ok>>

AllocateFails ==
  /\ pc = "allocate"
  /\ Return(FALSE)
  /\ UNCHANGED <<shape, prepared, out_result>>

------------------------------------------------------------------------------
(* benchmark_run_batch *)
Setup ==
  /\ pc = "setup"
  /\ prepared' = prepared + 1
  /\ pc' = IF measure THEN "start" ELSE "operate"
  /\ UNCHANGED <<shape, measure, left, succeeded, samples, blocks, out_result, ok>>

(* Nothing was prepared, so nothing is released. *)
SetupFails ==
  /\ pc = "setup"
  /\ Return(FALSE)
  /\ UNCHANGED <<shape, prepared, out_result>>

Start ==
  /\ pc = "start"
  /\ \/ pc' = "operate" /\ UNCHANGED succeeded
     \/ pc' = "teardown" /\ succeeded' = FALSE
  /\ UNCHANGED <<shape, measure, left, prepared, samples, blocks, out_result, ok>>

Operate ==
  /\ pc = "operate" /\ left > 0
  /\ \/ left' = left - 1 /\ UNCHANGED <<succeeded, pc>>
     \/ succeeded' = FALSE /\ pc' = "stop" /\ UNCHANGED left
  /\ UNCHANGED <<shape, measure, prepared, samples, blocks, out_result, ok>>

(* The clock is read again after a failed operation, too. *)
Stop ==
  /\ pc = "stop" \/ (pc = "operate" /\ left = 0)
  /\ \/ UNCHANGED succeeded
     \/ measure /\ succeeded' = FALSE
  /\ pc' = "verify"
  /\ UNCHANGED <<shape, measure, left, prepared, samples, blocks, out_result, ok>>

Verify ==
  /\ pc = "verify"
  /\ \/ UNCHANGED succeeded
     \/ succeeded /\ succeeded' = FALSE
  /\ pc' = "teardown"
  /\ UNCHANGED <<shape, measure, left, prepared, samples, blocks, out_result, ok>>

(* qsort with compare_doubles: s in ascending order. *)
Ascending(s) ==
  LET Places == DOMAIN s
      from == CHOOSE p \in [Places -> Places] :
                /\ \A i \in Places : \E j \in Places : p[j] = i
                /\ \A i, j \in Places : i < j => s[p[i]] <= s[p[j]]
  IN  [i \in Places |-> s[from[i]]]

(* The result of a call whose samples are s. *)
Result(s) ==
  LET sorted == Ascending(s)
      n == Len(s)
  IN  [min |-> sorted[1], max |-> sorted[n],
       twice_median |-> IF n % 2 = 0 THEN sorted[n \div 2] + sorted[n \div 2 + 1]
                        ELSE 2 * sorted[n \div 2 + 1]]

(* The first timed batch follows the warmup. *)
WarmedUp ==
  /\ pc' = "allocate"
  /\ UNCHANGED <<shape, measure, left, succeeded, samples, blocks, out_result, ok>>

(* A complete timed batch is a sample; the last one makes the result. *)
Sampled(d) ==
  LET taken == Append(samples, d)
  IN  /\ UNCHANGED shape
      /\ IF Len(taken) < shape.samples
         THEN /\ samples' = taken
              /\ left' = shape.iterations /\ pc' = "setup"
              /\ UNCHANGED <<measure, succeeded, blocks, out_result, ok>>
         ELSE out_result' = Result(taken) /\ Return(TRUE)

BatchFailed == Return(FALSE) /\ UNCHANGED <<shape, out_result>>

(* Fault: a failed batch is not released. *)
TeardownOnSuccess ==
  /\ pc = "teardown"
  /\ prepared' = IF succeeded THEN prepared - 1 ELSE prepared
  /\ \/ ~succeeded /\ BatchFailed
     \/ succeeded /\ ~measure /\ WarmedUp
     \/ succeeded /\ measure /\ \E d \in Durations : Sampled(d)

Teardown ==
  /\ pc = "teardown"
  /\ prepared' = prepared - 1
  /\ \/ ~succeeded /\ BatchFailed
     \/ succeeded /\ ~measure /\ WarmedUp
     \/ succeeded /\ measure /\ \E d \in Durations : Sampled(d)

------------------------------------------------------------------------------
Step ==
  \/ Allocate \/ AllocateFails
  \/ Setup \/ SetupFails \/ Start \/ Operate \/ Stop \/ Verify \/ Teardown

Next == Refuse \/ (\E s \in Shapes : Begin(s)) \/ Step

(* A call that has begun runs on; the callbacks return. *)
Spec == Init /\ [][Next]_vars /\ WF_vars(Step)
------------------------------------------------------------------------------
Running == pc # "idle"

TypeOK ==
  /\ shape \in Shapes \cup {NoShape}
  /\ measure \in BOOLEAN /\ succeeded \in BOOLEAN /\ ok \in BOOLEAN
  /\ left \in Nat /\ prepared \in Nat /\ blocks \in Nat
  /\ samples \in Seq(Durations)
  /\ pc \in {"idle", "allocate", "setup", "start", "operate", "stop", "verify", "teardown"}

(* What setup prepared is released once, on every way out of a batch, and  *)
(* the next batch is prepared afresh.                                      *)
BatchesAreReleased ==
  prepared = IF pc \in {"idle", "allocate", "setup"} THEN 0 ELSE 1

(* The samples are allocated before the first timed batch and never        *)
(* overrun; a batch that is verified has called every operation.           *)
SamplesFit ==
  /\ blocks = IF measure THEN 1 ELSE 0
  /\ Running /\ pc # "allocate" => Len(samples) < shape.samples
  /\ pc \in {"verify", "teardown"} /\ succeeded => left = 0

(* No sample lies outside the extremes of the result, and neither below    *)
(* nor above its median do more than half of them.                         *)
MedianIsMiddle(s) ==
  LET r == Result(s)
  IN  /\ \A i \in DOMAIN s : r.min <= s[i] /\ s[i] <= r.max
      /\ 2 * Cardinality({i \in DOMAIN s : 2 * s[i] < r.twice_median}) <= Len(s)
      /\ 2 * Cardinality({i \in DOMAIN s : 2 * s[i] > r.twice_median}) <= Len(s)

(* A call that failed has left the result alone. *)
ResultKept == Running \/ ~ok => out_result = Untouched

HarnessInvariant ==
  /\ TypeOK /\ BatchesAreReleased /\ SamplesFit /\ ResultKept
  /\ samples # <<>> => MedianIsMiddle(samples)

CallsEnd == Running ~> ~Running
==============================================================================
