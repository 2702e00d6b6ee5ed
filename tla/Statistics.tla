----------------------------- MODULE Statistics -----------------------------
(***************************************************************************)
(* What ACDC measures (src/acdc.c): every thread counts what it allocates  *)
(* and deallocates in its own statistics; thread 0 sums up the counters of *)
(* all threads, without a lock and while they run, when it samples the     *)
(* memory consumption; and run_acdc joins the threads and adds everything  *)
(* up in the statistics of the first one.                                  *)
(*                                                                         *)
(* The threads' work is what module Mutator shows in detail, reduced to    *)
(* what the counters can tell: every LSClass has one object of one byte    *)
(* and uses up the time quantum; of the threads that hold a shared class   *)
(* only the one that drops it last appears here, and the slot to which it  *)
(* moves what it fetches from its pool is any.  Cycle counts, histograms   *)
(* and the sample that comes from /proc are left out.                      *)
(***************************************************************************)
EXTENDS Integers, FiniteSets, Functions

CONSTANTS
  NumThreads,          (* -n                                               *)
  MaxLiveness,         (* -L                                               *)
  MaxTimeGap,          (* -g                                               *)
  BenchmarkDuration,   (* -d                                               *)
  SharedObjects,       (* -O                                               *)
  U64                  (* 2^64: the counters are unsigned                  *)

ASSUME StatisticsAssumption ==
  /\ NumThreads \in Nat \ {0}
  /\ MaxLiveness \in Nat \ {0}
  /\ MaxTimeGap \in Nat \ {0}
  /\ BenchmarkDuration \in Nat
  /\ SharedObjects \in BOOLEAN
  /\ U64 \in Nat \ {0}
  /\ U64 > NumThreads * BenchmarkDuration

Threads == 0 .. NumThreads - 1
Slots == 0 .. MaxLiveness - 1

VARIABLES
  pc,                         (* where each thread is in acdc_thread       *)
  time,                       (* mc->time                                  *)
  heap_class,                 (* [thread -> [slot -> live bytes]]          *)
  pool,                       (* [thread -> bytes shared with it]          *)
  bytes_allocated,            (* mc->stat, by thread                       *)
  bytes_deallocated,
  position,                   (* counters thread 0 has read in its sample  *)
  total_allocated,            (* its local sums                            *)
  total_deallocated,
  current_rss,                (* the last sample                           *)
  samples_counted,            (* samples in resident_set_size_counter      *)
  run                         (* run_acdc: "join" or "report"              *)

heapVars   == <<heap_class, pool>>
statVars   == <<bytes_allocated, bytes_deallocated>>
sampleVars == <<position, total_allocated, total_deallocated, current_rss, samples_counted>>
vars == <<pc, time, heapVars, statVars, sampleVars, run>>

LoopHead(t) == IF time[t] < BenchmarkDuration THEN "alloc" ELSE "done"

Init ==
  /\ pc = [t \in Threads |-> IF BenchmarkDuration > 0 THEN "alloc" ELSE "done"]
  /\ time = [t \in Threads |-> 0]
  /\ heap_class = [t \in Threads |-> [s \in Slots |-> 0]]
  /\ pool = [t \in Threads |-> 0]
  /\ bytes_allocated = [t \in Threads |-> 0]
  /\ bytes_deallocated = [t \in Threads |-> 0]
  /\ position = 0
  /\ total_allocated = 0
  /\ total_deallocated = 0
  /\ current_rss = 0
  /\ samples_counted = 0
  /\ run = "join"

(* A new class of t goes to a slot of its own; or to the pool of some u,   *)
(* and then t fetches what is in its own pool.                             *)
Allocate(t) ==
  /\ pc[t] = "alloc"
  /\ \/ /\ \E liveness \in 1 .. MaxLiveness :
             heap_class' = [heap_class EXCEPT ![t][(time[t] + liveness) % MaxLiveness] = @ + 1]
        /\ UNCHANGED pool
     \/ /\ SharedObjects
        /\ \E u \in Threads, s \in Slots :
             LET shared == [pool EXCEPT ![u] = @ + 1]
             IN  /\ heap_class' = [heap_class EXCEPT ![t][s] = @ + shared[t]]
                 /\ pool' = [shared EXCEPT ![t] = 0]
  /\ bytes_allocated' = [bytes_allocated EXCEPT ![t] = @ + 1]
  /\ pc' = [pc EXCEPT ![t] = IF t = 0 THEN "sample" ELSE "tick"]
  /\ UNCHANGED <<time, bytes_deallocated, sampleVars, run>>

(* A plausible slip: the sums start from the last sample.                  *)
SampleStart_NoReset == UNCHANGED <<total_allocated, total_deallocated>>
SampleStart == total_allocated' = 0 /\ total_deallocated' = 0

SampleBegin ==
  /\ pc[0] = "sample"
  /\ SampleStart
  /\ position' = 0
  /\ pc' = [pc EXCEPT ![0] = "read"]
  /\ UNCHANGED <<time, heapVars, statVars, current_rss, samples_counted, run>>

(* get_and_print_memstats reads, thread by thread, first the one and then  *)
(* the other counter, each with a load of its own.                         *)
SampleRead ==
  /\ pc[0] = "read"
  /\ position < 2 * NumThreads
  /\ LET i == position \div 2
     IN  IF position % 2 = 0
         THEN /\ total_allocated' = total_allocated + bytes_allocated[i]
              /\ UNCHANGED total_deallocated
         ELSE /\ total_deallocated' = total_deallocated + bytes_deallocated[i]
              /\ UNCHANGED total_allocated
  /\ position' = position + 1
  /\ UNCHANGED <<pc, time, heapVars, statVars, current_rss, samples_counted, run>>

(* A plausible slip: one more time unit of warmup.                         *)
WarmedUp_OneLate == time[0] > 2 * MaxLiveness

(* The end of the warmup phase.  The comment in the code says that         *)
(* measurements start "after max-liveness units of time"; the code waits   *)
(* twice as long, and so does the divisor of the reported average.         *)
WarmedUp == time[0] >= 2 * MaxLiveness

SampleEnd ==
  /\ pc[0] = "read"
  /\ position = 2 * NumThreads
  /\ current_rss' = (total_allocated - total_deallocated) % U64
  /\ samples_counted' = IF WarmedUp THEN samples_counted + 1 ELSE samples_counted
  /\ pc' = [pc EXCEPT ![0] = "tick"]
  /\ UNCHANGED <<time, heapVars, statVars, position, total_allocated,
                 total_deallocated, run>>

Tick(t) ==
  /\ pc[t] = "tick"
  /\ time' = [time EXCEPT ![t] = @ + 1]
  /\ pc' = [pc EXCEPT ![t] = "expire"]
  /\ UNCHANGED <<heapVars, statVars, sampleVars, run>>

(* A plausible slip: the statistics count the whole list for every class.  *)
DeallocatedBytes_WholeList(t) == heap_class[t][time[t] % MaxLiveness]
DeallocatedBytes(t) == 1

(* heap_class_remove, one class of the expired slot.                       *)
Deallocate(t) ==
  /\ pc[t] = "expire"
  /\ heap_class[t][time[t] % MaxLiveness] > 0
  /\ heap_class' = [heap_class EXCEPT ![t][time[t] % MaxLiveness] = @ - 1]
  /\ bytes_deallocated' = [bytes_deallocated EXCEPT ![t] = @ + DeallocatedBytes(t)]
  /\ UNCHANGED <<pc, time, pool, bytes_allocated, sampleVars, run>>

EndTimeUnit(t) ==
  /\ pc[t] = "expire"
  /\ heap_class[t][time[t] % MaxLiveness] = 0
  /\ pc' = [pc EXCEPT ![t] = IF time[t] % MaxTimeGap = 0 THEN "barrier" ELSE LoopHead(t)]
  /\ UNCHANGED <<time, heapVars, statVars, sampleVars, run>>

(* The last thread has reached the barrier.                                *)
Barrier ==
  /\ \A t \in Threads : pc[t] = "barrier"
  /\ pc' = [t \in Threads |-> LoopHead(t)]
  /\ UNCHANGED <<time, heapVars, statVars, sampleVars, run>>

(* A plausible slip: the threads are counted from the second one on.       *)
Others_SkipFirst == 2 .. NumThreads - 1
Others == 1 .. NumThreads - 1

(* All threads are joined: aggregate in the first thread's statistics.     *)
Aggregate ==
  /\ run = "join"
  /\ \A t \in Threads : pc[t] = "done"
  /\ bytes_allocated' =
       [bytes_allocated EXCEPT ![0] =
          @ + SumFunctionOnSet(bytes_allocated, Others)]
  /\ bytes_deallocated' =
       [bytes_deallocated EXCEPT ![0] =
          @ + SumFunctionOnSet(bytes_deallocated, Others)]
  /\ run' = "report"
  /\ UNCHANGED <<pc, time, heapVars, sampleVars>>

Terminating == run = "report" /\ UNCHANGED vars

Next ==
  \/ \E t \in Threads : Allocate(t) \/ Tick(t) \/ Deallocate(t) \/ EndTimeUnit(t)
  \/ SampleBegin
  \/ SampleRead
  \/ SampleEnd
  \/ Barrier
  \/ Aggregate
  \/ Terminating

Spec == Init /\ [][Next]_vars

-----------------------------------------------------------------------------
(***************************************************************************)
(* Properties.                                                             *)
(***************************************************************************)
LiveBytes ==
  SumFunction([p \in Threads \X Slots |-> heap_class[p[1]][p[2]]]) + SumFunction(pool)

(* Whoever allocates and whoever deallocates: the counters of all threads  *)
(* always differ by what is live.                                          *)
CountersBalance ==
  run = "join" => SumFunction(bytes_allocated) - SumFunction(bytes_deallocated) = LiveBytes

(* The reported totals still do after the aggregation: every thread is     *)
(* added once, and no class that was allocated is missing.                 *)
ReportBalances ==
  run = "report" =>
    /\ bytes_allocated[0] - bytes_deallocated[0] = LiveBytes
    /\ bytes_allocated[0] = NumThreads * BenchmarkDuration

(* The average memory consumption is the sum of the samples taken after    *)
(* the warmup, divided by a number that run_acdc computes from the options *)
(* after the threads have gone: benchmark_duration - 2 * max_liveness.  It *)
(* is the number of the samples that thread 0 has added up; both take the  *)
(* warmup for twice as long as the comment on it does (see WarmedUp).      *)
SamplesMatchDivisor ==
  run = "report" =>
    samples_counted = IF BenchmarkDuration >= 2 * MaxLiveness
                      THEN BenchmarkDuration - 2 * MaxLiveness
                      ELSE 0

(* A sample in progress has not counted anything twice or from an earlier  *)
(* sample: its sums stay within what the threads have counted by now.      *)
(* (Their difference, the memory demand that is printed, can be anything:  *)
(* the two are read one after the other while threads run on, and a thread *)
(* that allocated a class need not be the one that deallocates it.)        *)
SampleWithinTotals ==
  pc[0] = "read" =>
    /\ total_allocated <= SumFunction(bytes_allocated)
    /\ total_deallocated <= SumFunction(bytes_deallocated)
=============================================================================
