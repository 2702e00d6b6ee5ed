-------------------------- MODULE StatisticsProofs --------------------------
(***************************************************************************)
(* What the statistics of ACDC say, for every number of threads and every  *)
(* duration: sums over all threads change by what one thread does.         *)
(***************************************************************************)
EXTENDS Statistics, DataInduction

(* What every step of a thread relies on.                                  *)
TypeOK ==
  /\ pc \in [Threads -> {"alloc", "sample", "read", "tick", "expire", "barrier", "done"}]
  /\ time \in [Threads -> Nat]
  /\ heap_class \in [Threads -> [Slots -> Nat]]
  /\ pool \in [Threads -> Nat]
  /\ bytes_allocated \in [Threads -> Nat]
  /\ bytes_deallocated \in [Threads -> Nat]
  /\ position \in 0 .. 2 * NumThreads
  /\ total_allocated \in Nat
  /\ total_deallocated \in Nat
  /\ current_rss \in Int
  /\ samples_counted \in Nat
  /\ run \in {"join", "report"}

(* A thread that has not allocated in its time unit ...                    *)
Counted == {"sample", "read", "tick"}

(* ... has allocated once in each of those before.                         *)
ClockInv ==
  /\ \A t \in Threads :
       /\ pc[t] \in Counted \cup {"alloc"} => time[t] < BenchmarkDuration
       /\ pc[t] = "done" => time[t] = BenchmarkDuration
       /\ time[t] <= BenchmarkDuration
  /\ run = "report" => \A t \in Threads : pc[t] = "done"
  /\ run = "join" => \A t \in Threads :
       bytes_allocated[t] = IF pc[t] \in Counted THEN time[t] + 1 ELSE time[t]

(* Thread 0 has a sample for every time unit since the warmup.             *)
SampleInv ==
  LET units == IF pc[0] = "tick" THEN time[0] + 1 ELSE time[0]
  IN  samples_counted = IF units <= 2 * MaxLiveness THEN 0 ELSE units - 2 * MaxLiveness

(* The threads whose counters a sample in progress has read.               *)
AllocatedRead(p) == {t \in Threads : 2 * t < p}
DeallocatedRead(p) == {t \in Threads : 2 * t + 1 < p}

ReadInv ==
  pc[0] = "read" =>
    /\ total_allocated <= SumFunctionOnSet(bytes_allocated, AllocatedRead(position))
    /\ total_deallocated <= SumFunctionOnSet(bytes_deallocated, DeallocatedRead(position))

IInv == TypeOK /\ ClockInv /\ SampleInv /\ ReadInv /\ CountersBalance /\ ReportBalances

-----------------------------------------------------------------------------
LEMMA Constants ==
  /\ NumThreads \in Nat \ {0} /\ MaxLiveness \in Nat \ {0} /\ MaxTimeGap \in Nat \ {0}
  /\ BenchmarkDuration \in Nat
  /\ IsFiniteSet(Threads) /\ 0 \in Threads /\ Threads \subseteq Nat
  /\ Cardinality(Threads) = NumThreads
  /\ IsFiniteSet(Threads \X Slots)
<1>1. /\ NumThreads \in Nat \ {0} /\ MaxLiveness \in Nat \ {0} /\ MaxTimeGap \in Nat \ {0}
      /\ BenchmarkDuration \in Nat
  BY StatisticsAssumption DEF StatisticsAssumption
<1>2. /\ IsFiniteSet(Threads) /\ 0 \in Threads /\ Threads \subseteq Nat
      /\ Cardinality(Threads) = NumThreads
  BY <1>1, FS_Interval DEF Threads
<1>3. IsFiniteSet(Slots)
  BY <1>1, FS_Interval DEF Slots
<1> QED
  BY <1>1, <1>2, <1>3, FS_Product

(* The sums over all threads and over all slots of all threads.            *)
Cell(h) == [p \in Threads \X Slots |-> h[p[1]][p[2]]]

ThreadSum(f) == SumFunctionOnSet(f, Threads)
CellSum(h) == SumFunctionOnSet(Cell(h), Threads \X Slots)

LEMMA ThreadSumInt == ASSUME NEW f \in [Threads -> Nat] PROVE ThreadSum(f) \in Int
<1>1. IsFiniteSet(Threads) /\ \A t \in Threads : f[t] \in Int
  BY Constants
<1> QED
  BY <1>1, SumType DEF ThreadSum

LEMMA CellSumInt == ASSUME NEW h \in [Threads -> [Slots -> Nat]] PROVE CellSum(h) \in Int
<1>1. \A p \in Threads \X Slots : Cell(h)[p] \in Int
  BY DEF Cell
<1>2. IsFiniteSet(Threads \X Slots)
  BY Constants
<1> QED
  BY <1>1, <1>2, SumType DEF CellSum

LEMMA BalanceArithmetic ==
  \A a, d, c, p \in Int : a - d = c + p <=> a = d + c + p
OBVIOUS

LEMMA BalanceOfSums ==
  ASSUME NEW h \in [Threads -> [Slots -> Nat]], NEW p \in [Threads -> Nat],
         NEW a \in [Threads -> Nat], NEW d \in [Threads -> Nat]
  PROVE  SumFunction(a) - SumFunction(d)
           = SumFunction([c \in Threads \X Slots |-> h[c[1]][c[2]]]) + SumFunction(p)
         <=> ThreadSum(a) = ThreadSum(d) + CellSum(h) + ThreadSum(p)
<1>1. /\ ThreadSum(a) \in Int /\ ThreadSum(d) \in Int /\ ThreadSum(p) \in Int
      /\ CellSum(h) \in Int
  BY ThreadSumInt, CellSumInt
<1>2. /\ SumFunction([c \in Threads \X Slots |-> h[c[1]][c[2]]]) = CellSum(h)
      /\ SumFunction(p) = ThreadSum(p)
      /\ SumFunction(a) = ThreadSum(a) /\ SumFunction(d) = ThreadSum(d)
  BY DEF SumFunction, Cell, ThreadSum, CellSum
<1> QED
  BY <1>1, <1>2, BalanceArithmetic

(* One thread's number changes.                                            *)
LEMMA ThreadChange ==
  ASSUME NEW f, NEW g, NEW t \in Threads, DifferAt(f, g, t, Threads)
  PROVE  ThreadSum(g) = ThreadSum(f) + (g[t] - f[t])
<1>1. IsFiniteSet(Threads)
  BY Constants
<1> QED
  BY <1>1, SumChange DEF ThreadSum

(* One cell of a heap class changes.                                       *)
CellsDifferAt(h, g, t, s) ==
  /\ h \in [Threads -> [Slots -> Nat]] /\ g \in [Threads -> [Slots -> Nat]]
  /\ \A u \in Threads, v \in Slots : u # t \/ v # s => g[u][v] = h[u][v]

LEMMA CellChange ==
  ASSUME NEW h, NEW g, NEW t \in Threads, NEW s \in Slots, CellsDifferAt(h, g, t, s)
  PROVE  CellSum(g) = CellSum(h) + (g[t][s] - h[t][s])
<1> DEFINE P == Threads \X Slots
           z == <<t, s>>
<1>1. z \in P /\ IsFiniteSet(P)
  BY Constants
<1>2. \A p \in P : Cell(h)[p] \in Int /\ Cell(g)[p] \in Int
  BY DEF Cell, CellsDifferAt
<1>3. \A p \in P \ {z} : Cell(h)[p] = Cell(g)[p]
  BY DEF Cell, CellsDifferAt
<1>4. Cell(g)[z] = g[t][s] /\ Cell(h)[z] = h[t][s]
  BY DEF Cell
<1> HIDE DEF P, z
<1>5. DifferAt(Cell(h), Cell(g), z, P)
  BY <1>2, <1>3 DEF DifferAt
<1>6. SumFunctionOnSet(Cell(g), P) = SumFunctionOnSet(Cell(h), P) + (Cell(g)[z] - Cell(h)[z])
  BY <1>1, <1>5, SumChange
<1> QED
  BY <1>4, <1>6 DEF P, CellSum

-----------------------------------------------------------------------------
LEMMA InitEstablishes == Init => IInv
<1> SUFFICES ASSUME Init PROVE IInv
  OBVIOUS
<1>1. TypeOK
  BY Constants DEF Init, TypeOK
<1>2. ClockInv /\ ReadInv /\ ReportBalances
  BY Constants DEF Init, ClockInv, Counted, ReadInv, ReportBalances
<1>3. SampleInv
  BY Constants DEF Init, SampleInv
<1>4. CountersBalance
  <2>1. \A p \in Threads \X Slots : Cell(heap_class)[p] = 0
    BY DEF Init, Cell
  <2>2. \A t \in Threads : pool[t] = 0 /\ bytes_allocated[t] = 0 /\ bytes_deallocated[t] = 0
    BY DEF Init
  <2>3. /\ CellSum(heap_class) = Cardinality(Threads \X Slots) * 0
        /\ ThreadSum(pool) = Cardinality(Threads) * 0
        /\ ThreadSum(bytes_allocated) = Cardinality(Threads) * 0
        /\ ThreadSum(bytes_deallocated) = Cardinality(Threads) * 0
    <3>1. IsFiniteSet(Threads) /\ IsFiniteSet(Threads \X Slots)
      BY Constants
    <3>2. CellSum(heap_class) = Cardinality(Threads \X Slots) * 0
      BY <2>1, <3>1, SumOfEquals DEF CellSum
    <3>3. /\ ThreadSum(pool) = Cardinality(Threads) * 0
          /\ ThreadSum(bytes_allocated) = Cardinality(Threads) * 0
          /\ ThreadSum(bytes_deallocated) = Cardinality(Threads) * 0
      BY <2>2, <3>1, SumOfEquals DEF ThreadSum
    <3> QED
      BY <3>2, <3>3
  <2>4. Cardinality(Threads) \in Nat /\ Cardinality(Threads \X Slots) \in Nat
    BY Constants, FS_CardinalityType
  <2>5. ThreadSum(bytes_allocated)
          = ThreadSum(bytes_deallocated) + CellSum(heap_class) + ThreadSum(pool)
    BY <2>3, <2>4
  <2> QED
    BY <1>1, <2>5, BalanceOfSums DEF CountersBalance, LiveBytes, TypeOK
<1> QED
  BY <1>1, <1>2, <1>3, <1>4 DEF IInv

LEMMA SlotOfTime ==
  ASSUME NEW n \in Nat PROVE n % MaxLiveness \in Slots
BY Constants DEF Slots

LEMMA Mod2 == \A p \in Nat : p % 2 \in {0, 1} /\ p = (2 * (p \div 2)) + (p % 2)
OBVIOUS

LEMMA PositionIsThread ==
  ASSUME position \in 0 .. 2 * NumThreads, position < 2 * NumThreads
  PROVE  position \div 2 \in Threads
BY Mod2, Constants DEF Threads

LEMMA OthersAreThreads ==
  Others \in SUBSET Threads /\ IsFiniteSet(Others) /\ Others = Threads \ {0}
<1>1. NumThreads \in Nat \ {0} /\ IsFiniteSet(Threads)
  BY Constants
<1>2. Others = Threads \ {0}
  BY <1>1 DEF Others, Threads
<1> QED
  BY <1>1, <1>2, FS_Subset

(* A class goes to a slot of its own, or through the pool to some slot.    *)
AllocateHeap(t, liveness) ==
  \/ /\ heap_class' = [heap_class EXCEPT ![t][(time[t] + liveness) % MaxLiveness] = @ + 1]
     /\ pool' = pool
  \/ \E u \in Threads, s \in Slots :
       /\ heap_class' = [heap_class EXCEPT ![t][s] = @ + [pool EXCEPT ![u] = @ + 1][t]]
       /\ pool' = [[pool EXCEPT ![u] = @ + 1] EXCEPT ![t] = 0]

LEMMA AllocateDoes ==
  ASSUME NEW t \in Threads, Allocate(t)
  PROVE  /\ \E liveness \in 1 .. MaxLiveness : AllocateHeap(t, liveness)
         /\ pc[t] = "alloc"
         /\ bytes_allocated' = [bytes_allocated EXCEPT ![t] = @ + 1]
         /\ pc' = [pc EXCEPT ![t] = IF t = 0 THEN "sample" ELSE "tick"]
         /\ time' = time /\ bytes_deallocated' = bytes_deallocated /\ run' = run
         /\ position' = position /\ total_allocated' = total_allocated
         /\ total_deallocated' = total_deallocated /\ current_rss' = current_rss
         /\ samples_counted' = samples_counted
<1>1. \E liveness \in 1 .. MaxLiveness : AllocateHeap(t, liveness)
  <2>1. 1 \in 1 .. MaxLiveness
    BY Constants
  <2> QED
    BY <2>1 DEF Allocate, AllocateHeap
<1> QED
  BY <1>1 DEF Allocate, sampleVars

LEMMA TypeStep == ASSUME TypeOK, [Next]_vars PROVE TypeOK'
<1>1. ASSUME NEW t \in Threads, Allocate(t) PROVE TypeOK'
  <2>1. PICK liveness \in 1 .. MaxLiveness : AllocateHeap(t, liveness)
    BY <1>1, AllocateDoes
  <2>3. heap_class' \in [Threads -> [Slots -> Nat]] /\ pool' \in [Threads -> Nat]
    <3>1. time[t] + liveness \in Nat
      <4>1. time[t] \in Nat
        BY DEF TypeOK
      <4> QED
        BY <4>1
    <3>2. (time[t] + liveness) % MaxLiveness \in Slots
      BY <3>1, SlotOfTime
    <3>3. CASE /\ heap_class' =
                    [heap_class EXCEPT ![t][(time[t] + liveness) % MaxLiveness] = @ + 1]
               /\ pool' = pool
      BY <3>2, <3>3 DEF TypeOK
    <3>4. ASSUME NEW u \in Threads, NEW s \in Slots,
                 heap_class' = [heap_class EXCEPT ![t][s] = @ + [pool EXCEPT ![u] = @ + 1][t]],
                 pool' = [[pool EXCEPT ![u] = @ + 1] EXCEPT ![t] = 0]
          PROVE  heap_class' \in [Threads -> [Slots -> Nat]] /\ pool' \in [Threads -> Nat]
      <4>1. [pool EXCEPT ![u] = @ + 1] \in [Threads -> Nat]
        BY DEF TypeOK
      <4>2. heap_class[t][s] + [pool EXCEPT ![u] = @ + 1][t] \in Nat
        BY <4>1 DEF TypeOK
      <4> QED
        BY <3>4, <4>1, <4>2 DEF TypeOK
    <3> QED
      BY <2>1, <3>3, <3>4 DEF AllocateHeap
  <2>4. bytes_allocated' \in [Threads -> Nat]
    <3>1. bytes_allocated' = [bytes_allocated EXCEPT ![t] = @ + 1]
      BY <1>1, AllocateDoes
    <3> QED
      BY <3>1 DEF TypeOK
  <2> QED
    BY <1>1, <2>3, <2>4, AllocateDoes DEF TypeOK
<1>2. ASSUME NEW t \in Threads, Tick(t) PROVE TypeOK'
  <2>1. time' \in [Threads -> Nat]
    BY <1>2 DEF Tick, TypeOK
  <2> QED
    BY <1>2, <2>1 DEF Tick, TypeOK, heapVars, statVars, sampleVars
<1>3. ASSUME NEW t \in Threads, Deallocate(t) PROVE TypeOK'
  <2>1. time[t] \in Nat
    BY DEF TypeOK
  <2>2. time[t] % MaxLiveness \in Slots
    BY <2>1, SlotOfTime
  <2>3. heap_class[t][time[t] % MaxLiveness] - 1 \in Nat
    BY <1>3, <2>2 DEF Deallocate, TypeOK
  <2>4. heap_class' \in [Threads -> [Slots -> Nat]]
    BY <1>3, <2>2, <2>3 DEF Deallocate, TypeOK
  <2>5. bytes_deallocated' \in [Threads -> Nat]
    BY <1>3 DEF Deallocate, DeallocatedBytes, TypeOK
  <2> QED
    BY <1>3, <2>4, <2>5 DEF Deallocate, TypeOK, sampleVars
<1>4. ASSUME NEW t \in Threads, EndTimeUnit(t) PROVE TypeOK'
  BY <1>4 DEF EndTimeUnit, LoopHead, TypeOK, heapVars, statVars, sampleVars
<1>5. CASE SampleBegin
  BY <1>5, Constants DEF SampleBegin, SampleStart, TypeOK, heapVars, statVars
<1>6. CASE SampleRead
  <2>1. position \div 2 \in Threads
    BY <1>6, PositionIsThread DEF SampleRead, TypeOK
  <2>2. total_allocated' \in Nat /\ total_deallocated' \in Nat
    BY <1>6, <2>1 DEF SampleRead, TypeOK
  <2>3. position' \in 0 .. 2 * NumThreads
    BY <1>6, Constants DEF SampleRead, TypeOK
  <2> QED
    BY <1>6, <2>2, <2>3 DEF SampleRead, TypeOK, heapVars, statVars
<1>7. CASE SampleEnd
  <2>1. U64 \in Nat \ {0}
    BY StatisticsAssumption DEF StatisticsAssumption
  <2>2. (total_allocated - total_deallocated) % U64 \in Int
    BY <2>1 DEF TypeOK
  <2>3. samples_counted' \in Nat /\ current_rss' \in Int
    BY <1>7, <2>2 DEF SampleEnd, TypeOK
  <2> QED
    BY <1>7, <2>3 DEF SampleEnd, TypeOK, heapVars, statVars
<1>8. CASE Barrier
  BY <1>8 DEF Barrier, LoopHead, TypeOK, heapVars, statVars, sampleVars
<1>9. CASE Aggregate
  <2>1. Others \in SUBSET Threads /\ IsFiniteSet(Others)
    BY OthersAreThreads
  <2>2. /\ SumFunctionOnSet(bytes_allocated, Others) \in Nat
        /\ SumFunctionOnSet(bytes_deallocated, Others) \in Nat
    <3>1. \A t \in Others : bytes_allocated[t] \in Nat /\ bytes_deallocated[t] \in Nat
      BY <2>1 DEF TypeOK
    <3> QED
      BY <2>1, <3>1, SumNat
  <2>4. /\ bytes_allocated' \in [Threads -> Nat]
        /\ bytes_deallocated' \in [Threads -> Nat]
    BY <1>9, <2>2, Constants DEF Aggregate, TypeOK
  <2> QED
    BY <1>9, <2>4 DEF Aggregate, TypeOK, heapVars, sampleVars
<1>10. CASE UNCHANGED vars
  BY <1>10 DEF vars, TypeOK, heapVars, statVars, sampleVars
<1> QED
  BY <1>1, <1>2, <1>3, <1>4, <1>5, <1>6, <1>7, <1>8, <1>9, <1>10 DEF Next, Terminating

(* Once the totals are reported, all threads have ended for good.          *)
LEMMA ReportIsFinal ==
  ASSUME ClockInv, run = "report", [Next]_vars PROVE UNCHANGED vars
<1>1. \A t \in Threads : pc[t] = "done"
  BY DEF ClockInv
<1>2. 0 \in Threads
  BY Constants
<1> QED
  BY <1>1, <1>2 DEF Next, Allocate, Tick, Deallocate, EndTimeUnit, SampleBegin,
       SampleRead, SampleEnd, Barrier, Aggregate, Terminating

LEMMA ClockStep == ASSUME TypeOK, ClockInv, [Next]_vars PROVE ClockInv'
<1>0. BenchmarkDuration \in Nat /\ 0 \in Threads
  BY Constants
<1>1. ASSUME NEW t \in Threads, Allocate(t) PROVE ClockInv'
  <2>1. run # "report" /\ run' = run /\ time' = time
        /\ bytes_allocated' = [bytes_allocated EXCEPT ![t] = @ + 1]
        /\ pc' = [pc EXCEPT ![t] = IF t = 0 THEN "sample" ELSE "tick"] /\ pc[t] = "alloc"
    BY <1>1, AllocateDoes DEF ClockInv
  <2> QED
    BY <1>0, <2>1 DEF ClockInv, TypeOK, Counted
<1>2. ASSUME NEW t \in Threads, Tick(t) PROVE ClockInv'
  <2>1. run # "report" /\ run' = run /\ bytes_allocated' = bytes_allocated
        /\ time' = [time EXCEPT ![t] = @ + 1]
        /\ pc' = [pc EXCEPT ![t] = "expire"] /\ pc[t] = "tick"
    BY <1>2 DEF Tick, ClockInv, statVars
  <2> QED
    BY <1>0, <2>1 DEF ClockInv, TypeOK, Counted
<1>3. ASSUME NEW t \in Threads, Deallocate(t) PROVE ClockInv'
  BY <1>3 DEF Deallocate, ClockInv
<1>4. ASSUME NEW t \in Threads, EndTimeUnit(t) PROVE ClockInv'
  <2>1. run # "report" /\ run' = run /\ bytes_allocated' = bytes_allocated /\ time' = time
        /\ pc[t] = "expire"
        /\ \/ pc' = [pc EXCEPT ![t] = "barrier"]
           \/ pc' = [pc EXCEPT ![t] = "alloc"] /\ time[t] < BenchmarkDuration
           \/ pc' = [pc EXCEPT ![t] = "done"] /\ ~(time[t] < BenchmarkDuration)
    BY <1>4 DEF EndTimeUnit, ClockInv, statVars, LoopHead
  <2>2. ASSUME NEW u \in Threads
        PROVE  /\ pc'[u] \in Counted \cup {"alloc"} => time[u] < BenchmarkDuration
               /\ pc'[u] = "done" => time[u] = BenchmarkDuration
               /\ pc'[u] \in Counted <=> pc[u] \in Counted
    <3>1. time[u] \in Nat /\ time[u] <= BenchmarkDuration
      BY DEF TypeOK, ClockInv
    <3>2. CASE u = t
      <4>1. pc[t] \notin Counted
        BY <2>1 DEF Counted
      <4>2. \/ pc'[t] = "barrier"
            \/ pc'[t] = "alloc" /\ time[t] < BenchmarkDuration
            \/ pc'[t] = "done" /\ ~(time[t] < BenchmarkDuration)
        BY <2>1 DEF TypeOK
      <4>3. BenchmarkDuration \in Nat
        BY Constants
      <4> QED
        BY <3>1, <3>2, <4>1, <4>2, <4>3 DEF Counted
    <3>3. CASE u # t
      BY <2>1, <3>1, <3>3 DEF ClockInv, TypeOK
    <3> QED
      BY <3>2, <3>3
  <2> QED
    BY <2>1, <2>2 DEF ClockInv
<1>5. CASE SampleBegin
  BY <1>0, <1>5 DEF SampleBegin, ClockInv, Counted, TypeOK, statVars
<1>6. CASE SampleRead
  BY <1>6 DEF SampleRead, ClockInv, statVars
<1>7. CASE SampleEnd
  BY <1>0, <1>7 DEF SampleEnd, ClockInv, Counted, TypeOK, statVars
<1>8. CASE Barrier
  <2>1. run # "report" /\ run' = run /\ bytes_allocated' = bytes_allocated /\ time' = time
        /\ \A t \in Threads : /\ pc[t] = "barrier"
                              /\ \/ pc'[t] = "alloc" /\ time[t] < BenchmarkDuration
                                 \/ pc'[t] = "done" /\ ~(time[t] < BenchmarkDuration)
    BY <1>0, <1>8 DEF Barrier, ClockInv, statVars, LoopHead
  <2>2. ASSUME NEW u \in Threads
        PROVE  /\ pc'[u] \in Counted \cup {"alloc"} => time[u] < BenchmarkDuration
               /\ pc'[u] = "done" => time[u] = BenchmarkDuration
               /\ pc'[u] \notin Counted /\ pc[u] \notin Counted
    <3>1. time[u] \in Nat /\ time[u] <= BenchmarkDuration
      BY DEF TypeOK, ClockInv
    <3> QED
      BY <1>0, <2>1, <3>1 DEF Counted
  <2> QED
    BY <2>1, <2>2 DEF ClockInv
<1>9. CASE Aggregate
  BY <1>9 DEF Aggregate, ClockInv, Counted
<1>10. CASE UNCHANGED vars
  BY <1>10 DEF vars, statVars, ClockInv
<1> QED
  BY <1>1, <1>2, <1>3, <1>4, <1>5, <1>6, <1>7, <1>8, <1>9, <1>10 DEF Next, Terminating

LEMMA SampleStep == ASSUME TypeOK, SampleInv, [Next]_vars PROVE SampleInv'
<1>0. MaxLiveness \in Nat \ {0} /\ 0 \in Threads
  BY Constants
<1>1. ASSUME NEW t \in Threads, Allocate(t) PROVE SampleInv'
  <2>1. samples_counted' = samples_counted /\ time' = time /\ pc[t] = "alloc"
        /\ pc' = [pc EXCEPT ![t] = IF t = 0 THEN "sample" ELSE "tick"]
    BY <1>1, AllocateDoes
  <2> QED
    BY <1>0, <2>1 DEF SampleInv, TypeOK
<1>2. ASSUME NEW t \in Threads, Tick(t) PROVE SampleInv'
  <2>1. samples_counted' = samples_counted /\ time' = [time EXCEPT ![t] = @ + 1]
        /\ pc[t] = "tick" /\ pc' = [pc EXCEPT ![t] = "expire"]
    BY <1>2 DEF Tick, sampleVars
  <2> QED
    BY <1>0, <2>1 DEF SampleInv, TypeOK
<1>3. ASSUME NEW t \in Threads, Deallocate(t) PROVE SampleInv'
  BY <1>3 DEF Deallocate, SampleInv, sampleVars
<1>4. ASSUME NEW t \in Threads, EndTimeUnit(t) PROVE SampleInv'
  BY <1>0, <1>4 DEF EndTimeUnit, LoopHead, SampleInv, TypeOK, sampleVars
<1>5. CASE SampleBegin
  BY <1>0, <1>5 DEF SampleBegin, SampleInv, TypeOK
<1>6. CASE SampleRead
  BY <1>6 DEF SampleRead, SampleInv
<1>7. CASE SampleEnd
  <2>1. pc[0] = "read" /\ pc' = [pc EXCEPT ![0] = "tick"] /\ time' = time
        /\ samples_counted' = IF time[0] >= 2 * MaxLiveness THEN samples_counted + 1
                              ELSE samples_counted
    BY <1>7 DEF SampleEnd, WarmedUp
  <2>2. pc'[0] = "tick" /\ time[0] \in Nat
    BY <1>0, <2>1 DEF TypeOK
  <2> QED
    BY <1>0, <2>1, <2>2 DEF SampleInv
<1>8. CASE Barrier
  BY <1>0, <1>8 DEF Barrier, LoopHead, SampleInv, sampleVars
<1>9. CASE Aggregate
  BY <1>9 DEF Aggregate, SampleInv, sampleVars
<1>10. CASE UNCHANGED vars
  BY <1>10 DEF vars, sampleVars, SampleInv
<1> QED
  BY <1>1, <1>2, <1>3, <1>4, <1>5, <1>6, <1>7, <1>8, <1>9, <1>10 DEF Next, Terminating

-----------------------------------------------------------------------------
(* A sample in progress keeps up with counters that only grow.             *)
LEMMA Growing ==
  ASSUME NEW f \in [Threads -> Nat], NEW g \in [Threads -> Nat],
         \A t \in Threads : f[t] <= g[t],
         NEW S \in SUBSET Threads, NEW n \in Nat, n <= SumFunctionOnSet(f, S)
  PROVE  n <= SumFunctionOnSet(g, S)
<1>1. IsFiniteSet(S)
  BY Constants, FS_Subset
<1>2. \A x \in S : f[x] \in Int /\ g[x] \in Int /\ f[x] <= g[x]
  OBVIOUS
<1>3. SumFunctionOnSet(f, S) <= SumFunctionOnSet(g, S)
  BY <1>1, <1>2, SumMonotonic
<1>4. SumFunctionOnSet(f, S) \in Int /\ SumFunctionOnSet(g, S) \in Int
  BY <1>1, <1>2, SumType
<1> QED
  BY <1>3, <1>4

(* A counter that is read adds its thread to those that have been read.    *)
LEMMA ReadOneMore ==
  ASSUME NEW f \in [Threads -> Nat], NEW S \in SUBSET Threads, NEW i \in Threads, i \notin S,
         NEW n \in Nat, n <= SumFunctionOnSet(f, S)
  PROVE  n + f[i] <= SumFunctionOnSet(f, S \cup {i})
<1> DEFINE R == S \cup {i}
<1>1. IsFiniteSet(R) /\ R \ {i} = S /\ i \in R /\ IsFiniteSet(S)
  BY Constants, FS_Subset
<1>2. \A x \in R : f[x] \in Int
  OBVIOUS
<1>3. SumFunctionOnSet(f, S) \in Int
  BY <1>1, <1>2, SumType
<1> HIDE DEF R
<1>4. SumFunctionOnSet(f, R) = f[i] + SumFunctionOnSet(f, R \ {i})
  BY <1>1, <1>2, SumRemove
<1>5. f[i] \in Nat
  OBVIOUS
<1>6. n + f[i] <= SumFunctionOnSet(f, R)
  <2>1. SumFunctionOnSet(f, R) = f[i] + SumFunctionOnSet(f, S)
    BY <1>1, <1>4
  <2> QED
    BY <1>3, <1>5, <2>1
<1> QED
  BY <1>6 DEF R

LEMMA WhatIsRead ==
  ASSUME NEW p \in Nat, p \div 2 \in Threads
  PROVE  LET i == p \div 2
         IN  /\ p % 2 = 0 => /\ AllocatedRead(p + 1) = AllocatedRead(p) \cup {i}
                             /\ i \notin AllocatedRead(p)
                             /\ DeallocatedRead(p + 1) = DeallocatedRead(p)
             /\ p % 2 # 0 => /\ DeallocatedRead(p + 1) = DeallocatedRead(p) \cup {i}
                             /\ i \notin DeallocatedRead(p)
                             /\ AllocatedRead(p + 1) = AllocatedRead(p)
<1> DEFINE i == p \div 2
<1>1. Threads \subseteq Nat
  BY Constants
<1>2. /\ i \in Nat /\ i \in Threads
      /\ p % 2 = 0 => p = 2 * i
      /\ p % 2 # 0 => p = 2 * i + 1
  BY <1>1, Mod2
<1> HIDE DEF i
<1>3. ASSUME p = 2 * i
      PROVE  /\ AllocatedRead(p + 1) = AllocatedRead(p) \cup {i}
             /\ i \notin AllocatedRead(p)
             /\ DeallocatedRead(p + 1) = DeallocatedRead(p)
  <2>1. \A t \in Threads : /\ 2 * t < p + 1 <=> 2 * t < p \/ t = i
                           /\ 2 * t + 1 < p + 1 <=> 2 * t + 1 < p
    BY <1>1, <1>2, <1>3
  <2>2. ~(2 * i < p)
    BY <1>2, <1>3
  <2> QED
    BY <1>2, <2>1, <2>2 DEF AllocatedRead, DeallocatedRead
<1>4. ASSUME p = 2 * i + 1
      PROVE  /\ DeallocatedRead(p + 1) = DeallocatedRead(p) \cup {i}
             /\ i \notin DeallocatedRead(p)
             /\ AllocatedRead(p + 1) = AllocatedRead(p)
  <2>1. \A t \in Threads : /\ 2 * t + 1 < p + 1 <=> 2 * t + 1 < p \/ t = i
                           /\ 2 * t < p + 1 <=> 2 * t < p
    BY <1>1, <1>2, <1>4
  <2>2. ~(2 * i + 1 < p)
    BY <1>2, <1>4
  <2> QED
    BY <1>2, <2>1, <2>2 DEF AllocatedRead, DeallocatedRead
<1>5. /\ p % 2 = 0 => p = 2 * i
      /\ p % 2 # 0 => p = 2 * i + 1
  BY <1>2
<1> QED
  BY <1>3, <1>4, <1>5 DEF i

LEMMA ReadStep == ASSUME TypeOK, ReadInv, TypeOK', [Next]_vars PROVE ReadInv'
<1>0. /\ 0 \in Threads
      /\ AllocatedRead(position) \in SUBSET Threads
      /\ DeallocatedRead(position) \in SUBSET Threads
      /\ position \in Nat /\ total_allocated \in Nat /\ total_deallocated \in Nat
  BY Constants DEF AllocatedRead, DeallocatedRead, TypeOK
<1>1. ASSUME /\ pc'[0] = "read" => pc[0] = "read"
             /\ position' = position
             /\ total_allocated' = total_allocated /\ total_deallocated' = total_deallocated
             /\ \A t \in Threads : /\ bytes_allocated[t] <= bytes_allocated'[t]
                                   /\ bytes_deallocated[t] <= bytes_deallocated'[t]
      PROVE  ReadInv'
  <2>1. /\ bytes_allocated \in [Threads -> Nat] /\ bytes_allocated' \in [Threads -> Nat]
        /\ bytes_deallocated \in [Threads -> Nat] /\ bytes_deallocated' \in [Threads -> Nat]
    BY DEF TypeOK
  <2>2. CASE pc[0] = "read"
    <3>1. /\ total_allocated <= SumFunctionOnSet(bytes_allocated, AllocatedRead(position))
          /\ total_deallocated <= SumFunctionOnSet(bytes_deallocated, DeallocatedRead(position))
      BY <2>2 DEF ReadInv
    <3>2. total_allocated <= SumFunctionOnSet(bytes_allocated', AllocatedRead(position))
      BY <1>0, <1>1, <2>1, <3>1, Growing
    <3>3. total_deallocated <= SumFunctionOnSet(bytes_deallocated', DeallocatedRead(position))
      BY <1>0, <1>1, <2>1, <3>1, Growing
    <3> QED
      BY <1>1, <3>2, <3>3 DEF ReadInv
  <2>3. CASE pc[0] # "read"
    BY <1>1, <2>3 DEF ReadInv
  <2> QED
    BY <2>2, <2>3
<1>2. ASSUME NEW t \in Threads, Allocate(t) PROVE ReadInv'
  <2>1. /\ position' = position /\ total_allocated' = total_allocated
        /\ total_deallocated' = total_deallocated /\ bytes_deallocated' = bytes_deallocated
        /\ bytes_allocated' = [bytes_allocated EXCEPT ![t] = @ + 1]
        /\ pc' = [pc EXCEPT ![t] = IF t = 0 THEN "sample" ELSE "tick"]
    BY <1>2, AllocateDoes
  <2>2. pc'[0] = "read" => pc[0] = "read"
    BY <1>0, <2>1 DEF TypeOK
  <2>3. \A u \in Threads : /\ bytes_allocated[u] <= bytes_allocated'[u]
                           /\ bytes_deallocated[u] <= bytes_deallocated'[u]
    BY <2>1 DEF TypeOK
  <2> QED
    BY <1>1, <2>1, <2>2, <2>3
<1>3. ASSUME NEW t \in Threads, Deallocate(t) PROVE ReadInv'
  <2>1. /\ position' = position /\ total_allocated' = total_allocated /\ pc' = pc
        /\ total_deallocated' = total_deallocated /\ bytes_allocated' = bytes_allocated
        /\ bytes_deallocated' = [bytes_deallocated EXCEPT ![t] = @ + 1]
    BY <1>3 DEF Deallocate, DeallocatedBytes, sampleVars
  <2>2. \A u \in Threads : /\ bytes_allocated[u] <= bytes_allocated'[u]
                           /\ bytes_deallocated[u] <= bytes_deallocated'[u]
    BY <2>1 DEF TypeOK
  <2> QED
    BY <1>1, <2>1, <2>2
<1>4. ASSUME UNCHANGED <<statVars, sampleVars>>, pc'[0] = "read" => pc[0] = "read"
      PROVE  ReadInv'
  BY <1>4 DEF ReadInv, statVars, sampleVars
<1>5. ASSUME NEW t \in Threads, Tick(t) \/ EndTimeUnit(t) PROVE ReadInv'
  <2>1. pc'[0] = "read" => pc[0] = "read"
    BY <1>0, <1>5 DEF Tick, EndTimeUnit, LoopHead, TypeOK
  <2>2. UNCHANGED <<statVars, sampleVars>>
    BY <1>5 DEF Tick, EndTimeUnit
  <2> QED
    BY <1>4, <2>1, <2>2
<1>6. CASE SampleBegin
  <2>1. /\ position' = 0 /\ total_allocated' = 0 /\ total_deallocated' = 0
    BY <1>6 DEF SampleBegin, SampleStart
  <2>2. AllocatedRead(0) = {} /\ DeallocatedRead(0) = {}
    <3>1. \A t \in Threads : ~(2 * t < 0) /\ ~(2 * t + 1 < 0)
      <4>1. Threads \subseteq Nat
        BY Constants
      <4> QED
        BY <4>1
    <3> QED
      BY <3>1 DEF AllocatedRead, DeallocatedRead
  <2> QED
    BY <2>1, <2>2, SumOfNothing DEF ReadInv
<1>7. CASE SampleRead
  <2> DEFINE i == position \div 2
  <2>1. /\ pc[0] = "read" /\ position \in 0 .. 2 * NumThreads /\ i \in Threads
        /\ position' = position + 1
        /\ bytes_allocated' = bytes_allocated /\ bytes_deallocated' = bytes_deallocated
    BY <1>7, PositionIsThread DEF SampleRead, TypeOK, statVars
  <2>2. position \in Nat
    BY <1>0
  <2>3. /\ total_allocated <= SumFunctionOnSet(bytes_allocated, AllocatedRead(position))
        /\ total_deallocated <= SumFunctionOnSet(bytes_deallocated, DeallocatedRead(position))
        /\ bytes_allocated \in [Threads -> Nat] /\ bytes_deallocated \in [Threads -> Nat]
    BY <2>1 DEF ReadInv, TypeOK
  <2>4. CASE position % 2 = 0
    <3>1. /\ AllocatedRead(position + 1) = AllocatedRead(position) \cup {i}
          /\ i \notin AllocatedRead(position)
          /\ DeallocatedRead(position + 1) = DeallocatedRead(position)
      BY <2>1, <2>2, <2>4, WhatIsRead
    <3>2. /\ total_allocated' = total_allocated + bytes_allocated[i]
          /\ total_deallocated' = total_deallocated
      BY <1>7, <2>4 DEF SampleRead
    <3> HIDE DEF i
    <3>3. total_allocated + bytes_allocated[i]
            <= SumFunctionOnSet(bytes_allocated, AllocatedRead(position) \cup {i})
      BY <1>0, <2>1, <2>3, <3>1, ReadOneMore
    <3> QED
      BY <2>1, <2>3, <3>1, <3>2, <3>3 DEF ReadInv
  <2>5. CASE position % 2 # 0
    <3>1. /\ DeallocatedRead(position + 1) = DeallocatedRead(position) \cup {i}
          /\ i \notin DeallocatedRead(position)
          /\ AllocatedRead(position + 1) = AllocatedRead(position)
      BY <2>1, <2>2, <2>5, WhatIsRead
    <3>2. /\ total_deallocated' = total_deallocated + bytes_deallocated[i]
          /\ total_allocated' = total_allocated
      BY <1>7, <2>5 DEF SampleRead
    <3> HIDE DEF i
    <3>3. total_deallocated + bytes_deallocated[i]
            <= SumFunctionOnSet(bytes_deallocated, DeallocatedRead(position) \cup {i})
      BY <1>0, <2>1, <2>3, <3>1, ReadOneMore
    <3> QED
      BY <2>1, <2>3, <3>1, <3>2, <3>3 DEF ReadInv
  <2> QED
    BY <2>4, <2>5
<1>8. CASE SampleEnd
  <2>1. pc'[0] = "tick"
    BY <1>0, <1>8 DEF SampleEnd, TypeOK
  <2> QED
    BY <2>1 DEF ReadInv
<1>9. CASE Barrier
  <2>1. pc'[0] # "read"
    BY <1>0, <1>9 DEF Barrier, LoopHead
  <2> QED
    BY <2>1 DEF ReadInv
<1>10. CASE Aggregate
  <2>1. pc'[0] # "read"
    BY <1>0, <1>10 DEF Aggregate
  <2> QED
    BY <2>1 DEF ReadInv
<1>11. CASE UNCHANGED vars
  BY <1>4, <1>11 DEF vars
<1> QED
  BY <1>2, <1>3, <1>5, <1>6, <1>7, <1>8, <1>9, <1>10, <1>11 DEF Next, Terminating

-----------------------------------------------------------------------------
(* A class that is allocated is live, in a slot or in a pool; one that is  *)
(* deallocated was.                                                        *)
LEMMA AllocatedIsLive ==
  ASSUME TypeOK, TypeOK', NEW t \in Threads, Allocate(t)
  PROVE  CellSum(heap_class') + ThreadSum(pool') = CellSum(heap_class) + ThreadSum(pool) + 1
<1>1. PICK liveness \in 1 .. MaxLiveness : AllocateHeap(t, liveness)
  BY AllocateDoes
<1>2. /\ heap_class \in [Threads -> [Slots -> Nat]] /\ heap_class' \in [Threads -> [Slots -> Nat]]
      /\ pool \in [Threads -> Nat] /\ pool' \in [Threads -> Nat]
      /\ time[t] \in Nat
  BY DEF TypeOK
<1>3. CellSum(heap_class) \in Int /\ ThreadSum(pool) \in Int
  BY <1>2, CellSumInt, ThreadSumInt
<1>4. CASE /\ heap_class' =
                [heap_class EXCEPT ![t][(time[t] + liveness) % MaxLiveness] = @ + 1]
           /\ pool' = pool
  <2> DEFINE s == (time[t] + liveness) % MaxLiveness
  <2>1. s \in Slots
    BY <1>2, SlotOfTime
  <2>2. heap_class' = [heap_class EXCEPT ![t][s] = @ + 1]
    BY <1>4
  <2> HIDE DEF s
  <2>3. CellsDifferAt(heap_class, heap_class', t, s)
    BY <1>2, <2>1, <2>2 DEF CellsDifferAt
  <2>4. heap_class'[t][s] = heap_class[t][s] + 1 /\ heap_class[t][s] \in Nat
    BY <1>2, <2>1, <2>2
  <2>5. CellSum(heap_class') = CellSum(heap_class) + (heap_class'[t][s] - heap_class[t][s])
    BY <2>1, <2>3, CellChange
  <2> QED
    BY <1>3, <1>4, <2>4, <2>5
<1>5. ASSUME NEW u \in Threads, NEW s \in Slots,
             heap_class' = [heap_class EXCEPT ![t][s] = @ + [pool EXCEPT ![u] = @ + 1][t]],
             pool' = [[pool EXCEPT ![u] = @ + 1] EXCEPT ![t] = 0]
      PROVE  CellSum(heap_class') + ThreadSum(pool') = CellSum(heap_class) + ThreadSum(pool) + 1
  <2> DEFINE shared == [pool EXCEPT ![u] = @ + 1]
  <2>1. /\ shared \in [Threads -> Nat] /\ pool[u] \in Nat /\ shared[u] = pool[u] + 1
        /\ DifferAt(pool, shared, u, Threads)
    BY <1>2 DEF DifferAt
  <2>2. /\ heap_class' = [heap_class EXCEPT ![t][s] = @ + shared[t]]
        /\ pool' = [shared EXCEPT ![t] = 0]
    BY <1>5
  <2> HIDE DEF shared
  <2>3. ThreadSum(shared) = ThreadSum(pool) + (shared[u] - pool[u])
    BY <2>1, ThreadChange
  <2>4. shared[t] \in Nat /\ pool'[t] = 0 /\ DifferAt(shared, pool', t, Threads)
    BY <1>2, <2>1, <2>2 DEF DifferAt
  <2>5. ThreadSum(pool') = ThreadSum(shared) + (pool'[t] - shared[t])
    BY <2>4, ThreadChange
  <2>6. /\ heap_class'[t][s] = heap_class[t][s] + shared[t] /\ heap_class[t][s] \in Nat
        /\ CellsDifferAt(heap_class, heap_class', t, s)
    BY <1>2, <2>2 DEF CellsDifferAt
  <2>7. CellSum(heap_class') = CellSum(heap_class) + (heap_class'[t][s] - heap_class[t][s])
    BY <2>6, CellChange
  <2> QED
    BY <1>3, <2>1, <2>3, <2>4, <2>5, <2>6, <2>7
<1> QED
  BY <1>1, <1>4, <1>5 DEF AllocateHeap

LEMMA BalanceStep ==
  ASSUME TypeOK, TypeOK', CountersBalance, ClockInv, [Next]_vars PROVE CountersBalance'
<1>1. /\ CellSum(heap_class) \in Int /\ ThreadSum(pool) \in Int
      /\ ThreadSum(bytes_allocated) \in Int /\ ThreadSum(bytes_deallocated) \in Int
  BY ThreadSumInt, CellSumInt DEF TypeOK
<1>2. run = "join" =>
        ThreadSum(bytes_allocated)
          = ThreadSum(bytes_deallocated) + CellSum(heap_class) + ThreadSum(pool)
  <2>1. /\ heap_class \in [Threads -> [Slots -> Nat]] /\ pool \in [Threads -> Nat]
        /\ bytes_allocated \in [Threads -> Nat] /\ bytes_deallocated \in [Threads -> Nat]
    BY DEF TypeOK
  <2>2. run = "join" => SumFunction(bytes_allocated) - SumFunction(bytes_deallocated)
           = SumFunction([c \in Threads \X Slots |-> heap_class[c[1]][c[2]]]) + SumFunction(pool)
    BY DEF CountersBalance, LiveBytes
  <2> QED
    BY <2>1, <2>2, BalanceOfSums
<1>3. ASSUME run' = "join" =>
               ThreadSum(bytes_allocated')
                 = ThreadSum(bytes_deallocated') + CellSum(heap_class') + ThreadSum(pool')
      PROVE  CountersBalance'
  <2>1. /\ heap_class' \in [Threads -> [Slots -> Nat]] /\ pool' \in [Threads -> Nat]
        /\ bytes_allocated' \in [Threads -> Nat] /\ bytes_deallocated' \in [Threads -> Nat]
    BY DEF TypeOK
  <2>2. run' = "join" => SumFunction(bytes_allocated') - SumFunction(bytes_deallocated')
           = SumFunction([c \in Threads \X Slots |-> heap_class'[c[1]][c[2]]]) + SumFunction(pool')
    BY <1>3, <2>1, BalanceOfSums
  <2> QED
    BY <2>2 DEF CountersBalance, LiveBytes
<1>4. ASSUME NEW t \in Threads, Allocate(t) PROVE CountersBalance'
  <2>1. /\ run' = run /\ bytes_deallocated' = bytes_deallocated
        /\ bytes_allocated' = [bytes_allocated EXCEPT ![t] = @ + 1]
    BY <1>4, AllocateDoes
  <2>2. /\ bytes_allocated'[t] = bytes_allocated[t] + 1 /\ bytes_allocated[t] \in Nat
        /\ DifferAt(bytes_allocated, bytes_allocated', t, Threads)
    BY <2>1 DEF TypeOK, DifferAt
  <2>3. ThreadSum(bytes_allocated')
          = ThreadSum(bytes_allocated) + (bytes_allocated'[t] - bytes_allocated[t])
    BY <2>2, ThreadChange
  <2>4. CellSum(heap_class') + ThreadSum(pool') = CellSum(heap_class) + ThreadSum(pool) + 1
    BY <1>4, AllocatedIsLive
  <2>5. CellSum(heap_class') \in Int /\ ThreadSum(pool') \in Int
    BY ThreadSumInt, CellSumInt DEF TypeOK
  <2>6. run = "join" => ThreadSum(bytes_allocated')
          = ThreadSum(bytes_deallocated) + CellSum(heap_class') + ThreadSum(pool')
    BY <1>1, <1>2, <2>2, <2>3, <2>4, <2>5
  <2> QED
    BY <1>3, <2>1, <2>6
<1>5. ASSUME NEW t \in Threads, Deallocate(t) PROVE CountersBalance'
  <2> DEFINE s == time[t] % MaxLiveness
  <2>1. /\ run' = run /\ bytes_allocated' = bytes_allocated /\ pool' = pool
        /\ bytes_deallocated' = [bytes_deallocated EXCEPT ![t] = @ + 1]
        /\ heap_class' = [heap_class EXCEPT ![t][s] = @ - 1]
    BY <1>5 DEF Deallocate, DeallocatedBytes
  <2>2. time[t] \in Nat
    BY DEF TypeOK
  <2>3. s \in Slots
    BY <2>2, SlotOfTime
  <2> HIDE DEF s
  <2>4. /\ bytes_deallocated'[t] = bytes_deallocated[t] + 1 /\ bytes_deallocated[t] \in Nat
        /\ DifferAt(bytes_deallocated, bytes_deallocated', t, Threads)
    BY <2>1 DEF TypeOK, DifferAt
  <2>5. /\ heap_class'[t][s] = heap_class[t][s] - 1 /\ heap_class[t][s] \in Nat
        /\ CellsDifferAt(heap_class, heap_class', t, s)
    BY <2>1, <2>3 DEF TypeOK, CellsDifferAt
  <2>6. ThreadSum(bytes_deallocated')
          = ThreadSum(bytes_deallocated) + (bytes_deallocated'[t] - bytes_deallocated[t])
    BY <2>4, ThreadChange
  <2>7. CellSum(heap_class') = CellSum(heap_class) + (heap_class'[t][s] - heap_class[t][s])
    BY <2>3, <2>5, CellChange
  <2>8. run = "join" => ThreadSum(bytes_allocated)
          = ThreadSum(bytes_deallocated') + CellSum(heap_class') + ThreadSum(pool)
    BY <1>1, <1>2, <2>4, <2>5, <2>6, <2>7
  <2> QED
    BY <1>3, <2>1, <2>8
<1>6. ASSUME UNCHANGED <<run, heapVars, bytes_allocated, bytes_deallocated>>
      PROVE  CountersBalance'
  BY <1>6 DEF CountersBalance, LiveBytes, heapVars
<1>7. ASSUME NEW t \in Threads, Tick(t) \/ EndTimeUnit(t) PROVE CountersBalance'
  BY <1>6, <1>7 DEF Tick, EndTimeUnit, statVars
<1>8. CASE SampleBegin \/ SampleRead \/ SampleEnd \/ Barrier
  BY <1>6, <1>8 DEF SampleBegin, SampleRead, SampleEnd, Barrier, statVars
<1>9. CASE Aggregate
  BY <1>9 DEF Aggregate, CountersBalance
<1>10. CASE UNCHANGED vars
  BY <1>6, <1>10 DEF vars, statVars
<1> QED
  BY <1>4, <1>5, <1>7, <1>8, <1>9, <1>10 DEF Next, Terminating

-----------------------------------------------------------------------------
(* Every thread is added once: the others, and the first one itself.       *)
LEMMA AllAdded ==
  ASSUME NEW f \in [Threads -> Nat]
  PROVE  f[0] + SumFunctionOnSet(f, Others) = SumFunctionOnSet(f, Threads)
<1>1. 0 \in Threads /\ IsFiniteSet(Threads) /\ Others = Threads \ {0}
  BY Constants, OthersAreThreads
<1>2. \A t \in Threads : f[t] \in Int
  OBVIOUS
<1> QED
  BY <1>1, <1>2, SumRemove

LEMMA ReportStep ==
  ASSUME TypeOK, ClockInv, CountersBalance, ReportBalances, [Next]_vars
  PROVE  ReportBalances'
<1>1. CASE run = "report"
  <2>1. UNCHANGED vars
    BY <1>1, ReportIsFinal
  <2> QED
    BY <2>1 DEF ReportBalances, LiveBytes, vars, heapVars, statVars
<1>2. CASE run # "report" /\ Aggregate
  <2>1. /\ \A t \in Threads : pc[t] = "done"
        /\ run = "join" /\ heap_class' = heap_class /\ pool' = pool
        /\ bytes_allocated' = [bytes_allocated EXCEPT ![0] =
             bytes_allocated[0] + SumFunctionOnSet(bytes_allocated, Others)]
        /\ bytes_deallocated' = [bytes_deallocated EXCEPT ![0] =
             bytes_deallocated[0] + SumFunctionOnSet(bytes_deallocated, Others)]
    BY <1>2 DEF Aggregate, heapVars
  <2>2. /\ bytes_allocated \in [Threads -> Nat] /\ bytes_deallocated \in [Threads -> Nat]
        /\ 0 \in Threads /\ IsFiniteSet(Threads) /\ Cardinality(Threads) = NumThreads
        /\ BenchmarkDuration \in Nat
    BY Constants DEF TypeOK
  <2>3. /\ bytes_allocated'[0] = SumFunctionOnSet(bytes_allocated, Threads)
        /\ bytes_deallocated'[0] = SumFunctionOnSet(bytes_deallocated, Threads)
    BY <2>1, <2>2, AllAdded
  <2>4. \A t \in Threads : bytes_allocated[t] = BenchmarkDuration
    BY <2>1 DEF ClockInv, Counted
  <2>5. SumFunctionOnSet(bytes_allocated, Threads) = NumThreads * BenchmarkDuration
    BY <2>2, <2>4, SumOfEquals
  <2>6. bytes_allocated'[0] - bytes_deallocated'[0] = LiveBytes
    <3>1. SumFunction(bytes_allocated) - SumFunction(bytes_deallocated) = LiveBytes
      BY <2>1 DEF CountersBalance
    <3> QED
      BY <2>2, <2>3, <3>1 DEF SumFunction
  <2>7. LiveBytes' = LiveBytes
    BY <2>1 DEF LiveBytes
  <2> QED
    BY <2>3, <2>5, <2>6, <2>7 DEF ReportBalances
<1>3. CASE run # "report" /\ ~Aggregate
  <2>1. run' = run
    BY <1>3 DEF Next, Allocate, Tick, Deallocate, EndTimeUnit, SampleBegin,
         SampleRead, SampleEnd, Barrier, Terminating, vars
  <2> QED
    BY <1>3, <2>1 DEF ReportBalances
<1> QED
  BY <1>1, <1>2, <1>3

-----------------------------------------------------------------------------
LEMMA NextPreserves == IInv /\ [Next]_vars => IInv'
<1> SUFFICES ASSUME IInv, [Next]_vars PROVE IInv'
  OBVIOUS
<1>1. TypeOK /\ ClockInv /\ SampleInv /\ ReadInv /\ CountersBalance /\ ReportBalances
  BY DEF IInv
<1>2. TypeOK'
  BY <1>1, TypeStep
<1>3. ClockInv' /\ SampleInv'
  BY <1>1, ClockStep, SampleStep
<1>4. ReadInv' /\ CountersBalance'
  BY <1>1, <1>2, ReadStep, BalanceStep
<1>5. ReportBalances'
  BY <1>1, ReportStep
<1> QED
  BY <1>2, <1>3, <1>4, <1>5 DEF IInv

LEMMA Invariance == Spec => []IInv
<1>1. Init => IInv
  BY InitEstablishes
<1>2. IInv /\ [Next]_vars => IInv'
  BY NextPreserves
<1> QED
  BY <1>1, <1>2, PTL DEF Spec

(* Every variable of the statistics keeps its type; the counters never     *)
(* become negative.                                                        *)
THEOREM TypeCorrect == Spec => []TypeOK
<1>1. IInv => TypeOK
  BY DEF IInv
<1> QED
  BY <1>1, Invariance, PTL

(* Whichever thread allocates and whichever deallocates (acdc.c updates    *)
(* the statistics of the thread that does it), the counters of all threads *)
(* together account for every live byte.                                   *)
THEOREM CountersAlwaysBalance == Spec => []CountersBalance
<1>1. IInv => CountersBalance
  BY DEF IInv
<1> QED
  BY <1>1, Invariance, PTL

(* run_acdc reports totals that still do, and every thread allocated once  *)
(* in each time unit of the benchmark.                                     *)
THEOREM ReportsBalance == Spec => []ReportBalances
<1>1. IInv => ReportBalances
  BY DEF IInv
<1> QED
  BY <1>1, Invariance, PTL

(* The average memory consumption is divided by the number of its samples, *)
(* if there are any.                                                       *)
THEOREM DivisorCountsTheSamples == Spec => []SamplesMatchDivisor
<1>1. IInv => SamplesMatchDivisor
  <2> SUFFICES ASSUME IInv, run = "report"
               PROVE  samples_counted = IF BenchmarkDuration >= 2 * MaxLiveness
                                        THEN BenchmarkDuration - 2 * MaxLiveness
                                        ELSE 0
    BY DEF SamplesMatchDivisor
  <2>1. 0 \in Threads /\ BenchmarkDuration \in Nat /\ MaxLiveness \in Nat
    BY Constants
  <2>2. pc[0] = "done" /\ time[0] = BenchmarkDuration
    BY <2>1 DEF IInv, ClockInv
  <2> QED
    BY <2>1, <2>2 DEF IInv, SampleInv
<1> QED
  BY <1>1, Invariance, PTL

LEMMA WithinTotal ==
  ASSUME NEW f \in [Threads -> Nat], NEW S \in SUBSET Threads,
         NEW n \in Nat, n <= SumFunctionOnSet(f, S)
  PROVE  n <= ThreadSum(f)
<1>1. IsFiniteSet(Threads) /\ \A t \in Threads : f[t] \in Nat
  BY Constants
<1>2. SumFunctionOnSet(f, S) <= SumFunctionOnSet(f, Threads)
  BY <1>1, SumOfPart
<1>3. SumFunctionOnSet(f, S) \in Nat /\ ThreadSum(f) \in Int
  <2>1. IsFiniteSet(S) /\ \A t \in S : f[t] \in Nat
    BY <1>1, FS_Subset
  <2> QED
    BY <2>1, SumNat, ThreadSumInt
<1> QED
  BY <1>2, <1>3 DEF ThreadSum

(* What thread 0 reads while the other threads go on (get_and_print_memstats *)
(* takes no lock) never exceeds what they have counted by then.            *)
THEOREM SamplesStayWithinTotals == Spec => []SampleWithinTotals
<1>1. IInv => SampleWithinTotals
  <2> SUFFICES ASSUME IInv, pc[0] = "read"
               PROVE  /\ total_allocated <= SumFunction(bytes_allocated)
                      /\ total_deallocated <= SumFunction(bytes_deallocated)
    BY DEF SampleWithinTotals
  <2>1. /\ bytes_allocated \in [Threads -> Nat] /\ bytes_deallocated \in [Threads -> Nat]
        /\ total_allocated \in Nat /\ total_deallocated \in Nat
    BY DEF IInv, TypeOK
  <2>2. /\ total_allocated <= SumFunctionOnSet(bytes_allocated, AllocatedRead(position))
        /\ total_deallocated <= SumFunctionOnSet(bytes_deallocated, DeallocatedRead(position))
        /\ AllocatedRead(position) \in SUBSET Threads
        /\ DeallocatedRead(position) \in SUBSET Threads
    BY DEF IInv, ReadInv, AllocatedRead, DeallocatedRead
  <2>3. /\ SumFunction(bytes_allocated) = ThreadSum(bytes_allocated)
        /\ SumFunction(bytes_deallocated) = ThreadSum(bytes_deallocated)
    BY <2>1 DEF SumFunction, ThreadSum
  <2>4. total_allocated <= ThreadSum(bytes_allocated)
    BY <2>1, <2>2, WithinTotal
  <2>5. total_deallocated <= ThreadSum(bytes_deallocated)
    BY <2>1, <2>2, WithinTotal
  <2> QED
    BY <2>3, <2>4, <2>5
<1> QED
  BY <1>1, Invariance, PTL
=============================================================================
