# A verification project for ACDC

ACDC is a multi-threaded benchmark for memory allocators.  Its threads allocate
sets of objects ("lifetime-size-classes"), keep them for a number of time units,
share some of them with other threads, traverse those that are live, and
deallocate what has expired, whoever allocated it.  This directory holds TLA+
modules of that program, TLC runs over small instances, and theorems that TLAPS
checks for all values of the constants.  Paths such as `acdc.c` mean
`src/src/acdc.c` of the repository.

Contents: [inventory](#inventory) · [modules](#modules-and-how-they-map-to-the-code) ·
[runs](#runs) · [fairness](#fairness) · [theorems](#theorems) ·
[disagreements found](#where-the-code-disagrees-with-what-it-says) ·
[limits](#what-is-not-modelled-and-what-is-only-model-checked) · [plan](#plan)

## Inventory

| part | code | state | operations | hard behaviour | what makes it correct |
|---|---|---|---|---|---|
| mutator threads | `acdc.c`, `acdc_thread` and its helpers | per thread: clock, byte counter, heap class (array of lifetime-classes), node and class buffers with caches | allocate a class, keep or share it, fetch from the pool, traverse, expire a list, wait at the barrier | any interleaving of threads; classes and nodes migrate between threads; exit on a full buffer stops everybody | a class is deallocated once, by the last thread that drops it, and is in nobody's list afterwards; it is dropped when it is due; clocks stay close; every run ends |
| distribution pool | `shared_heap_classes`, `share_LSClass`, `get_shared_LClasses` | per thread an array of lists under a mutex; the classes' atomic reference counters | insert at each receiver; splice all lists into the own heap class | counter set before the first insertion, decremented without lock; splice in two steps | counter = number of holders; nothing lost, nothing twice |
| lifetime-classes | `lifetime-class.c` | `first`, `last`, `next`, `prev` | insert at both ends, after, before; remove | lists joined by hand in `acdc.c`; class descriptors reused as nodes | the pointers are lists that share no node and lose none |
| lifetime-size-classes | `lifetime-size-classes.c` | links inside the objects | allocate, traverse, deallocate; list or tree, single or compact | links are read from objects that are being given back; recursion | every object met once, freed once, no link read after free |
| barriers | `barrier.c`, `osx-barrier.c`, pthread | a counter; mutex and condition variable | init, wait | reuse without reset; fast callers of the next round; spurious wakeups | nobody returns from wait n before everybody has called it; everybody returns |
| statistics | `acdc.c`: `get_and_print_memstats`, `run_acdc` | counters per thread, histograms, memory samples | count, sample, join, aggregate | thread 0 reads the counters of running threads | totals balance with what is live; number of samples = divisor |
| random numbers | `distribution.c` | one int per thread | next number, number of a range | 32-bit overflow; negative seeds | within range; the minimum standard generator |
| receiver selection | `distribution.c` | an array of thread ids, reused | fill, remove random ids | stale contents of the array | distinct receivers, not fewer than asked for |
| object properties | `distribution.c`, `acdc_thread` | none but the generator | draw size, liveness, number, type; override (`-F`), round up | 32-bit product; sizes change behind the assertions of the draw | what is drawn passes the assertions of the allocation |
| metadata allocator | `metadata-allocator.c` | bump pointer, end of the mapping | map, allocate, aligned or not | padding against the end check; a full heap ends the program | disjoint aligned blocks inside the heap; no cache line of two threads |
| parameters | `main.c` | options | parse, check, estimate buffers and heap | combinations that are let through; whole megabytes; defaults that depend on others | estimates suffice for what is then allocated |
| object allocation | `memory.c`, `alloc/nulloc.c` | function pointers | `malloc`/`free` or a null allocator | every null object has one address | (external; not modelled) |
| process status | `proc-status.c` | last parsed values | read `/proc` | I/O | (not modelled) |

`main` parses the options, maps the metadata heap and calls `run_acdc`, which
creates one context per thread, starts the threads, joins them and reports.  A
thread calls `distribution.c` for random choices, `lifetime-size-classes.c` for
objects, `lifetime-class.c` for lists.  The threads share four things: the
distribution pool (under one mutex per receiver), the reference counters
(atomic decrement), the barrier, and, read by thread 0 without a lock, the
statistics.

PROJECT.json lists the hazards, each at its line, with the properties aimed at
it; for those that no property covers it says why.

## Modules and how they map to the code

PROJECT.json maps every definition to its lines.

* **Mutator** – the threads.  One action per step that other threads can see or
  interfere with: allocation with the draw of receivers (`AllocateLSClass`),
  unshared insertion (`KeepLSClass`), for every receiver lock and
  insert-and-unlock (`ShareLock`, `ShareInsert`), lock of the own pool
  (`FetchLock`), and per lifetime append and reset (`SpliceAppend`,
  `SpliceReset`, `SpliceSkip`), traversal and clock (`AccessLiveLClasses`),
  one unreferenced class at a time (`Unreference`), its deallocation
  (`DeallocateLSClass`), `EndTimeUnit`, the barrier (`BarrierBlock`,
  `BarrierRelease`) and the two exits.  A class is a slot of a thread's class
  buffer; lists are sets (their order is LClass's business); the nodes of a
  thread are counted.  The slot arithmetic is the code's.  The objects of a
  class are only a number of bytes.  The order of receivers is any order.
* **Ownership** – what sharing promises: a class has owners; an owner releases
  it; the last one, and only it, reclaims it; only then it is used again.
  Mutator implements it (`ImplementsOwnership`): the owners are the threads that
  have the class in a list or a pool, or are still to get it.
* **LClass** – the same lists as pointers: `next`, `prev`, `first`, `last` of one
  node cache, one local list and one pool list per thread, with the operations
  of `lifetime-class.c` as operators on memory and their callers as actions.
* **LClassSequences** – those lists as sequences; LClass implements it.
* **LifetimeSizeClasses** – the objects of one class, threaded through their own
  memory.  Freed memory holds junk at once.  The recursive C functions run on an
  explicit stack; the shape `build_tree_recursion` builds is a recursive
  function.
* **Barrier** – what the threads rely on.  **SpinBarrier** and **OsxBarrier**
  implement it; the latter has the system's mutex and condition variable as
  external operations and assumes that the system has no spurious wakeups.
  MCBarriers runs both side by side: a behaviour chooses one at the start.
* **Statistics** – the counters, the sampling of thread 0 as one load at a time,
  and the aggregation.  The threads' work is reduced to what counters can tell.
  The two histograms are left out.
* **Random** – `next_rand` and `get_rand_int_range` with C's division.
* **Distribution** – one thread that draws from Random, in the order of
  `acdc_thread`: liveness, size class, size and type of the next class of objects
  (`DrawLiveness` to `DrawType`, the last with the override by `-F`, the rounding
  up and the compact types), whether to share it (`DrawSharing`,
  `BypassSharing`), and the receivers (`Fill`, `Remove`, `Return`).  The number
  of objects is computed modulo the range of an unsigned int; the assertion behind it
  stops the program (`AssertionFails`), with `-F` as well as without.  Mutator uses the
  outcome of the selection as "any set of that many threads".
* **MetadataAllocator** – the mapping and the bump allocator as operators for
  whoever allocates, addresses as byte offsets; `HeapSpec` is the allocator with
  an arbitrary caller.
* **Startup** – `main` and the sequential part of `run_acdc` on top of
  MetadataAllocator: `ParseOption` (one turn of the getopt loop), `CheckParams`
  (with the estimate of buffers and heap), `MapHeap`, `AllocateGlobal`,
  `ChooseThreadFunction`, `AllocateContext` (one of the nine allocations of a
  context at a time) and `CreateThreads`.  A command line is a sequence of
  options.  The doubles of the estimate are fractions here; shifts, products,
  casts and sums are made in an int of `IntBits` bits or in an unsigned long of
  `ULongRange` values, as on x86-64, where the language leaves them undefined: a
  shift looks at the low bits of its count, and a double that does not fit is cast
  to the least int.
* **MC…** modules give TLC an instance; **…Proofs** modules hold the theorems.

Operators named `X_Something` next to `X` are plausible slips in `X`.  No
specification uses them; each property is violated when the slip named in
PROJECT.json replaces its `X`.

## Runs

| run | instance | what it shows |
|---|---|---|
| MutatorShare | 2 threads, 2 lifetimes, time drift 2, 2 time units, 2 classes per thread | types; counter = holders; one deallocation; splice and nodes lose nothing; lists, pools and counters implement Ownership; every run ends under weak fairness |
| MutatorHandOff | 3 threads, all of them receivers, 2 time units, 3 nodes and 1 class per thread | no use after free and no class forgotten where three threads hold a class, drop it in any order, and sender, first and last to drop it are all different |
| MutatorDelay | 2 threads, 5 time units, deallocation delay 1, no sharing | classes are traversed and dropped exactly when due; clock drift is bounded |
| LClassLists | 2 threads, 2 nodes each | every arrangement of nodes in lists; pointers implement sequences |
| ObjectStructures | 1 to 12 objects, four types | each object visited once, freed once, no link read after free, recursion depth, share of written list objects |
| Barriers | 3 threads, 4 waits, either implementation | implements Barrier; everybody gets through |
| StatisticsReport | 2 threads, 3 time units | counters balance; each thread added once; samples = divisor |
| Distribution | 12 seeds, 7 sets of options, 10000 draws, 10 threads | range; never stuck; sizes and numbers of objects that the allocation accepts, also where the number wraps around; distinct receivers, how far their number is from the percentage, stale buffer harmless |
| Startup | 811 command lines, 7 of them with an estimate that does not fit an int | options, estimates, every block of the metadata heap; from two threads on the estimated heap suffices; the estimated buffer has a class of every lifetime; no cache line of two threads |
| MutatorPoolBounds | 2 threads, sharing and delay | violation: an insertion behind the pool array |
| MutatorPoolIndex | 1 thread, sharing with itself | violation: a fetched class in another lifetime |
| DistributionSizes | `-s 3 -S 4` | violation: an object that the assertion of the allocation refuses |

The three violations are explained [below](#where-the-code-disagrees-with-what-it-says).

**Bounds.**  Two threads are enough for a sender, a receiver and their race at
the counter; three, all of them receivers of every class (MutatorHandOff), for a
last owner that is neither the sender nor the one that drops it first.  Two time
units with a time drift of two let one thread expire a class while the other
still inserts it; five (MutatorDelay) go once around the slots of the heap class
and cross the correction for negative indices.  Two lifetimes give the splice
loop more than one iteration.  Buffers of one to four entries make both
overflows and recycling happen.  Twelve objects give trees of height four with
incomplete last levels.  Four rounds of three threads let the fastest thread be
one round ahead of the slowest in every position.  `U64Max` is 15 in the runs:
larger than any number of holders, small enough that a wrap would be seen.  The
benchmark duration bounds the clocks, as in the program; nothing else is capped.
Threads are interchangeable, so the runs of Mutator that check safety only use
symmetry; MutatorShare, which checks termination, does not.  MutatorDelay is the one run with a delay that looks at
slots: there is no sharing in it, because sharing with a delay leaves the pool
array (MutatorPoolBounds).

In Distribution the seeds are the ends of int and of the period and multiples of
the divisor; `Calls` ends a behaviour after ten thousand draws, enough for the
selection to meet its own leftovers some thousand times.  The ratios are 20 and 50,
which divide 100, and 33 and 60, which do not.  `UIntRange` is 2^16, so
that products fit TLC's integers: with a maximal liveness of 256, with `-F`, and of
300, without, the number of objects wraps around, to 0 and to other numbers, as it
does modulo 2^32 for larger options.  The command lines of Startup put together a few choices for
each group of options: zero to three threads, time gaps given, zero and defaulted,
quanta too small, just large enough and ample, buffers given completely, partly
and too small for the heap, both modes; a long delay, for which the estimate of the heap is too small, and a
maximal size below the minimal one.  Seven more have an
estimate that does not fit: sizes whose shift turns negative or comes around, quanta
whose cast or doubling wraps, ratios whose product with the threads does.  TLC's
integers have 32 bits themselves, so an int has 19 here and an unsigned long 24, and
options are numbers up to half the largest int (`Numbers`), so that the sum of two of
them is an int; for all other widths and numbers there are the theorems.

All passing runs check for deadlock.

## Fairness

`Mutator!Fairness` is weak fairness of every thread while the process runs: the
kernel runs every thread that can run.  A thread can lose a mutex to another one
again and again, but every thread runs for a bounded number of time units, so no
strong fairness is needed.  `SpinBarrier` and `OsxBarrier` assume the same of
their callers.  No fairness is assumed of random choices or of the decision to
share.

## Theorems

tlapm proves, with no assumption but the named `ASSUME`s of the modules (options
are natural numbers in the ranges for which the code computes anything; there
are finitely many threads; the counter can count them; the unsigned types have a
positive range, an unsigned long twice that of an int at least, and powers of two
are positive up to the width of an int; and `NullAssumption` and `PowersAssumption`,
below):

* **MutatorProofs**, for every number of threads, every drift, duration, delay,
  ratio and buffer size: `TypeCorrect`, `CountersCorrect` (`ReferencesCounted`),
  `NothingDangles` (`NoUseAfterFree`), `DeallocationIsUnique`
  (`DeallocatedOnce`), `SpliceCorrect` (`SpliceLosesNothing`), `NothingIsLeaked`
  (`NothingLeaked`), and `MutatorImplementsOwnership`: Mutator implements
  Ownership under the refinement mapping "owner = holder", since every action
  changes the holders of at most one class, in one of Ownership's three ways.

  None of these is inductive.  The invariant `IInv` adds: `ControlInv` (where a
  thread is determines whether it has a class in its hands and receivers to
  go), `LockInv` (a thread holds at most one mutex, that of the receiver it
  inserts for or its own), `PlaceInv` (a thread meets a class in one place only,
  except for the class being spliced; and not both in a list and as a receiver
  to come), `CacheInv` and `CurrentInv` (a recycled class is in one cache, was
  carved from a buffer, and is in nobody's hands).  `PlaceInv` is why dropping a
  class from one list removes the thread from the holders, and so why the
  counter goes down with their number; `LockInv` is why nothing is inserted
  between the two steps of a splice.  Cardinalities change by one at a time, by
  lemmas on adding and removing one holder.

  With sharing *and* a deallocation delay the code writes behind the pool array
  (MutatorPoolBounds).  The model gives the pool as many slots as the index
  can reach, so in that case the theorems speak of a program whose pool arrays are as long as the
  heap classes; without one of the two options they speak of the code as it is.

  `NodesAreConserved` (`NodesConserved`) is about a sum over all threads: the
  invariant is kept because an action moves nodes within one thread or from one to
  another, and a sum that changes in one or two places changes by that much.

  On top of these: `DriftIsBounded` (`ClockDriftBounded`) with
  the invariant that all clocks lie in one interval between two multiples of the
  time gap, that a thread goes to the barrier only at the end of it, and that only
  the last thread to arrive there opens the next interval.  Without sharing,
  `ClassesAreDroppedWhenDue` (`DroppedWhenDue`) and `TraversalsMeetLiveClasses`
  (`AccessesByLiveness`): a class lies in the slot of its due time modulo the number
  of slots, and has from 1 to that many units left; within that window the
  remainder identifies the class's time, so the slots may wrap around for ever.
  (With sharing neither holds: see MutatorPoolIndex.)
* **BarrierProofs**, for every number of threads and
  waits: SpinBarrier and OsxBarrier implement `Barrier`.  The invariant tells those who have called in
  the running round, k + 1 times, from the others, who have called k times: the
  former are all waiting and their number is what the counter has beyond k rounds
  (beyond 0, where the last caller resets it).
* **DistributionProofs**, first about the generator: every intermediate value of
  `next_rand` fits an int for every int (`NextRandFitsInt`); on its period the
  function is multiplication by 16807 modulo 2^31 - 1 (`NextRandIsLehmer`); and from
  a seed that is not a multiple of 2^31 - 1 it never meets 0, where it would stay
  (`GeneratorIsNeverStuck`): 16807 is invertible modulo 2^31 - 1.  Then, for all options and numbers of threads:
  every number drawn is in its range (`ResultsInRange`), so a size lies in its
  class, and after rounding up below the maximal size (`LargeSizesAreAccepted`);
  every removal hits an id that is left; the array of ids stays a permutation and
  the removed ids are counted; hence `TypeCorrect`, `ReceiversAreDistinct` and
  `SelectionSizeCorrect` (`SelectionHasSize`): a selection never has fewer threads
  than the percentage `-T` asks for, rounded down, exactly that many if the ratio
  divides 100, and at most half as many again up to a ratio of 50.  (Above 50 the code
  selects everybody.)
  `ObjectsAreCounted` (`ObjectsCounted`): whatever wraps around, a class has at least
  one object and, without `-F`, no more than the largest product of the effects; and
  the assertion stops the program only if that product exceeds an unsigned int.  The invariant carries the ranges of the drawn liveness
  and size class to the step that multiplies, so that the product modulo the range
  of an unsigned int is the product itself.
  `PowersAssumption` lists what the provers do not know of powers of two; TLC
  evaluates it.
* **LClassProofs**, for every number of threads and nodes.  The inductive invariant
  `LInv` says which memory the code can produce: there is a family of sequences of
  nodes, one for each cache, each local list and each pool list, such that no node
  is in two places, every list's `first`, `last` and `next` pointers spell its
  sequence, those of a cache also the `prev` pointers backwards, and every node in a
  list was carved out of its thread's buffer.  Every operation of
  `lifetime-class.c` is shown to turn one such family into the one that the
  operation on sequences gives.  Hence `TypeCorrect`, `HeadersLeadToTheEnd`
  (`LastEndsList`), `CachesAreDoublyLinked`, and `PointersImplementSequences`, the
  refinement of LClassSequences.
* **StatisticsProofs**, for every number of threads, every duration and time gap:
  `TypeCorrect`, `CountersAlwaysBalance` (`CountersBalance`), `ReportsBalance`,
  `DivisorCountsTheSamples` (`SamplesMatchDivisor`) and `SamplesStayWithinTotals`
  (`SampleWithinTotals`).  The invariant: the threads added so far are those below
  the running index, the counters of thread 0 are its own plus theirs, and a sample
  in progress has read no more than the counters now show, since they only grow.
* **LifetimeSizeClassesProofs**, for every number of objects and all four types:
  `NoUseAfterFree` (`MemorySafe`), `AllIsFreed` (`NothingLeaks`),
  `EachObjectIsVisited` (`VisitsEachOnce`), `TreesAreBalanced` (`RecursionBounded`)
  and `EveryIthIsWritten` (`ListsWriteEveryIth`).

  First the shapes.  `TreeBuilt`: what `build_tree_recursion` builds is an ordered
  tree, that is, children are allocated after their parents and every object but
  the root is the child of exactly one, on one side.  By induction on the number of
  objects: the recursion is well-founded (`TreeIsBuilt`), a root in front of two
  such trees is one again (`ShapesJoin`), and the sizes of its subtrees are at most
  half of its own (`SizesJoin`).  `ArrayShape` says the same, except for the sizes,
  of the tree that `allocate_optimal_btree` lays out by index.

  Then the invariant `IInv`.  What is allocated still has the links of the shape
  (`Intact`).  Traversing a list: the objects met are the first ones, and the
  pointer is at the next.  Traversing a tree: no object is met twice, waits twice,
  or does both; an object is met if and only if its children are met or wait; and
  the root is one of them.  So when nothing waits, everything is met: the least
  object that is not would have a parent that is.  Giving back a list: what is left
  are the objects from the pointer on.  Giving back a tree: the stack of calls is a
  path from the root (`Path`), and of each call's object just the subtrees whose
  calls have returned are freed (`Unfreed`), so the child that the call descends to
  is not, nor anything below it.  When the last call returns the root is freed, and
  with it everything.  `Shallow`: a call with k callers is for a subtree of
  at most n / 2^k objects.

  Assumed are `NullAssumption`, no object is at the null address, and
  `PowersAssumption` up to the depth of a recursion; TLC evaluates both.
* **StartupProofs**, first about the bump allocator and any caller (`HeapSpec`):
  everything handed out lies below the bump pointer and is aligned; hence
  `BlocksAreDisjoint`, `BlocksAreInHeap` and `LinesAreNotShared`.
  Then for every command line: `TypeCorrect`;
  `StartImplementsAllocator`, every step of main and run_acdc is a step of the
  allocator or does not touch the heap, so its theorems hold of the program;
  `ThreadsAreOnOwnLines`: the invariant says which request every block answers,
  so that the nine blocks of a thread begin with a context aligned to a line, and
  end with a padding behind which the next one begins.
  `EveryLifetimeFits` (`BufferHoldsEveryLifetime`): the estimated class buffer has
  room for a class of every lifetime, provided `FitsInt`: the expected size of a
  class is positive, and the number of threads times the ratio and twice the
  expected number of classes are ints.  `EstimatedHeapFits` (`TwoThreadsFit`): with two threads or more, no
  allocation from a heap that the program has sized itself fails, provided
  `SmallContexts`, what a context holds besides its two buffers takes half a megabyte
  at most, and `BuffersAddressable`, the buffers of all threads end below the largest
  address.  The invariant bounds the bump pointer by what the requests so far add up
  to.  The provisos are necessary: the Startup run has command lines that violate
  the properties without them ([below](#where-the-code-disagrees-with-what-it-says)).
* **DataInduction** has the lemmas the others share.  The library's induction
  theorems have an operator as a parameter, which the provers cannot instantiate;
  here induction is stated over *sets*: a set of numbers that has 0 and all
  successors is Nat (`NumberInduction`), a set of subsets of a finite set that has
  the empty one and is closed under adding an element has them all
  (`SubsetInduction`).  From these follow the laws of the sums that Statistics and
  Mutator are about.

## Where the code disagrees with what it says

Three have a run that ends in a violation, and an entry under "findings":

1. `MutatorPoolBounds` – with `-O` and `-D` a sender inserts behind the end of a
   receiver's pool array (`acdc.c:111` against the comment at 206).
2. `MutatorPoolIndex` – pool slots are absolute when a class is inserted and
   relative when it is fetched (`acdc.c:397`): a fetched class gets another
   lifetime.
3. `DistributionSizes` – with `-S 4` objects are rounded up to 16 bytes, which
   `assert(sz < (BIT_ZERO << max_object_sc))` refuses (`acdc.c:558` against
   `lifetime-size-classes.c:469`).  `LargeSizesAccepted` says that no larger
   maximal size has the problem.

The others were met while modelling.  The models behave as the code does; there
is no run for them, and the properties say what does hold:

* `access_live_LClasses` traverses "all live lifetime-classes" except, with a
  delay, those just allocated with the maximal liveness (`acdc.c:331`;
  `AccessesByLiveness` is the exact statement).
* "lifetime-classes are doubly-linked" (`acdc.h:206`), but after a splice the
  first fetched node has no `prev` (`acdc.c:404`); harmless as long as such lists
  are only walked forward.  The caches are doubly linked (`CachesDoublyLinked`).
* `pthread_barrier_wait` in `osx-barrier.c:53` does not wait in a loop: one
  spurious wakeup, which POSIX allows, lets a thread through early; counted
  twice in a later round it can leave the others waiting for ever.  OsxBarrier
  therefore assumes a system without spurious wakeups.
* "write_access_ratio of 20 means that every 5th element is written", but trees
  are written completely, since each call of the recursion counts from 0
  (`lifetime-size-classes.c:434`); `ListsWriteEveryIth` is about lists.
* A memory sample reads other threads' allocated and deallocated bytes at
  different moments, so the unsigned difference may wrap (`acdc.c:256`); only the
  two sums are bounded (`SampleWithinTotals`).
* The aggregation adds the histogram buckets below `max_liveness` and
  `max_object_sc`, the report prints them up to these values (`acdc.c:723`): the
  last buckets lack the objects of all threads but the first.
* "share_thread_ratio% of all threads will be involved" (`acdc.h:95`), but the ratio
  is divided twice in integers (`distribution.c:91`): every `-T` from 51 to 99 selects
  all threads, one that does not divide 100 selects up to half as many again, and a
  small one with few threads none, so that the class is leaked.  `SelectionHasSize`
  says how far from the percentage the code is, `NothingLeaked` that nothing else is
  leaked.
* "warmup phase: start memory measurements after max-liveness units of time"
  (`acdc.c:264-265`), but the next line compares with twice the maximal liveness.  The
  divisor of the average (`acdc.c:774`) assumes the same, so the report is right;
  `SamplesMatchDivisor` speaks of what the code does.
* The estimate of the heap cuts off the fraction of a megabyte that the buffers
  take (`main.c:154`); "1MB per thread for bookkeeping" and "extra space for
  aligning ect..." (`main.c:147`, `main.c:153`) may then both be used up by the buffers of a single
  thread: `-l 1 -L 1 -s 4 -S 5 -t 110565` ends with "out of metadata space" in a
  heap that the program has sized itself.  With two threads the fractions cannot
  add up to that, but what a context holds besides its buffers can: it grows with
  `-D`, `-L`, `-S` and `-n`, which the estimate does not count, so that
  `-n 2 -D 200000` ends the same way.  `TwoThreadsFit` is the statement for contexts
  that are smaller (`SmallContexts`).
* "max. size must be larger than min. size" (`main.c:175`) is printed, and the
  program goes on: with `-s 4 -S 2` the expected size of a class is 0, the estimate
  divides by it, and the class buffer gets no entry at all (in the build modelled;
  `BufferHoldsEveryLifetime` excludes it); a minimal liveness of 0 or above the maximal one, `-g 0`, `-T 0`
  and `-T` above 100 are not even reported, and the last three divide by zero later
  (`acdc.c:618`, `distribution.c:91`).
* The estimate is computed in ints where the numbers need not fit one: `1 << 31` is
  negative (`main.c:91`), so that `-s 30 -S 32` passes the test of line 102 and gives
  the class buffer no entry; `-t 1000000000000` is cast to the least int
  (`main.c:137`), whose double is 0; the two together ask for a buffer of nearly 2^64
  entries.  main accepts all three.  `BufferHoldsEveryLifetime` and `TwoThreadsFit` are
  about estimates that fit (`FitsInt`, `BuffersAddressable`).
* The usage text lists `-W`, which the option string does not contain
  (`main.c:259`).
* `acdc.h:72` gives the metadata heap size in kB, the code takes MB, and
  `acdc.c:271` compares it with kB; `btree_preorder_recursion` is the same
  function as the inverse one; `get_sharing_dist` draws one of 101 numbers, so
  `-R 100` does not share every class.

## What is not modelled, and what is only model-checked

Not modelled: the parts marked so in the inventory, and in PROJECT.json with the
reason; the payload of the objects; cycle counts; the format of the output; the
choice between huge and small pages and the warm-up of the heap; verbosity.
False-sharing mode is commented out in the source; Startup has its options and
the exit.  The null allocator returns one 8-byte word for objects of 16 bytes and
more, so already the header of the first object leaves it: what happens then is
up to the layout of a build, not to the program.  The estimate in Startup uses
exact fractions where the code rounds doubles, so a result that is within a rounding
error of an integer may differ by one; what the code computes in ints and unsigned
longs is computed in them here.  Negative options, but for the time gap that was not
given, are left out.

Model-checked only: liveness (`Termination`, `AllPass`) and everything under
fairness, which TLAPS does not handle, as it does not handle ENABLED.  Every
invariant and the three refinements that the passing runs check are also
theorems, for every value of the constants.  The three runs that end in a violation
show a behaviour, and need no theorem.

## Plan

Done, in this order: Mutator with Ownership and its proofs; LClass with
LClassSequences; Barrier, SpinBarrier, OsxBarrier; LifetimeSizeClasses;
Statistics; Random, Distribution, MetadataAllocator with their proofs; object
properties in Distribution; Startup and its proofs; the proofs that Mutator
implements Ownership, that both barriers implement Barrier, and those about clocks
and due times; induction over sets (DataInduction) and with it the proofs about
Statistics, LClass, the nodes of Mutator, the generator, the estimates, and the
trees and lists of LifetimeSizeClasses.

Next:
1. the composition of Mutator with Barrier and with Distribution: that the clocks'
   waiting in Mutator is what Barrier promises, and that the receivers Mutator draws
   are those the selection loop can return, as theorems instead of in prose.
