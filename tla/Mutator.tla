------------------------------ MODULE Mutator ------------------------------
(***************************************************************************)
(* The mutator threads of ACDC (src/acdc.c): every thread repeatedly       *)
(* allocates a lifetime-size-class (an LSClass: a set of objects that live *)
(* and die together), keeps it itself or distributes it to other threads,  *)
(* traverses what is live, and, once it has allocated a time quantum of    *)
(* bytes, advances its own clock and drops the lifetime-class that expired.*)
(* An LSClass that several threads hold carries a reference counter; the   *)
(* thread that decrements it to zero deallocates the class.                *)
(*                                                                         *)
(* What is abstracted.  An LSClass is a slot of some thread's class        *)
(* buffer; its objects, their layout and the bytes written to them belong  *)
(* to other modules.  A lifetime-class (a linked list of nodes) is the set *)
(* of LSClasses it holds; the nodes only count, against the node buffer.   *)
(* The pseudo-random choices (properties, receivers, order within a list,  *)
(* cached class that is reused) are nondeterministic.  Timing and byte     *)
(* statistics are left out: nothing below reads them.                      *)
(***************************************************************************)
EXTENDS Integers, FiniteSets, Functions

CONSTANTS
  Threads,                (* mutator threads, gopts->num_threads of them   *)
  NoThread,               (* "mutex not held"                              *)
  NoClass,                (* a null LSClass pointer                        *)
  MinLiveness,            (* -l                                            *)
  MaxLiveness,            (* -L                                            *)
  DeallocationDelay,      (* -D                                            *)
  MaxTimeGap,             (* -g                                            *)
  BenchmarkDuration,      (* -d: time units every thread runs for          *)
  TimeQuantum,            (* -t: allocated bytes per time unit             *)
  ClassBytes,             (* byte sizes an LSClass may have                *)
  AccessLiveObjects,      (* -A: traverse what is live                     *)
  SharedObjects,          (* -O                                            *)
  ReceivingThreadsRatio,  (* -T: percentage of threads that receive        *)
  NodeBufferSize,         (* -N: nodes per thread                          *)
  ClassBufferSize,        (* -C: LSClasses per thread                      *)
  U64Max                  (* largest value of the uint64_t counter         *)

ASSUME ThreadsAssumption ==
  /\ IsFiniteSet(Threads) /\ Threads # {}
  /\ NoThread \notin Threads

ASSUME LivenessAssumption ==
  /\ MinLiveness \in Nat \ {0}
  /\ MaxLiveness \in Nat \ {0}
  /\ MinLiveness <= MaxLiveness
  /\ DeallocationDelay \in Nat

ASSUME ClockAssumption ==
  /\ MaxTimeGap \in Nat \ {0}
  /\ BenchmarkDuration \in Nat
  /\ TimeQuantum \in Nat
  /\ ClassBytes \subseteq Nat
  /\ AccessLiveObjects \in BOOLEAN

ASSUME SharingAssumption ==
  /\ SharedObjects \in BOOLEAN
  /\ ReceivingThreadsRatio \in 1..100

ASSUME BufferAssumption ==
  /\ NodeBufferSize \in Nat
  /\ ClassBufferSize \in Nat
  /\ U64Max \in Nat
  /\ Cardinality(Threads) <= U64Max

(***************************************************************************)
(* The LSClasses of the program are the slots of the threads' class        *)
(* buffers: <<t, i>> is the i-th slot of class_buffer_memory of thread t.  *)
(***************************************************************************)
Class == Threads \X (0 .. ClassBufferSize - 1)

ASSUME ClassAssumption == NoClass \notin Class

(* Slots of a thread's heap class, one lifetime-class each.                *)
HeapSlots == MaxLiveness + DeallocationDelay
Slots == 0 .. HeapSlots - 1

(* Slots a shared heap class is allocated with: no room for the delay.     *)
SharedSlots == 0 .. MaxLiveness - 1

VARIABLES
  pc,                     (* where each thread is in acdc_thread           *)
  time,                   (* mc->time, which is also the loop's 'runs'     *)
  time_counter,           (* bytes allocated in the current time unit      *)
  heap_class,             (* [thread -> [slot -> set of LSClasses]]        *)
  shared_heap_classes,    (* the distribution pool, same shape; the slots  *)
                          (* outside SharedSlots are not part of the array *)
  lock,                   (* holder of shared_heap_classes_locks[t]        *)
  index,                  (* loop variable i of get_shared_LClasses        *)
  current,                (* the LSClass in the thread's local variable c  *)
  receivers,              (* threads that 'current' must still be given to *)
  reference_counter,      (* c->reference_counter                          *)
  lifetime,               (* c->lifetime                                   *)
  due,                    (* auxiliary: allocation time + liveness         *)
  class_cache,            (* recycled LSClasses of each thread             *)
  class_buffer_counter,   (* LSClasses carved from the buffer so far       *)
  node_cache,             (* number of recycled nodes of each thread       *)
  node_buffer_counter,    (* nodes carved from the buffer so far           *)
  failure                 (* why the process called exit, or "none"        *)

poolVars  == <<class_cache, class_buffer_counter>>
nodeVars  == <<node_cache, node_buffer_counter>>
clockVars == <<time, time_counter>>
classVars == <<reference_counter, lifetime, due>>
vars == <<pc, clockVars, heap_class, shared_heap_classes, lock, index,
          current, receivers, classVars, poolVars, nodeVars, failure>>

-----------------------------------------------------------------------------
(***************************************************************************)
(* Where a class goes and what expires: the slot arithmetic.               *)
(***************************************************************************)

(* A plausible slip: the heap class treated as if it had no delay slots.   *)
SlotAt_NoDelay(t, remaining) == (time[t] + remaining) % MaxLiveness

(* heap_class_insert and heap_class_get_LClass index by the own clock.     *)
SlotAt(t, remaining) == (time[t] + remaining) % HeapSlots

(* heap_class_remove: the slot that expired 'deallocation_delay' ago.      *)
DeleteSlot(t) ==
  LET d == (time[t] % HeapSlots) - DeallocationDelay
  IN  IF d < 0 THEN d + HeapSlots ELSE d

(* c->lifetime includes the delay, which the insertion takes off again.    *)
LivenessOf(c) == lifetime[c] - DeallocationDelay

(* The receivers share_LSClass may draw: get_random_thread_selection       *)
(* leaves this many distinct thread ids in its array.                      *)
NumberOfSharingThreads ==
  Cardinality(Threads) \div (100 \div ReceivingThreadsRatio)
ReceiverSets == {R \in SUBSET Threads : Cardinality(R) = NumberOfSharingThreads}

(* Plausible slips in the reference counter and its decrement.             *)
InitialCount_NotSelf(t, R) == Cardinality(R \ {t})
InitialCount_OneMore(t, R) == Cardinality(R) + 1
Decremented_Twice(n) == IF n < 2 THEN 0 ELSE n - 2

InitialCount(t, R) == Cardinality(R)

(* atomic_uint64_decrement on a uint64_t, which wraps below zero.          *)
Decremented(n) == IF n = 0 THEN U64Max ELSE n - 1

(* while (runs < benchmark_duration)                                       *)
LoopHead(t) == IF time[t] < BenchmarkDuration THEN "alloc" ELSE "done"

(* A plausible slip: the clocks are compared with the wrong unit and the   *)
(* barrier inside the loop is never reached.                               *)
AtTimeGap_Never(t) == FALSE

(* A thread waits for the others whenever its clock is a multiple of -g.   *)
AtTimeGap(t) == time[t] % MaxTimeGap = 0

(* A plausible slip: the mutex of the distribution pool is not taken.      *)
LockFree_Ignored(r) == TRUE
LockFree(r) == lock[r] = NoThread

-----------------------------------------------------------------------------
(***************************************************************************)
(* The thread-local pools of metadata.                                     *)
(***************************************************************************)

(* get_LSClass: a recycled class if there is one, else a fresh one.        *)
GetLSClass(t, c) ==
  \/ /\ c \in class_cache[t]
     /\ class_cache' = [class_cache EXCEPT ![t] = @ \ {c}]
     /\ UNCHANGED class_buffer_counter
  \/ /\ class_cache[t] = {}
     /\ class_buffer_counter[t] < ClassBufferSize
     /\ c = <<t, class_buffer_counter[t]>>
     /\ class_buffer_counter' = [class_buffer_counter EXCEPT ![t] = @ + 1]
     /\ UNCHANGED class_cache

(* get_LSCNode, likewise.                                                  *)
GetLSCNode(t) ==
  \/ /\ node_cache[t] > 0
     /\ node_cache' = [node_cache EXCEPT ![t] = @ - 1]
     /\ UNCHANGED node_buffer_counter
  \/ /\ node_cache[t] = 0
     /\ node_buffer_counter[t] < NodeBufferSize
     /\ node_buffer_counter' = [node_buffer_counter EXCEPT ![t] = @ + 1]
     /\ UNCHANGED node_cache

(* A plausible slip: the node goes nowhere.                                *)
RecycleLSCNode_Lost(t) == UNCHANGED nodeVars

(* recycle_LSCNode: into the cache of the thread that drops the node.      *)
RecycleLSCNode(t) ==
  /\ node_cache' = [node_cache EXCEPT ![t] = @ + 1]
  /\ UNCHANGED node_buffer_counter

-----------------------------------------------------------------------------
(* create_mutator_context for every thread, then all wait at the barrier.  *)
Init ==
  /\ pc = [t \in Threads |-> "barrier"]
  /\ time = [t \in Threads |-> 0]
  /\ time_counter = [t \in Threads |-> 0]
  /\ heap_class = [t \in Threads |-> [s \in Slots |-> {}]]
  /\ shared_heap_classes = [t \in Threads |-> [s \in Slots |-> {}]]
  /\ lock = [t \in Threads |-> NoThread]
  /\ index = [t \in Threads |-> 0]
  /\ current = [t \in Threads |-> NoClass]
  /\ receivers = [t \in Threads |-> {}]
  /\ reference_counter = [c \in Class |-> 0]
  /\ lifetime = [c \in Class |-> 0]
  /\ due = [c \in Class |-> 0]
  /\ class_cache = [t \in Threads |-> {}]
  /\ class_buffer_counter = [t \in Threads |-> 0]
  /\ node_cache = [t \in Threads |-> 0]
  /\ node_buffer_counter = [t \in Threads |-> 0]
  /\ failure = "none"

(* pthread_barrier_wait, not the last thread to arrive.                    *)
BarrierBlock(t) ==
  /\ pc[t] = "barrier"
  /\ \E u \in Threads \ {t} : pc[u] # "waiting"
  /\ pc' = [pc EXCEPT ![t] = "waiting"]
  /\ UNCHANGED <<clockVars, heap_class, shared_heap_classes, lock, index,
                 current, receivers, classVars, poolVars, nodeVars, failure>>

(* pthread_barrier_wait, the last thread: all return to the loop head.     *)
BarrierRelease(t) ==
  /\ pc[t] = "barrier"
  /\ \A u \in Threads \ {t} : pc[u] = "waiting"
  /\ pc' = [u \in Threads |-> LoopHead(u)]
  /\ UNCHANGED <<clockVars, heap_class, shared_heap_classes, lock, index,
                 current, receivers, classVars, poolVars, nodeVars, failure>>

(***************************************************************************)
(* get_random_object_props and allocate_LSClass: the new class has a       *)
(* lifetime, and its bytes count towards the quantum (the code adds them   *)
(* after the traversal; only this thread reads the counter).  The thread   *)
(* keeps the class, with one reference, or draws the threads to share it   *)
(* with and gives the class one reference for each.                        *)
(***************************************************************************)
AllocateLSClass(t) ==
  /\ pc[t] = "alloc"
  /\ \E c \in Class, liveness \in MinLiveness .. MaxLiveness, bytes \in ClassBytes :
       /\ GetLSClass(t, c)
       /\ lifetime' = [lifetime EXCEPT ![c] = liveness + DeallocationDelay]
       /\ due' = [due EXCEPT ![c] = time[t] + liveness]
       /\ time_counter' = [time_counter EXCEPT ![t] = @ + bytes]
       /\ \/ /\ reference_counter' = [reference_counter EXCEPT ![c] = 1]
             /\ receivers' = [receivers EXCEPT ![t] = {t}]
             /\ current' = [current EXCEPT ![t] = c]
             /\ pc' = [pc EXCEPT ![t] = "keep"]
          \/ /\ SharedObjects
             /\ \E R \in ReceiverSets :
                  /\ reference_counter' =
                       [reference_counter EXCEPT ![c] = InitialCount(t, R)]
                  /\ receivers' = [receivers EXCEPT ![t] = R]
                  /\ current' = [current EXCEPT ![t] = IF R = {} THEN NoClass ELSE c]
                  /\ pc' = [pc EXCEPT ![t] = IF R = {} THEN "fetch" ELSE "share"]
  /\ UNCHANGED <<time, heap_class, shared_heap_classes, lock, index, nodeVars, failure>>

(* The unshared path: heap_class_insert into the thread's own heap class.  *)
KeepLSClass(t) ==
  /\ pc[t] = "keep"
  /\ GetLSCNode(t)
  /\ heap_class' = [heap_class EXCEPT
                      ![t][SlotAt(t, LivenessOf(current[t]))] = @ \cup {current[t]}]
  /\ receivers' = [receivers EXCEPT ![t] = {}]
  /\ current' = [current EXCEPT ![t] = NoClass]
  /\ pc' = [pc EXCEPT ![t] = "access"]
  /\ UNCHANGED <<clockVars, shared_heap_classes, lock, index, classVars, poolVars, failure>>

(* share_LSClass, next receiver: lock_shared_heap_class(r).                *)
ShareLock(t, r) ==
  /\ pc[t] = "share"
  /\ r \in receivers[t]
  /\ LockFree(r)
  /\ lock' = [lock EXCEPT ![r] = t]
  /\ pc' = [pc EXCEPT ![t] = "insert"]
  /\ UNCHANGED <<clockVars, heap_class, shared_heap_classes, index, current,
                 receivers, classVars, poolVars, nodeVars, failure>>

(* share_LSClass, with the mutex of r held: heap_class_insert with the     *)
(* SENDER's node and clock, then unlock; the last receiver ends the loop.  *)
ShareInsert(t, r) ==
  /\ pc[t] = "insert"
  /\ lock[r] = t
  /\ GetLSCNode(t)
  /\ shared_heap_classes' =
       [shared_heap_classes EXCEPT
          ![r][SlotAt(t, LivenessOf(current[t]))] = @ \cup {current[t]}]
  /\ lock' = [lock EXCEPT ![r] = NoThread]
  /\ receivers' = [receivers EXCEPT ![t] = @ \ {r}]
  /\ IF receivers[t] = {r}
     THEN /\ current' = [current EXCEPT ![t] = NoClass]
          /\ pc' = [pc EXCEPT ![t] = "fetch"]
     ELSE /\ pc' = [pc EXCEPT ![t] = "share"]
          /\ UNCHANGED current
  /\ UNCHANGED <<clockVars, heap_class, index, classVars, poolVars, failure>>

(* get_shared_LClasses: lock the own part of the distribution pool.        *)
FetchLock(t) ==
  /\ pc[t] = "fetch"
  /\ LockFree(t)
  /\ lock' = [lock EXCEPT ![t] = t]
  /\ index' = [index EXCEPT ![t] = 0]
  /\ pc' = [pc EXCEPT ![t] = "append"]
  /\ UNCHANGED <<clockVars, heap_class, shared_heap_classes, current, receivers,
                 classVars, poolVars, nodeVars, failure>>

(* Plausible slips in the loop: it forgets to advance, or takes one step   *)
(* too many.                                                               *)
NextLifetime_Stuck(t) ==
  /\ index' = index
  /\ pc' = [pc EXCEPT ![t] = IF index[t] + 1 < MaxLiveness THEN "append" ELSE "access"]
  /\ lock' = [lock EXCEPT ![t] = IF index[t] + 1 < MaxLiveness THEN @ ELSE NoThread]
NextLifetime_TooFar(t) ==
  IF index[t] < MaxLiveness
  THEN /\ index' = [index EXCEPT ![t] = @ + 1]
       /\ pc' = [pc EXCEPT ![t] = "append"]
       /\ UNCHANGED lock
  ELSE /\ index' = [index EXCEPT ![t] = 0]
       /\ pc' = [pc EXCEPT ![t] = "access"]
       /\ lock' = [lock EXCEPT ![t] = NoThread]

(* The next iteration of the loop over the lifetimes, or unlock after it.  *)
NextLifetime(t) ==
  IF index[t] + 1 < MaxLiveness
  THEN /\ index' = [index EXCEPT ![t] = @ + 1]
       /\ pc' = [pc EXCEPT ![t] = "append"]
       /\ UNCHANGED lock
  ELSE /\ index' = [index EXCEPT ![t] = 0]
       /\ pc' = [pc EXCEPT ![t] = "access"]
       /\ lock' = [lock EXCEPT ![t] = NoThread]

(* "no shared LSClasses here": continue.                                   *)
SpliceSkip(t) ==
  /\ pc[t] = "append"
  /\ shared_heap_classes[t][index[t]] = {}
  /\ NextLifetime(t)
  /\ UNCHANGED <<clockVars, heap_class, shared_heap_classes, current, receivers,
                 classVars, poolVars, nodeVars, failure>>

(* The remote list is hung behind the local list ...                       *)
SpliceAppend(t) ==
  /\ pc[t] = "append"
  /\ shared_heap_classes[t][index[t]] # {}
  /\ heap_class' = [heap_class EXCEPT
                      ![t][SlotAt(t, index[t])] = @ \cup shared_heap_classes[t][index[t]]]
  /\ pc' = [pc EXCEPT ![t] = "reset"]
  /\ UNCHANGED <<clockVars, shared_heap_classes, lock, index, current, receivers,
                 classVars, poolVars, nodeVars, failure>>

(* ... and then the remote list is emptied.                                *)
SpliceReset(t) ==
  /\ pc[t] = "reset"
  /\ shared_heap_classes' = [shared_heap_classes EXCEPT ![t][index[t]] = {}]
  /\ NextLifetime(t)
  /\ UNCHANGED <<clockVars, heap_class, current, receivers, classVars, poolVars,
                 nodeVars, failure>>

(* A plausible slip: from the next time unit on.                           *)
Accessed_FromNext(t) == UNION {heap_class[t][SlotAt(t, i)] : i \in 1 .. MaxLiveness}

(* access_live_LClasses, unless it returns at once, reads every class in   *)
(* these lists ...                                                         *)
Accessed(t) ==
  IF AccessLiveObjects
  THEN UNION {heap_class[t][SlotAt(t, i)] : i \in 0 .. MaxLiveness - 1}
  ELSE {}

(* ... and after it the clock advances if the quantum is used up.          *)
AccessLiveLClasses(t) ==
  /\ pc[t] = "access"
  /\ IF time_counter[t] >= TimeQuantum
     THEN /\ time' = [time EXCEPT ![t] = @ + 1]
          /\ time_counter' = [time_counter EXCEPT ![t] = 0]
          /\ pc' = [pc EXCEPT ![t] = "expire"]
     ELSE /\ pc' = [pc EXCEPT ![t] = "alloc"]
          /\ UNCHANGED clockVars
  /\ UNCHANGED <<heap_class, shared_heap_classes, lock, index, current, receivers,
                 classVars, poolVars, nodeVars, failure>>

(* heap_class_remove, one node of the expired lifetime-class: the class is *)
(* unreferenced and its node recycled; at zero this thread deallocates it. *)
Unreference(t) ==
  /\ pc[t] = "expire"
  /\ \E c \in heap_class[t][DeleteSlot(t)] :
       /\ heap_class' = [heap_class EXCEPT ![t][DeleteSlot(t)] = @ \ {c}]
       /\ reference_counter' =
            [reference_counter EXCEPT ![c] = Decremented(reference_counter[c])]
       /\ IF Decremented(reference_counter[c]) = 0
          THEN /\ current' = [current EXCEPT ![t] = c]
               /\ pc' = [pc EXCEPT ![t] = "deallocate"]
          ELSE UNCHANGED <<current, pc>>
  /\ RecycleLSCNode(t)
  /\ UNCHANGED <<clockVars, shared_heap_classes, lock, index, receivers,
                 lifetime, due, poolVars, failure>>

(* deallocate_LSClass frees the objects and recycles the class into the    *)
(* cache of the deallocating thread, not of the one that allocated it; the *)
(* descriptor serves as a list node from now on, its fields are dead.      *)
DeallocateLSClass(t) ==
  /\ pc[t] = "deallocate"
  /\ class_cache' = [class_cache EXCEPT ![t] = @ \cup {current[t]}]
  /\ lifetime' = [lifetime EXCEPT ![current[t]] = 0]
  /\ due' = [due EXCEPT ![current[t]] = 0]
  /\ current' = [current EXCEPT ![t] = NoClass]
  /\ pc' = [pc EXCEPT ![t] = "expire"]
  /\ UNCHANGED <<clockVars, heap_class, shared_heap_classes, lock, index, receivers,
                 reference_counter, class_buffer_counter, nodeVars, failure>>

(* The expired list is empty: to the barrier or back to the loop head.     *)
EndTimeUnit(t) ==
  /\ pc[t] = "expire"
  /\ heap_class[t][DeleteSlot(t)] = {}
  /\ pc' = [pc EXCEPT ![t] = IF AtTimeGap(t) THEN "barrier" ELSE LoopHead(t)]
  /\ UNCHANGED <<clockVars, heap_class, shared_heap_classes, lock, index, current,
                 receivers, classVars, poolVars, nodeVars, failure>>

(* "class buffer overflow": exit(EXIT_FAILURE) ends the whole process.     *)
ClassBufferOverflow(t) ==
  /\ pc[t] = "alloc"
  /\ class_cache[t] = {}
  /\ class_buffer_counter[t] >= ClassBufferSize
  /\ failure' = "class buffer overflow"
  /\ UNCHANGED <<pc, clockVars, heap_class, shared_heap_classes, lock, index,
                 current, receivers, classVars, poolVars, nodeVars>>

(* "node buffer overflow", likewise.                                       *)
NodeBufferOverflow(t) ==
  /\ pc[t] \in {"keep", "insert"}
  /\ node_cache[t] = 0
  /\ node_buffer_counter[t] >= NodeBufferSize
  /\ failure' = "node buffer overflow"
  /\ UNCHANGED <<pc, clockVars, heap_class, shared_heap_classes, lock, index,
                 current, receivers, classVars, poolVars, nodeVars>>

Step(t) ==
  \/ BarrierBlock(t)
  \/ BarrierRelease(t)
  \/ AllocateLSClass(t)
  \/ KeepLSClass(t)
  \/ \E r \in Threads : ShareLock(t, r)
  \/ \E r \in Threads : ShareInsert(t, r)
  \/ FetchLock(t)
  \/ SpliceSkip(t)
  \/ SpliceAppend(t)
  \/ SpliceReset(t)
  \/ AccessLiveLClasses(t)
  \/ Unreference(t)
  \/ DeallocateLSClass(t)
  \/ EndTimeUnit(t)
  \/ ClassBufferOverflow(t)
  \/ NodeBufferOverflow(t)

(* run_acdc joins all threads; exit stops all of them.                     *)
Stopped == failure # "none" \/ \A t \in Threads : pc[t] = "done"
Terminating == Stopped /\ UNCHANGED vars

Next ==
  \/ failure = "none" /\ \E t \in Threads : Step(t)
  \/ Terminating

Spec == Init /\ [][Next]_vars

(* The kernel runs every thread that can run; a mutex is contended only    *)
(* finitely often, because every thread runs for a bounded number of units.*)
Fairness == \A t \in Threads : WF_vars(failure = "none" /\ Step(t))
FairSpec == Spec /\ Fairness

-----------------------------------------------------------------------------
(***************************************************************************)
(* Properties.                                                             *)
(***************************************************************************)

Locations == {"barrier", "waiting", "alloc", "keep", "share", "insert", "fetch",
              "append", "reset", "access", "expire", "deallocate", "done"}

TypeOK ==
  /\ pc \in [Threads -> Locations]
  /\ time \in [Threads -> Nat]
  /\ time_counter \in [Threads -> Nat]
  /\ heap_class \in [Threads -> [Slots -> SUBSET Class]]
  /\ shared_heap_classes \in [Threads -> [Slots -> SUBSET Class]]
  /\ lock \in [Threads -> Threads \cup {NoThread}]
  /\ index \in [Threads -> SharedSlots]
  /\ current \in [Threads -> Class \cup {NoClass}]
  /\ receivers \in [Threads -> SUBSET Threads]
  /\ reference_counter \in [Class -> 0 .. U64Max]
  /\ lifetime \in [Class -> Nat]
  /\ due \in [Class -> Nat]
  /\ class_cache \in [Threads -> SUBSET Class]
  /\ class_buffer_counter \in [Threads -> 0 .. ClassBufferSize]
  /\ node_cache \in [Threads -> Nat]
  /\ node_buffer_counter \in [Threads -> 0 .. NodeBufferSize]
  /\ failure \in {"none", "class buffer overflow", "node buffer overflow"}

(* The classes thread t reaches through its own lists, and those waiting   *)
(* for it in the distribution pool.                                        *)
Heap(t) == UNION {heap_class[t][s] : s \in Slots}
Pool(t) == UNION {shared_heap_classes[t][s] : s \in Slots}

(* The threads that a thread still inserting c has yet to give it to.      *)
Pending(c) == UNION {receivers[t] : t \in {u \in Threads : current[u] = c}}

(* The threads that have, or are about to be given, a reference to c.      *)
Holders(c) == {t \in Threads : c \in Heap(t) \cup Pool(t)} \cup Pending(c)

(* c is in no thread's hands: recycled, or not carved from a buffer yet.   *)
Free(c) ==
  \/ \E t \in Threads : c \in class_cache[t]
  \/ c[2] >= class_buffer_counter[c[1]]

(* The counter of a class in use is the number of threads that hold it: a  *)
(* sender sets it before the first insertion, each receiver takes off one. *)
ReferencesCounted ==
  \A c \in Class : ~Free(c) => reference_counter[c] = Cardinality(Holders(c))

(* No list, pool or local variable leads to a class that was recycled, so  *)
(* no traversal or decrement touches a class that another thread reuses.   *)
NoUseAfterFree ==
  \A c \in Class : Free(c) => Holders(c) = {} /\ \A t \in Threads : current[t] # c

(* The assertions of deallocate_LSClass and recycle_LSClass: a class is    *)
(* deallocated with a zero counter; and by one thread, into one cache.     *)
DeallocatedOnce ==
  /\ \A t \in Threads : pc[t] = "deallocate" =>
       /\ reference_counter[current[t]] = 0
       /\ \A u \in Threads \ {t} : current[u] # current[t]
       /\ \A u \in Threads : current[t] \notin class_cache[u]
  /\ \A t, u \in Threads : t # u => class_cache[t] \cap class_cache[u] = {}

(* Every class is recycled, held, or being deallocated by its last holder: *)
(* none is forgotten by everybody, its objects unreachable and still       *)
(* allocated.  Except for a ratio that selects no receiver at all: then    *)
(* every class that is shared is forgotten, but none that still has a      *)
(* reference.                                                              *)
NothingLeaked ==
  \A c \in Class :
    \/ Free(c) \/ Holders(c) # {}
    \/ \E t \in Threads : pc[t] = "deallocate" /\ current[t] = c
    \/ SharedObjects /\ NumberOfSharingThreads = 0 /\ reference_counter[c] = 0

(* get_shared_LClasses moves lists in two steps: what it empties has been  *)
(* appended, because no sender can insert in between.                      *)
SpliceLosesNothing ==
  \A t \in Threads : pc[t] = "reset" =>
    shared_heap_classes[t][index[t]] \subseteq heap_class[t][SlotAt(t, index[t])]

(* "max. time drift" (-g): no two clocks are further apart.                *)
ClockDriftBounded == \A t, u \in Threads : time[t] - time[u] <= MaxTimeGap

(* A class is dropped exactly when its liveness and the delay have passed  *)
(* on the clock of its thread (without sharing: the run has no -O).        *)
DroppedWhenDue ==
  \A t \in Threads, s \in Slots : \A c \in heap_class[t][s] :
    IF pc[t] \in {"expire", "deallocate"} /\ s = DeleteSlot(t)
    THEN time[t] = due[c] + DeallocationDelay
    ELSE time[t] < due[c] + DeallocationDelay

(* The nodes of t's own lists, and of those in its part of the pool (a list *)
(* being spliced is counted once).                                         *)
HeapNodes(t) == {p \in Slots \X Class : p[2] \in heap_class[t][p[1]]}
PoolNodes(t) == {p \in Slots \X Class :
                   /\ p[2] \in shared_heap_classes[t][p[1]]
                   /\ ~(pc[t] = "reset" /\ p[1] = index[t])}

(* Nodes migrate from senders to receivers, but none is lost: those carved *)
(* from the buffers are in a cache or carry a class in some list.          *)
NodesConserved ==
  SumFunction([t \in Threads |->
                 Cardinality(HeapNodes(t)) + Cardinality(PoolNodes(t)) + node_cache[t]])
    = SumFunction(node_buffer_counter)

(* Of all the slots, the delayed ones included, a traversal meets exactly  *)
(* the classes with a remaining liveness from 0 to max_liveness - 1, and   *)
(* without a delay all classes.  (With a delay these are not "all live     *)
(* lifetime-classes": a class of maximal liveness is first met in the time *)
(* unit after its allocation.)                                             *)
AccessesByLiveness ==
  \A t \in Threads : pc[t] = "access" /\ AccessLiveObjects =>
    Accessed(t) = {c \in Heap(t) : \/ due[c] - time[t] \in 0 .. MaxLiveness - 1
                                  \/ DeallocationDelay = 0}

(* heap_class_get_LClass "returns a pointer to the lifetime-class that     *)
(* corresponds to 'remaining_liveness'": the classes in it have that much  *)
(* left, on the only clock of a single-threaded run.                       *)
SlotMatchesRemainingLiveness ==
  \A t \in Threads : pc[t] = "access" =>
    \A i \in 1 .. MaxLiveness - 1 : \A c \in heap_class[t][SlotAt(t, i)] :
      due[c] - time[t] = i

(* The distribution pool is allocated without slots for the delay: "no     *)
(* deallocation delay necessary here".                                     *)
InsertsWithinPool ==
  \A t \in Threads : \A s \in Slots \ SharedSlots : shared_heap_classes[t][s] = {}

(* Every thread gets through all its time units unless the process exits.  *)
Termination == <>Stopped

-----------------------------------------------------------------------------
(***************************************************************************)
(* The lists, pools and counters implement the ownership discipline.       *)
(***************************************************************************)
Owned == INSTANCE Ownership WITH
  owners <- [c \in Class |-> Holders(c)],
  last   <- [c \in Class |-> {t \in Threads : pc[t] = "deallocate" /\ current[t] = c}],
  free   <- {c \in Class : Free(c)}

ImplementsOwnership == Owned!Spec
=============================================================================
