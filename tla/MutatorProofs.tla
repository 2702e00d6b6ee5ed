--------------------------- MODULE MutatorProofs ----------------------------
(***************************************************************************)
(* Theorems about Mutator, for every number of threads and every value of  *)
(* the options: types, the ownership of lifetime-size-classes, the drift   *)
(* and expiry by the clocks, and the conservation of list nodes.           *)
(***************************************************************************)
EXTENDS Mutator, DataInduction, FiniteSetTheorems, TLAPS

(* Where a thread is determines what its local variables hold.             *)
ControlInv ==
  \A t \in Threads :
    /\ current[t] # NoClass <=> pc[t] \in {"keep", "share", "insert", "deallocate"}
    /\ receivers[t] # {} <=> pc[t] \in {"keep", "share", "insert"}
    /\ pc[t] = "keep" => receivers[t] = {t}

(* A thread holds at most one mutex: that of a receiver it inserts for, or *)
(* its own while it empties its part of the pool.                          *)
LockInv ==
  /\ \A t \in Threads : pc[t] \in {"append", "reset"} => lock[t] = t
  /\ \A r, t \in Threads : lock[r] = t =>
       \/ pc[t] = "insert" /\ r \in receivers[t]
       \/ pc[t] \in {"append", "reset"} /\ r = t
  /\ \A q, r, t \in Threads : lock[q] = t /\ lock[r] = t => q = r

(* A thread meets a class in one place only, except in the middle of the   *)
(* splice, when the class is in the pool and in the list it is moved to.   *)
PlaceInv ==
  \A t \in Threads, c \in Class :
    /\ \A s, z \in Slots : c \in heap_class[t][s] /\ c \in heap_class[t][z] => s = z
    /\ \A s, z \in Slots :
         c \in shared_heap_classes[t][s] /\ c \in shared_heap_classes[t][z] => s = z
    /\ \A s, z \in Slots : c \in heap_class[t][s] /\ c \in shared_heap_classes[t][z] =>
         pc[t] = "reset" /\ z = index[t]
    /\ \A u \in Threads, s \in Slots : current[u] = c /\ t \in receivers[u] =>
         c \notin heap_class[t][s] /\ c \notin shared_heap_classes[t][s]

(* What was recycled was carved from a buffer, and is in one cache.        *)
CacheInv ==
  /\ \A t \in Threads, c \in Class :
       c \in class_cache[t] => c[2] < class_buffer_counter[c[1]]
  /\ \A t, u \in Threads, c \in Class :
       c \in class_cache[t] /\ c \in class_cache[u] => t = u

(* At most one thread has a class in its hands, and nobody holds a class   *)
(* that is being deallocated.                                              *)
CurrentInv ==
  /\ \A t, u \in Threads : current[t] = current[u] /\ current[t] # NoClass => t = u
  /\ \A t \in Threads, c \in Class :
       pc[t] = "deallocate" /\ current[t] = c => Holders(c) = {}

OwnershipInv ==
  /\ CacheInv
  /\ CurrentInv
  /\ NoUseAfterFree
  /\ ReferencesCounted
  /\ NothingLeaked

IInv ==
  /\ TypeOK
  /\ ControlInv
  /\ LockInv
  /\ PlaceInv
  /\ SpliceLosesNothing
  /\ OwnershipInv

(* Thread t meets c in a list of its own, in the pool, or will be given it. *)
Meets(t, c) ==
  \/ \E s \in Slots : c \in heap_class[t][s] \/ c \in shared_heap_classes[t][s]
  \/ \E u \in Threads : current[u] = c /\ t \in receivers[u]

(* The thread, if any, that deallocates c.                                 *)
Last(c) == {t \in Threads : pc[t] = "deallocate" /\ current[t] = c}

(* A step that Ownership does not see.                                     *)
Same ==
  \A c \in Class :
    Holders(c)' = Holders(c) /\ (Free(c)' <=> Free(c)) /\ Last(c)' = Last(c)

-----------------------------------------------------------------------------
(* The number of receivers fits the counter.                               *)
LEMMA ReceiversCount ==
  ASSUME NEW R \in SUBSET Threads
  PROVE  /\ IsFiniteSet(R)
         /\ Cardinality(R) \in 0 .. U64Max
BY FS_Subset, FS_CardinalityType, ThreadsAssumption, BufferAssumption
   DEF ThreadsAssumption, BufferAssumption

(* Insertions and removals stay within the array of lifetime-classes.      *)
LEMMA SlotsInRange ==
  ASSUME TypeOK, NEW t \in Threads
  PROVE  /\ \A r \in Int : SlotAt(t, r) \in Slots
         /\ DeleteSlot(t) \in Slots
         /\ \A c \in Class : LivenessOf(c) \in Int
<1>1. /\ HeapSlots \in Nat \ {0}
      /\ DeallocationDelay \in Nat
      /\ DeallocationDelay <= HeapSlots
  BY LivenessAssumption DEF LivenessAssumption, HeapSlots
<1>2. time[t] \in Nat
  BY DEF TypeOK
<1>3. \A r \in Int : SlotAt(t, r) \in Slots
  BY <1>1, <1>2 DEF SlotAt, Slots
<1>4. DeleteSlot(t) \in Slots
  <2>1. time[t] % HeapSlots \in 0 .. HeapSlots - 1
    BY <1>1, <1>2
  <2>. QED
    BY <1>1, <1>2, <2>1 DEF DeleteSlot, Slots
<1>5. \A c \in Class : LivenessOf(c) \in Int
  <2>1. lifetime \in [Class -> Nat]
    BY DEF TypeOK
  <2>. QED
    BY <1>1, <2>1 DEF LivenessOf
<1>. QED
  BY <1>3, <1>4, <1>5

(* Adding classes to one list, or taking some out, gives lists again.      *)
LEMMA ListUpdate ==
  ASSUME NEW f \in [Threads -> [Slots -> SUBSET Class]],
         NEW t \in Threads, NEW s \in Slots, NEW L \in SUBSET Class
  PROVE  /\ [f EXCEPT ![t][s] = L] \in [Threads -> [Slots -> SUBSET Class]]
         /\ \A u \in Threads, z \in Slots :
              [f EXCEPT ![t][s] = L][u][z] = IF u = t /\ z = s THEN L ELSE f[u][z]
         /\ \A u \in Threads : u # t => [f EXCEPT ![t][s] = L][u] = f[u]
OBVIOUS

(* Every list is a set of classes.                                         *)
LEMMA ListTypes ==
  ASSUME TypeOK, NEW t \in Threads, NEW s \in Slots
  PROVE  /\ heap_class[t][s] \in SUBSET Class
         /\ shared_heap_classes[t][s] \in SUBSET Class
<1>1. /\ heap_class \in [Threads -> [Slots -> SUBSET Class]]
      /\ shared_heap_classes \in [Threads -> [Slots -> SUBSET Class]]
  BY DEF TypeOK
<1>. QED
  BY <1>1

(* The loop over the lifetimes stays within the pool.                      *)
LEMMA NextLifetimeTypes ==
  ASSUME TypeOK, NEW t \in Threads, NextLifetime(t)
  PROVE  /\ index' \in [Threads -> SharedSlots]
         /\ lock' \in [Threads -> Threads \cup {NoThread}]
         /\ pc' \in [Threads -> Locations]
<1>1. /\ index \in [Threads -> SharedSlots]
      /\ lock \in [Threads -> Threads \cup {NoThread}]
      /\ pc \in [Threads -> Locations]
  BY DEF TypeOK
<1>. QED
  BY <1>1, LivenessAssumption
     DEF LivenessAssumption, SharedSlots, NextLifetime, Locations

(* The pool's slots are slots of the heap class.                           *)
LEMMA SharedSlotsAreSlots == SharedSlots \subseteq Slots /\ SharedSlots \subseteq Int
BY LivenessAssumption DEF LivenessAssumption, SharedSlots, Slots, HeapSlots

(* Nodes come from the cache or from what is left of the buffer.           *)
LEMMA NodeTypes ==
  ASSUME TypeOK, NEW t \in Threads, GetLSCNode(t) \/ RecycleLSCNode(t)
  PROVE  /\ node_cache' \in [Threads -> Nat]
         /\ node_buffer_counter' \in [Threads -> 0 .. NodeBufferSize]
<1>1. /\ node_cache \in [Threads -> Nat]
      /\ node_buffer_counter \in [Threads -> 0 .. NodeBufferSize]
  BY DEF TypeOK
<1>. QED
  BY <1>1, BufferAssumption DEF BufferAssumption, GetLSCNode, RecycleLSCNode

(* Classes come from the cache or from what is left of the buffer.         *)
LEMMA ClassTypes ==
  ASSUME TypeOK, NEW t \in Threads, NEW c \in Class, GetLSClass(t, c)
  PROVE  /\ class_cache' \in [Threads -> SUBSET Class]
         /\ class_buffer_counter' \in [Threads -> 0 .. ClassBufferSize]
<1>1. /\ class_cache \in [Threads -> SUBSET Class]
      /\ class_buffer_counter \in [Threads -> 0 .. ClassBufferSize]
  BY DEF TypeOK
<1>. QED
  BY <1>1, BufferAssumption DEF BufferAssumption, GetLSClass

(* The initial state is typed.                                             *)
LEMMA TypeInit == Init => TypeOK
<1>1. 0 \in SharedSlots
  BY LivenessAssumption DEF LivenessAssumption, SharedSlots
<1>2. 0 \in 0 .. U64Max /\ 0 \in 0 .. NodeBufferSize /\ 0 \in 0 .. ClassBufferSize
  BY BufferAssumption DEF BufferAssumption
<1>. QED
  BY <1>1, <1>2 DEF Init, TypeOK, Locations

(* Every step of a thread preserves types.                                 *)
LEMMA TypeStep ==
  ASSUME TypeOK, ControlInv, NEW t \in Threads, Step(t)
  PROVE  TypeOK'
<1>1. CASE BarrierBlock(t)
  BY <1>1 DEF TypeOK, BarrierBlock, Locations, clockVars, classVars, poolVars, nodeVars
<1>2. CASE BarrierRelease(t)
  BY <1>2 DEF TypeOK, BarrierRelease, LoopHead, Locations,
              clockVars, classVars, poolVars, nodeVars
<1>3. CASE AllocateLSClass(t)
  <2>1. PICK c \in Class, liveness \in MinLiveness .. MaxLiveness, bytes \in ClassBytes :
          AllocateLSClass(t)!2!(c, liveness, bytes)
    BY <1>3 DEF AllocateLSClass
  <2>2. /\ class_cache' \in [Threads -> SUBSET Class]
        /\ class_buffer_counter' \in [Threads -> 0 .. ClassBufferSize]
    BY <2>1, ClassTypes
  <2>3. lifetime' \in [Class -> Nat]
    <3>1. liveness + DeallocationDelay \in Nat
      BY LivenessAssumption DEF LivenessAssumption
    <3>. QED
      BY <2>1, <3>1 DEF TypeOK
  <2>4. due' \in [Class -> Nat]
    <3>1. time[t] \in Nat
      BY DEF TypeOK
    <3>2. time[t] + liveness \in Nat
      BY <3>1, LivenessAssumption DEF LivenessAssumption
    <3>. QED
      BY <2>1, <3>2 DEF TypeOK
  <2>5. time_counter' \in [Threads -> Nat]
    <3>1. time_counter \in [Threads -> Nat] /\ bytes \in Nat
      BY ClockAssumption DEF TypeOK, ClockAssumption
    <3>. QED
      BY <2>1, <3>1
  <2>6. /\ pc' \in [Threads -> Locations]
        /\ current' \in [Threads -> Class \cup {NoClass}]
    <3>1. \/ pc' = pc
          \/ \E l \in Locations : pc' = [pc EXCEPT ![t] = l]
      BY <2>1 DEF Locations
    <3>2. \/ current' = current
          \/ \E d \in Class \cup {NoClass} : current' = [current EXCEPT ![t] = d]
      BY <2>1
    <3>3. pc \in [Threads -> Locations] /\ current \in [Threads -> Class \cup {NoClass}]
      BY DEF TypeOK
    <3>. QED
      BY <3>1, <3>2, <3>3
  <2>7. PICK R \in SUBSET Threads :
          /\ receivers' = [receivers EXCEPT ![t] = R]
          /\ reference_counter' \in {[reference_counter EXCEPT ![c] = 1],
                                     [reference_counter EXCEPT ![c] = Cardinality(R)]}
    BY <2>1 DEF ReceiverSets, InitialCount
  <2>8. receivers' \in [Threads -> SUBSET Threads]
    BY <2>7 DEF TypeOK
  <2>9. reference_counter' \in [Class -> 0 .. U64Max]
    <3>1. 1 \in 0 .. U64Max
      BY ReceiversCount, ThreadsAssumption, FS_Singleton, FS_EmptySet, FS_CardinalityType,
         BufferAssumption DEF ThreadsAssumption, BufferAssumption
    <3>2. Cardinality(R) \in 0 .. U64Max
      BY ReceiversCount
    <3>. QED
      BY <2>7, <3>1, <3>2 DEF TypeOK
  <2>. QED
    BY <1>3, <2>2, <2>3, <2>4, <2>5, <2>6, <2>8, <2>9
       DEF TypeOK, AllocateLSClass, nodeVars
<1>4. CASE KeepLSClass(t)
  <2>. DEFINE s == SlotAt(t, LivenessOf(current[t]))
              L == heap_class[t][s] \cup {current[t]}
  <2>1. current[t] \in Class
    BY <1>4 DEF KeepLSClass, ControlInv, TypeOK
  <2>2. s \in Slots
    BY <2>1, SlotsInRange
  <2>3. heap_class' = [heap_class EXCEPT ![t][s] = L]
    BY <1>4 DEF KeepLSClass
  <2>4. L \in SUBSET Class
    BY <2>1, <2>2, ListTypes
  <2>. HIDE DEF s, L
  <2>5. heap_class' \in [Threads -> [Slots -> SUBSET Class]]
    BY <2>2, <2>3, <2>4, ListUpdate DEF TypeOK
  <2>6. /\ pc' \in [Threads -> Locations]
        /\ receivers' \in [Threads -> SUBSET Threads]
        /\ current' \in [Threads -> Class \cup {NoClass}]
    BY <1>4 DEF KeepLSClass, TypeOK, Locations
  <2>7. /\ node_cache' \in [Threads -> Nat]
        /\ node_buffer_counter' \in [Threads -> 0 .. NodeBufferSize]
    BY <1>4, NodeTypes DEF KeepLSClass
  <2>. QED
    BY <1>4, <2>5, <2>6, <2>7 DEF TypeOK, KeepLSClass, clockVars, classVars, poolVars
<1>5. ASSUME NEW r \in Threads, ShareLock(t, r) PROVE TypeOK'
  BY <1>5 DEF TypeOK, ShareLock, Locations, clockVars, classVars, poolVars, nodeVars
<1>6. ASSUME NEW r \in Threads, ShareInsert(t, r) PROVE TypeOK'
  <2>. DEFINE s == SlotAt(t, LivenessOf(current[t]))
              L == shared_heap_classes[r][s] \cup {current[t]}
  <2>1. current[t] \in Class
    BY <1>6 DEF ShareInsert, ControlInv, TypeOK
  <2>2. s \in Slots
    BY <2>1, SlotsInRange
  <2>3. shared_heap_classes' = [shared_heap_classes EXCEPT ![r][s] = L]
    BY <1>6 DEF ShareInsert
  <2>4. L \in SUBSET Class
    BY <2>1, <2>2, ListTypes
  <2>. HIDE DEF s, L
  <2>5. shared_heap_classes' \in [Threads -> [Slots -> SUBSET Class]]
    BY <2>2, <2>3, <2>4, ListUpdate DEF TypeOK
  <2>6. /\ pc' \in [Threads -> Locations]
        /\ receivers' \in [Threads -> SUBSET Threads]
        /\ lock' \in [Threads -> Threads \cup {NoThread}]
        /\ current' \in [Threads -> Class \cup {NoClass}]
    BY <1>6 DEF ShareInsert, TypeOK, Locations
  <2>7. /\ node_cache' \in [Threads -> Nat]
        /\ node_buffer_counter' \in [Threads -> 0 .. NodeBufferSize]
    BY <1>6, NodeTypes DEF ShareInsert
  <2>. QED
    BY <1>6, <2>5, <2>6, <2>7 DEF TypeOK, ShareInsert, clockVars, classVars, poolVars
<1>7. CASE FetchLock(t)
  <2>1. 0 \in SharedSlots
    BY LivenessAssumption DEF LivenessAssumption, SharedSlots
  <2>. QED
    BY <1>7, <2>1 DEF TypeOK, FetchLock, Locations, clockVars, classVars, poolVars, nodeVars
<1>8. CASE SpliceSkip(t)
  BY <1>8, NextLifetimeTypes
     DEF TypeOK, SpliceSkip, clockVars, classVars, poolVars, nodeVars
<1>9. CASE SpliceAppend(t)
  <2>. DEFINE s == SlotAt(t, index[t])
              L == heap_class[t][s] \cup shared_heap_classes[t][index[t]]
  <2>1. index[t] \in Slots /\ index[t] \in Int
    BY SharedSlotsAreSlots DEF TypeOK
  <2>2. s \in Slots
    BY <2>1, SlotsInRange
  <2>3. heap_class' = [heap_class EXCEPT ![t][s] = L]
    BY <1>9 DEF SpliceAppend
  <2>4. L \in SUBSET Class
    BY <2>1, <2>2, ListTypes
  <2>. HIDE DEF s, L
  <2>5. heap_class' \in [Threads -> [Slots -> SUBSET Class]]
    BY <2>2, <2>3, <2>4, ListUpdate DEF TypeOK
  <2>. QED
    BY <1>9, <2>5 DEF TypeOK, SpliceAppend, Locations, clockVars, classVars, poolVars, nodeVars
<1>10. CASE SpliceReset(t)
  <2>1. index[t] \in Slots
    BY SharedSlotsAreSlots DEF TypeOK
  <2>2. shared_heap_classes' \in [Threads -> [Slots -> SUBSET Class]]
    BY <1>10, <2>1, ListUpdate DEF TypeOK, SpliceReset
  <2>. QED
    BY <1>10, <2>2, NextLifetimeTypes
       DEF TypeOK, SpliceReset, clockVars, classVars, poolVars, nodeVars
<1>11. CASE AccessLiveLClasses(t)
  <2>1. time \in [Threads -> Nat] /\ time_counter \in [Threads -> Nat]
    BY DEF TypeOK
  <2>2. time' \in [Threads -> Nat] /\ time_counter' \in [Threads -> Nat]
    BY <1>11, <2>1 DEF AccessLiveLClasses, clockVars
  <2>3. pc' \in [Threads -> Locations]
    <3>1. \/ pc' = [pc EXCEPT ![t] = "expire"]
          \/ pc' = [pc EXCEPT ![t] = "alloc"]
      BY <1>11 DEF AccessLiveLClasses
    <3>. QED
      BY <3>1 DEF TypeOK, Locations
  <2>. QED
    BY <1>11, <2>2, <2>3 DEF TypeOK, AccessLiveLClasses, classVars, poolVars, nodeVars
<1>12. CASE Unreference(t)
  <2>1. PICK c \in heap_class[t][DeleteSlot(t)] : Unreference(t)!2!(c)
    BY <1>12 DEF Unreference
  <2>2. DeleteSlot(t) \in Slots
    BY SlotsInRange
  <2>3. c \in Class
    BY <2>1, <2>2, ListTypes
  <2>4. heap_class' \in [Threads -> [Slots -> SUBSET Class]]
    <3>. DEFINE L == heap_class[t][DeleteSlot(t)] \ {c}
    <3>1. L \in SUBSET Class /\ heap_class' = [heap_class EXCEPT ![t][DeleteSlot(t)] = L]
      BY <2>1, <2>2, ListTypes
    <3>. HIDE DEF L
    <3>. QED
      BY <2>2, <3>1, ListUpdate DEF TypeOK
  <2>5. reference_counter' \in [Class -> 0 .. U64Max]
    <3>1. /\ reference_counter \in [Class -> 0 .. U64Max]
          /\ U64Max \in Nat
      BY BufferAssumption DEF TypeOK, BufferAssumption
    <3>2. Decremented(reference_counter[c]) \in 0 .. U64Max
      BY <2>3, <3>1 DEF Decremented
    <3>. QED
      BY <2>1, <3>1, <3>2
  <2>6. /\ pc' \in [Threads -> Locations]
        /\ current' \in [Threads -> Class \cup {NoClass}]
    BY <2>1, <2>3 DEF TypeOK, Locations
  <2>7. /\ node_cache' \in [Threads -> Nat]
        /\ node_buffer_counter' \in [Threads -> 0 .. NodeBufferSize]
    BY <1>12, NodeTypes DEF Unreference
  <2>. QED
    BY <1>12, <2>4, <2>5, <2>6, <2>7 DEF TypeOK, Unreference, clockVars, poolVars
<1>13. CASE DeallocateLSClass(t)
  <2>1. current[t] \in Class
    BY <1>13 DEF DeallocateLSClass, ControlInv, TypeOK
  <2>2. class_cache' \in [Threads -> SUBSET Class]
    BY <1>13, <2>1 DEF DeallocateLSClass, TypeOK
  <2>3. lifetime' \in [Class -> Nat] /\ due' \in [Class -> Nat]
    BY <1>13, <2>1 DEF DeallocateLSClass, TypeOK
  <2>4. /\ pc' \in [Threads -> Locations]
        /\ current' \in [Threads -> Class \cup {NoClass}]
    BY <1>13 DEF DeallocateLSClass, TypeOK, Locations
  <2>. QED
    BY <1>13, <2>2, <2>3, <2>4 DEF TypeOK, DeallocateLSClass, clockVars, nodeVars
<1>14. CASE EndTimeUnit(t)
  BY <1>14 DEF TypeOK, EndTimeUnit, LoopHead, Locations,
               clockVars, classVars, poolVars, nodeVars
<1>15. CASE ClassBufferOverflow(t)
  BY <1>15 DEF TypeOK, ClassBufferOverflow, clockVars, classVars, poolVars, nodeVars
<1>16. CASE NodeBufferOverflow(t)
  BY <1>16 DEF TypeOK, NodeBufferOverflow, clockVars, classVars, poolVars, nodeVars
<1>. QED
  BY <1>1, <1>2, <1>3, <1>4, <1>5, <1>6, <1>7, <1>8, <1>9, <1>10, <1>11, <1>12,
     <1>13, <1>14, <1>15, <1>16 DEF Step

-----------------------------------------------------------------------------
(* Every step keeps a thread's local variables and its place in step.      *)
LEMMA ControlStep ==
  ASSUME TypeOK, ControlInv, NEW t \in Threads, Step(t)
  PROVE  ControlInv'
<1>0. /\ pc \in [Threads -> Locations]
      /\ current \in [Threads -> Class \cup {NoClass}]
      /\ receivers \in [Threads -> SUBSET Threads]
  BY DEF TypeOK
<1>1. CASE BarrierBlock(t)
  BY <1>0, <1>1 DEF BarrierBlock, ControlInv
<1>2. CASE BarrierRelease(t)
  BY <1>0, <1>2 DEF BarrierRelease, LoopHead, ControlInv
<1>3. CASE AllocateLSClass(t)
  <2>1. PICK c \in Class, liveness \in MinLiveness .. MaxLiveness, bytes \in ClassBytes :
          AllocateLSClass(t)!2!(c, liveness, bytes)
    BY <1>3 DEF AllocateLSClass
  <2>2. pc[t] = "alloc"
    BY <1>3 DEF AllocateLSClass
  <2>3. c # NoClass
    BY ClassAssumption DEF ClassAssumption
  <2>4. PICK R \in SUBSET Threads, l \in {"keep", "share", "fetch"} :
          /\ receivers' = [receivers EXCEPT ![t] = R]
          /\ current' = [current EXCEPT ![t] = IF R = {} THEN NoClass ELSE c]
          /\ pc' = [pc EXCEPT ![t] = l]
          /\ R = {} <=> l = "fetch"
          /\ l = "keep" => R = {t}
    BY <2>1 DEF ReceiverSets
  <2>. QED
    BY <1>0, <2>2, <2>3, <2>4 DEF ControlInv
<1>4. CASE KeepLSClass(t)
  BY <1>0, <1>4 DEF KeepLSClass, ControlInv
<1>5. ASSUME NEW r \in Threads, ShareLock(t, r) PROVE ControlInv'
  BY <1>0, <1>5 DEF ShareLock, ControlInv
<1>6. ASSUME NEW r \in Threads, ShareInsert(t, r) PROVE ControlInv'
  BY <1>0, <1>6 DEF ShareInsert, ControlInv
<1>7. CASE FetchLock(t)
  BY <1>0, <1>7 DEF FetchLock, ControlInv
<1>8. CASE SpliceSkip(t)
  BY <1>0, <1>8 DEF SpliceSkip, NextLifetime, ControlInv
<1>9. CASE SpliceAppend(t)
  BY <1>0, <1>9 DEF SpliceAppend, ControlInv
<1>10. CASE SpliceReset(t)
  BY <1>0, <1>10 DEF SpliceReset, NextLifetime, ControlInv
<1>11. CASE AccessLiveLClasses(t)
  BY <1>0, <1>11 DEF AccessLiveLClasses, ControlInv
<1>12. CASE Unreference(t)
  <2>1. PICK c \in heap_class[t][DeleteSlot(t)] : Unreference(t)!2!(c)
    BY <1>12 DEF Unreference
  <2>2. c # NoClass
    BY <2>1, SlotsInRange, ListTypes, ClassAssumption DEF ClassAssumption
  <2>. QED
    BY <1>0, <1>12, <2>1, <2>2 DEF Unreference, ControlInv
<1>13. CASE DeallocateLSClass(t)
  BY <1>0, <1>13 DEF DeallocateLSClass, ControlInv
<1>14. CASE EndTimeUnit(t)
  BY <1>0, <1>14 DEF EndTimeUnit, LoopHead, ControlInv
<1>15. CASE ClassBufferOverflow(t)
  BY <1>0, <1>15 DEF ClassBufferOverflow, ControlInv
<1>16. CASE NodeBufferOverflow(t)
  BY <1>0, <1>16 DEF NodeBufferOverflow, ControlInv
<1>. QED
  BY <1>1, <1>2, <1>3, <1>4, <1>5, <1>6, <1>7, <1>8, <1>9, <1>10, <1>11, <1>12,
     <1>13, <1>14, <1>15, <1>16 DEF Step

(* Every step respects the mutexes of the distribution pool.               *)
LEMMA LockStep ==
  ASSUME TypeOK, ControlInv, LockInv, NEW t \in Threads, Step(t)
  PROVE  LockInv'
<1>0. /\ pc \in [Threads -> Locations]
      /\ lock \in [Threads -> Threads \cup {NoThread}]
      /\ receivers \in [Threads -> SUBSET Threads]
      /\ NoThread \notin Threads
  BY ThreadsAssumption DEF TypeOK, ThreadsAssumption
<1>1. CASE BarrierBlock(t)
  BY <1>0, <1>1 DEF BarrierBlock, LockInv
<1>2. CASE BarrierRelease(t)
  BY <1>0, <1>2 DEF BarrierRelease, LoopHead, LockInv
<1>3. CASE AllocateLSClass(t)
  <2>1. \E R \in SUBSET Threads, l \in {"keep", "share", "fetch"} :
          /\ receivers' = [receivers EXCEPT ![t] = R]
          /\ pc' = [pc EXCEPT ![t] = l]
    BY <1>3 DEF AllocateLSClass, ReceiverSets
  <2>2. pc[t] = "alloc" /\ lock' = lock
    BY <1>3 DEF AllocateLSClass
  <2>. QED
    BY <1>0, <2>1, <2>2 DEF LockInv
<1>4. CASE KeepLSClass(t)
  BY <1>0, <1>4 DEF KeepLSClass, LockInv
<1>5. ASSUME NEW r \in Threads, ShareLock(t, r) PROVE LockInv'
  BY <1>0, <1>5 DEF ShareLock, LockFree, LockInv
<1>6. ASSUME NEW r \in Threads, ShareInsert(t, r) PROVE LockInv'
  BY <1>0, <1>6 DEF ShareInsert, LockInv
<1>7. CASE FetchLock(t)
  BY <1>0, <1>7 DEF FetchLock, LockFree, LockInv
<1>8. CASE SpliceSkip(t)
  BY <1>0, <1>8 DEF SpliceSkip, NextLifetime, LockInv
<1>9. CASE SpliceAppend(t)
  BY <1>0, <1>9 DEF SpliceAppend, LockInv
<1>10. CASE SpliceReset(t)
  BY <1>0, <1>10 DEF SpliceReset, NextLifetime, LockInv
<1>11. CASE AccessLiveLClasses(t)
  BY <1>0, <1>11 DEF AccessLiveLClasses, LockInv
<1>12. CASE Unreference(t)
  BY <1>0, <1>12 DEF Unreference, LockInv
<1>13. CASE DeallocateLSClass(t)
  BY <1>0, <1>13 DEF DeallocateLSClass, LockInv
<1>14. CASE EndTimeUnit(t)
  BY <1>0, <1>14 DEF EndTimeUnit, LoopHead, LockInv
<1>15. CASE ClassBufferOverflow(t)
  BY <1>0, <1>15 DEF ClassBufferOverflow, LockInv
<1>16. CASE NodeBufferOverflow(t)
  BY <1>0, <1>16 DEF NodeBufferOverflow, LockInv
<1>. QED
  BY <1>1, <1>2, <1>3, <1>4, <1>5, <1>6, <1>7, <1>8, <1>9, <1>10, <1>11, <1>12,
     <1>13, <1>14, <1>15, <1>16 DEF Step

-----------------------------------------------------------------------------
(* The holders of a class, before and after a step, thread by thread.      *)
LEMMA HoldersMeet ==
  ASSUME TypeOK, TypeOK', NEW c \in Class
  PROVE  /\ Holders(c) \in SUBSET Threads /\ Holders(c)' \in SUBSET Threads
         /\ \A t \in Threads : t \in Holders(c) <=> Meets(t, c)
         /\ \A t \in Threads : t \in Holders(c)' <=> Meets(t, c)'
<1>1. receivers \in [Threads -> SUBSET Threads] /\ receivers' \in [Threads -> SUBSET Threads]
  BY DEF TypeOK
<1>2. Pending(c) \in SUBSET Threads /\ Pending(c)' \in SUBSET Threads
  BY <1>1 DEF Pending
<1>3. \A t \in Threads : t \in Pending(c) <=> \E u \in Threads : current[u] = c /\ t \in receivers[u]
  BY DEF Pending
<1>4. \A t \in Threads :
        t \in Pending(c)' <=> \E u \in Threads : current'[u] = c /\ t \in receivers'[u]
  BY DEF Pending
<1>5. \A t \in Threads :
        c \in Heap(t) \cup Pool(t) <=>
          \E s \in Slots : c \in heap_class[t][s] \/ c \in shared_heap_classes[t][s]
  BY DEF Heap, Pool
<1>6. \A t \in Threads :
        (c \in Heap(t) \cup Pool(t))' <=>
          \E s \in Slots : c \in heap_class'[t][s] \/ c \in shared_heap_classes'[t][s]
  BY DEF Heap, Pool
<1>. QED
  BY <1>2, <1>3, <1>4, <1>5, <1>6 DEF Holders, Meets

(* A step that only moves references around, every holder keeping its own. *)
LEMMA MovePreservesOwnership ==
  ASSUME TypeOK, TypeOK', OwnershipInv,
         \A c \in Class, t \in Threads : Meets(t, c)' <=> Meets(t, c),
         UNCHANGED <<class_cache, class_buffer_counter, reference_counter>>,
         \A t \in Threads : current'[t] \in {current[t], NoClass},
         \A t \in Threads : pc'[t] = "deallocate" <=> pc[t] = "deallocate",
         \A t \in Threads : pc[t] = "deallocate" => current'[t] = current[t]
  PROVE  OwnershipInv' /\ Same
<1>1. \A c \in Class : Holders(c)' = Holders(c)
  BY HoldersMeet
<1>2. \A c \in Class : Free(c)' <=> Free(c)
  BY DEF Free
<1>3. NoClass \notin Class
  BY ClassAssumption DEF ClassAssumption
<1>4. CacheInv'
  BY DEF OwnershipInv, CacheInv
<1>5. CurrentInv'
  BY <1>1, <1>3 DEF OwnershipInv, CurrentInv
<1>6. NoUseAfterFree'
  BY <1>1, <1>2, <1>3 DEF OwnershipInv, NoUseAfterFree
<1>7. ReferencesCounted'
  BY <1>1, <1>2 DEF OwnershipInv, ReferencesCounted
<1>8. NothingLeaked'
  BY <1>1, <1>2 DEF OwnershipInv, NothingLeaked, NumberOfSharingThreads
<1>9. Same
  BY <1>1, <1>2 DEF Same, Last
<1>. QED
  BY <1>4, <1>5, <1>6, <1>7, <1>8, <1>9 DEF OwnershipInv

(* A step that touches no list, no counter and nobody's class in hand, nor *)
(* the place of a thread in the middle of a splice.                        *)
LEMMA FramePreserves ==
  ASSUME TypeOK, TypeOK', PlaceInv, SpliceLosesNothing, OwnershipInv,
         UNCHANGED <<heap_class, shared_heap_classes, current, receivers,
                     class_cache, class_buffer_counter, reference_counter>>,
         \A t \in Threads : pc'[t] = "deallocate" <=> pc[t] = "deallocate",
         \A t \in Threads : pc'[t] = "reset" <=> pc[t] = "reset",
         \A t \in Threads : pc[t] = "reset" => index'[t] = index[t] /\ time'[t] = time[t]
  PROVE  PlaceInv' /\ SpliceLosesNothing' /\ OwnershipInv' /\ Same
<1>1. PlaceInv'
  BY DEF PlaceInv
<1>2. SpliceLosesNothing'
  BY DEF SpliceLosesNothing, SlotAt
<1>3. \A c \in Class, t \in Threads : Meets(t, c)' <=> Meets(t, c)
  BY DEF Meets
<1>4. OwnershipInv' /\ Same
  BY <1>3, MovePreservesOwnership
<1>. QED
  BY <1>1, <1>2, <1>4

-----------------------------------------------------------------------------
(* KeepLSClass: the reference in hand becomes one in the thread's own list.*)
LEMMA KeepPreserves ==
  ASSUME TypeOK, TypeOK', ControlInv, PlaceInv, SpliceLosesNothing, OwnershipInv,
         NEW t \in Threads, KeepLSClass(t)
  PROVE  PlaceInv' /\ SpliceLosesNothing' /\ OwnershipInv' /\ Same
<1>. DEFINE d == current[t]
            s == SlotAt(t, LivenessOf(d))
            L == heap_class[t][s] \cup {d}
<1>1. /\ d \in Class /\ d # NoClass
      /\ receivers[t] = {t}
      /\ pc[t] = "keep"
  BY ClassAssumption DEF KeepLSClass, ControlInv, TypeOK, ClassAssumption
<1>2. s \in Slots
  BY <1>1, SlotsInRange
<1>3. L \in SUBSET Class /\ heap_class' = [heap_class EXCEPT ![t][s] = L]
  BY <1>1, <1>2, ListTypes DEF KeepLSClass
<1>4. d \in L /\ \A c \in Class : c \in L <=> c = d \/ c \in heap_class[t][s]
  OBVIOUS
<1>. HIDE DEF d, s, L
<1>5. /\ \A u \in Threads, z \in Slots :
           heap_class'[u][z] = IF u = t /\ z = s THEN L ELSE heap_class[u][z]
      /\ \A u \in Threads : u # t => heap_class'[u] = heap_class[u]
  <2>1. heap_class \in [Threads -> [Slots -> SUBSET Class]]
    BY DEF TypeOK
  <2>. QED
    BY <1>2, <1>3, <2>1, ListUpdate
<1>6. /\ UNCHANGED <<shared_heap_classes, index, time, class_cache,
                     class_buffer_counter, reference_counter>>
      /\ \A u \in Threads : current'[u] = IF u = t THEN NoClass ELSE current[u]
      /\ \A u \in Threads : receivers'[u] = IF u = t THEN {} ELSE receivers[u]
      /\ \A u \in Threads : pc'[u] = IF u = t THEN "access" ELSE pc[u]
  BY DEF KeepLSClass, TypeOK, clockVars, classVars, poolVars
<1>7. current[t] = d /\ \A u \in Threads : u # t => current[u] # d
  BY <1>1 DEF OwnershipInv, CurrentInv, d
<1>8. \A z \in Slots : d \notin heap_class[t][z] /\ d \notin shared_heap_classes[t][z]
  BY <1>1, <1>7 DEF PlaceInv
<1>9. NoClass \notin Class
  BY ClassAssumption DEF ClassAssumption
<1>10. PlaceInv'
  BY <1>1, <1>2, <1>4, <1>5, <1>6, <1>7, <1>8, <1>9 DEF PlaceInv
<1>11. SpliceLosesNothing'
  BY <1>1, <1>2, <1>4, <1>5, <1>6 DEF SpliceLosesNothing, SlotAt
<1>12. \A c \in Class, u \in Threads : Meets(u, c)' <=> Meets(u, c)
  BY <1>1, <1>2, <1>4, <1>5, <1>6, <1>7, <1>9 DEF Meets
<1>13. OwnershipInv' /\ Same
  BY <1>1, <1>6, <1>12, MovePreservesOwnership
<1>. QED
  BY <1>10, <1>11, <1>13

(* ShareInsert: a reference still to be given becomes one in the pool.     *)
LEMMA InsertPreserves ==
  ASSUME TypeOK, TypeOK', ControlInv, LockInv, PlaceInv, SpliceLosesNothing, OwnershipInv,
         NEW t \in Threads, NEW r \in Threads, ShareInsert(t, r)
  PROVE  PlaceInv' /\ SpliceLosesNothing' /\ OwnershipInv' /\ Same
<1>. DEFINE d == current[t]
            s == SlotAt(t, LivenessOf(d))
            L == shared_heap_classes[r][s] \cup {d}
<1>1. /\ d \in Class /\ d # NoClass
      /\ pc[t] = "insert"
      /\ lock[r] = t
      /\ r \in receivers[t]
  <2>1. pc[t] = "insert" /\ lock[r] = t
    BY DEF ShareInsert
  <2>2. d # NoClass /\ d \in Class \cup {NoClass}
    BY <2>1 DEF ControlInv, TypeOK
  <2>3. r \in receivers[t]
    BY <2>1 DEF LockInv
  <2>. QED
    BY <2>1, <2>2, <2>3
<1>2. s \in Slots
  BY <1>1, SlotsInRange
<1>3. L \in SUBSET Class /\ shared_heap_classes' = [shared_heap_classes EXCEPT ![r][s] = L]
  BY <1>1, <1>2, ListTypes DEF ShareInsert
<1>4. d \in L /\ \A c \in Class : c \in L <=> c = d \/ c \in shared_heap_classes[r][s]
  OBVIOUS
<1>. HIDE DEF d, s, L
<1>5. /\ \A u \in Threads, z \in Slots :
           shared_heap_classes'[u][z] = IF u = r /\ z = s THEN L ELSE shared_heap_classes[u][z]
      /\ \A u \in Threads : u # r => shared_heap_classes'[u] = shared_heap_classes[u]
  <2>1. shared_heap_classes \in [Threads -> [Slots -> SUBSET Class]]
    BY DEF TypeOK
  <2>. QED
    BY <1>2, <1>3, <2>1, ListUpdate
<1>6. /\ UNCHANGED <<heap_class, index, time, class_cache,
                     class_buffer_counter, reference_counter>>
      /\ current'[t] = IF receivers[t] = {r} THEN NoClass ELSE d
      /\ \A u \in Threads : u # t => current'[u] = current[u]
      /\ receivers'[t] = receivers[t] \ {r}
      /\ \A u \in Threads : u # t => receivers'[u] = receivers[u]
      /\ pc'[t] \in {"share", "fetch"}
      /\ \A u \in Threads : u # t => pc'[u] = pc[u]
  <2>1. /\ pc \in [Threads -> Locations]
        /\ current \in [Threads -> Class \cup {NoClass}]
        /\ receivers \in [Threads -> SUBSET Threads]
    BY DEF TypeOK
  <2>. QED
    BY <2>1 DEF ShareInsert, clockVars, classVars, poolVars, d
<1>7. current[t] = d /\ \A u \in Threads : u # t => current[u] # d
  BY <1>1 DEF OwnershipInv, CurrentInv, d
<1>8. \A z \in Slots : d \notin heap_class[r][z] /\ d \notin shared_heap_classes[r][z]
  BY <1>1, <1>7 DEF PlaceInv
<1>9. NoClass \notin Class
  BY ClassAssumption DEF ClassAssumption
<1>10. PlaceInv'
  BY <1>1, <1>2, <1>4, <1>5, <1>6, <1>7, <1>8, <1>9 DEF PlaceInv
<1>11. SpliceLosesNothing'
  <2>1. pc[r] # "reset"
    BY <1>1 DEF LockInv
  <2>. QED
    BY <1>1, <1>5, <1>6, <2>1 DEF SpliceLosesNothing, SlotAt
<1>12. \A c \in Class, u \in Threads : Meets(u, c)' <=> Meets(u, c)
  <2>1. \A c \in Class, u \in Threads : c # d => (Meets(u, c)' <=> Meets(u, c))
    BY <1>1, <1>2, <1>4, <1>5, <1>6, <1>7, <1>9 DEF Meets
  <2>2. \A c \in Class, u \in Threads : c = d /\ u # r => (Meets(u, c)' <=> Meets(u, c))
    BY <1>1, <1>2, <1>4, <1>5, <1>6, <1>7, <1>9 DEF Meets
  <2>3. \A c \in Class : c = d => Meets(r, c)' /\ Meets(r, c)
    BY <1>1, <1>2, <1>4, <1>5, <1>7 DEF Meets
  <2>. QED
    BY <2>1, <2>2, <2>3
<1>13. OwnershipInv' /\ Same
  BY <1>1, <1>6, <1>7, <1>12, MovePreservesOwnership
<1>. QED
  BY <1>10, <1>11, <1>13

(* SpliceAppend: the classes of the pool's list are in the own list too.   *)
LEMMA AppendPreserves ==
  ASSUME TypeOK, TypeOK', ControlInv, PlaceInv, SpliceLosesNothing, OwnershipInv,
         NEW t \in Threads, SpliceAppend(t)
  PROVE  PlaceInv' /\ SpliceLosesNothing' /\ OwnershipInv' /\ Same
<1>. DEFINE i == index[t]
            s == SlotAt(t, i)
            P == shared_heap_classes[t][i]
            L == heap_class[t][s] \cup P
<1>1. i \in Slots /\ i \in Int /\ pc[t] = "append"
  BY SharedSlotsAreSlots DEF SpliceAppend, TypeOK
<1>2. s \in Slots
  BY <1>1, SlotsInRange
<1>3. L \in SUBSET Class /\ heap_class' = [heap_class EXCEPT ![t][s] = L]
  BY <1>1, <1>2, ListTypes DEF SpliceAppend
<1>4. P \subseteq L /\ \A c \in Class : c \in L <=> c \in P \/ c \in heap_class[t][s]
  OBVIOUS
<1>. HIDE DEF L
<1>5. /\ \A u \in Threads, z \in Slots :
           heap_class'[u][z] = IF u = t /\ z = s THEN L ELSE heap_class[u][z]
      /\ \A u \in Threads : u # t => heap_class'[u] = heap_class[u]
  <2>1. heap_class \in [Threads -> [Slots -> SUBSET Class]]
    BY DEF TypeOK
  <2>. HIDE DEF s
  <2>. QED
    BY <1>2, <1>3, <2>1, ListUpdate
<1>6. /\ UNCHANGED <<shared_heap_classes, index, time, current, receivers, class_cache,
                     class_buffer_counter, reference_counter>>
      /\ pc'[t] = "reset"
      /\ \A u \in Threads : u # t => pc'[u] = pc[u]
  BY DEF SpliceAppend, TypeOK, clockVars, classVars, poolVars
<1>7. SpliceLosesNothing'
  <2>1. s = (SlotAt(t, index[t]))'
    BY <1>6 DEF SlotAt
  <2>2. shared_heap_classes'[t][index'[t]] \subseteq heap_class'[t][s]
    BY <1>2, <1>4, <1>5, <1>6
  <2>. HIDE DEF s
  <2>3. \A u \in Threads : u # t /\ pc'[u] = "reset" =>
          shared_heap_classes'[u][index'[u]] \subseteq heap_class'[u][(SlotAt(u, index[u]))']
    BY <1>5, <1>6 DEF SpliceLosesNothing, SlotAt
  <2>. QED
    BY <2>1, <2>2, <2>3 DEF SpliceLosesNothing
<1>. HIDE DEF s
<1>8. PlaceInv'
  BY <1>1, <1>2, <1>4, <1>5, <1>6 DEF PlaceInv
<1>9. \A c \in Class, u \in Threads : Meets(u, c)' <=> Meets(u, c)
  BY <1>1, <1>2, <1>4, <1>5, <1>6 DEF Meets
<1>10. OwnershipInv' /\ Same
  BY <1>1, <1>6, <1>9, MovePreservesOwnership
<1>. QED
  BY <1>7, <1>8, <1>10

(* SpliceReset: what leaves the pool is in the own list already.           *)
LEMMA ResetPreserves ==
  ASSUME TypeOK, TypeOK', ControlInv, PlaceInv, SpliceLosesNothing, OwnershipInv,
         NEW t \in Threads, SpliceReset(t)
  PROVE  PlaceInv' /\ SpliceLosesNothing' /\ OwnershipInv' /\ Same
<1>. DEFINE i == index[t]
            s == SlotAt(t, i)
<1>1. i \in Slots /\ i \in Int /\ pc[t] = "reset"
  BY SharedSlotsAreSlots DEF SpliceReset, TypeOK
<1>2. s \in Slots
  BY <1>1, SlotsInRange
<1>3. shared_heap_classes[t][i] \subseteq heap_class[t][s]
  BY <1>1 DEF SpliceLosesNothing
<1>. HIDE DEF s
<1>4. /\ \A u \in Threads, z \in Slots :
           shared_heap_classes'[u][z] = IF u = t /\ z = i THEN {} ELSE shared_heap_classes[u][z]
      /\ \A u \in Threads : u # t => shared_heap_classes'[u] = shared_heap_classes[u]
  <2>1. shared_heap_classes \in [Threads -> [Slots -> SUBSET Class]]
    BY DEF TypeOK
  <2>2. shared_heap_classes' = [shared_heap_classes EXCEPT ![t][i] = {}]
    BY DEF SpliceReset
  <2>. HIDE DEF i
  <2>. QED
    BY <1>1, <2>1, <2>2, ListUpdate
<1>5. /\ UNCHANGED <<heap_class, time, current, receivers, class_cache,
                     class_buffer_counter, reference_counter>>
      /\ pc'[t] \in {"append", "access"}
      /\ \A u \in Threads : u # t => pc'[u] = pc[u] /\ index'[u] = index[u]
  <2>1. pc \in [Threads -> Locations] /\ index \in [Threads -> SharedSlots]
    BY DEF TypeOK
  <2>. QED
    BY <2>1 DEF SpliceReset, NextLifetime, clockVars, classVars, poolVars
<1>6. SpliceLosesNothing'
  BY <1>4, <1>5 DEF SpliceLosesNothing, SlotAt
<1>7. PlaceInv'
  BY <1>1, <1>4, <1>5 DEF PlaceInv
<1>8. \A c \in Class, u \in Threads : Meets(u, c)' <=> Meets(u, c)
  BY <1>1, <1>2, <1>3, <1>4, <1>5 DEF Meets
<1>9. OwnershipInv' /\ Same
  BY <1>1, <1>5, <1>8, MovePreservesOwnership
<1>. QED
  BY <1>6, <1>7, <1>9

-----------------------------------------------------------------------------
(* get_LSClass hands out a free class, and only that one stops being free. *)
LEMMA GetLSClassFree ==
  ASSUME TypeOK, CacheInv, NEW t \in Threads, NEW d \in Class, GetLSClass(t, d)
  PROVE  /\ Free(d) /\ ~Free(d)'
         /\ \A c \in Class : c # d => (Free(c)' <=> Free(c))
         /\ CacheInv'
<1>1. /\ class_cache \in [Threads -> SUBSET Class]
      /\ class_buffer_counter \in [Threads -> 0 .. ClassBufferSize]
      /\ ClassBufferSize \in Nat
  BY BufferAssumption DEF TypeOK, BufferAssumption
<1>2. \A c \in Class : c[1] \in Threads /\ c[2] \in Nat /\ c = <<c[1], c[2]>>
  BY <1>1 DEF Class
<1>3. CASE /\ d \in class_cache[t]
           /\ class_cache' = [class_cache EXCEPT ![t] = @ \ {d}]
           /\ UNCHANGED class_buffer_counter
  <2>1. \A u \in Threads, c \in Class :
          c \in class_cache'[u] <=> c \in class_cache[u] /\ ~(u = t /\ c = d)
    BY <1>1, <1>3
  <2>2. \A u \in Threads : class_cache'[u] \subseteq class_cache[u]
    BY <1>1, <1>3
  <2>3. d[2] < class_buffer_counter[d[1]] /\ \A u \in Threads : d \in class_cache[u] => u = t
    BY <1>3 DEF CacheInv
  <2>4. Free(d) /\ ~Free(d)'
    BY <1>1, <1>2, <1>3, <2>1, <2>3 DEF Free
  <2>5. \A c \in Class : c # d => (Free(c)' <=> Free(c))
    BY <1>3, <2>1 DEF Free
  <2>6. CacheInv'
    BY <1>3, <2>2 DEF CacheInv
  <2>. QED
    BY <2>4, <2>5, <2>6
<1>4. CASE /\ class_cache[t] = {}
           /\ d = <<t, class_buffer_counter[t]>>
           /\ class_buffer_counter' = [class_buffer_counter EXCEPT ![t] = @ + 1]
           /\ UNCHANGED class_cache
  <2>1. \A u \in Threads : class_buffer_counter'[u] =
          IF u = t THEN class_buffer_counter[u] + 1 ELSE class_buffer_counter[u]
    BY <1>1, <1>4
  <2>2. \A u \in Threads : class_buffer_counter[u] \in Nat
    BY <1>1
  <2>3. d[1] = t /\ d[2] = class_buffer_counter[t]
    BY <1>4
  <2>4. \A u \in Threads : d \notin class_cache[u]
    BY <1>1, <1>2, <2>2, <2>3 DEF CacheInv
  <2>5. Free(d) /\ ~Free(d)'
    BY <1>4, <2>1, <2>2, <2>3, <2>4 DEF Free
  <2>6. \A c \in Class : c # d =>
          (c[2] >= class_buffer_counter'[c[1]] <=> c[2] >= class_buffer_counter[c[1]])
    BY <1>2, <2>1, <2>2, <2>3
  <2>7. \A c \in Class : c # d => (Free(c)' <=> Free(c))
    BY <1>4, <2>6 DEF Free
  <2>8. \A c \in Class :
          c[2] < class_buffer_counter[c[1]] => c[2] < class_buffer_counter'[c[1]]
    BY <1>2, <2>1, <2>2
  <2>9. CacheInv'
    BY <1>1, <1>4, <2>8 DEF CacheInv
  <2>. QED
    BY <2>5, <2>7, <2>9
<1>. QED
  BY <1>3, <1>4 DEF GetLSClass

(* AllocateLSClass: a free class gets its holders and their number.        *)
LEMMA AllocatePreserves ==
  ASSUME TypeOK, TypeOK', ControlInv, PlaceInv, SpliceLosesNothing, OwnershipInv,
         NEW t \in Threads, AllocateLSClass(t)
  PROVE  /\ PlaceInv' /\ SpliceLosesNothing' /\ OwnershipInv'
         /\ \E d \in Class, R \in SUBSET Threads :
              /\ Free(d) /\ ~Free(d)' /\ Holders(d)' = R
              /\ \A c \in Class : Last(c)' = Last(c)
              /\ \A c \in Class :
                   c # d => Holders(c)' = Holders(c) /\ (Free(c)' <=> Free(c))
<1>1. PICK d \in Class, liveness \in MinLiveness .. MaxLiveness, bytes \in ClassBytes :
        AllocateLSClass(t)!2!(d, liveness, bytes)
  BY DEF AllocateLSClass
<1>2. /\ pc[t] = "alloc"
      /\ UNCHANGED <<time, heap_class, shared_heap_classes, index>>
  BY DEF AllocateLSClass
<1>3. PICK R \in SUBSET Threads, l \in {"keep", "share", "fetch"} :
        /\ R = {} => SharedObjects /\ NumberOfSharingThreads = 0
        /\ reference_counter' = [reference_counter EXCEPT ![d] = Cardinality(R)]
        /\ receivers' = [receivers EXCEPT ![t] = R]
        /\ current' = [current EXCEPT ![t] = IF R = {} THEN NoClass ELSE d]
        /\ pc' = [pc EXCEPT ![t] = l]
  <2>1. Cardinality({t}) = 1 /\ Cardinality({}) = 0
    BY FS_Singleton, FS_EmptySet
  <2>2. \A R \in ReceiverSets : R = {} => NumberOfSharingThreads = 0
    BY <2>1 DEF ReceiverSets
  <2>3. {t} # {}
    OBVIOUS
  <2>. QED
    BY <1>1, <2>1, <2>2, <2>3 DEF ReceiverSets, InitialCount
<1>4. /\ \A c \in Class : reference_counter'[c] =
           IF c = d THEN Cardinality(R) ELSE reference_counter[c]
      /\ \A u \in Threads : receivers'[u] = IF u = t THEN R ELSE receivers[u]
      /\ \A u \in Threads : current'[u] =
           IF u = t THEN IF R = {} THEN NoClass ELSE d ELSE current[u]
      /\ \A u \in Threads : pc'[u] = IF u = t THEN l ELSE pc[u]
  <2>1. /\ pc \in [Threads -> Locations]
        /\ current \in [Threads -> Class \cup {NoClass}]
        /\ receivers \in [Threads -> SUBSET Threads]
        /\ reference_counter \in [Class -> 0 .. U64Max]
    BY DEF TypeOK
  <2>. QED
    BY <1>3, <2>1
<1>5. /\ Free(d) /\ ~Free(d)'
      /\ \A c \in Class : c # d => (Free(c)' <=> Free(c))
      /\ CacheInv'
  BY <1>1, GetLSClassFree DEF OwnershipInv
<1>6. /\ current[t] = NoClass /\ receivers[t] = {}
      /\ NoClass \notin Class
  BY <1>2, ClassAssumption DEF ControlInv, ClassAssumption
<1>7. Holders(d) = {} /\ \A u \in Threads : current[u] # d
  BY <1>5 DEF OwnershipInv, NoUseAfterFree
<1>8. \A u \in Threads : ~Meets(u, d)
  BY <1>7, HoldersMeet
<1>9. \A c \in Class, u \in Threads : c # d => (Meets(u, c)' <=> Meets(u, c))
  BY <1>2, <1>4, <1>6 DEF Meets
<1>10. \A u \in Threads : Meets(u, d)' <=> u \in R
  BY <1>2, <1>4, <1>6, <1>7, <1>8 DEF Meets
<1>11. Holders(d)' = R
  BY <1>10, HoldersMeet
<1>12. \A c \in Class : c # d => Holders(c)' = Holders(c)
  BY <1>9, HoldersMeet
<1>13. PlaceInv'
  BY <1>2, <1>4, <1>6, <1>8 DEF PlaceInv, Meets
<1>14. SpliceLosesNothing'
  BY <1>2, <1>4 DEF SpliceLosesNothing, SlotAt
<1>15. CurrentInv'
  BY <1>4, <1>6, <1>7, <1>12 DEF OwnershipInv, CurrentInv
<1>16. NoUseAfterFree'
  BY <1>4, <1>5, <1>6, <1>12 DEF OwnershipInv, NoUseAfterFree
<1>17. ReferencesCounted'
  BY <1>4, <1>5, <1>11, <1>12 DEF OwnershipInv, ReferencesCounted
<1>18. \A u \in Threads : /\ pc'[u] = "deallocate" <=> pc[u] = "deallocate"
                          /\ pc[u] = "deallocate" => current'[u] = current[u]
  BY <1>2, <1>4
<1>19. NothingLeaked'
  <2>1. R = {} => reference_counter'[d] = 0
    BY <1>4, FS_EmptySet
  <2>. QED
    BY <2>1, <1>3, <1>4, <1>5, <1>11, <1>12, <1>18 DEF OwnershipInv, NothingLeaked, NumberOfSharingThreads
<1>20. \A c \in Class : Last(c)' = Last(c)
  BY <1>18 DEF Last
<1>. QED
  BY <1>5, <1>11, <1>12, <1>13, <1>14, <1>15, <1>16, <1>17, <1>19, <1>20 DEF OwnershipInv

(* DeallocateLSClass: a class that nobody holds becomes free.              *)
LEMMA DeallocatePreserves ==
  ASSUME TypeOK, TypeOK', ControlInv, PlaceInv, SpliceLosesNothing, OwnershipInv,
         NEW t \in Threads, DeallocateLSClass(t)
  PROVE  /\ PlaceInv' /\ SpliceLosesNothing' /\ OwnershipInv'
         /\ \E d \in Class :
              /\ Last(d) = {t} /\ Last(d)' = {} /\ Free(d)'
              /\ \A c \in Class : Holders(c)' = Holders(c)
              /\ \A c \in Class :
                   c # d => Last(c)' = Last(c) /\ (Free(c)' <=> Free(c))
<1>1. PICK d \in Class : d = current[t]
  BY DEF DeallocateLSClass, ControlInv, TypeOK
<1>2. /\ pc[t] = "deallocate"
      /\ receivers[t] = {}
      /\ UNCHANGED <<time, heap_class, shared_heap_classes, index, receivers,
                     class_buffer_counter, reference_counter>>
  BY DEF DeallocateLSClass, ControlInv, clockVars, nodeVars
<1>3. /\ \A u \in Threads : current'[u] = IF u = t THEN NoClass ELSE current[u]
      /\ \A u \in Threads : pc'[u] = IF u = t THEN "expire" ELSE pc[u]
      /\ \A u \in Threads :
           class_cache'[u] = IF u = t THEN class_cache[u] \cup {d} ELSE class_cache[u]
  <2>1. /\ pc \in [Threads -> Locations]
        /\ current \in [Threads -> Class \cup {NoClass}]
        /\ class_cache \in [Threads -> SUBSET Class]
    BY DEF TypeOK
  <2>. QED
    BY <1>1, <2>1 DEF DeallocateLSClass
<1>4. NoClass \notin Class
  BY ClassAssumption DEF ClassAssumption
<1>5. Holders(d) = {} /\ \A u \in Threads : u # t => current[u] # d
  BY <1>1, <1>2, <1>4 DEF OwnershipInv, CurrentInv
<1>6. ~Free(d)
  BY <1>1 DEF OwnershipInv, NoUseAfterFree
<1>7. d[2] < class_buffer_counter[d[1]] /\ \A u \in Threads : d \notin class_cache[u]
  <2>1. /\ class_buffer_counter \in [Threads -> 0 .. ClassBufferSize]
        /\ ClassBufferSize \in Nat
    BY BufferAssumption DEF TypeOK, BufferAssumption
  <2>2. d[1] \in Threads /\ d[2] \in Int
    BY <2>1 DEF Class
  <2>. QED
    BY <1>6, <2>1, <2>2 DEF Free
<1>8. \A c \in Class : Free(c)' <=> Free(c) \/ c = d
  BY <1>2, <1>3 DEF Free
<1>9. CacheInv'
  <2>1. \A u \in Threads, c \in Class :
          c \in class_cache'[u] <=> c \in class_cache[u] \/ (u = t /\ c = d)
    BY <1>3
  <2>2. CacheInv /\ class_buffer_counter' = class_buffer_counter
    BY <1>2 DEF OwnershipInv
  <2>. QED
    BY <1>7, <2>1, <2>2 DEF CacheInv
<1>10. \A c \in Class, u \in Threads : Meets(u, c)' <=> Meets(u, c)
  BY <1>2, <1>3, <1>4 DEF Meets
<1>11. \A c \in Class : Holders(c)' = Holders(c)
  BY <1>10, HoldersMeet
<1>12. PlaceInv'
  BY <1>2, <1>3, <1>4 DEF PlaceInv
<1>13. SpliceLosesNothing'
  BY <1>2, <1>3 DEF SpliceLosesNothing, SlotAt
<1>14. CurrentInv'
  BY <1>3, <1>4, <1>11 DEF OwnershipInv, CurrentInv
<1>15. NoUseAfterFree'
  BY <1>3, <1>4, <1>5, <1>8, <1>11 DEF OwnershipInv, NoUseAfterFree
<1>16. ReferencesCounted'
  BY <1>2, <1>8, <1>11 DEF OwnershipInv, ReferencesCounted
<1>17. NothingLeaked'
  BY <1>1, <1>2, <1>3, <1>8, <1>11 DEF OwnershipInv, NothingLeaked, NumberOfSharingThreads
<1>18. Last(d) = {t} /\ Last(d)' = {}
  BY <1>1, <1>2, <1>3, <1>4, <1>5 DEF Last
<1>19. \A c \in Class : c # d => Last(c)' = Last(c)
  BY <1>1, <1>2, <1>3, <1>4 DEF Last
<1>. QED
  BY <1>8, <1>9, <1>11, <1>12, <1>13, <1>14, <1>15, <1>16, <1>17, <1>18, <1>19
  DEF OwnershipInv

(* Unreference: one holder fewer, and one reference fewer; the thread that *)
(* takes the counter to zero was the last holder.                          *)
LEMMA UnreferencePreserves ==
  ASSUME TypeOK, TypeOK', ControlInv, PlaceInv, SpliceLosesNothing, OwnershipInv,
         NEW t \in Threads, Unreference(t)
  PROVE  /\ PlaceInv' /\ SpliceLosesNothing' /\ OwnershipInv'
         /\ \E d \in Class :
              /\ t \in Holders(d) /\ Holders(d)' = Holders(d) \ {t}
              /\ Last(d)' = IF Holders(d) = {t} THEN {t} ELSE {}
              /\ \A c \in Class : Free(c)' <=> Free(c)
              /\ \A c \in Class :
                   c # d => Last(c)' = Last(c) /\ Holders(c)' = Holders(c)
<1>1. PICK d \in heap_class[t][DeleteSlot(t)] : Unreference(t)!2!(d)
  BY DEF Unreference
<1>2. PICK s \in Slots : s = DeleteSlot(t)
  BY SlotsInRange
<1>3. d \in Class /\ d \in heap_class[t][s]
  BY <1>1, <1>2, ListTypes
<1>. DEFINE L == heap_class[t][s] \ {d}
<1>4. /\ L \in SUBSET Class
      /\ heap_class' = [heap_class EXCEPT ![t][s] = L]
      /\ \A c \in Class : c \in L <=> c \in heap_class[t][s] /\ c # d
  BY <1>1, <1>2, ListTypes
<1>. HIDE DEF L
<1>5. /\ \A u \in Threads, z \in Slots :
           heap_class'[u][z] = IF u = t /\ z = s THEN L ELSE heap_class[u][z]
      /\ \A u \in Threads : u # t => heap_class'[u] = heap_class[u]
  <2>1. heap_class \in [Threads -> [Slots -> SUBSET Class]]
    BY DEF TypeOK
  <2>. QED
    BY <1>4, <2>1, ListUpdate
<1>6. /\ pc[t] = "expire"
      /\ current[t] = NoClass
      /\ receivers[t] = {}
      /\ NoClass \notin Class
      /\ UNCHANGED <<time, shared_heap_classes, index, receivers, class_cache,
                     class_buffer_counter>>
  BY ClassAssumption DEF Unreference, ControlInv, ClassAssumption, clockVars, poolVars
<1>7. Meets(t, d) /\ Holders(d) \in SUBSET Threads /\ t \in Holders(d)
  BY <1>3, HoldersMeet DEF Meets
<1>8. /\ \A u \in Threads : u # t => current'[u] = current[u] /\ pc'[u] = pc[u]
      /\ \A c \in Class : reference_counter'[c] =
           IF c = d THEN Decremented(reference_counter[d]) ELSE reference_counter[c]
      /\ IF Decremented(reference_counter[d]) = 0
         THEN current'[t] = d /\ pc'[t] = "deallocate"
         ELSE current'[t] = NoClass /\ pc'[t] = "expire"
  <2>1. /\ pc \in [Threads -> Locations]
        /\ current \in [Threads -> Class \cup {NoClass}]
        /\ reference_counter \in [Class -> 0 .. U64Max]
    BY DEF TypeOK
  <2>. QED
    BY <1>1, <1>3, <1>6, <2>1
<1>9. \A z \in Slots : /\ d \in heap_class[t][z] => z = s
                       /\ d \notin shared_heap_classes[t][z]
  BY <1>3, <1>6 DEF PlaceInv
<1>10. \A u \in Threads : current[u] = d => t \notin receivers[u]
  BY <1>3 DEF PlaceInv
<1>11. \A c \in Class, u \in Threads : c # d \/ u # t => (Meets(u, c)' <=> Meets(u, c))
  BY <1>4, <1>5, <1>6, <1>8 DEF Meets
<1>12. \A c \in Class : c = d => ~Meets(t, c)'
  BY <1>4, <1>5, <1>6, <1>8, <1>9, <1>10 DEF Meets
<1>13. \A c \in Class : c # d => Holders(c)' = Holders(c)
  BY <1>11, HoldersMeet
<1>14. \A c \in Class : c = d => Holders(c)' = Holders(c) \ {t}
  BY <1>11, <1>12, HoldersMeet
<1>15. \A c \in Class : Free(c)' <=> Free(c)
  BY <1>6 DEF Free
<1>16. ~Free(d) /\ \A u \in Threads : Holders(d) # {} /\ (pc[u] = "deallocate" => current[u] # d)
  BY <1>3, <1>7 DEF OwnershipInv, NoUseAfterFree, CurrentInv
<1>17. /\ reference_counter[d] = Cardinality(Holders(d))
       /\ Cardinality(Holders(d)) \in Nat \ {0}
       /\ Cardinality(Holders(d) \ {t}) = Cardinality(Holders(d)) - 1
       /\ Holders(d) \ {t} = {} <=> Cardinality(Holders(d) \ {t}) = 0
  <2>1. IsFiniteSet(Holders(d)) /\ IsFiniteSet(Holders(d) \ {t})
    BY <1>7, ReceiversCount
  <2>2. reference_counter[d] = Cardinality(Holders(d))
    BY <1>3, <1>16 DEF OwnershipInv, ReferencesCounted
  <2>3. Cardinality(Holders(d) \ {t}) = Cardinality(Holders(d)) - 1
    BY <1>7, <2>1, FS_RemoveElement
  <2>4. /\ Cardinality(Holders(d)) \in Nat
        /\ Holders(d) = {} <=> Cardinality(Holders(d)) = 0
        /\ Holders(d) \ {t} = {} <=> Cardinality(Holders(d) \ {t}) = 0
    BY <2>1, FS_EmptySet, FS_CardinalityType
  <2>. QED
    BY <1>16, <2>2, <2>3, <2>4
<1>18. /\ Decremented(reference_counter[d]) = Cardinality(Holders(d) \ {t})
       /\ Decremented(reference_counter[d]) = 0 <=> Holders(d) \ {t} = {}
  BY <1>17 DEF Decremented
<1>19. \A u \in Threads : current[u] = d => Holders(d) \ {t} # {}
  <2>1. SUFFICES ASSUME NEW u \in Threads, current[u] = d
                 PROVE  Holders(d) \ {t} # {}
    OBVIOUS
  <2>2. PICK v \in Threads : v \in receivers[u]
    BY <1>3, <1>6, <1>16, <2>1 DEF ControlInv, TypeOK
  <2>3. v # t
    BY <1>10, <2>1, <2>2
  <2>4. Meets(v, d)
    BY <2>1, <2>2 DEF Meets
  <2>. QED
    BY <1>3, <2>3, <2>4, HoldersMeet
<1>20. PlaceInv'
  BY <1>4, <1>5, <1>6, <1>8 DEF PlaceInv
<1>21. SpliceLosesNothing'
  BY <1>5, <1>6, <1>8 DEF SpliceLosesNothing, SlotAt
<1>22. CurrentInv'
  BY <1>3, <1>6, <1>8, <1>13, <1>14, <1>18, <1>19 DEF OwnershipInv, CurrentInv
<1>23. NoUseAfterFree'
  BY <1>3, <1>6, <1>8, <1>13, <1>14, <1>15, <1>16 DEF OwnershipInv, NoUseAfterFree
<1>24. ReferencesCounted'
  BY <1>3, <1>8, <1>13, <1>14, <1>15, <1>18 DEF OwnershipInv, ReferencesCounted
<1>25. CacheInv'
  BY <1>6 DEF OwnershipInv, CacheInv
<1>26. /\ \A c \in Class : c # d => Last(c)' = Last(c)
       /\ Last(d)' = IF Decremented(reference_counter[d]) = 0 THEN {t} ELSE {}
  BY <1>3, <1>6, <1>8, <1>16 DEF Last
<1>27. NothingLeaked'
  <2>1. \A c \in Class : (\E u \in Threads : pc'[u] = "deallocate" /\ current'[u] = c)
                            <=> Last(c)' # {}
    BY DEF Last
  <2>2. \A c \in Class : (\E u \in Threads : pc[u] = "deallocate" /\ current[u] = c)
                            <=> Last(c) # {}
    BY DEF Last
  <2>3. \A c \in Class : c = d => Holders(c)' # {} \/ Last(c)' # {}
    <3>1. Last(d)' # {} <=> Decremented(reference_counter[d]) = 0
      BY <1>26
    <3> QED
      BY <1>14, <1>18, <3>1
  <2>4. ASSUME NEW c \in Class, c # d
        PROVE  \/ Free(c)' \/ Holders(c)' # {} \/ Last(c)' # {}
               \/ SharedObjects /\ NumberOfSharingThreads = 0 /\ reference_counter'[c] = 0
    <3>1. \/ Free(c) \/ Holders(c) # {} \/ Last(c) # {}
          \/ SharedObjects /\ NumberOfSharingThreads = 0 /\ reference_counter[c] = 0
      BY <1>3, <2>2 DEF OwnershipInv, NothingLeaked
    <3>2. /\ Free(c)' <=> Free(c)
          /\ Holders(c)' = Holders(c) /\ Last(c)' = Last(c)
          /\ reference_counter'[c] = reference_counter[c]
      BY <1>8, <1>13, <1>15, <1>26, <2>4
    <3> QED
      BY <3>1, <3>2
  <2>. QED
    BY <2>1, <2>3, <2>4 DEF NothingLeaked, NumberOfSharingThreads
<1>28. Last(d)' = IF Holders(d) = {t} THEN {t} ELSE {}
  BY <1>7, <1>18, <1>26
<1>. QED
  BY <1>3, <1>7, <1>13, <1>14, <1>15, <1>20, <1>21, <1>22, <1>23, <1>24, <1>25, <1>26,
     <1>27, <1>28 DEF OwnershipInv

-----------------------------------------------------------------------------
(* What Ownership sees of a step.                                          *)
Simulated == Owned!Next \/ UNCHANGED Owned!vars

LEMMA SameIsSimulated ==
  ASSUME Same
  PROVE  Simulated
<1>1. [c \in Class |-> Holders(c)]' = [c \in Class |-> Holders(c)]
  BY DEF Same
<1>2. [c \in Class |-> Last(c)]' = [c \in Class |-> Last(c)]
  BY DEF Same
<1>3. {c \in Class : Free(c)}' = {c \in Class : Free(c)}
  BY DEF Same
<1>. QED
  BY <1>1, <1>2, <1>3 DEF Simulated, Owned!vars, Last

(* AllocateLSClass is Create: the class, and all its owners.               *)
LEMMA CreateIsSimulated ==
  ASSUME NEW d \in Class, NEW R \in SUBSET Threads,
         Free(d), ~Free(d)', Holders(d)' = R,
         \A c \in Class : Last(c)' = Last(c),
         \A c \in Class : c # d => Holders(c)' = Holders(c) /\ (Free(c)' <=> Free(c))
  PROVE  Simulated
<1>1. [c \in Class |-> Holders(c)]' = [[c \in Class |-> Holders(c)] EXCEPT ![d] = R]
  OBVIOUS
<1>2. [c \in Class |-> Last(c)]' = [c \in Class |-> Last(c)]
  OBVIOUS
<1>3. /\ d \in {c \in Class : Free(c)}
      /\ {c \in Class : Free(c)}' = {c \in Class : Free(c)} \ {d}
  OBVIOUS
<1>4. Owned!Create(d, R)
  BY <1>1, <1>2, <1>3 DEF Owned!Create, Last
<1>. QED
  BY <1>4 DEF Simulated, Owned!Next

(* Unreference is Release: one owner fewer, the last one to deallocate.    *)
LEMMA ReleaseIsSimulated ==
  ASSUME NEW d \in Class, NEW t \in Threads,
         t \in Holders(d), Holders(d)' = Holders(d) \ {t},
         Last(d)' = IF Holders(d) = {t} THEN {t} ELSE {},
         \A c \in Class : Free(c)' <=> Free(c),
         \A c \in Class : c # d => Last(c)' = Last(c) /\ Holders(c)' = Holders(c)
  PROVE  Simulated
<1>1. /\ t \in [c \in Class |-> Holders(c)][d]
      /\ [c \in Class |-> Holders(c)]' = [[c \in Class |-> Holders(c)] EXCEPT ![d] = @ \ {t}]
  OBVIOUS
<1>2. [c \in Class |-> Last(c)]' =
        [[c \in Class |-> Last(c)] EXCEPT
           ![d] = IF [c \in Class |-> Holders(c)][d] = {t} THEN {t} ELSE {}]
  OBVIOUS
<1>3. {c \in Class : Free(c)}' = {c \in Class : Free(c)}
  OBVIOUS
<1>4. Owned!Release(d, t)
  BY <1>1, <1>2, <1>3 DEF Owned!Release, Last
<1>. QED
  BY <1>4 DEF Simulated, Owned!Next

(* DeallocateLSClass is Reclaim, by the last owner.                        *)
LEMMA ReclaimIsSimulated ==
  ASSUME NEW d \in Class, NEW t \in Threads,
         Last(d) = {t}, Last(d)' = {}, Free(d)',
         \A c \in Class : Holders(c)' = Holders(c),
         \A c \in Class : c # d => Last(c)' = Last(c) /\ (Free(c)' <=> Free(c))
  PROVE  Simulated
<1>1. [c \in Class |-> Holders(c)]' = [c \in Class |-> Holders(c)]
  OBVIOUS
<1>2. /\ [c \in Class |-> Last(c)][d] = {t}
      /\ [c \in Class |-> Last(c)]' = [[c \in Class |-> Last(c)] EXCEPT ![d] = {}]
  OBVIOUS
<1>3. {c \in Class : Free(c)}' = {c \in Class : Free(c)} \cup {d}
  OBVIOUS
<1>4. Owned!Reclaim(d, t)
  BY <1>1, <1>2, <1>3 DEF Owned!Reclaim, Last
<1>. QED
  BY <1>4 DEF Simulated, Owned!Next

(* A step of a thread preserves the inductive invariant, and is a step, or *)
(* a stuttering step, of Ownership.                                        *)
LEMMA StepPreserves ==
  ASSUME IInv, NEW t \in Threads, Step(t)
  PROVE  IInv' /\ Simulated
<1>1. TypeOK' /\ ControlInv' /\ LockInv'
  BY TypeStep, ControlStep, LockStep DEF IInv
<1>. USE DEF IInv
<1>2. CASE KeepLSClass(t)
  BY <1>1, <1>2, KeepPreserves, SameIsSimulated
<1>3. CASE \E r \in Threads : ShareInsert(t, r)
  BY <1>1, <1>3, InsertPreserves, SameIsSimulated
<1>4. CASE SpliceAppend(t)
  BY <1>1, <1>4, AppendPreserves, SameIsSimulated
<1>5. CASE SpliceReset(t)
  BY <1>1, <1>5, ResetPreserves, SameIsSimulated
<1>6. CASE AllocateLSClass(t)
  BY <1>1, <1>6, AllocatePreserves, CreateIsSimulated
<1>7. CASE Unreference(t)
  BY <1>1, <1>7, UnreferencePreserves, ReleaseIsSimulated
<1>8. CASE DeallocateLSClass(t)
  BY <1>1, <1>8, DeallocatePreserves, ReclaimIsSimulated
<1>9. pc \in [Threads -> Locations] /\ index \in [Threads -> SharedSlots]
      /\ time \in [Threads -> Nat]
  BY DEF TypeOK
<1>. DEFINE Frame ==
       /\ UNCHANGED <<heap_class, shared_heap_classes, current, receivers,
                      class_cache, class_buffer_counter, reference_counter>>
       /\ \A u \in Threads : pc'[u] = "deallocate" <=> pc[u] = "deallocate"
       /\ \A u \in Threads : pc'[u] = "reset" <=> pc[u] = "reset"
       /\ \A u \in Threads :
            pc[u] = "reset" => index'[u] = index[u] /\ time'[u] = time[u]
<1>10. Frame => IInv' /\ Simulated
  BY <1>1, FramePreserves, SameIsSimulated
<1>11. CASE BarrierBlock(t)
  <2>. Frame
    BY <1>9, <1>11 DEF BarrierBlock, clockVars, classVars, poolVars
  <2>. QED
    BY <1>10
<1>12. CASE BarrierRelease(t)
  <2>. Frame
    BY <1>9, <1>12 DEF BarrierRelease, LoopHead, clockVars, classVars, poolVars
  <2>. QED
    BY <1>10
<1>13. CASE \E r \in Threads : ShareLock(t, r)
  <2>. Frame
    BY <1>9, <1>13 DEF ShareLock, clockVars, classVars, poolVars
  <2>. QED
    BY <1>10
<1>14. CASE FetchLock(t)
  <2>. Frame
    BY <1>9, <1>14 DEF FetchLock, clockVars, classVars, poolVars
  <2>. QED
    BY <1>10
<1>15. CASE SpliceSkip(t)
  <2>. Frame
    BY <1>9, <1>15 DEF SpliceSkip, NextLifetime, clockVars, classVars, poolVars
  <2>. QED
    BY <1>10
<1>16. CASE AccessLiveLClasses(t)
  <2>. Frame
    BY <1>9, <1>16 DEF AccessLiveLClasses, clockVars, classVars, poolVars
  <2>. QED
    BY <1>10
<1>17. CASE EndTimeUnit(t)
  <2>. Frame
    BY <1>9, <1>17 DEF EndTimeUnit, LoopHead, clockVars, classVars, poolVars
  <2>. QED
    BY <1>10
<1>18. CASE ClassBufferOverflow(t) \/ NodeBufferOverflow(t)
  <2>. Frame
    BY <1>18 DEF ClassBufferOverflow, NodeBufferOverflow, clockVars, classVars, poolVars
  <2>. QED
    BY <1>10
<1>. QED
  BY <1>2, <1>3, <1>4, <1>5, <1>6, <1>7, <1>8, <1>11, <1>12, <1>13, <1>14, <1>15,
     <1>16, <1>17, <1>18 DEF Step

(* The initial state satisfies the inductive invariant: nothing is held.   *)
LEMMA InitEstablishes == Init => IInv
<1>. SUFFICES ASSUME Init PROVE IInv
  OBVIOUS
<1>1. TypeOK
  BY TypeInit
<1>2. ControlInv
  BY DEF Init, ControlInv
<1>3. LockInv
  BY ThreadsAssumption DEF Init, LockInv, ThreadsAssumption
<1>4. PlaceInv
  BY DEF Init, PlaceInv
<1>5. SpliceLosesNothing
  BY DEF Init, SpliceLosesNothing
<1>6. \A c \in Class : Holders(c) = {}
  BY DEF Init, Holders, Heap, Pool, Pending
<1>7. \A c \in Class : Free(c)
  BY BufferAssumption DEF Init, Free, Class, BufferAssumption
<1>8. CacheInv /\ CurrentInv /\ ReferencesCounted
  BY <1>7 DEF Init, CacheInv, CurrentInv, ReferencesCounted
<1>9. NoUseAfterFree
  BY <1>6, ClassAssumption DEF Init, NoUseAfterFree, ClassAssumption
<1>10. NothingLeaked
  BY <1>7 DEF NothingLeaked
<1>. QED
  BY <1>1, <1>2, <1>3, <1>4, <1>5, <1>8, <1>9, <1>10 DEF IInv, OwnershipInv

(* Nothing happens to the classes when nothing happens at all.             *)
LEMMA StutterPreserves ==
  ASSUME IInv, UNCHANGED vars
  PROVE  IInv' /\ Simulated
<1>. USE DEF vars, clockVars, classVars, poolVars, nodeVars
<1>1. TypeOK' /\ ControlInv' /\ LockInv'
  BY DEF IInv, TypeOK, ControlInv, LockInv
<1>. QED
  BY <1>1, FramePreserves, SameIsSimulated DEF IInv

LEMMA NextPreserves == IInv /\ [Next]_vars => IInv' /\ Simulated
<1>. SUFFICES ASSUME IInv, [Next]_vars PROVE IInv' /\ Simulated
  OBVIOUS
<1>1. CASE UNCHANGED vars
  BY <1>1, StutterPreserves
<1>2. ASSUME NEW t \in Threads, Step(t) PROVE IInv' /\ Simulated
  BY <1>2, StepPreserves
<1>. QED
  BY <1>1, <1>2 DEF Next, Terminating

(* The invariant that all the theorems follow from.                        *)
LEMMA Inductive == Spec => []IInv
  BY InitEstablishes, NextPreserves, PTL DEF Spec

-----------------------------------------------------------------------------
(* Every variable keeps its type: the indices that the slot arithmetic     *)
(* yields stay within the arrays, and the buffers are never overrun.       *)
THEOREM TypeCorrect == Spec => []TypeOK
<1>1. IInv => TypeOK
  BY DEF IInv
<1>. QED
  BY <1>1, Inductive, PTL

(* At any time, for any number of threads and any interleaving, the        *)
(* counter of a class in use is the number of threads that hold it.        *)
THEOREM CountersCorrect == Spec => []ReferencesCounted
<1>1. IInv => ReferencesCounted
  BY DEF IInv, OwnershipInv
<1>. QED
  BY <1>1, Inductive, PTL

(* No list, pool or local variable leads to a recycled class.              *)
THEOREM NothingDangles == Spec => []NoUseAfterFree
<1>1. IInv => NoUseAfterFree
  BY DEF IInv, OwnershipInv
<1>. QED
  BY <1>1, Inductive, PTL

(* A class is deallocated by one thread, with a zero counter, and recycled *)
(* into one cache.                                                         *)
THEOREM DeallocationIsUnique == Spec => []DeallocatedOnce
<1>1. IInv => DeallocatedOnce
  <2>. SUFFICES ASSUME IInv PROVE DeallocatedOnce
    OBVIOUS
  <2>1. ASSUME NEW t \in Threads, pc[t] = "deallocate"
        PROVE  /\ reference_counter[current[t]] = 0
               /\ \A u \in Threads \ {t} : current[u] # current[t]
               /\ \A u \in Threads : current[t] \notin class_cache[u]
    <3>1. PICK c \in Class : c = current[t]
      BY <2>1 DEF IInv, TypeOK, ControlInv
    <3>2. ~Free(c) /\ Holders(c) = {}
      BY <2>1, <3>1 DEF IInv, OwnershipInv, NoUseAfterFree, CurrentInv
    <3>3. reference_counter[c] = 0
      BY <3>2, FS_EmptySet DEF IInv, OwnershipInv, ReferencesCounted
    <3>4. \A u \in Threads \ {t} : current[u] # c
      BY <3>1, ClassAssumption DEF IInv, OwnershipInv, CurrentInv, ClassAssumption
    <3>. QED
      BY <3>1, <3>2, <3>3, <3>4 DEF Free
  <2>2. ASSUME NEW t \in Threads, NEW u \in Threads, t # u
        PROVE  class_cache[t] \cap class_cache[u] = {}
    BY <2>2 DEF IInv, TypeOK, OwnershipInv, CacheInv
  <2>. QED
    BY <2>1, <2>2 DEF DeallocatedOnce
<1>. QED
  BY <1>1, Inductive, PTL

(* Every class is somebody's until it is recycled: whoever gives it up     *)
(* last deallocates it.  Only with a ratio that selects nobody are classes *)
(* forgotten, and only those without a reference.                          *)
THEOREM NothingIsLeaked == Spec => []NothingLeaked
<1>1. IInv => NothingLeaked
  BY DEF IInv, OwnershipInv
<1>. QED
  BY <1>1, Inductive, PTL

(* The lists, pools, mutexes and counters together do what Ownership says: *)
(* a class is given once to a set of threads, each gives it up once, and   *)
(* the last of them, and nobody else, returns it to a free pool.           *)
THEOREM MutatorImplementsOwnership == Spec => ImplementsOwnership
<1>1. Init => Owned!Init
  <2>. SUFFICES ASSUME Init PROVE Owned!Init
    OBVIOUS
  <2>1. \A c \in Class : Holders(c) = {}
    BY DEF Init, Holders, Heap, Pool, Pending
  <2>2. \A c \in Class : Last(c) = {}
    BY DEF Init, Last
  <2>3. \A c \in Class : Free(c)
    BY BufferAssumption DEF Init, Free, Class, BufferAssumption
  <2>4. [c \in Class |-> Last(c)] = [c \in Class |-> {}]
    BY <2>2
  <2>. QED
    BY <2>1, <2>3, <2>4 DEF Owned!Init, Last
<1>2. IInv /\ [Next]_vars => [Owned!Next]_(Owned!vars)
  BY NextPreserves DEF Simulated
<1>. QED
  BY <1>1, <1>2, Inductive, PTL DEF Spec, ImplementsOwnership, Owned!Spec

(* What get_shared_LClasses removes from the pool has been appended.       *)
THEOREM SpliceCorrect == Spec => []SpliceLosesNothing
<1>1. IInv => SpliceLosesNothing
  BY DEF IInv
<1>. QED
  BY <1>1, Inductive, PTL


-----------------------------------------------------------------------------
(***************************************************************************)
(* The clocks: how far they drift apart, and what is due when.             *)
(***************************************************************************)
(* Between two barriers every clock is in the same interval of MaxTimeGap  *)
(* units; a thread is at the barrier only at the end of it.                *)
Epoch(k) ==
  LET start == MaxTimeGap * k
      end == MaxTimeGap * k + MaxTimeGap
  IN  \A t \in Threads :
        /\ start <= time[t] /\ time[t] <= end
        /\ pc[t] \in {"barrier", "waiting"} => time[t] = end
        /\ pc[t] \in {"expire", "deallocate"} => start < time[t]
        /\ pc[t] \notin {"barrier", "waiting", "expire", "deallocate"} => time[t] < end

ClockInv == \E k \in Int : Epoch(k)

-----------------------------------------------------------------------------
(* An interval of that length contains no multiple but its ends.           *)
LEMMA AtEndOfEpoch ==
  ASSUME NEW g \in Nat \ {0}, NEW k \in Int, NEW x \in Int, g * k < x, x <= g * k + g
  PROVE  x % g = 0 <=> x = g * k + g
<1>1. g * k + g = g * (k + 1)
  OBVIOUS
<1>2. (g * (k + 1)) % g = 0
  OBVIOUS
<1>3. ASSUME x % g = 0 PROVE x = g * k + g
  <2> DEFINE q == x \div g
  <2>1. q \in Int /\ x = g * q
    BY <1>3
  <2>2. q > k
    <3>1. ASSUME q <= k PROVE FALSE
      <4>1. g * q <= g * k
        BY <2>1, <3>1
      <4> QED
        BY <2>1, <4>1
    <3> QED
      BY <2>1, <3>1
  <2>3. g * q >= g * (k + 1)
    BY <2>1, <2>2
  <2> QED
    BY <1>1, <2>1, <2>3
<1> QED
  BY <1>1, <1>2, <1>3

LEMMA ClockInit == Init => ClockInv
<1> SUFFICES ASSUME Init PROVE ClockInv
  OBVIOUS
<1>1. MaxTimeGap \in Nat \ {0}
  BY ClockAssumption DEF ClockAssumption
<1>2. MaxTimeGap * (-1) + MaxTimeGap = 0 /\ MaxTimeGap * (-1) <= 0
  BY <1>1
<1>3. Epoch(-1)
  BY <1>1, <1>2 DEF Init, Epoch
<1> QED
  BY <1>3 DEF ClockInv

(* Where a thread is may change as long as the epoch asks no more of it.   *)
Waiting == {"barrier", "waiting"}
Expiring == {"expire", "deallocate"}

LEMMA EpochFrame ==
  ASSUME NEW k \in Int, Epoch(k), UNCHANGED time,
         \A u \in Threads :
           /\ pc'[u] \in Waiting <=> pc[u] \in Waiting
           /\ pc'[u] \in Expiring <=> pc[u] \in Expiring
  PROVE  Epoch(k)'
BY DEF Epoch, Waiting, Expiring

LEMMA ClockStep ==
  ASSUME TypeOK, NEW k \in Int, Epoch(k), NEW t \in Threads, Step(t)
  PROVE  ClockInv'
<1> DEFINE Frame ==
      /\ UNCHANGED time
      /\ \A u \in Threads :
           /\ pc'[u] \in Waiting <=> pc[u] \in Waiting
           /\ pc'[u] \in Expiring <=> pc[u] \in Expiring
<1>1. Frame => ClockInv'
  BY EpochFrame DEF ClockInv
<1>2. /\ pc \in [Threads -> Locations] /\ time \in [Threads -> Nat]
      /\ MaxTimeGap \in Nat \ {0}
  BY ClockAssumption DEF ClockAssumption, TypeOK
<1>3. CASE BarrierBlock(t)
  <2> Frame
    BY <1>2, <1>3 DEF BarrierBlock, clockVars, Waiting, Expiring
  <2> QED
    BY <1>1
<1>4. CASE BarrierRelease(t)
  <2>1. \A u \in Threads : pc[u] \in {"barrier", "waiting"}
    BY <1>4 DEF BarrierRelease
  <2>2. \A u \in Threads : time'[u] = MaxTimeGap * k + MaxTimeGap
    BY <1>4, <2>1 DEF BarrierRelease, Epoch, clockVars
  <2>3. \A u \in Threads : pc'[u] \in {"alloc", "done"}
    BY <1>4 DEF BarrierRelease, LoopHead
  <2>4. MaxTimeGap * k + MaxTimeGap = MaxTimeGap * (k + 1) /\ k + 1 \in Int
    BY <1>2
  <2>5. MaxTimeGap * (k + 1) \in Int
    BY <1>2
  <2>6. Epoch(k + 1)'
    BY <1>2, <2>2, <2>3, <2>4, <2>5 DEF Epoch
  <2> QED
    BY <2>4, <2>6 DEF ClockInv
<1>5. CASE AllocateLSClass(t)
  <2>1. UNCHANGED time /\ pc[t] = "alloc"
    BY <1>5 DEF AllocateLSClass
  <2>2. \E l \in {"keep", "fetch", "share"} : pc' = [pc EXCEPT ![t] = l]
    BY <1>5 DEF AllocateLSClass
  <2> Frame
    BY <1>2, <2>1, <2>2 DEF Waiting, Expiring
  <2> QED
    BY <1>1
<1>6. CASE KeepLSClass(t)
  <2> Frame
    BY <1>2, <1>6 DEF KeepLSClass, clockVars, Waiting, Expiring
  <2> QED
    BY <1>1
<1>7. CASE \E r \in Threads : ShareLock(t, r) \/ ShareInsert(t, r)
  <2> Frame
    BY <1>2, <1>7 DEF ShareLock, ShareInsert, clockVars, Waiting, Expiring
  <2> QED
    BY <1>1
<1>8. CASE FetchLock(t) \/ SpliceSkip(t) \/ SpliceAppend(t) \/ SpliceReset(t)
  <2> Frame
    BY <1>2, <1>8 DEF FetchLock, SpliceSkip, SpliceAppend, SpliceReset, NextLifetime,
                      clockVars, Waiting, Expiring
  <2> QED
    BY <1>1
<1>9. CASE AccessLiveLClasses(t)
  <2>1. CASE time_counter[t] >= TimeQuantum
    <3>1. /\ pc[t] = "access" /\ pc' = [pc EXCEPT ![t] = "expire"]
          /\ time' = [time EXCEPT ![t] = @ + 1]
      BY <1>9, <2>1 DEF AccessLiveLClasses
    <3> DEFINE start == MaxTimeGap * k
    <3>2. start \in Int
      BY <1>2
    <3> HIDE DEF start
    <3>3. Epoch(k)'
      BY <1>2, <3>1, <3>2 DEF Epoch, start
    <3> QED
      BY <3>3 DEF ClockInv
  <2>2. CASE ~(time_counter[t] >= TimeQuantum)
    <3> Frame
      BY <1>2, <1>9, <2>2 DEF AccessLiveLClasses, clockVars, Waiting, Expiring
    <3> QED
      BY <1>1
  <2> QED
    BY <2>1, <2>2
<1>10. CASE Unreference(t) \/ DeallocateLSClass(t)
  <2> Frame
    BY <1>2, <1>10 DEF Unreference, DeallocateLSClass, clockVars, Waiting, Expiring
  <2> QED
    BY <1>1
<1>11. CASE EndTimeUnit(t)
  <2>1. UNCHANGED time /\ pc[t] = "expire"
    BY <1>11 DEF EndTimeUnit, clockVars
  <2>2. pc' = [pc EXCEPT ![t] = IF AtTimeGap(t) THEN "barrier" ELSE LoopHead(t)]
    BY <1>11 DEF EndTimeUnit
  <2>3. MaxTimeGap * k < time[t] /\ time[t] <= MaxTimeGap * k + MaxTimeGap
    BY <2>1 DEF Epoch
  <2>4. AtTimeGap(t) <=> time[t] = MaxTimeGap * k + MaxTimeGap
    <3> DEFINE x == time[t]
    <3>1. x \in Int
      BY <1>2
    <3>2. MaxTimeGap * k < x /\ x <= MaxTimeGap * k + MaxTimeGap
      BY <2>3
    <3> HIDE DEF x
    <3>3. x % MaxTimeGap = 0 <=> x = MaxTimeGap * k + MaxTimeGap
      BY <1>2, <3>1, <3>2, AtEndOfEpoch
    <3> QED
      BY <3>3 DEF AtTimeGap, x
  <2> DEFINE start == MaxTimeGap * k
  <2>5. start \in Int
    BY <1>2
  <2> HIDE DEF start
  <2>6. pc'[t] \in {"barrier", "alloc", "done"}
    BY <1>2, <2>2 DEF LoopHead
  <2>7. pc'[t] = "barrier" <=> AtTimeGap(t)
    BY <1>2, <2>2 DEF LoopHead
  <2>8. /\ start < time[t] /\ time[t] <= start + MaxTimeGap
        /\ AtTimeGap(t) <=> time[t] = start + MaxTimeGap
    BY <2>3, <2>4 DEF start
  <2>9. \A u \in Threads : u # t => pc'[u] = pc[u]
    BY <1>2, <2>2
  <2>10. time[t] < start + MaxTimeGap \/ pc'[t] = "barrier"
    BY <1>2, <2>5, <2>7, <2>8
  <2>11. Epoch(k)'
    BY <1>2, <2>1, <2>5, <2>6, <2>7, <2>8, <2>9, <2>10 DEF Epoch, start
  <2> QED
    BY <2>11 DEF ClockInv
<1>12. CASE ClassBufferOverflow(t) \/ NodeBufferOverflow(t)
  <2> Frame
    BY <1>12 DEF ClassBufferOverflow, NodeBufferOverflow, clockVars
  <2> QED
    BY <1>1
<1> QED
  BY <1>3, <1>4, <1>5, <1>6, <1>7, <1>8, <1>9, <1>10, <1>11, <1>12 DEF Step

LEMMA ClockNext == IInv /\ ClockInv /\ [Next]_vars => ClockInv'
<1> SUFFICES ASSUME IInv, ClockInv, [Next]_vars PROVE ClockInv'
  OBVIOUS
<1>1. PICK k \in Int : Epoch(k)
  BY DEF ClockInv
<1>2. CASE UNCHANGED vars
  BY <1>1, <1>2, EpochFrame DEF ClockInv, vars, clockVars
<1>3. ASSUME NEW t \in Threads, Step(t) PROVE ClockInv'
  BY <1>1, <1>3, ClockStep DEF IInv
<1> QED
  BY <1>2, <1>3 DEF Next, Terminating

-----------------------------------------------------------------------------
(* "max. time drift": no thread's clock is ever further ahead of another's *)
(* than the option says, although a thread meets the barrier only at       *)
(* multiples of it and threads that are done meet it no more.              *)
THEOREM DriftIsBounded == Spec => []ClockDriftBounded
<1>1. IInv /\ ClockInv => ClockDriftBounded
  <2> SUFFICES ASSUME IInv, NEW k \in Int, Epoch(k), NEW t \in Threads, NEW u \in Threads
               PROVE  time[t] - time[u] <= MaxTimeGap
    BY DEF ClockInv, ClockDriftBounded
  <2>1. MaxTimeGap \in Nat \ {0} /\ MaxTimeGap * k \in Int
    BY ClockAssumption DEF ClockAssumption
  <2>2. time[t] \in Nat /\ time[u] \in Nat
    BY DEF IInv, TypeOK
  <2> DEFINE start == MaxTimeGap * k
  <2> HIDE DEF start
  <2>3. start \in Int /\ time[t] <= start + MaxTimeGap /\ start <= time[u]
    BY <2>1 DEF Epoch, start
  <2> QED
    BY <2>1, <2>2, <2>3
<1> QED
  BY <1>1, ClockInit, ClockNext, Inductive, PTL DEF Spec

-----------------------------------------------------------------------------
(* Division with remainder is unique.                                      *)
LEMMA Remainders ==
  ASSUME NEW h \in Nat \ {0}, NEW k \in Int, NEW r \in 0 .. h - 1
  PROVE  (h * k + r) % h = r
OBVIOUS

(* Numbers less than h apart have the same remainder only if they are one. *)
LEMMA SameSlot ==
  ASSUME NEW h \in Nat \ {0}, NEW x \in Int, NEW y \in Int, x - y < h, y - x < h
  PROVE  x % h = y % h <=> x = y
<1> SUFFICES ASSUME x % h = y % h PROVE x = y
  OBVIOUS
<1> DEFINE p == x \div h
           q == y \div h
<1>1. p \in Int /\ q \in Int /\ x = h * p + (x % h) /\ y = h * q + (y % h)
  OBVIOUS
<1>2. x - y = h * p - h * q
  BY <1>1
<1>3. h * p - h * q = h * (p - q) /\ h * q - h * p = h * (q - p)
  BY <1>1
<1>4. ASSUME p > q PROVE FALSE
  <2>1. h * (p - q) >= h
    BY <1>1, <1>4
  <2> QED
    BY <1>2, <1>3, <2>1
<1>5. ASSUME q > p PROVE FALSE
  <2>1. h * (q - p) >= h
    BY <1>1, <1>5
  <2> QED
    BY <1>2, <1>3, <2>1
<1>6. p = q
  BY <1>1, <1>4, <1>5
<1> QED
  BY <1>1, <1>6

(* What heap_class_remove computes is the slot of the classes that were    *)
(* due a delay ago.                                                        *)
LEMMA DeleteSlotIsDelayed ==
  ASSUME TypeOK, NEW t \in Threads
  PROVE  DeleteSlot(t) = (time[t] - DeallocationDelay) % HeapSlots
<1>1. /\ HeapSlots \in Nat \ {0} /\ DeallocationDelay \in Nat
      /\ DeallocationDelay < HeapSlots /\ time[t] \in Nat
  <2>1. time \in [Threads -> Nat]
    BY DEF TypeOK
  <2> QED
    BY <2>1, LivenessAssumption DEF LivenessAssumption, HeapSlots
<1> DEFINE x == time[t]
           h == HeapSlots
           d == DeallocationDelay
           k == x \div h
           r == x % h
<1>2. k \in Int /\ r \in 0 .. h - 1 /\ x = h * k + r
  BY <1>1
<1>3. /\ h \in Nat \ {0} /\ d \in Nat /\ d < h /\ x \in Nat
      /\ DeleteSlot(t) = IF r - d < 0 THEN (r - d) + h ELSE r - d
  BY <1>1 DEF DeleteSlot
<1> HIDE DEF x, h, d, k, r
<1>4. CASE r - d < 0
  <2>1. x - d = h * (k - 1) + ((r - d) + h)
    BY <1>2, <1>3
  <2>2. (r - d) + h \in 0 .. h - 1 /\ k - 1 \in Int
    BY <1>2, <1>3, <1>4
  <2>3. (x - d) % h = (r - d) + h
    BY <1>3, <2>1, <2>2, Remainders
  <2> QED
    BY <1>3, <1>4, <2>3 DEF x, d, h
<1>5. CASE ~(r - d < 0)
  <2>1. x - d = h * k + (r - d)
    BY <1>2, <1>3
  <2>2. r - d \in 0 .. h - 1
    BY <1>2, <1>3, <1>5
  <2>3. (x - d) % h = r - d
    BY <1>2, <1>3, <2>1, <2>2, Remainders
  <2> QED
    BY <1>3, <1>5, <2>3 DEF x, d, h
<1> QED
  BY <1>4, <1>5

-----------------------------------------------------------------------------
(* The slots without sharing: a class lies in the slot of the time it is   *)
(* due, with no more units left than there are slots.                      *)
Unshared == \A t \in Threads : pc[t] \notin {"share", "insert", "fetch", "append", "reset"}

KeptInv ==
  \A t \in Threads : pc[t] = "keep" =>
    /\ LivenessOf(current[t]) \in 1 .. MaxLiveness
    /\ due[current[t]] = time[t] + LivenessOf(current[t])

UnitsLeft(t, c) == due[c] + DeallocationDelay - time[t]

SlotInv(t) ==
  \A s \in Slots, c \in Class : c \in heap_class[t][s] =>
    /\ due[c] % HeapSlots = s
    /\ pc[t] \in Expiring => UnitsLeft(t, c) \in 0 .. HeapSlots - 1
    /\ pc[t] \notin Expiring => UnitsLeft(t, c) \in 1 .. HeapSlots

DueInv == Unshared /\ KeptInv /\ \A t \in Threads : SlotInv(t)

LEMMA DueInit == Init => DueInv
BY DEF Init, DueInv, Unshared, KeptInv, SlotInv

(* A class in a list is held, so nobody else's allocation or deallocation  *)
(* touches it.                                                             *)
LEMMA ListedIsHeld ==
  ASSUME NEW t \in Threads, NEW s \in Slots, NEW c \in Class, c \in heap_class[t][s]
  PROVE  t \in Holders(c)
BY DEF Holders, Heap

(* A step that leaves the lists, the clocks and the due times alone.       *)
LEMMA DueFrame ==
  ASSUME DueInv, UNCHANGED <<time, heap_class, due, lifetime, current>>,
         \A u \in Threads :
           /\ pc'[u] = pc[u] \/ pc'[u] \in {"barrier", "waiting", "alloc", "done"}
           /\ pc'[u] \in Expiring <=> pc[u] \in Expiring
  PROVE  DueInv'
<1>1. Unshared'
  BY DEF DueInv, Unshared
<1>2. KeptInv'
  BY DEF DueInv, KeptInv, LivenessOf
<1>3. \A t \in Threads : SlotInv(t)'
  BY DEF DueInv, SlotInv, UnitsLeft
<1> QED
  BY <1>1, <1>2, <1>3 DEF DueInv

(* A thread whose clock, lists and classes stay as they are.               *)
LEMMA SlotFrame ==
  ASSUME NEW u \in Threads, SlotInv(u), time'[u] = time[u],
         pc'[u] \in Expiring <=> pc[u] \in Expiring,
         \A s \in Slots, c \in Class :
           c \in heap_class'[u][s] => c \in heap_class[u][s] /\ due'[c] = due[c]
  PROVE  SlotInv(u)'
BY DEF SlotInv, UnitsLeft

(* A new class gets its due time while it is in nobody's list.             *)
LEMMA AllocateDue ==
  ASSUME ~SharedObjects, IInv, DueInv, NEW t \in Threads, AllocateLSClass(t)
  PROVE  DueInv'
<1>1. PICK d \in Class, liveness \in MinLiveness .. MaxLiveness, bytes \in ClassBytes :
        AllocateLSClass(t)!2!(d, liveness, bytes)
  BY DEF AllocateLSClass
<1>2. /\ pc[t] = "alloc" /\ pc' = [pc EXCEPT ![t] = "keep"]
      /\ current' = [current EXCEPT ![t] = d]
      /\ lifetime' = [lifetime EXCEPT ![d] = liveness + DeallocationDelay]
      /\ due' = [due EXCEPT ![d] = time[t] + liveness]
      /\ UNCHANGED <<time, heap_class>>
  BY <1>1 DEF AllocateLSClass
<1>3. Free(d)
  BY <1>1, GetLSClassFree DEF IInv, OwnershipInv
<1>4. Holders(d) = {} /\ \A u \in Threads : current[u] # d
  BY <1>3 DEF IInv, OwnershipInv, NoUseAfterFree
<1>5. /\ pc \in [Threads -> Locations] /\ time \in [Threads -> Nat]
      /\ lifetime \in [Class -> Nat] /\ due \in [Class -> Nat]
      /\ current \in [Threads -> Class \cup {NoClass}]
  BY DEF IInv, TypeOK
<1>6. /\ MinLiveness \in Nat \ {0} /\ MaxLiveness \in Nat /\ DeallocationDelay \in Nat
      /\ liveness \in 1 .. MaxLiveness
  BY LivenessAssumption DEF LivenessAssumption
<1>7. Unshared'
  BY <1>2, <1>5 DEF DueInv, Unshared
<1>8. KeptInv'
  <2> SUFFICES ASSUME NEW u \in Threads, pc'[u] = "keep"
               PROVE  /\ LivenessOf(current[u])' \in 1 .. MaxLiveness
                      /\ due'[current'[u]] = time'[u] + LivenessOf(current[u])'
    BY DEF KeptInv
  <2>1. CASE u = t
    <3>1. current'[u] = d /\ lifetime'[d] = liveness + DeallocationDelay
      BY <1>2, <1>5, <2>1
    <3>2. LivenessOf(current[u])' = liveness
      BY <1>6, <3>1 DEF LivenessOf
    <3>3. due'[d] = time[u] + liveness
      BY <1>2, <1>5, <2>1
    <3> QED
      BY <1>2, <1>6, <3>1, <3>2, <3>3
  <2>2. CASE u # t
    <3>1. pc[u] = "keep" /\ current'[u] = current[u] /\ current[u] # d
      BY <1>2, <1>4, <1>5, <2>2
    <3>2. current[u] \in Class
      BY <1>5, <3>1 DEF IInv, ControlInv
    <3>3. due'[current[u]] = due[current[u]] /\ lifetime'[current[u]] = lifetime[current[u]]
      BY <1>2, <1>5, <3>1, <3>2
    <3> QED
      BY <1>2, <3>1, <3>3 DEF DueInv, KeptInv, LivenessOf
  <2> QED
    BY <2>1, <2>2
<1>9. ASSUME NEW u \in Threads PROVE SlotInv(u)'
  <2>1. \A s \in Slots, c \in Class : c \in heap_class[u][s] => c # d
    BY <1>4, ListedIsHeld
  <2>2. \A s \in Slots, c \in Class : c \in heap_class[u][s] => due'[c] = due[c]
    BY <1>2, <1>5, <2>1
  <2>3. pc'[u] \in Expiring <=> pc[u] \in Expiring
    BY <1>2, <1>5 DEF Expiring
  <2> QED
    BY <1>2, <2>2, <2>3, SlotFrame DEF DueInv
<1> QED
  BY <1>7, <1>8, <1>9 DEF DueInv

(* heap_class_insert puts the class into the slot of its due time.         *)
LEMMA KeepDue ==
  ASSUME IInv, DueInv, NEW t \in Threads, KeepLSClass(t)
  PROVE  DueInv'
<1> DEFINE d == current[t]
           slot == SlotAt(t, LivenessOf(current[t]))
<1>1. /\ pc[t] = "keep" /\ pc' = [pc EXCEPT ![t] = "access"]
      /\ heap_class' = [heap_class EXCEPT ![t][slot] = @ \cup {d}]
      /\ current' = [current EXCEPT ![t] = NoClass]
      /\ UNCHANGED <<time, due, lifetime>>
  BY DEF KeepLSClass, clockVars, classVars
<1>2. /\ pc \in [Threads -> Locations] /\ time \in [Threads -> Nat]
      /\ due \in [Class -> Nat] /\ current \in [Threads -> Class \cup {NoClass}]
      /\ heap_class \in [Threads -> [Slots -> SUBSET Class]]
  BY DEF IInv, TypeOK
<1>3. d \in Class
  BY <1>1, <1>2 DEF IInv, ControlInv
<1>4. LivenessOf(d) \in 1 .. MaxLiveness /\ due[d] = time[t] + LivenessOf(d)
  BY <1>1 DEF DueInv, KeptInv
<1>5. slot = due[d] % HeapSlots
  BY <1>4 DEF SlotAt
<1>6. UnitsLeft(t, d) \in 1 .. HeapSlots
  BY <1>2, <1>4, LivenessAssumption DEF LivenessAssumption, UnitsLeft, HeapSlots
<1>7. slot \in Slots
  <2>1. LivenessOf(current[t]) \in Int
    BY <1>4
  <2> QED
    BY <2>1, SlotsInRange DEF IInv
<1> HIDE DEF d, slot
<1>8. Unshared'
  BY <1>1, <1>2 DEF DueInv, Unshared
<1>9. KeptInv'
  BY <1>1, <1>2 DEF DueInv, KeptInv, LivenessOf
<1>10. ASSUME NEW u \in Threads PROVE SlotInv(u)'
  <2>1. \A s \in Slots, c \in Class :
          c \in heap_class'[u][s] <=> c \in heap_class[u][s] \/ (u = t /\ s = slot /\ c = d)
    BY <1>1, <1>2, <1>3, <1>7
  <2>2. pc'[u] \in Expiring <=> pc[u] \in Expiring
    BY <1>1, <1>2 DEF Expiring
  <2>3. pc'[t] \notin Expiring
    BY <1>1, <1>2 DEF Expiring
  <2>4. \A c \in Class : UnitsLeft(u, c)' = UnitsLeft(u, c)
    BY <1>1 DEF UnitsLeft
  <2>5. SlotInv(u)
    BY DEF DueInv
  <2> SUFFICES ASSUME NEW s \in Slots, NEW c \in Class, c \in heap_class'[u][s]
               PROVE  /\ due'[c] % HeapSlots = s
                      /\ pc'[u] \in Expiring => UnitsLeft(u, c)' \in 0 .. HeapSlots - 1
                      /\ pc'[u] \notin Expiring => UnitsLeft(u, c)' \in 1 .. HeapSlots
    BY DEF SlotInv
  <2>6. CASE c \in heap_class[u][s]
    BY <1>1, <2>2, <2>4, <2>5, <2>6 DEF SlotInv
  <2>7. CASE u = t /\ s = slot /\ c = d
    BY <1>1, <1>5, <1>6, <2>3, <2>4, <2>7
  <2> QED
    BY <2>1, <2>6, <2>7
<1> QED
  BY <1>8, <1>9, <1>10 DEF DueInv

(* The clock advances: every class has one unit less.                      *)
LEMMA AccessDue ==
  ASSUME IInv, DueInv, NEW t \in Threads, AccessLiveLClasses(t)
  PROVE  DueInv'
<1>1. /\ pc[t] = "access" /\ UNCHANGED <<heap_class, current, due, lifetime>>
  BY DEF AccessLiveLClasses, classVars
<1>2. /\ pc \in [Threads -> Locations] /\ time \in [Threads -> Nat]
      /\ due \in [Class -> Nat] /\ HeapSlots \in Nat /\ DeallocationDelay \in Nat
  <2>1. pc \in [Threads -> Locations] /\ time \in [Threads -> Nat] /\ due \in [Class -> Nat]
    BY DEF IInv, TypeOK
  <2>2. HeapSlots \in Nat /\ DeallocationDelay \in Nat
    BY LivenessAssumption DEF LivenessAssumption, HeapSlots
  <2> QED
    BY <2>1, <2>2
<1>3. CASE UNCHANGED time /\ pc' = [pc EXCEPT ![t] = "alloc"]
  <2>1. \A u \in Threads :
           /\ pc'[u] = pc[u] \/ pc'[u] \in {"barrier", "waiting", "alloc", "done"}
           /\ pc'[u] \in Expiring <=> pc[u] \in Expiring
    BY <1>1, <1>2, <1>3 DEF Expiring
  <2> QED
    BY <1>1, <1>3, <2>1, DueFrame
<1>4. CASE time' = [time EXCEPT ![t] = @ + 1] /\ pc' = [pc EXCEPT ![t] = "expire"]
  <2>1. Unshared'
    BY <1>2, <1>4 DEF DueInv, Unshared
  <2>2. KeptInv'
    <3> SUFFICES ASSUME NEW u \in Threads, pc'[u] = "keep"
                 PROVE  /\ LivenessOf(current[u])' \in 1 .. MaxLiveness
                        /\ due'[current'[u]] = time'[u] + LivenessOf(current[u])'
      BY DEF KeptInv
    <3>1. u # t /\ pc[u] = "keep" /\ time'[u] = time[u]
      BY <1>2, <1>4
    <3> QED
      BY <1>1, <3>1 DEF DueInv, KeptInv, LivenessOf
  <2>3. ASSUME NEW u \in Threads PROVE SlotInv(u)'
    <3>1. CASE u # t
      <4>1. time'[u] = time[u] /\ (pc'[u] \in Expiring <=> pc[u] \in Expiring)
        BY <1>2, <1>4, <3>1
      <4> QED
        BY <1>1, <4>1, SlotFrame DEF DueInv
    <3>2. CASE u = t
      <4>1. pc'[t] \in Expiring /\ pc[t] \notin Expiring /\ time'[t] = time[t] + 1
        BY <1>1, <1>2, <1>4 DEF Expiring
      <4>2. \A c \in Class : UnitsLeft(t, c)' = UnitsLeft(t, c) - 1 /\ UnitsLeft(t, c) \in Int
        BY <1>1, <1>2, <4>1 DEF UnitsLeft
      <4>3. \A s \in Slots, c \in Class : c \in heap_class[t][s] =>
              due[c] % HeapSlots = s /\ UnitsLeft(t, c) \in 1 .. HeapSlots
        BY <4>1 DEF DueInv, SlotInv
      <4> QED
        BY <1>1, <1>2, <3>2, <4>1, <4>2, <4>3 DEF SlotInv
    <3> QED
      BY <3>1, <3>2
  <2> QED
    BY <2>1, <2>2, <2>3 DEF DueInv
<1> QED
  BY <1>3, <1>4 DEF AccessLiveLClasses, clockVars

(* A node leaves the expired list.                                         *)
LEMMA UnreferenceDue ==
  ASSUME IInv, DueInv, NEW t \in Threads, Unreference(t)
  PROVE  DueInv'
<1>1. PICK d \in heap_class[t][DeleteSlot(t)] : Unreference(t)!2!(d)
  BY DEF Unreference
<1>2. /\ pc[t] = "expire" /\ UNCHANGED <<time, due, lifetime>>
      /\ heap_class' = [heap_class EXCEPT ![t][DeleteSlot(t)] = @ \ {d}]
  BY <1>1 DEF Unreference, clockVars
<1>3. /\ pc \in [Threads -> Locations] /\ current \in [Threads -> Class \cup {NoClass}]
      /\ heap_class \in [Threads -> [Slots -> SUBSET Class]]
  BY DEF IInv, TypeOK
<1>4. /\ pc'[t] \in {"expire", "deallocate"}
      /\ \A u \in Threads : u # t => pc'[u] = pc[u] /\ current'[u] = current[u]
  BY <1>1, <1>2, <1>3
<1>5. Unshared'
  BY <1>4 DEF DueInv, Unshared
<1>6. KeptInv'
  BY <1>2, <1>4 DEF DueInv, KeptInv, LivenessOf
<1>7. \A u \in Threads, s \in Slots : heap_class'[u][s] \subseteq heap_class[u][s]
  BY <1>2, <1>3
<1>8. \A u \in Threads : pc'[u] \in Expiring <=> pc[u] \in Expiring
  BY <1>2, <1>4 DEF Expiring
<1>9. \A u \in Threads : SlotInv(u)'
  BY <1>2, <1>7, <1>8, SlotFrame DEF DueInv
<1> QED
  BY <1>5, <1>6, <1>9 DEF DueInv

(* The due time of a class is wiped when nobody has it in a list.          *)
LEMMA DeallocateDue ==
  ASSUME IInv, DueInv, NEW t \in Threads, DeallocateLSClass(t)
  PROVE  DueInv'
<1> DEFINE d == current[t]
<1>1. /\ pc[t] = "deallocate" /\ pc' = [pc EXCEPT ![t] = "expire"]
      /\ current' = [current EXCEPT ![t] = NoClass]
      /\ lifetime' = [lifetime EXCEPT ![d] = 0] /\ due' = [due EXCEPT ![d] = 0]
      /\ UNCHANGED <<time, heap_class>>
  BY DEF DeallocateLSClass, clockVars
<1>2. /\ pc \in [Threads -> Locations] /\ current \in [Threads -> Class \cup {NoClass}]
      /\ lifetime \in [Class -> Nat] /\ due \in [Class -> Nat]
  BY DEF IInv, TypeOK
<1>3. d \in Class
  BY <1>1, <1>2 DEF IInv, ControlInv
<1>4. Holders(d) = {} /\ \A u \in Threads : u # t => current[u] # d
  BY <1>1, <1>3, ClassAssumption DEF ClassAssumption, IInv, OwnershipInv, CurrentInv
<1> HIDE DEF d
<1>5. Unshared'
  BY <1>1, <1>2 DEF DueInv, Unshared
<1>6. KeptInv'
  <2> SUFFICES ASSUME NEW u \in Threads, pc'[u] = "keep"
               PROVE  /\ LivenessOf(current[u])' \in 1 .. MaxLiveness
                      /\ due'[current'[u]] = time'[u] + LivenessOf(current[u])'
    BY DEF KeptInv
  <2>1. u # t /\ pc[u] = "keep" /\ current'[u] = current[u]
    BY <1>1, <1>2
  <2>2. current[u] \in Class /\ current[u] # d
    BY <1>2, <1>4, <2>1 DEF IInv, ControlInv
  <2>3. due'[current[u]] = due[current[u]] /\ lifetime'[current[u]] = lifetime[current[u]]
    BY <1>1, <1>2, <2>2
  <2> QED
    BY <1>1, <2>1, <2>3 DEF DueInv, KeptInv, LivenessOf
<1>7. ASSUME NEW u \in Threads PROVE SlotInv(u)'
  <2>1. \A s \in Slots, c \in Class : c \in heap_class[u][s] => c # d
    BY <1>4, ListedIsHeld
  <2>2. \A s \in Slots, c \in Class : c \in heap_class[u][s] => due'[c] = due[c]
    BY <1>1, <1>2, <2>1
  <2>3. pc'[u] \in Expiring <=> pc[u] \in Expiring
    BY <1>1, <1>2 DEF Expiring
  <2> QED
    BY <1>1, <2>2, <2>3, SlotFrame DEF DueInv
<1> QED
  BY <1>5, <1>6, <1>7 DEF DueInv

(* In the slot that expires are exactly the classes with no unit left.     *)
LEMMA ExpiredIsDue ==
  ASSUME IInv, DueInv, NEW t \in Threads, pc[t] \in Expiring,
         NEW s \in Slots, NEW c \in Class, c \in heap_class[t][s]
  PROVE  s = DeleteSlot(t) <=> UnitsLeft(t, c) = 0
<1>1. due[c] % HeapSlots = s /\ UnitsLeft(t, c) \in 0 .. HeapSlots - 1
  BY DEF DueInv, SlotInv
<1>2. /\ HeapSlots \in Nat \ {0} /\ DeallocationDelay \in Nat
      /\ time[t] \in Nat /\ due[c] \in Nat
  <2>1. time \in [Threads -> Nat] /\ due \in [Class -> Nat]
    BY DEF IInv, TypeOK
  <2> QED
    BY <2>1, LivenessAssumption DEF LivenessAssumption, HeapSlots
<1>3. DeleteSlot(t) = (time[t] - DeallocationDelay) % HeapSlots
  BY DeleteSlotIsDelayed DEF IInv
<1> DEFINE x == time[t] - DeallocationDelay
           y == due[c]
           h == HeapSlots
<1>4. UnitsLeft(t, c) = y - x
  BY <1>2 DEF UnitsLeft
<1>5. x \in Int /\ y \in Int /\ h \in Nat \ {0}
  BY <1>2
<1>6. y - x \in 0 .. h - 1
  BY <1>1, <1>4
<1>7. DeleteSlot(t) = x % h /\ s = y % h
  BY <1>1, <1>3
<1> HIDE DEF x, y, h
<1>8. x - y < h /\ y - x < h /\ (y - x = 0 <=> x = y)
  BY <1>5, <1>6
<1>9. x % h = y % h <=> x = y
  BY <1>5, <1>8, SameSlot
<1> QED
  BY <1>4, <1>7, <1>8, <1>9

LEMMA EndTimeUnitDue ==
  ASSUME IInv, DueInv, NEW t \in Threads, EndTimeUnit(t)
  PROVE  DueInv'
<1>1. /\ pc[t] = "expire" /\ heap_class[t][DeleteSlot(t)] = {}
      /\ pc' = [pc EXCEPT ![t] = IF AtTimeGap(t) THEN "barrier" ELSE LoopHead(t)]
      /\ UNCHANGED <<time, heap_class, current, due, lifetime>>
  BY DEF EndTimeUnit, clockVars, classVars
<1>2. pc \in [Threads -> Locations]
  BY DEF IInv, TypeOK
<1>3. pc'[t] \in {"barrier", "alloc", "done"} /\ \A u \in Threads : u # t => pc'[u] = pc[u]
  BY <1>1, <1>2 DEF LoopHead
<1>4. Unshared'
  BY <1>3 DEF DueInv, Unshared
<1>5. KeptInv'
  BY <1>1, <1>3 DEF DueInv, KeptInv, LivenessOf
<1>6. ASSUME NEW u \in Threads PROVE SlotInv(u)'
  <2>1. CASE u # t
    BY <1>1, <1>3, <2>1, SlotFrame DEF DueInv
  <2>2. CASE u = t
    <3>1. pc[t] \in Expiring /\ pc'[t] \notin Expiring
      BY <1>1, <1>3 DEF Expiring
    <3>2. \A s \in Slots, c \in Class : c \in heap_class[t][s] =>
            /\ due[c] % HeapSlots = s
            /\ UnitsLeft(t, c) \in 0 .. HeapSlots - 1 /\ UnitsLeft(t, c) # 0
      BY <1>1, <3>1, ExpiredIsDue DEF DueInv, SlotInv
    <3>3. \A c \in Class : UnitsLeft(t, c)' = UnitsLeft(t, c)
      BY <1>1 DEF UnitsLeft
    <3>4. HeapSlots \in Nat
      BY LivenessAssumption DEF LivenessAssumption, HeapSlots
    <3> QED
      BY <1>1, <2>2, <3>1, <3>2, <3>3, <3>4 DEF SlotInv
  <2> QED
    BY <2>1, <2>2
<1> QED
  BY <1>4, <1>5, <1>6 DEF DueInv

LEMMA DueStep ==
  ASSUME ~SharedObjects, IInv, DueInv, NEW t \in Threads, Step(t)
  PROVE  DueInv'
<1>1. pc \in [Threads -> Locations]
  BY DEF IInv, TypeOK
<1>2. CASE BarrierBlock(t) \/ BarrierRelease(t)
  <2>1. UNCHANGED <<time, heap_class, due, lifetime, current>>
    BY <1>2 DEF BarrierBlock, BarrierRelease, clockVars, classVars
  <2>2. \A u \in Threads :
           /\ pc'[u] = pc[u] \/ pc'[u] \in {"barrier", "waiting", "alloc", "done"}
           /\ pc'[u] \in Expiring <=> pc[u] \in Expiring
    BY <1>1, <1>2 DEF BarrierBlock, BarrierRelease, LoopHead, Expiring
  <2> QED
    BY <2>1, <2>2, DueFrame
<1>3. CASE ClassBufferOverflow(t) \/ NodeBufferOverflow(t)
  BY <1>3, DueFrame DEF ClassBufferOverflow, NodeBufferOverflow, clockVars, classVars
<1>4. ~ \E r \in Threads : ShareLock(t, r) \/ ShareInsert(t, r)
  BY DEF DueInv, Unshared, ShareLock, ShareInsert
<1>5. ~(FetchLock(t) \/ SpliceSkip(t) \/ SpliceAppend(t) \/ SpliceReset(t))
  BY DEF DueInv, Unshared, FetchLock, SpliceSkip, SpliceAppend, SpliceReset
<1> QED
  BY <1>2, <1>3, <1>4, <1>5, AllocateDue, KeepDue, AccessDue, UnreferenceDue,
     DeallocateDue, EndTimeUnitDue DEF Step

LEMMA DueNext == ASSUME ~SharedObjects PROVE IInv /\ DueInv /\ [Next]_vars => DueInv'
<1> SUFFICES ASSUME IInv, DueInv, [Next]_vars PROVE DueInv'
  OBVIOUS
<1>1. CASE UNCHANGED vars
  BY <1>1, DueFrame DEF vars, clockVars, classVars
<1>2. ASSUME NEW t \in Threads, Step(t) PROVE DueInv'
  BY <1>2, DueStep
<1> QED
  BY <1>1, <1>2 DEF Next, Terminating

(* Without sharing, every class is in a list until its liveness and the    *)
(* delay have passed, and no longer: however often the slots wrap around,  *)
(* the slot that expires holds the classes that are due, and no other.     *)
THEOREM ClassesAreDroppedWhenDue ==
  ASSUME ~SharedObjects PROVE Spec => []DroppedWhenDue
<1>1. IInv /\ DueInv => DroppedWhenDue
  <2> SUFFICES ASSUME IInv, DueInv, NEW t \in Threads, NEW s \in Slots,
                      NEW c \in heap_class[t][s]
               PROVE  IF pc[t] \in {"expire", "deallocate"} /\ s = DeleteSlot(t)
                      THEN time[t] = due[c] + DeallocationDelay
                      ELSE time[t] < due[c] + DeallocationDelay
    BY DEF DroppedWhenDue
  <2>1. c \in Class /\ due[c] \in Nat /\ time[t] \in Nat /\ DeallocationDelay \in Nat
    <3>1. /\ time \in [Threads -> Nat] /\ due \in [Class -> Nat]
          /\ heap_class \in [Threads -> [Slots -> SUBSET Class]]
      BY DEF IInv, TypeOK
    <3> QED
      BY <3>1, LivenessAssumption DEF LivenessAssumption
  <2>2. HeapSlots \in Nat
    BY LivenessAssumption DEF LivenessAssumption, HeapSlots
  <2>3. CASE pc[t] \in Expiring
    <3>1. s = DeleteSlot(t) <=> UnitsLeft(t, c) = 0
      BY <2>1, <2>3, ExpiredIsDue
    <3>2. UnitsLeft(t, c) \in 0 .. HeapSlots - 1
      BY <2>1, <2>3 DEF DueInv, SlotInv
    <3> QED
      BY <2>1, <2>2, <2>3, <3>1, <3>2 DEF UnitsLeft, Expiring
  <2>4. CASE pc[t] \notin Expiring
    <3>1. UnitsLeft(t, c) \in 1 .. HeapSlots
      BY <2>1, <2>4 DEF DueInv, SlotInv
    <3> QED
      BY <2>1, <2>2, <2>4, <3>1 DEF UnitsLeft, Expiring
  <2> QED
    BY <2>3, <2>4
<1> QED
  BY <1>1, DueInit, DueNext, InitEstablishes, Inductive, PTL DEF Spec

(* A whole round further on, the slot is the same.                         *)
LEMMA OneRoundOn ==
  ASSUME NEW h \in Nat \ {0}, NEW x \in Int
  PROVE  (x + h) % h = x % h
<1> DEFINE k == x \div h
           r == x % h
<1>1. k \in Int /\ r \in 0 .. h - 1 /\ x = h * k + r
  OBVIOUS
<1> HIDE DEF k, r
<1>2. x + h = h * (k + 1) + r /\ k + 1 \in Int
  BY <1>1
<1>3. (x + h) % h = r /\ x % h = r
  BY <1>1, <1>2, Remainders
<1> QED
  BY <1>3

(* The slots that a traversal visits.                                      *)
LEMMA VisitedSlots ==
  ASSUME NEW h \in Nat \ {0}, NEW m \in Nat \ {0}, NEW d \in Nat, h = m + d,
         NEW now \in Nat, NEW y \in Nat, y + d - now \in 1 .. h
  PROVE  (\E i \in 0 .. m - 1 : y % h = (now + i) % h) <=> (y - now \in 0 .. m - 1 \/ d = 0)
<1>1. CASE y - now \in 0 .. m - 1
  <2>1. y = now + (y - now)
    OBVIOUS
  <2> QED
    BY <1>1, <2>1
<1>2. CASE y - now \notin 0 .. m - 1 /\ d = 0
  <2>1. y = now + h
    BY <1>2
  <2>2. (now + 0) % h = y % h
    BY <2>1, OneRoundOn, now + 0 = now, now \in Int
  <2> QED
    BY <1>2, <2>2, 0 \in 0 .. m - 1
<1>3. CASE y - now \notin 0 .. m - 1 /\ d # 0
  <2>1. ASSUME NEW i \in 0 .. m - 1 PROVE y % h # (now + i) % h
    <3> DEFINE x == now + i
    <3>1. x \in Int /\ x - now \in 0 .. m - 1 /\ y - x < h /\ x - y < h
      BY <1>3
    <3>2. y # x
      BY <1>3, <3>1
    <3>3. x \in Int /\ y \in Int /\ h \in Nat \ {0}
      BY <3>1
    <3> HIDE DEF x
    <3>4. y % h = x % h <=> y = x
      BY <3>1, <3>3, SameSlot
    <3> QED
      BY <3>2, <3>4 DEF x
  <2> QED
    BY <1>3, <2>1
<1> QED
  BY <1>1, <1>2, <1>3

(* Without sharing, a traversal meets the classes of the next max_liveness *)
(* time units, whatever the delay, however often the slots wrap around.    *)
THEOREM TraversalsMeetLiveClasses ==
  ASSUME ~SharedObjects PROVE Spec => []AccessesByLiveness
<1>1. IInv /\ DueInv => AccessesByLiveness
  <2> SUFFICES ASSUME IInv, DueInv, AccessLiveObjects, NEW t \in Threads, pc[t] = "access"
               PROVE  Accessed(t) = {c \in Heap(t) :
                                       \/ due[c] - time[t] \in 0 .. MaxLiveness - 1
                                       \/ DeallocationDelay = 0}
    BY DEF AccessesByLiveness
  <2>1. /\ time \in [Threads -> Nat] /\ due \in [Class -> Nat]
        /\ heap_class \in [Threads -> [Slots -> SUBSET Class]]
    BY DEF IInv, TypeOK
  <2>2. /\ HeapSlots \in Nat \ {0} /\ DeallocationDelay \in Nat
        /\ MaxLiveness \in Nat \ {0} /\ HeapSlots = MaxLiveness + DeallocationDelay
    BY LivenessAssumption DEF LivenessAssumption, HeapSlots
  <2>3. \A i \in 0 .. MaxLiveness - 1 : SlotAt(t, i) \in Slots
    BY <2>1, <2>2 DEF SlotAt, Slots
  <2>4. ASSUME NEW s \in Slots, NEW c \in Class, c \in heap_class[t][s]
        PROVE  (\E i \in 0 .. MaxLiveness - 1 : s = SlotAt(t, i))
               <=> (due[c] - time[t] \in 0 .. MaxLiveness - 1 \/ DeallocationDelay = 0)
    <3>1. pc[t] \notin Expiring
      BY DEF Expiring
    <3>2. due[c] % HeapSlots = s /\ due[c] + DeallocationDelay - time[t] \in 1 .. HeapSlots
      BY <2>4, <3>1 DEF DueInv, SlotInv, UnitsLeft
    <3>3. time[t] \in Nat /\ due[c] \in Nat
      BY <2>1
    <3>4. (\E i \in 0 .. MaxLiveness - 1 : due[c] % HeapSlots = (time[t] + i) % HeapSlots)
          <=> (due[c] - time[t] \in 0 .. MaxLiveness - 1 \/ DeallocationDelay = 0)
      BY <2>2, <3>2, <3>3, VisitedSlots
    <3> QED
      BY <3>2, <3>4 DEF SlotAt
  <2>5. ASSUME NEW c \in Accessed(t)
        PROVE  /\ c \in Heap(t)
               /\ due[c] - time[t] \in 0 .. MaxLiveness - 1 \/ DeallocationDelay = 0
    <3>1. PICK i \in 0 .. MaxLiveness - 1 : c \in heap_class[t][SlotAt(t, i)]
      BY DEF Accessed
    <3>2. SlotAt(t, i) \in Slots /\ c \in Class
      BY <2>1, <2>3, <3>1
    <3>3. c \in Heap(t)
      BY <3>1, <3>2 DEF Heap
    <3>4. due[c] - time[t] \in 0 .. MaxLiveness - 1 \/ DeallocationDelay = 0
      BY <2>4, <3>1, <3>2
    <3> QED
      BY <3>3, <3>4
  <2>6. ASSUME NEW c \in Heap(t),
               due[c] - time[t] \in 0 .. MaxLiveness - 1 \/ DeallocationDelay = 0
        PROVE  c \in Accessed(t)
    <3>1. PICK s \in Slots : c \in heap_class[t][s]
      BY DEF Heap
    <3>2. c \in Class
      BY <2>1, <3>1
    <3>3. PICK i \in 0 .. MaxLiveness - 1 : s = SlotAt(t, i)
      BY <2>4, <2>6, <3>1, <3>2
    <3> QED
      BY <3>1, <3>3 DEF Accessed
  <2> QED
    BY <2>5, <2>6
<1> QED
  BY <1>1, DueInit, DueNext, InitEstablishes, Inductive, PTL DEF Spec


-----------------------------------------------------------------------------
(***************************************************************************)
(* The nodes of the lists: as many as were carved from the buffers.        *)
(***************************************************************************)
(* The nodes of a thread's lists; the pool without the list that is being  *)
(* spliced, whose nodes already belong to the local one.                   *)
Nodes(lists) == {p \in Slots \X Class : p[2] \in lists[p[1]]}
InPool(where, i, shared) ==
  [t \in Threads |->
     [s \in Slots |-> IF where[t] = "reset" /\ s = i[t] THEN {} ELSE shared[t][s]]]
NodeCount(heap, shared) ==
  [t \in Threads |-> Cardinality(Nodes(heap[t])) + Cardinality(Nodes(shared[t]))]

NodesInLists == NodeCount(heap_class, InPool(pc, index, shared_heap_classes))

NodeInv ==
  SumFunctionOnSet(NodesInLists, Threads) + SumFunctionOnSet(node_cache, Threads)
    = SumFunctionOnSet(node_buffer_counter, Threads)

(* A set of classes for every slot of every thread.                        *)
Lists == [Threads -> [Slots -> SUBSET Class]]

-----------------------------------------------------------------------------
LEMMA FiniteData ==
  /\ IsFiniteSet(Threads) /\ IsFiniteSet(Slots) /\ IsFiniteSet(Class)
  /\ IsFiniteSet(Slots \X Class)
<1>1. IsFiniteSet(Threads)
  BY ThreadsAssumption DEF ThreadsAssumption
<1>2. IsFiniteSet(Slots)
  BY FS_Interval, LivenessAssumption DEF LivenessAssumption, Slots, HeapSlots
<1>3. IsFiniteSet(0 .. ClassBufferSize - 1)
  BY FS_Interval, BufferAssumption DEF BufferAssumption
<1>4. IsFiniteSet(Class)
  BY <1>1, <1>3, FS_Product DEF Class
<1> QED
  BY <1>1, <1>2, <1>4, FS_Product

LEMMA NodesFinite ==
  ASSUME NEW lists
  PROVE  IsFiniteSet(Nodes(lists)) /\ Cardinality(Nodes(lists)) \in Nat
<1>1. Nodes(lists) \in SUBSET (Slots \X Class)
  BY DEF Nodes
<1>2. IsFiniteSet(Slots \X Class)
  BY FiniteData
<1>3. IsFiniteSet(Nodes(lists))
  BY <1>1, <1>2, FS_Subset
<1> QED
  BY <1>3, FS_CardinalityType

(* An insertion takes one node, a removal gives one back.                  *)
LEMMA InsertNode ==
  ASSUME NEW L \in [Slots -> SUBSET Class], NEW M \in [Slots -> SUBSET Class],
         NEW s \in Slots, NEW c \in Class, c \notin L[s], M = [L EXCEPT ![s] = @ \cup {c}]
  PROVE  Cardinality(Nodes(M)) = Cardinality(Nodes(L)) + 1
<1>1. Nodes(M) = Nodes(L) \cup {<<s, c>>}
  BY DEF Nodes
<1>2. <<s, c>> \notin Nodes(L)
  BY DEF Nodes
<1>3. IsFiniteSet(Nodes(L))
  BY NodesFinite
<1> QED
  BY <1>1, <1>2, <1>3, FS_AddElement

LEMMA RemoveNode ==
  ASSUME NEW L \in [Slots -> SUBSET Class], NEW M \in [Slots -> SUBSET Class],
         NEW s \in Slots, NEW c \in Class, c \in L[s], M = [L EXCEPT ![s] = @ \ {c}]
  PROVE  Cardinality(Nodes(M)) = Cardinality(Nodes(L)) - 1
<1>1. Nodes(M) = Nodes(L) \ {<<s, c>>}
  BY DEF Nodes
<1>2. <<s, c>> \in Nodes(L)
  BY DEF Nodes
<1>3. IsFiniteSet(Nodes(L))
  BY NodesFinite
<1> DEFINE node == <<s, c>>
<1> HIDE DEF node
<1>4. Cardinality(Nodes(L) \ {node}) = Cardinality(Nodes(L)) - 1
  BY <1>2, <1>3, FS_RemoveElement DEF node
<1> QED
  BY <1>1, <1>4 DEF node

LEMMA NodesOfList ==
  ASSUME NEW s, NEW T, IsFiniteSet(T)
  PROVE  /\ IsFiniteSet({s} \X T)
         /\ Cardinality({s} \X T) = Cardinality(T)
<1>1. IsFiniteSet({s}) /\ Cardinality({s}) = 1
  BY FS_Singleton
<1>2. IsFiniteSet({s} \X T) /\ Cardinality({s} \X T) = Cardinality({s}) * Cardinality(T)
  BY <1>1, FS_Product
<1>3. Cardinality(T) \in Nat
  BY FS_CardinalityType
<1> QED
  BY <1>1, <1>2, <1>3

(* A splice takes every node of the one list to the other.                 *)
Spliced(L, P, M, Q, s, z) ==
  /\ L \in [Slots -> SUBSET Class] /\ P \in [Slots -> SUBSET Class]
  /\ s \in Slots /\ z \in Slots /\ L[s] \cap P[z] = {}
  /\ M = [L EXCEPT ![s] = @ \cup P[z]]
  /\ Q = [P EXCEPT ![z] = {}]

LEMMA SpliceNodes ==
  ASSUME NEW L, NEW P, NEW M, NEW Q, NEW s, NEW z, Spliced(L, P, M, Q, s, z)
  PROVE  Cardinality(Nodes(M)) + Cardinality(Nodes(Q))
           = Cardinality(Nodes(L)) + Cardinality(Nodes(P))
<1> DEFINE moved == P[z]
           to == {s} \X moved
           from == {z} \X moved
<1>1. moved \in SUBSET Class /\ IsFiniteSet(moved)
  BY FiniteData, FS_Subset DEF Spliced
<1>2. /\ Nodes(M) = Nodes(L) \cup to /\ Nodes(L) \cap to = {}
      /\ Nodes(P) = Nodes(Q) \cup from /\ Nodes(Q) \cap from = {}
  BY <1>1 DEF Nodes, Spliced
<1> HIDE DEF moved
<1>3. /\ IsFiniteSet(to) /\ Cardinality(to) = Cardinality(moved)
      /\ IsFiniteSet(from) /\ Cardinality(from) = Cardinality(moved)
  BY <1>1, NodesOfList
<1>4. /\ IsFiniteSet(Nodes(L)) /\ IsFiniteSet(Nodes(Q))
  BY NodesFinite
<1> HIDE DEF to, from
<1>5. Cardinality(Nodes(M)) = Cardinality(Nodes(L)) + Cardinality(to) - Cardinality({})
  <2>1. Cardinality(Nodes(L) \cup to)
          = Cardinality(Nodes(L)) + Cardinality(to) - Cardinality(Nodes(L) \cap to)
    BY <1>3, <1>4, FS_Union
  <2> QED
    BY <1>2, <2>1
<1>6. Cardinality(Nodes(P)) = Cardinality(Nodes(Q)) + Cardinality(from) - Cardinality({})
  <2>1. Cardinality(Nodes(Q) \cup from)
          = Cardinality(Nodes(Q)) + Cardinality(from) - Cardinality(Nodes(Q) \cap from)
    BY <1>3, <1>4, FS_Union
  <2> QED
    BY <1>2, <2>1
<1>7. Cardinality({}) = 0 /\ Cardinality(to) \in Nat
  BY <1>3, FS_EmptySet, FS_CardinalityType
<1>8. /\ Cardinality(Nodes(M)) \in Nat /\ Cardinality(Nodes(Q)) \in Nat
      /\ Cardinality(Nodes(L)) \in Nat /\ Cardinality(Nodes(P)) \in Nat
  BY NodesFinite
<1> QED
  BY <1>3, <1>5, <1>6, <1>7, <1>8

-----------------------------------------------------------------------------
LEMMA NodeCountType ==
  ASSUME NEW h, NEW p
  PROVE  /\ NodeCount(h, p) \in [Threads -> Nat]
         /\ SumFunctionOnSet(NodeCount(h, p), Threads) \in Int
<1>1. NodeCount(h, p) \in [Threads -> Nat]
  BY NodesFinite DEF NodeCount
<1>2. \A t \in Threads : NodeCount(h, p)[t] \in Int
  BY <1>1
<1> QED
  BY <1>1, <1>2, FiniteData, SumType

(* The lists of one thread change.                                         *)
ListsDifferAt(h, p, g, q, t) == \A u \in Threads \ {t} : g[u] = h[u] /\ q[u] = p[u]

LEMMA NodeCountChange ==
  ASSUME NEW h, NEW p, NEW g, NEW q, NEW t \in Threads, ListsDifferAt(h, p, g, q, t)
  PROVE  SumFunctionOnSet(NodeCount(g, q), Threads)
           = SumFunctionOnSet(NodeCount(h, p), Threads)
               + ((Cardinality(Nodes(g[t])) + Cardinality(Nodes(q[t])))
                   - (Cardinality(Nodes(h[t])) + Cardinality(Nodes(p[t]))))
<1> DEFINE a == NodeCount(h, p)
           b == NodeCount(g, q)
<1>1. a \in [Threads -> Nat] /\ b \in [Threads -> Nat]
  BY NodeCountType
<1>2. \A u \in Threads \ {t} : a[u] = b[u]
  BY DEF NodeCount, ListsDifferAt
<1>3. /\ a[t] = Cardinality(Nodes(h[t])) + Cardinality(Nodes(p[t]))
      /\ b[t] = Cardinality(Nodes(g[t])) + Cardinality(Nodes(q[t]))
  BY DEF NodeCount
<1> HIDE DEF a, b
<1>4. DifferAt(a, b, t, Threads)
  BY <1>1, <1>2 DEF DifferAt
<1>5. IsFiniteSet(Threads)
  BY FiniteData
<1>6. SumFunctionOnSet(b, Threads) = SumFunctionOnSet(a, Threads) + (b[t] - a[t])
  BY <1>4, <1>5, SumChange
<1> QED
  BY <1>3, <1>6 DEF a, b

(* The nodes that a thread has in its cache, or can still carve.           *)
LEMMA NodePoolChange ==
  ASSUME TypeOK, TypeOK', NEW t \in Threads
  PROVE  /\ SumFunctionOnSet(node_cache, Threads) \in Int
         /\ SumFunctionOnSet(node_buffer_counter, Threads) \in Int
         /\ SumFunctionOnSet(node_cache', Threads) \in Int
         /\ SumFunctionOnSet(node_buffer_counter', Threads) \in Int
         /\ GetLSCNode(t) =>
              SumFunctionOnSet(node_cache', Threads) - SumFunctionOnSet(node_buffer_counter', Threads)
                = SumFunctionOnSet(node_cache, Threads) - SumFunctionOnSet(node_buffer_counter, Threads) - 1
         /\ RecycleLSCNode(t) =>
              SumFunctionOnSet(node_cache', Threads) - SumFunctionOnSet(node_buffer_counter', Threads)
                = SumFunctionOnSet(node_cache, Threads) - SumFunctionOnSet(node_buffer_counter, Threads) + 1
<1>0. /\ node_cache \in [Threads -> Nat] /\ node_cache' \in [Threads -> Nat]
      /\ node_buffer_counter \in [Threads -> Nat] /\ node_buffer_counter' \in [Threads -> Nat]
  <2>1. /\ node_cache \in [Threads -> Nat] /\ node_cache' \in [Threads -> Nat]
        /\ node_buffer_counter \in [Threads -> 0 .. NodeBufferSize]
        /\ node_buffer_counter' \in [Threads -> 0 .. NodeBufferSize]
    BY DEF TypeOK
  <2>2. 0 .. NodeBufferSize \subseteq Nat
    BY BufferAssumption DEF BufferAssumption
  <2> QED
    BY <2>1, <2>2
<1>1. /\ \A u \in Threads : node_cache[u] \in Int /\ node_buffer_counter[u] \in Int
      /\ \A u \in Threads : node_cache'[u] \in Int /\ node_buffer_counter'[u] \in Int
      /\ IsFiniteSet(Threads)
  BY <1>0, FiniteData
<1>2. /\ SumFunctionOnSet(node_cache, Threads) \in Int
      /\ SumFunctionOnSet(node_buffer_counter, Threads) \in Int
  BY <1>1, SumType
<1>3. /\ SumFunctionOnSet(node_cache', Threads) \in Int
      /\ SumFunctionOnSet(node_buffer_counter', Threads) \in Int
  BY <1>1, SumType
<1>4. ASSUME node_cache' = [node_cache EXCEPT ![t] = @ - 1] \/
             node_cache' = [node_cache EXCEPT ![t] = @ + 1]
      PROVE  SumFunctionOnSet(node_cache', Threads)
               = SumFunctionOnSet(node_cache, Threads) + (node_cache'[t] - node_cache[t])
  <2>1. DifferAt(node_cache, node_cache', t, Threads)
    BY <1>0, <1>4 DEF DifferAt
  <2> QED
    BY <1>1, <2>1, SumChange
<1>5. ASSUME node_buffer_counter' = [node_buffer_counter EXCEPT ![t] = @ + 1]
      PROVE  SumFunctionOnSet(node_buffer_counter', Threads)
               = SumFunctionOnSet(node_buffer_counter, Threads)
                   + (node_buffer_counter'[t] - node_buffer_counter[t])
  <2>1. DifferAt(node_buffer_counter, node_buffer_counter', t, Threads)
    BY <1>0, <1>5 DEF DifferAt
  <2> QED
    BY <1>1, <2>1, SumChange
<1>6. /\ node_cache' = [node_cache EXCEPT ![t] = @ - 1] => node_cache'[t] = node_cache[t] - 1
      /\ node_cache' = [node_cache EXCEPT ![t] = @ + 1] => node_cache'[t] = node_cache[t] + 1
      /\ node_buffer_counter' = [node_buffer_counter EXCEPT ![t] = @ + 1] =>
           node_buffer_counter'[t] = node_buffer_counter[t] + 1
      /\ node_cache[t] \in Int /\ node_buffer_counter[t] \in Int
  BY <1>0
<1>7. ASSUME GetLSCNode(t)
      PROVE  SumFunctionOnSet(node_cache', Threads) - SumFunctionOnSet(node_buffer_counter', Threads)
               = SumFunctionOnSet(node_cache, Threads) - SumFunctionOnSet(node_buffer_counter, Threads) - 1
  <2>1. CASE /\ node_cache' = [node_cache EXCEPT ![t] = @ - 1]
             /\ node_buffer_counter' = node_buffer_counter
    BY <1>2, <1>4, <1>6, <2>1
  <2>2. CASE /\ node_cache' = node_cache
             /\ node_buffer_counter' = [node_buffer_counter EXCEPT ![t] = @ + 1]
    BY <1>2, <1>5, <1>6, <2>2
  <2> QED
    BY <1>7, <2>1, <2>2 DEF GetLSCNode
<1>8. ASSUME RecycleLSCNode(t)
      PROVE  SumFunctionOnSet(node_cache', Threads) - SumFunctionOnSet(node_buffer_counter', Threads)
               = SumFunctionOnSet(node_cache, Threads) - SumFunctionOnSet(node_buffer_counter, Threads) + 1
  BY <1>2, <1>4, <1>6, <1>8 DEF RecycleLSCNode
<1> QED
  BY <1>2, <1>3, <1>7, <1>8

-----------------------------------------------------------------------------
LEMMA InPoolType ==
  ASSUME NEW where, NEW i, NEW shared \in Lists PROVE InPool(where, i, shared) \in Lists
BY DEF InPool, Lists

(* A step that takes a node from the pool and puts it into a list, or the  *)
(* other way round, or moves nodes from list to list.                      *)
LEMMA NodeBalance ==
  ASSUME TypeOK, TypeOK', NodeInv, NEW t \in Threads, NEW r \in Threads,
         NEW h, h = heap_class, NEW p, p = InPool(pc, index, shared_heap_classes),
         NEW g, g = heap_class', NEW q, q = InPool(pc', index', shared_heap_classes'),
         ListsDifferAt(h, p, g, q, r),
         LET before == Cardinality(Nodes(h[r])) + Cardinality(Nodes(p[r]))
             after  == Cardinality(Nodes(g[r])) + Cardinality(Nodes(q[r]))
         IN  \/ GetLSCNode(t) /\ after = before + 1
             \/ RecycleLSCNode(t) /\ after = before - 1
             \/ UNCHANGED nodeVars /\ after = before
  PROVE  NodeInv'
<1> DEFINE before == Cardinality(Nodes(h[r])) + Cardinality(Nodes(p[r]))
           after  == Cardinality(Nodes(g[r])) + Cardinality(Nodes(q[r]))
           lists == SumFunctionOnSet(NodeCount(h, p), Threads)
           listsNext == SumFunctionOnSet(NodeCount(g, q), Threads)
           free == SumFunctionOnSet(node_cache, Threads)
           freeNext == SumFunctionOnSet(node_cache', Threads)
           carved == SumFunctionOnSet(node_buffer_counter, Threads)
           carvedNext == SumFunctionOnSet(node_buffer_counter', Threads)
<1>1. listsNext = lists + (after - before)
  BY NodeCountChange
<1>2. before \in Int /\ after \in Int /\ lists \in Int /\ listsNext \in Int
  BY NodesFinite, NodeCountType
<1>3. /\ free \in Int /\ carved \in Int /\ freeNext \in Int /\ carvedNext \in Int
      /\ GetLSCNode(t) => freeNext - carvedNext = free - carved - 1
      /\ RecycleLSCNode(t) => freeNext - carvedNext = free - carved + 1
      /\ UNCHANGED nodeVars => freeNext - carvedNext = free - carved
  <2>1. UNCHANGED nodeVars => freeNext = free /\ carvedNext = carved
    BY DEF nodeVars
  <2> QED
    BY <2>1, NodePoolChange
<1>4. lists + free = carved
  BY DEF NodeInv, NodesInLists
<1>5. \/ GetLSCNode(t) /\ after = before + 1
      \/ RecycleLSCNode(t) /\ after = before - 1
      \/ UNCHANGED nodeVars /\ after = before
  OBVIOUS
<1>6. listsNext + freeNext = carvedNext
  <2> HIDE DEF before, after, lists, listsNext, free, freeNext, carved, carvedNext
  <2> QED
    BY <1>1, <1>2, <1>3, <1>4, <1>5
<1> QED
  BY <1>6 DEF NodeInv, NodesInLists

(* A step that changes neither the nodes nor the lists.                    *)
LEMMA NodeFrame ==
  ASSUME NodeInv, UNCHANGED <<heap_class, shared_heap_classes, nodeVars>>,
         \A u \in Threads : pc'[u] = "reset" <=> pc[u] = "reset",
         \A u \in Threads : pc[u] = "reset" => index'[u] = index[u]
  PROVE  NodeInv'
<1>1. InPool(pc', index', shared_heap_classes') = InPool(pc, index, shared_heap_classes)
  BY DEF InPool
<1>2. NodesInLists' = NodesInLists
  BY <1>1 DEF NodesInLists
<1> QED
  BY <1>2 DEF NodeInv, nodeVars

LEMMA KeepNodes ==
  ASSUME IInv, TypeOK', NodeInv, NEW t \in Threads, KeepLSClass(t) PROVE NodeInv'
<1> DEFINE c == current[t]
           s == SlotAt(t, LivenessOf(c))
           h == heap_class
           g == heap_class'
           p == InPool(pc, index, shared_heap_classes)
           q == InPool(pc', index', shared_heap_classes')
<1>0. TypeOK /\ ControlInv /\ PlaceInv
  BY DEF IInv
<1>1. c \in Class /\ s \in Slots /\ c \notin h[t][s]
  <2>0. pc[t] = "keep" /\ c \in Class \cup {NoClass}
    BY <1>0 DEF KeepLSClass, TypeOK
  <2>1. c \in Class /\ t \in receivers[t]
    BY <1>0, <2>0 DEF ControlInv
  <2>2. s \in Slots
    BY <1>0, <2>1, SlotsInRange
  <2> QED
    BY <1>0, <2>1, <2>2 DEF PlaceInv
<1>2. GetLSCNode(t) /\ g = [h EXCEPT ![t][s] = @ \cup {c}]
  BY DEF KeepLSClass
<1>3. q = p
  <2>1. /\ pc[t] = "keep" /\ pc' = [pc EXCEPT ![t] = "access"]
        /\ index' = index /\ shared_heap_classes' = shared_heap_classes
        /\ pc \in [Threads -> Locations]
    BY <1>0 DEF KeepLSClass, TypeOK
  <2>2. \A u \in Threads : pc'[u] = "reset" <=> pc[u] = "reset"
    BY <2>1
  <2> QED
    BY <2>1, <2>2 DEF InPool
<1>4. h \in Lists /\ g \in Lists /\ h[t] \in [Slots -> SUBSET Class]
      /\ g[t] \in [Slots -> SUBSET Class]
  BY <1>0 DEF TypeOK, Lists
<1> HIDE DEF c, s, h, g, p, q
<1>5. g[t] = [h[t] EXCEPT ![s] = @ \cup {c}]
  BY <1>2, <1>4 DEF Lists
<1>6. Cardinality(Nodes(g[t])) = Cardinality(Nodes(h[t])) + 1
  BY <1>1, <1>4, <1>5, InsertNode
<1>7. ListsDifferAt(h, p, g, q, t)
  BY <1>2, <1>3, <1>4 DEF ListsDifferAt, Lists
<1>8. Cardinality(Nodes(g[t])) + Cardinality(Nodes(q[t]))
        = (Cardinality(Nodes(h[t])) + Cardinality(Nodes(p[t]))) + 1
  BY <1>3, <1>6, NodesFinite
<1> QED
  BY <1>0, <1>2, <1>7, <1>8, NodeBalance DEF h, g, p, q

LEMMA InsertNodes ==
  ASSUME IInv, TypeOK', NodeInv, NEW t \in Threads, NEW r \in Threads, ShareInsert(t, r)
  PROVE  NodeInv'
<1> DEFINE c == current[t]
           s == SlotAt(t, LivenessOf(c))
           h == heap_class
           g == heap_class'
           p == InPool(pc, index, shared_heap_classes)
           q == InPool(pc', index', shared_heap_classes')
<1>0. TypeOK /\ ControlInv /\ LockInv /\ PlaceInv
  BY DEF IInv
<1>1. /\ pc[t] = "insert" /\ lock[r] = t /\ GetLSCNode(t) /\ g = h /\ index' = index
      /\ shared_heap_classes' = [shared_heap_classes EXCEPT ![r][s] = @ \cup {c}]
      /\ \/ pc' = [pc EXCEPT ![t] = "fetch"]
         \/ pc' = [pc EXCEPT ![t] = "share"]
  BY DEF ShareInsert
<1>2. /\ pc \in [Threads -> Locations] /\ shared_heap_classes \in Lists
      /\ p \in Lists /\ q \in Lists
  <2>1. /\ pc \in [Threads -> Locations] /\ shared_heap_classes \in Lists
        /\ shared_heap_classes' \in Lists
    BY <1>0 DEF TypeOK, Lists
  <2> QED
    BY <2>1, InPoolType
<1>3. r \in receivers[t] /\ pc[r] # "reset"
  BY <1>0, <1>1 DEF LockInv
<1>4. c \in Class /\ s \in Slots /\ c \notin shared_heap_classes[r][s]
  <2>0. c \in Class \cup {NoClass}
    BY <1>0 DEF TypeOK
  <2>1. c \in Class
    BY <1>0, <1>1, <2>0 DEF ControlInv
  <2>2. s \in Slots
    BY <1>0, <2>1, SlotsInRange
  <2> QED
    BY <1>0, <1>3, <2>1, <2>2 DEF PlaceInv
<1>5. \A u \in Threads : pc'[u] = "reset" <=> pc[u] = "reset"
  BY <1>1, <1>2
<1> HIDE DEF c, s
<1>6. q[r] = [p[r] EXCEPT ![s] = @ \cup {c}] /\ c \notin p[r][s]
  BY <1>1, <1>2, <1>3, <1>4, <1>5 DEF InPool, Lists
<1>7. \A u \in Threads \ {r} : q[u] = p[u]
  BY <1>1, <1>2, <1>5 DEF InPool, Lists
<1>8. p[r] \in [Slots -> SUBSET Class] /\ q[r] \in [Slots -> SUBSET Class]
  BY <1>2 DEF Lists
<1> HIDE DEF h, g, p, q
<1>9. Cardinality(Nodes(q[r])) = Cardinality(Nodes(p[r])) + 1
  BY <1>4, <1>6, <1>8, InsertNode
<1>10. ListsDifferAt(h, p, g, q, r)
  BY <1>1, <1>7 DEF ListsDifferAt
<1>11. Cardinality(Nodes(g[r])) + Cardinality(Nodes(q[r]))
         = (Cardinality(Nodes(h[r])) + Cardinality(Nodes(p[r]))) + 1
  BY <1>1, <1>9, NodesFinite
<1> QED
  BY <1>0, <1>1, <1>10, <1>11, NodeBalance DEF h, g, p, q

LEMMA UnreferenceNodes ==
  ASSUME IInv, TypeOK', NodeInv, NEW t \in Threads, Unreference(t) PROVE NodeInv'
<1> DEFINE s == DeleteSlot(t)
           h == heap_class
           g == heap_class'
           p == InPool(pc, index, shared_heap_classes)
           q == InPool(pc', index', shared_heap_classes')
<1>0. TypeOK
  BY DEF IInv
<1>1. PICK c \in h[t][s] : g = [h EXCEPT ![t][s] = @ \ {c}]
  BY DEF Unreference
<1>2. /\ RecycleLSCNode(t) /\ index' = index /\ shared_heap_classes' = shared_heap_classes
      /\ pc[t] = "expire" /\ pc \in [Threads -> Locations]
      /\ pc' = pc \/ pc' = [pc EXCEPT ![t] = "deallocate"]
  BY <1>0 DEF Unreference, TypeOK
<1>3. \A u \in Threads : pc'[u] = "reset" <=> pc[u] = "reset"
  BY <1>2
<1>4. q = p
  BY <1>2, <1>3 DEF InPool
<1>5. h \in Lists /\ g \in Lists /\ h[t] \in [Slots -> SUBSET Class]
      /\ g[t] \in [Slots -> SUBSET Class] /\ s \in Slots
  BY <1>0, SlotsInRange DEF TypeOK, Lists
<1> HIDE DEF s, h, g, p, q
<1>6. c \in Class /\ c \in h[t][s]
  BY <1>1, <1>5
<1>7. g[t] = [h[t] EXCEPT ![s] = @ \ {c}]
  BY <1>1, <1>5 DEF Lists
<1>8. Cardinality(Nodes(g[t])) = Cardinality(Nodes(h[t])) - 1
  BY <1>5, <1>6, <1>7, RemoveNode
<1>9. ListsDifferAt(h, p, g, q, t)
  BY <1>1, <1>4, <1>5 DEF ListsDifferAt, Lists
<1>10. Cardinality(Nodes(g[t])) + Cardinality(Nodes(q[t]))
         = (Cardinality(Nodes(h[t])) + Cardinality(Nodes(p[t]))) - 1
  BY <1>4, <1>8, NodesFinite
<1> QED
  BY <1>0, <1>2, <1>9, <1>10, NodeBalance DEF h, g, p, q

(* While the list is moved its nodes change over from the pool to the heap *)
(* class; emptying the list afterwards changes nothing.                    *)
LEMMA AppendNodes ==
  ASSUME IInv, TypeOK', NodeInv, NEW t \in Threads, SpliceAppend(t) PROVE NodeInv'
<1> DEFINE z == index[t]
           s == SlotAt(t, z)
           h == heap_class
           g == heap_class'
           p == InPool(pc, index, shared_heap_classes)
           q == InPool(pc', index', shared_heap_classes')
<1>0. TypeOK /\ PlaceInv
  BY DEF IInv
<1>1. /\ pc[t] = "append" /\ g = [h EXCEPT ![t][s] = @ \cup shared_heap_classes[t][z]]
      /\ pc' = [pc EXCEPT ![t] = "reset"] /\ index' = index
      /\ shared_heap_classes' = shared_heap_classes /\ UNCHANGED nodeVars
  BY DEF SpliceAppend
<1>2. /\ h \in Lists /\ g \in Lists /\ shared_heap_classes \in Lists
      /\ p \in Lists /\ q \in Lists /\ pc \in [Threads -> Locations]
  <2>1. /\ h \in Lists /\ g \in Lists /\ pc \in [Threads -> Locations]
        /\ shared_heap_classes \in Lists /\ shared_heap_classes' \in Lists
    BY <1>0 DEF TypeOK, Lists
  <2> QED
    BY <2>1, InPoolType
<1>3. z \in Slots /\ s \in Slots
  <2>1. z \in SharedSlots
    BY <1>0 DEF TypeOK
  <2> QED
    BY <1>0, <2>1, SharedSlotsAreSlots, SlotsInRange
<1>4. h[t][s] \cap shared_heap_classes[t][z] = {}
  <2>1. ASSUME NEW c \in Class, c \in h[t][s], c \in shared_heap_classes[t][z] PROVE FALSE
    BY <1>0, <1>1, <1>3, <2>1 DEF PlaceInv
  <2> QED
    BY <1>2, <1>3, <2>1 DEF Lists
<1> HIDE DEF s
<1>5. p[t] = shared_heap_classes[t] /\ q[t] = [p[t] EXCEPT ![z] = {}]
  BY <1>1, <1>2, <1>3 DEF InPool, Lists
<1>6. \A u \in Threads \ {t} : q[u] = p[u]
  BY <1>1, <1>2 DEF InPool
<1>7. /\ h[t] \in [Slots -> SUBSET Class] /\ g[t] \in [Slots -> SUBSET Class]
      /\ p[t] \in [Slots -> SUBSET Class] /\ q[t] \in [Slots -> SUBSET Class]
  BY <1>2 DEF Lists
<1> HIDE DEF z, h, g, p, q
<1>8. g[t] = [h[t] EXCEPT ![s] = @ \cup p[t][z]] /\ h[t][s] \cap p[t][z] = {}
  BY <1>1, <1>2, <1>3, <1>4, <1>5 DEF Lists
<1>9. Cardinality(Nodes(g[t])) + Cardinality(Nodes(q[t]))
        = Cardinality(Nodes(h[t])) + Cardinality(Nodes(p[t]))
  <2>1. Spliced(h[t], p[t], g[t], q[t], s, z)
    BY <1>3, <1>5, <1>7, <1>8 DEF Spliced
  <2> QED
    BY <2>1, SpliceNodes
<1>10. ListsDifferAt(h, p, g, q, t)
  BY <1>1, <1>2, <1>6 DEF ListsDifferAt, Lists
<1> QED
  BY <1>0, <1>1, <1>9, <1>10, NodeBalance DEF h, g, p, q

LEMMA ResetNodes ==
  ASSUME IInv, TypeOK', NodeInv, NEW t \in Threads, SpliceReset(t) PROVE NodeInv'
<1>0. TypeOK
  BY DEF IInv
<1>1. /\ pc[t] = "reset" /\ heap_class' = heap_class /\ UNCHANGED nodeVars
      /\ shared_heap_classes' = [shared_heap_classes EXCEPT ![t][index[t]] = {}]
      /\ pc' = [pc EXCEPT ![t] = "append"] \/ pc' = [pc EXCEPT ![t] = "access"]
      /\ \A u \in Threads \ {t} : index'[u] = index[u]
  BY <1>0 DEF SpliceReset, NextLifetime, TypeOK
<1>2. pc \in [Threads -> Locations] /\ shared_heap_classes \in Lists
  BY <1>0 DEF TypeOK, Lists
<1>3. ASSUME NEW u \in Threads
      PROVE  InPool(pc', index', shared_heap_classes')[u]
               = InPool(pc, index, shared_heap_classes)[u]
  <2>1. CASE u = t
    BY <1>1, <1>2, <2>1 DEF InPool, Lists
  <2>2. CASE u # t
    BY <1>1, <1>2, <2>2 DEF InPool, Lists
  <2> QED
    BY <2>1, <2>2
<1>4. InPool(pc', index', shared_heap_classes') = InPool(pc, index, shared_heap_classes)
  BY <1>3 DEF InPool
<1>5. NodesInLists' = NodesInLists
  BY <1>1, <1>4 DEF NodesInLists
<1> QED
  BY <1>1, <1>5 DEF NodeInv, nodeVars

LEMMA NodeStep ==
  ASSUME IInv, TypeOK', NodeInv, NEW t \in Threads, Step(t) PROVE NodeInv'
<1>1. pc \in [Threads -> Locations] /\ index \in [Threads -> SharedSlots]
  BY DEF IInv, TypeOK
<1> DEFINE Frame ==
      /\ UNCHANGED <<heap_class, shared_heap_classes, nodeVars>>
      /\ \A u \in Threads : pc'[u] = "reset" <=> pc[u] = "reset"
      /\ \A u \in Threads : pc[u] = "reset" => index'[u] = index[u]
<1>2. Frame => NodeInv'
  BY NodeFrame
<1>3. CASE BarrierBlock(t) \/ AllocateLSClass(t)
  <2>1. Frame
    BY <1>1, <1>3 DEF BarrierBlock, AllocateLSClass
  <2> QED
    BY <1>2, <2>1
<1>4. CASE BarrierRelease(t)
  <2>1. Frame
    BY <1>1, <1>4 DEF BarrierRelease, LoopHead
  <2> QED
    BY <1>2, <2>1
<1>5. CASE (\E r \in Threads : ShareLock(t, r)) \/ FetchLock(t)
  <2>1. Frame
    BY <1>1, <1>5 DEF ShareLock, FetchLock
  <2> QED
    BY <1>2, <2>1
<1>6. CASE SpliceSkip(t)
  <2>1. Frame
    BY <1>1, <1>6 DEF SpliceSkip, NextLifetime
  <2> QED
    BY <1>2, <2>1
<1>7. CASE AccessLiveLClasses(t) \/ DeallocateLSClass(t)
  <2>1. Frame
    BY <1>1, <1>7 DEF AccessLiveLClasses, DeallocateLSClass
  <2> QED
    BY <1>2, <2>1
<1>8. CASE EndTimeUnit(t)
  <2>1. Frame
    BY <1>1, <1>8 DEF EndTimeUnit, LoopHead
  <2> QED
    BY <1>2, <2>1
<1>9. CASE ClassBufferOverflow(t) \/ NodeBufferOverflow(t)
  <2>1. Frame
    BY <1>9 DEF ClassBufferOverflow, NodeBufferOverflow
  <2> QED
    BY <1>2, <2>1
<1> QED
  BY <1>3, <1>4, <1>5, <1>6, <1>7, <1>8, <1>9,
     KeepNodes, InsertNodes, UnreferenceNodes, AppendNodes, ResetNodes DEF Step

LEMMA NodeInit == Init => NodeInv
<1> SUFFICES ASSUME Init PROVE NodeInv
  OBVIOUS
<1>1. \A t \in Threads : node_cache[t] = 0 /\ node_buffer_counter[t] = 0
  BY DEF Init
<1>2. \A t \in Threads : NodesInLists[t] = 0
  <2> TAKE t \in Threads
  <2>1. Nodes(heap_class[t]) = {}
    BY DEF Init, Nodes
  <2>2. Nodes(InPool(pc, index, shared_heap_classes)[t]) = {}
    BY DEF Init, Nodes, InPool
  <2>3. Cardinality({}) = 0
    BY FS_EmptySet
  <2> QED
    BY <2>1, <2>2, <2>3 DEF NodesInLists, NodeCount
<1>3. IsFiniteSet(Threads) /\ Cardinality(Threads) \in Nat
  BY FiniteData, FS_CardinalityType
<1>4. /\ SumFunctionOnSet(NodesInLists, Threads) = Cardinality(Threads) * 0
      /\ SumFunctionOnSet(node_cache, Threads) = Cardinality(Threads) * 0
      /\ SumFunctionOnSet(node_buffer_counter, Threads) = Cardinality(Threads) * 0
  BY <1>1, <1>2, <1>3, SumOfEquals
<1> QED
  BY <1>3, <1>4 DEF NodeInv

LEMMA NodeInvConserves ==
  ASSUME TypeOK, NodeInv PROVE NodesConserved
<1> DEFINE all == [t \in Threads |->
                     Cardinality(HeapNodes(t)) + Cardinality(PoolNodes(t)) + node_cache[t]]
<1>1. \A t \in Threads : /\ HeapNodes(t) = Nodes(heap_class[t])
                         /\ PoolNodes(t) = Nodes(InPool(pc, index, shared_heap_classes)[t])
  BY DEF HeapNodes, PoolNodes, Nodes, InPool, TypeOK
<1>2. \A t \in Threads : /\ NodesInLists[t] \in Int /\ node_cache[t] \in Int
                         /\ all[t] = NodesInLists[t] + node_cache[t]
  <2>1. \A t \in Threads : NodesInLists[t] \in Int /\ node_cache[t] \in Int
    <3>1. NodesInLists \in [Threads -> Nat]
      BY NodeCountType DEF NodesInLists
    <3>2. node_cache \in [Threads -> Nat]
      BY DEF TypeOK
    <3> QED
      BY <3>1, <3>2
  <2>2. \A t \in Threads : all[t] = NodesInLists[t] + node_cache[t]
    BY <1>1 DEF NodesInLists, NodeCount
  <2> QED
    BY <2>1, <2>2
<1>3. IsFiniteSet(Threads)
  BY FiniteData
<1>4. DOMAIN all = Threads /\ DOMAIN node_buffer_counter = Threads
  BY DEF TypeOK
<1> HIDE DEF all
<1>5. SumFunctionOnSet(all, Threads)
        = SumFunctionOnSet(NodesInLists, Threads) + SumFunctionOnSet(node_cache, Threads)
  BY <1>2, <1>3, SumAdd
<1>6. SumFunction(all) = SumFunction(node_buffer_counter)
  BY <1>4, <1>5 DEF SumFunction, NodeInv
<1> QED
  BY <1>6 DEF all, NodesConserved

(* Whichever thread takes a node from its buffer or cache (get_LSCNode) and *)
(* whichever puts it back (recycle_LSCNode), every node that was carved is *)
(* in a cache or in a list: no sharing and no splice loses one.            *)
THEOREM NodesAreConserved == Spec => []NodesConserved
<1>1. Init => NodeInv
  BY NodeInit
<1>2. IInv /\ IInv' /\ NodeInv /\ [Next]_vars => NodeInv'
  <2> SUFFICES ASSUME IInv, IInv', NodeInv, [Next]_vars PROVE NodeInv'
    OBVIOUS
  <2>1. TypeOK'
    BY DEF IInv
  <2>2. ASSUME NEW t \in Threads, Step(t) PROVE NodeInv'
    BY <2>1, <2>2, NodeStep
  <2>3. CASE UNCHANGED vars
    BY <2>3, NodeFrame DEF vars
  <2> QED
    BY <2>2, <2>3 DEF Next, Terminating
<1>3. IInv /\ NodeInv => NodesConserved
  BY NodeInvConserves DEF IInv
<1> QED
  BY <1>1, <1>2, <1>3, Inductive, PTL DEF Spec
=============================================================================
