---------------------------- MODULE Distribution ----------------------------
(***************************************************************************)
(* What one thread draws (src/distribution.c), in the order in which       *)
(* acdc_thread (src/acdc.c) asks for it: the properties of the next class  *)
(* of objects, whether to share it, and the receivers.                     *)
(*                                                                         *)
(* get_random_thread_selection fills the sender's thread_id_buffer with    *)
(* all thread ids and removes random ones, each by swapping it with the    *)
(* last one that is left, until the receivers remain.  The buffer is used  *)
(* again for every class; share_LSClass reads its first size               *)
(* entries.  (Module Mutator takes the outcome as any set of that many     *)
(* threads.)                                                               *)
(***************************************************************************)
EXTENDS Random

CONSTANTS
  Options,     (* the options of the objects and of sharing to start with  *)
  NumThreads,  (* -n                                                       *)
  UIntRange,   (* number of values of an unsigned int                      *)
  Calls        (* bound: no other object after so many calls               *)

(* -s and -S: size classes for which a size is an int.                     *)
MaxSizeClass == 29

ASSUME OptionsAssumption ==
  \A o \in Options :
    /\ o.min_liveness \in Nat /\ o.max_liveness \in Nat
    /\ o.min_liveness <= o.max_liveness
    /\ o.min_object_sc \in Nat /\ o.max_object_sc \in 0 .. MaxSizeClass
    /\ o.min_object_sc < o.max_object_sc
    /\ o.fixed_number_of_objects \in Nat
    /\ o.list_based_ratio \in 0 .. 100
    /\ o.use_compact_allocation \in BOOLEAN
    /\ o.shared_objects \in BOOLEAN
    /\ o.shared_objects_ratio \in Nat
    /\ o.receiving_threads_ratio \in 1 .. 100

ASSUME DistributionAssumption ==
  /\ NumThreads \in Nat \ {0}
  /\ UIntRange \in Nat \ {0}
  /\ Calls \in Nat

(* What a prover does not know of ^.                                       *)
ASSUME PowersAssumption ==
  /\ 2^4 = 16 /\ 2^5 = 32
  /\ \A e \in 0 .. MaxSizeClass : 2^e \in Nat \ {0} /\ 2^(e + 1) = 2 * 2^e
  /\ \A d, e \in 0 .. MaxSizeClass : d <= e => 2^d <= 2^e

Ids == 0 .. NumThreads - 1

VARIABLES
  gopts,       (* the options                                              *)
  pc,          (* what the thread draws next                               *)
  liveness,    (* lt                                                       *)
  sc,          (* the size class that the size is drawn from               *)
  sz,          (* the size of an object                                    *)
  num_objects, (* the number of objects of the class                       *)
  type,        (* and how they are linked                                  *)
  array,       (* thread_id_array                                          *)
  size,        (* *thread_id_array_sz                                      *)
  i,           (* threads removed so far                                   *)
  selected     (* auxiliary: there has been a selection                    *)

objectVars == <<liveness, sc, sz, num_objects, type>>
bufferVars == <<array, size, i, selected>>
vars == <<randVars, gopts, pc, objectVars, bufferVars>>

(* calloc has left zeros in the buffer.                                    *)
Init ==
  /\ RandInit
  /\ gopts \in Options
  /\ pc = "liveness"
  /\ liveness = 0 /\ sc = 0 /\ sz = 0 /\ num_objects = 0 /\ type = "LIST"
  /\ array = [p \in Ids |-> 0]
  /\ size = NumThreads
  /\ i = 0
  /\ selected = FALSE

-----------------------------------------------------------------------------
(* get_random_object_props and what acdc_thread makes of the result.       *)

(* get_random_liveness                                                     *)
DrawLiveness ==
  /\ pc = "liveness"
  /\ calls < Calls
  /\ GetRandIntRange(gopts.min_liveness, gopts.max_liveness)
  /\ liveness' = result'
  /\ pc' = "class"
  /\ UNCHANGED <<gopts, sc, sz, num_objects, type, bufferVars>>

(* A plausible slip: the maximal size class is drawn, too.                 *)
LargestClass_Inclusive == gopts.max_object_sc

LargestClass == gopts.max_object_sc - 1

(* get_random_size                                                         *)
DrawSizeClass ==
  /\ pc = "class"
  /\ GetRandIntRange(gopts.min_object_sc, LargestClass)
  /\ sc' = result'
  /\ pc' = "size"
  /\ UNCHANGED <<gopts, liveness, sz, num_objects, type, bufferVars>>

DrawSize ==
  /\ pc = "size"
  /\ GetRandIntRange(2^sc, 2^(sc + 1) - 1)
  /\ sz' = result'
  /\ pc' = "type"
  /\ UNCHANGED <<gopts, liveness, sc, num_objects, type, bufferVars>>

(* get_sizeclass: the logarithm, rounded down.                             *)
SizeClass(x) == CHOOSE c \in 0 .. MaxSizeClass : 2^c <= x /\ x < 2 * 2^c

Unsigned(x) == x % UIntRange

(* A plausible slip: the largest and the longest-lived count for nothing.  *)
Effect_FromZero(largest, x) == Unsigned((largest - x) * (largest - x))

(* "quadratic impact" of a size class or of a liveness.                    *)
Effect(largest, x) == Unsigned((largest - x + 1) * (largest - x + 1))

NumObjects ==
  Unsigned(Effect(gopts.max_object_sc, SizeClass(sz)) * Effect(gopts.max_liveness, liveness))

(* sizeof(BTObject)                                                        *)
MinSize == 16
AtLeastMinSize(x) == IF x < MinSize THEN MinSize ELSE x

(* get_random_lifetime_size_class_type of the number drawn; -P compact.    *)
TypeOf(r) ==
  LET drawn == IF r < gopts.list_based_ratio THEN "LIST"
               ELSE IF r < 100 THEN "BTREE" ELSE "LIST"
  IN  CASE ~gopts.use_compact_allocation -> drawn
        [] gopts.use_compact_allocation /\ drawn = "LIST" -> "OPTIMAL_LIST"
        [] OTHER -> "OPTIMAL_BTREE"

(* The assertion on the number drawn, also if -F is to override it.        *)
Asserted == NumObjects > 0

AssertionFails ==
  /\ pc = "type"
  /\ ~Asserted
  /\ pc' = "aborted"
  /\ UNCHANGED <<randVars, gopts, objectVars, bufferVars>>

(* -F overrides what was drawn; then a size in which links fit.            *)
DrawType ==
  /\ pc = "type"
  /\ Asserted
  /\ GetRandIntRange(0, 100)
  /\ type' = TypeOf(result')
  /\ \/ /\ gopts.fixed_number_of_objects > 0
        /\ num_objects' = gopts.fixed_number_of_objects
        /\ sz' = AtLeastMinSize(2^gopts.min_object_sc)
        /\ liveness' = gopts.min_liveness
     \/ /\ gopts.fixed_number_of_objects = 0
        /\ num_objects' = NumObjects
        /\ sz' = AtLeastMinSize(sz)
        /\ UNCHANGED liveness
  /\ pc' = "share"
  /\ UNCHANGED <<gopts, sc, bufferVars>>

Shares(r) == r < gopts.shared_objects_ratio

(* get_sharing_dist: one of 101 numbers, unless nothing is shared at all.  *)
DrawSharing ==
  /\ pc = "share"
  /\ gopts.shared_objects
  /\ GetRandIntRange(0, 100)
  /\ pc' = IF Shares(result') THEN "select" ELSE "liveness"
  /\ UNCHANGED <<gopts, objectVars, bufferVars>>

BypassSharing ==
  /\ pc = "share"
  /\ ~gopts.shared_objects
  /\ pc' = "liveness"
  /\ UNCHANGED <<randVars, gopts, objectVars, bufferVars>>

-----------------------------------------------------------------------------
(* get_random_thread_selection.                                            *)

(* A plausible slip: the inner quotient is rounded up.                     *)
NumberOfSharingThreads_RoundedUp ==
  NumThreads \div ((100 + gopts.receiving_threads_ratio - 1) \div gopts.receiving_threads_ratio)

NumberOfSharingThreads == NumThreads \div (100 \div gopts.receiving_threads_ratio)

(* A plausible slip: the buffer is filled before the size is set anew.     *)
Filled_OldSize == [p \in Ids |-> IF p < size THEN p ELSE array[p]]

(* "init thread_id_array with all possible thread id's"                    *)
Filled == [p \in Ids |-> p]

(* A plausible slip: one id too many.                                      *)
StartSize_OneMore == NumThreads + 1
StartSize == NumThreads

Fill ==
  /\ pc = "select"
  /\ array' = Filled
  /\ size' = StartSize
  /\ i' = 0
  /\ selected' = TRUE
  /\ pc' = "remove"
  /\ UNCHANGED <<randVars, gopts, objectVars>>

(* swap_int                                                                *)
Swapped(id, last) == [array EXCEPT ![id] = array[last], ![last] = array[id]]

Removals == NumThreads - NumberOfSharingThreads

(* "randomly select a still existing thread id", "remove last element"     *)
Remove ==
  /\ pc = "remove"
  /\ i < Removals
  /\ GetRandIntRange(0, size - 1)
  /\ array' = Swapped(result', size - 1)
  /\ size' = size - 1
  /\ i' = i + 1
  /\ UNCHANGED <<gopts, pc, objectVars, selected>>

Return ==
  /\ pc = "remove"
  /\ i >= Removals
  /\ pc' = "liveness"
  /\ UNCHANGED <<randVars, gopts, objectVars, bufferVars>>

Terminating ==
  /\ \/ pc = "liveness" /\ calls >= Calls
     \/ pc = "aborted"
  /\ UNCHANGED vars

Next ==
  \/ DrawLiveness \/ DrawSizeClass \/ DrawSize \/ AssertionFails \/ DrawType
  \/ DrawSharing \/ BypassSharing
  \/ Fill \/ Remove \/ Return
  \/ Terminating

Spec == Init /\ [][Next]_vars

-----------------------------------------------------------------------------
TypeOK ==
  /\ rand \in Int /\ IsInt(rand)
  /\ gopts \in Options
  /\ pc \in {"liveness", "class", "size", "type", "share", "select", "remove", "aborted"}
  /\ liveness \in 0 .. gopts.max_liveness
  /\ sc \in 0 .. gopts.max_object_sc - 1
  /\ sz \in Nat
  /\ array \in [Ids -> Ids]
  /\ size \in 0 .. NumThreads
  /\ i \in 0 .. NumThreads
  /\ selected \in BOOLEAN

(* allocate_LSClass asserts that objects are smaller than the maximal size,*)
(* allocate that links fit into them, and the histogram of sizes ends at   *)
(* the maximal size class.                                                 *)
SizesAccepted ==
  pc = "share" =>
    sz >= MinSize /\ sz < 2^gopts.max_object_sc

(* With a maximal size above that of an object of a tree they all hold,    *)
(* although sizes are rounded up after they were drawn.                    *)
LargeSizesAccepted == gopts.max_object_sc > 4 => SizesAccepted

(* The number of objects is a product in unsigned ints, and the assertion  *)
(* behind it only excludes 0.  Whatever wraps around on the way, a class   *)
(* has at least one object and (unless -F says how many) no more than the  *)
(* options' largest product; and the program only stops at the assertion   *)
(* if that product is too large for an unsigned int.                       *)
LargestProduct ==
  LET liveness_effect == gopts.max_liveness - gopts.min_liveness + 1
      size_effect == gopts.max_object_sc - gopts.min_object_sc + 1
  IN  (liveness_effect * liveness_effect) * (size_effect * size_effect)

ObjectsCounted ==
  /\ pc = "share" =>
       num_objects > 0 /\ (gopts.fixed_number_of_objects = 0 => num_objects <= LargestProduct)
  /\ pc = "aborted" => LargestProduct >= UIntRange

(* share_LSClass sets the reference counter to size and inserts the class  *)
(* once for every entry.  The counter counts the class's owners only if no *)
(* thread is in the buffer twice, in any call.                             *)
ReceiversDistinct ==
  selected /\ pc # "select" =>
    \A p, q \in 0 .. size - 1 : array[p] = array[q] => p = q

(* acdc.h says of -T that "share_thread_ratio% of all threads will be     *)
(* involved".  The code divides twice in integers; how far that is from    *)
(* the percentage: never fewer threads than it, rounded down; exactly that *)
(* many if the ratio divides 100; up to a ratio of 50 at most half as many *)
(* again.  (Above 50, where the inner quotient is 1, all threads are       *)
(* selected: there the code does not do what acdc.h says.)                 *)
SelectionHasSize ==
  LET ratio == gopts.receiving_threads_ratio
      asked == NumThreads * ratio   (* in hundredths of a thread *)
  IN  selected /\ pc \notin {"select", "remove"} =>
        /\ size >= asked \div 100
        /\ 100 % ratio = 0 => size = asked \div 100
        /\ ratio <= 50 => 200 * size <= 3 * asked
=============================================================================
