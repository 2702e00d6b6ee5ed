------------------------------ MODULE Startup -------------------------------
(***************************************************************************)
(* From the command line to the threads: main reads the options, checks    *)
(* them and estimates the buffer sizes that were not given                 *)
(* (src/main.c); init_metadata_heap maps the heap; run_acdc allocates what *)
(* all threads use and then one context per thread (src/acdc.c), each with *)
(* the bump allocator of module MetadataAllocator.                         *)
(*                                                                         *)
(* Left out: options that nothing here depends on but the record of them   *)
(* (verbosity), what is printed, and negative values, except the -1 that   *)
(* stands for a time gap that was not given.  The estimate is computed in  *)
(* the code with doubles, here with fractions; shifts, products and casts  *)
(* that the code makes in int or in unsigned long are those of x86-64,     *)
(* where the language leaves them undefined.  What is asked of the heap is *)
(* not cut to a size_t: a buffer of nearly 2^64 entries fails here, while  *)
(* the code moves the bump pointer down and crashes zeroing the block.     *)
(***************************************************************************)
EXTENDS MetadataAllocator

CONSTANTS
  CommandLines,   (* the sequences of options to start with                *)
  IntBits,        (* bits of an int                                        *)
  ULongRange      (* number of values of an unsigned long or a size_t      *)

IntSign == 2^(IntBits - 1)
IntMax == IntSign - 1
IntMin == -IntSign

ASSUME IntAssumption ==
  /\ IntBits \in Nat \ {0}
  /\ \A k \in 0 .. IntBits - 1 : 2^k \in Nat \ {0}
  /\ ULongRange \in Nat
  /\ ULongRange >= 2 * IntSign

(* What is left of x in an int, and in an unsigned long.                   *)
ToInt(x) == ((x + IntSign) % (2 * IntSign)) - IntSign
ToULong(x) == x % ULongRange

(* A double cast to int: x86-64 makes the least int of what does not fit.  *)
CastToInt(x) == IF x \in IntMin .. IntMax THEN x ELSE IntMin

(* 1 << k: the processor looks at the low bits of k only.                  *)
OneShifted(k) == ToInt(2^(k % IntBits))

(* The fraction a / b without what is behind the point.                    *)
Truncated(a, b) ==
  CASE a >= 0 /\ b > 0 -> a \div b
    [] a < 0  /\ b > 0 -> -((-a) \div b)
    [] a >= 0 /\ b < 0 -> -(a \div (-b))
    [] a < 0  /\ b < 0 -> (-a) \div (-b)

VARIABLES
  argv,          (* the options that main was started with                 *)
  optind,        (* the next one that getopt returns                       *)
  gopts,         (* global_options                                         *)
  phase          (* where main is                                          *)

vars == <<argv, optind, gopts, phase, heapVars>>

NumberOptions ==
  {"num_threads", "time_quantum", "benchmark_duration", "seed", "metadata_heap_sz",
   "min_liveness", "max_liveness", "deallocation_delay", "min_object_sc", "max_object_sc",
   "fixed_number_of_objects", "node_buffer_size", "class_buffer_size",
   "shared_objects_ratio", "receiving_threads_ratio", "list_based_ratio",
   "write_iterations", "write_access_ratio"}
Flags == {"shared_objects", "access_live_objects"}

(* Bound of the model: numbers up to half the largest int, so that the sum *)
(* of two of them is an int; the quantum is an unsigned long.              *)
Numbers == 0 .. (IntMax \div 2)

(* What -x value stands for; -h has no field.                              *)
Option ==
       ((NumberOptions \ {"time_quantum"}) \X Numbers)
  \cup ({"time_quantum"} \X (0 .. ULongRange - 1))
  \cup (Flags \X {TRUE})
  \cup ({"max_time_gap"} \X Numbers)
  \cup ({"mode"} \X {"ACDC", "FS"})
  \cup ({"allocator_name"} \X {"nulloc", "compact", "other"})
  \cup {<<"help", TRUE>>}

ASSUME CommandLinesAssumption ==
  \A line \in CommandLines : \A i \in 1 .. Len(line) : line[i] \in Option

(* set_default_params                                                      *)
DefaultParams ==
  [mode |-> "ACDC", num_threads |-> 1, time_quantum |-> 262144,
   benchmark_duration |-> 100, seed |-> 1, metadata_heap_sz |-> 0,
   min_liveness |-> 1, max_liveness |-> 10, max_time_gap |-> -1,
   deallocation_delay |-> 0, min_object_sc |-> 4, max_object_sc |-> 8,
   fixed_number_of_objects |-> 0, node_buffer_size |-> 0, class_buffer_size |-> 0,
   shared_objects |-> FALSE, shared_objects_ratio |-> 0, receiving_threads_ratio |-> 100,
   list_based_ratio |-> 100, btree_based_ratio |-> 0, write_iterations |-> 1,
   write_access_ratio |-> 10, access_live_objects |-> FALSE,
   allocator_name |-> "UNDEFINED", do_baseline_rss |-> FALSE,
   use_compact_allocation |-> FALSE]

-----------------------------------------------------------------------------
(* autodetect_metadata_parameters.  The expected liveness is half of       *)
(* Liveness2, the expected size class half of SizeClass2, the expected size*)
(* half of the sum of two shifted ones, and the expected bytes of a class  *)
(* are a 32nd of ClassBytes32: negative if a one is shifted into the sign. *)
Liveness2(g) == g.max_liveness + g.min_liveness
SizeClass2(g) == g.max_object_sc + g.min_object_sc

ClassBytes32(g) ==
  LET expected_sc == SizeClass2(g) \div 2
      liveness_effect == g.max_liveness - g.min_liveness + 2
      size_effect == g.max_object_sc - g.min_object_sc + 2
  IN  (OneShifted(expected_sc) + OneShifted(expected_sc + 1))
        * (liveness_effect * liveness_effect) * (size_effect * size_effect)

(* A plausible slip: the quantum is not looked at.                         *)
QuantumTooSmall_Never(g) == FALSE

QuantumTooSmall(g) == ClassBytes32(g) > 32 * g.time_quantum

(* The expected number of classes a thread has, with the time gap and the  *)
(* share of the others if objects are shared; infinite, or no number, if a *)
(* class is expected to have no bytes, which no int holds.                 *)
ExpectedClasses(g) ==
  IF ClassBytes32(g) = 0 THEN IntMax + 1
  ELSE IF g.shared_objects
  THEN Truncated(4 * Liveness2(g) * g.time_quantum * (2 * g.max_time_gap + Liveness2(g))
                   * (100 + ToInt(g.num_threads * g.shared_objects_ratio)),
                 25 * ClassBytes32(g))
  ELSE Truncated(16 * Liveness2(g) * Liveness2(g) * g.time_quantum, ClassBytes32(g))

(* The doubling is one of ints, and a negative int a huge size_t.          *)
ClassBufferSize(g) == ToULong(ToInt(2 * CastToInt(ExpectedClasses(g))))

(* The nodes for classes that other threads share.                         *)
ReceivedNodes(g) ==
  CastToInt(Truncated(ClassBufferSize(g) * ToInt(g.num_threads * g.receiving_threads_ratio), 100))

NodeBufferSize(g) ==
  IF g.shared_objects THEN ToULong(ClassBufferSize(g) + ReceivedNodes(g)) ELSE ClassBufferSize(g)

MB == 1048576

(* The megabytes of the buffers of all threads.                            *)
BufferMBs(g) ==
  ToULong((ToULong(ClassBufferSize(g) * LineSize) + ToULong(NodeBufferSize(g) * LineSize))
            * g.num_threads) \div MB

(* A plausible slip: no room for anything but the buffers.                 *)
MetadataHeapSize_BuffersOnly(g) == BufferMBs(g)

MetadataHeapSize(g) == ToULong(g.num_threads + BufferMBs(g))

Autodetected(g) ==
  [g EXCEPT !.class_buffer_size = ClassBufferSize(g),
            !.node_buffer_size = NodeBufferSize(g),
            !.metadata_heap_sz = MetadataHeapSize(g)]

-----------------------------------------------------------------------------
(* check_params: false-sharing mode overrides options; -q 100 means no     *)
(* trees; a time gap that was not given is the maximal liveness.           *)
ModeParams(g) ==
  IF g.mode = "FS"
  THEN [g EXCEPT !.receiving_threads_ratio = 100, !.shared_objects = TRUE,
                 !.shared_objects_ratio = 100, !.access_live_objects = FALSE,
                 !.write_access_ratio = 100]
  ELSE g

(* A plausible slip: the default is filled in later.                       *)
DerivedParams_NoGap(g) == [ModeParams(g) EXCEPT !.btree_based_ratio = 100 - g.list_based_ratio]

DerivedParams(g) ==
  [ModeParams(g) EXCEPT !.btree_based_ratio = 100 - g.list_based_ratio,
                        !.max_time_gap = IF @ < 0 THEN g.max_liveness ELSE @]

Sizes(g) == <<g.metadata_heap_sz, g.node_buffer_size, g.class_buffer_size>>
NoSizes == <<0, 0, 0>>

(* Parameter errors: main exits.  A maximal size that is not above the     *)
(* minimal one is only reported.                                           *)
Rejected(g) ==
  \/ g.list_based_ratio \notin 0 .. 100
  \/ Sizes(g) # NoSizes /\ \E i \in 1 .. 3 : Sizes(g)[i] = 0
  \/ Sizes(g) = NoSizes /\ QuantumTooSmall(DerivedParams(g))

Completed(g) ==
  IF Sizes(g) = NoSizes THEN Autodetected(DerivedParams(g)) ELSE DerivedParams(g)

(* set_allocation_pointers                                                 *)
WithAllocator(g) ==
  [g EXCEPT !.do_baseline_rss = @ \/ g.allocator_name = "nulloc",
            !.use_compact_allocation = @ \/ g.allocator_name = "compact"]

-----------------------------------------------------------------------------
(* What run_acdc and create_mutator_context allocate, in that order, with  *)
(* the sizes of the types on x86-64.                                       *)
Request(size, align) == [size |-> size, align |-> align]

GlobalRequests(g) ==
  << Request(8 * g.num_threads, DefaultAlignment),      (* threads              *)
     Request(8 * g.num_threads, DefaultAlignment),      (* thread_data          *)
     Request(8 * g.num_threads, DefaultAlignment),      (* thread_results       *)
     Request(8 * g.num_threads, DefaultAlignment),      (* shared_heap_classes  *)
     Request(40 * g.num_threads, DefaultAlignment) >>   (* their locks          *)

(* A plausible slip: the context need not be aligned.                      *)
ContextRequests_Unaligned(g) ==
  << Request(112, DefaultAlignment), Request(96, DefaultAlignment),
     Request(8 * (g.max_liveness + 1), DefaultAlignment),
     Request(8 * (g.max_object_sc + 1), DefaultAlignment),
     Request(16 * (g.max_liveness + g.deallocation_delay), DefaultAlignment),
     Request(16 * g.max_liveness, DefaultAlignment),
     Request(LineSize * g.node_buffer_size, LineSize),
     Request(LineSize * g.class_buffer_size, LineSize),
     Request(4 * g.num_threads, DefaultAlignment) >>

ContextRequests(g) ==
  << Request(112, LineSize),                                                  (* MContext            *)
     Request(96, DefaultAlignment),                                           (* stat                *)
     Request(8 * (g.max_liveness + 1), DefaultAlignment),                     (* lt_histogram        *)
     Request(8 * (g.max_object_sc + 1), DefaultAlignment),                    (* sz_histogram        *)
     Request(16 * (g.max_liveness + g.deallocation_delay), DefaultAlignment), (* heap_class          *)
     Request(16 * g.max_liveness, DefaultAlignment),                          (* shared_heap_classes *)
     Request(LineSize * g.node_buffer_size, LineSize),
     Request(LineSize * g.class_buffer_size, LineSize),
     Request(4 * g.num_threads, DefaultAlignment) >>                          (* thread_id_buffer    *)

Globals == 5
PerContext == 9

-----------------------------------------------------------------------------
Init ==
  /\ argv \in CommandLines
  /\ optind = 1
  /\ gopts = DefaultParams
  /\ phase = "parse"
  /\ HeapInit

(* One turn of the getopt loop; -h prints the usage and exits.             *)
ParseOption ==
  /\ phase = "parse"
  /\ optind <= Len(argv)
  /\ optind' = optind + 1
  /\ LET field == argv[optind][1]
         value == argv[optind][2]
     IN  \/ /\ field = "help"
            /\ phase' = "exited"
            /\ UNCHANGED gopts
         \/ /\ field # "help"
            /\ gopts' = [gopts EXCEPT ![field] = value]
            /\ UNCHANGED phase
  /\ UNCHANGED <<argv, heapVars>>

(* check_params, set_allocation_pointers                                   *)
CheckParams ==
  /\ phase = "parse"
  /\ optind > Len(argv)
  /\ \/ /\ Rejected(gopts)
        /\ phase' = "exited"
        /\ UNCHANGED gopts
     \/ /\ ~Rejected(gopts)
        /\ gopts' = WithAllocator(Completed(gopts))
        /\ phase' = "map"
  /\ UNCHANGED <<argv, optind, heapVars>>

MapHeap ==
  /\ phase = "map"
  /\ InitMetadataHeap(ToULong(gopts.metadata_heap_sz * MB))
  /\ phase' = IF failed' THEN "exited" ELSE "globals"
  /\ UNCHANGED <<argv, optind, gopts>>

(* run_acdc up to the initialisation of the barriers.                      *)
AllocateGlobal ==
  /\ phase = "globals"
  /\ Len(blocks) < Globals
  /\ LET request == GlobalRequests(gopts)[Len(blocks) + 1]
     IN  Malloc(request.size, request.align)
  /\ phase' = IF failed' THEN "exited" ELSE phase
  /\ UNCHANGED <<argv, optind, gopts>>

(* A barrier for no threads is an error, and only one mode is supported.   *)
ChooseThreadFunction ==
  /\ phase = "globals"
  /\ Len(blocks) = Globals
  /\ phase' = IF gopts.num_threads = 0 \/ gopts.mode = "FS" THEN "exited" ELSE "contexts"
  /\ UNCHANGED <<argv, optind, gopts, heapVars>>

(* create_mutator_context, thread after thread, one allocation at a time.  *)
AllocateContext ==
  /\ phase = "contexts"
  /\ Len(blocks) < Globals + PerContext * gopts.num_threads
  /\ LET request == ContextRequests(gopts)[((Len(blocks) - Globals) % PerContext) + 1]
     IN  Malloc(request.size, request.align)
  /\ phase' = IF failed' THEN "exited" ELSE phase
  /\ UNCHANGED <<argv, optind, gopts>>

CreateThreads ==
  /\ phase = "contexts"
  /\ Len(blocks) = Globals + PerContext * gopts.num_threads
  /\ phase' = "running"
  /\ UNCHANGED <<argv, optind, gopts, heapVars>>

Terminating == phase \in {"running", "exited"} /\ UNCHANGED vars

Next ==
  \/ ParseOption \/ CheckParams \/ MapHeap
  \/ AllocateGlobal \/ ChooseThreadFunction \/ AllocateContext \/ CreateThreads
  \/ Terminating

Spec == Init /\ [][Next]_vars

-----------------------------------------------------------------------------
Checked == phase \in {"map", "globals", "contexts", "running"}
Given(field) == \E i \in 1 .. Len(argv) : argv[i][1] = field

Fields == DOMAIN DefaultParams

TypeOK ==
  /\ argv \in CommandLines
  /\ DOMAIN gopts = Fields
  /\ \A field \in NumberOptions : gopts[field] \in Nat
  /\ gopts.max_time_gap \in Int
  /\ Checked => gopts.max_time_gap \in Nat
  /\ optind \in Nat \ {0}
  /\ HeapTypeOK

(* The lists and what else is not a buffer take half a megabyte at most.   *)
SmallContexts(g) ==
  40 * g.max_liveness + 16 * g.deallocation_delay + 8 * g.max_object_sc
    + 4 * g.num_threads + 3 * LineSize + 1000 <= MB \div 2

(* The buffers of all threads, and a megabyte more for each, end below the *)
(* largest address: no size_t of the estimate wraps around.                *)
BuffersAddressable(g) ==
  g.class_buffer_size + g.node_buffer_size < ((ULongRange \div g.num_threads) - MB) \div LineSize

(* With two threads or more the heap that autodetection asks for holds     *)
(* what run_acdc allocates: a megabyte per thread covers the contexts and  *)
(* the padding, and what the division by a megabyte cuts off.  (With one   *)
(* thread the division may cut off all of that megabyte.)  Provided that   *)
(* the contexts are small, since the megabyte is the same whatever -d, -L  *)
(* or -n asks for; and that the buffers fit the address space: estimates   *)
(* that wrap around are accepted, too, and the start then fails.           *)
TwoThreadsFit ==
  gopts.num_threads >= 2 /\ heap_end > 0 /\ ~Given("metadata_heap_sz")
    /\ SmallContexts(gopts) /\ BuffersAddressable(gopts)
      => ~failed

(* An estimate that main accepts has room for a class of every lifetime at *)
(* the same time, since a class fits the quantum: if what the estimate     *)
(* computes in ints fits them.  If it does not, main may accept the        *)
(* command line and give the class buffer no entry or nearly 2^64 of them: *)
(* check_params looks at none of it.  (No bytes are expected of a class if *)
(* a maximum is 2 below the minimum, which main only reports if at all; a  *)
(* negative number of bytes if the mean size class is 30 or 31.)           *)
FitsInt(g) ==
  /\ ClassBytes32(g) > 0
  /\ g.num_threads * g.shared_objects_ratio <= IntMax
  /\ 2 * ExpectedClasses(g) <= IntMax

BufferHoldsEveryLifetime ==
  Checked /\ ~Given("class_buffer_size") /\ gopts.min_liveness >= 1 /\ FitsInt(gopts)
    => gopts.class_buffer_size >= gopts.max_liveness

(* What belongs to one thread (its context, statistics, lists, buffers)    *)
(* shares no cache line with what belongs to another, or to all, although  *)
(* most of it is not aligned to lines.                                     *)
Owner(k) == IF k <= Globals THEN 0 ELSE ((k - (Globals + 1)) \div PerContext) + 1

ThreadsOnOwnLines ==
  \A j \in 1 .. Len(blocks), k \in 1 .. Len(blocks) :
    Owner(j) < Owner(k) /\ blocks[j].size > 0 => LastLine(blocks[j]) < FirstLine(blocks[k])
=============================================================================
