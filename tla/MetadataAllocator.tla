------------------------- MODULE MetadataAllocator --------------------------
(***************************************************************************)
(* The bump allocator of src/metadata-allocator.c.  Everything the         *)
(* benchmark itself needs (contexts, statistics, lists, node and class     *)
(* buffers) lies in one mapping; nothing is ever given back.  Contexts and *)
(* buffers are aligned to cache lines so that the threads do not disturb   *)
(* each other's measurements.                                              *)
(*                                                                         *)
(* main maps the heap and run_acdc allocates before it starts the threads: *)
(* there is one caller (module Startup).  Addresses are bytes from the     *)
(* start of the mapping, which the system aligns to pages.  That           *)
(* calloc_meta also zeroes the block, the choice between huge and small    *)
(* pages and the warm-up of the pages are left out.                        *)
(***************************************************************************)
EXTENDS Integers, Sequences

CONSTANT LineSize      (* L1_LINE_SZ                                       *)

ASSUME LineAssumption == LineSize \in Nat \ {0}

VARIABLES
  heap_end,      (* metadata_heap_end; 0 before the heap is mapped         *)
  bump,          (* metadata_heap_bump_pointer                             *)
  blocks,        (* the blocks handed out, in order: [start, size, align]  *)
  failed         (* no mapping, or "out of metadata space": exit           *)

heapVars == <<heap_end, bump, blocks, failed>>

DefaultAlignment == 16
Alignments == {DefaultAlignment, LineSize}

HeapInit ==
  /\ heap_end = 0
  /\ bump = 0
  /\ blocks = << >>
  /\ failed = FALSE

(* init_metadata_heap: a mapping of no bytes fails, any other one may.     *)
InitMetadataHeap(heapsize) ==
  /\ ~failed
  /\ heap_end = 0
  /\ \/ /\ heapsize > 0
        /\ heap_end' = heapsize
        /\ bump' = 0
        /\ UNCHANGED <<blocks, failed>>
     \/ /\ failed' = TRUE
        /\ UNCHANGED <<heap_end, bump, blocks>>

(* A plausible slip: down to the boundary before the pointer.              *)
AlignAddress_Down(ptr, alignment) == alignment * (ptr \div alignment)

(* align_address: the next multiple, for powers of two.                    *)
AlignAddress(ptr, alignment) == alignment * ((ptr + (alignment - 1)) \div alignment)

ChunkSize(size, alignment) == size + (alignment - 1)

(* A plausible slip: the end is compared with the old bump pointer.        *)
Malloc_CheckedBefore(size, alignment) ==
  /\ ~failed
  /\ UNCHANGED heap_end
  /\ bump' = bump + ChunkSize(size, alignment)
  /\ \/ bump >= heap_end /\ failed' = TRUE /\ UNCHANGED blocks
     \/ /\ bump < heap_end
        /\ blocks' = Append(blocks, [start |-> AlignAddress(bump, alignment),
                                     size  |-> size,
                                     align |-> alignment])
        /\ UNCHANGED failed

(* malloc_meta_aligned, malloc_meta and the callocs: get_chunk moves the   *)
(* bump pointer first, and exits if it reaches the end of the heap.        *)
Malloc(size, alignment) ==
  /\ ~failed
  /\ UNCHANGED heap_end
  /\ bump' = bump + ChunkSize(size, alignment)
  /\ \/ /\ bump' >= heap_end
        /\ failed' = TRUE
        /\ UNCHANGED blocks
     \/ /\ bump' < heap_end
        /\ blocks' = Append(blocks, [start |-> AlignAddress(bump, alignment),
                                     size  |-> size,
                                     align |-> alignment])
        /\ UNCHANGED failed

HeapNext ==
  \/ \E heapsize \in Nat : InitMetadataHeap(heapsize)
  \/ \E size \in Nat, alignment \in Alignments : Malloc(size, alignment)

(* The allocator, whatever it is asked for.                                *)
HeapSpec == HeapInit /\ [][HeapNext]_heapVars

-----------------------------------------------------------------------------
HeapTypeOK ==
  /\ heap_end \in Nat
  /\ bump \in Nat
  /\ blocks \in Seq([start : Nat, size : Nat, align : Alignments])
  /\ failed \in BOOLEAN

(* No byte is handed out twice: a block starts behind all earlier ones,    *)
(* although a chunk starts where the padding of the last one may still be. *)
BlocksDisjoint ==
  \A j \in 1 .. Len(blocks), k \in 1 .. Len(blocks) :
    j < k => blocks[j].start + blocks[j].size <= blocks[k].start

(* Alignment never moves a block out of the heap: the check against the    *)
(* end is made on the bump pointer, before the address is aligned.         *)
BlocksInHeap ==
  \A k \in 1 .. Len(blocks) : blocks[k].start + blocks[k].size < heap_end

(* The lines that a block touches.                                         *)
FirstLine(b) == b.start \div LineSize
LastLine(b) == (b.start + b.size - 1) \div LineSize

(* A block that is aligned to lines and fills them (the buffers of nodes   *)
(* and classes) shares no line with any other block.                       *)
LinesNotShared ==
  \A j \in 1 .. Len(blocks), k \in 1 .. Len(blocks) :
    LET b == blocks[j]
        c == blocks[k]
    IN  j # k /\ b.align = LineSize /\ b.size % LineSize = 0 /\ b.size > 0 /\ c.size > 0
          => LastLine(b) < FirstLine(c) \/ LastLine(c) < FirstLine(b)
=============================================================================
