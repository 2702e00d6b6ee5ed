------------------------ MODULE LifetimeSizeClasses -------------------------
(***************************************************************************)
(* The objects of one lifetime-size-class (src/lifetime-size-classes.c):   *)
(* linked lists and binary trees that are threaded through the objects     *)
(* themselves, allocated one by one or, compact, in one block; traversed   *)
(* any number of times; and deallocated while the links are still being    *)
(* read out of the very objects that are given back.                       *)
(*                                                                         *)
(* Addresses count objects.  The allocator is external: malloc returns     *)
(* fresh memory, and what was freed holds junk at once (another thread may *)
(* have got it).  All sizes are large enough for the links: acdc_thread    *)
(* rounds them up before it allocates.                                     *)
(***************************************************************************)
EXTENDS Integers, Sequences, FiniteSets, SequencesExt

CONSTANTS
  MaxObjects,        (* bound on the number of objects of a class          *)
  WriteAccessRatio,  (* -w: percentage of objects that are written         *)
  Null, Junk         (* the null pointer; what freed memory holds          *)

ASSUME BoundAssumption == MaxObjects \in Nat \ {0} /\ WriteAccessRatio \in Nat

Types == {"LIST", "OPTIMAL_LIST", "BTREE", "OPTIMAL_BTREE"}
IsList(type) == type \in {"LIST", "OPTIMAL_LIST"}
IsCompact(type) == type \in {"OPTIMAL_LIST", "OPTIMAL_BTREE"}

Address == 0 .. MaxObjects - 1

ASSUME NullAssumption == Null \notin Address

(* What the provers do not know of powers of two.                          *)
ASSUME PowersAssumption ==
  /\ 2 ^ 0 = 1
  /\ \A k \in 0 .. MaxObjects : 2 ^ k \in Nat /\ 2 ^ (k + 1) = 2 * 2 ^ k

VARIABLES
  pc,        (* "new", "live", "traverse", "deallocate", "recycled"        *)
  type,      (* c->type                                                    *)
  num,       (* c->num_objects                                             *)
  left,      (* the first word of an object: 'next' in lists, or 'left'    *)
  right,     (* the second word: 'right' in trees                          *)
  blocks,    (* [block start -> size]: what the allocator handed out       *)
  stack,     (* the calls in progress: [node, stage], innermost first      *)
  visited,   (* the objects the current traversal has met, in order        *)
  written    (* those it has written to                                    *)

vars == <<pc, type, num, left, right, blocks, stack, visited, written>>

(* The addresses inside allocated blocks.                                  *)
Allocated == UNION {b .. b + blocks[b] - 1 : b \in DOMAIN blocks}

Links(f) == [a \in Address |-> IF a \in DOMAIN f THEN f[a] ELSE Junk]

-----------------------------------------------------------------------------
(***************************************************************************)
(* The shapes.  Addresses are in the order of allocation.                  *)
(***************************************************************************)

(* allocate_list and allocate_optimal_list_unaligned: a chain.             *)
ListNext(n) == [i \in 0 .. n - 1 |-> IF i = n - 1 THEN Null ELSE i + 1]

(* A plausible slip: all the remaining objects go to one side.             *)
LeftHalf_None(n) == 0
LeftHalf(n) == (n - 1) \div 2

(* build_tree_recursion of m objects: the root is allocated before its left *)
(* subtree, the left before the right one.  For every object, in the order *)
(* of allocation, how far behind it its children are; 0 is no child.       *)
BuildTree(tree, m) ==
  LET half == LeftHalf(m)
      rest == m - 1 - half
  IN  [i \in 0 .. m - 1 |->
         IF i = 0 THEN [left  |-> IF half = 0 THEN 0 ELSE 1,
                        right |-> IF rest = 0 THEN 0 ELSE 1 + half]
         ELSE IF i <= half THEN tree[half][i - 1]
         ELSE tree[rest][i - 1 - half]]

Tree(n) ==
  LET tree[m \in 0 .. n] == BuildTree(tree, m)
  IN  tree[n]

Behind(a, distance) == IF distance = 0 THEN Null ELSE a + distance

TreeLeft(n) == [a \in 0 .. n - 1 |-> Behind(a, Tree(n)[a].left)]
TreeRight(n) == [a \in 0 .. n - 1 |-> Behind(a, Tree(n)[a].right)]

(* A plausible slip: the last object of the array is left out.             *)
ChildIndex_LastLost(i, n) == IF i >= n - 1 THEN Null ELSE i

(* allocate_optimal_btree: the children of i, if the array is long enough. *)
ChildIndex(i, n) == IF i > n - 1 THEN Null ELSE i

ArrayLeft(n) == [i \in 0 .. n - 1 |-> ChildIndex(2 * i + 1, n)]
ArrayRight(n) == [i \in 0 .. n - 1 |-> ChildIndex(2 * i + 2, n)]

-----------------------------------------------------------------------------
Init ==
  /\ pc = "new"
  /\ type \in Types
  /\ num \in 1 .. MaxObjects
  /\ left = [a \in Address |-> Junk]
  /\ right = [a \in Address |-> Junk]
  /\ blocks = << >>
  /\ stack = << >>
  /\ visited = << >>
  /\ written = {}

(* allocate_LSClass                                                        *)
Allocate ==
  /\ pc = "new"
  /\ pc' = "live"
  /\ blocks' = IF IsCompact(type) THEN [a \in {0} |-> num] ELSE [a \in 0 .. num - 1 |-> 1]
  /\ CASE IsList(type) ->
            left' = Links(ListNext(num)) /\ UNCHANGED right
       [] type = "BTREE" ->
            left' = Links(TreeLeft(num)) /\ right' = Links(TreeRight(num))
       [] type = "OPTIMAL_BTREE" ->
            left' = Links(ArrayLeft(num)) /\ right' = Links(ArrayRight(num))
  /\ UNCHANGED <<type, num, stack, visited, written>>

Call(node, stage) == [node |-> node, stage |-> stage]

(* traverse_LSClass, from the first object on.                             *)
TraverseBegin ==
  /\ pc = "live"
  /\ pc' = "traverse"
  /\ stack' = <<Call(0, "visit")>>
  /\ visited' = << >>
  /\ written' = {}
  /\ UNCHANGED <<type, num, left, right, blocks>>

(* write_ith_element                                                       *)
WriteIthElement(i) ==
  CASE WriteAccessRatio = 0 -> FALSE
    [] WriteAccessRatio >= 100 -> TRUE
    [] OTHER -> i % (100 \div WriteAccessRatio) = 0

(* A plausible slip: the counter is incremented before it is used.         *)
AccessCounter_Before == IF IsList(type) THEN Len(visited) + 1 ELSE 0

(* The access counter: lists count the objects they pass, the recursive    *)
(* functions start a counter of their own in every call.                   *)
AccessCounter == IF IsList(type) THEN Len(visited) ELSE 0

(* One object of traverse_list or of one of the two recursive functions,   *)
(* which both go to the right before they go to the left.                  *)
Visit ==
  /\ pc = "traverse"
  /\ stack # << >>
  /\ LET t == Head(stack).node
     IN  IF t = Null
         THEN stack' = Tail(stack) /\ UNCHANGED <<visited, written>>
         ELSE /\ visited' = Append(visited, t)
              /\ written' = IF WriteIthElement(AccessCounter)
                            THEN written \cup {t} ELSE written
              /\ stack' = (IF IsList(type)
                           THEN <<Call(left[t], "visit")>>
                           ELSE <<Call(right[t], "visit"), Call(left[t], "visit")>>)
                          \o Tail(stack)
  /\ UNCHANGED <<pc, type, num, left, right, blocks>>

TraverseEnd ==
  /\ pc = "traverse"
  /\ stack = << >>
  /\ pc' = "live"
  /\ UNCHANGED <<type, num, left, right, blocks, stack, visited, written>>

(* deallocate(): the external allocator takes the block that starts at a.  *)
FreeBlock(a) ==
  /\ blocks' = [b \in DOMAIN blocks \ {a} |-> blocks[b]]
  /\ left' = [b \in Address |-> IF b \in a .. a + blocks[a] - 1 THEN Junk ELSE left[b]]
  /\ right' = [b \in Address |-> IF b \in a .. a + blocks[a] - 1 THEN Junk ELSE right[b]]

(* deallocate_LSClass: compact classes go in one piece ...                 *)
DeallocateCompact ==
  /\ pc = "live"
  /\ IsCompact(type)
  /\ FreeBlock(0)
  /\ pc' = "recycled"
  /\ UNCHANGED <<type, num, stack, visited, written>>

(* ... the others object by object.                                        *)
DeallocateBegin ==
  /\ pc = "live"
  /\ ~IsCompact(type)
  /\ pc' = "deallocate"
  /\ stack' = <<Call(0, IF IsList(type) THEN "next" ELSE "left")>>
  /\ UNCHANGED <<type, num, left, right, blocks, visited, written>>

(* A plausible slip: the link is read from the object that was just freed. *)
NextOf_AfterFree(t) == left'[t]
NextOf(t) == left[t]

(* deallocate_list: read the link, free the object, go on.                 *)
DeallocateListObject ==
  /\ pc = "deallocate"
  /\ stack # << >>
  /\ Head(stack).stage = "next"
  /\ LET t == Head(stack).node
     IN  IF t = Null
         THEN stack' = << >> /\ UNCHANGED <<left, right, blocks>>
         ELSE FreeBlock(t) /\ stack' = <<Call(NextOf(t), "next")>>
  /\ UNCHANGED <<pc, type, num, visited, written>>

(* A plausible slip: the object is freed before its right subtree.         *)
AfterLeft_Free == "free"
AfterLeft == "right"

(* deallocate_subtree_recursion: left subtree, right subtree, object.      *)
DeallocateSubtree ==
  /\ pc = "deallocate"
  /\ stack # << >>
  /\ LET t == Head(stack).node
         stage == Head(stack).stage
         Return == stack' = Tail(stack)
         Descend(child, after) ==
           stack' = <<Call(child, "left"), Call(t, after)>> \o Tail(stack)
     IN  \/ stage = "left" /\ t = Null /\ Return /\ UNCHANGED <<left, right, blocks>>
         \/ /\ stage = "left" /\ t # Null
            /\ Descend(left[t], AfterLeft)
            /\ UNCHANGED <<left, right, blocks>>
         \/ /\ stage = "right"
            /\ Descend(right[t], "free")
            /\ UNCHANGED <<left, right, blocks>>
         \/ stage = "free" /\ FreeBlock(t) /\ Return
  /\ UNCHANGED <<pc, type, num, visited, written>>

(* recycle_LSClass                                                         *)
DeallocateEnd ==
  /\ pc = "deallocate"
  /\ stack = << >>
  /\ pc' = "recycled"
  /\ UNCHANGED <<type, num, left, right, blocks, stack, visited, written>>

Terminating == pc = "recycled" /\ UNCHANGED vars

Next ==
  \/ Allocate
  \/ TraverseBegin
  \/ Visit
  \/ TraverseEnd
  \/ DeallocateCompact
  \/ DeallocateBegin
  \/ DeallocateListObject
  \/ DeallocateSubtree
  \/ DeallocateEnd
  \/ Terminating

Spec == Init /\ [][Next]_vars

-----------------------------------------------------------------------------
(***************************************************************************)
(* Properties.                                                             *)
(***************************************************************************)

(* Whatever a traversal or a deallocation touches next is allocated memory *)
(* (or null), and what it frees is the start of a block: no link is read   *)
(* from an object that was given back, no object is given back twice.      *)
MemorySafe ==
  \A i \in 1 .. Len(stack) :
    stack[i].node \in Allocated \cup {Null}

(* A recycled class has given back all its memory.                         *)
NothingLeaks == pc = "recycled" => blocks = << >>

(* A traversal meets every object once, lists in the order of allocation.  *)
VisitsEachOnce ==
  pc = "traverse" /\ stack = << >> =>
    /\ Len(visited) = num
    /\ ToSet(visited) = 0 .. num - 1
    /\ IsList(type) => \A i \in 1 .. num : visited[i] = i - 1

(* Trees are balanced: the recursion that deallocates one is no deeper     *)
(* than its height, which is the smallest possible, and a null pointer.    *)
RecursionBounded ==
  pc = "deallocate" /\ type = "BTREE" /\ Len(stack) > 1 => 2 ^ (Len(stack) - 2) <= num

(* "write_access_ratio of 20 means that every 5th element is written": in  *)
(* lists, in every traversal.  (Of a tree all objects are written, since   *)
(* every call of the recursion counts from 0 again.)                       *)
ListsWriteEveryIth ==
  pc = "traverse" /\ stack = << >> /\ IsList(type) /\ WriteAccessRatio \in 1 .. 100 =>
    \A i \in 0 .. num - 1 : i \in written <=> i % (100 \div WriteAccessRatio) = 0
=============================================================================
