------------------------------- MODULE LClass -------------------------------
(***************************************************************************)
(* The linked lists of ACDC, pointer by pointer (src/lifetime-class.c and  *)
(* its uses in src/acdc.c): nodes with 'next' and 'prev', lists with       *)
(* 'first' and 'last'.  Every thread has a cache of recycled nodes, a      *)
(* lifetime-class of its own and, in the distribution pool, one that the   *)
(* other threads fill.  Lists do not share nodes, so one lifetime-class of *)
(* each kind per thread stands for the whole array.                        *)
(*                                                                         *)
(* What is abstracted: the mutex that makes the two uses of a pool list    *)
(* mutually exclusive is a single step here (module Mutator has the lock), *)
(* and the LSClass that a node carries.                                    *)
(***************************************************************************)
EXTENDS Integers, Sequences, FiniteSets

CONSTANTS
  Threads,          (* mutator threads                                     *)
  NodeBufferSize,   (* -N: nodes per thread                                *)
  Null              (* the null pointer                                    *)

(* The slots of the threads' node buffers.                                 *)
Node == Threads \X (0 .. NodeBufferSize - 1)

ASSUME NullAssumption == Null \notin Node

ASSUME FiniteAssumption == IsFiniteSet(Threads) /\ NodeBufferSize \in Nat

Kinds == {"cache", "local", "remote"}

VARIABLES
  first, last,           (* [kind -> [thread -> node]]: the list headers   *)
  next, prev,            (* [node -> node]: the links                      *)
  node_buffer_counter,   (* nodes carved from the buffer so far            *)
  iterator,              (* heap_class_remove's iterator                   *)
  removing               (* threads inside heap_class_remove               *)

links == <<first, last, next, prev>>
vars == <<links, node_buffer_counter, iterator, removing>>

-----------------------------------------------------------------------------
(***************************************************************************)
(* src/lifetime-class.c.  A memory is a record of the four functions; the  *)
(* operations take one and return the next, and can so be composed the way *)
(* the code calls them.                                                    *)
(***************************************************************************)
Memory == [first |-> first, last |-> last, next |-> next, prev |-> prev]

Becomes(m) ==
  /\ first' = m.first
  /\ last' = m.last
  /\ next' = m.next
  /\ prev' = m.prev

(* A plausible slip: the header is not told about the new last node.       *)
LClassInsertAfter_LastKept(m, k, t, after, c) ==
  [m EXCEPT !.prev[c] = after, !.next[c] = m.next[after], !.next[after] = c]

LClassInsertAfter(m, k, t, after, c) ==
  LET linked == [m EXCEPT !.prev[c] = after, !.next[c] = m.next[after], !.next[after] = c]
  IN  IF m.next[after] = Null
      THEN [linked EXCEPT !.last[k][t] = c]
      ELSE [linked EXCEPT !.prev[m.next[after]] = c]

LClassInsertBefore(m, k, t, before, c) ==
  LET linked == [m EXCEPT !.prev[c] = m.prev[before], !.next[c] = before, !.prev[before] = c]
  IN  IF m.prev[before] = Null
      THEN [linked EXCEPT !.first[k][t] = c]
      ELSE [linked EXCEPT !.next[m.prev[before]] = c]

LClassInsertBeginning(m, k, t, c) ==
  IF m.first[k][t] = Null
  THEN [m EXCEPT !.first[k][t] = c, !.last[k][t] = c, !.prev[c] = Null, !.next[c] = Null]
  ELSE LClassInsertBefore(m, k, t, m.first[k][t], c)

LClassInsertEnd(m, k, t, c) ==
  IF m.last[k][t] = Null
  THEN LClassInsertBeginning(m, k, t, c)
  ELSE LClassInsertAfter(m, k, t, m.last[k][t], c)

(* A plausible slip: the successor keeps its back pointer.                 *)
LClassRemove_PrevKept(m, k, t, c) ==
  LET forward == IF m.prev[c] = Null
                 THEN [m EXCEPT !.first[k][t] = m.next[c]]
                 ELSE [m EXCEPT !.next[m.prev[c]] = m.next[c]]
  IN  IF m.next[c] = Null
      THEN [forward EXCEPT !.last[k][t] = m.prev[c]]
      ELSE forward

LClassRemove(m, k, t, c) ==
  LET forward == IF m.prev[c] = Null
                 THEN [m EXCEPT !.first[k][t] = m.next[c]]
                 ELSE [m EXCEPT !.next[m.prev[c]] = m.next[c]]
  IN  IF m.next[c] = Null
      THEN [forward EXCEPT !.last[k][t] = m.prev[c]]
      ELSE [forward EXCEPT !.prev[m.next[c]] = m.prev[c]]

-----------------------------------------------------------------------------
Init ==
  /\ first = [k \in Kinds |-> [t \in Threads |-> Null]]
  /\ last = [k \in Kinds |-> [t \in Threads |-> Null]]
  /\ next = [n \in Node |-> Null]
  /\ prev = [n \in Node |-> Null]
  /\ node_buffer_counter = [t \in Threads |-> 0]
  /\ iterator = [t \in Threads |-> Null]
  /\ removing = {}

(* A plausible slip: the node behind the buffer is handed out too.         *)
BufferHasRoom_OffByOne(t) == node_buffer_counter[t] <= NodeBufferSize

(* get_LSCNode exits when the node buffer overflows.                       *)
BufferHasRoom(t) == node_buffer_counter[t] < NodeBufferSize

(* heap_class_insert: get_LSCNode takes the first cached node, or carves   *)
(* one from the buffer, and the node goes to the end of the list.          *)
HeapClassInsert(t, k, r) ==
  /\ t \notin removing
  /\ LET Unlinked(m, n) == [m EXCEPT !.next[n] = Null, !.prev[n] = Null]
     IN  \/ /\ first.cache[t] # Null
            /\ LET n == first.cache[t]
               IN  Becomes(LClassInsertEnd(
                             Unlinked(LClassRemove(Memory, "cache", t, n), n), k, r, n))
            /\ UNCHANGED node_buffer_counter
         \/ /\ first.cache[t] = Null
            /\ BufferHasRoom(t)
            /\ LET n == <<t, node_buffer_counter[t]>>
               IN  Becomes(LClassInsertEnd(Unlinked(Memory, n), k, r, n))
            /\ node_buffer_counter' = [node_buffer_counter EXCEPT ![t] = @ + 1]
  /\ UNCHANGED <<iterator, removing>>

(* acdc_thread keeps a class, or share_LSClass gives it to thread r.       *)
Keep(t) == HeapClassInsert(t, "local", t)
Share(t, r) == HeapClassInsert(t, "remote", r)

(* A plausible slip: the own list keeps its old last node.                 *)
Joined_LastKept(t) ==
  [Memory EXCEPT
     !.first.local[t] = IF @ = Null THEN first.remote[t] ELSE @,
     !.last.local[t] = IF @ = Null THEN last.remote[t] ELSE @,
     !.next = IF first.local[t] = Null THEN @
              ELSE [@ EXCEPT ![last.local[t]] = first.remote[t]]]

(* The pool's list hangs behind the own one; nobody sets 'prev'.           *)
Joined(t) ==
  [Memory EXCEPT
     !.first.local[t] = IF @ = Null THEN first.remote[t] ELSE @,
     !.last.local[t] = last.remote[t],
     !.next = IF first.local[t] = Null THEN @
              ELSE [@ EXCEPT ![last.local[t]] = first.remote[t]]]

(* get_shared_LClasses, for one lifetime that has shared classes.          *)
GetSharedLClass(t) ==
  /\ t \notin removing
  /\ first.remote[t] # Null
  /\ Becomes([Joined(t) EXCEPT !.first.remote[t] = Null, !.last.remote[t] = Null])
  /\ UNCHANGED <<node_buffer_counter, iterator, removing>>

(* heap_class_remove: the iterator starts at the first node ...            *)
RemoveBegin(t) ==
  /\ t \notin removing
  /\ removing' = removing \cup {t}
  /\ iterator' = [iterator EXCEPT ![t] = first.local[t]]
  /\ UNCHANGED <<links, node_buffer_counter>>

(* ... it moves on before its node is recycled ...                         *)
RemoveNode(t) ==
  /\ t \in removing
  /\ iterator[t] # Null
  /\ iterator' = [iterator EXCEPT ![t] = next[iterator[t]]]
  /\ Becomes(LClassInsertBeginning(Memory, "cache", t, iterator[t]))
  /\ UNCHANGED <<node_buffer_counter, removing>>

(* ... and the header is reset at the end.                                 *)
RemoveEnd(t) ==
  /\ t \in removing
  /\ iterator[t] = Null
  /\ removing' = removing \ {t}
  /\ Becomes([Memory EXCEPT !.first.local[t] = Null, !.last.local[t] = Null])
  /\ UNCHANGED <<node_buffer_counter, iterator>>

Next ==
  \E t \in Threads :
    \/ Keep(t)
    \/ \E r \in Threads : Share(t, r)
    \/ GetSharedLClass(t)
    \/ RemoveBegin(t)
    \/ RemoveNode(t)
    \/ RemoveEnd(t)

Spec == Init /\ [][Next]_vars

-----------------------------------------------------------------------------
(***************************************************************************)
(* Properties.                                                             *)
(***************************************************************************)
TypeOK ==
  /\ first \in [Kinds -> [Threads -> Node \cup {Null}]]
  /\ last \in [Kinds -> [Threads -> Node \cup {Null}]]
  /\ next \in [Node -> Node \cup {Null}]
  /\ prev \in [Node -> Node \cup {Null}]
  /\ node_buffer_counter \in [Threads -> 0 .. NodeBufferSize]
  /\ iterator \in [Threads -> Node \cup {Null}]
  /\ removing \subseteq Threads

(* The nodes met when the links nx are followed from p, cut off after more *)
(* steps than there are nodes (a list that runs in a circle).              *)
Walk(nx, p) ==
  LET bound == Cardinality(Node) + 1
      walk[i \in 0 .. bound] ==
        [n \in Node \cup {Null} |->
           IF n = Null \/ i = 0 THEN <<>> ELSE <<n>> \o walk[i - 1][nx[n]]]
  IN  walk[bound][p]

(* The sequence a list stands for; while a thread removes its list, what   *)
(* the iterator has not reached yet.                                       *)
List(k, t) ==
  Walk(next, IF k = "local" /\ t \in removing THEN iterator[t] ELSE first[k][t])

(* A thread's list is being removed: its header is stale until the end.    *)
Stale(k, t) == k = "local" /\ t \in removing

(* The header leads to the end of the list: without it the next insertion  *)
(* would go astray, or the next splice cut the list.                       *)
LastEndsList ==
  \A k \in Kinds, t \in Threads : ~Stale(k, t) =>
    IF List(k, t) = <<>> THEN last[k][t] = Null
    ELSE last[k][t] = List(k, t)[Len(List(k, t))]

(* In list k of t, every node knows its predecessor.                       *)
BackLinked(k, t) ==
  \A i \in 1 .. Len(List(k, t)) :
    prev[List(k, t)[i]] = IF i = 1 THEN Null ELSE List(k, t)[i - 1]

(* lclass_remove takes nodes out of a cache by their 'prev'.  (The caches  *)
(* only: a splice leaves the first fetched node without a 'prev', so that  *)
(* lifetime-classes are singly linked there.)                              *)
CachesDoublyLinked == \A t \in Threads : BackLinked("cache", t)

(* The pointers implement sequences that share no node and lose none.      *)
AsSequences == INSTANCE LClassSequences WITH
  lists <- [k \in Kinds |-> [t \in Threads |-> List(k, t)]]

ImplementsSequences == AsSequences!Spec
=============================================================================
