-------------------------- MODULE LClassSequences ---------------------------
(***************************************************************************)
(* What the linked lists of src/lifetime-class.c stand for: every node is  *)
(* in at most one sequence.  A thread takes a node from the front of its   *)
(* cache, or a fresh one, and puts it at the end of a lifetime-class; it   *)
(* hangs the lifetime-class that others filled for it behind its own; and  *)
(* it recycles the nodes of its own lifetime-class one by one.             *)
(***************************************************************************)
EXTENDS Sequences

CONSTANTS
  Threads,   (* the owners of the lists                                    *)
  Node       (* the list nodes                                             *)

VARIABLE lists   (* [cache, local, remote : [Threads -> sequence of nodes]] *)

InSomeList(n) ==
  \E t \in Threads, k \in {"cache", "local", "remote"} :
    \E i \in DOMAIN lists[k][t] : lists[k][t][i] = n

Init == lists = [k \in {"cache", "local", "remote"} |-> [t \in Threads |-> <<>>]]

(* A node nobody used before goes to the end of list k of thread r.        *)
PutFresh(n, k, r) ==
  /\ ~InSomeList(n)
  /\ lists' = [lists EXCEPT ![k][r] = Append(@, n)]

(* The first cached node of t goes to the end of list k of thread r.       *)
PutCached(t, k, r) ==
  /\ lists.cache[t] # <<>>
  /\ lists' = [lists EXCEPT !.cache[t] = Tail(@),
                            ![k][r] = Append(@, Head(lists.cache[t]))]

(* All of t's shared nodes go, in order, behind its own.                   *)
Splice(t) ==
  lists' = [lists EXCEPT !.local[t] = @ \o lists.remote[t], !.remote[t] = <<>>]

(* The first of t's own nodes goes to the front of its cache.              *)
Recycle(t) ==
  /\ lists.local[t] # <<>>
  /\ lists' = [lists EXCEPT !.local[t] = Tail(@),
                            !.cache[t] = <<Head(lists.local[t])>> \o @]

Next ==
  \E t \in Threads :
    \/ \E r \in Threads, k \in {"local", "remote"} :
         (\E n \in Node : PutFresh(n, k, r)) \/ PutCached(t, k, r)
    \/ Splice(t)
    \/ Recycle(t)

Spec == Init /\ [][Next]_lists
=============================================================================
