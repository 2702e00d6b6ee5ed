----------------------------- MODULE Ownership ------------------------------
(***************************************************************************)
(* What the sharing of lifetime-size-classes promises, whatever lists,     *)
(* pools, mutexes and counters implement it (src/acdc.c, share_LSClass and *)
(* unreference_and_deallocate_LSClass): a class is given once to a set of  *)
(* threads, every one of them gives it up once, and the last one to give   *)
(* it up, and nobody else, returns it to a free pool.                      *)
(***************************************************************************)
CONSTANTS
  Threads,     (* the threads that can own a class                         *)
  Class        (* the lifetime-size-classes                                *)

VARIABLES
  owners,      (* [Class -> threads that still have to give the class up]  *)
  last,        (* [Class -> {} or {the thread that gave it up last}]       *)
  free         (* the classes that may be handed out again                 *)

vars == <<owners, last, free>>

Init ==
  /\ owners = [c \in Class |-> {}]
  /\ last = [c \in Class |-> {}]
  /\ free = Class

(* A free class is allocated and given to the threads in R.                *)
Create(c, R) ==
  /\ c \in free
  /\ free' = free \ {c}
  /\ owners' = [owners EXCEPT ![c] = R]
  /\ UNCHANGED last

(* Thread t gives c up; if it was the last owner, it will reclaim c.       *)
Release(c, t) ==
  /\ t \in owners[c]
  /\ owners' = [owners EXCEPT ![c] = @ \ {t}]
  /\ last' = [last EXCEPT ![c] = IF owners[c] = {t} THEN {t} ELSE {}]
  /\ UNCHANGED free

(* The last owner of c has deallocated it.                                 *)
Reclaim(c, t) ==
  /\ last[c] = {t}
  /\ last' = [last EXCEPT ![c] = {}]
  /\ free' = free \cup {c}
  /\ UNCHANGED owners

Next ==
  \E c \in Class :
    \/ \E R \in SUBSET Threads : Create(c, R)
    \/ \E t \in Threads : Release(c, t) \/ Reclaim(c, t)

Spec == Init /\ [][Next]_vars
=============================================================================
