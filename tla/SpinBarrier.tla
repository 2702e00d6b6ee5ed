---------------------------- MODULE SpinBarrier -----------------------------
(***************************************************************************)
(* The reusable spin barrier of src/barrier.c: a counter that only grows.  *)
(* A caller adds itself and spins until the counter has passed the next    *)
(* multiple of the number of threads.  Nothing is reset between two uses,  *)
(* so a slow spinner of one round meets fast callers of the next one.      *)
(*                                                                         *)
(* run_acdc initialises such a barrier; its only callers in the repository *)
(* are in the false-sharing mode, which is commented out.  The callers     *)
(* here are any threads that all wait equally often.  The counter has 64   *)
(* bits and would take centuries to wrap: it is a natural number here.     *)
(***************************************************************************)
EXTENDS Integers, FiniteSets

CONSTANTS
  Threads,      (* the threads the barrier was initialised for             *)
  Waits         (* how often each of them waits                            *)

ASSUME ThreadsAssumption == IsFiniteSet(Threads) /\ Threads # {}
ASSUME WaitsAssumption == Waits \in Nat

max == Cardinality(Threads)

VARIABLES
  count,        (* barrier->count                                          *)
  next,         (* the caller's local variable                             *)
  pc,           (* "out" or "spin"                                         *)
  arrivals,     (* auxiliary: calls so far                                 *)
  departures    (* auxiliary: returns so far                               *)

vars == <<count, next, pc, arrivals, departures>>

(* A plausible slip: the round that is running now.                        *)
NextRound_This(old_count) == (old_count \div max) * max

(* The value of the counter that ends the round of the old_count-th call.  *)
NextRound(old_count) == (old_count \div max) * max + max

(* spin_barrier_init                                                       *)
Init ==
  /\ count = 0
  /\ next = [t \in Threads |-> 0]
  /\ pc = [t \in Threads |-> "out"]
  /\ arrivals = [t \in Threads |-> 0]
  /\ departures = [t \in Threads |-> 0]

(* The atomic fetch-and-add; the rest only reads the caller's own values.  *)
Arrive(t) ==
  /\ pc[t] = "out"
  /\ arrivals[t] < Waits
  /\ count' = count + 1
  /\ next' = [next EXCEPT ![t] = NextRound(count)]
  /\ pc' = [pc EXCEPT ![t] = "spin"]
  /\ arrivals' = [arrivals EXCEPT ![t] = @ + 1]
  /\ UNCHANGED departures

(* The spin loop sees that the round is over.                              *)
Depart(t) ==
  /\ pc[t] = "spin"
  /\ count >= next[t]
  /\ pc' = [pc EXCEPT ![t] = "out"]
  /\ departures' = [departures EXCEPT ![t] = @ + 1]
  /\ UNCHANGED <<count, next, arrivals>>

AllDone == \A t \in Threads : departures[t] = Waits
Terminating == AllDone /\ UNCHANGED vars

Call(t) == Arrive(t) \/ Depart(t)

Next ==
  \/ \E t \in Threads : Call(t)
  \/ Terminating

Spec == Init /\ [][Next]_vars

(* The scheduler runs every spinning or calling thread again.    *)
Fairness == \A t \in Threads : WF_vars(Call(t))

-----------------------------------------------------------------------------
TypeOK ==
  /\ count \in Nat
  /\ next \in [Threads -> Nat]
  /\ pc \in [Threads -> {"out", "spin"}]
  /\ arrivals \in [Threads -> Nat]
  /\ departures \in [Threads -> Nat]

(* Nobody returns from a wait that somebody has not called yet, in any     *)
(* round, although the counter is never reset.                             *)
AsBarrier == INSTANCE Barrier
ImplementsBarrier == AsBarrier!Spec

(* Everybody gets through all rounds: no round is missed by a spinner that *)
(* was too slow to see it end.                                             *)
AllPass == <>AllDone
=============================================================================
