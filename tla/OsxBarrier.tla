----------------------------- MODULE OsxBarrier -----------------------------
(***************************************************************************)
(* pthread_barrier_wait as src/osx-barrier.c implements it for systems     *)
(* without pthread barriers: a counter under a mutex, the last caller      *)
(* resets it and broadcasts on a condition variable.  The mutex and the    *)
(* condition variable are the system's: cond_wait releases the mutex and   *)
(* waits in one step, and takes the mutex again before it returns.  It is  *)
(* assumed to return only after a broadcast.  POSIX lets it return earlier *)
(* (a spurious wakeup), and the code does not check in a loop why it was   *)
(* woken: then it is no barrier.                                           *)
(***************************************************************************)
EXTENDS Integers, FiniteSets, FiniteSetsExt

CONSTANTS
  Threads,          (* the threads the barrier was initialised for         *)
  NoThread,         (* "mutex not held"                                    *)
  Waits             (* how often each thread waits                         *)

tripCount == Cardinality(Threads)

VARIABLES
  mutex,        (* the holder of barrier->mutex                            *)
  count,        (* barrier->count                                          *)
  cond,         (* the threads that wait on barrier->cond                  *)
  pc,           (* "out", "in" (mutex held), "wait", "leave" (mutex held)  *)
  arrivals,     (* auxiliary: calls that were counted                      *)
  departures    (* auxiliary: returns                                      *)

vars == <<mutex, count, cond, pc, arrivals, departures>>

(* pthread_barrier_init                                                    *)
Init ==
  /\ mutex = NoThread
  /\ count = 0
  /\ cond = {}
  /\ pc = [t \in Threads |-> "out"]
  /\ arrivals = [t \in Threads |-> 0]
  /\ departures = [t \in Threads |-> 0]

Lock(t) ==
  /\ pc[t] = "out"
  /\ arrivals[t] < Waits
  /\ mutex = NoThread
  /\ mutex' = t
  /\ pc' = [pc EXCEPT ![t] = "in"]
  /\ UNCHANGED <<count, cond, arrivals, departures>>

(* A plausible slip of the last caller: only one waiter is signalled.      *)
Trip_SignalOne ==
  /\ count' = 0
  /\ IF cond = {} THEN cond' = {} ELSE \E u \in cond : cond' = cond \ {u}

(* The last caller resets the counter and wakes all who wait.              *)
Trip == count' = 0 /\ cond' = {}

Last(t) ==
  /\ pc[t] = "in"
  /\ count + 1 >= tripCount
  /\ Trip
  /\ pc' = [pc EXCEPT ![t] = "leave"]
  /\ arrivals' = [arrivals EXCEPT ![t] = @ + 1]
  /\ UNCHANGED <<mutex, departures>>

Wait(t) ==
  /\ pc[t] = "in"
  /\ count + 1 < tripCount
  /\ count' = count + 1
  /\ cond' = cond \cup {t}
  /\ mutex' = NoThread
  /\ pc' = [pc EXCEPT ![t] = "wait"]
  /\ arrivals' = [arrivals EXCEPT ![t] = @ + 1]
  /\ UNCHANGED departures

(* cond_wait returns with the mutex held.                                  *)
Woken(t) ==
  /\ pc[t] = "wait"
  /\ t \notin cond
  /\ mutex = NoThread
  /\ mutex' = t
  /\ pc' = [pc EXCEPT ![t] = "leave"]
  /\ UNCHANGED <<count, cond, arrivals, departures>>

Unlock(t) ==
  /\ pc[t] = "leave"
  /\ mutex' = NoThread
  /\ pc' = [pc EXCEPT ![t] = "out"]
  /\ departures' = [departures EXCEPT ![t] = @ + 1]
  /\ UNCHANGED <<count, cond, arrivals>>

AllDone == \A t \in Threads : departures[t] = Waits
Terminating == AllDone /\ UNCHANGED vars

Call(t) == Lock(t) \/ Last(t) \/ Wait(t) \/ Woken(t) \/ Unlock(t)

Next ==
  \/ \E t \in Threads : Call(t)
  \/ Terminating

Spec == Init /\ [][Next]_vars

(* Every thread runs on; a thread that wants the mutex again and again     *)
(* free gets it in the end (each thread asks for it a bounded number of    *)
(* times, so weak fairness is enough).                                     *)
Fairness == \A t \in Threads : WF_vars(Call(t))

-----------------------------------------------------------------------------
(* Nobody returns from a wait that somebody has not called yet.            *)
AsBarrier == INSTANCE Barrier
ImplementsBarrier == AsBarrier!Spec
=============================================================================
