--------------------------- MODULE BarrierProofs ----------------------------
(***************************************************************************)
(* Both barriers implement Barrier for every number of threads.            *)
(***************************************************************************)
EXTENDS MCBarriers, FiniteSetTheorems, TLAPS

-----------------------------------------------------------------------------
(***************************************************************************)
(* The spin barrier.                                                       *)
(*                                                                         *)
(* The counter is never reset, so the proof reads the round off it: all    *)
(* calls of k rounds, and those of the threads S that have called in the   *)
(* round that is running.  They are all spinning, and wait for a value the *)
(* counter does not have before S would be everybody; who spins outside S  *)
(* waits for the end of a round that is over.                              *)
(***************************************************************************)
RoundInv(k, S) ==
  /\ count = max * k + Cardinality(S)
  /\ S # Threads
  /\ \A t \in Threads : arrivals[t] = IF t \in S THEN k + 1 ELSE k
  /\ \A t \in S : pc[t] = "spin"

CallInv ==
  \A t \in Threads :
    IF pc[t] = "out"
    THEN departures[t] = arrivals[t]
    ELSE departures[t] = arrivals[t] - 1 /\ next[t] = arrivals[t] * max

IInv == TypeOK /\ CallInv /\ \E k \in Nat, S \in SUBSET Threads : RoundInv(k, S)

LEMMA MaxType == max \in Nat \ {0}
BY ThreadsAssumption, FS_CardinalityType, FS_EmptySet DEF ThreadsAssumption, max

(* A part of the threads has fewer members than there are threads.         *)
LEMMA PartsAreSmaller ==
  ASSUME NEW S \in SUBSET Threads, S # Threads
  PROVE  IsFiniteSet(S) /\ Cardinality(S) \in 0 .. max - 1
<1>1. IsFiniteSet(S) /\ Cardinality(S) \in Nat /\ Cardinality(S) < max /\ max \in Nat
  <2>1. IsFiniteSet(Threads)
    BY ThreadsAssumption DEF ThreadsAssumption
  <2>2. IsFiniteSet(S) /\ Cardinality(S) <= Cardinality(Threads)
        /\ (Cardinality(S) = Cardinality(Threads) => S = Threads)
    BY <2>1, FS_Subset
  <2>3. Cardinality(S) \in Nat /\ Cardinality(Threads) \in Nat
    BY <2>1, <2>2, FS_CardinalityType
  <2> QED
    BY <2>2, <2>3 DEF max
<1> QED
  BY <1>1

LEMMA InitEstablishes == Init => IInv
<1> SUFFICES ASSUME Init PROVE IInv
  OBVIOUS
<1>1. TypeOK /\ CallInv
  BY DEF Init, TypeOK, CallInv
<1>2. RoundInv(0, {})
  <2>1. max * 0 + Cardinality({}) = 0
    BY MaxType, FS_EmptySet
  <2> QED
    BY <2>1, ThreadsAssumption DEF Init, RoundInv, ThreadsAssumption
<1> QED
  BY <1>1, <1>2 DEF IInv

(* The round of a call ends with the next multiple of max.                 *)
LEMMA NextRoundEnds ==
  ASSUME NEW k \in Nat, NEW r \in 0 .. max - 1
  PROVE  NextRound(max * k + r) = (k + 1) * max
<1>1. (max * k + r) \div max = k
  BY MaxType
<1> QED
  BY <1>1, MaxType DEF NextRound

LEMMA ArriveStep ==
  ASSUME IInv, NEW t \in Threads, Arrive(t)
  PROVE  IInv'
<1>1. PICK k \in Nat, S \in SUBSET Threads : RoundInv(k, S)
  BY DEF IInv
<1>2. IsFiniteSet(S) /\ Cardinality(S) \in 0 .. max - 1 /\ max \in Nat \ {0}
  BY <1>1, PartsAreSmaller, MaxType DEF RoundInv
<1>3. t \notin S /\ arrivals[t] = k
  BY <1>1 DEF RoundInv, Arrive
<1>4. NextRound(count) = (k + 1) * max /\ (k + 1) * max \in Nat
  BY <1>1, <1>2, NextRoundEnds DEF RoundInv
<1>5. TypeOK'
  BY <1>4 DEF IInv, TypeOK, Arrive
<1>6. CallInv'
  <2> SUFFICES ASSUME NEW u \in Threads
               PROVE  IF pc'[u] = "out"
                      THEN departures'[u] = arrivals'[u]
                      ELSE departures'[u] = arrivals'[u] - 1 /\ next'[u] = arrivals'[u] * max
    BY DEF CallInv
  <2>1. CASE u = t
    <3>1. departures[t] = k
      BY <1>3 DEF IInv, CallInv, Arrive
    <3>2. pc'[t] = "spin" /\ departures'[t] = k /\ arrivals'[t] = k + 1
          /\ next'[t] = (k + 1) * max
      BY <1>3, <1>4, <3>1 DEF IInv, TypeOK, Arrive
    <3> QED
      BY <2>1, <3>2
  <2>2. CASE u # t
    BY <2>2 DEF IInv, TypeOK, CallInv, Arrive
  <2> QED
    BY <2>1, <2>2
<1> DEFINE T == S \cup {t}
<1>7. Cardinality(T) = Cardinality(S) + 1 /\ count' = max * k + Cardinality(T)
  <2>1. Cardinality(T) = Cardinality(S) + 1
    BY <1>2, <1>3, FS_AddElement
  <2>2. count' = count + 1 /\ count = max * k + Cardinality(S)
    BY <1>1 DEF RoundInv, Arrive
  <2> QED
    BY <1>2, <2>1, <2>2
<1>8. /\ \A u \in Threads : arrivals'[u] = IF u \in T THEN k + 1 ELSE k
      /\ \A u \in T : pc'[u] = "spin"
  BY <1>1, <1>3 DEF IInv, TypeOK, RoundInv, Arrive
<1>9. CASE T # Threads
  BY <1>5, <1>6, <1>7, <1>8, <1>9 DEF IInv, RoundInv
<1>10. CASE T = Threads
  <2>1. count' = max * (k + 1) + Cardinality({})
    <3>1. count' = max * k + max
      BY <1>7, <1>10 DEF max
    <3> QED
      BY <1>2, <3>1, FS_EmptySet
  <2>2. \A u \in Threads : arrivals'[u] = k + 1
    BY <1>8, <1>10
  <2>3. RoundInv(k + 1, {})'
    BY <2>1, <2>2, ThreadsAssumption DEF RoundInv, ThreadsAssumption
  <2> QED
    BY <1>5, <1>6, <2>3 DEF IInv
<1> QED
  BY <1>9, <1>10

(* Who leaves has called in a round that is over.                          *)
LEMMA DepartsAfterRound ==
  ASSUME IInv, NEW t \in Threads, Depart(t),
         NEW k \in Nat, NEW S \in SUBSET Threads, RoundInv(k, S)
  PROVE  t \notin S
<1> SUFFICES ASSUME t \in S PROVE FALSE
  OBVIOUS
<1>1. next[t] = (k + 1) * max
  BY DEF IInv, CallInv, RoundInv, Depart
<1>2. count < (k + 1) * max
  BY PartsAreSmaller, MaxType DEF RoundInv
<1>3. count >= next[t] /\ count \in Nat
  BY DEF Depart, IInv, TypeOK
<1> QED
  BY <1>1, <1>2, <1>3, MaxType

LEMMA DepartStep ==
  ASSUME IInv, NEW t \in Threads, Depart(t)
  PROVE  IInv'
<1>1. PICK k \in Nat, S \in SUBSET Threads : RoundInv(k, S)
  BY DEF IInv
<1>2. t \notin S
  BY <1>1, DepartsAfterRound
<1>3. TypeOK'
  BY DEF IInv, TypeOK, Depart
<1>4. CallInv'
  BY DEF IInv, TypeOK, CallInv, Depart
<1>5. RoundInv(k, S)'
  BY <1>1, <1>2 DEF IInv, TypeOK, RoundInv, Depart
<1> QED
  BY <1>3, <1>4, <1>5 DEF IInv

LEMMA Inductive == IInv /\ [Next]_vars => IInv'
<1> SUFFICES ASSUME IInv, [Next]_vars PROVE IInv'
  OBVIOUS
<1>1. CASE UNCHANGED vars
  BY <1>1 DEF vars, IInv, TypeOK, CallInv, RoundInv
<1>2. ASSUME NEW t \in Threads, Call(t) PROVE IInv'
  BY <1>2, ArriveStep, DepartStep DEF Call
<1> QED
  BY <1>1, <1>2 DEF Next, Terminating

(* Every step of a caller is a step of the abstract barrier.               *)
LEMMA StepSimulation ==
  ASSUME IInv, [Next]_vars
  PROVE  [AsBarrier!Next]_<<arrivals, departures>>
<1>1. CASE UNCHANGED vars
  BY <1>1 DEF vars
<1>2. ASSUME NEW t \in Threads, Arrive(t) PROVE AsBarrier!Arrive(t)
  BY <1>2 DEF IInv, CallInv, Arrive, AsBarrier!Arrive
<1>3. ASSUME NEW t \in Threads, Depart(t) PROVE AsBarrier!Depart(t)
  <2>1. PICK k \in Nat, S \in SUBSET Threads : RoundInv(k, S)
    BY DEF IInv
  <2>2. t \notin S
    BY <1>3, <2>1, DepartsAfterRound
  <2>3. \A u \in Threads : arrivals[t] <= arrivals[u]
    BY <2>1, <2>2 DEF RoundInv
  <2>4. arrivals[t] \in Nat /\ departures[t] = arrivals[t] - 1
    BY <1>3 DEF IInv, TypeOK, CallInv, Depart
  <2> QED
    BY <1>3, <2>3, <2>4 DEF Depart, AsBarrier!Depart
<1> QED
  BY <1>1, <1>2, <1>3 DEF Next, Call, Terminating, AsBarrier!Next

(* With any number of threads, none returns from a wait that somebody has  *)
(* not called yet: spin_barrier_wait implements the barrier that           *)
(* acdc_thread relies on, in every round, although nothing is reset.       *)
THEOREM SpinBarrierImplementsBarrier == Spec => ImplementsBarrier
<1>1. Init => AsBarrier!Init
  BY DEF Init, AsBarrier!Init
<1>2. Spec => []IInv
  BY InitEstablishes, Inductive, PTL DEF Spec
<1> QED
  BY <1>1, <1>2, StepSimulation, PTL DEF Spec, ImplementsBarrier, AsBarrier!Spec

-----------------------------------------------------------------------------
(***************************************************************************)
(* The replacement of the pthread barrier.                                 *)
(*                                                                         *)
(* Between two broadcasts the counter is the number of threads that wait   *)
(* on the condition variable.  They have called once more than the others, *)
(* and cannot return: who returns has been woken by the last caller of a   *)
(* round that is over, however many threads have called again since.       *)
(***************************************************************************)
OsxTypeOK ==
  /\ count \in Nat
  /\ cond \in SUBSET Threads
  /\ pc \in [Threads -> {"out", "in", "wait", "leave"}]
  /\ arrivals \in [Threads -> Nat]
  /\ departures \in [Threads -> Nat]

OsxRoundInv(k) ==
  /\ count = Cardinality(cond)
  /\ cond # Threads
  /\ \A t \in Threads : arrivals[t] = IF t \in cond THEN k + 1 ELSE k
  /\ \A t \in cond : pc[t] = "wait"

OsxCallInv ==
  \A t \in Threads :
    departures[t] = IF pc[t] \in {"out", "in"} THEN arrivals[t] ELSE arrivals[t] - 1

OsxIInv == OsxTypeOK /\ OsxCallInv /\ \E k \in Nat : OsxRoundInv(k)

LEMMA OsxInitEstablishes == Osx!Init => OsxIInv
<1> SUFFICES ASSUME Osx!Init PROVE OsxIInv
  OBVIOUS
<1>1. OsxTypeOK /\ OsxCallInv
  BY DEF Osx!Init, OsxTypeOK, OsxCallInv
<1>2. OsxRoundInv(0)
  BY ThreadsAssumption, FS_EmptySet DEF ThreadsAssumption, Osx!Init, OsxRoundInv
<1> QED
  BY <1>1, <1>2 DEF OsxIInv

(* The steps that neither call nor return, and the return itself.          *)
LEMMA OsxOtherSteps ==
  ASSUME OsxIInv, NEW t \in Threads, Osx!Lock(t) \/ Osx!Woken(t) \/ Osx!Unlock(t)
  PROVE  OsxIInv'
<1>1. PICK k \in Nat : OsxRoundInv(k)
  BY DEF OsxIInv
<1>2. UNCHANGED <<count, cond, arrivals>>
  BY DEF Osx!Lock, Osx!Woken, Osx!Unlock
<1>3. t \notin cond
  BY <1>1 DEF OsxRoundInv, Osx!Lock, Osx!Woken, Osx!Unlock
<1>4. pc' \in [Threads -> {"out", "in", "wait", "leave"}]
      /\ \A u \in Threads : u # t => pc'[u] = pc[u]
  BY DEF OsxIInv, OsxTypeOK, Osx!Lock, Osx!Woken, Osx!Unlock
<1>5. OsxRoundInv(k)'
  BY <1>1, <1>2, <1>3, <1>4 DEF OsxIInv, OsxTypeOK, OsxRoundInv
<1>6. CASE Osx!Lock(t)
  BY <1>4, <1>5, <1>6 DEF OsxIInv, OsxTypeOK, OsxCallInv, Osx!Lock
<1>7. CASE Osx!Woken(t)
  BY <1>4, <1>5, <1>7 DEF OsxIInv, OsxTypeOK, OsxCallInv, Osx!Woken
<1>8. CASE Osx!Unlock(t)
  BY <1>4, <1>5, <1>8 DEF OsxIInv, OsxTypeOK, OsxCallInv, Osx!Unlock
<1> QED
  BY <1>6, <1>7, <1>8

LEMMA TripCount == Osx!tripCount = Cardinality(Threads)
BY DEF Osx!tripCount, Osx!Cardinality, Cardinality

(* The part of the threads that waits, with one more caller.               *)
LEMMA OsxOneMoreCaller ==
  ASSUME NEW S \in SUBSET Threads, NEW t \in Threads \ S
  PROVE  /\ Cardinality(S) \in Nat /\ Osx!tripCount \in Nat
         /\ Cardinality(S \cup {t}) = Cardinality(S) + 1
         /\ Cardinality(S) + 1 >= Osx!tripCount <=> S \cup {t} = Threads
<1>0. IsFiniteSet(Threads)
  BY ThreadsAssumption DEF ThreadsAssumption
<1>1. IsFiniteSet(S) /\ Cardinality(S) \in Nat /\ Osx!tripCount \in Nat
  BY <1>0, TripCount, FS_Subset, FS_CardinalityType
<1>2. Cardinality(S \cup {t}) = Cardinality(S) + 1
  BY <1>1, FS_AddElement
<1>3. /\ Cardinality(S \cup {t}) <= Osx!tripCount
      /\ Cardinality(S \cup {t}) = Osx!tripCount => S \cup {t} = Threads
  BY <1>0, TripCount, FS_Subset
<1>4. S \cup {t} = Threads => Cardinality(S \cup {t}) = Osx!tripCount
  BY TripCount
<1>5. Cardinality(S) + 1 >= Osx!tripCount <=> Cardinality(S \cup {t}) = Osx!tripCount
  BY <1>1, <1>2, <1>3
<1> QED
  BY <1>1, <1>2, <1>3, <1>4, <1>5

LEMMA OsxWaitStep ==
  ASSUME OsxIInv, NEW t \in Threads, Osx!Wait(t)
  PROVE  OsxIInv'
<1>1. PICK k \in Nat : OsxRoundInv(k)
  BY DEF OsxIInv
<1>2. t \notin cond /\ arrivals[t] = k
  BY <1>1 DEF OsxRoundInv, Osx!Wait
<1>3. /\ Cardinality(cond) \in Nat
      /\ Cardinality(cond \cup {t}) = Cardinality(cond) + 1
      /\ cond \cup {t} # Threads
  <2>1. /\ Cardinality(cond) \in Nat /\ Osx!tripCount \in Nat
        /\ Cardinality(cond \cup {t}) = Cardinality(cond) + 1
        /\ Cardinality(cond) + 1 >= Osx!tripCount <=> cond \cup {t} = Threads
    BY <1>2, OsxOneMoreCaller DEF OsxIInv, OsxTypeOK
  <2>2. Cardinality(cond) + 1 < Osx!tripCount
    BY <1>1 DEF OsxRoundInv, Osx!Wait
  <2> QED
    BY <2>1, <2>2
<1>4. OsxTypeOK'
  BY DEF OsxIInv, OsxTypeOK, Osx!Wait
<1>5. OsxCallInv'
  BY DEF OsxIInv, OsxTypeOK, OsxCallInv, Osx!Wait
<1>6. OsxRoundInv(k)'
  <2>1. count' = Cardinality(cond') /\ cond' # Threads
    BY <1>1, <1>3 DEF OsxRoundInv, Osx!Wait
  <2>2. \A u \in Threads : arrivals'[u] = IF u \in cond' THEN k + 1 ELSE k
    BY <1>1, <1>2 DEF OsxIInv, OsxTypeOK, OsxRoundInv, Osx!Wait
  <2>3. \A u \in cond' : pc'[u] = "wait"
    BY <1>1 DEF OsxIInv, OsxTypeOK, OsxRoundInv, Osx!Wait
  <2> QED
    BY <2>1, <2>2, <2>3 DEF OsxRoundInv
<1> QED
  BY <1>4, <1>5, <1>6 DEF OsxIInv

LEMMA OsxLastStep ==
  ASSUME OsxIInv, NEW t \in Threads, Osx!Last(t)
  PROVE  OsxIInv'
<1>1. PICK k \in Nat : OsxRoundInv(k)
  BY DEF OsxIInv
<1>2. t \notin cond /\ arrivals[t] = k
  BY <1>1 DEF OsxRoundInv, Osx!Last
<1>3. cond \cup {t} = Threads
  <2>1. Cardinality(cond) + 1 >= Osx!tripCount
    BY <1>1 DEF OsxRoundInv, Osx!Last
  <2> QED
    BY <1>2, <2>1, OsxOneMoreCaller DEF OsxIInv, OsxTypeOK
<1>4. \A u \in Threads : arrivals'[u] = k + 1
  BY <1>1, <1>2, <1>3 DEF OsxIInv, OsxTypeOK, OsxRoundInv, Osx!Last
<1>5. OsxRoundInv(k + 1)'
  BY <1>4, FS_EmptySet DEF OsxRoundInv, Osx!Last, Osx!Trip
<1>6. OsxTypeOK'
  BY DEF OsxIInv, OsxTypeOK, Osx!Last, Osx!Trip
<1>7. OsxCallInv'
  BY DEF OsxIInv, OsxTypeOK, OsxCallInv, Osx!Last
<1> QED
  BY <1>5, <1>6, <1>7 DEF OsxIInv

LEMMA OsxInductive == OsxIInv /\ [Osx!Next]_Osx!vars => OsxIInv'
<1> SUFFICES ASSUME OsxIInv, [Osx!Next]_Osx!vars PROVE OsxIInv'
  OBVIOUS
<1>1. CASE UNCHANGED Osx!vars
  BY <1>1 DEF Osx!vars, OsxIInv, OsxTypeOK, OsxCallInv, OsxRoundInv
<1>2. ASSUME NEW t \in Threads, Osx!Call(t) PROVE OsxIInv'
  BY <1>2, OsxOtherSteps, OsxWaitStep, OsxLastStep DEF Osx!Call
<1> QED
  BY <1>1, <1>2 DEF Osx!Next, Osx!Terminating

LEMMA OsxStepSimulation ==
  ASSUME OsxIInv, [Osx!Next]_Osx!vars
  PROVE  [AsBarrier!Next]_<<arrivals, departures>>
<1>1. CASE UNCHANGED Osx!vars
  BY <1>1 DEF Osx!vars
<1>2. ASSUME NEW t \in Threads, Osx!Lock(t) \/ Osx!Woken(t)
      PROVE  UNCHANGED <<arrivals, departures>>
  BY <1>2 DEF Osx!Lock, Osx!Woken
<1>3. ASSUME NEW t \in Threads, Osx!Last(t) \/ Osx!Wait(t) PROVE AsBarrier!Arrive(t)
  BY <1>3 DEF OsxIInv, OsxCallInv, Osx!Last, Osx!Wait, AsBarrier!Arrive
<1>4. ASSUME NEW t \in Threads, Osx!Unlock(t) PROVE AsBarrier!Depart(t)
  <2>1. PICK k \in Nat : OsxRoundInv(k)
    BY DEF OsxIInv
  <2>2. t \notin cond
    BY <1>4, <2>1 DEF OsxRoundInv, Osx!Unlock
  <2>3. \A u \in Threads : arrivals[t] <= arrivals[u]
    BY <2>1, <2>2 DEF OsxRoundInv
  <2>4. arrivals[t] \in Nat /\ departures[t] = arrivals[t] - 1
    BY <1>4 DEF OsxIInv, OsxTypeOK, OsxCallInv, Osx!Unlock
  <2> QED
    BY <1>4, <2>3, <2>4 DEF Osx!Unlock, AsBarrier!Depart
<1> QED
  BY <1>1, <1>2, <1>3, <1>4 DEF Osx!Next, Osx!Call, Osx!Terminating, AsBarrier!Next

(* With any number of threads and without spurious wakeups, none returns   *)
(* from pthread_barrier_wait before everybody has called it: the counter   *)
(* that the last caller resets is not that of a round others still wait    *)
(* in.                                                                     *)
THEOREM OsxBarrierImplementsBarrier == Osx!Spec => ImplementsBarrier
<1>1. Osx!Init => AsBarrier!Init
  BY DEF Osx!Init, AsBarrier!Init
<1>2. Osx!Spec => []OsxIInv
  BY OsxInitEstablishes, OsxInductive, PTL DEF Osx!Spec
<1> QED
  BY <1>1, <1>2, OsxStepSimulation, PTL DEF Osx!Spec, ImplementsBarrier, AsBarrier!Spec
=============================================================================
