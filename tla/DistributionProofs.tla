------------------------- MODULE DistributionProofs -------------------------
(***************************************************************************)
(* Proofs about Distribution: random numbers are in the range that was     *)
(* asked for, objects have sizes that their allocation accepts if -S is    *)
(* above that of links, and the receivers of a shared class are distinct   *)
(* threads, about as many as the receiving threads ratio asks for; for     *)
(* every seed, all options, any number of threads and any ratio.           *)
(***************************************************************************)
EXTENDS Distribution, TLAPS

(***************************************************************************)
(* Random numbers: the generator stays within 32 bits, is the one it       *)
(* claims to be, and its results are in the range that was asked for.      *)
(* (Bounds are inequalities here: intervals of this size are beyond the    *)
(* provers' encoding.)                                                     *)
(***************************************************************************)
(* Division of a non-negative, or of a negative, int by 127773.            *)
LEMMA Schrage ==
  ASSUME NEW x \in Int, 0 <= x, x <= Modulus
  PROVE  /\ Hi(x) \in Int /\ 0 <= Hi(x) /\ Hi(x) <= 16807
         /\ Lo(x) \in Int /\ 0 <= Lo(x) /\ Lo(x) <= 127772
         /\ x = 127773 * Hi(x) + Lo(x)
BY SMT DEF Hi, Lo, Quotient, Remainder, Modulus

LEMMA SchrageNegative ==
  ASSUME NEW x \in Int, -IntMax - 1 <= x, x < 0
  PROVE  /\ Hi(x) \in Int /\ -16807 <= Hi(x) /\ Hi(x) <= 0
         /\ Lo(x) \in Int /\ -127772 <= Lo(x) /\ Lo(x) <= 0
         /\ x = 127773 * Hi(x) + Lo(x)
BY SMT DEF Hi, Lo, Quotient, Remainder, IntMax

(* No step of next_rand leaves the 32 bits of an int, whatever the seed.   *)
THEOREM NextRandFitsInt ==
  ASSUME NEW x \in Int, IsInt(x)
  PROVE  /\ IsInt(16807 * Lo(x))
         /\ IsInt(2836 * Hi(x))
         /\ IsInt(16807 * Lo(x) - 2836 * Hi(x))
         /\ NextRand(x) \in Int /\ 0 <= NextRand(x) /\ NextRand(x) < Modulus
<1>1. CASE x >= 0
  <2>1. /\ Hi(x) \in Int /\ 0 <= Hi(x) /\ Hi(x) <= 16807
        /\ Lo(x) \in Int /\ 0 <= Lo(x) /\ Lo(x) <= 127772
    <3>1. x <= Modulus
      BY SMT DEF IsInt, IntMax, Modulus
    <3> QED
      BY SMT, <1>1, <3>1, Schrage
  <2>2. /\ IsInt(16807 * Lo(x))
        /\ IsInt(2836 * Hi(x))
        /\ IsInt(16807 * Lo(x) - 2836 * Hi(x))
    BY SMT, <2>1 DEF IsInt, IntMax
  <2>3. NextRand(x) \in Int /\ 0 <= NextRand(x) /\ NextRand(x) < Modulus
    BY SMT, <2>1 DEF NextRand, Modulus
  <2> QED
    BY <2>2, <2>3
<1>2. CASE x < 0
  <2>1. /\ Hi(x) \in Int /\ -16807 <= Hi(x) /\ Hi(x) <= 0
        /\ Lo(x) \in Int /\ -127772 <= Lo(x) /\ Lo(x) <= 0
    BY SMT, <1>2, SchrageNegative DEF IsInt
  <2>2. /\ IsInt(16807 * Lo(x))
        /\ IsInt(2836 * Hi(x))
        /\ IsInt(16807 * Lo(x) - 2836 * Hi(x))
    BY SMT, <2>1 DEF IsInt, IntMax
  <2>3. NextRand(x) \in Int /\ 0 <= NextRand(x) /\ NextRand(x) < Modulus
    BY SMT, <2>1 DEF NextRand, Modulus
  <2> QED
    BY <2>2, <2>3
<1> QED
  BY SMT, <1>1, <1>2

(* next_rand is multiplication by 16807 modulo 2^31 - 1.                   *)
THEOREM NextRandIsLehmer ==
  ASSUME NEW x \in Int, 0 <= x, x < Modulus
  PROVE  NextRand(x) = (16807 * x) % Modulus
<1>1. /\ Hi(x) \in Int
      /\ Lo(x) \in Int
      /\ x = 127773 * Hi(x) + Lo(x)
  BY SMT, Schrage DEF Modulus
<1>2. 16807 * x = Modulus * Hi(x) + (16807 * Lo(x) - 2836 * Hi(x))
  BY SMT, <1>1 DEF Modulus
<1>3. NextRand(x) \in Int /\ 0 <= NextRand(x) /\ NextRand(x) < Modulus
  BY SMT, NextRandFitsInt DEF IsInt, IntMax, Modulus
<1>4. \E k \in Int : 16807 * x = Modulus * k + NextRand(x)
  <2>1. CASE 16807 * Lo(x) - 2836 * Hi(x) < 0
    <3>1. 16807 * x = Modulus * (Hi(x) - 1) + NextRand(x)
      BY SMT, <1>1, <1>2, <2>1 DEF NextRand, Modulus
    <3> QED
      BY SMT, <1>1, <3>1
  <2>2. CASE ~(16807 * Lo(x) - 2836 * Hi(x) < 0)
    BY SMT, <1>1, <1>2, <2>2 DEF NextRand
  <2> QED
    BY <2>1, <2>2
<1>5. PICK k \in Int : 16807 * x = Modulus * k + NextRand(x)
  BY <1>4
<1> HIDE DEF NextRand
<1>6. (Modulus * k + NextRand(x)) % Modulus = NextRand(x)
  BY SMT, <1>3 DEF Modulus
<1> QED
  BY <1>5, <1>6

-----------------------------------------------------------------------------
(* From the range from .. to, get_rand_int_range takes nothing else.         *)
LEMMA RemainderBounds ==
  ASSUME NEW x \in Nat, NEW n \in Nat, n > 0
  PROVE  Remainder(x, n) \in Int /\ 0 <= Remainder(x, n) /\ Remainder(x, n) < n
<1>1. /\ x \div n \in Int
      /\ x % n \in Int
      /\ 0 <= x % n
      /\ x % n < n
      /\ x = n * (x \div n) + (x % n)
  BY SMTT(30)
<1>2. Quotient(x, n) = x \div n
  BY DEF Quotient
<1>3. n * (x \div n) \in Int
  BY <1>1
<1>4. Remainder(x, n) = x - n * (x \div n)
  BY <1>2 DEF Remainder
<1> DEFINE m == n * (x \div n)
<1>5. Remainder(x, n) = x - m /\ m \in Int /\ x = m + (x % n)
  BY <1>1, <1>3, <1>4
<1> HIDE DEF m
<1> QED
  BY SMT, <1>1, <1>5

LEMMA InRangeIsInRange ==
  ASSUME NEW x \in Nat, NEW from \in Nat, NEW to \in Nat, from <= to
  PROVE  InRange(x, from, to) \in from .. to
<1> DEFINE r == Remainder(x, (to - from) + 1)
<1>1. r \in Int /\ 0 <= r /\ r < (to - from) + 1
  <2>1. (to - from) + 1 \in Nat /\ (to - from) + 1 > 0
    BY SMT
  <2> QED
    BY <2>1, RemainderBounds
<1>2. InRange(x, from, to) = from + r
  BY DEF InRange
<1> HIDE DEF r
<1> QED
  BY SMT, <1>1, <1>2

-----------------------------------------------------------------------------
(* The quotients of the options are in range: no division by zero, and no  *)
(* more receivers than threads.                                            *)
LEMMA QuotientInRange ==
  ASSUME NEW n \in Nat, NEW d \in Nat, d > 0
  PROVE  n \div d \in 0 .. n
<1>1. /\ n \div d \in Int
      /\ n % d \in Int
      /\ 0 <= n % d
      /\ n % d < d
      /\ n = d * (n \div d) + (n % d)
  BY SMTT(30)
<1> DEFINE q == n \div d
           m == n % d
<1>2. q \in Int /\ m \in Int /\ 0 <= m /\ m < d /\ n = d * q + m
  BY <1>1
<1> HIDE DEF q, m
<1>3. 0 <= q
  <2> SUFFICES ASSUME q <= -1 PROVE FALSE
    BY <1>2
  <2>1. d * q <= d * (-1)
    BY <1>2
  <2> QED
    BY <1>2, <2>1
<1>4. q <= n
  <2>1. d * q >= 1 * q
    BY <1>2, <1>3
  <2> QED
    BY <1>2, <2>1
<1> QED
  BY <1>2, <1>3, <1>4 DEF q

LEMMA ProductsGrow ==
  ASSUME NEW a \in Nat, NEW b \in Nat, NEW c \in Nat, NEW d \in Nat, a <= c, b <= d
  PROVE  /\ a * b \in Nat /\ c * d \in Nat
         /\ a * b <= c * d
         /\ a > 0 /\ b > 0 => a * b > 0
<1>1. a * b <= a * d /\ a * d <= c * d
  BY SMT
<1>2. a * b \in Nat /\ a * d \in Nat /\ c * d \in Nat
  BY SMT
<1>3. a > 0 /\ b > 0 => a * b > 0
  BY SMT
<1> QED
  BY <1>1, <1>2, <1>3

(* The inner quotient of number_of_sharing_threads is at least 1.          *)
LEMMA InnerQuotient ==
  ASSUME NEW r \in 1 .. 100
  PROVE  /\ 100 \div r \in Nat /\ 100 \div r >= 1
         /\ 100 = r * (100 \div r) + (100 % r)
         /\ 100 % r \in Nat /\ 100 % r < r
<1> DEFINE d == 100 \div r
           e == 100 % r
<1>1. d \in 0 .. 100
  BY QuotientInRange
<1>2. 100 = r * d + e /\ e < r /\ e \in Nat
  BY SMTT(30)
<1> HIDE DEF d, e
<1>3. d # 0
  <2> SUFFICES ASSUME d = 0 PROVE FALSE
    OBVIOUS
  <2>1. r * d = 0
    OBVIOUS
  <2> QED
    BY <1>2, <2>1
<1> QED
  BY <1>1, <1>2, <1>3 DEF d, e

LEMMA RatioOK ==
  ASSUME gopts \in Options
  PROVE  gopts.receiving_threads_ratio \in 1 .. 100
BY OptionsAssumption DEF OptionsAssumption

LEMMA SharingThreadsInRange ==
  ASSUME gopts \in Options
  PROVE  NumberOfSharingThreads \in 0 .. NumThreads
<1> DEFINE r == gopts.receiving_threads_ratio
           d == 100 \div r
<1>1. NumThreads \in Nat /\ r \in 1 .. 100
  BY RatioOK, DistributionAssumption DEF DistributionAssumption
<1>2. d \in Nat /\ d > 0
  <2> HIDE DEF r
  <2> QED
    BY <1>1, InnerQuotient
<1> HIDE DEF d
<1>3. NumThreads \div d \in 0 .. NumThreads
  BY <1>1, <1>2, QuotientInRange
<1> QED
  BY <1>3 DEF NumberOfSharingThreads, d, r

-----------------------------------------------------------------------------
(* One call leaves an int of the period, and a result in the range.        *)
LEMMA CallInRange ==
  ASSUME NEW from \in Nat, NEW to \in Nat, from <= to,
         rand \in Int, IsInt(rand), GetRandIntRange(from, to)
  PROVE  rand' \in Int /\ IsInt(rand') /\ result' \in from .. to /\ ResultInRange'
<1>1. rand' \in Int /\ 0 <= rand' /\ rand' < Modulus
  BY NextRandFitsInt DEF GetRandIntRange
<1>2. rand' \in Nat /\ IsInt(rand')
  BY SMT, <1>1 DEF IsInt, IntMax, Modulus
<1>3. result' \in from .. to
  BY <1>2, InRangeIsInRange DEF GetRandIntRange
<1> QED
  BY <1>1, <1>2, <1>3 DEF GetRandIntRange, ResultInRange

(* A drawn size lies in its class, and links fit into one of that many.    *)
SizeInClass ==
  /\ pc = "type" => 2^sc <= sz /\ sz < 2 * 2^sc
  /\ pc = "share" /\ gopts.max_object_sc > 4 => sz >= MinSize /\ sz < 2^gopts.max_object_sc

(* What holds within a selection: the removed ids are counted, and the     *)
(* entries of the whole buffer are distinct, the removed ones included.    *)
Counted ==
  /\ pc = "remove" => size = NumThreads - i /\ i <= Removals /\ selected
  /\ pc \notin {"select", "remove"} /\ selected => size = NumberOfSharingThreads

Permuted ==
  selected => \A p, q \in Ids : array[p] = array[q] => p = q

RandOK == rand \in Int /\ IsInt(rand) /\ ResultInRange

ObjectOK ==
  /\ gopts \in Options
  /\ pc \in {"liveness", "class", "size", "type", "share", "select", "remove", "aborted"}
  /\ liveness \in 0 .. gopts.max_liveness
  /\ sc \in 0 .. gopts.max_object_sc - 1
  /\ sz \in Nat

BufferOK ==
  /\ array \in [Ids -> Ids]
  /\ size \in 0 .. NumThreads
  /\ i \in 0 .. NumThreads
  /\ selected \in BOOLEAN

IInv ==
  /\ RandOK /\ ObjectOK /\ BufferOK
  /\ SizeInClass /\ Counted /\ Permuted

LEMMA OptionsOK ==
  ASSUME gopts \in Options
  PROVE  /\ gopts.min_liveness \in Nat /\ gopts.max_liveness \in Nat
         /\ gopts.min_liveness <= gopts.max_liveness
         /\ gopts.min_object_sc \in Nat /\ gopts.max_object_sc \in 0 .. MaxSizeClass
         /\ gopts.min_object_sc < gopts.max_object_sc
BY OptionsAssumption DEF OptionsAssumption

(* Every size class below the maximal one ends below the maximal size.     *)
LEMMA ClassBelowMax ==
  ASSUME NEW c \in Nat, NEW m \in 0 .. MaxSizeClass, c < m
  PROVE  /\ 2^c \in Nat /\ 2^c > 0 /\ 2^m \in Nat
         /\ 2^(c + 1) = 2 * 2^c
         /\ 2 * 2^c <= 2^m
         /\ 2^c < 2^m
<1>1. c \in 0 .. MaxSizeClass /\ c + 1 \in 0 .. MaxSizeClass /\ c + 1 <= m
  BY DEF MaxSizeClass
<1>2. 2^c \in Nat \ {0} /\ 2^m \in Nat \ {0} /\ 2^(c + 1) = 2 * 2^c
  BY <1>1, PowersAssumption DEF PowersAssumption
<1>3. 2^(c + 1) <= 2^m
  BY <1>1, PowersAssumption DEF PowersAssumption
<1> QED
  BY <1>2, <1>3

LEMMA LinksFit ==
  ASSUME NEW m \in 0 .. MaxSizeClass, m > 4
  PROVE  MinSize < 2^m
<1>1. 5 \in 0 .. MaxSizeClass /\ 5 <= m
  BY DEF MaxSizeClass
<1>2. 32 <= 2^m /\ 2^m \in Nat
  BY <1>1, PowersAssumption DEF PowersAssumption
<1> QED
  BY <1>2 DEF MinSize

LEMMA InitIInv == Init => IInv
<1> SUFFICES ASSUME Init PROVE IInv
  OBVIOUS
<1>1. RandOK
  BY SeedsAssumption DEF SeedsAssumption, Init, RandInit, ResultInRange, RandOK
<1>2. gopts \in Options
  BY DEF Init
<1>3. ObjectOK /\ SizeInClass
  BY <1>2, OptionsOK DEF Init, ObjectOK, SizeInClass
<1>4. /\ array = [p \in Ids |-> 0] /\ size = NumThreads /\ i = 0
      /\ selected = FALSE /\ pc = "liveness"
  BY DEF Init
<1>5. NumThreads \in Nat \ {0} /\ 0 \in Ids
  BY DistributionAssumption DEF DistributionAssumption, Ids
<1>6. BufferOK
  <2>1. array \in [Ids -> Ids] /\ size \in 0 .. NumThreads /\ i \in 0 .. NumThreads
    BY <1>4, <1>5
  <2>2. selected \in BOOLEAN
    BY <1>4, Zenon
  <2> QED
    BY <2>1, <2>2 DEF BufferOK
<1>7. ~selected /\ pc # "remove"
  <2>1. pc # "remove"
    BY <1>4
  <2>2. ~selected
    BY <1>4, Zenon
  <2> QED
    BY <2>1, <2>2
<1>8. Counted
  BY <1>7 DEF Counted
<1>9. Permuted
  BY <1>7 DEF Permuted
<1> QED
  BY <1>1, <1>3, <1>6, <1>8, <1>9 DEF IInv

(* A step that leaves the buffer alone and is not about to fill it.        *)
LEMMA BufferUnchanged ==
  ASSUME IInv, UNCHANGED gopts, UNCHANGED bufferVars, pc \notin {"select", "remove"}, pc' # "remove"
  PROVE  BufferOK' /\ Counted' /\ Permuted'
BY DEF IInv, BufferOK, Counted, Permuted, bufferVars, NumberOfSharingThreads

LEMMA DrawLivenessIInv == IInv /\ DrawLiveness => IInv'
<1> SUFFICES ASSUME IInv, DrawLiveness PROVE IInv'
  OBVIOUS
<1>1. /\ pc = "liveness" /\ pc' = "class" /\ liveness' = result'
      /\ UNCHANGED <<gopts, sc, sz>> /\ UNCHANGED bufferVars
      /\ GetRandIntRange(gopts.min_liveness, gopts.max_liveness)
  BY DEF DrawLiveness
<1>2. gopts \in Options
  BY DEF IInv, ObjectOK
<1>3. RandOK' /\ liveness' \in gopts.min_liveness .. gopts.max_liveness
  BY <1>1, <1>2, OptionsOK, CallInRange DEF IInv, RandOK
<1>4. ObjectOK'
  BY <1>1, <1>2, <1>3, OptionsOK DEF IInv, ObjectOK
<1>5. SizeInClass'
  BY <1>1 DEF IInv, SizeInClass, bufferVars
<1> QED
  BY <1>1, <1>3, <1>4, <1>5, BufferUnchanged DEF IInv

LEMMA DrawSizeClassIInv == IInv /\ DrawSizeClass => IInv'
<1> SUFFICES ASSUME IInv, DrawSizeClass PROVE IInv'
  OBVIOUS
<1>1. /\ pc = "class" /\ pc' = "size" /\ sc' = result'
      /\ UNCHANGED <<gopts, liveness, sz>> /\ UNCHANGED bufferVars
      /\ GetRandIntRange(gopts.min_object_sc, gopts.max_object_sc - 1)
  BY DEF DrawSizeClass, LargestClass
<1>2. gopts \in Options
  BY DEF IInv, ObjectOK
<1>3. /\ gopts.min_object_sc \in Nat /\ gopts.max_object_sc - 1 \in Nat
      /\ gopts.min_object_sc <= gopts.max_object_sc - 1
  BY <1>2, OptionsOK
<1>4. RandOK' /\ sc' \in gopts.min_object_sc .. gopts.max_object_sc - 1
  BY <1>1, <1>3, CallInRange DEF IInv, RandOK
<1>5. ObjectOK'
  BY <1>1, <1>3, <1>4 DEF IInv, ObjectOK
<1>6. SizeInClass'
  BY <1>1 DEF IInv, SizeInClass, bufferVars
<1> QED
  BY <1>1, <1>4, <1>5, <1>6, BufferUnchanged DEF IInv

LEMMA DrawSizeIInv == IInv /\ DrawSize => IInv'
<1> SUFFICES ASSUME IInv, DrawSize PROVE IInv'
  OBVIOUS
<1>1. /\ pc = "size" /\ pc' = "type" /\ sz' = result'
      /\ UNCHANGED <<gopts, liveness, sc>> /\ UNCHANGED bufferVars
      /\ GetRandIntRange(2^sc, 2^(sc + 1) - 1)
  BY DEF DrawSize
<1>2. gopts \in Options /\ sc \in Nat /\ sc < gopts.max_object_sc
  BY OptionsOK DEF IInv, ObjectOK
<1> DEFINE p == 2^sc
           q == 2^(sc + 1)
<1>3. p \in Nat /\ p > 0 /\ q = 2 * p
  BY <1>2, OptionsOK, ClassBelowMax
<1>4. GetRandIntRange(p, q - 1)
  BY <1>1
<1> HIDE DEF p, q
<1>5. p \in Nat /\ q - 1 \in Nat /\ p <= q - 1
  BY <1>3
<1>6. RandOK' /\ sz' \in p .. q - 1
  BY <1>1, <1>4, <1>5, CallInRange DEF IInv, RandOK
<1>7. sz' \in Nat /\ p <= sz' /\ sz' < 2 * p
  BY <1>3, <1>5, <1>6
<1>8. ObjectOK'
  BY <1>1, <1>7 DEF IInv, ObjectOK
<1>9. SizeInClass'
  BY <1>1, <1>7 DEF SizeInClass, p
<1> QED
  BY <1>1, <1>6, <1>8, <1>9, BufferUnchanged DEF IInv

LEMMA DrawTypeIInv == IInv /\ DrawType => IInv'
<1> SUFFICES ASSUME IInv, DrawType PROVE IInv'
  OBVIOUS
<1>1. /\ pc = "type" /\ pc' = "share"
      /\ UNCHANGED <<gopts, sc>> /\ UNCHANGED bufferVars
      /\ GetRandIntRange(0, 100)
  BY DEF DrawType
<1>2. gopts \in Options /\ sc \in Nat /\ sc < gopts.max_object_sc
  BY OptionsOK DEF IInv, ObjectOK
<1>3. RandOK'
  BY <1>1, CallInRange DEF IInv, RandOK
<1> DEFINE m == 2^gopts.max_object_sc
<1>4. /\ 2^sc \in Nat /\ m \in Nat /\ 2 * 2^sc <= m
      /\ 2^gopts.min_object_sc \in Nat /\ 2^gopts.min_object_sc < m
  BY <1>2, OptionsOK, ClassBelowMax
<1>5. gopts.max_object_sc > 4 => MinSize < m
  BY <1>2, OptionsOK, LinksFit
<1>6. PICK s \in Nat : s < m /\ sz' = AtLeastMinSize(s)
  <2>1. CASE gopts.fixed_number_of_objects > 0
               /\ sz' = AtLeastMinSize(2^gopts.min_object_sc)
    BY <1>4, <2>1
  <2>2. CASE sz' = AtLeastMinSize(sz)
    <3> HIDE DEF m
    <3>1. 2^sc <= sz /\ sz < 2 * 2^sc /\ sz \in Nat
      BY <1>1 DEF IInv, SizeInClass, ObjectOK
    <3>2. sz < m
      BY <1>4, <3>1
    <3> QED
      BY <2>2, <3>1, <3>2
  <2> QED
    BY <2>1, <2>2 DEF DrawType
<1> HIDE DEF m
<1>7. sz' \in Nat /\ (gopts.max_object_sc > 4 => sz' >= MinSize /\ sz' < m)
  BY <1>4, <1>5, <1>6 DEF AtLeastMinSize, MinSize
<1>8. liveness' \in 0 .. gopts.max_liveness
  BY <1>2, OptionsOK DEF DrawType, IInv, ObjectOK
<1>9. ObjectOK'
  BY <1>1, <1>7, <1>8 DEF IInv, ObjectOK
<1>10. SizeInClass'
  BY <1>1, <1>7 DEF SizeInClass, m
<1> QED
  BY <1>1, <1>3, <1>9, <1>10, BufferUnchanged DEF IInv

LEMMA DrawSharingIInv == IInv /\ DrawSharing => IInv'
<1> SUFFICES ASSUME IInv, DrawSharing PROVE IInv'
  OBVIOUS
<1>1. /\ pc = "share" /\ pc' = IF Shares(result') THEN "select" ELSE "liveness"
      /\ UNCHANGED <<gopts, liveness, sc, sz>> /\ UNCHANGED bufferVars
      /\ GetRandIntRange(0, 100)
  BY DEF DrawSharing, objectVars
<1>2. RandOK' /\ result' \in 0 .. 100
  BY <1>1, CallInRange DEF IInv, RandOK
<1>3. ObjectOK' /\ SizeInClass'
  BY <1>1 DEF IInv, ObjectOK, SizeInClass
<1> QED
  BY <1>1, <1>2, <1>3, BufferUnchanged DEF IInv

LEMMA FillIInv == IInv /\ Fill => IInv'
<1> SUFFICES ASSUME IInv, Fill PROVE IInv'
  OBVIOUS
<1>1. /\ pc = "select" /\ pc' = "remove" /\ selected' = TRUE
      /\ UNCHANGED randVars /\ UNCHANGED <<gopts, liveness, sc, sz>>
      /\ size' = NumThreads /\ i' = 0
      /\ array' = [p \in Ids |-> p]
  BY DEF Fill, objectVars, StartSize, Filled
<1>2. RandOK'
  BY <1>1 DEF IInv, RandOK, ResultInRange, randVars
<1>3. ObjectOK' /\ SizeInClass'
  BY <1>1 DEF IInv, ObjectOK, SizeInClass
<1>4. NumberOfSharingThreads' = NumberOfSharingThreads /\ NumberOfSharingThreads \in 0 .. NumThreads
  BY <1>1, SharingThreadsInRange DEF IInv, ObjectOK, NumberOfSharingThreads
<1>5. BufferOK' /\ Counted' /\ Permuted'
  BY <1>1, <1>4, DistributionAssumption
  DEF DistributionAssumption, BufferOK, Counted, Permuted, Removals, Ids
<1> QED
  BY <1>2, <1>3, <1>5 DEF IInv

LEMMA RemoveIInv == IInv /\ Remove => IInv'
<1> SUFFICES ASSUME IInv, Remove PROVE IInv'
  OBVIOUS
<1> USE DistributionAssumption DEF DistributionAssumption
<1>1. /\ pc = "remove" /\ UNCHANGED <<gopts, pc, liveness, sc, sz, selected>>
      /\ i < Removals /\ size' = size - 1 /\ i' = i + 1
      /\ array' = Swapped(result', size - 1)
      /\ GetRandIntRange(0, size - 1)
  BY DEF Remove, objectVars
<1> DEFINE n == NumberOfSharingThreads
<1>9. n' = n /\ n \in 0 .. NumThreads
  BY <1>1, SharingThreadsInRange DEF IInv, ObjectOK, NumberOfSharingThreads
<1>2. size \in Nat /\ 1 <= size /\ size <= NumThreads /\ size - 1 \in Ids
  BY <1>1, <1>9 DEF IInv, BufferOK, Counted, Removals, Ids
<1>3. RandOK' /\ result' \in 0 .. size - 1
  <2>1. size - 1 \in Nat /\ 0 <= size - 1
    BY <1>2
  <2> QED
    BY <1>1, <2>1, CallInRange DEF IInv, RandOK
<1>4. result' \in Ids
  BY <1>2, <1>3 DEF Ids
<1>5. array \in [Ids -> Ids]
  BY DEF IInv, BufferOK
<1>6. BufferOK' /\ Counted'
  <2>1. array' \in [Ids -> Ids]
    BY <1>1, <1>2, <1>4, <1>5 DEF Swapped
  <2> QED
    BY <1>1, <1>2, <1>9, <2>1 DEF IInv, BufferOK, Counted, Removals
<1>7. Permuted'
  BY <1>1, <1>2, <1>4, <1>5 DEF IInv, Counted, Permuted, Swapped
<1>8. ObjectOK' /\ SizeInClass'
  BY <1>1 DEF IInv, ObjectOK, SizeInClass
<1> QED
  BY <1>3, <1>6, <1>7, <1>8 DEF IInv

LEMMA NextIInv == IInv /\ [Next]_vars => IInv'
<1> SUFFICES ASSUME IInv, [Next]_vars PROVE IInv'
  OBVIOUS
<1>1. CASE BypassSharing
  <2>1. /\ pc = "share" /\ pc' = "liveness" /\ UNCHANGED randVars
        /\ UNCHANGED <<gopts, liveness, sc, sz>> /\ UNCHANGED bufferVars
    BY <1>1 DEF BypassSharing, objectVars
  <2>2. RandOK' /\ ObjectOK' /\ SizeInClass'
    BY <2>1 DEF IInv, RandOK, ResultInRange, ObjectOK, SizeInClass,
                randVars, bufferVars
  <2> QED
    BY <2>1, <2>2, BufferUnchanged DEF IInv
<1>2. CASE Return
  <2>1. /\ pc = "remove" /\ pc' = "liveness" /\ UNCHANGED randVars
        /\ UNCHANGED <<gopts, liveness, sc, sz>> /\ UNCHANGED bufferVars
        /\ i >= Removals
    BY <1>2 DEF Return, objectVars
  <2>2. RandOK' /\ ObjectOK' /\ SizeInClass'
    BY <2>1 DEF IInv, RandOK, ResultInRange, ObjectOK, SizeInClass,
                randVars, bufferVars
  <2>3. size = NumberOfSharingThreads
    BY <2>1, SharingThreadsInRange, DistributionAssumption
    DEF DistributionAssumption, IInv, ObjectOK, Counted, BufferOK, Removals
  <2>4. NumberOfSharingThreads' = NumberOfSharingThreads
    BY <2>1 DEF NumberOfSharingThreads
  <2>5. BufferOK' /\ Counted' /\ Permuted'
    BY <2>1, <2>3, <2>4 DEF IInv, BufferOK, Counted, Permuted, bufferVars
  <2> QED
    BY <2>2, <2>5 DEF IInv
<1>4. CASE AssertionFails
  <2>1. /\ pc = "type" /\ pc' = "aborted" /\ UNCHANGED randVars
        /\ UNCHANGED <<gopts, liveness, sc, sz>> /\ UNCHANGED bufferVars
    BY <1>4 DEF AssertionFails, objectVars
  <2>2. RandOK' /\ ObjectOK' /\ SizeInClass'
    BY <2>1 DEF IInv, RandOK, ResultInRange, ObjectOK, SizeInClass, randVars
  <2> QED
    BY <2>1, <2>2, BufferUnchanged DEF IInv
<1>3. CASE Terminating \/ UNCHANGED vars
  <2>1. UNCHANGED vars
    BY <1>3 DEF Terminating
  <2> QED
    BY <2>1 DEF vars, randVars, objectVars, bufferVars, IInv, RandOK, ResultInRange,
                ObjectOK, BufferOK, SizeInClass, Counted, Permuted, NumberOfSharingThreads,
                Removals
<1> QED
  BY <1>1, <1>2, <1>3, <1>4, DrawLivenessIInv, DrawSizeClassIInv, DrawSizeIInv, DrawTypeIInv,
     DrawSharingIInv, FillIInv, RemoveIInv DEF Next

LEMMA Inductive == Spec => []IInv
  BY InitIInv, NextIInv, PTL DEF Spec

(* The buffer always holds thread ids, and the generator's state is an int.*)
THEOREM TypeCorrect == Spec => []TypeOK
<1>1. IInv => TypeOK
  BY DEF IInv, RandOK, ObjectOK, BufferOK, TypeOK
<1> QED
  BY <1>1, Inductive, PTL

(* get_rand_int_range "returns a random integer in [from, to]" whatever    *)
(* the seed, negative ones included, and however often it is called.       *)
THEOREM ResultsInRange == Spec => []ResultInRange
<1>1. IInv => ResultInRange
  BY DEF IInv, RandOK
<1> QED
  BY <1>1, Inductive, PTL

(* With -S above 4, no object is refused by the assertion of               *)
(* allocate_LSClass or too small for its links, although -F and rounding   *)
(* up give it another size than was drawn.                                 *)
THEOREM LargeSizesAreAccepted == Spec => []LargeSizesAccepted
<1>1. IInv => LargeSizesAccepted
  BY DEF IInv, SizeInClass, LargeSizesAccepted, SizesAccepted
<1> QED
  BY <1>1, Inductive, PTL

(* share_LSClass hands a class to no thread twice: the reference counter   *)
(* it sets is the number of threads that will decrement it.                *)
THEOREM ReceiversAreDistinct == Spec => []ReceiversDistinct
<1>1. IInv => ReceiversDistinct
  BY DistributionAssumption
  DEF DistributionAssumption, IInv, Permuted, ReceiversDistinct, BufferOK, Ids
<1> QED
  BY <1>1, Inductive, PTL

(* number_of_sharing_threads against the percentage that was asked for.    *)
LEMMA ShareOfThreads ==
  ASSUME NEW n \in Nat, NEW r \in 1 .. 100
  PROVE  LET m == n \div (100 \div r)
         IN  /\ m >= (n * r) \div 100
             /\ 100 % r = 0 => m = (n * r) \div 100
             /\ r <= 50 => 200 * m <= 3 * (n * r)
<1> DEFINE d == 100 \div r
           e == 100 % r
           m == n \div d
           a == n * r
           s == a \div 100
<1>1. d \in Nat /\ d >= 1 /\ 100 = r * d + e /\ e \in Nat /\ e < r
  BY InnerQuotient
<1>2. a \in Nat
  OBVIOUS
<1>3. s \in Int /\ 100 * s <= a /\ a < 100 * s + 100
  <2> HIDE DEF a
  <2> QED
    BY <1>2
<1>4. m \in Nat /\ d * m <= n /\ n < d * m + d
  <2> HIDE DEF d
  <2>1. n \div d \in 0 .. n
    BY <1>1, QuotientInRange
  <2>2. /\ n = d * (n \div d) + (n % d)
        /\ n % d < d
        /\ n % d \in Nat
    BY SMTT(30), <1>1
  <2> DEFINE dm == d * m
             rest == n % d
  <2>3. m \in Nat /\ dm \in Nat /\ n = dm + rest /\ rest < d /\ rest \in Nat
    BY <1>1, <2>1, <2>2
  <2>4. dm <= n /\ n < dm + d
    <3> HIDE DEF dm, rest
    <3> QED
      BY <1>1, <2>3
  <2> QED
    BY <2>3, <2>4
<1> HIDE DEF d, e, m, s
<1> DEFINE dm == d * m
           rd == r * d
<1>5. rd \in Nat /\ rd <= 100 /\ dm \in Nat /\ rd = 100 - e
  BY <1>1, <1>4
<1>6. r * dm <= r * n /\ r * (dm + d) >= r * (n + 1)
  <2> HIDE DEF dm
  <2>1. dm <= n /\ n + 1 <= dm + d /\ dm + d \in Nat /\ n + 1 \in Nat
    BY <1>1, <1>4, <1>5 DEF dm
  <2> HIDE DEF d
  <2> QED
    BY <1>5, <2>1, ProductsGrow
<1>7. r * dm = rd * m /\ r * (dm + d) = rd * (m + 1) /\ r * n = a /\ r * (n + 1) = a + r
  BY <1>1, <1>4
<1> HIDE DEF dm, rd, a
<1>8. rd * m <= a /\ rd * (m + 1) >= a + r
  BY <1>6, <1>7
<1>9. rd * (m + 1) <= 100 * (m + 1)
  BY <1>4, <1>5, ProductsGrow
<1>10. m >= s
  <2>1. a + r <= 100 * (m + 1)
    <3>1. rd * (m + 1) \in Nat /\ 100 * (m + 1) \in Nat
      BY <1>4, <1>5
    <3> QED
      BY <1>2, <1>8, <1>9, <3>1
  <2> QED
    BY <1>2, <1>3, <1>4, <2>1
<1>11. ASSUME e = 0 PROVE m = s
  <2>1. 100 * m <= a
    BY <1>5, <1>8, <1>11
  <2> QED
    BY <1>2, <1>3, <1>4, <1>10, <2>1
<1>12. ASSUME r <= 50 PROVE 200 * m <= 3 * a
  <2>1. rd >= 67
    <3>1. CASE r <= 33
      BY <1>1, <1>5, <3>1
    <3>2. CASE r >= 34
      <4>1. d >= 2
        <5> SUFFICES ASSUME d = 1 PROVE FALSE
          BY <1>1
        <5>1. 100 = r + e
          BY <1>1
        <5> QED
          BY <1>1, <1>12, <5>1
      <4>2. r * 2 <= r * d
        BY <1>1, <4>1, ProductsGrow
      <4> QED
        BY <1>5, <3>2, <4>2 DEF rd
    <3> QED
      BY <3>1, <3>2
  <2>2. 67 * m <= rd * m
    BY <1>4, <1>5, <2>1, ProductsGrow
  <2>3. rd * m \in Nat
    BY <1>4, <1>5
  <2>4. 67 * m <= a
    BY <1>2, <1>4, <1>8, <2>2, <2>3
  <2> QED
    BY <1>2, <1>4, <2>4
<1> QED
  BY <1>10, <1>11, <1>12 DEF m, s, a, d, e

(* The percentage of threads that are selected, for every number of threads*)
(* and every ratio, in every call: never fewer than asked for (in whole    *)
(* threads), the exact number if the ratio divides 100, and at most half as*)
(* many again up to a ratio of 50.                                         *)
THEOREM SelectionSizeCorrect == Spec => []SelectionHasSize
<1>1. IInv => SelectionHasSize
  <2> SUFFICES ASSUME IInv PROVE SelectionHasSize
    OBVIOUS
  <2>1. NumThreads \in Nat /\ gopts.receiving_threads_ratio \in 1 .. 100
    BY RatioOK, DistributionAssumption DEF DistributionAssumption, IInv, ObjectOK
  <2>2. selected /\ pc \notin {"select", "remove"} => size = NumberOfSharingThreads
    BY DEF IInv, Counted
  <2> DEFINE ratio == gopts.receiving_threads_ratio
             asked == NumThreads * ratio
             m == NumThreads \div (100 \div ratio)
  <2>3. /\ m >= asked \div 100
        /\ 100 % ratio = 0 => m = asked \div 100
        /\ ratio <= 50 => 200 * m <= 3 * asked
    <3> HIDE DEF ratio
    <3> QED
      BY <2>1, ShareOfThreads DEF ratio
  <2>4. selected /\ pc \notin {"select", "remove"} => size = m
    BY <2>2, Zenon DEF NumberOfSharingThreads
  <2> HIDE DEF m
  <2>5. selected /\ pc \notin {"select", "remove"} =>
          /\ size >= asked \div 100
          /\ 100 % ratio = 0 => size = asked \div 100
          /\ ratio <= 50 => 200 * size <= 3 * asked
    BY <2>3, <2>4, Zenon
  <2> QED
    BY <2>5, Zenon DEF SelectionHasSize
<1> QED
  BY <1>1, Inductive, PTL

-----------------------------------------------------------------------------
(***************************************************************************)
(* The fixed point of the generator.  Since 16807 and 2836 have no common  *)
(* factor, 16807 * Lo(x) = 2836 * Hi(x) makes Hi(x) a multiple of 16807 and*)
(* Lo(x) the same multiple of 2836: x is one of the modulus.               *)
(***************************************************************************)
LEMMA NoCommonFactor ==
  ASSUME NEW h \in Int, NEW l \in Int, -16807 <= h, h <= 16807, 16807 * l = 2836 * h
  PROVE  \/ h = 0 /\ l = 0
         \/ h = 16807 /\ l = 2836
         \/ h = -16807 /\ l = -2836
(* 1859 * 16807 - 11017 * 2836 = 1                                         *)
<1> DEFINE t == 1859 * h - 11017 * l
<1>1. t \in Int /\ h = 16807 * t /\ l = 2836 * t
  BY SMT
<1> HIDE DEF t
<1>2. t = -1 \/ t = 0 \/ t = 1
  BY SMT, <1>1
<1> QED
  BY SMT, <1>1, <1>2

LEMMA NextRandIsZero ==
  ASSUME NEW x \in Int, IsInt(x), NextRand(x) = 0
  PROVE  x = 0 \/ x = Modulus \/ x = -Modulus
<1> DEFINE h == Hi(x)
           l == Lo(x)
<1>1. /\ h \in Int /\ -16807 <= h /\ h <= 16807
      /\ l \in Int /\ -127772 <= l /\ l <= 127772
      /\ x = 127773 * h + l
  <2>1. CASE x >= 0
    <3>1. x <= Modulus
      BY SMT DEF IsInt, IntMax, Modulus
    <3>2. /\ h \in Int /\ 0 <= h /\ h <= 16807
          /\ l \in Int /\ 0 <= l /\ l <= 127772
          /\ x = 127773 * h + l
      BY <2>1, <3>1, Schrage
    <3> HIDE DEF h, l
    <3> QED
      BY <2>1, <3>2
  <2>2. CASE x < 0
    <3>1. /\ h \in Int /\ -16807 <= h /\ h <= 0
          /\ l \in Int /\ -127772 <= l /\ l <= 0
          /\ x = 127773 * h + l
      BY <2>2, SchrageNegative DEF IsInt
    <3> HIDE DEF h, l
    <3> QED
      BY <2>2, <3>1
  <2> QED
    BY <2>1, <2>2
<1>2. (16807 * l - 2836 * h) = 0 \/ 16807 * l - 2836 * h = -Modulus
  <2>1. NextRand(x) = IF 16807 * l - 2836 * h < 0 THEN (16807 * l - 2836 * h) + Modulus
                      ELSE 16807 * l - 2836 * h
    BY DEF NextRand
  <2> HIDE DEF h, l
  <2> QED
    BY <1>1, <2>1 DEF Modulus
<1> HIDE DEF h, l
<1>3. 16807 * l = 2836 * h
  BY <1>1, <1>2 DEF Modulus
<1> QED
  BY <1>1, <1>3, NoCommonFactor DEF Modulus

(* The invariant: the seed is what the first call sees; the later ones see *)
(* a number of the period.                                                 *)
NotMultiple(x) == x # -Modulus /\ x # 0 /\ x # Modulus

InPeriod ==
  /\ calls \in Nat
  /\ seed \in Int /\ IsInt(seed)
  /\ calls = 0 => rand = seed
  /\ calls > 0 => rand \in Int /\ 0 <= rand /\ rand < Modulus
  /\ NotMultiple(seed) => rand # 0

LEMMA InitInPeriod == Init => InPeriod
<1> SUFFICES ASSUME Init PROVE InPeriod
  OBVIOUS
<1>1. seed \in Int /\ IsInt(seed) /\ rand = seed /\ calls = 0
  BY SeedsAssumption DEF SeedsAssumption, Init, RandInit
<1> QED
  BY <1>1 DEF InPeriod, NotMultiple

LEMMA CallInPeriod ==
  ASSUME NEW from, NEW to, IInv, InPeriod, GetRandIntRange(from, to)
  PROVE  InPeriod'
<1>1. /\ rand' = NextRand(rand) /\ calls' = calls + 1 /\ seed' = seed
      /\ rand \in Int /\ IsInt(rand)
  BY DEF GetRandIntRange, IInv, RandOK
<1>2. rand' \in Int /\ 0 <= rand' /\ rand' < Modulus
  BY <1>1, NextRandFitsInt
<1>3. ASSUME NotMultiple(seed), rand' = 0 PROVE FALSE
  <2>1. rand = 0 \/ rand = Modulus \/ rand = -Modulus
    BY <1>1, <1>3, NextRandIsZero
  <2>2. CASE calls = 0
    BY <1>3, <2>1, <2>2 DEF InPeriod, NotMultiple
  <2>3. CASE calls # 0
    <3>1. rand \in Int /\ 0 <= rand /\ rand < Modulus /\ rand # 0
      BY <1>3, <2>3 DEF InPeriod
    <3> QED
      BY <2>1, <3>1 DEF Modulus
  <2> QED
    BY <2>2, <2>3
<1>4. calls' \in Nat /\ calls' > 0
  BY <1>1 DEF InPeriod
<1> QED
  BY <1>1, <1>2, <1>3, <1>4 DEF InPeriod

LEMMA NextInPeriod == IInv /\ InPeriod /\ [Next]_vars => InPeriod'
<1> SUFFICES ASSUME IInv, InPeriod, [Next]_vars PROVE InPeriod'
  OBVIOUS
<1>1. CASE UNCHANGED randVars
  BY <1>1 DEF InPeriod, NotMultiple, randVars
<1>2. DrawLiveness \/ DrawSizeClass \/ DrawSize \/ DrawType \/ DrawSharing \/ Remove
        => InPeriod'
  BY CallInPeriod DEF DrawLiveness, DrawSizeClass, DrawSize, DrawType, DrawSharing, Remove
<1>3. BypassSharing \/ Fill \/ Return \/ AssertionFails \/ Terminating \/ UNCHANGED vars
        => UNCHANGED randVars
  BY DEF AssertionFails, BypassSharing, Fill, Return, Terminating, vars
<1> QED
  BY <1>1, <1>2, <1>3 DEF Next

LEMMA MemberOfInterval ==
  ASSUME NEW n \in Int, NEW x \in Int, 0 <= x, x < n
  PROVE  x \in 0 .. n - 1
OBVIOUS

(* Whatever the seed, the generator is within its period after one call;   *)
(* unless the seed is a multiple of the modulus, it never gets stuck at 0, *)
(* where a thread would draw the least number of every range for ever.     *)
THEOREM GeneratorIsNeverStuck == Spec => []NeverStuck
<1>1. InPeriod => NeverStuck
  <2> SUFFICES ASSUME InPeriod PROVE NeverStuck
    OBVIOUS
  <2>1. ASSUME calls > 0 PROVE rand \in 0 .. Modulus - 1
    <3>1. Modulus \in Int
      BY DEF Modulus
    <3>2. rand \in Int /\ 0 <= rand /\ rand < Modulus
      BY <2>1 DEF InPeriod
    <3> HIDE DEF Modulus
    <3> QED
      BY <3>1, <3>2, MemberOfInterval
  <2>2. seed \notin {-Modulus, 0, Modulus} => rand # 0
    BY DEF InPeriod, NotMultiple
  <2> QED
    BY <2>1, <2>2 DEF NeverStuck
<1>2. Spec => []InPeriod
  BY InitInPeriod, NextInPeriod, Inductive, PTL DEF Spec
<1> QED
  BY <1>1, <1>2, PTL

-----------------------------------------------------------------------------
(***************************************************************************)
(* The number of objects.  A size lies in the class it was drawn from, so  *)
(* get_sizeclass returns that class; the effects are then squares between  *)
(* 1 and those of LargestProduct, and no product wraps around.             *)
(***************************************************************************)
LEMMA SizeClassIsDrawn ==
  ASSUME NEW c \in 0 .. MaxSizeClass, NEW x \in Nat, 2^c <= x, x < 2 * 2^c
  PROVE  SizeClass(x) = c
<1>1. ASSUME NEW d \in 0 .. MaxSizeClass, 2^d <= x, x < 2 * 2^d PROVE d = c
  <2>1. 2^c \in Nat /\ 2^d \in Nat
    BY PowersAssumption DEF PowersAssumption
  <2>2. ASSUME d < c PROVE FALSE
    <3>1. d + 1 \in 0 .. MaxSizeClass /\ d + 1 <= c
      BY <2>2 DEF MaxSizeClass
    <3>2. 2^(d + 1) <= 2^c /\ 2^(d + 1) = 2 * 2^d
      BY <3>1, PowersAssumption DEF PowersAssumption
    <3> QED
      BY <1>1, <2>1, <3>2
  <2>3. ASSUME c < d PROVE FALSE
    <3>1. c + 1 \in 0 .. MaxSizeClass /\ c + 1 <= d
      BY <2>3 DEF MaxSizeClass
    <3>2. 2^(c + 1) <= 2^d /\ 2^(c + 1) = 2 * 2^c
      BY <3>1, PowersAssumption DEF PowersAssumption
    <3> QED
      BY <1>1, <2>1, <3>2
  <2> QED
    BY <2>2, <2>3 DEF MaxSizeClass
<1> QED
  BY <1>1 DEF SizeClass

LEMMA UnsignedBounds ==
  ASSUME NEW x \in Nat
  PROVE  /\ Unsigned(x) \in Nat /\ Unsigned(x) <= x
         /\ x < UIntRange => Unsigned(x) = x
BY DistributionAssumption DEF DistributionAssumption, Unsigned

(* An effect is at most that of the smallest value, and does not wrap      *)
(* around if that does not.                                                *)
LEMMA EffectBounds ==
  ASSUME NEW m \in Nat, NEW low \in Nat, NEW x \in Nat, low <= x, x <= m
  PROVE  LET largest == (m - low + 1) * (m - low + 1)
         IN  /\ Effect(m, x) \in Nat
             /\ Effect(m, x) <= largest
             /\ largest < UIntRange => Effect(m, x) > 0
<1> DEFINE e == m - x + 1
           f == m - low + 1
<1>1. e \in Nat /\ f \in Nat /\ e > 0 /\ e <= f
  OBVIOUS
<1>2. Effect(m, x) = Unsigned(e * e)
  BY DEF Effect
<1> HIDE DEF e, f
<1>3. e * e \in Nat /\ e * e > 0 /\ e * e <= f * f /\ f * f \in Nat
  BY <1>1, ProductsGrow
<1>4. UIntRange \in Nat
  BY DistributionAssumption DEF DistributionAssumption
<1> DEFINE ee == e * e
           ff == f * f
<1>5. ee \in Nat /\ ee > 0 /\ ee <= ff /\ ff \in Nat
  BY <1>3
<1>6. Effect(m, x) = Unsigned(ee)
  BY <1>2
<1> HIDE DEF ee, ff
<1>7. /\ Unsigned(ee) \in Nat /\ Unsigned(ee) <= ee
      /\ ee < UIntRange => Unsigned(ee) = ee
  BY <1>5, UnsignedBounds
<1>8. /\ Effect(m, x) \in Nat /\ Effect(m, x) <= ff
      /\ ff < UIntRange => Effect(m, x) > 0
  BY <1>4, <1>5, <1>6, <1>7
<1> QED
  BY <1>8 DEF ff, f

(* What has been drawn is at least the minimum asked for.                  *)
Drawn ==
  /\ pc \in {"class", "size", "type"} => liveness >= gopts.min_liveness
  /\ pc \in {"size", "type"} => sc >= gopts.min_object_sc

Counts == Drawn /\ ObjectsCounted

(* The draws of a liveness and of a size class are at least the minimum.   *)
LEMMA DrawsFromMinimum ==
  ASSUME IInv
  PROVE  /\ DrawLiveness => liveness' >= gopts.min_liveness
         /\ DrawSizeClass => sc' >= gopts.min_object_sc
<1>1. gopts \in Options /\ rand \in Int /\ IsInt(rand)
  BY DEF IInv, ObjectOK, RandOK
<1>2. ASSUME DrawLiveness PROVE liveness' >= gopts.min_liveness
  <2>1. GetRandIntRange(gopts.min_liveness, gopts.max_liveness) /\ liveness' = result'
    BY <1>2 DEF DrawLiveness
  <2>2. result' \in gopts.min_liveness .. gopts.max_liveness
    BY <1>1, <2>1, OptionsOK, CallInRange
  <2> QED
    BY <1>1, <2>1, <2>2, OptionsOK
<1>3. ASSUME DrawSizeClass PROVE sc' >= gopts.min_object_sc
  <2>1. GetRandIntRange(gopts.min_object_sc, gopts.max_object_sc - 1) /\ sc' = result'
    BY <1>3 DEF DrawSizeClass, LargestClass
  <2>2. /\ gopts.min_object_sc \in Nat /\ gopts.max_object_sc - 1 \in Nat
        /\ gopts.min_object_sc <= gopts.max_object_sc - 1
    BY <1>1, OptionsOK
  <2>3. result' \in gopts.min_object_sc .. gopts.max_object_sc - 1
    BY <1>1, <2>1, <2>2, CallInRange
  <2> QED
    BY <2>1, <2>2, <2>3
<1> QED
  BY <1>2, <1>3

(* What get_random_object_props computes from the draws.                   *)
LEMMA ProductCounts ==
  ASSUME IInv, Drawn, pc = "type"
  PROVE  /\ NumObjects \in Nat /\ NumObjects <= LargestProduct
         /\ LargestProduct \in Nat
         /\ LargestProduct < UIntRange => NumObjects > 0
<1> DEFINE m == gopts.max_object_sc
           low == gopts.min_object_sc
           longest == gopts.max_liveness
           shortest == gopts.min_liveness
           se == (m - low + 1) * (m - low + 1)
           le == (longest - shortest + 1) * (longest - shortest + 1)
           a == Effect(m, SizeClass(sz))
           b == Effect(longest, liveness)
<1>1. /\ m \in Nat /\ low \in Nat /\ low <= sc /\ sc <= m /\ sc \in Nat
      /\ sc \in 0 .. MaxSizeClass
      /\ longest \in Nat /\ shortest \in Nat
      /\ shortest <= liveness /\ liveness <= longest /\ liveness \in Nat
      /\ sz \in Nat /\ 2^sc <= sz /\ sz < 2 * 2^sc
  <2>1. gopts \in Options
    BY DEF IInv, ObjectOK
  <2>2. /\ gopts.min_liveness \in Nat /\ gopts.max_liveness \in Nat
        /\ gopts.min_object_sc \in Nat /\ gopts.max_object_sc \in Nat
        /\ gopts.max_object_sc <= MaxSizeClass
    BY <2>1, OptionsOK DEF MaxSizeClass
  <2>3. /\ liveness \in 0 .. gopts.max_liveness /\ sc \in 0 .. gopts.max_object_sc - 1
        /\ liveness >= gopts.min_liveness /\ sc >= gopts.min_object_sc
    BY DEF IInv, ObjectOK, Drawn
  <2>4. sz \in Nat /\ 2^sc <= sz /\ sz < 2 * 2^sc
    BY DEF IInv, ObjectOK, SizeInClass
  <2>5. sc \in 0 .. MaxSizeClass
    BY <2>2, <2>3 DEF MaxSizeClass
  <2> QED
    BY <2>2, <2>3, <2>4, <2>5
<1>2. SizeClass(sz) = sc
  BY <1>1, SizeClassIsDrawn
<1>3. LargestProduct = le * se
  BY DEF LargestProduct
<1>4. /\ m - low + 1 \in Nat /\ m - low + 1 > 0
      /\ longest - shortest + 1 \in Nat /\ longest - shortest + 1 > 0
  <2> HIDE DEF m, low, longest, shortest
  <2> QED
    BY <1>1
<1>5. le \in Nat /\ se \in Nat /\ le > 0 /\ se > 0
  <2> DEFINE u == m - low + 1
             v == longest - shortest + 1
  <2>1. u * u \in Nat /\ u * u > 0 /\ v * v \in Nat /\ v * v > 0
    <3> HIDE DEF u, v
    <3> QED
      BY <1>4, ProductsGrow DEF u, v
  <2> QED
    BY <2>1
<1>6. NumObjects = Unsigned(a * b)
  BY DEF NumObjects
<1>8. UIntRange \in Nat
  BY DistributionAssumption DEF DistributionAssumption
<1>9. le * se \in Nat /\ se <= le * se /\ le <= le * se
  <2> HIDE DEF le, se
  <2>1. 1 * se <= le * se /\ le * 1 <= le * se /\ le * se \in Nat
    BY <1>5, ProductsGrow
  <2> QED
    BY <1>5, <2>1
<1>10. a \in Nat /\ a <= se /\ (se < UIntRange => a > 0)
  <2>1. a = Effect(m, sc)
    BY <1>2
  <2> HIDE DEF m, low
  <2> QED
    BY <1>1, <2>1, EffectBounds
<1>11. b \in Nat /\ b <= le /\ (le < UIntRange => b > 0)
  <2> HIDE DEF longest, shortest
  <2> QED
    BY <1>1, EffectBounds
<1> HIDE DEF a, b, le, se
<1>12. a * b \in Nat /\ a * b <= se * le /\ (a > 0 /\ b > 0 => a * b > 0)
  BY <1>5, <1>10, <1>11, ProductsGrow
<1>13. se * le = le * se
  BY <1>5
<1> DEFINE ab == a * b
           ls == le * se
<1>14. /\ ab \in Nat /\ ls \in Nat /\ ab <= ls
       /\ ls < UIntRange => ab > 0
  <2>1. ls \in Nat /\ se <= ls /\ le <= ls
    BY <1>9
  <2>2. ab \in Nat /\ ab <= ls /\ (a > 0 /\ b > 0 => ab > 0)
    BY <1>12, <1>13
  <2> HIDE DEF ab, ls
  <2> QED
    BY <1>5, <1>8, <1>10, <1>11, <2>1, <2>2
<1>15. NumObjects = Unsigned(ab) /\ LargestProduct = ls
  BY <1>3, <1>6
<1> HIDE DEF ab, ls
<1>16. Unsigned(ab) \in Nat /\ Unsigned(ab) <= ab /\ (ab < UIntRange => Unsigned(ab) = ab)
  BY <1>14, UnsignedBounds
<1> QED
  BY <1>8, <1>14, <1>15, <1>16

LEMMA InitCounts == Init => Counts
BY DEF Init, Counts, Drawn, ObjectsCounted

LEMMA NextCounts == IInv /\ Counts /\ [Next]_vars => Counts'
<1> SUFFICES ASSUME IInv, Counts, [Next]_vars PROVE Counts'
  OBVIOUS
<1>1. CASE DrawLiveness
  <2>1. pc' = "class" /\ gopts' = gopts /\ liveness' >= gopts.min_liveness
    BY <1>1, DrawsFromMinimum DEF DrawLiveness
  <2> QED
    BY <2>1 DEF Counts, Drawn, ObjectsCounted
<1>2. CASE DrawSizeClass
  <2>1. /\ pc = "class" /\ pc' = "size" /\ gopts' = gopts /\ liveness' = liveness
        /\ sc' >= gopts.min_object_sc
    BY <1>2, DrawsFromMinimum DEF DrawSizeClass
  <2> QED
    BY <2>1 DEF Counts, Drawn, ObjectsCounted
<1>3. CASE DrawSize
  BY <1>3 DEF DrawSize, Counts, Drawn, ObjectsCounted
<1>4. CASE DrawType \/ AssertionFails
  <2>1. pc = "type" /\ gopts' = gopts
    BY <1>4 DEF DrawType, AssertionFails
  <2>2. LargestProduct' = LargestProduct
    BY <2>1 DEF LargestProduct
  <2>3. /\ NumObjects \in Nat /\ NumObjects <= LargestProduct
        /\ LargestProduct \in Nat
        /\ LargestProduct < UIntRange => NumObjects > 0
    BY <2>1, ProductCounts DEF Counts
  <2>4. gopts.fixed_number_of_objects \in Nat
    BY OptionsAssumption DEF OptionsAssumption, IInv, ObjectOK
  <2>5. UIntRange \in Nat
    BY DistributionAssumption DEF DistributionAssumption
  <2>6. \/ /\ pc' = "share" /\ NumObjects > 0
           /\ \/ gopts.fixed_number_of_objects > 0
                 /\ num_objects' = gopts.fixed_number_of_objects
              \/ gopts.fixed_number_of_objects = 0 /\ num_objects' = NumObjects
        \/ pc' = "aborted" /\ ~(NumObjects > 0)
    BY <1>4 DEF DrawType, AssertionFails, Asserted
  <2> HIDE DEF LargestProduct, NumObjects
  <2>7. ObjectsCounted'
    BY <2>1, <2>2, <2>3, <2>4, <2>5, <2>6 DEF ObjectsCounted
  <2> QED
    BY <2>6, <2>7 DEF Counts, Drawn
<1>5. CASE DrawSharing \/ BypassSharing
  <2>1. pc' \in {"select", "liveness"}
    BY <1>5 DEF DrawSharing, BypassSharing
  <2> QED
    BY <2>1 DEF Counts, Drawn, ObjectsCounted
<1>6. CASE Fill \/ Remove \/ Return
  <2>1. pc' \in {"remove", "liveness"}
    BY <1>6 DEF Fill, Remove, Return
  <2> QED
    BY <2>1 DEF Counts, Drawn, ObjectsCounted
<1>7. CASE Terminating \/ UNCHANGED vars
  <2>1. UNCHANGED <<gopts, pc, liveness, sc, num_objects>>
    BY <1>7 DEF Terminating, vars, objectVars
  <2> QED
    BY <2>1 DEF Counts, Drawn, ObjectsCounted, LargestProduct
<1> QED
  BY <1>1, <1>2, <1>3, <1>4, <1>5, <1>6, <1>7 DEF Next

(* A class never has no objects and never more than the options' largest  *)
(* product, also if the effects or their product wrap around; and the      *)
(* program stops at the assertion only if the largest product is too large *)
(* for an unsigned int: the factors, each reduced to an unsigned int by    *)
(* itself, never wrap around to zero when their product would fit.         *)
THEOREM ObjectsAreCounted == Spec => []ObjectsCounted
<1>1. Counts => ObjectsCounted
  BY DEF Counts
<1>2. Spec => []Counts
  BY InitCounts, NextCounts, Inductive, PTL DEF Spec
<1> QED
  BY <1>1, <1>2, PTL
=============================================================================
