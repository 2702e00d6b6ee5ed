------------------------------- MODULE Random -------------------------------
(***************************************************************************)
(* The pseudo-random numbers of a thread (src/distribution.c): "Schrage    *)
(* minimum standard PRNG", that is 16807 * x modulo 2^31 - 1, computed     *)
(* without leaving 32 bits; and random integers of a range.  The calls are *)
(* those of module Distribution.                                           *)
(***************************************************************************)
EXTENDS Integers

CONSTANT Seeds       (* -r plus the thread number: any int                 *)

IntMax == 2147483647
IsInt(x) == -IntMax - 1 <= x /\ x <= IntMax

(* The generator's modulus is the largest int, too.                        *)
Modulus == 2147483647

ASSUME SeedsAssumption == Seeds \subseteq Int /\ \A s \in Seeds : IsInt(s)

VARIABLES
  seed,        (* mc->rand at the start                                    *)
  rand,        (* mc->rand                                                 *)
  range,       (* auxiliary: the last range that was asked for             *)
  result,      (* the last result of get_rand_int_range                    *)
  calls        (* auxiliary: number of calls                               *)

randVars == <<seed, rand, range, result, calls>>

(* Division of C: towards zero, the remainder has the dividend's sign.     *)
Quotient(a, b) == IF a >= 0 \/ a % b = 0 THEN a \div b ELSE (a \div b) + 1
Remainder(a, b) == a - b * Quotient(a, b)

Hi(x) == Quotient(x, 127773)
Lo(x) == Remainder(x, 127773)

(* A plausible slip: a negative difference is left as it is.               *)
NextRand_Negative(x) == 16807 * Lo(x) - 2836 * Hi(x)

(* next_rand                                                               *)
NextRand(x) ==
  LET r == 16807 * Lo(x) - 2836 * Hi(x)
  IN  IF r < 0 THEN r + Modulus ELSE r

(* A plausible slip: one value too many.                                   *)
InRange_OneMore(x, from, to) == from + Remainder(x, (to - from) + 2)

(* get_rand_int_range, of the number that next_rand has left.              *)
InRange(x, from, to) == from + Remainder(x, (to - from) + 1)

RandInit ==
  /\ seed \in Seeds
  /\ rand = seed
  /\ range = <<0, 0>>
  /\ result = 0
  /\ calls = 0

GetRandIntRange(from, to) ==
  /\ rand' = NextRand(rand)
  /\ result' = InRange(rand', from, to)
  /\ range' = <<from, to>>
  /\ calls' = calls + 1
  /\ UNCHANGED seed

-----------------------------------------------------------------------------
(* "returns a random integer in [from, to]", whatever int the seed is.     *)
ResultInRange == result \in range[1] .. range[2]

(* Whatever the seed, the generator is within its period after one call    *)
(* and, unless the seed is a multiple of the modulus (0, or the smallest   *)
(* int but one), it never falls into the fixed point 0.                    *)
NeverStuck ==
  /\ calls > 0 => rand \in 0 .. Modulus - 1
  /\ seed \notin {-Modulus, 0, Modulus} => rand # 0
=============================================================================
