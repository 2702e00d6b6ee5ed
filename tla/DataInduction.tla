--------------------------- MODULE DataInduction ----------------------------
(***************************************************************************)
(* Induction for the proofs about recursive data: the library states it    *)
(* for a predicate parameter, here it is stated for the set of the numbers *)
(* or finite sets that have the property.  With it, the sums over threads  *)
(* that the models write with SumFunctionOnSet obey their laws: they lose  *)
(* and gain what a single argument does, in whatever order they are added. *)
(***************************************************************************)
EXTENDS Integers, FiniteSets, Functions, FiniteSetTheorems,
        WellFoundedInduction, TLAPS

(* Every non-empty set of natural numbers has a least element.             *)
LEMMA LeastNumber ==
  ASSUME NEW T \in SUBSET Nat, T # {}
  PROVE  \E n \in T : \A m \in T : n <= m
<1> DEFINE R == OpToRel(<, Nat)
<1>1. IsWellFoundedOn(R, Nat)
  BY NatLessThanWellFounded
<1>2. \A x, y \in Nat : y < x => <<y, x>> \in R
  BY DEF OpToRel
<1> HIDE DEF R
<1>3. PICK x \in T : \A y \in T : ~ (<<y, x>> \in R)
  BY <1>1, WFMin
<1>4. ASSUME NEW m \in T PROVE x <= m
  <2>1. ~(m < x)
    BY <1>2, <1>3
  <2> QED
    BY <2>1
<1> QED
  BY <1>4

(* A property that 0 has, and n + 1 if n has it, is a property of all      *)
(* natural numbers.                                                        *)
LEMMA NumberInduction ==
  ASSUME NEW S \in SUBSET Nat, 0 \in S, \A n \in S : n + 1 \in S
  PROVE  S = Nat
<1> SUFFICES ASSUME Nat \ S # {} PROVE FALSE
  OBVIOUS
<1>1. PICK n \in Nat \ S : \A m \in Nat \ S : n <= m
  <2> Nat \ S \in SUBSET Nat
    OBVIOUS
  <2> QED
    BY LeastNumber
<1>2. n - 1 \in S
  BY <1>1
<1> QED
  BY <1>1, <1>2

(* The same for the subsets of a finite set, built up one by one.          *)
LEMMA SubsetInduction ==
  ASSUME NEW T, IsFiniteSet(T), NEW Good \in SUBSET (SUBSET T), {} \in Good,
         \A S \in SUBSET T, x \in T : S \in Good /\ x \notin S => S \cup {x} \in Good
  PROVE  Good = SUBSET T
<1> DEFINE N == {n \in Nat : \A S \in SUBSET T : Cardinality(S) = n => S \in Good}
<1>1. 0 \in N
  BY FS_Subset, FS_EmptySet
<1>2. ASSUME NEW n \in N PROVE n + 1 \in N
  <2> SUFFICES ASSUME NEW S \in SUBSET T, Cardinality(S) = n + 1 PROVE S \in Good
    OBVIOUS
  <2>1. n \in Nat /\ IsFiniteSet(S)
    BY FS_Subset
  <2>2. S # {}
    BY <2>1, FS_EmptySet
  <2>3. PICK x : x \in S
    BY <2>2
  <2>4. Cardinality(S \ {x}) = Cardinality(S) - 1
    BY <2>1, <2>3, FS_RemoveElement
  <2>5. Cardinality(S \ {x}) = n
    BY <2>1, <2>4
  <2>6. S \ {x} \in SUBSET T /\ S \ {x} \in Good
    BY <2>1, <2>5
  <2>7. (S \ {x}) \cup {x} \in Good
    BY <2>3, <2>6
  <2> QED
    BY <2>3, <2>7, (S \ {x}) \cup {x} = S
<1> HIDE DEF N
<1>3. N = Nat
  BY <1>1, <1>2, NumberInduction, N \in SUBSET Nat DEF N
<1>4. ASSUME NEW S \in SUBSET T PROVE S \in Good
  BY <1>3, FS_Subset, FS_CardinalityType DEF N
<1> QED
  BY <1>4

-----------------------------------------------------------------------------
(* The member of s that the sums of the community modules add first.       *)
Chosen(s) == CHOOSE x \in s : TRUE

(* g maps every subset of S to the sum of f over it.                       *)
SumsUp(g, f, S) ==
  g = [s \in SUBSET S |-> IF s = {} THEN 0 ELSE f[Chosen(s)] + g[s \ {Chosen(s)}]]

LEMMA ChosenIn == ASSUME NEW s, s # {} PROVE Chosen(s) \in s
BY DEF Chosen

LEMMA SumsUpExists ==
  ASSUME NEW f, NEW S, IsFiniteSet(S)
  PROVE  \E g : SumsUp(g, f, S)
<1> DEFINE Small(n) == {s \in SUBSET S : Cardinality(s) <= n}
           Body(h, s) == IF s = {} THEN 0 ELSE f[Chosen(s)] + h[s \ {Chosen(s)}]
           N == {n \in Nat : \E h : h = [s \in Small(n) |-> Body(h, s)]}
<1>1. \A s \in SUBSET S : IsFiniteSet(s) /\ Cardinality(s) \in Nat
  BY FS_Subset, FS_CardinalityType
<1>2. 0 \in N
  <2> DEFINE h == [s \in Small(0) |-> 0]
  <2>1. \A s \in Small(0) : s = {}
    BY <1>1, FS_EmptySet
  <2>2. h = [s \in Small(0) |-> Body(h, s)]
    BY <2>1
  <2> QED
    BY <2>2
<1>3. ASSUME NEW n \in N PROVE n + 1 \in N
  <2>1. PICK h : h = [s \in Small(n) |-> Body(h, s)]
    OBVIOUS
  <2> DEFINE k == [s \in Small(n + 1) |-> Body(h, s)]
  <2>2. \A s \in Small(n) : s \in Small(n + 1) /\ k[s] = h[s]
    <3> TAKE s \in Small(n)
    <3>1. s \in Small(n + 1)
      BY <1>1
    <3>2. h[s] = Body(h, s)
      BY <2>1
    <3> QED
      BY <3>1, <3>2
  <2>3. \A s \in Small(n + 1) : s # {} => s \ {Chosen(s)} \in Small(n)
    <3> SUFFICES ASSUME NEW s \in Small(n + 1), s # {} PROVE s \ {Chosen(s)} \in Small(n)
      OBVIOUS
    <3>1. Cardinality(s \ {Chosen(s)}) = Cardinality(s) - 1
      BY <1>1, ChosenIn, FS_RemoveElement
    <3> QED
      BY <1>1, <3>1
  <2>4. \A s \in Small(n + 1) : k[s] = Body(k, s)
    BY <2>2, <2>3
  <2>5. k = [s \in Small(n + 1) |-> Body(k, s)]
    BY <2>4
  <2>6. n + 1 \in Nat
    OBVIOUS
  <2> QED
    BY <2>5, <2>6
<1> HIDE DEF N
<1>4. N = Nat
  BY <1>2, <1>3, NumberInduction, N \in SUBSET Nat DEF N
<1>5. Small(Cardinality(S)) = SUBSET S
  BY <1>1, FS_Subset
<1>6. PICK h : h = [s \in Small(Cardinality(S)) |-> Body(h, s)]
  BY <1>1, <1>4 DEF N
<1> QED
  BY <1>5, <1>6 DEF SumsUp

(* Sums over a set agree with those over a larger one.                     *)
LEMMA SumsUpUnique ==
  ASSUME NEW f, NEW S, IsFiniteSet(S), NEW T \in SUBSET S,
         NEW g, SumsUp(g, f, S), NEW h, SumsUp(h, f, T)
  PROVE  \A s \in SUBSET T : g[s] = h[s]
<1> DEFINE N == {n \in Nat : \A s \in SUBSET T : Cardinality(s) = n => g[s] = h[s]}
<1>1. \A s \in SUBSET T : IsFiniteSet(s) /\ Cardinality(s) \in Nat /\ s \in SUBSET S
  BY FS_Subset, FS_CardinalityType
<1>2. \A s \in SUBSET T :
         /\ g[s] = IF s = {} THEN 0 ELSE f[Chosen(s)] + g[s \ {Chosen(s)}]
         /\ h[s] = IF s = {} THEN 0 ELSE f[Chosen(s)] + h[s \ {Chosen(s)}]
  BY <1>1 DEF SumsUp
<1>3. 0 \in N
  BY <1>1, <1>2, FS_EmptySet
<1>4. ASSUME NEW n \in N PROVE n + 1 \in N
  <2> SUFFICES ASSUME NEW s \in SUBSET T, Cardinality(s) = n + 1 PROVE g[s] = h[s]
    OBVIOUS
  <2>1. s # {} /\ n \in Nat
    BY FS_EmptySet
  <2>2. Cardinality(s \ {Chosen(s)}) = n
    <3>1. Cardinality(s \ {Chosen(s)}) = Cardinality(s) - 1
      BY <1>1, <2>1, ChosenIn, FS_RemoveElement
    <3> QED
      BY <2>1, <3>1
  <2>3. s \ {Chosen(s)} \in SUBSET T
    OBVIOUS
  <2>4. g[s \ {Chosen(s)}] = h[s \ {Chosen(s)}]
    BY <2>1, <2>2, <2>3
  <2> QED
    BY <1>2, <2>1, <2>4
<1> HIDE DEF N
<1>5. N = Nat
  BY <1>3, <1>4, NumberInduction, N \in SUBSET Nat DEF N
<1> QED
  BY <1>1, <1>5 DEF N

(* What SumFunctionOnSet computes.                                         *)
LEMMA SumIsSumsUp ==
  ASSUME NEW f, NEW S, IsFiniteSet(S)
  PROVE  \E g : /\ SumsUp(g, f, S)
                /\ \A T \in SUBSET S : SumFunctionOnSet(f, T) = g[T]
<1>1. ASSUME NEW T, IsFiniteSet(T)
      PROVE  \E h : SumsUp(h, f, T) /\ SumFunctionOnSet(f, T) = h[T]
  <2> DEFINE h == CHOOSE h : SumsUp(h, f, T)
  <2>1. SumsUp(h, f, T)
    BY <1>1, SumsUpExists
  <2>2. SumFunctionOnSet(f, T) = h[T]
    BY DEF SumFunctionOnSet, FoldFunctionOnSet, MapThenFoldSet, SumsUp, Chosen
  <2> QED
    BY <2>1, <2>2
<1>2. PICK g : SumsUp(g, f, S)
  BY SumsUpExists
<1>3. ASSUME NEW T \in SUBSET S PROVE SumFunctionOnSet(f, T) = g[T]
  <2>1. PICK h : SumsUp(h, f, T) /\ SumFunctionOnSet(f, T) = h[T]
    BY <1>1, FS_Subset
  <2> QED
    BY <1>2, <2>1, SumsUpUnique
<1> QED
  BY <1>2, <1>3

LEMMA SumOfNothing == ASSUME NEW f PROVE SumFunctionOnSet(f, {}) = 0
<1>1. PICK g : SumsUp(g, f, {}) /\ SumFunctionOnSet(f, {}) = g[{}]
  BY SumIsSumsUp, FS_EmptySet
<1> QED
  BY <1>1 DEF SumsUp

LEMMA SumStep ==
  ASSUME NEW f, NEW S, IsFiniteSet(S), S # {}
  PROVE  SumFunctionOnSet(f, S) = f[Chosen(S)] + SumFunctionOnSet(f, S \ {Chosen(S)})
<1>1. PICK g : SumsUp(g, f, S) /\ \A T \in SUBSET S : SumFunctionOnSet(f, T) = g[T]
  BY SumIsSumsUp
<1>2. g[S] = f[Chosen(S)] + g[S \ {Chosen(S)}]
  BY <1>1 DEF SumsUp
<1> QED
  BY <1>1, <1>2

LEMMA SumType ==
  ASSUME NEW S, IsFiniteSet(S), NEW f, \A x \in S : f[x] \in Int
  PROVE  SumFunctionOnSet(f, S) \in Int
<1> DEFINE Sum(s) == SumFunctionOnSet(f, s)
           N == {n \in Nat : \A s \in SUBSET S : Cardinality(s) = n => Sum(s) \in Int}
<1>1. \A s \in SUBSET S : IsFiniteSet(s) /\ Cardinality(s) \in Nat
  BY FS_Subset, FS_CardinalityType
<1>2. Sum({}) = 0
  BY SumOfNothing
<1>3. \A s \in SUBSET S : s # {} => Sum(s) = f[Chosen(s)] + Sum(s \ {Chosen(s)})
  BY <1>1, SumStep
<1> HIDE DEF Sum
<1>4. 0 \in N
  BY <1>1, <1>2, FS_EmptySet
<1>5. ASSUME NEW n \in N PROVE n + 1 \in N
  <2> SUFFICES ASSUME NEW s \in SUBSET S, Cardinality(s) = n + 1 PROVE Sum(s) \in Int
    OBVIOUS
  <2> DEFINE c == Chosen(s)
  <2>1. n \in Nat /\ s # {}
    BY FS_EmptySet
  <2>2. c \in s /\ f[c] \in Int
    BY <2>1, ChosenIn
  <2>3. Cardinality(s \ {c}) = Cardinality(s) - 1
    BY <1>1, <2>2, FS_RemoveElement
  <2>4. Sum(s \ {c}) \in Int
    BY <2>1, <2>3
  <2> QED
    BY <1>3, <2>1, <2>2, <2>4
<1> HIDE DEF N
<1>6. N = Nat
  BY <1>4, <1>5, NumberInduction, N \in SUBSET Nat DEF N
<1> QED
  BY <1>1, <1>6 DEF N, Sum

(* The order does not matter: any summand can be taken out.                *)
LEMMA SumRemove ==
  ASSUME NEW S, IsFiniteSet(S), NEW f, \A x \in S : f[x] \in Int, NEW z \in S
  PROVE  SumFunctionOnSet(f, S) = f[z] + SumFunctionOnSet(f, S \ {z})
<1> DEFINE Sum(s) == SumFunctionOnSet(f, s)
           Good(s) == \A x \in s : Sum(s) = f[x] + Sum(s \ {x})
           N == {n \in Nat : \A s \in SUBSET S : Cardinality(s) = n => Good(s)}
<1>1. \A s \in SUBSET S : IsFiniteSet(s) /\ Cardinality(s) \in Nat
  BY FS_Subset, FS_CardinalityType
<1>2. \A s \in SUBSET S : Sum(s) \in Int
  BY <1>1, SumType
<1>3. \A s \in SUBSET S : s # {} => Sum(s) = f[Chosen(s)] + Sum(s \ {Chosen(s)})
  BY <1>1, SumStep
<1>4. \A s \in SUBSET S, x \in S : x \in s => Cardinality(s \ {x}) = Cardinality(s) - 1
  BY <1>1, FS_RemoveElement
<1> HIDE DEF Sum
<1>5. 0 \in N
  BY <1>1, FS_EmptySet
<1>6. ASSUME NEW n \in N PROVE n + 1 \in N
  <2> SUFFICES ASSUME NEW s \in SUBSET S, Cardinality(s) = n + 1, NEW x \in s
               PROVE  Sum(s) = f[x] + Sum(s \ {x})
    OBVIOUS
  <2> DEFINE c == Chosen(s)
  <2>1. n \in Nat /\ s # {}
    BY FS_EmptySet
  <2>2. c \in s
    BY <2>1, ChosenIn
  <2>3. Sum(s) = f[c] + Sum(s \ {c})
    BY <1>3, <2>1
  <2>4. \A y \in s : Good(s \ {y})
    <3> SUFFICES ASSUME NEW y \in s PROVE Good(s \ {y})
      OBVIOUS
    <3>1. Cardinality(s \ {y}) = n /\ s \ {y} \in SUBSET S
      BY <1>4, <2>1
    <3> QED
      BY <3>1
  <2> HIDE DEF c
  <2>5. CASE x = c
    BY <2>3, <2>5
  <2>6. CASE x # c
    <3> DEFINE rest == Sum((s \ {x}) \ {c})
    <3>1. (s \ {c}) \ {x} = (s \ {x}) \ {c}
      OBVIOUS
    <3>2. Sum(s \ {c}) = f[x] + rest
      BY <2>2, <2>4, <2>6, <3>1
    <3>3. Sum(s \ {x}) = f[c] + rest
      BY <2>2, <2>4, <2>6
    <3>4. f[x] \in Int /\ f[c] \in Int /\ rest \in Int
      BY <1>2, <2>2
    <3>5. f[c] + (f[x] + rest) = f[x] + (f[c] + rest)
      BY <3>4
    <3> HIDE DEF rest
    <3> QED
      BY <2>3, <3>2, <3>3, <3>5
  <2> QED
    BY <2>5, <2>6
<1> HIDE DEF N
<1>7. N = Nat
  BY <1>5, <1>6, NumberInduction, N \in SUBSET Nat DEF N
<1> QED
  BY <1>1, <1>7 DEF N, Sum

(* Sums of the same numbers are the same.                                  *)
LEMMA SumEqual ==
  ASSUME NEW S, IsFiniteSet(S), NEW f, NEW g,
         \A x \in S : f[x] \in Int /\ f[x] = g[x]
  PROVE  SumFunctionOnSet(f, S) = SumFunctionOnSet(g, S)
<1> DEFINE Good == {s \in SUBSET S : SumFunctionOnSet(f, s) = SumFunctionOnSet(g, s)}
<1>1. {} \in Good
  BY SumOfNothing
<1>2. ASSUME NEW s \in SUBSET S, NEW x \in S, s \in Good, x \notin s
      PROVE  s \cup {x} \in Good
  <2>1. IsFiniteSet(s \cup {x}) /\ (s \cup {x}) \ {x} = s
    BY <1>2, FS_Subset
  <2>2. SumFunctionOnSet(f, s \cup {x}) = f[x] + SumFunctionOnSet(f, s)
    BY <2>1, SumRemove
  <2>3. SumFunctionOnSet(g, s \cup {x}) = g[x] + SumFunctionOnSet(g, s)
    BY <2>1, SumRemove
  <2> QED
    BY <1>2, <2>2, <2>3
<1>3. Good \in SUBSET (SUBSET S)
  OBVIOUS
<1> HIDE DEF Good
<1>4. \A s \in SUBSET S, x \in S : s \in Good /\ x \notin s => s \cup {x} \in Good
  BY <1>2
<1>5. Good = SUBSET S
  BY <1>1, <1>3, <1>4, SubsetInduction
<1> QED
  BY <1>5 DEF Good

(* Two functions to the integers that differ at most at z.                 *)
DifferAt(f, g, z, S) ==
  /\ \A x \in S : f[x] \in Int /\ g[x] \in Int
  /\ \A x \in S \ {z} : f[x] = g[x]

(* A sum changes by what one summand does.                                 *)
LEMMA SumChange ==
  ASSUME NEW S, IsFiniteSet(S), NEW f, NEW g, NEW z \in S, DifferAt(f, g, z, S)
  PROVE  SumFunctionOnSet(g, S) = SumFunctionOnSet(f, S) + (g[z] - f[z])
<1> USE DEF DifferAt
<1>1. IsFiniteSet(S \ {z})
  BY FS_Subset
<1>2. SumFunctionOnSet(f, S \ {z}) = SumFunctionOnSet(g, S \ {z})
      /\ SumFunctionOnSet(f, S \ {z}) \in Int
  BY <1>1, SumEqual, SumType
<1>3. SumFunctionOnSet(f, S) = f[z] + SumFunctionOnSet(f, S \ {z})
  BY SumRemove
<1>4. SumFunctionOnSet(g, S) = g[z] + SumFunctionOnSet(g, S \ {z})
  BY SumRemove
<1> QED
  BY <1>2, <1>3, <1>4

(* A sum of sums.                                                          *)
LEMMA SumAdd ==
  ASSUME NEW S, IsFiniteSet(S), NEW f, NEW g, NEW h,
         \A x \in S : f[x] \in Int /\ g[x] \in Int /\ h[x] = f[x] + g[x]
  PROVE  SumFunctionOnSet(h, S) = SumFunctionOnSet(f, S) + SumFunctionOnSet(g, S)
<1> DEFINE Good == {s \in SUBSET S : SumFunctionOnSet(h, s)
                                      = SumFunctionOnSet(f, s) + SumFunctionOnSet(g, s)}
<1>1. {} \in Good
  BY SumOfNothing
<1>2. ASSUME NEW s \in SUBSET S, NEW x \in S, s \in Good, x \notin s
      PROVE  s \cup {x} \in Good
  <2> DEFINE r == s \cup {x}
  <2>1. r \in SUBSET S /\ IsFiniteSet(r) /\ IsFiniteSet(s) /\ x \in r /\ r \ {x} = s
    BY <1>2, FS_Subset
  <2>2. \A y \in r : f[y] \in Int /\ g[y] \in Int /\ h[y] \in Int /\ h[y] = f[y] + g[y]
    BY <2>1
  <2> HIDE DEF r
  <2>3. /\ SumFunctionOnSet(f, r) = f[x] + SumFunctionOnSet(f, r \ {x})
        /\ SumFunctionOnSet(g, r) = g[x] + SumFunctionOnSet(g, r \ {x})
        /\ SumFunctionOnSet(h, r) = h[x] + SumFunctionOnSet(h, r \ {x})
    BY <2>1, <2>2, SumRemove
  <2>4. SumFunctionOnSet(f, s) \in Int /\ SumFunctionOnSet(g, s) \in Int
    <3>1. \A y \in s : f[y] \in Int /\ g[y] \in Int
      OBVIOUS
    <3> QED
      BY <2>1, <3>1, SumType
  <2>5. SumFunctionOnSet(h, s) = SumFunctionOnSet(f, s) + SumFunctionOnSet(g, s)
    BY <1>2
  <2>6. SumFunctionOnSet(h, r) = SumFunctionOnSet(f, r) + SumFunctionOnSet(g, r)
    <3>1. f[x] \in Int /\ g[x] \in Int /\ h[x] = f[x] + g[x]
      BY <2>1, <2>2
    <3>2. /\ SumFunctionOnSet(f, r) = f[x] + SumFunctionOnSet(f, s)
          /\ SumFunctionOnSet(g, r) = g[x] + SumFunctionOnSet(g, s)
          /\ SumFunctionOnSet(h, r) = h[x] + SumFunctionOnSet(h, s)
      BY <2>1, <2>3
    <3> QED
      BY <2>4, <2>5, <3>1, <3>2
  <2> QED
    BY <2>1, <2>6 DEF r
<1> HIDE DEF Good
<1>3. \A s \in SUBSET S, x \in S : s \in Good /\ x \notin s => s \cup {x} \in Good
  BY <1>2
<1>4. Good \in SUBSET (SUBSET S)
  BY DEF Good
<1>5. Good = SUBSET S
  BY <1>1, <1>3, <1>4, SubsetInduction
<1> QED
  BY <1>5 DEF Good

(* A sum of larger numbers is larger.                                      *)
LEMMA SumMonotonic ==
  ASSUME NEW S, IsFiniteSet(S), NEW f, NEW g,
         \A x \in S : f[x] \in Int /\ g[x] \in Int /\ f[x] <= g[x]
  PROVE  SumFunctionOnSet(f, S) <= SumFunctionOnSet(g, S)
<1> DEFINE Good == {s \in SUBSET S : SumFunctionOnSet(f, s) <= SumFunctionOnSet(g, s)}
<1>1. {} \in Good
  BY SumOfNothing
<1>2. ASSUME NEW s \in SUBSET S, NEW x \in S, s \in Good, x \notin s
      PROVE  s \cup {x} \in Good
  <2>1. IsFiniteSet(s) /\ IsFiniteSet(s \cup {x}) /\ (s \cup {x}) \ {x} = s
    BY <1>2, FS_Subset
  <2>2. SumFunctionOnSet(f, s \cup {x}) = f[x] + SumFunctionOnSet(f, s)
    BY <2>1, SumRemove
  <2>3. SumFunctionOnSet(g, s \cup {x}) = g[x] + SumFunctionOnSet(g, s)
    BY <2>1, SumRemove
  <2>4. SumFunctionOnSet(f, s) \in Int /\ SumFunctionOnSet(g, s) \in Int
    <3>1. \A y \in s : f[y] \in Int /\ g[y] \in Int
      OBVIOUS
    <3> QED
      BY <2>1, <3>1, SumType
  <2>5. SumFunctionOnSet(f, s) <= SumFunctionOnSet(g, s)
    BY <1>2
  <2>6. SumFunctionOnSet(f, s \cup {x}) <= SumFunctionOnSet(g, s \cup {x})
    BY <2>2, <2>3, <2>4, <2>5
  <2> QED
    BY <2>6
<1>3. Good \in SUBSET (SUBSET S)
  OBVIOUS
<1> HIDE DEF Good
<1>4. \A s \in SUBSET S, x \in S : s \in Good /\ x \notin s => s \cup {x} \in Good
  BY <1>2
<1>5. Good = SUBSET S
  BY <1>1, <1>3, <1>4, SubsetInduction
<1> QED
  BY <1>5 DEF Good

(* A sum of n equal numbers.                                               *)
LEMMA SumOfEquals ==
  ASSUME NEW S, IsFiniteSet(S), NEW k \in Int, NEW f, \A x \in S : f[x] = k
  PROVE  SumFunctionOnSet(f, S) = Cardinality(S) * k
<1> DEFINE Good == {s \in SUBSET S : SumFunctionOnSet(f, s) = Cardinality(s) * k}
<1>1. {} \in Good
  BY SumOfNothing, FS_EmptySet
<1>2. ASSUME NEW s \in SUBSET S, NEW x \in S, s \in Good, x \notin s
      PROVE  s \cup {x} \in Good
  <2>1. IsFiniteSet(s) /\ IsFiniteSet(s \cup {x}) /\ (s \cup {x}) \ {x} = s
    BY <1>2, FS_Subset
  <2>2. SumFunctionOnSet(f, s \cup {x}) = k + SumFunctionOnSet(f, s)
    BY <2>1, SumRemove
  <2>3. Cardinality(s) \in Nat /\ Cardinality(s \cup {x}) = Cardinality(s) + 1
    BY <1>2, <2>1, FS_AddElement, FS_CardinalityType
  <2>4. (Cardinality(s) + 1) * k = k + Cardinality(s) * k
    BY <2>3
  <2> QED
    BY <1>2, <2>2, <2>3, <2>4
<1>3. Good \in SUBSET (SUBSET S)
  OBVIOUS
<1> HIDE DEF Good
<1>4. \A s \in SUBSET S, x \in S : s \in Good /\ x \notin s => s \cup {x} \in Good
  BY <1>2
<1>5. Good = SUBSET S
  BY <1>1, <1>3, <1>4, SubsetInduction
<1> QED
  BY <1>5 DEF Good

(* A sum of natural numbers is one, and no less than a part of it.         *)
LEMMA SumNat ==
  ASSUME NEW S, IsFiniteSet(S), NEW f, \A x \in S : f[x] \in Nat
  PROVE  SumFunctionOnSet(f, S) \in Nat
<1> DEFINE z == [x \in S |-> 0]
<1>1. SumFunctionOnSet(z, S) = Cardinality(S) * 0
  BY SumOfEquals
<1>2. SumFunctionOnSet(z, S) <= SumFunctionOnSet(f, S)
  BY SumMonotonic
<1>3. SumFunctionOnSet(f, S) \in Int
  BY SumType
<1> QED
  BY <1>1, <1>2, <1>3, FS_CardinalityType

LEMMA SumOfPart ==
  ASSUME NEW S, IsFiniteSet(S), NEW f, \A x \in S : f[x] \in Nat, NEW T \in SUBSET S
  PROVE  SumFunctionOnSet(f, T) <= SumFunctionOnSet(f, S)
<1> DEFINE Good == {s \in SUBSET S : SumFunctionOnSet(f, T) <= SumFunctionOnSet(f, T \cup s)}
<1>0. SumFunctionOnSet(f, T) \in Nat
  BY SumNat, FS_Subset
<1>1. {} \in Good
  BY <1>0, T \cup {} = T
<1>2. ASSUME NEW s \in SUBSET S, NEW x \in S, s \in Good, x \notin s
      PROVE  s \cup {x} \in Good
  <2> SUFFICES SumFunctionOnSet(f, T) <= SumFunctionOnSet(f, T \cup (s \cup {x}))
    OBVIOUS
  <2>0. SumFunctionOnSet(f, T) <= SumFunctionOnSet(f, T \cup s)
    BY <1>2
  <2>1. CASE x \in T
    <3>1. T \cup (s \cup {x}) = T \cup s
      BY <2>1
    <3> QED
      BY <2>0, <3>1
  <2>2. CASE x \notin T
    <3> DEFINE U == T \cup (s \cup {x})
    <3>1. IsFiniteSet(U) /\ IsFiniteSet(T \cup s) /\ U \ {x} = T \cup s /\ x \in U
      BY <1>2, <2>2, FS_Subset
    <3>2. \A y \in U : f[y] \in Int
      OBVIOUS
    <3> HIDE DEF U
    <3>3. SumFunctionOnSet(f, U) = f[x] + SumFunctionOnSet(f, T \cup s)
      BY <3>1, <3>2, SumRemove
    <3>4. SumFunctionOnSet(f, T \cup s) \in Nat /\ f[x] \in Nat
      BY <3>1, SumNat
    <3> QED
      BY <1>0, <2>0, <3>3, <3>4 DEF U
  <2> QED
    BY <2>1, <2>2
<1>3. Good \in SUBSET (SUBSET S)
  OBVIOUS
<1> HIDE DEF Good
<1>4. \A s \in SUBSET S, x \in S : s \in Good /\ x \notin s => s \cup {x} \in Good
  BY <1>2
<1>5. Good = SUBSET S
  BY <1>1, <1>3, <1>4, SubsetInduction
<1>6. S \in Good /\ T \cup S = S
  BY <1>5
<1> QED
  BY <1>6 DEF Good
=============================================================================
