---------------------------- MODULE LClassProofs ----------------------------
(***************************************************************************)
(* The linked lists of LClass are what they stand for: for every number of *)
(* threads and every size of the node buffers, no node is lost, none is in *)
(* two lists, and the headers, the links and the back links of the caches  *)
(* agree.  The inductive invariant relates the memory to the sequences     *)
(* that its lists stand for; each operation of the code changes both the   *)
(* same way.                                                               *)
(***************************************************************************)
EXTENDS LClass, DataInduction, SequenceTheorems

Ptr == Node \cup {Null}

(* The memories, and the families of sequences they may stand for.         *)
Mem == [first : [Kinds -> [Threads -> Ptr]], last : [Kinds -> [Threads -> Ptr]],
        next : [Node -> Ptr], prev : [Node -> Ptr]]
ListSet == [Kinds -> [Threads -> Seq(Node)]]

-----------------------------------------------------------------------------
(* A single sequence and the pointers of its nodes.                        *)
HeadOf(s) == IF Len(s) = 0 THEN Null ELSE s[1]
EndOf(s) == IF Len(s) = 0 THEN Null ELSE s[Len(s)]

Contains(s, n) == \E i \in 1 .. Len(s) : s[i] = n
Distinct(s) == \A i, j \in 1 .. Len(s) : s[i] = s[j] => i = j

Chain(nx, s) ==
  \A i \in 1 .. Len(s) : nx[s[i]] = IF i = Len(s) THEN Null ELSE s[i + 1]
BackChain(pr, s) ==
  \A i \in 1 .. Len(s) : pr[s[i]] = IF i = 1 THEN Null ELSE s[i - 1]

LEMMA TailFacts ==
  ASSUME NEW s \in Seq(Node), Len(s) # 0
  PROVE  /\ s[1] \in Node
         /\ Tail(s) \in Seq(Node)
         /\ Len(Tail(s)) = Len(s) - 1
         /\ \A i \in 1 .. Len(s) - 1 : Tail(s)[i] = s[i + 1]
         /\ Len(s) \in Nat
         /\ Head(s) = s[1]
  BY HeadTailProperties, LenProperties, EmptySeq

LEMMA AppendFacts ==
  ASSUME NEW s \in Seq(Node), NEW c \in Node
  PROVE  /\ Append(s, c) \in Seq(Node)
         /\ Len(Append(s, c)) = Len(s) + 1
         /\ \A i \in 1 .. Len(s) : Append(s, c)[i] = s[i]
         /\ Append(s, c)[Len(s) + 1] = c
         /\ Len(s) \in Nat
  BY LenProperties

LEMMA PushFacts ==
  ASSUME NEW s \in Seq(Node), NEW c \in Node
  PROVE  /\ <<c>> \o s \in Seq(Node)
         /\ Len(<<c>> \o s) = Len(s) + 1
         /\ (<<c>> \o s)[1] = c
         /\ \A i \in 1 .. Len(s) : (<<c>> \o s)[i + 1] = s[i]
         /\ Len(s) \in Nat
<1>1. <<c>> \in Seq(Node) /\ Len(<<c>>) = 1 /\ <<c>>[1] = c
  OBVIOUS
<1> DEFINE p == <<c>> \o s
<1>2. /\ p \in Seq(Node) /\ Len(p) = 1 + Len(s)
      /\ \A i \in 1 .. 1 + Len(s) : p[i] = IF i <= 1 THEN <<c>>[i] ELSE s[i - 1]
  BY <1>1, ConcatProperties
<1>3. Len(s) \in Nat
  BY LenProperties
<1> HIDE DEF p
<1>4. \A i \in 1 .. Len(s) : p[i + 1] = s[i]
  <2> TAKE i \in 1 .. Len(s)
  <2>1. i + 1 \in 1 .. 1 + Len(s) /\ ~(i + 1 <= 1) /\ (i + 1) - 1 = i
    BY <1>3
  <2> QED
    BY <1>2, <2>1
<1>5. p[1] = c
  BY <1>1, <1>2, <1>3
<1> QED
  BY <1>2, <1>3, <1>4, <1>5 DEF p

LEMMA PushOfTail ==
  ASSUME NEW s \in Seq(Node), Len(s) # 0
  PROVE  <<s[1]>> \o Tail(s) = s
<1> DEFINE p == <<s[1]>> \o Tail(s)
<1>1. /\ p \in Seq(Node) /\ Len(p) = Len(Tail(s)) + 1 /\ p[1] = s[1]
      /\ \A i \in 1 .. Len(Tail(s)) : p[i + 1] = Tail(s)[i]
  BY TailFacts, PushFacts
<1>2. Len(p) = Len(s) /\ Len(s) \in Nat
  BY <1>1, TailFacts
<1> HIDE DEF p
<1>3. \A i \in 1 .. Len(p) : p[i] = s[i]
  <2> TAKE i \in 1 .. Len(p)
  <2>1. CASE i = 1
    BY <1>1, <2>1
  <2>2. CASE i # 1
    <3>1. i - 1 \in 1 .. Len(s) - 1 /\ (i - 1) + 1 = i
      BY <1>2, <2>2
    <3>2. p[(i - 1) + 1] = Tail(s)[i - 1] /\ Tail(s)[i - 1] = s[(i - 1) + 1]
      BY <1>1, <3>1, TailFacts
    <3> QED
      BY <3>1, <3>2
  <2> QED
    BY <2>1, <2>2
<1> QED
  BY <1>1, <1>2, <1>3, SeqEqual DEF p

-----------------------------------------------------------------------------
(* Walking along a chain yields its sequence.                              *)

LEMMA NodesAreFinite == IsFiniteSet(Node) /\ Cardinality(Node) \in Nat
<1>1. IsFiniteSet(Threads) /\ NodeBufferSize \in Nat
  BY FiniteAssumption DEF FiniteAssumption
<1>2. NodeBufferSize - 1 \in Int
  BY <1>1
<1>3. IsFiniteSet(0 .. NodeBufferSize - 1)
  BY <1>2, FS_Interval
<1>4. IsFiniteSet(Node)
  BY <1>1, <1>3, FS_Product DEF Node
<1> QED
  BY <1>4, FS_CardinalityType

(* w is the recursive function of Walk, for at most b steps.               *)
Walks(w, nx, b) ==
  w = [i \in 0 .. b |->
         [n \in Ptr |-> IF n = Null \/ i = 0 THEN <<>> ELSE <<n>> \o w[i - 1][nx[n]]]]

LEMMA WalksExists ==
  ASSUME NEW nx, NEW b \in Nat
  PROVE  \E w : Walks(w, nx, b)
<1> DEFINE Body(w, i) == [n \in Ptr |-> IF n = Null \/ i = 0 THEN <<>>
                                         ELSE <<n>> \o w[i - 1][nx[n]]]
           N == {a \in Nat : \E w : w = [i \in 0 .. a |-> Body(w, i)]}
<1>1. 0 \in N
  <2> DEFINE v == [i \in 0 .. 0 |-> [n \in Ptr |-> <<>>]]
  <2>1. \A i \in 0 .. 0 : i = 0 /\ Body(v, i) = [n \in Ptr |-> <<>>]
    OBVIOUS
  <2>2. v = [i \in 0 .. 0 |-> Body(v, i)]
    BY <2>1
  <2> HIDE DEF v
  <2> QED
    BY <2>2
<1>2. ASSUME NEW a \in N PROVE a + 1 \in N
  <2>0. a \in Nat /\ a + 1 \in Nat
    OBVIOUS
  <2>1. PICK w : w = [i \in 0 .. a |-> Body(w, i)]
    OBVIOUS
  <2> DEFINE v == [i \in 0 .. a + 1 |-> Body(w, i)]
  <2>2. \A i \in 0 .. a : v[i] = w[i]
    <3> TAKE i \in 0 .. a
    <3>1. v[i] = Body(w, i)
      OBVIOUS
    <3>2. w[i] = Body(w, i)
      BY <2>1
    <3> QED
      BY <3>1, <3>2
  <2>3. \A i \in 0 .. a + 1 : v[i] = Body(v, i)
    <3> TAKE i \in 0 .. a + 1
    <3>1. v[i] = Body(w, i)
      OBVIOUS
    <3>2. i = 0 \/ v[i - 1] = w[i - 1]
      <4>1. i = 0 \/ i - 1 \in 0 .. a
        BY <2>0
      <4> QED
        BY <2>2, <4>1
    <3> HIDE DEF v
    <3> QED
      BY <3>1, <3>2
  <2>4. v = [i \in 0 .. a + 1 |-> v[i]]
    OBVIOUS
  <2> HIDE DEF v
  <2>5. v = [i \in 0 .. a + 1 |-> Body(v, i)]
    BY <2>3, <2>4
  <2>6. \E u : u = [i \in 0 .. a + 1 |-> Body(u, i)]
    BY <2>5
  <2> QED
    BY <2>0, <2>6
<1> HIDE DEF N
<1>3. N = Nat
  BY <1>1, <1>2, NumberInduction, N \in SUBSET Nat DEF N
<1>4. PICK w : w = [i \in 0 .. b |-> Body(w, i)]
  BY <1>3 DEF N
<1> QED
  BY <1>4 DEF Walks

LEMMA WalkIsWalks ==
  ASSUME NEW nx, NEW p
  PROVE  \E w : Walks(w, nx, Cardinality(Node) + 1) /\ Walk(nx, p) = w[Cardinality(Node) + 1][p]
<1>1. IsFiniteSet(Node) /\ Cardinality(Node) \in Nat
  BY NodesAreFinite
<1> DEFINE b == Cardinality(Node) + 1
           w == CHOOSE w : Walks(w, nx, b)
<1>2. b \in Nat
  BY <1>1
<1>3. Walks(w, nx, b)
  BY <1>2, WalksExists
<1>4. Walk(nx, p) = w[b][p]
  BY DEF Walk, Walks, Ptr
<1> QED
  BY <1>3, <1>4

LEMMA ChainAt ==
  ASSUME NEW nx, NEW s, Chain(nx, s), NEW i \in 1 .. Len(s)
  PROVE  nx[s[i]] = IF i = Len(s) THEN Null ELSE s[i + 1]
  BY DEF Chain

LEMMA TailChain ==
  ASSUME NEW s \in Seq(Node), NEW nx, Len(s) # 0, Chain(nx, s)
  PROVE  Chain(nx, Tail(s)) /\ nx[s[1]] = HeadOf(Tail(s))
<1> DEFINE r == Tail(s)
<1>1. /\ Len(r) = Len(s) - 1 /\ Len(s) \in Nat
      /\ \A i \in 1 .. Len(s) - 1 : r[i] = s[i + 1]
  BY TailFacts
<1> HIDE DEF r
<1>2. ASSUME NEW i \in 1 .. Len(r)
      PROVE  nx[r[i]] = IF i = Len(r) THEN Null ELSE r[i + 1]
  <2>1. i + 1 \in 1 .. Len(s) /\ r[i] = s[i + 1]
    BY <1>1
  <2>2. nx[s[i + 1]] = IF i + 1 = Len(s) THEN Null ELSE s[(i + 1) + 1]
    BY <2>1, ChainAt
  <2>3. i # Len(r) => r[i + 1] = s[(i + 1) + 1]
    BY <1>1
  <2>4. i = Len(r) <=> i + 1 = Len(s)
    BY <1>1
  <2> QED
    BY <2>1, <2>2, <2>3, <2>4
<1>3. 1 \in 1 .. Len(s) /\ (Len(r) # 0 => r[1] = s[1 + 1]) /\ (1 = Len(s) <=> Len(r) = 0)
  BY <1>1
<1>4. nx[s[1]] = IF 1 = Len(s) THEN Null ELSE s[1 + 1]
  BY <1>3, ChainAt
<1>5. Chain(nx, r)
  BY <1>2 DEF Chain
<1>6. nx[s[1]] = HeadOf(r)
  BY <1>3, <1>4 DEF HeadOf
<1> QED
  BY <1>5, <1>6 DEF r

LEMMA WalksOfChain ==
  ASSUME NEW nx, NEW b \in Nat, NEW w, Walks(w, nx, b),
         NEW s \in Seq(Node), Chain(nx, s), Len(s) <= b
  PROVE  w[b][HeadOf(s)] = s
<1> DEFINE N == {i \in Nat : i <= b => \A r \in Seq(Node) :
                               Chain(nx, r) /\ Len(r) <= i => w[i][HeadOf(r)] = r}
<1>1. \A i \in 0 .. b : \A n \in Ptr :
         w[i][n] = IF n = Null \/ i = 0 THEN <<>> ELSE <<n>> \o w[i - 1][nx[n]]
  <2> TAKE i \in 0 .. b
  <2>1. w[i] = [n \in Ptr |-> IF n = Null \/ i = 0 THEN <<>>
                              ELSE <<n>> \o w[i - 1][nx[n]]]
    BY DEF Walks
  <2> QED
    BY <2>1
<1>2. \A i \in 0 .. b : \A r \in Seq(Node) : Len(r) = 0 => w[i][HeadOf(r)] = r
  <2> SUFFICES ASSUME NEW i \in 0 .. b, NEW r \in Seq(Node), Len(r) = 0
               PROVE  w[i][HeadOf(r)] = r
    OBVIOUS
  <2>1. r = <<>> /\ HeadOf(r) = Null /\ Null \in Ptr
    BY EmptySeq DEF HeadOf, Ptr
  <2> QED
    BY <1>1, <2>1
<1>3. 0 \in N
  BY <1>2, LenProperties
<1>4. ASSUME NEW i \in N PROVE i + 1 \in N
  <2> SUFFICES ASSUME i + 1 <= b, NEW r \in Seq(Node), Chain(nx, r), Len(r) <= i + 1
               PROVE  w[i + 1][HeadOf(r)] = r
    OBVIOUS
  <2>0. /\ i \in Nat /\ i <= b /\ i + 1 \in 0 .. b
        /\ \A q \in Seq(Node) : Chain(nx, q) /\ Len(q) <= i => w[i][HeadOf(q)] = q
    <3>1. i \in Nat /\ (i <= b => \A q \in Seq(Node) :
                               Chain(nx, q) /\ Len(q) <= i => w[i][HeadOf(q)] = q)
      OBVIOUS
    <3> QED
      BY <3>1
  <2> HIDE DEF N
  <2>1. CASE Len(r) = 0
    BY <1>2, <2>0, <2>1
  <2>2. CASE Len(r) # 0
    <3>1. /\ Tail(r) \in Seq(Node) /\ Len(Tail(r)) = Len(r) - 1 /\ Len(r) \in Nat
          /\ r[1] \in Node /\ HeadOf(r) = r[1]
      BY <2>2, TailFacts DEF HeadOf
    <3>2. Chain(nx, Tail(r)) /\ nx[r[1]] = HeadOf(Tail(r))
      BY <2>2, TailChain
    <3>3. w[i][HeadOf(Tail(r))] = Tail(r)
      <4>1. Len(Tail(r)) <= i
        BY <2>0, <3>1
      <4> QED
        BY <2>0, <3>1, <3>2, <4>1
    <3>4. w[i + 1][r[1]] = <<r[1]>> \o w[i][nx[r[1]]]
      <4>1. i + 1 \in 0 .. b /\ i + 1 # 0 /\ (i + 1) - 1 = i
        BY <2>0
      <4>2. r[1] \in Ptr /\ r[1] # Null
        BY <3>1, NullAssumption DEF Ptr, NullAssumption
      <4> QED
        BY <1>1, <4>1, <4>2
    <3> QED
      BY <2>2, <3>1, <3>2, <3>3, <3>4, PushOfTail
  <2> QED
    BY <2>1, <2>2
<1> HIDE DEF N
<1>5. N = Nat
  BY <1>3, <1>4, NumberInduction, N \in SUBSET Nat DEF N
<1> QED
  BY <1>5 DEF N

(* A sequence without repetitions is no longer than there are nodes.       *)
LEMMA DistinctIsShort ==
  ASSUME NEW s \in Seq(Node), Distinct(s)
  PROVE  Len(s) <= Cardinality(Node) + 1
<1>1. IsFiniteSet(Node) /\ Cardinality(Node) \in Nat
  BY NodesAreFinite
<1>2. s \in [1 .. Len(s) -> Node] /\ Len(s) \in Nat
  BY LenProperties
<1>3. s \in Injection(1 .. Len(s), Node)
  BY <1>2, Zenon DEF Distinct, Injection, IsInjective
<1>4. Cardinality(1 .. Len(s)) <= Cardinality(Node)
  BY <1>1, <1>3, FS_Injection
<1>5. \A n \in Nat : Cardinality(1 .. n) = n
  BY FS_Interval
<1> QED
  BY <1>1, <1>2, <1>4, <1>5

LEMMA WalkOfChain ==
  ASSUME NEW nx, NEW s \in Seq(Node), Distinct(s), Chain(nx, s)
  PROVE  Walk(nx, HeadOf(s)) = s
<1> DEFINE b == Cardinality(Node) + 1
<1>1. b \in Nat
  BY NodesAreFinite
<1>2. Len(s) <= b
  BY DistinctIsShort
<1>3. PICK w : Walks(w, nx, b) /\ Walk(nx, HeadOf(s)) = w[b][HeadOf(s)]
  BY WalkIsWalks
<1> HIDE DEF b
<1> QED
  BY <1>1, <1>2, <1>3, WalksOfChain

-----------------------------------------------------------------------------
(* What the operations on a sequence do to its nodes and their pointers.   *)

(* g is f except for the nodes in S.                                       *)
SameBut(f, g, S) == \A n \in Node \ S : g[n] = f[n]

(* No node of S is in s.                                                   *)
Avoids(s, S) == \A n \in S : ~Contains(s, n)

LEMMA ContainsAt ==
  ASSUME NEW s, NEW i \in 1 .. Len(s)
  PROVE  Contains(s, s[i])
  BY DEF Contains

LEMMA ChainFrame ==
  ASSUME NEW s \in Seq(Node), NEW nx, NEW nx2, NEW S,
         Chain(nx, s), SameBut(nx, nx2, S), Avoids(s, S)
  PROVE  Chain(nx2, s)
<1>1. ASSUME NEW i \in 1 .. Len(s) PROVE nx2[s[i]] = nx[s[i]]
  <2>1. s[i] \in Node
    BY ElementOfSeq
  <2>2. s[i] \notin S
    BY ContainsAt DEF Avoids
  <2> QED
    BY <2>1, <2>2 DEF SameBut
<1> QED
  BY <1>1 DEF Chain

LEMMA BackChainFrame ==
  ASSUME NEW s \in Seq(Node), NEW pr, NEW pr2, NEW S,
         BackChain(pr, s), SameBut(pr, pr2, S), Avoids(s, S)
  PROVE  BackChain(pr2, s)
<1>1. ASSUME NEW i \in 1 .. Len(s) PROVE pr2[s[i]] = pr[s[i]]
  <2>1. s[i] \in Node
    BY ElementOfSeq
  <2>2. s[i] \notin S
    BY ContainsAt DEF Avoids
  <2> QED
    BY <2>1, <2>2 DEF SameBut
<1> QED
  BY <1>1 DEF BackChain

(* A node is put at the end.                                               *)
LEMMA AppendNodes ==
  ASSUME NEW s \in Seq(Node), NEW c \in Node, Distinct(s), ~Contains(s, c)
  PROVE  /\ Append(s, c) \in Seq(Node)
         /\ Distinct(Append(s, c))
         /\ \A n : Contains(Append(s, c), n) => Contains(s, n) \/ n = c
         /\ HeadOf(Append(s, c)) = IF Len(s) = 0 THEN c ELSE HeadOf(s)
         /\ EndOf(Append(s, c)) = c
<1> DEFINE r == Append(s, c)
<1>1. /\ r \in Seq(Node) /\ Len(r) = Len(s) + 1 /\ r[Len(s) + 1] = c /\ Len(s) \in Nat
      /\ \A i \in 1 .. Len(s) : r[i] = s[i]
  BY AppendFacts
<1> HIDE DEF r
<1>2. Distinct(r)
  <2> SUFFICES ASSUME NEW i \in 1 .. Len(r), NEW j \in 1 .. Len(r), r[i] = r[j]
               PROVE  i = j
    BY DEF Distinct
  <2>1. CASE i = Len(r) /\ j = Len(r)
    BY <2>1
  <2>2. CASE i = Len(r) /\ j # Len(r)
    BY <1>1, <2>2 DEF Contains
  <2>3. CASE i # Len(r) /\ j = Len(r)
    BY <1>1, <2>3 DEF Contains
  <2>4. CASE i # Len(r) /\ j # Len(r)
    BY <1>1, <2>4 DEF Distinct
  <2> QED
    BY <2>1, <2>2, <2>3, <2>4
<1>3. ASSUME NEW n, Contains(r, n) PROVE Contains(s, n) \/ n = c
  <2>1. PICK i \in 1 .. Len(r) : r[i] = n
    BY <1>3 DEF Contains
  <2> QED
    BY <1>1, <2>1 DEF Contains
<1>4. HeadOf(r) = IF Len(s) = 0 THEN c ELSE HeadOf(s)
  BY <1>1 DEF HeadOf
<1>5. EndOf(r) = c
  BY <1>1 DEF EndOf
<1> QED
  BY <1>1, <1>2, <1>3, <1>4, <1>5 DEF r

LEMMA AppendChain ==
  ASSUME NEW s \in Seq(Node), NEW c \in Node, NEW nx, NEW nx2,
         Chain(nx, s), Distinct(s), ~Contains(s, c),
         SameBut(nx, nx2, {EndOf(s), c}), nx2[c] = Null,
         Len(s) # 0 => nx2[EndOf(s)] = c
  PROVE  Chain(nx2, Append(s, c))
<1> DEFINE r == Append(s, c)
<1>1. /\ Len(r) = Len(s) + 1 /\ r[Len(s) + 1] = c /\ Len(s) \in Nat
      /\ \A i \in 1 .. Len(s) : r[i] = s[i]
  BY AppendFacts
<1> HIDE DEF r
<1> SUFFICES ASSUME NEW i \in 1 .. Len(r)
             PROVE  nx2[r[i]] = IF i = Len(r) THEN Null ELSE r[i + 1]
  BY DEF Chain, r
<1>2. CASE i = Len(r)
  BY <1>1, <1>2
<1>3. CASE i = Len(s)
  <2>1. EndOf(s) = s[i] /\ r[i] = s[i] /\ r[i + 1] = c /\ i # Len(r) /\ Len(s) # 0
    BY <1>1, <1>3 DEF EndOf
  <2> QED
    BY <2>1
<1>4. CASE i # Len(r) /\ i # Len(s)
  <2>1. i \in 1 .. Len(s) /\ i + 1 \in 1 .. Len(s) /\ Len(s) \in 1 .. Len(s)
    BY <1>1, <1>4
  <2>2. s[i] \in Node /\ Contains(s, s[i])
    BY <2>1, ElementOfSeq, ContainsAt
  <2>3. s[i] # EndOf(s)
    BY <1>4, <2>1 DEF Distinct, EndOf
  <2>4. nx2[s[i]] = nx[s[i]]
    BY <2>2, <2>3 DEF SameBut
  <2>5. nx[s[i]] = IF i = Len(s) THEN Null ELSE s[i + 1]
    BY <2>1, ChainAt
  <2> QED
    BY <1>1, <1>4, <2>1, <2>4, <2>5
<1> QED
  BY <1>1, <1>2, <1>3, <1>4

(* A node is put in front.                                                 *)
LEMMA PushNodes ==
  ASSUME NEW s \in Seq(Node), NEW c \in Node, Distinct(s), ~Contains(s, c)
  PROVE  /\ <<c>> \o s \in Seq(Node)
         /\ Distinct(<<c>> \o s)
         /\ \A n : Contains(<<c>> \o s, n) => Contains(s, n) \/ n = c
         /\ HeadOf(<<c>> \o s) = c
         /\ EndOf(<<c>> \o s) = IF Len(s) = 0 THEN c ELSE EndOf(s)
<1> DEFINE r == <<c>> \o s
<1>1. /\ r \in Seq(Node) /\ Len(r) = Len(s) + 1 /\ r[1] = c /\ Len(s) \in Nat
      /\ \A i \in 1 .. Len(s) : r[i + 1] = s[i]
  BY PushFacts
<1> HIDE DEF r
<1>2. \A i \in 1 .. Len(r) : i = 1 \/ (i - 1 \in 1 .. Len(s) /\ r[i] = s[i - 1])
  <2> TAKE i \in 1 .. Len(r)
  <2>1. i = 1 \/ (i - 1 \in 1 .. Len(s) /\ (i - 1) + 1 = i)
    BY <1>1
  <2> QED
    BY <1>1, <2>1
<1>3. Distinct(r)
  <2> SUFFICES ASSUME NEW i \in 1 .. Len(r), NEW j \in 1 .. Len(r), r[i] = r[j]
               PROVE  i = j
    BY DEF Distinct
  <2>1. CASE i = 1 /\ j = 1
    BY <2>1
  <2>2. CASE i = 1 /\ j # 1
    BY <1>1, <1>2, <2>2 DEF Contains
  <2>3. CASE i # 1 /\ j = 1
    BY <1>1, <1>2, <2>3 DEF Contains
  <2>4. CASE i # 1 /\ j # 1
    <3>1. i - 1 = j - 1
      BY <1>2, <2>4 DEF Distinct
    <3> QED
      BY <3>1
  <2> QED
    BY <2>1, <2>2, <2>3, <2>4
<1>4. ASSUME NEW n, Contains(r, n) PROVE Contains(s, n) \/ n = c
  <2>1. PICK i \in 1 .. Len(r) : r[i] = n
    BY <1>4 DEF Contains
  <2> QED
    BY <1>1, <1>2, <2>1 DEF Contains
<1>5. HeadOf(r) = c
  BY <1>1 DEF HeadOf
<1>6. EndOf(r) = IF Len(s) = 0 THEN c ELSE EndOf(s)
  BY <1>1, <1>2 DEF EndOf
<1> QED
  BY <1>1, <1>3, <1>4, <1>5, <1>6 DEF r

LEMMA PushChain ==
  ASSUME NEW s \in Seq(Node), NEW c \in Node, NEW nx, NEW nx2,
         Chain(nx, s), ~Contains(s, c), SameBut(nx, nx2, {c}), nx2[c] = HeadOf(s)
  PROVE  Chain(nx2, <<c>> \o s)
<1> DEFINE r == <<c>> \o s
<1>1. /\ Len(r) = Len(s) + 1 /\ r[1] = c /\ Len(s) \in Nat
      /\ \A i \in 1 .. Len(s) : r[i + 1] = s[i]
  BY PushFacts
<1> HIDE DEF r
<1>2. Chain(nx2, s)
  BY ChainFrame DEF Avoids
<1> SUFFICES ASSUME NEW i \in 1 .. Len(r)
             PROVE  nx2[r[i]] = IF i = Len(r) THEN Null ELSE r[i + 1]
  BY DEF Chain, r
<1>3. CASE i = 1
  BY <1>1, <1>3 DEF HeadOf
<1>4. CASE i # 1
  <2> DEFINE j == i - 1
  <2>1. j \in 1 .. Len(s) /\ i = j + 1 /\ (i = Len(r) <=> j = Len(s))
    BY <1>1, <1>4
  <2>2. nx2[s[j]] = IF j = Len(s) THEN Null ELSE s[j + 1]
    BY <1>2, <2>1, ChainAt
  <2>3. r[i] = s[j] /\ (j # Len(s) => r[i + 1] = s[j + 1])
    <3> HIDE DEF j
    <3> QED
      BY <1>1, <2>1
  <2> QED
    BY <2>1, <2>2, <2>3
<1> QED
  BY <1>3, <1>4

LEMMA PushBack ==
  ASSUME NEW s \in Seq(Node), NEW c \in Node, NEW pr, NEW pr2,
         BackChain(pr, s), Distinct(s), ~Contains(s, c),
         SameBut(pr, pr2, {HeadOf(s), c}), pr2[c] = Null,
         Len(s) # 0 => pr2[HeadOf(s)] = c
  PROVE  BackChain(pr2, <<c>> \o s)
<1> DEFINE r == <<c>> \o s
<1>1. /\ Len(r) = Len(s) + 1 /\ r[1] = c /\ Len(s) \in Nat
      /\ \A i \in 1 .. Len(s) : r[i + 1] = s[i]
  BY PushFacts
<1> HIDE DEF r
<1> SUFFICES ASSUME NEW i \in 1 .. Len(r)
             PROVE  pr2[r[i]] = IF i = 1 THEN Null ELSE r[i - 1]
  BY DEF BackChain, r
<1>2. CASE i = 1
  BY <1>1, <1>2
<1>3. CASE i = 2
  <2>1. 1 \in 1 .. Len(s) /\ i = 1 + 1 /\ Len(s) # 0
    BY <1>1, <1>3
  <2>2. r[i] = s[1] /\ HeadOf(s) = s[1] /\ r[i - 1] = c
    BY <1>1, <2>1 DEF HeadOf
  <2> QED
    BY <2>1, <2>2
<1>4. CASE i # 1 /\ i # 2
  <2> DEFINE j == i - 1
             h == i - 2
  <2>1. j \in 1 .. Len(s) /\ h \in 1 .. Len(s) /\ i = j + 1 /\ j = h + 1 /\ j # 1
        /\ i - 1 = h + 1 /\ j - 1 = h /\ 1 \in 1 .. Len(s)
    BY <1>1, <1>4
  <2> HIDE DEF j, h
  <2>2. r[i] = s[j] /\ r[i - 1] = s[h]
    BY <1>1, <2>1
  <2>3. s[j] \in Node /\ Contains(s, s[j])
    BY <2>1, ElementOfSeq, ContainsAt
  <2>4. s[j] # HeadOf(s)
    BY <2>1 DEF Distinct, HeadOf
  <2>5. pr2[s[j]] = pr[s[j]]
    BY <2>3, <2>4 DEF SameBut
  <2>6. pr[s[j]] = s[h]
    BY <2>1 DEF BackChain
  <2> QED
    BY <1>4, <2>2, <2>5, <2>6
<1> QED
  BY <1>2, <1>3, <1>4

(* The first node is taken out.                                            *)
LEMMA TailNodes ==
  ASSUME NEW s \in Seq(Node), Len(s) # 0, Distinct(s)
  PROVE  /\ Tail(s) \in Seq(Node)
         /\ Distinct(Tail(s))
         /\ \A n : Contains(Tail(s), n) => Contains(s, n) /\ n # s[1]
         /\ EndOf(Tail(s)) = IF Len(s) = 1 THEN Null ELSE EndOf(s)
         /\ (Len(Tail(s)) = 0 <=> Len(s) = 1)
<1> DEFINE r == Tail(s)
<1>1. /\ r \in Seq(Node) /\ Len(r) = Len(s) - 1 /\ Len(s) \in Nat
      /\ \A i \in 1 .. Len(s) - 1 : r[i] = s[i + 1]
  BY TailFacts
<1> HIDE DEF r
<1>2. \A i \in 1 .. Len(r) : i + 1 \in 1 .. Len(s) /\ r[i] = s[i + 1]
  BY <1>1
<1>3. Distinct(r)
  <2> SUFFICES ASSUME NEW i \in 1 .. Len(r), NEW j \in 1 .. Len(r), r[i] = r[j]
               PROVE  i = j
    BY DEF Distinct
  <2>1. i + 1 = j + 1
    BY <1>2 DEF Distinct
  <2> QED
    BY <2>1
<1>4. ASSUME NEW n, Contains(r, n) PROVE Contains(s, n) /\ n # s[1]
  <2>1. PICK i \in 1 .. Len(r) : r[i] = n
    BY <1>4 DEF Contains
  <2>2. i + 1 \in 1 .. Len(s) /\ n = s[i + 1] /\ 1 \in 1 .. Len(s) /\ i + 1 # 1
    BY <1>1, <1>2, <2>1
  <2>3. s[i + 1] # s[1]
    BY <2>2 DEF Distinct
  <2> QED
    BY <2>2, <2>3, ContainsAt
<1>5. EndOf(r) = IF Len(s) = 1 THEN Null ELSE EndOf(s)
  <2>1. CASE Len(s) = 1
    BY <1>1, <2>1 DEF EndOf
  <2>2. CASE Len(s) # 1
    <3>1. Len(r) \in 1 .. Len(s) - 1 /\ Len(r) + 1 = Len(s) /\ Len(r) # 0
      BY <1>1, <2>2
    <3> QED
      BY <1>1, <2>2, <3>1 DEF EndOf
  <2> QED
    BY <2>1, <2>2
<1>6. Len(r) = 0 <=> Len(s) = 1
  BY <1>1
<1> QED
  BY <1>1, <1>3, <1>4, <1>5, <1>6 DEF r

LEMMA TailBack ==
  ASSUME NEW s \in Seq(Node), NEW pr, NEW pr2, Len(s) # 0, Distinct(s),
         BackChain(pr, s), SameBut(pr, pr2, {s[1], HeadOf(Tail(s))}),
         Len(Tail(s)) # 0 => pr2[HeadOf(Tail(s))] = Null
  PROVE  BackChain(pr2, Tail(s))
<1> DEFINE r == Tail(s)
<1>1. /\ r \in Seq(Node) /\ Len(r) = Len(s) - 1 /\ Len(s) \in Nat
      /\ \A i \in 1 .. Len(s) - 1 : r[i] = s[i + 1]
  BY TailFacts
<1>2. Distinct(r) /\ ~Contains(r, s[1])
  BY TailNodes
<1>3. SameBut(pr, pr2, {s[1], HeadOf(r)}) /\ (Len(r) # 0 => pr2[HeadOf(r)] = Null)
  OBVIOUS
<1> HIDE DEF r
<1> SUFFICES ASSUME NEW i \in 1 .. Len(r)
             PROVE  pr2[r[i]] = IF i = 1 THEN Null ELSE r[i - 1]
  BY DEF BackChain, r
<1>4. CASE i = 1
  BY <1>1, <1>3, <1>4 DEF HeadOf
<1>5. CASE i # 1
  <2>1. /\ 1 \in 1 .. Len(r) /\ i - 1 \in 1 .. Len(s) - 1 /\ (i - 1) + 1 = i
        /\ i + 1 \in 1 .. Len(s) /\ i + 1 # 1 /\ (i + 1) - 1 = i /\ Len(r) # 0
    BY <1>1, <1>5
  <2>2. r[i] \in Node /\ Contains(r, r[i])
    BY <1>1, ElementOfSeq, ContainsAt
  <2>3. r[i] # HeadOf(r) /\ r[i] # s[1]
    BY <1>2, <1>5, <2>1, <2>2 DEF Distinct, HeadOf
  <2>4. pr2[r[i]] = pr[r[i]]
    BY <1>3, <2>2, <2>3 DEF SameBut
  <2>5. pr[s[i + 1]] = s[i]
    BY <2>1 DEF BackChain
  <2>6. r[i] = s[i + 1] /\ r[i - 1] = s[i]
    BY <1>1, <2>1
  <2> QED
    BY <1>5, <2>4, <2>5, <2>6
<1> QED
  BY <1>4, <1>5

(* A sequence is hung behind another one.                                  *)
LEMMA ConcatNodes ==
  ASSUME NEW s \in Seq(Node), NEW u \in Seq(Node), Distinct(s), Distinct(u),
         \A n \in Node : ~(Contains(s, n) /\ Contains(u, n))
  PROVE  /\ s \o u \in Seq(Node)
         /\ Distinct(s \o u)
         /\ \A n : Contains(s \o u, n) => Contains(s, n) \/ Contains(u, n)
         /\ HeadOf(s \o u) = IF Len(s) = 0 THEN HeadOf(u) ELSE HeadOf(s)
         /\ Len(u) # 0 => EndOf(s \o u) = EndOf(u)
<1> DEFINE r == s \o u
<1>1. /\ r \in Seq(Node) /\ Len(r) = Len(s) + Len(u) /\ Len(s) \in Nat /\ Len(u) \in Nat
      /\ \A i \in 1 .. Len(s) + Len(u) :
           r[i] = IF i <= Len(s) THEN s[i] ELSE u[i - Len(s)]
  BY ConcatProperties, LenProperties
<1> HIDE DEF r
<1>2. \A i \in 1 .. Len(r) :
         \/ i \in 1 .. Len(s) /\ r[i] = s[i]
         \/ i - Len(s) \in 1 .. Len(u) /\ r[i] = u[i - Len(s)]
  BY <1>1
<1>3. Distinct(r)
  <2> SUFFICES ASSUME NEW i \in 1 .. Len(r), NEW j \in 1 .. Len(r), r[i] = r[j]
               PROVE  i = j
    BY DEF Distinct
  <2>1. CASE i \in 1 .. Len(s) /\ r[i] = s[i] /\ j \in 1 .. Len(s) /\ r[j] = s[j]
    BY <2>1 DEF Distinct
  <2>2. CASE /\ i \in 1 .. Len(s) /\ r[i] = s[i]
             /\ j - Len(s) \in 1 .. Len(u) /\ r[j] = u[j - Len(s)]
    <3>1. s[i] \in Node /\ Contains(s, s[i]) /\ Contains(u, u[j - Len(s)])
      BY <2>2, ElementOfSeq, ContainsAt
    <3> QED
      BY <2>2, <3>1
  <2>3. CASE /\ j \in 1 .. Len(s) /\ r[j] = s[j]
             /\ i - Len(s) \in 1 .. Len(u) /\ r[i] = u[i - Len(s)]
    <3>1. s[j] \in Node /\ Contains(s, s[j]) /\ Contains(u, u[i - Len(s)])
      BY <2>3, ElementOfSeq, ContainsAt
    <3> QED
      BY <2>3, <3>1
  <2>4. CASE /\ i - Len(s) \in 1 .. Len(u) /\ r[i] = u[i - Len(s)]
             /\ j - Len(s) \in 1 .. Len(u) /\ r[j] = u[j - Len(s)]
    <3>1. i - Len(s) = j - Len(s)
      BY <2>4 DEF Distinct
    <3> QED
      BY <1>1, <3>1
  <2> QED
    BY <1>2, <2>1, <2>2, <2>3, <2>4
<1>4. ASSUME NEW n, Contains(r, n) PROVE Contains(s, n) \/ Contains(u, n)
  <2>1. PICK i \in 1 .. Len(r) : r[i] = n
    BY <1>4 DEF Contains
  <2> QED
    BY <1>2, <2>1, ContainsAt
<1>5. HeadOf(r) = IF Len(s) = 0 THEN HeadOf(u) ELSE HeadOf(s)
  BY <1>1 DEF HeadOf
<1>6. ASSUME Len(u) # 0 PROVE EndOf(r) = EndOf(u)
  <2>1. Len(r) \in 1 .. Len(s) + Len(u) /\ ~(Len(r) <= Len(s)) /\ Len(r) - Len(s) = Len(u)
        /\ Len(r) # 0
    BY <1>1, <1>6
  <2> QED
    BY <1>1, <1>6, <2>1 DEF EndOf
<1> QED
  BY <1>1, <1>3, <1>4, <1>5, <1>6 DEF r

LEMMA ConcatChain ==
  ASSUME NEW s \in Seq(Node), NEW u \in Seq(Node), NEW nx, NEW nx2,
         Chain(nx, s), Chain(nx, u), Distinct(s), Avoids(u, {EndOf(s)}),
         SameBut(nx, nx2, {EndOf(s)}), Len(s) # 0 => nx2[EndOf(s)] = HeadOf(u)
  PROVE  Chain(nx2, s \o u)
<1> DEFINE r == s \o u
<1>1. /\ Len(r) = Len(s) + Len(u) /\ Len(s) \in Nat /\ Len(u) \in Nat
      /\ \A i \in 1 .. Len(s) + Len(u) :
           r[i] = IF i <= Len(s) THEN s[i] ELSE u[i - Len(s)]
  BY ConcatProperties, LenProperties
<1> HIDE DEF r
<1>2. Chain(nx2, u)
  BY ChainFrame
<1> SUFFICES ASSUME NEW i \in 1 .. Len(r)
             PROVE  nx2[r[i]] = IF i = Len(r) THEN Null ELSE r[i + 1]
  BY DEF Chain, r
<1>3. CASE i < Len(s)
  <2>1. i \in 1 .. Len(s) /\ Len(s) \in 1 .. Len(s) /\ i # Len(s) /\ Len(s) # 0
    BY <1>1, <1>3
  <2>2. s[i] \in Node /\ s[i] # EndOf(s)
    BY <2>1, ElementOfSeq DEF Distinct, EndOf
  <2>3. nx2[s[i]] = nx[s[i]]
    BY <2>2 DEF SameBut
  <2>4. nx[s[i]] = s[i + 1]
    BY <2>1, ChainAt
  <2>5. r[i] = s[i] /\ r[i + 1] = s[i + 1] /\ i # Len(r)
    BY <1>1, <1>3
  <2> QED
    BY <2>3, <2>4, <2>5
<1>4. CASE i = Len(s)
  <2>1. r[i] = EndOf(s) /\ Len(s) # 0
    BY <1>1, <1>4 DEF EndOf
  <2>2. CASE Len(u) = 0
    BY <1>1, <1>4, <2>1, <2>2 DEF HeadOf
  <2>3. CASE Len(u) # 0
    <3>1. r[i + 1] = u[1] /\ i # Len(r)
      BY <1>1, <1>4, <2>3
    <3> QED
      BY <2>1, <2>3, <3>1 DEF HeadOf
  <2> QED
    BY <2>2, <2>3
<1>5. CASE i > Len(s)
  <2> DEFINE j == i - Len(s)
  <2>1. j \in 1 .. Len(u) /\ (i = Len(r) <=> j = Len(u)) /\ r[i] = u[j]
        /\ (i # Len(r) => r[i + 1] = u[j + 1])
    <3>1. j \in 1 .. Len(u) /\ (i + 1) - Len(s) = j + 1 /\ ~(i <= Len(s))
          /\ ~(i + 1 <= Len(s)) /\ (i # Len(r) => i + 1 \in 1 .. Len(s) + Len(u))
          /\ i \in 1 .. Len(s) + Len(u) /\ (i = Len(r) <=> j = Len(u))
      <4> DEFINE a == Len(s)
                 b == Len(u)
                 d == Len(r)
      <4>1. a \in Nat /\ b \in Nat /\ d = a + b /\ i \in 1 .. d /\ i > a /\ j = i - a
        BY <1>1, <1>5
      <4> HIDE DEF a, b, d, j
      <4>2. i \in Int /\ 1 <= i /\ i <= a + b
        BY <4>1
      <4>3. j \in 1 .. b /\ (i + 1) - a = j + 1 /\ ~(i <= a) /\ ~(i + 1 <= a)
        BY <4>1, <4>2
      <4>4. (i # d => i + 1 \in 1 .. a + b) /\ i \in 1 .. a + b /\ (i = d <=> j = b)
        BY <4>1, <4>2
      <4> QED
        BY <4>3, <4>4 DEF a, b, d
    <3>2. r[i] = u[j]
      BY <1>1, <3>1
    <3>3. ASSUME i # Len(r) PROVE r[i + 1] = u[j + 1]
      <4>1. r[i + 1] = u[(i + 1) - Len(s)]
        BY <1>1, <3>1, <3>3
      <4> QED
        BY <3>1, <4>1
    <3> HIDE DEF j
    <3> QED
      BY <3>1, <3>2, <3>3
  <2>2. nx2[u[j]] = IF j = Len(u) THEN Null ELSE u[j + 1]
    BY <1>2, <2>1, ChainAt
  <2> QED
    BY <2>1, <2>2
<1> QED
  BY <1>1, <1>3, <1>4, <1>5

-----------------------------------------------------------------------------
(* The families of sequences that a memory stands for.                     *)

Free(L, n) == \A k \in Kinds, t \in Threads : ~Contains(L[k][t], n)

Apart(L) ==
  /\ \A k \in Kinds, t \in Threads : Distinct(L[k][t])
  /\ \A j, k \in Kinds, u, t \in Threads, n \in Node :
       Contains(L[j][u], n) /\ Contains(L[k][t], n) => j = k /\ u = t

(* The header, or the iterator of a thread in rem, leads to s.             *)
HeaderIs(m, it, rem, k, t, s) ==
  IF k = "local" /\ t \in rem
  THEN it[t] = HeadOf(s)
  ELSE m.first[k][t] = HeadOf(s) /\ m.last[k][t] = EndOf(s)

(* The memory m stands for L while the threads in rem remove their lists.  *)
Rep(m, it, rem, L) ==
  /\ m \in Mem
  /\ L \in ListSet
  /\ Apart(L)
  /\ \A k \in Kinds, t \in Threads :
       /\ Chain(m.next, L[k][t])
       /\ k = "cache" => BackChain(m.prev, L[k][t])
       /\ HeaderIs(m, it, rem, k, t, L[k][t])

LEMMA RepAt ==
  ASSUME NEW m, NEW it, NEW rem, NEW L, Rep(m, it, rem, L),
         NEW k \in Kinds, NEW t \in Threads
  PROVE  /\ L[k][t] \in Seq(Node)
         /\ Len(L[k][t]) \in Nat
         /\ Distinct(L[k][t])
         /\ Chain(m.next, L[k][t])
         /\ k = "cache" => BackChain(m.prev, L[k][t])
         /\ HeaderIs(m, it, rem, k, t, L[k][t])
<1>1. L[k][t] \in Seq(Node)
  BY DEF Rep, ListSet
<1>2. Len(L[k][t]) \in Nat
  BY <1>1, LenProperties
<1> QED
  BY <1>1, <1>2 DEF Rep, Apart

(* The pointers determine the sequences.                                   *)
LEMMA RepWalk ==
  ASSUME NEW m, NEW it, NEW rem, NEW L, Rep(m, it, rem, L),
         NEW k \in Kinds, NEW t \in Threads
  PROVE  Walk(m.next, IF k = "local" /\ t \in rem THEN it[t] ELSE m.first[k][t]) = L[k][t]
<1>1. Walk(m.next, HeadOf(L[k][t])) = L[k][t]
  BY RepAt, WalkOfChain
<1>2. (IF k = "local" /\ t \in rem THEN it[t] ELSE m.first[k][t]) = HeadOf(L[k][t])
  BY RepAt DEF HeaderIs
<1> QED
  BY <1>1, <1>2

LEMMA InNode ==
  ASSUME NEW s \in Seq(Node), NEW n, Contains(s, n)
  PROVE  n \in Node
  BY ElementOfSeq DEF Contains

(* The headers of the other lists are as before.                           *)
OtherHeaders(m, it, m1, it1, k, t) ==
  \A j \in Kinds, u \in Threads : j # k \/ u # t =>
    /\ m1.first[j][u] = m.first[j][u]
    /\ m1.last[j][u] = m.last[j][u]
    /\ j = "local" => it1[u] = it[u]

(* The nodes in S are in no other list than list k of thread t.            *)
OnlyIn(S, L, k, t) == \A n \in S : Contains(L[k][t], n) \/ Free(L, n)

NodesOf(s) == {n \in Node : Contains(s, n)}

(* List k of t becomes s, and the pointers of the nodes in S change.       *)
LEMMA RepChange ==
  ASSUME NEW m, NEW it, NEW rem, NEW L, Rep(m, it, rem, L),
         NEW k \in Kinds, NEW t \in Threads, NEW s \in Seq(Node), NEW S,
         NEW m1 \in Mem, NEW it1,
         Distinct(s), OnlyIn(NodesOf(s), L, k, t), OnlyIn(S, L, k, t),
         SameBut(m.next, m1.next, S), SameBut(m.prev, m1.prev, S),
         OtherHeaders(m, it, m1, it1, k, t), HeaderIs(m1, it1, rem, k, t, s),
         Chain(m1.next, s), k = "cache" => BackChain(m1.prev, s)
  PROVE  Rep(m1, it1, rem, [L EXCEPT ![k][t] = s])
<1> DEFINE L1 == [L EXCEPT ![k][t] = s]
<1>1. L \in ListSet
  BY DEF Rep
<1>2. /\ L1 \in ListSet /\ L1[k][t] = s
      /\ \A j \in Kinds, u \in Threads : j # k \/ u # t => L1[j][u] = L[j][u]
  BY <1>1 DEF ListSet
<1> HIDE DEF L1
<1>3. ASSUME NEW j \in Kinds, NEW u \in Threads, j # k \/ u # t, NEW n,
             Contains(L[k][t], n) \/ Free(L, n)
      PROVE  ~Contains(L[j][u], n)
  <2>1. CASE Free(L, n)
    BY <2>1 DEF Free
  <2>2. CASE Contains(L[k][t], n)
    <3>1. n \in Node
      BY <2>2, RepAt, InNode
    <3> QED
      BY <1>3, <2>2, <3>1 DEF Rep, Apart
  <2> QED
    BY <1>3, <2>1, <2>2
<1>4. ASSUME NEW j \in Kinds, NEW u \in Threads, j # k \/ u # t
      PROVE  Avoids(L[j][u], S) /\ Avoids(L[j][u], NodesOf(s))
  BY <1>3, <1>4 DEF OnlyIn, Avoids
<1>5. Apart(L1)
  <2>1. ASSUME NEW j \in Kinds, NEW u \in Threads PROVE Distinct(L1[j][u])
    BY <1>2, RepAt
  <2>2. ASSUME NEW j \in Kinds, NEW i \in Kinds, NEW u \in Threads, NEW v \in Threads,
               NEW n \in Node, Contains(L1[j][u], n), Contains(L1[i][v], n)
        PROVE  j = i /\ u = v
    <3>1. CASE (j # k \/ u # t) /\ (i # k \/ v # t)
      BY <1>2, <2>2, <3>1 DEF Rep, Apart
    <3>2. CASE (j # k \/ u # t) /\ ~(i # k \/ v # t)
      BY <1>2, <1>4, <2>2, <3>2 DEF Avoids, NodesOf
    <3>3. CASE ~(j # k \/ u # t) /\ (i # k \/ v # t)
      BY <1>2, <1>4, <2>2, <3>3 DEF Avoids, NodesOf
    <3> QED
      BY <3>1, <3>2, <3>3
  <2> QED
    BY <2>1, <2>2 DEF Apart
<1>6. ASSUME NEW j \in Kinds, NEW u \in Threads
      PROVE  /\ Chain(m1.next, L1[j][u])
             /\ j = "cache" => BackChain(m1.prev, L1[j][u])
             /\ HeaderIs(m1, it1, rem, j, u, L1[j][u])
  <2>1. CASE j = k /\ u = t
    BY <1>2, <2>1
  <2>2. CASE j # k \/ u # t
    <3>1. L1[j][u] = L[j][u] /\ L[j][u] \in Seq(Node) /\ Avoids(L[j][u], S)
      BY <1>2, <1>4, <2>2, RepAt
    <3>2. Chain(m1.next, L[j][u])
      BY <3>1, RepAt, ChainFrame
    <3>3. ASSUME j = "cache" PROVE BackChain(m1.prev, L[j][u])
      BY <3>1, <3>3, RepAt, BackChainFrame
    <3>4. HeaderIs(m, it, rem, j, u, L[j][u])
      BY RepAt
    <3>5. HeaderIs(m1, it1, rem, j, u, L[j][u])
      BY <2>2, <3>4 DEF HeaderIs, OtherHeaders
    <3> QED
      BY <3>1, <3>2, <3>3, <3>5
  <2> QED
    BY <2>1, <2>2
<1>7. Rep(m1, it1, rem, L1)
  BY <1>2, <1>5, <1>6 DEF Rep
<1> QED
  BY <1>7 DEF L1

(* Nodes taken out of a list are in none.                                  *)
LEMMA FreeAfter ==
  ASSUME NEW L \in ListSet, Apart(L), NEW k \in Kinds, NEW t \in Threads,
         NEW s, NEW n \in Node, ~Contains(s, n), Contains(L[k][t], n) \/ Free(L, n)
  PROVE  Free([L EXCEPT ![k][t] = s], n)
<1> DEFINE L1 == [L EXCEPT ![k][t] = s]
<1>1. /\ L1[k][t] = s
      /\ \A j \in Kinds, u \in Threads : j # k \/ u # t => L1[j][u] = L[j][u]
  BY DEF ListSet
<1> HIDE DEF L1
<1>2. ASSUME NEW j \in Kinds, NEW u \in Threads PROVE ~Contains(L1[j][u], n)
  <2>1. CASE j = k /\ u = t
    BY <1>1, <2>1
  <2>2. CASE j # k \/ u # t
    BY <1>1, <2>2 DEF Apart, Free
  <2> QED
    BY <2>1, <2>2
<1> QED
  BY <1>2 DEF Free, L1

-----------------------------------------------------------------------------
(* What single assignments do.                                             *)

LEMMA SetNode ==
  ASSUME NEW f \in [Node -> Ptr], NEW c \in Node, NEW x \in Ptr
  PROVE  /\ [f EXCEPT ![c] = x] \in [Node -> Ptr]
         /\ [f EXCEPT ![c] = x][c] = x
         /\ \A n \in Node : n # c => [f EXCEPT ![c] = x][n] = f[n]
  OBVIOUS

LEMMA SetHeader ==
  ASSUME NEW f \in [Kinds -> [Threads -> Ptr]], NEW k \in Kinds, NEW t \in Threads,
         NEW x \in Ptr
  PROVE  /\ [f EXCEPT ![k][t] = x] \in [Kinds -> [Threads -> Ptr]]
         /\ [f EXCEPT ![k][t] = x][k][t] = x
         /\ \A j \in Kinds, u \in Threads :
              j # k \/ u # t => [f EXCEPT ![k][t] = x][j][u] = f[j][u]
  OBVIOUS

(* The memory of four functions.                                           *)
MemOf(f, l, nx, pr) == [first |-> f, last |-> l, next |-> nx, prev |-> pr]

LEMMA MemOfIn ==
  ASSUME NEW f \in [Kinds -> [Threads -> Ptr]], NEW l \in [Kinds -> [Threads -> Ptr]],
         NEW nx \in [Node -> Ptr], NEW pr \in [Node -> Ptr]
  PROVE  /\ MemOf(f, l, nx, pr) \in Mem
         /\ MemOf(f, l, nx, pr).first = f
         /\ MemOf(f, l, nx, pr).last = l
         /\ MemOf(f, l, nx, pr).next = nx
         /\ MemOf(f, l, nx, pr).prev = pr
  BY DEF MemOf, Mem

LEMMA MemParts ==
  ASSUME NEW m \in Mem
  PROVE  /\ m.first \in [Kinds -> [Threads -> Ptr]] /\ m.last \in [Kinds -> [Threads -> Ptr]]
         /\ m.next \in [Node -> Ptr] /\ m.prev \in [Node -> Ptr]
         /\ m = MemOf(m.first, m.last, m.next, m.prev)
  BY DEF Mem, MemOf

(* lclass_insert_after for the last node.                                  *)
LEMMA InsertAfterLast ==
  ASSUME NEW m \in Mem, NEW k \in Kinds, NEW t \in Threads, NEW a \in Node, NEW c \in Node,
         m.next[a] = Null
  PROVE  LClassInsertAfter(m, k, t, a, c)
           = MemOf(m.first, [m.last EXCEPT ![k][t] = c],
                   [[m.next EXCEPT ![c] = Null] EXCEPT ![a] = c], [m.prev EXCEPT ![c] = a])
  BY DEF LClassInsertAfter, MemOf, Mem

(* lclass_insert_before for the first node.                                *)
LEMMA InsertBeforeFirst ==
  ASSUME NEW m \in Mem, NEW k \in Kinds, NEW t \in Threads, NEW b \in Node, NEW c \in Node,
         m.prev[b] = Null
  PROVE  LClassInsertBefore(m, k, t, b, c)
           = MemOf([m.first EXCEPT ![k][t] = c], m.last,
                   [m.next EXCEPT ![c] = b], [[m.prev EXCEPT ![c] = Null] EXCEPT ![b] = c])
  BY DEF LClassInsertBefore, MemOf, Mem

(* Both insertions into an empty list.                                     *)
LEMMA InsertIntoEmpty ==
  ASSUME NEW m \in Mem, NEW k \in Kinds, NEW t \in Threads, NEW c \in Node,
         m.first[k][t] = Null
  PROVE  LClassInsertBeginning(m, k, t, c)
           = MemOf([m.first EXCEPT ![k][t] = c], [m.last EXCEPT ![k][t] = c],
                   [m.next EXCEPT ![c] = Null], [m.prev EXCEPT ![c] = Null])
  BY DEF LClassInsertBeginning, MemOf, Mem

(* get_LSCNode clears the pointers of the node it takes.                   *)
UnlinkedIn(m, n) == [m EXCEPT !.next[n] = Null, !.prev[n] = Null]

LEMMA UnlinkedParts ==
  ASSUME NEW m \in Mem, NEW n \in Node
  PROVE  UnlinkedIn(m, n) = MemOf(m.first, m.last, [m.next EXCEPT ![n] = Null],
                                  [m.prev EXCEPT ![n] = Null])
<1> DEFINE u == UnlinkedIn(m, n)
           v == [m EXCEPT !.next[n] = Null]
<1>1. v \in Mem /\ v = MemOf(m.first, m.last, [m.next EXCEPT ![n] = Null], m.prev)
  BY DEF MemOf, Mem, Ptr
<1>2. u = [v EXCEPT !.prev[n] = Null]
  BY DEF UnlinkedIn
<1> HIDE DEF u, v
<1>3. u = MemOf(v.first, v.last, v.next, [v.prev EXCEPT ![n] = Null])
  BY <1>1, <1>2 DEF MemOf, Mem
<1>4. v.first = m.first /\ v.last = m.last /\ v.prev = m.prev
      /\ v.next = [m.next EXCEPT ![n] = Null]
  BY <1>1 DEF MemOf
<1> QED
  BY <1>3, <1>4 DEF u

(* lclass_remove for the first node, and the only one or not.              *)
LEMMA RemoveOnly ==
  ASSUME NEW m \in Mem, NEW k \in Kinds, NEW t \in Threads, NEW c \in Node,
         m.prev[c] = Null, m.next[c] = Null
  PROVE  LClassRemove(m, k, t, c)
           = MemOf([m.first EXCEPT ![k][t] = Null], [m.last EXCEPT ![k][t] = Null],
                   m.next, m.prev)
  BY DEF LClassRemove, MemOf, Mem

LEMMA RemoveFirst ==
  ASSUME NEW m \in Mem, NEW k \in Kinds, NEW t \in Threads, NEW c \in Node,
         NEW x \in Node, m.prev[c] = Null, m.next[c] = x
  PROVE  LClassRemove(m, k, t, c)
           = MemOf([m.first EXCEPT ![k][t] = x], m.last, m.next, [m.prev EXCEPT ![x] = Null])
<1>1. x # Null
  BY NullAssumption DEF NullAssumption
<1> QED
  BY <1>1 DEF LClassRemove, MemOf, Mem

-----------------------------------------------------------------------------
(* The operations, on a memory and on the sequences it stands for.         *)

(* A header that is not stale tells whether its list is empty.             *)
LEMMA Header ==
  ASSUME NEW m, NEW it, NEW rem, NEW L, Rep(m, it, rem, L),
         NEW k \in Kinds, NEW t \in Threads, ~(k = "local" /\ t \in rem)
  PROVE  /\ m.first[k][t] = HeadOf(L[k][t]) /\ m.last[k][t] = EndOf(L[k][t])
         /\ (m.first[k][t] = Null <=> Len(L[k][t]) = 0)
         /\ (m.last[k][t] = Null <=> Len(L[k][t]) = 0)
<1>1. L[k][t] \in Seq(Node) /\ Len(L[k][t]) \in Nat /\ HeaderIs(m, it, rem, k, t, L[k][t])
  BY RepAt
<1>2. m.first[k][t] = HeadOf(L[k][t]) /\ m.last[k][t] = EndOf(L[k][t])
  BY <1>1 DEF HeaderIs
<1>3. ASSUME Len(L[k][t]) # 0
      PROVE  L[k][t][1] \in Node /\ L[k][t][Len(L[k][t])] \in Node
  <2>1. 1 \in 1 .. Len(L[k][t]) /\ Len(L[k][t]) \in 1 .. Len(L[k][t])
    BY <1>1, <1>3
  <2> QED
    BY <1>1, <2>1, ElementOfSeq
<1> QED
  BY <1>2, <1>3, NullAssumption DEF HeadOf, EndOf, NullAssumption

LEMMA HeadIn ==
  ASSUME NEW s \in Seq(Node), Len(s) # 0
  PROVE  /\ HeadOf(s) = s[1] /\ HeadOf(s) \in Node /\ Contains(s, HeadOf(s))
         /\ EndOf(s) = s[Len(s)] /\ EndOf(s) \in Node /\ Contains(s, EndOf(s))
<1>1. 1 \in 1 .. Len(s) /\ Len(s) \in 1 .. Len(s)
  BY LenProperties
<1>2. HeadOf(s) = s[1] /\ EndOf(s) = s[Len(s)]
  BY DEF HeadOf, EndOf
<1> QED
  BY <1>1, <1>2, ElementOfSeq, ContainsAt

LEMMA PtrOfHead ==
  ASSUME NEW s \in Seq(Node)
  PROVE  HeadOf(s) \in Ptr /\ EndOf(s) \in Ptr
  BY HeadIn DEF HeadOf, EndOf, Ptr

(* lclass_insert_end: the sequence grows at the end.                       *)
LEMMA InsertEnd ==
  ASSUME NEW m, NEW it, NEW rem, NEW L, Rep(m, it, rem, L),
         NEW k \in Kinds, NEW t \in Threads, NEW c \in Node,
         k # "cache", ~(k = "local" /\ t \in rem), Free(L, c)
  PROVE  Rep(LClassInsertEnd(m, k, t, c), it, rem, [L EXCEPT ![k][t] = Append(@, c)])
<1> DEFINE s == L[k][t]
           r == Append(s, c)
           m1 == LClassInsertEnd(m, k, t, c)
<1>1. /\ s \in Seq(Node) /\ Len(s) \in Nat /\ Distinct(s) /\ Chain(m.next, s)
      /\ m \in Mem /\ L \in ListSet /\ ~Contains(s, c)
  BY RepAt DEF Rep, Free
<1>2. /\ m.first[k][t] = HeadOf(s) /\ m.last[k][t] = EndOf(s)
      /\ (m.first[k][t] = Null <=> Len(s) = 0)
      /\ (m.last[k][t] = Null <=> Len(s) = 0)
  BY Header
<1>3. [L EXCEPT ![k][t] = Append(@, c)] = [L EXCEPT ![k][t] = r]
  BY <1>1 DEF ListSet
<1>p. c \in Ptr /\ Null \in Ptr /\ c # Null
  BY NullAssumption DEF Ptr, NullAssumption
<1> HIDE DEF s
<1>4. /\ r \in Seq(Node) /\ Distinct(r) /\ EndOf(r) = c
      /\ HeadOf(r) = IF Len(s) = 0 THEN c ELSE HeadOf(s)
      /\ \A n : Contains(r, n) => Contains(s, n) \/ n = c
  BY <1>1, AppendNodes
<1>5. OnlyIn(NodesOf(r), L, k, t)
  BY <1>4 DEF OnlyIn, NodesOf, s
<1>6. OnlyIn({EndOf(s), c}, L, k, t)
  <2>1. CASE Len(s) = 0
    <3>1. \A j \in Kinds, u \in Threads : ~Contains(L[j][u], Null)
      BY RepAt, InNode, NullAssumption DEF NullAssumption
    <3> QED
      BY <2>1, <3>1 DEF OnlyIn, Free, EndOf
  <2>2. CASE Len(s) # 0
    BY <1>1, <2>2, HeadIn DEF OnlyIn, s
  <2> QED
    BY <2>1, <2>2
<1>7. /\ m1 \in Mem
      /\ SameBut(m.next, m1.next, {EndOf(s), c}) /\ SameBut(m.prev, m1.prev, {EndOf(s), c})
      /\ m1.next[c] = Null /\ (Len(s) # 0 => m1.next[EndOf(s)] = c)
      /\ m1.first[k][t] = HeadOf(r) /\ m1.last[k][t] = c
      /\ OtherHeaders(m, it, m1, it, k, t)
  <2>0. /\ m.first \in [Kinds -> [Threads -> Ptr]] /\ m.last \in [Kinds -> [Threads -> Ptr]]
        /\ m.next \in [Node -> Ptr] /\ m.prev \in [Node -> Ptr]
    BY <1>1, MemParts
  <2>1. CASE Len(s) = 0
    <3> DEFINE f == [m.first EXCEPT ![k][t] = c]
               l == [m.last EXCEPT ![k][t] = c]
               nx == [m.next EXCEPT ![c] = Null]
               pr == [m.prev EXCEPT ![c] = Null]
    <3>1. m1 = MemOf(f, l, nx, pr)
      BY <1>1, <1>2, <2>1, InsertIntoEmpty DEF LClassInsertEnd
    <3>2. /\ f \in [Kinds -> [Threads -> Ptr]] /\ f[k][t] = c
          /\ \A j \in Kinds, u \in Threads : j # k \/ u # t => f[j][u] = m.first[j][u]
      BY <1>p, <2>0, SetHeader
    <3>3. /\ l \in [Kinds -> [Threads -> Ptr]] /\ l[k][t] = c
          /\ \A j \in Kinds, u \in Threads : j # k \/ u # t => l[j][u] = m.last[j][u]
      BY <1>p, <2>0, SetHeader
    <3>4. /\ nx \in [Node -> Ptr] /\ nx[c] = Null
          /\ \A n \in Node : n # c => nx[n] = m.next[n]
      BY <1>p, <2>0, SetNode
    <3>5. /\ pr \in [Node -> Ptr]
          /\ \A n \in Node : n # c => pr[n] = m.prev[n]
      BY <1>p, <2>0, SetNode
    <3> HIDE DEF f, l, nx, pr, m1
    <3>6. m1 \in Mem /\ m1.first = f /\ m1.last = l /\ m1.next = nx /\ m1.prev = pr
      BY <3>1, <3>2, <3>3, <3>4, <3>5 DEF MemOf, Mem
    <3> QED
      BY <1>4, <2>1, <3>2, <3>3, <3>4, <3>5, <3>6 DEF SameBut, OtherHeaders
  <2>2. CASE Len(s) # 0
    <3> DEFINE a == EndOf(s)
               l == [m.last EXCEPT ![k][t] = c]
               nx1 == [m.next EXCEPT ![c] = Null]
               nx == [nx1 EXCEPT ![a] = c]
               pr == [m.prev EXCEPT ![c] = a]
    <3>1. a \in Node /\ a = s[Len(s)] /\ Contains(s, a) /\ a \in Ptr /\ a # c
      BY <1>1, <2>2, HeadIn DEF Ptr
    <3>2. m.next[a] = Null
      <4>1. Len(s) \in 1 .. Len(s)
        BY <1>1, <2>2
      <4> QED
        BY <1>1, <3>1, <4>1, ChainAt
    <3>3. m1 = MemOf(m.first, l, nx, pr)
      <4>1. m1 = LClassInsertAfter(m, k, t, a, c)
        BY <1>2, <2>2 DEF LClassInsertEnd
      <4> HIDE DEF a, m1
      <4>2. m \in Mem /\ a \in Node /\ m.next[a] = Null
        BY <1>1, <3>1, <3>2
      <4>3. LClassInsertAfter(m, k, t, a, c) = MemOf(m.first, l, nx, pr)
        BY <4>2, InsertAfterLast, Zenon
      <4> QED
        BY <4>1, <4>3, Zenon
    <3> HIDE DEF a
    <3>4. /\ l \in [Kinds -> [Threads -> Ptr]] /\ l[k][t] = c
          /\ \A j \in Kinds, u \in Threads : j # k \/ u # t => l[j][u] = m.last[j][u]
      BY <1>p, <2>0, SetHeader
    <3>5. /\ nx1 \in [Node -> Ptr] /\ nx1[c] = Null
          /\ \A n \in Node : n # c => nx1[n] = m.next[n]
      BY <1>p, <2>0, SetNode
    <3> HIDE DEF nx1
    <3>6. /\ nx \in [Node -> Ptr] /\ nx[a] = c
          /\ \A n \in Node : n # a => nx[n] = nx1[n]
      BY <1>p, <3>1, <3>5, SetNode
    <3>7. /\ pr \in [Node -> Ptr]
          /\ \A n \in Node : n # c => pr[n] = m.prev[n]
      BY <2>0, <3>1, SetNode
    <3> HIDE DEF l, nx, pr, m1
    <3>8. m1 \in Mem /\ m1.first = m.first /\ m1.last = l /\ m1.next = nx /\ m1.prev = pr
      BY <2>0, <3>3, <3>4, <3>6, <3>7 DEF MemOf, Mem
    <3>9. nx[c] = Null
      BY <3>1, <3>5, <3>6
    <3>10. SameBut(m.next, m1.next, {a, c}) /\ SameBut(m.prev, m1.prev, {a, c})
      BY <3>5, <3>6, <3>7, <3>8 DEF SameBut
    <3>11. OtherHeaders(m, it, m1, it, k, t)
      BY <3>4, <3>8 DEF OtherHeaders
    <3>12. m1.first[k][t] = HeadOf(r)
      BY <1>2, <1>4, <2>2, <3>8
    <3> QED
      BY <3>4, <3>6, <3>8, <3>9, <3>10, <3>11, <3>12 DEF a
  <2> QED
    BY <2>1, <2>2
<1> HIDE DEF m1
<1>8. Chain(m1.next, r)
  BY <1>1, <1>7, AppendChain
<1> HIDE DEF r
<1>9. HeaderIs(m1, it, rem, k, t, r)
  BY <1>4, <1>7 DEF HeaderIs
<1>10. Rep(m1, it, rem, [L EXCEPT ![k][t] = r])
  BY <1>4, <1>5, <1>6, <1>7, <1>8, <1>9, RepChange
<1> QED
  BY <1>3, <1>10 DEF m1

(* No list holds the null pointer.                                         *)
LEMMA NullIsFree ==
  ASSUME NEW m, NEW it, NEW rem, NEW L, Rep(m, it, rem, L)
  PROVE  Free(L, Null)
  BY RepAt, InNode, NullAssumption DEF NullAssumption, Free

(* lclass_insert_beginning: a cache grows at the front.                    *)
LEMMA InsertBeginning ==
  ASSUME NEW m, NEW it, NEW rem, NEW L, Rep(m, it, rem, L),
         NEW t \in Threads, NEW c \in Node, Free(L, c)
  PROVE  Rep(LClassInsertBeginning(m, "cache", t, c), it, rem,
             [L EXCEPT !["cache"][t] = <<c>> \o @])
<1> DEFINE k == "cache"
           s == L[k][t]
           r == <<c>> \o s
           m1 == LClassInsertBeginning(m, k, t, c)
<1>0. k \in Kinds /\ k # "local"
  BY DEF Kinds
<1>1. /\ s \in Seq(Node) /\ Len(s) \in Nat /\ Distinct(s) /\ Chain(m.next, s)
      /\ BackChain(m.prev, s) /\ m \in Mem /\ L \in ListSet /\ ~Contains(s, c)
  BY <1>0, RepAt DEF Rep, Free
<1>2. /\ m.first[k][t] = HeadOf(s) /\ m.last[k][t] = EndOf(s)
      /\ (m.first[k][t] = Null <=> Len(s) = 0)
  BY <1>0, Header
<1>3. [L EXCEPT ![k][t] = <<c>> \o @] = [L EXCEPT ![k][t] = r]
  BY <1>0, <1>1 DEF ListSet
<1>p. c \in Ptr /\ Null \in Ptr /\ c # Null
  BY NullAssumption DEF Ptr, NullAssumption
<1> HIDE DEF s
<1>4. /\ r \in Seq(Node) /\ Distinct(r) /\ HeadOf(r) = c
      /\ EndOf(r) = IF Len(s) = 0 THEN c ELSE EndOf(s)
      /\ \A n : Contains(r, n) => Contains(s, n) \/ n = c
  BY <1>1, PushNodes
<1>5. OnlyIn(NodesOf(r), L, k, t)
  BY <1>4 DEF OnlyIn, NodesOf, s
<1>6. OnlyIn({HeadOf(s), c}, L, k, t)
  <2>1. CASE Len(s) = 0
    BY <2>1, NullIsFree DEF OnlyIn, HeadOf
  <2>2. CASE Len(s) # 0
    BY <1>1, <2>2, HeadIn DEF OnlyIn, s
  <2> QED
    BY <2>1, <2>2
<1>7. /\ m1 \in Mem
      /\ SameBut(m.next, m1.next, {c}) /\ SameBut(m.prev, m1.prev, {HeadOf(s), c})
      /\ m1.next[c] = HeadOf(s)
      /\ m1.prev[c] = Null /\ (Len(s) # 0 => m1.prev[HeadOf(s)] = c)
      /\ m1.first[k][t] = c /\ m1.last[k][t] = EndOf(r)
      /\ OtherHeaders(m, it, m1, it, k, t)
  <2>0. /\ m.first \in [Kinds -> [Threads -> Ptr]] /\ m.last \in [Kinds -> [Threads -> Ptr]]
        /\ m.next \in [Node -> Ptr] /\ m.prev \in [Node -> Ptr]
    BY <1>1, MemParts
  <2> DEFINE f == [m.first EXCEPT ![k][t] = c]
  <2>f. /\ f \in [Kinds -> [Threads -> Ptr]] /\ f[k][t] = c
        /\ \A j \in Kinds, u \in Threads : j # k \/ u # t => f[j][u] = m.first[j][u]
    BY <1>0, <1>p, <2>0, SetHeader
  <2> HIDE DEF k
  <2>1. CASE Len(s) = 0
    <3> DEFINE l == [m.last EXCEPT ![k][t] = c]
               nx == [m.next EXCEPT ![c] = Null]
               pr == [m.prev EXCEPT ![c] = Null]
    <3>1. m1 = MemOf(f, l, nx, pr)
      BY <1>0, <1>1, <1>2, <2>1, InsertIntoEmpty
    <3>3. /\ l \in [Kinds -> [Threads -> Ptr]] /\ l[k][t] = c
          /\ \A j \in Kinds, u \in Threads : j # k \/ u # t => l[j][u] = m.last[j][u]
      BY <1>0, <1>p, <2>0, SetHeader
    <3>4. /\ nx \in [Node -> Ptr] /\ nx[c] = Null
          /\ \A n \in Node : n # c => nx[n] = m.next[n]
      BY <1>p, <2>0, SetNode
    <3>5. /\ pr \in [Node -> Ptr] /\ pr[c] = Null
          /\ \A n \in Node : n # c => pr[n] = m.prev[n]
      BY <1>p, <2>0, SetNode
    <3> HIDE DEF f, l, nx, pr, m1
    <3>6. m1 \in Mem /\ m1.first = f /\ m1.last = l /\ m1.next = nx /\ m1.prev = pr
      BY <2>f, <3>1, <3>3, <3>4, <3>5 DEF MemOf, Mem
    <3>7. SameBut(m.next, m1.next, {c}) /\ SameBut(m.prev, m1.prev, {HeadOf(s), c})
      BY <3>4, <3>5, <3>6 DEF SameBut
    <3>8. OtherHeaders(m, it, m1, it, k, t)
      BY <2>f, <3>3, <3>6 DEF OtherHeaders
    <3>9. HeadOf(s) = Null /\ EndOf(r) = c
      BY <1>4, <2>1 DEF HeadOf
    <3> QED
      BY <2>1, <2>f, <3>3, <3>4, <3>5, <3>6, <3>7, <3>8, <3>9
  <2>2. CASE Len(s) # 0
    <3> DEFINE b == HeadOf(s)
               nx == [m.next EXCEPT ![c] = b]
               pr1 == [m.prev EXCEPT ![c] = Null]
               pr == [pr1 EXCEPT ![b] = c]
    <3>1. b \in Node /\ b = s[1] /\ Contains(s, b) /\ b \in Ptr /\ b # c
      BY <1>1, <2>2, HeadIn DEF Ptr
    <3>2. m.prev[b] = Null
      <4>1. 1 \in 1 .. Len(s)
        BY <1>1, <2>2
      <4> QED
        BY <1>1, <3>1, <4>1 DEF BackChain
    <3>3. m1 = MemOf(f, m.last, nx, pr)
      <4>1. m1 = LClassInsertBefore(m, k, t, b, c)
        <5>1. m.first[k][t] = b /\ m.first[k][t] # Null
          BY <1>2, <2>2
        <5> HIDE DEF b
        <5> QED
          BY <5>1, Zenon DEF LClassInsertBeginning
      <4> HIDE DEF b, m1
      <4>2. m \in Mem /\ k \in Kinds /\ b \in Node /\ m.prev[b] = Null
        BY <1>0, <1>1, <3>1, <3>2
      <4>3. LClassInsertBefore(m, k, t, b, c) = MemOf(f, m.last, nx, pr)
        BY <4>2, InsertBeforeFirst
      <4> QED
        BY <4>1, <4>3, Zenon
    <3> HIDE DEF b
    <3>4. /\ nx \in [Node -> Ptr] /\ nx[c] = b
          /\ \A n \in Node : n # c => nx[n] = m.next[n]
      BY <2>0, <3>1, SetNode
    <3>5. /\ pr1 \in [Node -> Ptr] /\ pr1[c] = Null
          /\ \A n \in Node : n # c => pr1[n] = m.prev[n]
      BY <1>p, <2>0, SetNode
    <3> HIDE DEF pr1
    <3>6. /\ pr \in [Node -> Ptr] /\ pr[b] = c
          /\ \A n \in Node : n # b => pr[n] = pr1[n]
      BY <1>p, <3>1, <3>5, SetNode
    <3> HIDE DEF f, nx, pr, m1
    <3>7. m1 \in Mem /\ m1.first = f /\ m1.last = m.last /\ m1.next = nx /\ m1.prev = pr
      BY <2>0, <2>f, <3>3, <3>4, <3>6 DEF MemOf, Mem
    <3>8. pr[c] = Null
      BY <3>1, <3>5, <3>6
    <3>9. SameBut(m.next, m1.next, {c}) /\ SameBut(m.prev, m1.prev, {b, c})
      BY <3>4, <3>5, <3>6, <3>7 DEF SameBut
    <3>10. OtherHeaders(m, it, m1, it, k, t)
      BY <2>f, <3>7 DEF OtherHeaders
    <3>11. m1.last[k][t] = EndOf(r)
      BY <1>2, <1>4, <2>2, <3>7
    <3> QED
      BY <2>f, <3>4, <3>6, <3>7, <3>8, <3>9, <3>10, <3>11 DEF b
  <2> QED
    BY <2>1, <2>2
<1> HIDE DEF m1
<1>8. Chain(m1.next, r)
  BY <1>1, <1>7, PushChain
<1>9. BackChain(m1.prev, r)
  BY <1>1, <1>7, PushBack
<1> HIDE DEF r
<1>10. HeaderIs(m1, it, rem, k, t, r)
  BY <1>0, <1>4, <1>7 DEF HeaderIs
<1>11. SameBut(m.next, m1.next, {HeadOf(s), c})
  BY <1>7 DEF SameBut
<1> HIDE DEF k
<1>12. Rep(m1, it, rem, [L EXCEPT ![k][t] = r])
  BY <1>0, <1>4, <1>5, <1>6, <1>7, <1>8, <1>9, <1>10, <1>11, RepChange
<1> QED
  BY <1>3, <1>12 DEF m1, k

(* get_LSCNode: a cache loses its first node, which then is in no list.    *)
TakenFrom(m, t) == UnlinkedIn(LClassRemove(m, "cache", t, m.first["cache"][t]),
                              m.first["cache"][t])

LEMMA TakeCached ==
  ASSUME NEW m, NEW it, NEW rem, NEW L, Rep(m, it, rem, L),
         NEW t \in Threads, m.first["cache"][t] # Null
  PROVE  /\ Len(L["cache"][t]) # 0
         /\ m.first["cache"][t] \in Node
         /\ m.first["cache"][t] = L["cache"][t][1]
         /\ Rep(TakenFrom(m, t), it, rem, [L EXCEPT !["cache"][t] = Tail(@)])
         /\ Free([L EXCEPT !["cache"][t] = Tail(@)], m.first["cache"][t])
<1> DEFINE k == "cache"
           c == m.first[k][t]
           s == L[k][t]
           r == Tail(s)
           m0 == LClassRemove(m, k, t, c)
           m1 == UnlinkedIn(m0, c)
<1>0. k \in Kinds /\ k # "local"
  BY DEF Kinds
<1>1. /\ s \in Seq(Node) /\ Len(s) \in Nat /\ Distinct(s) /\ Chain(m.next, s)
      /\ BackChain(m.prev, s) /\ m \in Mem /\ L \in ListSet /\ Apart(L)
  BY <1>0, RepAt DEF Rep
<1>2. c = HeadOf(s) /\ m.last[k][t] = EndOf(s) /\ Len(s) # 0
  BY <1>0, Header
<1>3. [L EXCEPT ![k][t] = Tail(@)] = [L EXCEPT ![k][t] = r]
  BY <1>0, <1>1 DEF ListSet, s
<1> HIDE DEF c, s
<1>4. c \in Node /\ c = s[1] /\ Contains(s, c)
  BY <1>1, <1>2, HeadIn
<1>5. /\ r \in Seq(Node) /\ Distinct(r)
      /\ \A n : Contains(r, n) => Contains(s, n) /\ n # c
      /\ EndOf(r) = IF Len(s) = 1 THEN Null ELSE EndOf(s)
      /\ (Len(r) = 0 <=> Len(s) = 1)
  BY <1>1, <1>2, <1>4, TailNodes
<1>6. Chain(m.next, r) /\ m.next[c] = HeadOf(r)
  BY <1>1, <1>2, <1>4, TailChain
<1>7. m.prev[c] = Null
  <2>1. 1 \in 1 .. Len(s)
    BY <1>1, <1>2
  <2> QED
    BY <1>1, <1>4, <2>1 DEF BackChain
<1>m. /\ m.first \in [Kinds -> [Threads -> Ptr]] /\ m.last \in [Kinds -> [Threads -> Ptr]]
      /\ m.next \in [Node -> Ptr] /\ m.prev \in [Node -> Ptr]
  BY <1>1, MemParts
<1>p. Null \in Ptr
  BY DEF Ptr
<1> HIDE DEF k, r
<1>8. /\ m0 \in Mem /\ m0.next = m.next
      /\ SameBut(m.prev, m0.prev, {HeadOf(r)})
      /\ (Len(r) # 0 => m0.prev[HeadOf(r)] = Null)
      /\ m0.first[k][t] = HeadOf(r) /\ m0.last[k][t] = EndOf(r)
      /\ OtherHeaders(m, it, m0, it, k, t)
  <2>1. CASE Len(r) = 0
    <3> DEFINE f == [m.first EXCEPT ![k][t] = Null]
               l == [m.last EXCEPT ![k][t] = Null]
    <3>1. m.next[c] = Null /\ HeadOf(r) = Null /\ EndOf(r) = Null
      BY <1>5, <1>6, <2>1 DEF HeadOf
    <3>2. m0 = MemOf(f, l, m.next, m.prev)
      BY <1>0, <1>1, <1>4, <1>7, <3>1, RemoveOnly
    <3>3. /\ f \in [Kinds -> [Threads -> Ptr]] /\ f[k][t] = Null
          /\ \A j \in Kinds, u \in Threads : j # k \/ u # t => f[j][u] = m.first[j][u]
      BY <1>0, <1>p, <1>m, SetHeader
    <3>4. /\ l \in [Kinds -> [Threads -> Ptr]] /\ l[k][t] = Null
          /\ \A j \in Kinds, u \in Threads : j # k \/ u # t => l[j][u] = m.last[j][u]
      BY <1>0, <1>p, <1>m, SetHeader
    <3> HIDE DEF f, l, m0
    <3>5. m0 \in Mem /\ m0.first = f /\ m0.last = l /\ m0.next = m.next /\ m0.prev = m.prev
      BY <1>m, <3>2, <3>3, <3>4 DEF MemOf, Mem
    <3>6. OtherHeaders(m, it, m0, it, k, t)
      BY <3>3, <3>4, <3>5 DEF OtherHeaders
    <3> QED
      BY <2>1, <3>1, <3>3, <3>4, <3>5, <3>6 DEF SameBut
  <2>2. CASE Len(r) # 0
    <3> DEFINE x == HeadOf(r)
               f == [m.first EXCEPT ![k][t] = x]
               pr == [m.prev EXCEPT ![x] = Null]
    <3>1. x \in Node /\ x \in Ptr /\ m.next[c] = x
      BY <1>5, <1>6, <2>2, HeadIn DEF Ptr
    <3> HIDE DEF x
    <3>2. m0 = MemOf(f, m.last, m.next, pr)
      BY <1>0, <1>1, <1>4, <1>7, <3>1, RemoveFirst
    <3>3. /\ f \in [Kinds -> [Threads -> Ptr]] /\ f[k][t] = x
          /\ \A j \in Kinds, u \in Threads : j # k \/ u # t => f[j][u] = m.first[j][u]
      BY <1>0, <1>m, <3>1, SetHeader
    <3>4. /\ pr \in [Node -> Ptr] /\ pr[x] = Null
          /\ \A n \in Node : n # x => pr[n] = m.prev[n]
      BY <1>m, <1>p, <3>1, SetNode
    <3> HIDE DEF f, pr, m0
    <3>5. m0 \in Mem /\ m0.first = f /\ m0.last = m.last /\ m0.next = m.next /\ m0.prev = pr
      BY <1>m, <3>2, <3>3, <3>4 DEF MemOf, Mem
    <3>6. OtherHeaders(m, it, m0, it, k, t)
      BY <3>3, <3>5 DEF OtherHeaders
    <3>7. SameBut(m.prev, m0.prev, {x})
      BY <3>4, <3>5 DEF SameBut
    <3>8. m0.last[k][t] = EndOf(r)
      BY <1>2, <1>5, <2>2, <3>5
    <3> QED
      BY <3>3, <3>4, <3>5, <3>6, <3>7, <3>8 DEF x
  <2> QED
    BY <2>1, <2>2
<1> HIDE DEF m0
<1>9. /\ m1 \in Mem /\ m1.first = m0.first /\ m1.last = m0.last
      /\ SameBut(m0.next, m1.next, {c}) /\ SameBut(m0.prev, m1.prev, {c})
      /\ m1.prev[c] = Null
  <2> DEFINE nx == [m0.next EXCEPT ![c] = Null]
             pr == [m0.prev EXCEPT ![c] = Null]
  <2>0. /\ m0.first \in [Kinds -> [Threads -> Ptr]] /\ m0.last \in [Kinds -> [Threads -> Ptr]]
        /\ m0.next \in [Node -> Ptr] /\ m0.prev \in [Node -> Ptr]
    BY <1>8, MemParts
  <2>1. m1 = MemOf(m0.first, m0.last, nx, pr)
    BY <1>4, <1>8, UnlinkedParts
  <2>2. /\ nx \in [Node -> Ptr]
        /\ \A n \in Node : n # c => nx[n] = m0.next[n]
    BY <1>4, <1>p, <2>0, SetNode
  <2>3. /\ pr \in [Node -> Ptr] /\ pr[c] = Null
        /\ \A n \in Node : n # c => pr[n] = m0.prev[n]
    BY <1>4, <1>p, <2>0, SetNode
  <2> HIDE DEF nx, pr, m1
  <2>4. /\ m1 \in Mem /\ m1.first = m0.first /\ m1.last = m0.last
        /\ m1.next = nx /\ m1.prev = pr
    BY <2>0, <2>1, <2>2, <2>3 DEF MemOf, Mem
  <2> QED
    BY <2>2, <2>3, <2>4 DEF SameBut
<1> HIDE DEF m1
<1>10. SameBut(m.next, m1.next, {c}) /\ SameBut(m.prev, m1.prev, {c, HeadOf(r)})
       /\ SameBut(m.next, m1.next, {c, HeadOf(r)})
  BY <1>8, <1>9 DEF SameBut
<1>11. Len(r) # 0 => m1.prev[HeadOf(r)] = Null
  <2> SUFFICES ASSUME Len(r) # 0 PROVE m1.prev[HeadOf(r)] = Null
    OBVIOUS
  <2>1. HeadOf(r) \in Node /\ Contains(r, HeadOf(r))
    BY <1>5, HeadIn
  <2> QED
    BY <1>5, <1>8, <1>9, <2>1 DEF SameBut
<1>12. Chain(m1.next, r)
  BY <1>5, <1>6, <1>10, ChainFrame DEF Avoids
<1>13. BackChain(m1.prev, r)
  BY <1>1, <1>2, <1>4, <1>10, <1>11, TailBack DEF r
<1>14. OnlyIn(NodesOf(r), L, k, t)
  BY <1>5 DEF OnlyIn, NodesOf, s
<1>15. OnlyIn({c, HeadOf(r)}, L, k, t)
  <2>1. Contains(L[k][t], c)
    BY <1>4 DEF s
  <2>2. CASE Len(r) = 0
    BY <2>1, <2>2, NullIsFree DEF OnlyIn, HeadOf
  <2>3. CASE Len(r) # 0
    <3>1. Contains(r, HeadOf(r))
      BY <1>5, <2>3, HeadIn
    <3> QED
      BY <1>5, <2>1, <3>1 DEF OnlyIn, s
  <2> QED
    BY <2>2, <2>3
<1>16. HeaderIs(m1, it, rem, k, t, r)
  BY <1>0, <1>8, <1>9 DEF HeaderIs
<1>17. OtherHeaders(m, it, m1, it, k, t)
  BY <1>8, <1>9 DEF OtherHeaders
<1>18. Rep(m1, it, rem, [L EXCEPT ![k][t] = r])
  BY <1>0, <1>5, <1>9, <1>10, <1>12, <1>13, <1>14, <1>15, <1>16, <1>17, RepChange
<1>19. Free([L EXCEPT ![k][t] = r], c)
  <2>1. ~Contains(r, c) /\ Contains(L[k][t], c)
    BY <1>4, <1>5 DEF s
  <2> QED
    BY <1>0, <1>1, <1>4, <2>1, FreeAfter
<1>20. Len(s) # 0 /\ c \in Node /\ c = s[1]
  BY <1>2, <1>4
<1>21. m1 = TakenFrom(m, t)
  BY DEF TakenFrom, m1, m0, c, k
<1>22. Rep(TakenFrom(m, t), it, rem, [L EXCEPT ![k][t] = Tail(@)])
  BY <1>3, <1>18, <1>21, Zenon
<1>23. Free([L EXCEPT ![k][t] = Tail(@)], c)
  BY <1>3, <1>19, Zenon
<1> QED
  BY <1>20, <1>22, <1>23, Zenon DEF c, s, k

(* heap_class_remove's iterator leaves the first node of the own list.     *)
Advanced(m, it, t) == [it EXCEPT ![t] = m.next[it[t]]]
Shortened(L, t) == [L EXCEPT !["local"][t] = Tail(@)]

LEMMA LeaveNode ==
  ASSUME NEW m, NEW it \in [Threads -> Ptr], NEW rem, NEW L, Rep(m, it, rem, L),
         NEW t \in Threads, t \in rem, it[t] # Null
  PROVE  /\ Len(L["local"][t]) # 0
         /\ it[t] \in Node
         /\ it[t] = L["local"][t][1]
         /\ m.next[it[t]] \in Ptr
         /\ Rep(m, Advanced(m, it, t), rem, Shortened(L, t))
         /\ Free(Shortened(L, t), it[t])
<1> DEFINE k == "local"
           c == it[t]
           s == L[k][t]
           r == Tail(s)
           i1 == [it EXCEPT ![t] = m.next[c]]
<1>0. k \in Kinds
  BY DEF Kinds
<1>1. /\ s \in Seq(Node) /\ Len(s) \in Nat /\ Distinct(s) /\ Chain(m.next, s)
      /\ m \in Mem /\ L \in ListSet /\ Apart(L) /\ c = HeadOf(s)
  <2>1. /\ s \in Seq(Node) /\ Len(s) \in Nat /\ Distinct(s) /\ Chain(m.next, s)
        /\ HeaderIs(m, it, rem, k, t, s)
    BY <1>0, RepAt
  <2>2. c = HeadOf(s)
    BY <2>1 DEF HeaderIs
  <2> QED
    BY <2>1, <2>2 DEF Rep
<1>2. Len(s) # 0
  BY <1>1 DEF HeadOf
<1>3. Shortened(L, t) = [L EXCEPT ![k][t] = r] /\ Advanced(m, it, t) = i1
  BY <1>0, <1>1 DEF ListSet, Shortened, Advanced
<1>h. i1[t] = m.next[c] /\ \A u \in Threads : u # t => i1[u] = it[u]
  OBVIOUS
<1> HIDE DEF c, s, i1
<1>4. c \in Node /\ c = s[1] /\ Contains(s, c)
  BY <1>1, <1>2, HeadIn
<1>5. /\ r \in Seq(Node) /\ Distinct(r)
      /\ \A n : Contains(r, n) => Contains(s, n) /\ n # c
  BY <1>1, <1>2, <1>4, TailNodes
<1>6. Chain(m.next, r) /\ m.next[c] = HeadOf(r)
  BY <1>1, <1>2, <1>4, TailChain
<1>7. m.next[c] \in Ptr
  BY <1>1, <1>4, MemParts
<1> HIDE DEF r
<1>8. OnlyIn(NodesOf(r), L, k, t) /\ OnlyIn({}, L, k, t)
  BY <1>5 DEF OnlyIn, NodesOf, s
<1>9. SameBut(m.next, m.next, {}) /\ SameBut(m.prev, m.prev, {})
  BY DEF SameBut
<1>10. OtherHeaders(m, it, m, i1, k, t)
  BY <1>h DEF OtherHeaders
<1>11. HeaderIs(m, i1, rem, k, t, r)
  BY <1>h, <1>6 DEF HeaderIs
<1>12. k # "cache"
  OBVIOUS
<1> HIDE DEF k
<1>13. Rep(m, i1, rem, [L EXCEPT ![k][t] = r])
  BY <1>0, <1>1, <1>5, <1>6, <1>8, <1>9, <1>10, <1>11, <1>12, RepChange
<1>14. Free([L EXCEPT ![k][t] = r], c)
  <2>1. ~Contains(r, c) /\ Contains(L[k][t], c)
    BY <1>4, <1>5 DEF s
  <2> QED
    BY <1>0, <1>1, <1>4, <2>1, FreeAfter
<1> QED
  BY <1>2, <1>3, <1>4, <1>7, <1>13, <1>14 DEF c, s, k

(* get_shared_LClasses: the pool's sequence goes behind the own one.       *)
JoinedIn(m, t) ==
  [m EXCEPT
     !.first.local[t] = IF @ = Null THEN m.first.remote[t] ELSE @,
     !.last.local[t] = m.last.remote[t],
     !.next = IF m.first.local[t] = Null THEN @
              ELSE [@ EXCEPT ![m.last.local[t]] = m.first.remote[t]]]

FetchedIn(m, t) == [JoinedIn(m, t) EXCEPT !.first.remote[t] = Null, !.last.remote[t] = Null]

LEMMA FetchedParts ==
  ASSUME NEW m \in Mem, NEW t \in Threads,
         NEW x, x = IF m.first["local"][t] = Null THEN m.first["remote"][t]
                    ELSE m.first["local"][t],
         NEW nx, nx = IF m.first["local"][t] = Null THEN m.next
                      ELSE [m.next EXCEPT ![m.last["local"][t]] = m.first["remote"][t]]
  PROVE  FetchedIn(m, t)
           = MemOf([[m.first EXCEPT !["local"][t] = x] EXCEPT !["remote"][t] = Null],
                   [[m.last EXCEPT !["local"][t] = m.last["remote"][t]] EXCEPT !["remote"][t] = Null],
                   nx, m.prev)
<1> DEFINE f1 == [m.first EXCEPT !["local"][t] = x]
           l1 == [m.last EXCEPT !["local"][t] = m.last["remote"][t]]
           f2 == [f1 EXCEPT !["remote"][t] = Null]
           l2 == [l1 EXCEPT !["remote"][t] = Null]
           v == JoinedIn(m, t)
<1>1. v = [first |-> f1, last |-> l1, next |-> nx, prev |-> m.prev]
  <2> DEFINE v1 == [m EXCEPT !.first.local[t] = x]
             v2 == [v1 EXCEPT !.last.local[t] = m.last.remote[t]]
             v3 == [v2 EXCEPT !.next = nx]
  <2>1. m = [first |-> m.first, last |-> m.last, next |-> m.next, prev |-> m.prev]
    BY MemParts DEF MemOf
  <2>2. v1 = [first |-> f1, last |-> m.last, next |-> m.next, prev |-> m.prev]
    BY <2>1
  <2>3. v = v3
    BY DEF JoinedIn
  <2> HIDE DEF v1, f1, v
  <2>4. v2 = [first |-> f1, last |-> l1, next |-> m.next, prev |-> m.prev]
    BY <2>2
  <2> HIDE DEF v2, l1
  <2> QED
    BY <2>3, <2>4
<1> HIDE DEF f1, l1, v
<1>2. FetchedIn(m, t) = [v EXCEPT !.first.remote[t] = Null, !.last.remote[t] = Null]
  BY DEF FetchedIn, v
<1>3. FetchedIn(m, t) = [first |-> f2, last |-> l2, next |-> nx, prev |-> m.prev]
  BY <1>1, <1>2
<1> QED
  BY <1>3 DEF MemOf, f1, l1

LEMMA FetchList ==
  ASSUME NEW m, NEW it, NEW rem, NEW L, Rep(m, it, rem, L),
         NEW t \in Threads, t \notin rem, m.first["remote"][t] # Null
  PROVE  Rep(FetchedIn(m, t), it, rem,
             [L EXCEPT !["local"][t] = @ \o L["remote"][t], !["remote"][t] = <<>>])
<1> DEFINE own == L["local"][t]
           pool == L["remote"][t]
           all == own \o pool
           L1 == [L EXCEPT !["remote"][t] = <<>>]
           L2 == [L1 EXCEPT !["local"][t] = all]
           a == m.first["remote"][t]
           b == m.last["remote"][t]
           x == IF m.first["local"][t] = Null THEN a ELSE m.first["local"][t]
           nx == IF m.first["local"][t] = Null THEN m.next
                 ELSE [m.next EXCEPT ![m.last["local"][t]] = a]
           f0 == [m.first EXCEPT !["remote"][t] = Null]
           l0 == [m.last EXCEPT !["remote"][t] = Null]
           f1 == [m.first EXCEPT !["local"][t] = x]
           l1 == [m.last EXCEPT !["local"][t] = b]
           f2 == [f1 EXCEPT !["remote"][t] = Null]
           l2 == [l1 EXCEPT !["remote"][t] = Null]
           m1 == MemOf(f0, l0, m.next, m.prev)
           m2 == MemOf(f2, l2, nx, m.prev)
<1>k. "local" \in Kinds /\ "remote" \in Kinds
  BY DEF Kinds
<1>1. /\ own \in Seq(Node) /\ Len(own) \in Nat /\ Distinct(own) /\ Chain(m.next, own)
      /\ m \in Mem /\ L \in ListSet /\ Apart(L)
  BY <1>k, RepAt DEF Rep
<1>2. pool \in Seq(Node) /\ Len(pool) \in Nat /\ Distinct(pool) /\ Chain(m.next, pool)
  BY <1>k, RepAt
<1>3. /\ m.first["local"][t] = HeadOf(own) /\ m.last["local"][t] = EndOf(own)
      /\ (m.first["local"][t] = Null <=> Len(own) = 0)
  BY <1>k, Header
<1>4. a = HeadOf(pool) /\ b = EndOf(pool) /\ Len(pool) # 0
  BY <1>k, Header
<1>5. \A n \in Node : ~(Contains(own, n) /\ Contains(pool, n))
  BY <1>k, <1>1 DEF Apart
<1>6. [L EXCEPT !["local"][t] = @ \o L["remote"][t], !["remote"][t] = <<>>] = L2
  BY <1>k, <1>1 DEF ListSet
<1>7. L1["local"][t] = own /\ L1["remote"][t] = <<>>
  BY <1>k, <1>1 DEF ListSet
<1>m. /\ m.first \in [Kinds -> [Threads -> Ptr]] /\ m.last \in [Kinds -> [Threads -> Ptr]]
      /\ m.next \in [Node -> Ptr] /\ m.prev \in [Node -> Ptr]
  BY <1>1, MemParts
<1>8. /\ all \in Seq(Node) /\ Distinct(all) /\ EndOf(all) = EndOf(pool)
      /\ HeadOf(all) = IF Len(own) = 0 THEN HeadOf(pool) ELSE HeadOf(own)
      /\ \A n : Contains(all, n) => Contains(own, n) \/ Contains(pool, n)
  BY <1>1, <1>2, <1>4, <1>5, ConcatNodes
<1>p. /\ Null \in Ptr /\ a \in Ptr /\ b \in Ptr /\ HeadOf(own) \in Ptr
      /\ x = HeadOf(all) /\ x \in Ptr
  <2>1. Null \in Ptr /\ a \in Ptr /\ b \in Ptr /\ HeadOf(own) \in Ptr
    BY <1>1, <1>2, <1>4, PtrOfHead DEF Ptr
  <2>2. x = HeadOf(all)
    BY <1>3, <1>4, <1>8
  <2>3. HeadOf(all) \in Ptr
    BY <1>8, PtrOfHead
  <2> HIDE DEF a, b, x, all, own
  <2> QED
    BY <2>1, <2>2, <2>3
<1>f. /\ f0 \in [Kinds -> [Threads -> Ptr]] /\ f0["remote"][t] = Null
      /\ \A j \in Kinds, u \in Threads : j # "remote" \/ u # t => f0[j][u] = m.first[j][u]
  BY <1>k, <1>m, <1>p, SetHeader
<1>l. /\ l0 \in [Kinds -> [Threads -> Ptr]] /\ l0["remote"][t] = Null
      /\ \A j \in Kinds, u \in Threads : j # "remote" \/ u # t => l0[j][u] = m.last[j][u]
  BY <1>k, <1>m, <1>p, SetHeader
<1> HIDE DEF x
<1>F. /\ f1 \in [Kinds -> [Threads -> Ptr]] /\ f1["local"][t] = x
      /\ \A j \in Kinds, u \in Threads : j # "local" \/ u # t => f1[j][u] = m.first[j][u]
  BY <1>k, <1>m, <1>p, SetHeader
<1> HIDE DEF b
<1>L. /\ l1 \in [Kinds -> [Threads -> Ptr]] /\ l1["local"][t] = b
      /\ \A j \in Kinds, u \in Threads : j # "local" \/ u # t => l1[j][u] = m.last[j][u]
  BY <1>k, <1>m, <1>p, SetHeader
<1> HIDE DEF f1, l1
<1>9. /\ f2 \in [Kinds -> [Threads -> Ptr]] /\ f2["remote"][t] = Null
      /\ \A j \in Kinds, u \in Threads : j # "remote" \/ u # t => f2[j][u] = f1[j][u]
  BY <1>k, <1>p, <1>F, SetHeader
<1>10. /\ l2 \in [Kinds -> [Threads -> Ptr]] /\ l2["remote"][t] = Null
       /\ \A j \in Kinds, u \in Threads : j # "remote" \/ u # t => l2[j][u] = l1[j][u]
  BY <1>k, <1>p, <1>L, SetHeader
<1>11. /\ nx \in [Node -> Ptr] /\ SameBut(m.next, nx, {EndOf(own)})
       /\ (Len(own) # 0 => nx[EndOf(own)] = a)
  <2>1. CASE Len(own) = 0
    BY <1>3, <1>m, <2>1 DEF SameBut
  <2>2. CASE Len(own) # 0
    <3> DEFINE e == EndOf(own)
    <3>1. e \in Node
      BY <1>1, <2>2, HeadIn
    <3>2. nx = [m.next EXCEPT ![e] = a]
      BY <1>3, <2>2
    <3> HIDE DEF e, a, nx
    <3>3. /\ [m.next EXCEPT ![e] = a] \in [Node -> Ptr] /\ [m.next EXCEPT ![e] = a][e] = a
          /\ \A n \in Node : n # e => [m.next EXCEPT ![e] = a][n] = m.next[n]
      BY <1>m, <1>p, <3>1, SetNode
    <3>4. /\ nx \in [Node -> Ptr] /\ nx[e] = a
          /\ \A n \in Node : n # e => nx[n] = m.next[n]
      BY <3>2, <3>3
    <3> QED
      BY <3>4 DEF SameBut, e
  <2> QED
    BY <2>1, <2>2
<1>12. FetchedIn(m, t) = m2
  BY <1>1, FetchedParts DEF x, f1, l1, b
<1> HIDE DEF f0, l0, f2, l2, nx, a
<1>13. /\ m1 \in Mem /\ m1.first = f0 /\ m1.last = l0 /\ m1.next = m.next /\ m1.prev = m.prev
  BY <1>m, <1>f, <1>l DEF MemOf, Mem
<1>14. /\ m2 \in Mem /\ m2.first = f2 /\ m2.last = l2 /\ m2.next = nx /\ m2.prev = m.prev
  BY <1>m, <1>9, <1>10, <1>11 DEF MemOf, Mem
<1> HIDE DEF m1, m2
(* The pool's list is emptied ...                                          *)
<1>15. Rep(m1, it, rem, L1)
  <2> DEFINE k == "remote"
             e == <<>>
  <2>1. e \in Seq(Node) /\ Len(e) = 0
    BY EmptySeq
  <2> HIDE DEF e
  <2>2. Distinct(e) /\ OnlyIn(NodesOf(e), L, k, t) /\ OnlyIn({}, L, k, t) /\ Chain(m1.next, e)
    BY <2>1 DEF Distinct, OnlyIn, NodesOf, Contains, Chain
  <2>3. SameBut(m.next, m1.next, {}) /\ SameBut(m.prev, m1.prev, {})
    BY <1>13 DEF SameBut
  <2>4. OtherHeaders(m, it, m1, it, k, t)
    BY <1>f, <1>l, <1>13 DEF OtherHeaders
  <2>5. HeaderIs(m1, it, rem, k, t, e)
    BY <1>f, <1>l, <1>13, <2>1 DEF HeaderIs, HeadOf, EndOf
  <2>6. k # "cache" /\ k \in Kinds
    BY <1>k
  <2> HIDE DEF k
  <2>7. Rep(m1, it, rem, [L EXCEPT ![k][t] = e])
    BY <1>13, <2>1, <2>2, <2>3, <2>4, <2>5, <2>6, RepChange
  <2> QED
    BY <2>7 DEF k, e
(* ... and its nodes, which are in no list now, are appended.              *)
<1>16. \A n \in Node : Contains(pool, n) => Free(L1, n)
  <2> SUFFICES ASSUME NEW n \in Node, Contains(pool, n) PROVE Free(L1, n)
    OBVIOUS
  <2>1. ~Contains(<<>>, n)
    BY EmptySeq DEF Contains
  <2> QED
    BY <1>k, <1>1, <2>1, FreeAfter
<1>17. Rep(m2, it, rem, L2)
  <2> DEFINE k == "local"
  <2> HIDE DEF L1, own
  <2>1. OnlyIn(NodesOf(all), L1, k, t)
    BY <1>7, <1>8, <1>16 DEF OnlyIn, NodesOf
  <2>2. OnlyIn({EndOf(own)}, L1, k, t)
    <3>1. CASE Len(own) = 0
      BY <1>15, <3>1, NullIsFree DEF OnlyIn, EndOf
    <3>2. CASE Len(own) # 0
      BY <1>1, <1>7, <3>2, HeadIn DEF OnlyIn
    <3> QED
      BY <3>1, <3>2
  <2>3. SameBut(m1.next, m2.next, {EndOf(own)}) /\ SameBut(m1.prev, m2.prev, {EndOf(own)})
    BY <1>11, <1>13, <1>14 DEF SameBut
  <2>4. OtherHeaders(m1, it, m2, it, k, t)
    <3> SUFFICES ASSUME NEW j \in Kinds, NEW u \in Threads, j # k \/ u # t
                 PROVE  m2.first[j][u] = m1.first[j][u] /\ m2.last[j][u] = m1.last[j][u]
      BY DEF OtherHeaders
    <3>1. CASE j = "remote" /\ u = t
      BY <1>f, <1>l, <1>9, <1>10, <1>13, <1>14, <3>1
    <3>2. CASE j # "remote" \/ u # t
      BY <1>f, <1>l, <1>F, <1>L, <1>9, <1>10, <1>13, <1>14, <3>2
    <3> QED
      BY <3>1, <3>2
  <2>5. HeaderIs(m2, it, rem, k, t, all)
    BY <1>k, <1>4, <1>8, <1>p, <1>F, <1>L, <1>9, <1>10, <1>14 DEF HeaderIs
  <2>6. Chain(m2.next, all)
    <3>1. Avoids(pool, {EndOf(own)})
      <4>1. CASE Len(own) = 0
        BY <1>2, <4>1, InNode, NullAssumption DEF Avoids, EndOf, NullAssumption
      <4>2. CASE Len(own) # 0
        BY <1>1, <1>5, <4>2, HeadIn DEF Avoids
      <4> QED
        BY <4>1, <4>2
    <3>2. Len(own) # 0 => nx[EndOf(own)] = HeadOf(pool)
      BY <1>4, <1>11
    <3> HIDE DEF pool
    <3> QED
      BY <1>1, <1>2, <1>11, <1>14, <3>1, <3>2, ConcatChain
  <2>7. k # "cache" /\ k \in Kinds
    BY <1>k
  <2> HIDE DEF k, all
  <2>8. Rep(m2, it, rem, [L1 EXCEPT ![k][t] = all])
    BY <1>8, <1>14, <1>15, <2>1, <2>2, <2>3, <2>4, <2>5, <2>6, <2>7, RepChange
  <2> QED
    BY <2>8 DEF k
<1> QED
  BY <1>6, <1>12, <1>17

(* get_LSCNode clears the pointers of a fresh node.                        *)
LEMMA UnlinkFree ==
  ASSUME NEW m, NEW it, NEW rem, NEW L, Rep(m, it, rem, L),
         NEW t \in Threads, NEW n \in Node, Free(L, n)
  PROVE  Rep(UnlinkedIn(m, n), it, rem, L)
<1> DEFINE k == "local"
           s == L[k][t]
           nx == [m.next EXCEPT ![n] = Null]
           pr == [m.prev EXCEPT ![n] = Null]
           m1 == UnlinkedIn(m, n)
<1>1. k \in Kinds /\ k # "cache" /\ m \in Mem /\ L \in ListSet
  BY DEF Kinds, Rep
<1>2. s \in Seq(Node) /\ Distinct(s) /\ Chain(m.next, s) /\ HeaderIs(m, it, rem, k, t, s)
  BY <1>1, RepAt
<1>3. [L EXCEPT ![k][t] = s] = L
  BY <1>1 DEF ListSet
<1>4. /\ m.first \in [Kinds -> [Threads -> Ptr]] /\ m.last \in [Kinds -> [Threads -> Ptr]]
      /\ m.next \in [Node -> Ptr] /\ m.prev \in [Node -> Ptr] /\ Null \in Ptr
  BY <1>1, MemParts DEF Ptr
<1>5. m1 = MemOf(m.first, m.last, nx, pr)
  BY <1>1, UnlinkedParts
<1>6. nx \in [Node -> Ptr] /\ \A i \in Node : i # n => nx[i] = m.next[i]
  BY <1>4, SetNode
<1>7. pr \in [Node -> Ptr] /\ \A i \in Node : i # n => pr[i] = m.prev[i]
  BY <1>4, SetNode
<1> HIDE DEF nx, pr, m1
<1>8. /\ m1 \in Mem /\ m1.first = m.first /\ m1.last = m.last
      /\ m1.next = nx /\ m1.prev = pr
  BY <1>4, <1>5, <1>6, <1>7 DEF MemOf, Mem
<1>9. SameBut(m.next, m1.next, {n}) /\ SameBut(m.prev, m1.prev, {n})
  BY <1>6, <1>7, <1>8 DEF SameBut
<1>10. OnlyIn({n}, L, k, t) /\ OnlyIn(NodesOf(s), L, k, t)
  BY DEF OnlyIn, NodesOf
<1>11. ~Contains(s, n)
  BY <1>1 DEF Free
<1>12. OtherHeaders(m, it, m1, it, k, t) /\ HeaderIs(m1, it, rem, k, t, s)
  BY <1>2, <1>8 DEF OtherHeaders, HeaderIs
<1> HIDE DEF s, k
<1>13. Chain(m1.next, s)
  BY <1>2, <1>9, <1>11, ChainFrame DEF Avoids
<1>14. Rep(m1, it, rem, [L EXCEPT ![k][t] = s])
  BY <1>1, <1>2, <1>8, <1>9, <1>10, <1>12, <1>13, RepChange
<1> QED
  BY <1>3, <1>14 DEF m1

-----------------------------------------------------------------------------
(* The inductive invariant: the memory stands for the sequences that its   *)
(* pointers spell, and no node is in use that was not carved.              *)
Lists == [k \in Kinds |-> [t \in Threads |-> List(k, t)]]

Carved(L, counter) == \A n \in Node : Free(L, n) \/ n[2] < counter[n[1]]

LInv ==
  /\ TypeOK
  /\ Rep(Memory, iterator, removing, Lists)
  /\ Carved(Lists, node_buffer_counter)

LEMMA RepIsLists ==
  ASSUME NEW L, Rep(Memory, iterator, removing, L)
  PROVE  Lists = L
<1>1. L \in ListSet /\ Memory.next = next /\ Memory.first = first
  BY DEF Rep, Memory
<1>2. ASSUME NEW k \in Kinds, NEW t \in Threads PROVE List(k, t) = L[k][t]
  BY <1>1, RepWalk DEF List
<1> QED
  BY <1>1, <1>2 DEF Lists, ListSet

LEMMA RepIsListsNext ==
  ASSUME NEW L, Rep(Memory', iterator', removing', L)
  PROVE  Lists' = L
<1>1. L \in ListSet /\ Memory'.next = next' /\ Memory'.first = first'
  BY DEF Rep, Memory
<1>2. ASSUME NEW k \in Kinds, NEW t \in Threads PROVE List(k, t)' = L[k][t]
  BY <1>1, RepWalk DEF List
<1> QED
  BY <1>1, <1>2 DEF Lists, ListSet

LEMMA BecomesMemory ==
  ASSUME NEW m \in Mem, Becomes(m)
  PROVE  Memory' = m
  BY DEF Becomes, Memory, Mem

LEMMA MemoryIn == TypeOK <=> /\ Memory \in Mem
                             /\ node_buffer_counter \in [Threads -> 0 .. NodeBufferSize]
                             /\ iterator \in [Threads -> Ptr]
                             /\ removing \subseteq Threads
  BY DEF TypeOK, Memory, Mem, Ptr

LEMMA InitRep == Init => LInv
<1> SUFFICES ASSUME Init PROVE LInv
  OBVIOUS
<1> DEFINE L == [k \in Kinds |-> [t \in Threads |-> <<>>]]
<1>0. NodeBufferSize \in Nat
  BY FiniteAssumption DEF FiniteAssumption
<1>1. TypeOK
  BY <1>0 DEF Init, TypeOK
<1>2. <<>> \in Seq(Node) /\ Len(<<>>) = 0
  BY EmptySeq
<1>3. L \in ListSet /\ \A k \in Kinds, t \in Threads : L[k][t] = <<>>
  BY <1>2 DEF ListSet
<1>4. Memory \in Mem
  BY <1>1, MemoryIn
<1>5. \A k \in Kinds, t \in Threads : Memory.first[k][t] = Null /\ Memory.last[k][t] = Null
  BY DEF Init, Memory
<1>6. removing = {}
  BY DEF Init
<1> HIDE DEF L
<1>7. Rep(Memory, iterator, removing, L)
  BY <1>2, <1>3, <1>4, <1>5, <1>6
     DEF Rep, Apart, Distinct, Contains, Chain, BackChain, HeaderIs, HeadOf, EndOf
<1>8. Lists = L
  BY <1>7, RepIsLists
<1>9. Carved(L, node_buffer_counter)
  BY <1>2, <1>3 DEF Carved, Free, Contains
<1> QED
  BY <1>1, <1>7, <1>8, <1>9 DEF LInv

(* What is left to show of a step once the next sequences are known.       *)
LEMMA NextInv ==
  ASSUME NEW L, Rep(Memory', iterator', removing', L), Carved(L, node_buffer_counter'),
         node_buffer_counter' \in [Threads -> 0 .. NodeBufferSize],
         iterator' \in [Threads -> Ptr], removing' \subseteq Threads
  PROVE  LInv' /\ Lists' = L
<1>1. Lists' = L
  BY RepIsListsNext
<1>2. Memory' \in Mem
  BY DEF Rep
<1>3. TypeOK'
  BY <1>2, MemoryIn DEF TypeOK, Memory, Mem, Ptr
<1> QED
  BY <1>1, <1>3 DEF LInv

-----------------------------------------------------------------------------
(* The steps.  Each one changes the sequences as an abstract step does.    *)

(* Sequences that only gain c leave the other nodes free.                  *)
LEMMA StillFree ==
  ASSUME NEW L \in ListSet, NEW k \in Kinds, NEW t \in Threads, NEW s, NEW n,
         Free(L, n), ~Contains(s, n)
  PROVE  Free([L EXCEPT ![k][t] = s], n)
<1> DEFINE L1 == [L EXCEPT ![k][t] = s]
<1>1. \A j \in Kinds, u \in Threads : L1[j][u] = IF j = k /\ u = t THEN s ELSE L[j][u]
  BY DEF ListSet
<1> HIDE DEF L1
<1>2. Free(L1, n)
  BY <1>1 DEF Free
<1> QED
  BY <1>2 DEF L1

LEMMA AppendFree ==
  ASSUME NEW L \in ListSet, NEW k \in Kinds, NEW t \in Threads, NEW c \in Node, NEW n,
         Apart(L), Free(L, c), Free(L, n), n # c
  PROVE  Free([L EXCEPT ![k][t] = Append(@, c)], n)
<1> DEFINE s == L[k][t]
<1>1. s \in Seq(Node) /\ Distinct(s) /\ ~Contains(s, c) /\ ~Contains(s, n)
  BY DEF ListSet, Apart, Free
<1>2. [L EXCEPT ![k][t] = Append(@, c)] = [L EXCEPT ![k][t] = Append(s, c)]
  BY DEF ListSet
<1> HIDE DEF s
<1>3. ~Contains(Append(s, c), n)
  BY <1>1, AppendNodes
<1> QED
  BY <1>2, <1>3, StillFree

LEMMA TailFree ==
  ASSUME NEW L \in ListSet, NEW k \in Kinds, NEW t \in Threads, NEW n,
         Apart(L), Len(L[k][t]) # 0, Free(L, n)
  PROVE  Free([L EXCEPT ![k][t] = Tail(@)], n)
<1> DEFINE s == L[k][t]
<1>1. s \in Seq(Node) /\ Distinct(s) /\ ~Contains(s, n) /\ Len(s) # 0
  BY DEF ListSet, Apart, Free
<1>2. [L EXCEPT ![k][t] = Tail(@)] = [L EXCEPT ![k][t] = Tail(s)]
  BY DEF ListSet
<1> HIDE DEF s
<1>3. ~Contains(Tail(s), n)
  BY <1>1, TailNodes
<1> QED
  BY <1>2, <1>3, StillFree

(* heap_class_insert with a recycled node.                                 *)
LEMMA InsertCachedStep ==
  ASSUME LInv, NEW t \in Threads, NEW k \in {"local", "remote"}, NEW r \in Threads,
         k = "local" => r = t, t \notin removing, first.cache[t] # Null,
         Becomes(LClassInsertEnd(TakenFrom(Memory, t), k, r, first.cache[t])),
         UNCHANGED <<node_buffer_counter, iterator, removing>>
  PROVE  LInv' /\ AsSequences!PutCached(t, k, r)
<1> DEFINE L == Lists
           c == first.cache[t]
           m1 == TakenFrom(Memory, t)
           L1 == [L EXCEPT !["cache"][t] = Tail(@)]
           m2 == LClassInsertEnd(m1, k, r, c)
           L2 == [L1 EXCEPT ![k][r] = Append(@, c)]
<1>0. /\ Rep(Memory, iterator, removing, L) /\ Carved(L, node_buffer_counter)
      /\ L \in ListSet /\ Apart(L) /\ TypeOK /\ Memory.first = first
      /\ k \in Kinds /\ "cache" \in Kinds
  BY DEF LInv, Rep, Kinds, Memory
<1>1. /\ Len(L["cache"][t]) # 0 /\ c \in Node /\ c = L["cache"][t][1]
      /\ Rep(m1, iterator, removing, L1) /\ Free(L1, c)
  BY <1>0, TakeCached
<1> HIDE DEF L, c, m1
<1>2. L1 \in ListSet /\ Apart(L1)
  BY <1>1 DEF Rep
<1>3. Rep(m2, iterator, removing, L2)
  <2>1. k # "cache" /\ ~(k = "local" /\ r \in removing)
    OBVIOUS
  <2> HIDE DEF L1
  <2> QED
    BY <1>0, <1>1, <2>1, InsertEnd
<1>4. \A n \in Node : Free(L, n) /\ n # c => Free(L2, n)
  <2> SUFFICES ASSUME NEW n \in Node, Free(L, n), n # c PROVE Free(L2, n)
    OBVIOUS
  <2>1. Free(L1, n)
    BY <1>0, <1>1, TailFree
  <2> HIDE DEF L1
  <2> QED
    BY <1>0, <1>1, <1>2, <2>1, AppendFree
<1>5. ~Free(L, c)
  <2>1. L["cache"][t] \in Seq(Node)
    BY <1>0 DEF ListSet
  <2>2. 1 \in 1 .. Len(L["cache"][t])
    BY <1>1, <2>1, LenProperties
  <2> QED
    BY <1>0, <1>1, <2>2 DEF Free, Contains
<1>6. Carved(L2, node_buffer_counter)
  BY <1>0, <1>4, <1>5 DEF Carved
<1>7. Memory' = m2
  <2>1. m2 \in Mem /\ Becomes(m2)
    BY <1>3 DEF Rep, m1, c
  <2> HIDE DEF m2
  <2> QED
    BY <2>1, BecomesMemory
<1>8. LInv' /\ Lists' = L2
  <2>1. Rep(Memory', iterator', removing', L2) /\ Carved(L2, node_buffer_counter')
    BY <1>3, <1>6, <1>7
  <2> HIDE DEF L2
  <2> QED
    BY <1>0, <2>1, NextInv DEF TypeOK, Ptr
<1>9. AsSequences!PutCached(t, k, r)
  <2>1. L["cache"][t] # <<>> /\ c = Head(L["cache"][t])
    <3>1. L["cache"][t] \in Seq(Node)
      BY <1>0 DEF ListSet
    <3> QED
      BY <1>1, <3>1, TailFacts, EmptySeq
  <2>2. L2 = [L EXCEPT !["cache"][t] = Tail(@), ![k][r] = Append(@, Head(L["cache"][t]))]
    BY <2>1
  <2>3. L = [i \in Kinds |-> [u \in Threads |-> List(i, u)]]
        /\ Lists' = [i \in Kinds |-> [u \in Threads |-> List(i, u)']]
    BY DEF L, Lists
  <2> HIDE DEF L2
  <2> QED
    BY <1>8, <2>1, <2>2, <2>3 DEF AsSequences!PutCached
<1> QED
  BY <1>8, <1>9

(* heap_class_insert with a node carved from the buffer.                   *)
LEMMA InsertFreshStep ==
  ASSUME LInv, NEW t \in Threads, NEW k \in {"local", "remote"}, NEW r \in Threads,
         k = "local" => r = t, t \notin removing, BufferHasRoom(t),
         NEW c, c = <<t, node_buffer_counter[t]>>,
         Becomes(LClassInsertEnd(UnlinkedIn(Memory, c), k, r, c)),
         node_buffer_counter' = [node_buffer_counter EXCEPT ![t] = @ + 1],
         UNCHANGED <<iterator, removing>>
  PROVE  LInv' /\ c \in Node /\ AsSequences!PutFresh(c, k, r)
<1> DEFINE L == Lists
           m1 == UnlinkedIn(Memory, c)
           m2 == LClassInsertEnd(m1, k, r, c)
           L2 == [L EXCEPT ![k][r] = Append(@, c)]
           counter == node_buffer_counter
<1>0. /\ Rep(Memory, iterator, removing, L) /\ Carved(L, counter)
      /\ L \in ListSet /\ Apart(L) /\ TypeOK
      /\ k \in Kinds
  BY DEF LInv, Rep, Kinds
<1>n. NodeBufferSize \in Nat
  BY FiniteAssumption DEF FiniteAssumption
<1>1. /\ counter[t] \in Nat /\ counter[t] < NodeBufferSize
      /\ counter \in [Threads -> 0 .. NodeBufferSize]
  BY <1>0, <1>n DEF TypeOK, BufferHasRoom
<1>2. c \in Node /\ c[1] = t /\ c[2] = counter[t]
  BY <1>n, <1>1 DEF Node
<1>3. Free(L, c)
  BY <1>0, <1>1, <1>2 DEF Carved
<1> HIDE DEF L
<1>4. Rep(m1, iterator, removing, L)
  BY <1>0, <1>2, <1>3, UnlinkFree
<1> HIDE DEF m1
<1>5. Rep(m2, iterator, removing, L2)
  <2>1. k # "cache" /\ ~(k = "local" /\ r \in removing)
    OBVIOUS
  <2> QED
    BY <1>0, <1>2, <1>3, <1>4, <2>1, InsertEnd
<1>6. \A n \in Node : Free(L, n) /\ n # c => Free(L2, n)
  BY <1>0, <1>2, <1>3, AppendFree
<1>7. Carved(L2, counter')
  <2> SUFFICES ASSUME NEW n \in Node, ~Free(L2, n) PROVE n[2] < counter'[n[1]]
    BY DEF Carved
  <2>1. n[1] \in Threads /\ n[2] \in Int
    BY <1>n DEF Node
  <2>2. CASE n = c
    BY <1>1, <1>2, <2>2
  <2>3. CASE n # c
    <3>1. n[2] < counter[n[1]]
      BY <1>0, <1>6, <2>3 DEF Carved
    <3>2. counter[n[1]] \in Int /\ counter'[n[1]] = IF n[1] = t THEN counter[t] + 1 ELSE counter[n[1]]
      BY <1>1, <2>1
    <3> QED
      BY <2>1, <3>1, <3>2
  <2> QED
    BY <2>2, <2>3
<1>8. Memory' = m2
  <2>1. m2 \in Mem /\ Becomes(m2)
    BY <1>5 DEF Rep, m1
  <2> HIDE DEF m2
  <2> QED
    BY <2>1, BecomesMemory
<1>9. LInv' /\ Lists' = L2
  <2>1. Rep(Memory', iterator', removing', L2) /\ Carved(L2, node_buffer_counter')
    BY <1>5, <1>7, <1>8
  <2>2. node_buffer_counter' \in [Threads -> 0 .. NodeBufferSize]
    BY <1>n, <1>1
  <2> HIDE DEF L2, counter
  <2> QED
    BY <1>0, <2>1, <2>2, NextInv DEF TypeOK, Ptr
<1>10. AsSequences!PutFresh(c, k, r)
  <2>1. L = [i \in Kinds |-> [u \in Threads |-> List(i, u)]]
        /\ Lists' = [i \in Kinds |-> [u \in Threads |-> List(i, u)']]
    BY DEF L, Lists
  <2>2. \A u \in Threads, j \in {"cache", "local", "remote"} :
          ~ \E i \in DOMAIN L[j][u] : L[j][u][i] = c
    <3> SUFFICES ASSUME NEW u \in Threads, NEW j \in {"cache", "local", "remote"},
                        NEW i \in DOMAIN L[j][u], L[j][u][i] = c
                 PROVE  FALSE
      OBVIOUS
    <3>1. j \in Kinds /\ L[j][u] \in Seq(Node)
      BY <1>0 DEF Kinds, ListSet
    <3>2. i \in 1 .. Len(L[j][u])
      BY <3>1, LenProperties
    <3> QED
      BY <1>3, <3>1, <3>2 DEF Free, Contains
  <2>3. ~AsSequences!InSomeList(c)
    BY <2>1, <2>2 DEF AsSequences!InSomeList
  <2>4. Lists' = [L EXCEPT ![k][r] = Append(@, c)]
    BY <1>9
  <2> HIDE DEF L2
  <2> QED
    BY <2>1, <2>3, <2>4 DEF AsSequences!PutFresh
<1> QED
  BY <1>2, <1>9, <1>10

(* get_shared_LClasses.                                                    *)
LEMMA FetchStep ==
  ASSUME LInv, NEW t \in Threads, GetSharedLClass(t)
  PROVE  LInv' /\ AsSequences!Splice(t)
<1> DEFINE L == Lists
           m2 == FetchedIn(Memory, t)
           L2 == [L EXCEPT !["local"][t] = @ \o L["remote"][t], !["remote"][t] = <<>>]
<1>0. /\ Rep(Memory, iterator, removing, L) /\ Carved(L, node_buffer_counter)
      /\ L \in ListSet /\ Apart(L) /\ TypeOK /\ Memory.first = first
      /\ "local" \in Kinds /\ "remote" \in Kinds
  BY DEF LInv, Rep, Kinds, Memory
<1>1. /\ t \notin removing /\ first["remote"][t] # Null
      /\ UNCHANGED <<node_buffer_counter, iterator, removing>>
  BY DEF GetSharedLClass
<1> HIDE DEF L
<1>2. Rep(m2, iterator, removing, L2)
  BY <1>0, <1>1, FetchList
<1>3. Memory' = m2
  <2>1. Becomes(m2)
    <3>1. Becomes([Joined(t) EXCEPT !.first.remote[t] = Null, !.last.remote[t] = Null])
      BY DEF GetSharedLClass
    <3>2. Joined(t) = JoinedIn(Memory, t)
      <4>1. /\ Memory.first.local[t] = first.local[t] /\ Memory.first.remote[t] = first.remote[t]
            /\ Memory.last.local[t] = last.local[t] /\ Memory.last.remote[t] = last.remote[t]
        BY DEF Memory
      <4> QED
        BY <4>1, Zenon DEF Joined, JoinedIn
    <3> QED
      BY <3>1, <3>2 DEF FetchedIn
  <2>2. m2 \in Mem
    BY <1>2 DEF Rep
  <2> HIDE DEF m2
  <2> QED
    BY <2>1, <2>2, BecomesMemory
<1>4. Carved(L2, node_buffer_counter)
  <2> DEFINE own == L["local"][t]
             pool == L["remote"][t]
             L1 == [L EXCEPT !["local"][t] = own \o pool]
  <2>1. /\ own \in Seq(Node) /\ pool \in Seq(Node) /\ Distinct(own) /\ Distinct(pool)
        /\ \A n \in Node : ~(Contains(own, n) /\ Contains(pool, n))
    BY <1>0 DEF ListSet, Apart
  <2>2. L2 = [L1 EXCEPT !["remote"][t] = <<>>]
    BY <1>0 DEF ListSet
  <2>3. own \o pool \in Seq(Node) /\ ~ \E n : Contains(<<>>, n)
    BY <2>1, ConcatNodes, EmptySeq DEF Contains
  <2>4. L1 \in ListSet
    BY <1>0, <2>3 DEF ListSet
  <2> SUFFICES ASSUME NEW n \in Node, Free(L, n) PROVE Free(L2, n)
    BY <1>0 DEF Carved
  <2>5. ~Contains(own \o pool, n)
    <3>1. ~Contains(own, n) /\ ~Contains(pool, n)
      BY <1>0 DEF Free
    <3> HIDE DEF own, pool
    <3> QED
      BY <2>1, <3>1, ConcatNodes
  <2> HIDE DEF L2
  <2>6. Free(L1, n)
    BY <1>0, <2>5, StillFree
  <2> HIDE DEF L1
  <2> QED
    BY <1>0, <2>2, <2>3, <2>4, <2>6, StillFree
<1>5. LInv' /\ Lists' = L2
  <2>1. Rep(Memory', iterator', removing', L2) /\ Carved(L2, node_buffer_counter')
    BY <1>1, <1>2, <1>3, <1>4
  <2> HIDE DEF L2
  <2> QED
    BY <1>0, <1>1, <2>1, NextInv DEF TypeOK, Ptr
<1>6. L = [i \in Kinds |-> [u \in Threads |-> List(i, u)]]
      /\ Lists' = [i \in Kinds |-> [u \in Threads |-> List(i, u)']]
  BY DEF L, Lists
<1>7. AsSequences!Splice(t)
  BY <1>5, <1>6 DEF AsSequences!Splice
<1> QED
  BY <1>5, <1>7

(* heap_class_remove starts.                                               *)
LEMMA BeginStep ==
  ASSUME LInv, NEW t \in Threads, RemoveBegin(t)
  PROVE  LInv' /\ Lists' = Lists
<1> DEFINE L == Lists
<1>0. /\ Rep(Memory, iterator, removing, L) /\ Carved(L, node_buffer_counter) /\ TypeOK
      /\ Memory.first = first /\ first \in [Kinds -> [Threads -> Ptr]]
      /\ "local" \in Kinds
  BY DEF LInv, Memory, TypeOK, Kinds, Ptr
<1>1. /\ t \notin removing /\ removing' = removing \cup {t}
      /\ iterator' = [iterator EXCEPT ![t] = first["local"][t]]
      /\ node_buffer_counter' = node_buffer_counter /\ Memory' = Memory
  BY DEF RemoveBegin, links, Memory
<1>2. iterator \in [Threads -> Ptr] /\ iterator' \in [Threads -> Ptr]
  BY <1>0, <1>1 DEF TypeOK, Ptr
<1> HIDE DEF L
<1>3. ASSUME NEW k \in Kinds, NEW u \in Threads
      PROVE  HeaderIs(Memory, iterator', removing', k, u, L[k][u])
  <2>1. HeaderIs(Memory, iterator, removing, k, u, L[k][u])
    BY <1>0, RepAt
  <2>2. CASE k = "local" /\ u = t
    <3>1. iterator'[t] = first["local"][t]
      BY <1>1, <1>2
    <3>2. first["local"][t] = HeadOf(L[k][u])
      BY <1>0, <1>1, <2>1, <2>2 DEF HeaderIs
    <3> QED
      BY <1>1, <2>2, <3>1, <3>2 DEF HeaderIs
  <2>3. CASE ~(k = "local" /\ u = t)
    <3>1. u # t => iterator'[u] = iterator[u]
      BY <1>1, <1>2
    <3> QED
      BY <1>1, <2>1, <2>3, <3>1 DEF HeaderIs
  <2> QED
    BY <2>2, <2>3
<1>4. Rep(Memory', iterator', removing', L)
  BY <1>0, <1>1, <1>3 DEF Rep
<1>5. Carved(L, node_buffer_counter')
  BY <1>0, <1>1
<1> QED
  BY <1>0, <1>1, <1>2, <1>4, <1>5, NextInv DEF TypeOK, L

(* heap_class_remove ends.                                                 *)
LEMMA EndStep ==
  ASSUME LInv, NEW t \in Threads, RemoveEnd(t)
  PROVE  LInv' /\ Lists' = Lists
<1> DEFINE L == Lists
           f == [first EXCEPT !["local"][t] = Null]
           l == [last EXCEPT !["local"][t] = Null]
           m1 == MemOf(f, l, next, prev)
<1>0. /\ Rep(Memory, iterator, removing, L) /\ Carved(L, node_buffer_counter) /\ TypeOK
      /\ "local" \in Kinds /\ Null \in Ptr /\ Memory \in Mem
  BY DEF LInv, Kinds, Ptr, Rep
<1>1. /\ t \in removing /\ iterator[t] = Null /\ removing' = removing \ {t}
      /\ iterator' = iterator /\ node_buffer_counter' = node_buffer_counter
  BY DEF RemoveEnd
<1>2. /\ first \in [Kinds -> [Threads -> Ptr]] /\ last \in [Kinds -> [Threads -> Ptr]]
      /\ next \in [Node -> Ptr] /\ prev \in [Node -> Ptr]
      /\ Memory = MemOf(first, last, next, prev)
  BY <1>0 DEF TypeOK, Ptr, Memory, MemOf
<1>3. Becomes(m1)
  <2>1. Becomes([Memory EXCEPT !.first.local[t] = Null, !.last.local[t] = Null])
    BY DEF RemoveEnd
  <2>2. [Memory EXCEPT !.first.local[t] = Null, !.last.local[t] = Null] = m1
    <3> DEFINE v == [Memory EXCEPT !.first.local[t] = Null]
    <3>1. v = [first |-> f, last |-> last, next |-> next, prev |-> prev]
      BY DEF Memory
    <3>2. [Memory EXCEPT !.first.local[t] = Null, !.last.local[t] = Null]
            = [v EXCEPT !.last.local[t] = Null]
      OBVIOUS
    <3> HIDE DEF v, f
    <3> QED
      BY <3>1, <3>2 DEF MemOf
  <2> HIDE DEF m1
  <2> QED
    BY <2>1, <2>2
<1>4. /\ f \in [Kinds -> [Threads -> Ptr]] /\ f["local"][t] = Null
      /\ \A j \in Kinds, u \in Threads : j # "local" \/ u # t => f[j][u] = first[j][u]
  BY <1>0, <1>2, SetHeader
<1>5. /\ l \in [Kinds -> [Threads -> Ptr]] /\ l["local"][t] = Null
      /\ \A j \in Kinds, u \in Threads : j # "local" \/ u # t => l[j][u] = last[j][u]
  BY <1>0, <1>2, SetHeader
<1> HIDE DEF f, l
<1>6. /\ m1 \in Mem /\ m1.first = f /\ m1.last = l /\ m1.next = next /\ m1.prev = prev
      /\ Memory.next = next /\ Memory.prev = prev
      /\ Memory.first = first /\ Memory.last = last
  BY <1>2, <1>4, <1>5 DEF MemOf, Mem
<1> HIDE DEF m1
<1>7. Memory' = m1
  BY <1>3, <1>6, BecomesMemory
<1> HIDE DEF L
<1>8. Len(L["local"][t]) = 0
  <2>1. HeaderIs(Memory, iterator, removing, "local", t, L["local"][t])
        /\ L["local"][t] \in Seq(Node)
    BY <1>0, RepAt
  <2>2. HeadOf(L["local"][t]) = Null
    BY <1>1, <2>1 DEF HeaderIs
  <2> QED
    BY <2>1, <2>2, HeadIn, NullAssumption DEF NullAssumption
<1>9. ASSUME NEW k \in Kinds, NEW u \in Threads
      PROVE  HeaderIs(m1, iterator, removing', k, u, L[k][u])
  <2>1. HeaderIs(Memory, iterator, removing, k, u, L[k][u])
    BY <1>0, RepAt
  <2>2. CASE k = "local" /\ u = t
    BY <1>1, <1>4, <1>5, <1>6, <1>8, <2>2 DEF HeaderIs, HeadOf, EndOf
  <2>3. CASE ~(k = "local" /\ u = t)
    BY <1>1, <1>4, <1>5, <1>6, <2>1, <2>3 DEF HeaderIs
  <2> QED
    BY <2>2, <2>3
<1>10. Rep(Memory', iterator', removing', L)
  BY <1>0, <1>1, <1>6, <1>7, <1>9 DEF Rep
<1>11. Carved(L, node_buffer_counter') /\ removing' \subseteq Threads
  BY <1>0, <1>1 DEF TypeOK
<1> QED
  BY <1>0, <1>1, <1>10, <1>11, NextInv DEF TypeOK, L, Ptr

(* heap_class_remove recycles a node.                                      *)
LEMMA RecycleStep ==
  ASSUME LInv, NEW t \in Threads, RemoveNode(t)
  PROVE  LInv' /\ AsSequences!Recycle(t)
<1> DEFINE L == Lists
           c == iterator[t]
           i1 == [iterator EXCEPT ![t] = next[c]]
           L1 == [L EXCEPT !["local"][t] = Tail(@)]
           m2 == LClassInsertBeginning(Memory, "cache", t, c)
           L2 == [L1 EXCEPT !["cache"][t] = <<c>> \o @]
<1>0. /\ Rep(Memory, iterator, removing, L) /\ Carved(L, node_buffer_counter)
      /\ L \in ListSet /\ Apart(L) /\ TypeOK /\ Memory.next = next
      /\ "local" \in Kinds /\ "cache" \in Kinds /\ iterator \in [Threads -> Ptr]
  BY DEF LInv, Rep, Kinds, Memory, TypeOK, Ptr
<1>1. /\ t \in removing /\ iterator[t] # Null /\ iterator' = i1
      /\ Becomes(m2) /\ node_buffer_counter' = node_buffer_counter /\ removing' = removing
  BY DEF RemoveNode
<1>2. /\ Len(L["local"][t]) # 0 /\ c \in Node /\ c = L["local"][t][1] /\ next[c] \in Ptr
      /\ Rep(Memory, i1, removing, L1) /\ Free(L1, c)
  <2>1. Advanced(Memory, iterator, t) = i1 /\ Shortened(L, t) = L1
    BY <1>0 DEF Advanced, Shortened
  <2>2. /\ Len(L["local"][t]) # 0 /\ c \in Node /\ c = L["local"][t][1]
        /\ Memory.next[c] \in Ptr
        /\ Rep(Memory, Advanced(Memory, iterator, t), removing, Shortened(L, t))
        /\ Free(Shortened(L, t), c)
    BY <1>0, <1>1, LeaveNode
  <2> HIDE DEF i1, L1, c
  <2> QED
    BY <1>0, <2>1, <2>2
<1>3. L1 \in ListSet /\ Apart(L1)
  BY <1>2 DEF Rep
<1>4. i1 \in [Threads -> Ptr]
  BY <1>0, <1>2
<1> HIDE DEF L, c, i1
<1>5. Rep(m2, i1, removing, L2)
  <2> HIDE DEF L1
  <2> QED
    BY <1>2, InsertBeginning
<1>6. \A n \in Node : Free(L, n) /\ n # c => Free(L2, n)
  <2> SUFFICES ASSUME NEW n \in Node, Free(L, n), n # c PROVE Free(L2, n)
    OBVIOUS
  <2>1. Free(L1, n)
    BY <1>0, <1>2, TailFree
  <2> DEFINE s == L1["cache"][t]
  <2>2. s \in Seq(Node) /\ Distinct(s) /\ ~Contains(s, c) /\ ~Contains(s, n)
    BY <1>0, <1>2, <1>3, <2>1 DEF ListSet, Apart, Free
  <2>3. L2 = [L1 EXCEPT !["cache"][t] = <<c>> \o s]
    BY <1>0, <1>3 DEF ListSet
  <2> HIDE DEF s, L1, L2
  <2>4. ~Contains(<<c>> \o s, n)
    BY <1>2, <2>2, PushNodes
  <2> QED
    BY <1>0, <1>3, <2>1, <2>3, <2>4, StillFree
<1>7. ~Free(L, c)
  <2>1. L["local"][t] \in Seq(Node)
    BY <1>0 DEF ListSet
  <2>2. 1 \in 1 .. Len(L["local"][t])
    BY <1>2, <2>1, LenProperties
  <2> QED
    BY <1>0, <1>2, <2>2 DEF Free, Contains
<1>8. Carved(L2, node_buffer_counter)
  BY <1>0, <1>6, <1>7 DEF Carved
<1>9. Memory' = m2
  <2>1. m2 \in Mem
    BY <1>5 DEF Rep
  <2> HIDE DEF m2
  <2> QED
    BY <1>1, <2>1, BecomesMemory
<1>10. LInv' /\ Lists' = L2
  <2>1. Rep(Memory', iterator', removing', L2) /\ Carved(L2, node_buffer_counter')
    BY <1>1, <1>5, <1>8, <1>9
  <2>2. iterator' \in [Threads -> Ptr]
    BY <1>1, <1>4
  <2> HIDE DEF L2
  <2> QED
    BY <1>0, <1>1, <2>1, <2>2, NextInv DEF TypeOK
<1>11. AsSequences!Recycle(t)
  <2>1. L["local"][t] # <<>> /\ c = Head(L["local"][t])
    <3>1. L["local"][t] \in Seq(Node)
      BY <1>0 DEF ListSet
    <3> QED
      BY <1>2, <3>1, TailFacts, EmptySeq
  <2>2. L2 = [L EXCEPT !["local"][t] = Tail(@), !["cache"][t] = <<Head(L["local"][t])>> \o @]
    BY <2>1
  <2>3. L = [i \in Kinds |-> [u \in Threads |-> List(i, u)]]
        /\ Lists' = [i \in Kinds |-> [u \in Threads |-> List(i, u)']]
    BY DEF L, Lists
  <2> HIDE DEF L2
  <2> QED
    BY <1>10, <2>1, <2>2, <2>3 DEF AsSequences!Recycle
<1> QED
  BY <1>10, <1>11

(* heap_class_insert, in both of its uses.                                 *)
LEMMA InsertStep ==
  ASSUME LInv, NEW t \in Threads, NEW k \in {"local", "remote"}, NEW r \in Threads,
         k = "local" => r = t, HeapClassInsert(t, k, r)
  PROVE  LInv' /\ (AsSequences!PutCached(t, k, r) \/ \E n \in Node : AsSequences!PutFresh(n, k, r))
<1>1. t \notin removing /\ UNCHANGED <<iterator, removing>>
  BY DEF HeapClassInsert
<1>2. CASE first.cache[t] # Null
  <2>1. /\ Becomes(LClassInsertEnd(TakenFrom(Memory, t), k, r, first.cache[t]))
        /\ UNCHANGED node_buffer_counter
    <3>1. Memory.first["cache"][t] = first.cache[t]
      BY DEF Memory
    <3> QED
      BY <1>2, <3>1 DEF HeapClassInsert, TakenFrom, UnlinkedIn
  <2> QED
    BY <1>1, <1>2, <2>1, InsertCachedStep
<1>3. CASE first.cache[t] = Null
  <2> DEFINE c == <<t, node_buffer_counter[t]>>
  <2>1. /\ BufferHasRoom(t)
        /\ Becomes(LClassInsertEnd(UnlinkedIn(Memory, c), k, r, c))
        /\ node_buffer_counter' = [node_buffer_counter EXCEPT ![t] = @ + 1]
    BY <1>3 DEF HeapClassInsert, UnlinkedIn
  <2> QED
    BY <1>1, <2>1, InsertFreshStep
<1> QED
  BY <1>2, <1>3

(* Every step of the lists is a step of the sequences, or none.            *)
LEMMA StepRep ==
  ASSUME LInv, [Next]_vars
  PROVE  LInv' /\ (AsSequences!Next \/ Lists' = Lists)
<1>1. CASE UNCHANGED vars
  <2>1. Lists' = Lists
    BY <1>1 DEF vars, links, Lists, List
  <2>2. TypeOK' /\ Memory' = Memory /\ iterator' = iterator /\ removing' = removing
        /\ node_buffer_counter' = node_buffer_counter
    BY <1>1 DEF vars, links, LInv, TypeOK, Memory
  <2> QED
    BY <2>1, <2>2 DEF LInv
<1>2. ASSUME NEW t \in Threads, Keep(t)
      PROVE  LInv' /\ AsSequences!Next
  BY <1>2, InsertStep DEF Keep, AsSequences!Next
<1>3. ASSUME NEW t \in Threads, NEW r \in Threads, Share(t, r)
      PROVE  LInv' /\ AsSequences!Next
  BY <1>3, InsertStep DEF Share, AsSequences!Next
<1>4. ASSUME NEW t \in Threads, GetSharedLClass(t)
      PROVE  LInv' /\ AsSequences!Next
  BY <1>4, FetchStep DEF AsSequences!Next
<1>5. ASSUME NEW t \in Threads, RemoveBegin(t)
      PROVE  LInv' /\ Lists' = Lists
  BY <1>5, BeginStep
<1>6. ASSUME NEW t \in Threads, RemoveNode(t)
      PROVE  LInv' /\ AsSequences!Next
  BY <1>6, RecycleStep DEF AsSequences!Next
<1>7. ASSUME NEW t \in Threads, RemoveEnd(t)
      PROVE  LInv' /\ Lists' = Lists
  BY <1>7, EndStep
<1> QED
  BY <1>1, <1>2, <1>3, <1>4, <1>5, <1>6, <1>7 DEF Next

LEMMA Invariant == Spec => []LInv
<1>1. Init => LInv
  BY InitRep
<1>2. LInv /\ [Next]_vars => LInv'
  BY StepRep
<1> QED
  BY <1>1, <1>2, PTL DEF Spec

-----------------------------------------------------------------------------
(* What the invariant says, list by list.                                  *)
LEMMA ListFacts ==
  ASSUME LInv, NEW k \in Kinds, NEW t \in Threads
  PROVE  /\ List(k, t) \in Seq(Node)
         /\ (List(k, t) = <<>> <=> Len(List(k, t)) = 0)
         /\ ~Stale(k, t) => last[k][t] = EndOf(List(k, t))
         /\ k = "cache" => BackChain(prev, List(k, t))
<1>1. Lists[k][t] = List(k, t) /\ Memory.last = last /\ Memory.prev = prev
  BY DEF Lists, Memory
<1>2. Rep(Memory, iterator, removing, Lists)
  BY DEF LInv
<1> HIDE DEF List
<1>3. /\ List(k, t) \in Seq(Node)
      /\ k = "cache" => BackChain(prev, List(k, t))
      /\ HeaderIs(Memory, iterator, removing, k, t, List(k, t))
  <2>1. /\ Lists[k][t] \in Seq(Node)
        /\ k = "cache" => BackChain(Memory.prev, Lists[k][t])
        /\ HeaderIs(Memory, iterator, removing, k, t, Lists[k][t])
    BY <1>2, RepAt
  <2> QED
    BY <1>1, <2>1
<1>4. ~Stale(k, t) => last[k][t] = EndOf(List(k, t))
  BY <1>1, <1>3 DEF Stale, HeaderIs
<1>5. List(k, t) = <<>> <=> Len(List(k, t)) = 0
  BY <1>3, EmptySeq
<1> QED
  BY <1>3, <1>4, <1>5

(* The memory holds nodes and null pointers where it should, and no buffer *)
(* hands out more nodes than it has.                                       *)
THEOREM TypeCorrect == Spec => []TypeOK
<1>1. LInv => TypeOK
  BY DEF LInv
<1> QED
  BY <1>1, Invariant, PTL

(* The header of a list always leads to its last node, so that insertion   *)
(* at the end (lclass_insert_end) and the splice of get_shared_LClasses    *)
(* never cut a list.                                                       *)
THEOREM HeadersLeadToTheEnd == Spec => []LastEndsList
<1>1. LInv => LastEndsList
  BY ListFacts DEF LastEndsList, EndOf
<1> QED
  BY <1>1, Invariant, PTL

(* Every node of a cache knows its predecessor, as lclass_remove needs it. *)
THEOREM CachesAreDoublyLinked == Spec => []CachesDoublyLinked
<1>1. LInv => CachesDoublyLinked
  <2> SUFFICES ASSUME LInv, NEW t \in Threads PROVE BackLinked("cache", t)
    BY DEF CachesDoublyLinked
  <2>1. BackChain(prev, List("cache", t))
    BY ListFacts DEF Kinds
  <2> QED
    BY <2>1 DEF BackLinked, BackChain
<1> QED
  BY <1>1, Invariant, PTL

(* The pointers of lifetime-class.c implement the sequences of             *)
(* LClassSequences: no operation loses a node, duplicates one, or puts it  *)
(* anywhere but where the abstract operation does.                         *)
THEOREM PointersImplementSequences == Spec => ImplementsSequences
<1>1. Init => AsSequences!Init
  <2> SUFFICES ASSUME Init PROVE AsSequences!Init
    OBVIOUS
  <2> DEFINE L == [k \in Kinds |-> [t \in Threads |-> <<>>]]
  <2>1. LInv
    BY InitRep
  <2>2. ASSUME NEW k \in Kinds, NEW t \in Threads PROVE List(k, t) = <<>>
    <3>1. Walk(next, Null) = <<>>
      <4>1. <<>> \in Seq(Node) /\ Len(<<>>) = 0 /\ HeadOf(<<>>) = Null
        BY EmptySeq DEF HeadOf
      <4>2. Distinct(<<>>) /\ Chain(next, <<>>)
        BY <4>1 DEF Distinct, Chain
      <4> QED
        BY <4>1, <4>2, WalkOfChain
    <3> QED
      BY <3>1 DEF List, Init
  <2> QED
    BY <2>2 DEF AsSequences!Init, Kinds
<1>2. LInv /\ [Next]_vars => [AsSequences!Next]_Lists
  BY StepRep
<1>3. [AsSequences!Next]_Lists
        <=> [AsSequences!Next]_([k \in Kinds |-> [t \in Threads |-> List(k, t)]])
  BY DEF Lists
<1> QED
  BY <1>1, <1>2, <1>3, Invariant, PTL DEF Spec, ImplementsSequences, AsSequences!Spec
=============================================================================
