--------------------- MODULE LifetimeSizeClassesProofs ----------------------
(***************************************************************************)
(* The objects of a lifetime-size-class, for any number of them: every     *)
(* traversal meets each object once, and a deallocation frees each object  *)
(* once and reads no link of an object that it has freed.                  *)
(***************************************************************************)
EXTENDS LifetimeSizeClasses, DataInduction, SequenceTheorems

-----------------------------------------------------------------------------
(***************************************************************************)
(* The trees.  build_tree_recursion first: l and r are the children of the *)
(* objects 0 .. m - 1, where 0 is no child, since the root is nobody's.    *)
(***************************************************************************)
Ahead(l, m) == \A i \in 0 .. m - 1 : l[i] \in {0} \cup (i + 1 .. m - 1)
OneToOne(l, m) == \A i, k \in 0 .. m - 1 : l[i] # 0 /\ l[i] = l[k] => i = k

Shape(l, r, m) ==
  /\ Ahead(l, m) /\ OneToOne(l, m)
  /\ Ahead(r, m) /\ OneToOne(r, m)
  /\ \A i, k \in 0 .. m - 1 : l[i] # 0 => l[i] # r[k]
  /\ \A j \in 1 .. m - 1 : \E i \in 0 .. m - 1 : l[i] = j \/ r[i] = j

(* A root in front of two trees, whose objects move up.                    *)
Up(j, distance) == IF j = 0 THEN 0 ELSE j + distance

Joined(l, root, lh, lr, half, rest) ==
  \A i \in 0 .. half + rest :
    l[i] = IF i = 0 THEN root
           ELSE IF i <= half THEN Up(lh[i - 1], 1)
           ELSE Up(lr[i - 1 - half], 1 + half)

(* The children of the joined tree stay within their part.                 *)
LEMMA JoinedRanges ==
  ASSUME NEW half \in Nat, NEW rest \in Nat, NEW l, NEW lh, NEW lr, NEW root,
         Joined(l, root, lh, lr, half, rest), Ahead(lh, half), Ahead(lr, rest)
  PROVE  /\ l[0] = root
         /\ \A i \in 1 .. half : l[i] \in {0} \cup (i + 1 .. half)
         /\ \A i \in half + 1 .. half + rest : l[i] \in {0} \cup (i + 1 .. half + rest)
         /\ \A i \in 1 .. half : i - 1 \in 0 .. half - 1 /\ l[i] = Up(lh[i - 1], 1)
         /\ \A i \in half + 1 .. half + rest :
              i - 1 - half \in 0 .. rest - 1 /\ l[i] = Up(lr[i - 1 - half], 1 + half)
<1>1. l[0] = root
  BY DEF Joined
<1>2. ASSUME NEW i \in 1 .. half
      PROVE  i - 1 \in 0 .. half - 1 /\ l[i] = Up(lh[i - 1], 1)
             /\ l[i] \in {0} \cup (i + 1 .. half)
  <2>1. i - 1 \in 0 .. half - 1 /\ i \in 0 .. half + rest /\ i # 0 /\ i <= half
    OBVIOUS
  <2>2. l[i] = Up(lh[i - 1], 1)
    BY <2>1 DEF Joined
  <2>3. lh[i - 1] \in {0} \cup (i .. half - 1)
    BY <2>1 DEF Ahead
  <2> QED
    BY <2>1, <2>2, <2>3 DEF Up
<1>3. ASSUME NEW i \in half + 1 .. half + rest
      PROVE  i - 1 - half \in 0 .. rest - 1 /\ l[i] = Up(lr[i - 1 - half], 1 + half)
             /\ l[i] \in {0} \cup (i + 1 .. half + rest)
  <2>1. i - 1 - half \in 0 .. rest - 1 /\ i \in 0 .. half + rest /\ i # 0 /\ ~(i <= half)
    OBVIOUS
  <2>2. l[i] = Up(lr[i - 1 - half], 1 + half)
    BY <2>1 DEF Joined
  <2>3. lr[i - 1 - half] \in {0} \cup (i - half .. rest - 1)
    BY <2>1 DEF Ahead
  <2> QED
    BY <2>1, <2>2, <2>3 DEF Up
<1> QED
  BY <1>1, <1>2, <1>3

(* No object of the joined tree is the same child of two parents.          *)
LEMMA JoinedOneToOne ==
  ASSUME NEW half \in Nat, NEW rest \in Nat,
         NEW l, NEW lh, NEW lr, NEW root \in {0, 1, 1 + half},
         Joined(l, root, lh, lr, half, rest),
         Ahead(lh, half), Ahead(lr, rest), OneToOne(lh, half), OneToOne(lr, rest)
  PROVE  OneToOne(l, 1 + half + rest)
<1> DEFINE A == 1 .. half
           B == half + 1 .. half + rest
<1>1. /\ l[0] = root
      /\ \A i \in A : l[i] \in {0} \cup (i + 1 .. half)
      /\ \A i \in B : l[i] \in {0} \cup (i + 1 .. half + rest)
      /\ \A i \in A : i - 1 \in 0 .. half - 1 /\ l[i] = Up(lh[i - 1], 1)
      /\ \A i \in B : i - 1 - half \in 0 .. rest - 1 /\ l[i] = Up(lr[i - 1 - half], 1 + half)
  BY JoinedRanges
<1>2. \A i \in 0 .. half + rest : i = 0 \/ i \in A \/ i \in B
  OBVIOUS
<1>3. ASSUME NEW i \in 0 .. half + rest, NEW k \in 0 .. half + rest, l[i] # 0, l[i] = l[k]
      PROVE  i = k
  <2>1. CASE i = 0 \/ k = 0
    BY <1>1, <1>2, <1>3, <2>1
  <2>2. CASE i \in A /\ k \in A
    <3>1. lh[i - 1] # 0 /\ lh[i - 1] = lh[k - 1]
      <4>1. /\ lh[i - 1] \in {0} \cup (i .. half - 1)
            /\ lh[k - 1] \in {0} \cup (k .. half - 1)
        BY <1>1, <2>2 DEF Ahead
      <4>2. Up(lh[i - 1], 1) # 0 /\ Up(lh[i - 1], 1) = Up(lh[k - 1], 1)
        BY <1>1, <1>3, <2>2
      <4> QED
        BY <4>1, <4>2 DEF Up
    <3>2. i - 1 = k - 1
      BY <1>1, <2>2, <3>1 DEF OneToOne
    <3> QED
      BY <3>2
  <2>3. CASE i \in B /\ k \in B
    <3>1. lr[i - 1 - half] # 0 /\ lr[i - 1 - half] = lr[k - 1 - half]
      <4>1. /\ lr[i - 1 - half] \in {0} \cup (i - half .. rest - 1)
            /\ lr[k - 1 - half] \in {0} \cup (k - half .. rest - 1)
        BY <1>1, <2>3 DEF Ahead
      <4>2. Up(lr[i - 1 - half], 1 + half) # 0
            /\ Up(lr[i - 1 - half], 1 + half) = Up(lr[k - 1 - half], 1 + half)
        BY <1>1, <1>3, <2>3
      <4> QED
        BY <4>1, <4>2 DEF Up
    <3>2. i - 1 - half = k - 1 - half
      BY <1>1, <2>3, <3>1 DEF OneToOne
    <3> QED
      BY <3>2
  <2>4. CASE (i \in A /\ k \in B) \/ (i \in B /\ k \in A)
    BY <1>1, <1>3, <2>4
  <2> QED
    BY <1>2, <2>1, <2>2, <2>3, <2>4
<1>4. 1 + half + rest - 1 = half + rest
  OBVIOUS
<1> QED
  BY <1>3, <1>4 DEF OneToOne

LEMMA ShapesJoin ==
  ASSUME NEW half \in Nat, NEW rest \in Nat,
         NEW l, NEW lh, NEW lr, NEW r, NEW rh, NEW rr,
         Shape(lh, rh, half), Shape(lr, rr, rest),
         Joined(l, IF half = 0 THEN 0 ELSE 1, lh, lr, half, rest),
         Joined(r, IF rest = 0 THEN 0 ELSE 1 + half, rh, rr, half, rest)
  PROVE  Shape(l, r, 1 + half + rest)
<1> DEFINE rootl == IF half = 0 THEN 0 ELSE 1
           rootr == IF rest = 0 THEN 0 ELSE 1 + half
<1>0. /\ 1 + half + rest - 1 = half + rest
      /\ rootl \in {0, 1, 1 + half} /\ Joined(l, rootl, lh, lr, half, rest)
      /\ rootr \in {0, 1, 1 + half} /\ Joined(r, rootr, rh, rr, half, rest)
  OBVIOUS
<1> DEFINE A == 1 .. half
           B == half + 1 .. half + rest
<1>1. /\ l[0] = rootl
      /\ \A i \in A : l[i] \in {0} \cup (i + 1 .. half)
      /\ \A i \in B : l[i] \in {0} \cup (i + 1 .. half + rest)
      /\ \A i \in A : i - 1 \in 0 .. half - 1 /\ l[i] = Up(lh[i - 1], 1)
      /\ \A i \in B : i - 1 - half \in 0 .. rest - 1 /\ l[i] = Up(lr[i - 1 - half], 1 + half)
  BY <1>0, JoinedRanges DEF Shape
<1>2. /\ r[0] = rootr
      /\ \A i \in A : r[i] \in {0} \cup (i + 1 .. half)
      /\ \A i \in B : r[i] \in {0} \cup (i + 1 .. half + rest)
      /\ \A i \in A : i - 1 \in 0 .. half - 1 /\ r[i] = Up(rh[i - 1], 1)
      /\ \A i \in B : i - 1 - half \in 0 .. rest - 1 /\ r[i] = Up(rr[i - 1 - half], 1 + half)
  BY <1>0, JoinedRanges DEF Shape
<1>3. \A i \in 0 .. half + rest : i = 0 \/ i \in A \/ i \in B
  OBVIOUS
<1>4. ASSUME NEW i \in 0 .. half + rest
      PROVE  l[i] \in {0} \cup (i + 1 .. half + rest) /\ r[i] \in {0} \cup (i + 1 .. half + rest)
  <2>1. CASE i = 0
    BY <1>1, <1>2, <2>1
  <2>2. CASE i \in A
    BY <1>1, <1>2, <2>2
  <2>3. CASE i \in B
    BY <1>1, <1>2, <2>3
  <2> QED
    BY <1>3, <2>1, <2>2, <2>3
<1> HIDE DEF rootl, rootr
<1>5. OneToOne(l, 1 + half + rest)
  BY <1>0, JoinedOneToOne DEF Shape
<1>6. OneToOne(r, 1 + half + rest)
  BY <1>0, JoinedOneToOne DEF Shape
<1> USE DEF rootl, rootr
<1>7. ASSUME NEW i \in 0 .. half + rest, NEW k \in 0 .. half + rest, l[i] # 0, l[i] = r[k]
      PROVE  FALSE
  <2>1. CASE i = 0 \/ k = 0
    BY <1>1, <1>2, <1>3, <1>7, <2>1
  <2>2. CASE i \in A /\ k \in A
    <3>1. /\ lh[i - 1] \in {0} \cup (i .. half - 1)
          /\ rh[k - 1] \in {0} \cup (k .. half - 1)
      BY <1>1, <1>2, <2>2 DEF Shape, Ahead
    <3>2. Up(lh[i - 1], 1) # 0 /\ Up(lh[i - 1], 1) = Up(rh[k - 1], 1)
      BY <1>1, <1>2, <1>7, <2>2
    <3>3. lh[i - 1] # 0 /\ lh[i - 1] = rh[k - 1]
      BY <3>1, <3>2 DEF Up
    <3> QED
      BY <1>1, <2>2, <3>3 DEF Shape
  <2>3. CASE i \in B /\ k \in B
    <3>1. /\ lr[i - 1 - half] \in {0} \cup (i - half .. rest - 1)
          /\ rr[k - 1 - half] \in {0} \cup (k - half .. rest - 1)
      BY <1>1, <1>2, <2>3 DEF Shape, Ahead
    <3>2. Up(lr[i - 1 - half], 1 + half) # 0
          /\ Up(lr[i - 1 - half], 1 + half) = Up(rr[k - 1 - half], 1 + half)
      BY <1>1, <1>2, <1>7, <2>3
    <3>3. lr[i - 1 - half] # 0 /\ lr[i - 1 - half] = rr[k - 1 - half]
      BY <3>1, <3>2 DEF Up
    <3> QED
      BY <1>1, <2>3, <3>3 DEF Shape
  <2>4. CASE (i \in A /\ k \in B) \/ (i \in B /\ k \in A)
    BY <1>1, <1>2, <1>7, <2>4
  <2> QED
    BY <1>3, <2>1, <2>2, <2>3, <2>4
<1>8. ASSUME NEW j \in 1 .. half + rest
      PROVE  \E i \in 0 .. half + rest : l[i] = j \/ r[i] = j
  <2>1. CASE j = 1 /\ half # 0
    BY <1>1, <2>1
  <2>2. CASE j = 1 + half /\ rest # 0
    BY <1>2, <2>2
  <2>3. CASE j \in 2 .. half
    <3>1. j - 1 \in 1 .. half - 1
      BY <2>3
    <3>2. PICK i \in 0 .. half - 1 : lh[i] = j - 1 \/ rh[i] = j - 1
      BY <3>1 DEF Shape
    <3>3. i + 1 \in A /\ (i + 1) - 1 = i /\ i + 1 \in 0 .. half + rest
      OBVIOUS
    <3>4. l[i + 1] = Up(lh[i], 1) /\ r[i + 1] = Up(rh[i], 1)
      BY <1>1, <1>2, <3>3
    <3>5. Up(j - 1, 1) = j
      BY <3>1 DEF Up
    <3> QED
      BY <3>2, <3>3, <3>4, <3>5
  <2>4. CASE j \in half + 2 .. half + rest
    <3>1. j - 1 - half \in 1 .. rest - 1
      BY <2>4
    <3>2. PICK i \in 0 .. rest - 1 : lr[i] = j - 1 - half \/ rr[i] = j - 1 - half
      BY <3>1 DEF Shape
    <3> DEFINE k == i + 1 + half
    <3>3. k \in B /\ k - 1 - half = i /\ k \in 0 .. half + rest
      OBVIOUS
    <3>4. l[k] = Up(lr[i], 1 + half) /\ r[k] = Up(rr[i], 1 + half)
      BY <1>1, <1>2, <3>3
    <3>5. Up(j - 1 - half, 1 + half) = j
      BY <3>1 DEF Up
    <3> QED
      BY <3>2, <3>3, <3>4, <3>5
  <2> QED
    BY <2>1, <2>2, <2>3, <2>4
<1> HIDE DEF A, B
<1>9. Ahead(l, 1 + half + rest) /\ Ahead(r, 1 + half + rest)
  BY <1>0, <1>4 DEF Ahead
<1> QED
  BY <1>0, <1>5, <1>6, <1>7, <1>8, <1>9 DEF Shape

(* The number of objects in the tree under each object: at most half of    *)
(* those under its parent.                                                 *)
Halves(l, z, m) == \A i \in 0 .. m - 1 : l[i] # 0 => 2 * z[l[i]] <= z[i]

Sized(l, r, z, m) ==
  /\ z \in [0 .. m - 1 -> Nat \ {0}]
  /\ m # 0 => z[0] = m
  /\ Halves(l, z, m)
  /\ Halves(r, z, m)

LEMMA HalvesJoin ==
  ASSUME NEW half \in Nat, NEW rest \in Nat,
         NEW l, NEW lh, NEW lr, NEW root,
         Joined(l, root, lh, lr, half, rest), Ahead(lh, half), Ahead(lr, rest),
         NEW z, NEW zh, NEW zr, Halves(lh, zh, half), Halves(lr, zr, rest),
         \A i \in 1 .. half : z[i] = zh[i - 1],
         \A i \in half + 1 .. half + rest : z[i] = zr[i - 1 - half],
         root # 0 => 2 * z[root] <= z[0]
  PROVE  Halves(l, z, 1 + half + rest)
<1> DEFINE A == 1 .. half
           B == half + 1 .. half + rest
<1>1. /\ l[0] = root
      /\ \A i \in A : l[i] \in {0} \cup (i + 1 .. half)
      /\ \A i \in B : l[i] \in {0} \cup (i + 1 .. half + rest)
      /\ \A i \in A : i - 1 \in 0 .. half - 1 /\ l[i] = Up(lh[i - 1], 1)
      /\ \A i \in B : i - 1 - half \in 0 .. rest - 1 /\ l[i] = Up(lr[i - 1 - half], 1 + half)
  BY JoinedRanges
<1>2. ASSUME NEW i \in A, l[i] # 0 PROVE 2 * z[l[i]] <= z[i]
  <2>1. lh[i - 1] \in {0} \cup (i .. half - 1) /\ i - 1 \in 0 .. half - 1
    BY <1>1 DEF Ahead
  <2>2. lh[i - 1] # 0 /\ l[i] = lh[i - 1] + 1 /\ l[i] \in A
    BY <1>1, <1>2, <2>1 DEF Up
  <2>3. z[l[i]] = zh[l[i] - 1] /\ z[i] = zh[i - 1] /\ l[i] - 1 = lh[i - 1]
    BY <2>1, <2>2
  <2>4. 2 * zh[lh[i - 1]] <= zh[i - 1]
    BY <2>1, <2>2 DEF Halves
  <2> QED
    BY <2>3, <2>4
<1>3. ASSUME NEW i \in B, l[i] # 0 PROVE 2 * z[l[i]] <= z[i]
  <2> DEFINE j == i - 1 - half
  <2>1. lr[j] \in {0} \cup (j + 1 .. rest - 1) /\ j \in 0 .. rest - 1
    BY <1>1 DEF Ahead
  <2>2. lr[j] # 0 /\ l[i] = lr[j] + 1 + half /\ l[i] \in B
    BY <1>1, <1>3, <2>1 DEF Up
  <2>3. z[l[i]] = zr[l[i] - 1 - half] /\ z[i] = zr[j] /\ l[i] - 1 - half = lr[j]
    BY <2>1, <2>2
  <2>4. 2 * zr[lr[j]] <= zr[j]
    BY <2>1, <2>2 DEF Halves
  <2> QED
    BY <2>3, <2>4
<1>4. \A i \in 0 .. 1 + half + rest - 1 : i = 0 \/ i \in A \/ i \in B
  OBVIOUS
<1>5. l[0] # 0 => 2 * z[l[0]] <= z[0]
  BY <1>1
<1> HIDE DEF A, B
<1> QED
  BY <1>2, <1>3, <1>4, <1>5 DEF Halves

LEMMA SizesJoin ==
  ASSUME NEW half \in Nat, NEW rest \in Nat, half <= rest, rest <= half + 1,
         NEW l, NEW lh, NEW lr, NEW r, NEW rh, NEW rr,
         Shape(lh, rh, half), Shape(lr, rr, rest),
         Joined(l, IF half = 0 THEN 0 ELSE 1, lh, lr, half, rest),
         Joined(r, IF rest = 0 THEN 0 ELSE 1 + half, rh, rr, half, rest),
         NEW zh, NEW zr, Sized(lh, rh, zh, half), Sized(lr, rr, zr, rest)
  PROVE  \E z : Sized(l, r, z, 1 + half + rest)
<1> DEFINE m == 1 + half + rest
           z == [i \in 0 .. m - 1 |-> IF i = 0 THEN m
                                      ELSE IF i <= half THEN zh[i - 1] ELSE zr[i - 1 - half]]
           rootl == IF half = 0 THEN 0 ELSE 1
           rootr == IF rest = 0 THEN 0 ELSE 1 + half
<1>1. z \in [0 .. m - 1 -> Nat \ {0}]
  <2>1. \A i \in 1 .. half : i - 1 \in 0 .. half - 1 /\ zh[i - 1] \in Nat \ {0}
    BY DEF Sized
  <2>2. \A i \in half + 1 .. half + rest :
          i - 1 - half \in 0 .. rest - 1 /\ zr[i - 1 - half] \in Nat \ {0}
    BY DEF Sized
  <2>3. \A i \in 0 .. m - 1 : i = 0 \/ i \in 1 .. half \/ i \in half + 1 .. half + rest
    OBVIOUS
  <2> QED
    BY <2>1, <2>2, <2>3
<1>2. /\ z[0] = m
      /\ \A i \in 1 .. half : z[i] = zh[i - 1]
      /\ \A i \in half + 1 .. half + rest : z[i] = zr[i - 1 - half]
  OBVIOUS
<1> HIDE DEF z
<1>3. rootl # 0 => 2 * z[rootl] <= z[0]
  <2> SUFFICES ASSUME half # 0 PROVE 2 * z[1] <= z[0]
    OBVIOUS
  <2>1. z[1] = zh[0] /\ zh[0] = half
    BY <1>2 DEF Sized
  <2> QED
    BY <1>2, <2>1
<1>4. rootr # 0 => 2 * z[rootr] <= z[0]
  <2> SUFFICES ASSUME rest # 0 PROVE 2 * z[1 + half] <= z[0]
    OBVIOUS
  <2>1. z[1 + half] = zr[0] /\ zr[0] = rest
    <3>1. 1 + half \in half + 1 .. half + rest /\ 1 + half - 1 - half = 0
      OBVIOUS
    <3>2. z[1 + half] = zr[1 + half - 1 - half]
      BY <1>2, <3>1
    <3> QED
      BY <3>1, <3>2 DEF Sized
  <2> QED
    BY <1>2, <2>1
<1>5. Joined(l, rootl, lh, lr, half, rest) /\ Joined(r, rootr, rh, rr, half, rest)
  OBVIOUS
<1>6. /\ Ahead(lh, half) /\ Ahead(lr, rest) /\ Ahead(rh, half) /\ Ahead(rr, rest)
      /\ Halves(lh, zh, half) /\ Halves(lr, zr, rest)
      /\ Halves(rh, zh, half) /\ Halves(rr, zr, rest)
  BY DEF Shape, Sized
<1> HIDE DEF rootl, rootr
<1>7. Halves(l, z, 1 + half + rest)
  BY <1>2, <1>3, <1>5, <1>6, HalvesJoin
<1>8. Halves(r, z, 1 + half + rest)
  BY <1>2, <1>4, <1>5, <1>6, HalvesJoin
<1> QED
  BY <1>1, <1>2, <1>7, <1>8 DEF Sized

(* The recursion of build_tree_recursion is well-founded.                  *)
IsBuilt(tree, n) == tree = [m \in 0 .. n |-> BuildTree(tree, m)]

LEMMA HalfFacts ==
  ASSUME NEW m \in Nat \ {0}
  PROVE  /\ LeftHalf(m) \in 0 .. m - 1 /\ m - 1 - LeftHalf(m) \in 0 .. m - 1
         /\ LeftHalf(m) <= m - 1 - LeftHalf(m)
         /\ m - 1 - LeftHalf(m) <= LeftHalf(m) + 1
BY DEF LeftHalf

LEMMA BuildTreeAgrees ==
  ASSUME NEW m \in Nat, NEW f, NEW g, \A j \in 0 .. m - 1 : f[j] = g[j]
  PROVE  BuildTree(f, m) = BuildTree(g, m)
<1>1. CASE m = 0
  BY <1>1 DEF BuildTree
<1>2. CASE m # 0
  <2>1. f[LeftHalf(m)] = g[LeftHalf(m)] /\ f[m - 1 - LeftHalf(m)] = g[m - 1 - LeftHalf(m)]
    BY <1>2, HalfFacts
  <2> QED
    BY <2>1 DEF BuildTree
<1> QED
  BY <1>1, <1>2

LEMMA TreeIsBuilt ==
  ASSUME NEW n \in Nat
  PROVE  \E tree : IsBuilt(tree, n) /\ Tree(n) = tree[n]
<1> DEFINE N == {k \in Nat : \E tree : IsBuilt(tree, k)}
<1>1. 0 \in N
  <2> DEFINE t == [m \in 0 .. 0 |-> BuildTree(<<>>, m)]
  <2>1. \A m \in 0 .. 0 : BuildTree(t, m) = BuildTree(<<>>, m)
    BY BuildTreeAgrees
  <2>2. IsBuilt(t, 0)
    BY <2>1 DEF IsBuilt
  <2> QED
    BY <2>2
<1>2. ASSUME NEW k \in N PROVE k + 1 \in N
  <2>1. PICK t : IsBuilt(t, k)
    OBVIOUS
  <2> DEFINE u == [m \in 0 .. k + 1 |-> IF m <= k THEN t[m] ELSE BuildTree(t, k + 1)]
  <2>2. \A m \in 0 .. k : u[m] = t[m] /\ t[m] = BuildTree(t, m)
    BY <2>1 DEF IsBuilt
  <2>3. u[k + 1] = BuildTree(t, k + 1)
    OBVIOUS
  <2>4. u = [m \in 0 .. k + 1 |-> u[m]]
    OBVIOUS
  <2> HIDE DEF u
  <2>5. ASSUME NEW m \in 0 .. k + 1 PROVE u[m] = BuildTree(u, m)
    <3>1. \A j \in 0 .. m - 1 : t[j] = u[j]
      BY <2>2
    <3>2. BuildTree(t, m) = BuildTree(u, m)
      BY <3>1, BuildTreeAgrees
    <3> QED
      BY <2>2, <2>3, <3>2
  <2>6. IsBuilt(u, k + 1)
    BY <2>4, <2>5 DEF IsBuilt
  <2> QED
    BY <2>6
<1>3. N = Nat
  <2>1. N \in SUBSET Nat
    OBVIOUS
  <2> HIDE DEF N
  <2> QED
    BY <1>1, <1>2, <2>1, NumberInduction
<1> DEFINE tree == CHOOSE tree : tree = [m \in 0 .. n |-> BuildTree(tree, m)]
<1>4. IsBuilt(tree, n)
  <2>1. \E t : t = [m \in 0 .. n |-> BuildTree(t, m)]
    BY <1>3 DEF IsBuilt
  <2>2. tree = [m \in 0 .. n |-> BuildTree(tree, m)]
    BY <2>1
  <2> QED
    BY <2>2 DEF IsBuilt
<1>5. Tree(n) = tree[n]
  BY DEF Tree
<1> QED
  BY <1>4, <1>5

(* From the distances of a built tree to the children.                     *)
Kid(i, distance) == IF distance = 0 THEN 0 ELSE i + distance
LeftKids(g, m) == [i \in 0 .. m - 1 |-> Kid(i, g[i].left)]
RightKids(g, m) == [i \in 0 .. m - 1 |-> Kid(i, g[i].right)]
Distances(g, m) == \A i \in 0 .. m - 1 : g[i].left \in Nat /\ g[i].right \in Nat

LEMMA BuildTreeJoins ==
  ASSUME NEW m \in Nat \ {0}, NEW f, NEW half \in Nat, half = LeftHalf(m),
         NEW rest \in Nat, half + rest = m - 1, Distances(f[half], half), Distances(f[rest], rest)
  PROVE  /\ Distances(BuildTree(f, m), m)
         /\ Joined(LeftKids(BuildTree(f, m), m), IF half = 0 THEN 0 ELSE 1,
                   LeftKids(f[half], half), LeftKids(f[rest], rest), half, rest)
         /\ Joined(RightKids(BuildTree(f, m), m), IF rest = 0 THEN 0 ELSE 1 + half,
                   RightKids(f[half], half), RightKids(f[rest], rest), half, rest)
<1> DEFINE g == BuildTree(f, m)
           h == f[half]
           r == f[rest]
<1>0. /\ half \in Nat /\ rest \in Nat /\ half + rest = m - 1
      /\ (IF half = 0 THEN 0 ELSE 1) \in Nat /\ (IF rest = 0 THEN 0 ELSE 1 + half) \in Nat
  OBVIOUS
<1>1. g = [i \in 0 .. m - 1 |->
             IF i = 0 THEN [left  |-> IF half = 0 THEN 0 ELSE 1,
                            right |-> IF rest = 0 THEN 0 ELSE 1 + half]
             ELSE IF i <= half THEN h[i - 1] ELSE r[i - 1 - half]]
  <2>1. rest = m - 1 - LeftHalf(m)
    OBVIOUS
  <2> QED
    BY <2>1 DEF BuildTree
<1>2. /\ g[0].left = IF half = 0 THEN 0 ELSE 1
      /\ g[0].right = IF rest = 0 THEN 0 ELSE 1 + half
  BY <1>1
<1> HIDE DEF g, h, r
<1>3. ASSUME NEW i \in 1 .. half PROVE g[i] = h[i - 1] /\ i - 1 \in 0 .. half - 1
  <2>1. i \in 0 .. m - 1 /\ i # 0 /\ i <= half /\ i - 1 \in 0 .. half - 1
    BY <1>0
  <2> QED
    BY <1>1, <2>1
<1>4. ASSUME NEW i \in half + 1 .. half + rest
      PROVE  g[i] = r[i - 1 - half] /\ i - 1 - half \in 0 .. rest - 1
  <2>1. i \in 0 .. m - 1 /\ i # 0 /\ ~(i <= half) /\ i - 1 - half \in 0 .. rest - 1
    BY <1>0
  <2> QED
    BY <1>1, <2>1
<1>5. \A i \in 0 .. m - 1 : i = 0 \/ i \in 1 .. half \/ i \in half + 1 .. half + rest
  BY <1>0
<1>6. /\ \A i \in 0 .. half - 1 : h[i].left \in Nat /\ h[i].right \in Nat
      /\ \A i \in 0 .. rest - 1 : r[i].left \in Nat /\ r[i].right \in Nat
  BY DEF Distances, h, r
<1>7. Distances(g, m)
  <2> SUFFICES ASSUME NEW i \in 0 .. m - 1 PROVE g[i].left \in Nat /\ g[i].right \in Nat
    BY DEF Distances
  <2>1. CASE i = 0
    BY <1>0, <1>2, <2>1
  <2>2. CASE i \in 1 .. half
    BY <1>3, <1>6, <2>2
  <2>3. CASE i \in half + 1 .. half + rest
    BY <1>4, <1>6, <2>3
  <2> QED
    BY <1>5, <2>1, <2>2, <2>3
<1>8. Joined(LeftKids(g, m), IF half = 0 THEN 0 ELSE 1, LeftKids(h, half), LeftKids(r, rest),
             half, rest)
  <2> SUFFICES ASSUME NEW i \in 0 .. half + rest
               PROVE  LeftKids(g, m)[i] =
                        IF i = 0 THEN (IF half = 0 THEN 0 ELSE 1)
                        ELSE IF i <= half THEN Up(LeftKids(h, half)[i - 1], 1)
                        ELSE Up(LeftKids(r, rest)[i - 1 - half], 1 + half)
    BY DEF Joined
  <2>0. LeftKids(g, m)[i] = Kid(i, g[i].left) /\ i \in 0 .. m - 1
    BY <1>0 DEF LeftKids
  <2>1. CASE i = 0
    <3>1. Kid(0, g[0].left) = g[0].left
      BY <1>0, <1>2 DEF Kid
    <3> QED
      BY <1>2, <2>0, <2>1, <3>1
  <2>2. CASE i \in 1 .. half
    <3>1. LeftKids(h, half)[i - 1] = Kid(i - 1, h[i - 1].left) /\ h[i - 1].left \in Nat
      BY <1>3, <1>6, <2>2 DEF LeftKids
    <3>2. g[i].left = h[i - 1].left
      BY <1>3, <2>2
    <3>3. Kid(i, h[i - 1].left) = Up(Kid(i - 1, h[i - 1].left), 1)
      BY <1>0, <2>2, <3>1 DEF Kid, Up
    <3> QED
      BY <1>0, <2>0, <2>2, <3>1, <3>2, <3>3
  <2>3. CASE i \in half + 1 .. half + rest
    <3> DEFINE j == i - 1 - half
    <3>1. LeftKids(r, rest)[j] = Kid(j, r[j].left) /\ r[j].left \in Nat
      BY <1>4, <1>6, <2>3 DEF LeftKids
    <3>2. g[i].left = r[j].left
      BY <1>4, <2>3
    <3>3. Kid(i, r[j].left) = Up(Kid(j, r[j].left), 1 + half)
      BY <1>0, <2>3, <3>1 DEF Kid, Up
    <3> QED
      BY <1>0, <2>0, <2>3, <3>1, <3>2, <3>3
  <2> QED
    BY <1>5, <2>0, <2>1, <2>2, <2>3
<1>9. Joined(RightKids(g, m), IF rest = 0 THEN 0 ELSE 1 + half, RightKids(h, half),
             RightKids(r, rest), half, rest)
  <2> SUFFICES ASSUME NEW i \in 0 .. half + rest
               PROVE  RightKids(g, m)[i] =
                        IF i = 0 THEN (IF rest = 0 THEN 0 ELSE 1 + half)
                        ELSE IF i <= half THEN Up(RightKids(h, half)[i - 1], 1)
                        ELSE Up(RightKids(r, rest)[i - 1 - half], 1 + half)
    BY DEF Joined
  <2>0. RightKids(g, m)[i] = Kid(i, g[i].right) /\ i \in 0 .. m - 1
    BY <1>0 DEF RightKids
  <2>1. CASE i = 0
    <3>1. Kid(0, g[0].right) = g[0].right
      BY <1>0, <1>2 DEF Kid
    <3> QED
      BY <1>2, <2>0, <2>1, <3>1
  <2>2. CASE i \in 1 .. half
    <3>1. RightKids(h, half)[i - 1] = Kid(i - 1, h[i - 1].right) /\ h[i - 1].right \in Nat
      BY <1>3, <1>6, <2>2 DEF RightKids
    <3>2. g[i].right = h[i - 1].right
      BY <1>3, <2>2
    <3>3. Kid(i, h[i - 1].right) = Up(Kid(i - 1, h[i - 1].right), 1)
      BY <1>0, <2>2, <3>1 DEF Kid, Up
    <3> QED
      BY <1>0, <2>0, <2>2, <3>1, <3>2, <3>3
  <2>3. CASE i \in half + 1 .. half + rest
    <3> DEFINE j == i - 1 - half
    <3>1. RightKids(r, rest)[j] = Kid(j, r[j].right) /\ r[j].right \in Nat
      BY <1>4, <1>6, <2>3 DEF RightKids
    <3>2. g[i].right = r[j].right
      BY <1>4, <2>3
    <3>3. Kid(i, r[j].right) = Up(Kid(j, r[j].right), 1 + half)
      BY <1>0, <2>3, <3>1 DEF Kid, Up
    <3> QED
      BY <1>0, <2>0, <2>3, <3>1, <3>2, <3>3
  <2> QED
    BY <1>5, <2>0, <2>1, <2>2, <2>3
<1> QED
  BY <1>7, <1>8, <1>9 DEF g, h, r

(* build_tree_recursion builds a tree, and halves the number of objects    *)
(* from each level to the next.                                            *)
Built(g, m) ==
  /\ Distances(g, m)
  /\ Shape(LeftKids(g, m), RightKids(g, m), m)
  /\ \E z : Sized(LeftKids(g, m), RightKids(g, m), z, m)

LEMMA TreeBuilt ==
  ASSUME NEW n \in Nat
  PROVE  Built(Tree(n), n)
<1>1. PICK f : IsBuilt(f, n) /\ Tree(n) = f[n]
  BY TreeIsBuilt
<1> DEFINE N == {k \in Nat : \A m \in 0 .. k : m <= n => Built(f[m], m)}
<1>2. ASSUME NEW m \in Nat, m <= n, \A j \in 0 .. m - 1 : Built(f[j], j)
      PROVE  Built(f[m], m)
  <2>1. f[m] = BuildTree(f, m)
    BY <1>1, <1>2 DEF IsBuilt
  <2>2. CASE m = 0
    <3>1. 0 .. m - 1 = {} /\ 1 .. m - 1 = {}
      BY <2>2
    <3>2. [i \in {} |-> 1] \in [0 .. m - 1 -> Nat \ {0}]
      BY <3>1
    <3>3. \A l, r : Sized(l, r, [i \in {} |-> 1], m)
      BY <2>2, <3>1, <3>2 DEF Sized, Halves
    <3>4. \A l, r : Shape(l, r, m)
      BY <3>1 DEF Shape, Ahead, OneToOne
    <3> QED
      BY <3>1, <3>3, <3>4 DEF Built, Distances
  <2>3. CASE m # 0
    <3> DEFINE half == LeftHalf(m)
               rest == m - 1 - half
               g == BuildTree(f, m)
    <3>1. /\ half \in 0 .. m - 1 /\ rest \in 0 .. m - 1 /\ half <= rest /\ rest <= half + 1
          /\ 1 + half + rest = m /\ half + rest = m - 1 /\ half \in Nat /\ rest \in Nat
      BY <2>3, HalfFacts
    <3>2. Built(f[half], half) /\ Built(f[rest], rest)
      BY <1>2, <3>1
    <3>3. /\ Distances(g, m)
          /\ Joined(LeftKids(g, m), IF half = 0 THEN 0 ELSE 1,
                    LeftKids(f[half], half), LeftKids(f[rest], rest), half, rest)
          /\ Joined(RightKids(g, m), IF rest = 0 THEN 0 ELSE 1 + half,
                    RightKids(f[half], half), RightKids(f[rest], rest), half, rest)
      BY <2>3, <3>1, <3>2, BuildTreeJoins DEF Built
    <3> HIDE DEF half, rest, g
    <3>4. Shape(LeftKids(g, m), RightKids(g, m), 1 + half + rest)
      BY <3>1, <3>2, <3>3, ShapesJoin DEF Built
    <3>5. \E z : Sized(LeftKids(g, m), RightKids(g, m), z, 1 + half + rest)
      BY <3>1, <3>2, <3>3, SizesJoin DEF Built
    <3>6. Built(g, m)
      BY <3>1, <3>3, <3>4, <3>5 DEF Built
    <3> QED
      BY <2>1, <3>6 DEF g
  <2> QED
    BY <2>2, <2>3
<1>3. 0 \in N
  <2>1. Built(f[0], 0)
    BY <1>2
  <2> QED
    BY <2>1
<1>4. ASSUME NEW k \in N PROVE k + 1 \in N
  <2> SUFFICES ASSUME NEW m \in 0 .. k + 1, m <= n PROVE Built(f[m], m)
    OBVIOUS
  <2>1. \A j \in 0 .. m - 1 : Built(f[j], j)
    OBVIOUS
  <2> QED
    BY <1>2, <2>1
<1>5. N = Nat
  <2>1. N \in SUBSET Nat
    OBVIOUS
  <2> HIDE DEF N
  <2> QED
    BY <1>3, <1>4, <2>1, NumberInduction
<1> QED
  BY <1>1, <1>5

-----------------------------------------------------------------------------
(***************************************************************************)
(* The links of a class, and the inductive invariant.                      *)
(***************************************************************************)
FirstLink(t, n) ==
  IF IsList(t) THEN ListNext(n) ELSE IF t = "BTREE" THEN TreeLeft(n) ELSE ArrayLeft(n)
SecondLink(t, n) == IF t = "BTREE" THEN TreeRight(n) ELSE ArrayRight(n)

Left(i) == FirstLink(type, num)[i]
Right(i) == SecondLink(type, num)[i]

Object == 0 .. num - 1

(* The links of the objects in U are still those of the allocation.        *)
Intact(U) ==
  /\ \A a \in U : left[a] = Left(a)
  /\ ~IsList(type) => \A a \in U : right[a] = Right(a)

Whole ==
  /\ blocks = IF IsCompact(type) THEN [a \in {0} |-> num] ELSE [a \in Object |-> 1]
  /\ Intact(Object)

(* A traversal of a list has met the objects up to the one it is at.       *)
ListTraversal ==
  /\ visited \in Seq(Object)
  /\ Len(visited) <= num
  /\ \A i \in 1 .. Len(visited) : visited[i] = i - 1
  /\ \/ stack = <<Call(IF Len(visited) = num THEN Null ELSE Len(visited), "visit")>>
     \/ stack = << >> /\ Len(visited) = num
  /\ written = {i \in 0 .. Len(visited) - 1 : WriteIthElement(i)}

(* Is a call for node j in progress, on the stack s?                       *)
In(s, j) == \E i \in 1 .. Len(s) : s[i].node = j

(* In a tree, the objects that were met and those that wait on the stack   *)
(* are different; and they are the root and the children of those met.     *)
Met(j) == \E i \in 1 .. Len(visited) : visited[i] = j
Pending(j) == In(stack, j)

TreeTraversal ==
  /\ visited \in Seq(Object)
  /\ stack \in Seq([node : Object \cup {Null}, stage : {"visit"}])
  /\ \A i, k \in 1 .. Len(visited) : visited[i] = visited[k] => i = k
  /\ \A i, k \in 1 .. Len(stack) :
       stack[i].node # Null /\ stack[i].node = stack[k].node => i = k
  /\ \A j \in Object : ~ (Met(j) /\ Pending(j))
  /\ Met(0) \/ Pending(0)
  /\ \A i \in Object : Left(i) # Null => (Met(i) <=> Met(Left(i)) \/ Pending(Left(i)))
  /\ \A i \in Object : Right(i) # Null => (Met(i) <=> Met(Right(i)) \/ Pending(Right(i)))

(* A list loses its objects from the front.                                *)
ListDeallocation ==
  \E k \in 0 .. num :
    /\ blocks = [a \in k .. num - 1 |-> 1]
    /\ Intact(k .. num - 1)
    /\ \/ stack = <<Call(IF k = num THEN Null ELSE k, "next")>>
       \/ stack = << >> /\ k = num

(* A tree loses its objects U from the leaves up.  The stack is a path     *)
(* that ends with the root, each call made by the one behind it for its    *)
(* left or its right child.  A node's address is at least its depth.       *)
Path(s, l, r, n) ==
  /\ s \in Seq([node : (0 .. n - 1) \cup {Null}, stage : {"left", "right", "free"}])
  /\ \A p \in 1 .. Len(s) : p > 1 \/ s[p].stage # "left" => s[p].node # Null
  /\ \A p \in 2 .. Len(s) : s[p].stage # "left"
  /\ s # << >> => s[Len(s)].node = 0
  /\ \A p \in 2 .. Len(s) :
       s[p - 1].node = IF s[p].stage = "right" THEN l[s[p].node] ELSE r[s[p].node]
  /\ \A p, q \in 1 .. Len(s) : p < q /\ s[p].node # Null => s[p].node > s[q].node
  /\ \A p \in 1 .. Len(s) : s[p].node # Null => s[p].node >= Len(s) - p

(* Who is freed: all below what is freed; nothing below what no call is    *)
(* about; of a call in progress the subtrees whose calls have returned.    *)
Unfreed(U, s, l, r, n) ==
  /\ 0 \in U <=> s # << >>
  /\ \A i \in (0 .. n - 1) \ U : l[i] \notin U /\ r[i] \notin U
  /\ \A i \in U : ~In(s, i) => l[i] \in U \cup {Null} /\ r[i] \in U \cup {Null}
  /\ \A p \in 1 .. Len(s) : s[p].node # Null /\ l[s[p].node] # Null =>
       (l[s[p].node] \notin U <=> s[p].stage = "free" \/ (s[p].stage = "right" /\ p = 1))
  /\ \A p \in 1 .. Len(s) : s[p].node # Null /\ r[s[p].node] # Null =>
       (r[s[p].node] \notin U <=> s[p].stage = "free" /\ p = 1)

(* In a balanced tree: z are the numbers of objects under the nodes.       *)
Sizes(z, l, r, n) ==
  /\ z \in [0 .. n - 1 -> Nat \ {0}]
  /\ z[0] = n
  /\ \A i \in 0 .. n - 1 : l[i] # Null => 2 * z[l[i]] <= z[i]
  /\ \A i \in 0 .. n - 1 : r[i] # Null => 2 * z[r[i]] <= z[i]

(* The deeper the recursion, the fewer objects are under its node.         *)
Shallow(s, z, n) ==
  \A p \in 1 .. Len(s) : s[p].node # Null => 2 ^ (Len(s) - p) * z[s[p].node] <= n

TreeDeallocation ==
  \E U \in SUBSET Object :
    /\ blocks = [a \in U |-> 1]
    /\ Intact(U)
    /\ Path(stack, FirstLink(type, num), SecondLink(type, num), num)
    /\ Unfreed(U, stack, FirstLink(type, num), SecondLink(type, num), num)
    /\ type = "BTREE" =>
         \E z : Sizes(z, FirstLink(type, num), SecondLink(type, num), num)
                 /\ Shallow(stack, z, num)

TypeOK ==
  /\ pc \in {"new", "live", "traverse", "deallocate", "recycled"}
  /\ type \in Types
  /\ num \in 1 .. MaxObjects

IInv ==
  /\ TypeOK
  /\ pc \in {"new", "live", "recycled"} => stack = << >>
  /\ pc \in {"live", "traverse"} => Whole
  /\ pc = "traverse" => IF IsList(type) THEN ListTraversal ELSE TreeTraversal
  /\ pc = "deallocate" => ~IsCompact(type)
  /\ pc = "deallocate" => IF IsList(type) THEN ListDeallocation ELSE TreeDeallocation
  /\ pc = "recycled" => blocks = << >>

-----------------------------------------------------------------------------
(* Both trees are trees: children are allocated after their parents, every *)
(* object but the root is a child of one parent, on one side.              *)
OrderedTree(l, r, n) ==
  /\ \A i \in 0 .. n - 1 : l[i] = Null \/ (l[i] \in i + 1 .. n - 1 /\ l[i] # Null)
  /\ \A i \in 0 .. n - 1 : r[i] = Null \/ (r[i] \in i + 1 .. n - 1 /\ r[i] # Null)
  /\ \A i, k \in 0 .. n - 1 : l[i] # Null /\ l[i] = l[k] => i = k
  /\ \A i, k \in 0 .. n - 1 : r[i] # Null /\ r[i] = r[k] => i = k
  /\ \A i, k \in 0 .. n - 1 : l[i] # Null => l[i] # r[k]
  /\ \A j \in 1 .. n - 1 : \E i \in 0 .. n - 1 : l[i] = j \/ r[i] = j

(* Null in place of 0.                                                     *)
WithNull(l, lk, n) == \A i \in 0 .. n - 1 : l[i] = IF lk[i] = 0 THEN Null ELSE lk[i]

LEMMA NullIsNoObject == ASSUME NEW n \in 1 .. MaxObjects PROVE Null \notin 0 .. n - 1
  BY NullAssumption, BoundAssumption DEF NullAssumption, BoundAssumption, Address

LEMMA ShapeIsTree ==
  ASSUME NEW n \in 1 .. MaxObjects, NEW l, NEW r, NEW lk, NEW rk,
         Shape(lk, rk, n), WithNull(l, lk, n), WithNull(r, rk, n)
  PROVE  OrderedTree(l, r, n)
<1>0. n \in Nat
  BY BoundAssumption DEF BoundAssumption
<1>1. Null \notin 0 .. n - 1
  BY NullIsNoObject
<1>2. /\ \A i \in 0 .. n - 1 : lk[i] \in 0 .. n - 1 /\ (lk[i] # 0 => lk[i] \in i + 1 .. n - 1)
      /\ \A i \in 0 .. n - 1 : rk[i] \in 0 .. n - 1 /\ (rk[i] # 0 => rk[i] \in i + 1 .. n - 1)
  BY <1>0 DEF Shape, Ahead
<1>3. /\ \A i \in 0 .. n - 1 : l[i] = Null <=> lk[i] = 0
      /\ \A i \in 0 .. n - 1 : r[i] = Null <=> rk[i] = 0
  BY <1>1, <1>2 DEF WithNull
<1>4. /\ \A i \in 0 .. n - 1 : l[i] # Null => l[i] = lk[i] /\ lk[i] # 0
      /\ \A i \in 0 .. n - 1 : r[i] # Null => r[i] = rk[i] /\ rk[i] # 0
  BY <1>3 DEF WithNull
<1>5. /\ \A i, k \in 0 .. n - 1 : l[i] # Null /\ l[i] = l[k] => i = k
      /\ \A i, k \in 0 .. n - 1 : r[i] # Null /\ r[i] = r[k] => i = k
  BY <1>4 DEF Shape, OneToOne
<1>6. ASSUME NEW i \in 0 .. n - 1, NEW k \in 0 .. n - 1, l[i] # Null PROVE l[i] # r[k]
  BY <1>4, <1>6 DEF Shape
<1>7. ASSUME NEW j \in 1 .. n - 1 PROVE \E i \in 0 .. n - 1 : l[i] = j \/ r[i] = j
  <2>1. PICK i \in 0 .. n - 1 : lk[i] = j \/ rk[i] = j
    BY DEF Shape
  <2>2. j # 0
    BY <1>0
  <2> QED
    BY <2>1, <2>2 DEF WithNull
<1> QED
  BY <1>2, <1>4, <1>5, <1>6, <1>7 DEF OrderedTree

LEMMA BuiltLinks ==
  ASSUME NEW n \in 1 .. MaxObjects
  PROVE  /\ WithNull(TreeLeft(n), LeftKids(Tree(n), n), n)
         /\ WithNull(TreeRight(n), RightKids(Tree(n), n), n)
<1>0. n \in Nat
  BY BoundAssumption DEF BoundAssumption
<1>1. Distances(Tree(n), n)
  BY <1>0, TreeBuilt DEF Built
<1>2. ASSUME NEW i \in 0 .. n - 1
      PROVE  /\ TreeLeft(n)[i] = IF LeftKids(Tree(n), n)[i] = 0 THEN Null
                                 ELSE LeftKids(Tree(n), n)[i]
             /\ TreeRight(n)[i] = IF RightKids(Tree(n), n)[i] = 0 THEN Null
                                  ELSE RightKids(Tree(n), n)[i]
  <2> DEFINE a == Tree(n)[i].left
             b == Tree(n)[i].right
  <2>1. a \in Nat /\ b \in Nat
    BY <1>1 DEF Distances
  <2>2. /\ TreeLeft(n)[i] = Behind(i, a) /\ TreeRight(n)[i] = Behind(i, b)
        /\ LeftKids(Tree(n), n)[i] = Kid(i, a) /\ RightKids(Tree(n), n)[i] = Kid(i, b)
    BY DEF TreeLeft, TreeRight, LeftKids, RightKids
  <2> HIDE DEF a, b
  <2>3. /\ Behind(i, a) = IF Kid(i, a) = 0 THEN Null ELSE Kid(i, a)
        /\ Behind(i, b) = IF Kid(i, b) = 0 THEN Null ELSE Kid(i, b)
    BY <1>0, <2>1 DEF Behind, Kid
  <2> QED
    BY <2>2, <2>3
<1> QED
  BY <1>2 DEF WithNull

LEMMA ArrayShape ==
  ASSUME NEW n \in 1 .. MaxObjects
  PROVE  OrderedTree(ArrayLeft(n), ArrayRight(n), n)
<1> DEFINE lk == [i \in 0 .. n - 1 |-> IF 2 * i + 1 > n - 1 THEN 0 ELSE 2 * i + 1]
           rk == [i \in 0 .. n - 1 |-> IF 2 * i + 2 > n - 1 THEN 0 ELSE 2 * i + 2]
<1>0. n \in Nat
  BY BoundAssumption DEF BoundAssumption
<1>1. WithNull(ArrayLeft(n), lk, n) /\ WithNull(ArrayRight(n), rk, n)
  BY <1>0 DEF WithNull, ArrayLeft, ArrayRight, ChildIndex
<1>2. /\ \A i \in 0 .. n - 1 : lk[i] = IF 2 * i + 1 > n - 1 THEN 0 ELSE 2 * i + 1
      /\ \A i \in 0 .. n - 1 : rk[i] = IF 2 * i + 2 > n - 1 THEN 0 ELSE 2 * i + 2
  OBVIOUS
<1> HIDE DEF lk, rk
<1>3. Ahead(lk, n) /\ Ahead(rk, n)
  BY <1>0, <1>2 DEF Ahead
<1>4. OneToOne(lk, n) /\ OneToOne(rk, n)
  BY <1>0, <1>2 DEF OneToOne
<1>5. \A i, k \in 0 .. n - 1 : lk[i] # 0 => lk[i] # rk[k]
  BY <1>0, <1>2
<1>6. ASSUME NEW j \in 1 .. n - 1 PROVE \E i \in 0 .. n - 1 : lk[i] = j \/ rk[i] = j
  <2>1. PICK i \in 0 .. n - 1 : j = 2 * i + 1 \/ j = 2 * i + 2
    <3>1. (j - 1) \div 2 \in 0 .. n - 1
          /\ (j = 2 * ((j - 1) \div 2) + 1 \/ j = 2 * ((j - 1) \div 2) + 2)
      BY <1>0
    <3> QED
      BY <3>1
  <2>2. CASE j = 2 * i + 1
    <3>1. ~(2 * i + 1 > n - 1)
      BY <1>0, <2>2
    <3>2. lk[i] = j
      BY <1>2, <2>2, <3>1
    <3> QED
      BY <3>2
  <2>3. CASE j = 2 * i + 2
    <3>1. ~(2 * i + 2 > n - 1)
      BY <1>0, <2>3
    <3>2. rk[i] = j
      BY <1>2, <2>3, <3>1
    <3> QED
      BY <3>2
  <2> QED
    BY <2>1, <2>2, <2>3
<1> QED
  BY <1>1, <1>3, <1>4, <1>5, <1>6, ShapeIsTree DEF Shape

LEMMA LinksAreTree ==
  ASSUME NEW n \in 1 .. MaxObjects, NEW t \in Types, ~IsList(t)
  PROVE  OrderedTree(FirstLink(t, n), SecondLink(t, n), n)
<1>0. n \in Nat
  BY BoundAssumption DEF BoundAssumption
<1>1. OrderedTree(TreeLeft(n), TreeRight(n), n)
  BY <1>0, TreeBuilt, BuiltLinks, ShapeIsTree DEF Built
<1> QED
  BY <1>1, ArrayShape DEF FirstLink, SecondLink, Types, IsList

(* build_tree_recursion halves the sizes from each level to the next.      *)
LEMMA SizesExist ==
  ASSUME NEW n \in 1 .. MaxObjects
  PROVE  \E z : Sizes(z, TreeLeft(n), TreeRight(n), n)
<1>0. n \in Nat \ {0}
  BY BoundAssumption DEF BoundAssumption
<1>1. PICK z : Sized(LeftKids(Tree(n), n), RightKids(Tree(n), n), z, n)
  BY <1>0, TreeBuilt DEF Built
<1>2. /\ z \in [0 .. n - 1 -> Nat \ {0}]
      /\ z[0] = n
  BY <1>0, <1>1 DEF Sized
<1>3. \A i \in 0 .. n - 1 : TreeLeft(n)[i] # Null => 2 * z[TreeLeft(n)[i]] <= z[i]
  BY <1>1, BuiltLinks DEF Sized, Halves, WithNull
<1>4. \A i \in 0 .. n - 1 : TreeRight(n)[i] # Null => 2 * z[TreeRight(n)[i]] <= z[i]
  BY <1>1, BuiltLinks DEF Sized, Halves, WithNull
<1> QED
  BY <1>2, <1>3, <1>4 DEF Sizes

-----------------------------------------------------------------------------
(* What a state of the invariant knows about the class.                    *)
LEMMA NumType ==
  ASSUME TypeOK
  PROVE  num \in Nat \ {0} /\ 0 \in Object /\ Object \subseteq Address /\ Null \notin Object
         /\ Object \subseteq Nat
<1>1. num \in 1 .. MaxObjects /\ MaxObjects \in Nat
  BY BoundAssumption DEF BoundAssumption, TypeOK
<1>2. num \in Nat \ {0} /\ 0 \in Object /\ Object \subseteq Address
  BY <1>1 DEF Object, Address
<1> QED
  BY <1>2, NullAssumption DEF NullAssumption, Object

(* The links of a tree, in the terms of the invariant.                     *)
LEMMA ChildFacts ==
  ASSUME TypeOK, ~IsList(type)
  PROVE  /\ \A i \in Object : Left(i) = Null \/ (Left(i) \in Object /\ i < Left(i) /\ Left(i) # Null)
         /\ \A i \in Object : Right(i) = Null \/ (Right(i) \in Object /\ i < Right(i) /\ Right(i) # Null)
         /\ \A i, k \in Object : Left(i) # Null /\ Left(i) = Left(k) => i = k
         /\ \A i, k \in Object : Right(i) # Null /\ Right(i) = Right(k) => i = k
         /\ \A i, k \in Object : Left(i) # Null => Left(i) # Right(k)
         /\ \A j \in Object : j # 0 => \E i \in Object : i < j /\ (Left(i) = j \/ Right(i) = j)
<1> DEFINE l == FirstLink(type, num)
           r == SecondLink(type, num)
<1>1. OrderedTree(l, r, num)
  BY LinksAreTree DEF TypeOK
<1>2. num \in Nat
  BY NumType
<1> HIDE DEF l, r
<1>3. /\ \A i \in 0 .. num - 1 :
           l[i] = Null \/ (l[i] \in 0 .. num - 1 /\ i < l[i] /\ l[i] # Null)
      /\ \A i \in 0 .. num - 1 :
           r[i] = Null \/ (r[i] \in 0 .. num - 1 /\ i < r[i] /\ r[i] # Null)
  BY <1>1, <1>2 DEF OrderedTree
<1>4. /\ \A i, k \in 0 .. num - 1 : l[i] # Null /\ l[i] = l[k] => i = k
      /\ \A i, k \in 0 .. num - 1 : r[i] # Null /\ r[i] = r[k] => i = k
      /\ \A i, k \in 0 .. num - 1 : l[i] # Null => l[i] # r[k]
  BY <1>1 DEF OrderedTree
<1>5. ASSUME NEW j \in 0 .. num - 1, j # 0
      PROVE  \E i \in 0 .. num - 1 : i < j /\ (l[i] = j \/ r[i] = j)
  <2>1. j \in 1 .. num - 1
    BY <1>2, <1>5
  <2>2. PICK i \in 0 .. num - 1 : l[i] = j \/ r[i] = j
    BY <1>1, <2>1 DEF OrderedTree
  <2>3. j # Null
    BY NumType DEF Object
  <2> QED
    BY <1>3, <2>2, <2>3
<1> QED
  BY <1>3, <1>4, <1>5 DEF l, r, Left, Right, Object

(* Where the allocated memory is.                                          *)
LEMMA AllocatedAddresses ==
  \A x : x \in Allocated <=> \E b \in DOMAIN blocks : x \in b .. b + blocks[b] - 1
BY DEF Allocated

LEMMA AllocatedObjects ==
  ASSUME NEW U, blocks = [a \in U |-> 1], U \subseteq Int
  PROVE  Allocated = U
<1>1. DOMAIN blocks = U /\ \A b \in U : blocks[b] = 1
  OBVIOUS
<1>2. ASSUME NEW b \in U PROVE b .. b + blocks[b] - 1 = {b}
  <2>1. b \in Int /\ b + blocks[b] - 1 = b
    BY <1>1
  <2> QED
    BY <2>1
<1>3. \A x : x \in Allocated <=> \E b \in U : x \in {b}
  BY <1>1, <1>2, AllocatedAddresses
<1> QED
  BY <1>3

LEMMA AllocatedBlock ==
  ASSUME blocks = [a \in {0} |-> num], num \in Nat
  PROVE  Allocated = Object
<1>1. DOMAIN blocks = {0} /\ blocks[0] = num
  OBVIOUS
<1>2. 0 .. 0 + blocks[0] - 1 = Object
  BY <1>1 DEF Object
<1> QED
  BY <1>1, <1>2, AllocatedAddresses

LEMMA WholeIsAllocated == ASSUME TypeOK, Whole PROVE Allocated = Object
<1>1. num \in Nat /\ Object \subseteq Int
  BY NumType
<1>2. CASE IsCompact(type)
  BY <1>1, <1>2, AllocatedBlock DEF Whole
<1>3. CASE ~IsCompact(type)
  BY <1>1, <1>3, AllocatedObjects DEF Whole
<1> QED
  BY <1>2, <1>3

(* free() of a single object.                                              *)
LEMMA FreeObject ==
  ASSUME NEW U, U \subseteq Address, blocks = [a \in U |-> 1], NEW t \in U, FreeBlock(t),
         TypeOK, TypeOK', UNCHANGED <<type, num>>, Intact(U)
  PROVE  blocks' = [a \in U \ {t} |-> 1] /\ Intact(U \ {t})'
<1>0. t \in Int /\ U \subseteq Address
  BY BoundAssumption DEF BoundAssumption, Address
<1>1. DOMAIN blocks = U /\ blocks[t] = 1
  OBVIOUS
<1>2. t .. t + blocks[t] - 1 = {t}
  BY <1>0, <1>1
<1>3. blocks' = [a \in U \ {t} |-> 1]
  BY <1>1 DEF FreeBlock
<1>4. \A a \in U \ {t} : left'[a] = left[a] /\ right'[a] = right[a]
  BY <1>0, <1>2 DEF FreeBlock
<1>5. \A a : Left(a)' = Left(a) /\ Right(a)' = Right(a)
  BY DEF Left, Right
<1>6. Intact(U \ {t})'
  BY <1>4, <1>5 DEF Intact
<1> QED
  BY <1>3, <1>6

-----------------------------------------------------------------------------
(* Init, and the steps that are the same for all types.                    *)
LEMMA InitStep == Init => IInv
  BY DEF Init, IInv, TypeOK

LEMMA AllocateStep ==
  ASSUME IInv, Allocate
  PROVE  IInv'
<1>1. TypeOK /\ TypeOK' /\ num \in 1 .. MaxObjects /\ Object \subseteq Address /\ Object' = Object
  BY NumType DEF Allocate, IInv, TypeOK, Object
<1>2. /\ left' = Links(FirstLink(type, num))
      /\ ~IsList(type) => right' = Links(SecondLink(type, num))
  BY <1>1 DEF Allocate, FirstLink, SecondLink, TypeOK, Types, IsList
<1>3. DOMAIN FirstLink(type, num) = Object
      /\ (~IsList(type) => DOMAIN SecondLink(type, num) = Object)
  BY DEF FirstLink, SecondLink, ListNext, TreeLeft, TreeRight, ArrayLeft, ArrayRight, Object
<1>4. \A a \in Object : left'[a] = Left(a)
  BY <1>1, <1>2, <1>3 DEF Links, Left
<1>5. ~IsList(type) => \A a \in Object : right'[a] = Right(a)
  BY <1>1, <1>2, <1>3 DEF Links, Right
<1>6. UNCHANGED <<type, num>> /\ pc' = "live" /\ stack' = stack /\ stack = << >>
  BY DEF Allocate, IInv
<1>7. \A a : Left(a)' = Left(a) /\ Right(a)' = Right(a)
  BY <1>6 DEF Left, Right
<1>8. Intact(Object)'
  BY <1>1, <1>4, <1>5, <1>6, <1>7 DEF Intact
<1>9. Whole'
  BY <1>6, <1>8 DEF Whole, Allocate, Object
<1> QED
  BY <1>1, <1>6, <1>9 DEF IInv

-----------------------------------------------------------------------------
(* Sequences, as the steps change them.                                    *)
LEMMA SingleFacts ==
  ASSUME NEW S, NEW c \in S
  PROVE  /\ <<c>> \in Seq(S) /\ Len(<<c>>) = 1 /\ <<c>>[1] = c /\ Head(<<c>>) = c
         /\ <<c>> # << >> /\ Tail(<<c>>) = << >> /\ \A d : <<d>> \o << >> = <<d>>
OBVIOUS

LEMMA TailFacts ==
  ASSUME NEW S, NEW s \in Seq(S), s # << >>
  PROVE  /\ Head(s) = s[1] /\ s[1] \in S
         /\ Len(s) \in Nat \ {0}
         /\ Tail(s) \in Seq(S) /\ Len(Tail(s)) = Len(s) - 1
         /\ \A i \in 1 .. Len(s) - 1 : Tail(s)[i] = s[i + 1]
         /\ Tail(s) = << >> <=> Len(s) = 1
<1>1. Len(s) \in Nat \ {0}
  BY LenProperties, EmptySeq
<1>2. Tail(s) \in Seq(S) /\ Len(Tail(s)) = Len(s) - 1 /\ Head(s) = s[1] /\ s[1] \in S
  BY <1>1, HeadTailProperties, ElementOfSeq
<1>3. \A i \in 1 .. Len(s) - 1 : Tail(s)[i] = s[i + 1]
  BY <1>1, <1>2, HeadTailProperties
<1>4. Tail(s) = << >> <=> Len(s) = 1
  <2>1. Tail(s) = << >> <=> Len(Tail(s)) = 0
    BY <1>2, EmptySeq
  <2> QED
    BY <1>1, <1>2, <2>1
<1> QED
  BY <1>1, <1>2, <1>3, <1>4

LEMMA AppendFacts ==
  ASSUME NEW S, NEW s \in Seq(S), NEW c \in S
  PROVE  /\ Append(s, c) \in Seq(S)
         /\ Len(s) \in Nat
         /\ Len(Append(s, c)) = Len(s) + 1
         /\ \A i \in 1 .. Len(s) : Append(s, c)[i] = s[i] /\ s[i] \in S
         /\ Append(s, c)[Len(s) + 1] = c
BY LenProperties, ElementOfSeq

LEMMA PushTwoFacts ==
  ASSUME NEW S, NEW s \in Seq(S), s # << >>, NEW a \in S, NEW b \in S
  PROVE  /\ <<a, b>> \o Tail(s) \in Seq(S)
         /\ Len(<<a, b>> \o Tail(s)) = Len(s) + 1
         /\ (<<a, b>> \o Tail(s))[1] = a
         /\ (<<a, b>> \o Tail(s))[2] = b
         /\ \A i \in 3 .. Len(s) + 1 : (<<a, b>> \o Tail(s))[i] = s[i - 1]
<1> DEFINE p == <<a, b>>
           u == p \o Tail(s)
<1>1. p \in Seq(S) /\ Len(p) = 2 /\ p[1] = a /\ p[2] = b
  OBVIOUS
<1>2. /\ Len(s) \in Nat \ {0} /\ Tail(s) \in Seq(S) /\ Len(Tail(s)) = Len(s) - 1
      /\ \A i \in 1 .. Len(s) - 1 : Tail(s)[i] = s[i + 1]
  BY TailFacts
<1> HIDE DEF p
<1>3. /\ u \in Seq(S) /\ Len(u) = 2 + (Len(s) - 1)
      /\ \A i \in 1 .. 2 + (Len(s) - 1) : u[i] = IF i <= 2 THEN p[i] ELSE Tail(s)[i - 2]
  <2>1. /\ p \o Tail(s) \in Seq(S) /\ Len(p \o Tail(s)) = Len(p) + Len(Tail(s))
        /\ \A i \in 1 .. Len(p) + Len(Tail(s)) :
             (p \o Tail(s))[i] = IF i <= Len(p) THEN p[i] ELSE Tail(s)[i - Len(p)]
    BY <1>1, <1>2, ConcatProperties
  <2> QED
    BY <1>1, <1>2, <2>1
<1> HIDE DEF u
<1>4. Len(u) = Len(s) + 1 /\ u[1] = a /\ u[2] = b
  BY <1>1, <1>2, <1>3
<1>5. ASSUME NEW i \in 3 .. Len(s) + 1 PROVE u[i] = s[i - 1]
  <2>1. i \in 1 .. 2 + (Len(s) - 1) /\ ~(i <= 2) /\ i - 2 \in 1 .. Len(s) - 1 /\ (i - 2) + 1 = i - 1
    BY <1>2
  <2> QED
    BY <1>2, <1>3, <2>1
<1> QED
  BY <1>3, <1>4, <1>5 DEF u, p

-----------------------------------------------------------------------------
(* Traversals.                                                             *)
LEMMA TraverseBeginStep ==
  ASSUME IInv, TraverseBegin
  PROVE  IInv'
<1>1. TypeOK /\ TypeOK' /\ Whole /\ pc' = "traverse" /\ UNCHANGED <<type, num, left, right, blocks>>
      /\ visited' = << >> /\ written' = {} /\ stack' = <<Call(0, "visit")>>
  BY DEF TraverseBegin, IInv, TypeOK
<1>2. num \in Nat \ {0} /\ 0 \in Object /\ Null \notin Object
  BY <1>1, NumType
<1>3. Object' = Object /\ (\A a : Left(a)' = Left(a) /\ Right(a)' = Right(a))
  BY <1>1 DEF Object, Left, Right
<1>4. Whole'
  BY <1>1, <1>3 DEF Whole, Intact
<1>5. CASE IsList(type)
  <2>1. Len(visited') = 0 /\ visited' \in Seq(Object')
    BY <1>1, EmptySeq
  <2>2. ListTraversal'
    BY <1>1, <1>2, <2>1 DEF ListTraversal
  <2> QED
    BY <1>1, <1>4, <1>5, <2>2 DEF IInv
<1>6. CASE ~IsList(type)
  <2>1. Len(visited') = 0 /\ visited' \in Seq(Object')
    BY <1>1, EmptySeq
  <2> DEFINE S == [node : Object \cup {Null}, stage : {"visit"}]
  <2>2. Call(0, "visit") \in S /\ Call(0, "visit").node = 0
    BY <1>2 DEF Call
  <2>3. stack' \in Seq(S) /\ Len(stack') = 1 /\ stack'[1].node = 0
    <3> HIDE DEF S
    <3> QED
      BY <1>1, <2>2, SingleFacts
  <2>4. \A j : ~Met(j)' /\ (Pending(j)' <=> j = 0)
    BY <2>1, <2>3 DEF Met, Pending, In
  <2>5. \A i \in Object : Left(i)' # 0 /\ Right(i)' # 0
    <3>1. \A i \in Object : i \in Nat
      BY <1>1, NumType
    <3>2. \A i \in Object : Left(i) # 0 /\ Right(i) # 0
      BY <1>1, <1>2, <1>6, <3>1, ChildFacts
    <3> QED
      BY <1>3, <3>2
  <2>6. TreeTraversal'
    BY <1>3, <2>1, <2>3, <2>4, <2>5 DEF TreeTraversal
  <2> QED
    BY <1>1, <1>4, <1>6, <2>6 DEF IInv
<1> QED
  BY <1>5, <1>6

LEMMA ListVisitStep ==
  ASSUME IInv, Visit, IsList(type)
  PROVE  ListTraversal'
<1>1. TypeOK /\ Whole /\ ListTraversal /\ UNCHANGED <<type, num, left, right, blocks>>
  BY DEF Visit, IInv
<1>2. num \in Nat \ {0} /\ Null \notin Object /\ Object' = Object
  BY <1>1, NumType DEF Object
<1>3. Len(visited) \in Nat /\ Len(visited) <= num /\ visited \in Seq(Object)
  BY <1>1, LenProperties DEF ListTraversal
<1> DEFINE t == IF Len(visited) = num THEN Null ELSE Len(visited)
<1>4. stack = <<Call(t, "visit")>> /\ stack # << >>
  BY <1>1 DEF ListTraversal, Visit
<1>5. Head(stack).node = t /\ Tail(stack) = << >>
  BY <1>4 DEF Call
<1>6. CASE Len(visited) = num
  <2>1. stack' = << >> /\ UNCHANGED <<visited, written>>
    BY <1>5, <1>6 DEF Visit
  <2> QED
    BY <1>1, <1>2, <1>6, <2>1 DEF ListTraversal
<1>7. CASE Len(visited) # num
  <2> DEFINE k == Len(visited)
  <2>1. t = k /\ k \in Object /\ t # Null
    BY <1>2, <1>3, <1>7 DEF Object
  <2>2. /\ visited' = Append(visited, k)
        /\ written' = IF WriteIthElement(k) THEN written \cup {k} ELSE written
        /\ stack' = <<Call(left[k], "visit")>> \o Tail(stack)
    BY <1>5, <2>1 DEF Visit, AccessCounter
  <2>3. left[k] = IF k = num - 1 THEN Null ELSE k + 1
    BY <1>1, <2>1 DEF Whole, Intact, Left, FirstLink, ListNext, Object
  <2>4. stack' = <<Call(left[k], "visit")>>
    BY <1>5, <2>2, SingleFacts
  <2>5. /\ visited' \in Seq(Object) /\ Len(visited') = k + 1
        /\ \A i \in 1 .. k : visited'[i] = visited[i]
        /\ visited'[k + 1] = k
    BY <1>3, <2>1, <2>2, AppendFacts
  <2>6. \A i \in 1 .. Len(visited') : visited'[i] = i - 1
    BY <1>1, <1>3, <2>5 DEF ListTraversal
  <2>7. left[k] = IF Len(visited') = num' THEN Null ELSE Len(visited')
    BY <1>1, <1>2, <1>3, <2>3, <2>5
  <2>8. written' = {i \in 0 .. Len(visited') - 1 : WriteIthElement(i)}
    <3>1. written = {i \in 0 .. k - 1 : WriteIthElement(i)}
      BY <1>1 DEF ListTraversal
    <3>2. 0 .. Len(visited') - 1 = (0 .. k - 1) \cup {k} /\ k \notin 0 .. k - 1
      BY <1>3, <2>5
    <3> HIDE DEF k
    <3> QED
      BY <2>2, <3>1, <3>2
  <2>9. Len(visited') <= num'
    BY <1>1, <1>2, <1>3, <1>7, <2>5
  <2> QED
    BY <1>1, <1>2, <2>4, <2>5, <2>6, <2>7, <2>8, <2>9 DEF ListTraversal
<1> QED
  BY <1>6, <1>7

(* The objects that wait on the stack, when its first call is made.        *)
StackOf(s) == s \in Seq([node : Object \cup {Null}, stage : {"visit"}])
OnceIn(s) == \A i, k \in 1 .. Len(s) : s[i].node # Null /\ s[i].node = s[k].node => i = k

LEMMA ReturnedCall ==
  ASSUME NEW s, StackOf(s), s # << >>, OnceIn(s), s[1].node = Null
  PROVE  /\ StackOf(Tail(s)) /\ OnceIn(Tail(s))
         /\ \A j : j # Null => (In(Tail(s), j) <=> In(s, j))
<1> DEFINE S == [node : Object \cup {Null}, stage : {"visit"}]
           r == Tail(s)
<1>1. s \in Seq(S)
  BY DEF StackOf
<1>2. /\ Len(s) \in Nat \ {0} /\ r \in Seq(S) /\ Len(r) = Len(s) - 1
      /\ \A i \in 1 .. Len(s) - 1 : r[i] = s[i + 1]
  <2> HIDE DEF S
  <2> QED
    BY <1>1, TailFacts
<1>3. StackOf(r)
  BY <1>2 DEF StackOf
<1> HIDE DEF r, S
<1>4. ASSUME NEW i \in 1 .. Len(r), NEW k \in 1 .. Len(r),
             r[i].node # Null, r[i].node = r[k].node
      PROVE  i = k
  <2>1. i + 1 \in 1 .. Len(s) /\ k + 1 \in 1 .. Len(s) /\ r[i] = s[i + 1] /\ r[k] = s[k + 1]
    BY <1>2
  <2>2. i + 1 = k + 1
    BY <1>4, <2>1 DEF OnceIn
  <2> QED
    BY <2>2
<1>5. ASSUME NEW j, j # Null PROVE In(r, j) <=> In(s, j)
  <2>1. ASSUME In(r, j) PROVE In(s, j)
    <3>1. PICK i \in 1 .. Len(r) : r[i].node = j
      BY <2>1 DEF In
    <3>2. i + 1 \in 1 .. Len(s) /\ s[i + 1].node = j
      BY <1>2, <3>1
    <3> QED
      BY <3>2 DEF In
  <2>2. ASSUME In(s, j) PROVE In(r, j)
    <3>1. PICK i \in 1 .. Len(s) : s[i].node = j
      BY <2>2 DEF In
    <3>2. i # 1
      BY <1>5, <3>1
    <3>3. i - 1 \in 1 .. Len(s) - 1 /\ (i - 1) + 1 = i
      BY <1>2, <3>2
    <3>4. r[i - 1].node = j /\ i - 1 \in 1 .. Len(r)
      BY <1>2, <3>1, <3>3
    <3> QED
      BY <3>4 DEF In
  <2> QED
    BY <2>1, <2>2
<1> QED
  BY <1>3, <1>4, <1>5 DEF r, OnceIn

LEMMA CalledTwice ==
  ASSUME NEW s, StackOf(s), s # << >>, OnceIn(s), s[1].node # Null,
         NEW a \in Object \cup {Null}, NEW b \in Object \cup {Null},
         a # Null => a # b /\ ~In(s, a), b # Null => ~In(s, b)
  PROVE  LET u == <<Call(a, "visit"), Call(b, "visit")>> \o Tail(s)
         IN  /\ StackOf(u) /\ OnceIn(u)
             /\ \A j : In(u, j) <=> j = a \/ j = b \/ (In(s, j) /\ j # s[1].node)
<1> DEFINE S == [node : Object \cup {Null}, stage : {"visit"}]
           c == Call(a, "visit")
           d == Call(b, "visit")
           u == <<c, d>> \o Tail(s)
<1>1. s \in Seq(S)
  BY DEF StackOf
<1>2. c \in S /\ d \in S /\ c.node = a /\ d.node = b
  BY DEF Call
<1>3. Len(s) \in Nat \ {0}
  <2> HIDE DEF S
  <2> QED
    BY <1>1, TailFacts
<1>4. /\ u \in Seq(S) /\ Len(u) = Len(s) + 1 /\ u[1] = c /\ u[2] = d
      /\ \A i \in 3 .. Len(s) + 1 : u[i] = s[i - 1]
  <2> HIDE DEF S, c, d
  <2> QED
    BY <1>1, <1>2, PushTwoFacts
<1>5. StackOf(u)
  BY <1>4 DEF StackOf
<1> HIDE DEF S, c, d, u
<1>6. \A i \in 1 .. Len(u) : i = 1 \/ i = 2 \/ i \in 3 .. Len(s) + 1
  BY <1>3, <1>4
<1>7. ASSUME NEW i \in 3 .. Len(s) + 1
      PROVE  i - 1 \in 1 .. Len(s) /\ i - 1 # 1 /\ u[i] = s[i - 1] /\ In(s, u[i].node)
  <2>1. i - 1 \in 1 .. Len(s) /\ i - 1 # 1
    BY <1>3
  <2> QED
    BY <1>4, <2>1 DEF In
<1>8. ASSUME NEW i \in 1 .. Len(u), NEW k \in 1 .. Len(u),
             u[i].node # Null, u[i].node = u[k].node
      PROVE  i = k
  <2>1. CASE i \in 3 .. Len(s) + 1 /\ k \in 3 .. Len(s) + 1
    <3>1. i - 1 = k - 1
      BY <1>7, <1>8, <2>1 DEF OnceIn
    <3> QED
      BY <3>1
  <2>2. CASE i \in {1, 2} /\ k \in {1, 2}
    BY <1>2, <1>4, <1>8, <2>2
  <2>3. CASE i \in {1, 2} /\ k \in 3 .. Len(s) + 1
    BY <1>2, <1>4, <1>7, <1>8, <2>3
  <2>4. CASE k \in {1, 2} /\ i \in 3 .. Len(s) + 1
    BY <1>2, <1>4, <1>7, <1>8, <2>4
  <2> QED
    BY <1>6, <2>1, <2>2, <2>3, <2>4
<1>9. ASSUME NEW j PROVE In(u, j) <=> j = a \/ j = b \/ (In(s, j) /\ j # s[1].node)
  <2>1. ASSUME In(u, j) PROVE j = a \/ j = b \/ (In(s, j) /\ j # s[1].node)
    <3>1. PICK i \in 1 .. Len(u) : u[i].node = j
      BY <2>1 DEF In
    <3>2. CASE i = 1 \/ i = 2
      BY <1>2, <1>4, <3>1, <3>2
    <3>3. CASE i \in 3 .. Len(s) + 1
      <4>1. i - 1 \in 1 .. Len(s) /\ i - 1 # 1 /\ s[i - 1].node = j /\ In(s, j)
        BY <1>7, <3>1, <3>3
      <4>2. 1 \in 1 .. Len(s)
        BY <1>3
      <4> QED
        BY <4>1, <4>2 DEF OnceIn
    <3> QED
      BY <1>6, <3>2, <3>3
  <2>2. ASSUME j = a \/ j = b PROVE In(u, j)
    <3>1. 1 \in 1 .. Len(u) /\ 2 \in 1 .. Len(u)
      BY <1>3, <1>4
    <3> QED
      BY <1>2, <1>4, <2>2, <3>1 DEF In
  <2>3. ASSUME In(s, j), j # s[1].node PROVE In(u, j)
    <3>1. PICK i \in 1 .. Len(s) : s[i].node = j
      BY <2>3 DEF In
    <3>2. i + 1 \in 3 .. Len(s) + 1 /\ (i + 1) - 1 = i /\ i + 1 \in 1 .. Len(u)
      BY <1>3, <1>4, <2>3, <3>1
    <3> QED
      BY <1>4, <3>1, <3>2 DEF In
  <2> QED
    BY <2>1, <2>2, <2>3
<1> QED
  BY <1>5, <1>8, <1>9 DEF u, c, d, OnceIn

(* What a traversal has met, M, and what it will go on with, P.            *)
Partition(M, P) ==
  /\ \A j \in Object : ~ (j \in M /\ j \in P)
  /\ 0 \in M \/ 0 \in P
  /\ \A i \in Object : Left(i) # Null => (i \in M <=> Left(i) \in M \/ Left(i) \in P)
  /\ \A i \in Object : Right(i) # Null => (i \in M <=> Right(i) \in M \/ Right(i) \in P)

LEMMA PartitionMoves ==
  ASSUME TypeOK, ~IsList(type),
         NEW M, NEW P, Partition(M, P), NEW t \in Object, t \in P,
         NEW N, NEW Q,
         \A j \in Object : j \in N <=> j \in M \/ j = t,
         \A j \in Object : j \in Q <=> j = Left(t) \/ j = Right(t) \/ (j \in P /\ j # t)
  PROVE  /\ Left(t) # Null => Left(t) # Right(t) /\ Left(t) \notin P /\ Left(t) \notin M
         /\ Right(t) # Null => Right(t) \notin P /\ Right(t) \notin M
         /\ Partition(N, Q)
<1>0. 0 \in Object /\ Null \notin Object
  BY NumType
<1>1. /\ \A i \in Object : Left(i) = Null \/ (Left(i) \in Object /\ Left(i) # i)
      /\ \A i \in Object : Right(i) = Null \/ (Right(i) \in Object /\ Right(i) # i)
  <2>1. \A i \in Object : i \in Nat
    BY NumType
  <2> QED
    BY <2>1, ChildFacts
<1>2. /\ \A i, k \in Object : Left(i) # Null /\ Left(i) = Left(k) => i = k
      /\ \A i, k \in Object : Right(i) # Null /\ Right(i) = Right(k) => i = k
      /\ \A i, k \in Object : Left(i) # Null => Left(i) # Right(k)
  BY ChildFacts
<1>3. t \notin M
  BY DEF Partition
<1>4. Left(t) # Null => Left(t) # Right(t) /\ Left(t) \notin P /\ Left(t) \notin M
  BY <1>2, <1>3 DEF Partition
<1>5. Right(t) # Null => Right(t) \notin P /\ Right(t) \notin M
  BY <1>3 DEF Partition
<1>6. ASSUME NEW j \in Object, j \in N, j \in Q PROVE FALSE
  <2>1. j \notin M \/ j \notin P
    BY DEF Partition
  <2> QED
    BY <1>0, <1>1, <1>3, <1>4, <1>5, <1>6, <2>1
<1>7. 0 \in N \/ 0 \in Q
  BY <1>0 DEF Partition
<1>8. ASSUME NEW i \in Object, Left(i) # Null PROVE i \in N <=> Left(i) \in N \/ Left(i) \in Q
  <2>1. Left(i) \in Object /\ Left(i) # i
    BY <1>1, <1>8
  <2>2. i \in M <=> Left(i) \in M \/ Left(i) \in P
    BY <1>8 DEF Partition
  <2>3. CASE i = t
    BY <1>0, <2>1, <2>3
  <2>4. CASE i # t
    <3>1. Left(i) # Left(t) /\ Left(i) # Right(t)
      BY <1>2, <1>8, <2>4
    <3> QED
      BY <2>1, <2>2, <2>4, <3>1
  <2> QED
    BY <2>3, <2>4
<1>9. ASSUME NEW i \in Object, Right(i) # Null PROVE i \in N <=> Right(i) \in N \/ Right(i) \in Q
  <2>1. Right(i) \in Object /\ Right(i) # i
    BY <1>1, <1>9
  <2>2. i \in M <=> Right(i) \in M \/ Right(i) \in P
    BY <1>9 DEF Partition
  <2>3. CASE i = t
    BY <1>0, <2>1, <2>3
  <2>4. CASE i # t
    <3>1. Right(i) # Right(t) /\ (Left(t) # Null => Left(t) # Right(i))
      BY <1>2, <1>9, <2>4
    <3>2. Right(i) # Left(t)
      BY <1>9, <3>1
    <3> QED
      BY <2>1, <2>2, <2>4, <3>1, <3>2
  <2> QED
    BY <2>3, <2>4
<1> QED
  BY <1>4, <1>5, <1>6, <1>7, <1>8, <1>9 DEF Partition

LEMMA TreeVisitStep ==
  ASSUME IInv, Visit, ~IsList(type)
  PROVE  TreeTraversal'
<1>1. TypeOK /\ Whole /\ TreeTraversal /\ UNCHANGED <<type, num, left, right, blocks>> /\ stack # << >>
  BY DEF Visit, IInv
<1>2. num \in Nat \ {0} /\ Null \notin Object /\ Object' = Object /\ 0 \in Object
  BY <1>1, NumType DEF Object
<1>3. \A i : Left(i)' = Left(i) /\ Right(i)' = Right(i)
  BY <1>1 DEF Left, Right
<1> DEFINE M == {j \in Object : Met(j)}
           P == {j \in Object : Pending(j)}
           N == {j \in Object : Met(j)'}
           Q == {j \in Object : Pending(j)'}
           OnceMet == \A i, k \in 1 .. Len(visited) : visited[i] = visited[k] => i = k
           t == Head(stack).node
<1>4. /\ StackOf(stack) /\ OnceIn(stack) /\ visited \in Seq(Object) /\ OnceMet
      /\ (\A j : Pending(j) <=> In(stack, j)) /\ (\A j : Pending(j)' <=> In(stack', j))
  BY <1>1 DEF TreeTraversal, StackOf, OnceIn, Pending
<1>5. Partition(M, P)
  <2>1. \A j : Pending(j) /\ j # Null => j \in Object
    <3> SUFFICES ASSUME NEW j, In(stack, j), j # Null PROVE j \in Object
      BY <1>4
    <3>1. PICK i \in 1 .. Len(stack) : stack[i].node = j
      BY DEF In
    <3> DEFINE S == [node : Object \cup {Null}, stage : {"visit"}]
    <3>2. stack[i] \in S
      <4>1. stack \in Seq(S)
        BY <1>4 DEF StackOf
      <4> HIDE DEF S
      <4> QED
        BY <4>1, ElementOfSeq
    <3> QED
      BY <3>1, <3>2
  <2>2. \A i \in Object : (Left(i) # Null => Left(i) \in Object) /\ (Right(i) # Null => Right(i) \in Object)
    BY <1>1, ChildFacts
  <2> QED
    BY <1>1, <1>2, <2>2 DEF TreeTraversal, Partition
<1>6. t = stack[1].node /\ t \in Object \cup {Null} /\ In(stack, t)
  <2> DEFINE S == [node : Object \cup {Null}, stage : {"visit"}]
  <2>1. Head(stack) = stack[1] /\ stack[1] \in S /\ Len(stack) \in Nat \ {0}
    <3>1. stack \in Seq(S)
      BY <1>4 DEF StackOf
    <3> HIDE DEF S
    <3> QED
      BY <1>1, <3>1, TailFacts
  <2>2. 1 \in 1 .. Len(stack)
    BY <2>1
  <2> QED
    BY <2>1, <2>2 DEF In
<1> SUFFICES /\ visited' \in Seq(Object) /\ OnceMet'
             /\ StackOf(stack') /\ OnceIn(stack')
             /\ Partition(N, Q)
  <2>1. \A i \in Object : (Left(i) # Null => Left(i) \in Object) /\ (Right(i) # Null => Right(i) \in Object)
    BY <1>1, ChildFacts
  <2>2. /\ \A j \in Object : ~ (Met(j)' /\ Pending(j)')
        /\ Met(0)' \/ Pending(0)'
        /\ \A i \in Object : Left(i) # Null => (Met(i)' <=> Met(Left(i))' \/ Pending(Left(i))')
        /\ \A i \in Object : Right(i) # Null => (Met(i)' <=> Met(Right(i))' \/ Pending(Right(i))')
    <3>1. \A j \in Object : (j \in N <=> Met(j)') /\ (j \in Q <=> Pending(j)')
      OBVIOUS
    <3> HIDE DEF N, Q
    <3>2. \A j \in Object : ~ (Met(j)' /\ Pending(j)')
      BY <3>1 DEF Partition
    <3>3. Met(0)' \/ Pending(0)'
      <4>1. 0 \in N \/ 0 \in Q
        BY DEF Partition
      <4> QED
        BY <1>2, <3>1, <4>1
    <3>4. ASSUME NEW i \in Object, Left(i) # Null
          PROVE  Met(i)' <=> Met(Left(i))' \/ Pending(Left(i))'
      <4>1. i \in N <=> Left(i) \in N \/ Left(i) \in Q
        BY <3>4 DEF Partition
      <4>2. Left(i) \in Object
        BY <2>1, <3>4
      <4> QED
        BY <1>3, <3>1, <4>1, <4>2 DEF Met, Pending, In
    <3>5. ASSUME NEW i \in Object, Right(i) # Null
          PROVE  Met(i)' <=> Met(Right(i))' \/ Pending(Right(i))'
      <4>1. i \in N <=> Right(i) \in N \/ Right(i) \in Q
        BY <3>5 DEF Partition
      <4>2. Right(i) \in Object
        BY <2>1, <3>5
      <4> QED
        BY <1>3, <3>1, <4>1, <4>2 DEF Met, Pending, In
    <3> QED
      BY <3>2, <3>3, <3>4, <3>5
  <2> HIDE DEF N, Q
  <2> QED
    BY <1>2, <1>3, <2>2 DEF TreeTraversal, StackOf, OnceIn
<1>7. CASE t = Null
  <2>1. stack' = Tail(stack) /\ UNCHANGED visited
    BY <1>7 DEF Visit
  <2>2. /\ StackOf(stack') /\ OnceIn(stack')
        /\ \A j : j # Null => (In(stack', j) <=> In(stack, j))
    BY <1>1, <1>4, <1>6, <1>7, <2>1, ReturnedCall
  <2>3. \A j \in Object : (Met(j)' <=> Met(j)) /\ (Pending(j)' <=> Pending(j))
    BY <1>2, <1>4, <2>1, <2>2 DEF Met
  <2>4. N = M /\ Q = P
    BY <2>3
  <2> HIDE DEF N, M, P, Q
  <2> QED
    BY <1>4, <1>5, <2>1, <2>2, <2>4
<1>8. CASE t # Null
  <2>0. t \in Object /\ t \in P
    BY <1>4, <1>6, <1>8
  <2>1. right[t] = Right(t) /\ left[t] = Left(t)
    BY <1>1, <2>0 DEF Whole, Intact
  <2>2. /\ visited' = Append(visited, t)
        /\ stack' = <<Call(Right(t), "visit"), Call(Left(t), "visit")>> \o Tail(stack)
    BY <1>8, <2>1 DEF Visit
  <2>3. /\ visited' \in Seq(Object) /\ Len(visited') = Len(visited) + 1 /\ Len(visited) \in Nat
        /\ \A i \in 1 .. Len(visited) : visited'[i] = visited[i]
        /\ visited'[Len(visited) + 1] = t
    BY <1>4, <2>0, <2>2, AppendFacts
  <2>4. \A i \in 1 .. Len(visited') : i \in 1 .. Len(visited) \/ i = Len(visited) + 1
    BY <2>3
  <2>5. \A j : Met(j)' <=> Met(j) \/ j = t
    <3>1. Len(visited) + 1 \in 1 .. Len(visited') /\ 1 .. Len(visited) \subseteq 1 .. Len(visited')
      BY <2>3
    <3> QED
      BY <2>3, <2>4, <3>1 DEF Met
  <2>6. ~Met(t)
    BY <1>5, <2>0 DEF Partition
  <2>7. OnceMet'
    <3> SUFFICES ASSUME NEW i \in 1 .. Len(visited'), NEW k \in 1 .. Len(visited'),
                        visited'[i] = visited'[k]
                 PROVE  i = k
      OBVIOUS
    <3> QED
      BY <1>4, <2>3, <2>4, <2>6 DEF Met
  <2> DEFINE W == {j \in Object : j = Left(t) \/ j = Right(t) \/ (j \in P /\ j # t)}
  <2>8. \A j \in Object : j \in N <=> j \in M \/ j = t
    BY <2>5
  <2>9. /\ Left(t) # Null => Left(t) # Right(t) /\ ~In(stack, Left(t))
        /\ Right(t) # Null => ~In(stack, Right(t))
        /\ Partition(N, W)
        /\ Left(t) \in Object \cup {Null} /\ Right(t) \in Object \cup {Null}
    <3>1. \A j \in Object : j \in W <=> j = Left(t) \/ j = Right(t) \/ (j \in P /\ j # t)
      OBVIOUS
    <3>2. Left(t) \in Object \cup {Null} /\ Right(t) \in Object \cup {Null}
      BY <1>1, <2>0, ChildFacts
    <3>3. \A j \in Object : j \notin P => ~In(stack, j)
      BY <1>4
    <3> HIDE DEF N, M, P, W
    <3>4. /\ Left(t) # Null => Left(t) # Right(t) /\ Left(t) \notin P
          /\ Right(t) # Null => Right(t) \notin P
          /\ Partition(N, W)
      BY <1>1, <1>5, <2>0, <2>8, <3>1, PartitionMoves
    <3> QED
      BY <3>2, <3>3, <3>4
  <2>10. /\ StackOf(stack') /\ OnceIn(stack')
         /\ \A j : In(stack', j) <=> j = Right(t) \/ j = Left(t) \/ (In(stack, j) /\ j # t)
    <3> DEFINE a == Right(t)
               c == Left(t)
               u == <<Call(a, "visit"), Call(c, "visit")>> \o Tail(stack)
    <3>1. /\ a # Null => a # c /\ ~In(stack, a)
          /\ c # Null => ~In(stack, c)
          /\ a \in Object \cup {Null} /\ c \in Object \cup {Null}
      BY <2>9
    <3>2. StackOf(stack) /\ stack # << >> /\ OnceIn(stack) /\ stack[1].node = t /\ t # Null
      BY <1>1, <1>4, <1>6, <1>8
    <3>3. stack' = u
      BY <2>2
    <3> HIDE DEF a, c, t
    <3>4. /\ StackOf(u) /\ OnceIn(u)
          /\ \A j : In(u, j) <=> j = a \/ j = c \/ (In(stack, j) /\ j # t)
      BY <3>1, <3>2, CalledTwice
    <3> HIDE DEF u
    <3> QED
      BY <3>3, <3>4 DEF a, c
  <2>11. Q = W
    BY <1>4, <2>10
  <2> HIDE DEF N, Q, W
  <2> QED
    BY <2>3, <2>7, <2>9, <2>10, <2>11
<1> QED
  BY <1>7, <1>8

LEMMA VisitStep ==
  ASSUME IInv, Visit
  PROVE  IInv'
<1>1. TypeOK' /\ Whole /\ UNCHANGED <<pc, type, num, left, right, blocks>> /\ pc = "traverse"
  BY DEF Visit, IInv, TypeOK
<1>2. Whole'
  BY <1>1 DEF Whole, Intact, Left, Right, Object
<1>3. IF IsList(type') THEN ListTraversal' ELSE TreeTraversal'
  BY <1>1, ListVisitStep, TreeVisitStep
<1> QED
  BY <1>1, <1>2, <1>3 DEF IInv, IsList

LEMMA TraverseEndStep ==
  ASSUME IInv, TraverseEnd
  PROVE  IInv'
<1>1. /\ TypeOK' /\ Whole /\ UNCHANGED <<type, num, left, right, blocks, stack>>
      /\ stack = << >> /\ pc' = "live"
  BY DEF TraverseEnd, IInv, TypeOK
<1>2. Whole'
  BY <1>1 DEF Whole, Intact, Left, Right, Object
<1> QED
  BY <1>1, <1>2 DEF IInv

-----------------------------------------------------------------------------
(* Deallocations.                                                          *)
LEMMA DeallocateCompactStep ==
  ASSUME IInv, DeallocateCompact
  PROVE  IInv'
<1>1. /\ TypeOK' /\ Whole /\ UNCHANGED <<type, num, stack>> /\ stack = << >>
      /\ pc' = "recycled" /\ IsCompact(type)
  BY DEF DeallocateCompact, IInv, TypeOK
<1>2. DOMAIN blocks \ {0} = {}
  BY <1>1 DEF Whole
<1>3. blocks' = << >>
  BY <1>2 DEF DeallocateCompact, FreeBlock
<1> QED
  BY <1>1, <1>3 DEF IInv

LEMMA DeallocateBeginStep ==
  ASSUME IInv, DeallocateBegin
  PROVE  IInv'
<1>1. /\ TypeOK /\ TypeOK' /\ Whole /\ UNCHANGED <<type, num, left, right, blocks>>
      /\ pc' = "deallocate" /\ ~IsCompact(type)
      /\ stack' = <<Call(0, IF IsList(type) THEN "next" ELSE "left")>>
  BY DEF DeallocateBegin, IInv, TypeOK
<1>2. /\ num \in Nat \ {0} /\ 0 \in Object /\ Null \notin Object /\ Object' = Object
      /\ Object \subseteq Nat
  BY <1>1, NumType DEF Object
<1>3. \A a : Left(a)' = Left(a) /\ Right(a)' = Right(a)
  BY <1>1 DEF Left, Right
<1>4. blocks' = [a \in Object |-> 1] /\ Intact(Object)'
  BY <1>1, <1>2, <1>3 DEF Whole, Intact
<1>5. CASE IsList(type)
  <2>1. 0 \in 0 .. num' /\ 0 .. num' - 1 = Object /\ 0 # num'
    BY <1>1, <1>2 DEF Object
  <2>2. ListDeallocation'
    BY <1>1, <1>2, <1>4, <1>5, <2>1 DEF ListDeallocation
  <2> QED
    BY <1>1, <1>5, <2>2 DEF IInv, IsList
<1>6. CASE ~IsList(type)
  <2> DEFINE S == [node : Object \cup {Null}, stage : {"left", "right", "free"}]
             c == Call(0, "left")
  <2>1. c \in S /\ c.node = 0 /\ c.stage = "left" /\ stack' = <<c>>
    BY <1>1, <1>2, <1>6 DEF Call
  <2>2. stack' \in Seq(S) /\ Len(stack') = 1 /\ stack'[1] = c /\ stack' # << >>
    <3> HIDE DEF S, c
    <3> QED
      BY <2>1, SingleFacts
  <2> DEFINE l == FirstLink(type, num)
             r == SecondLink(type, num)
  <2>3. /\ stack' \in Seq(S) /\ stack' # << >> /\ Len(stack') = 1
        /\ stack'[1].node = 0 /\ stack'[1].stage = "left"
    BY <2>1, <2>2
  <2>4. /\ \A p \in 1 .. Len(stack') : p = 1
        /\ \A p \in 2 .. Len(stack') : FALSE
    BY <2>3
  <2>5. Path(stack', l, r, num)
    <3> HIDE DEF l, r
    <3> QED
      BY <1>2, <2>3, <2>4 DEF Path, Object
  <2>6. \A i \in Object : l[i] \in Object \cup {Null} /\ r[i] \in Object \cup {Null}
    BY <1>1, <1>6, ChildFacts DEF Left, Right
  <2>7. Unfreed(Object, stack', l, r, num)
    <3>1. \A p \in 1 .. Len(stack') : stack'[p].node = 0 /\ stack'[p].stage = "left"
      BY <2>3, <2>4
    <3>2. (l[0] # Null => l[0] \in Object) /\ (r[0] # Null => r[0] \in Object)
      BY <1>2, <2>6
    <3> HIDE DEF l, r
    <3> QED
      BY <1>2, <2>3, <2>6, <3>1, <3>2 DEF Unfreed, Object
  <2>8. Object' \in SUBSET Object'
    OBVIOUS
  <2>9. ASSUME type = "BTREE" PROVE \E z : Sizes(z, l, r, num) /\ Shallow(stack', z, num)
    <3>1. l = TreeLeft(num) /\ r = TreeRight(num)
      BY <2>9 DEF FirstLink, SecondLink, IsList
    <3> HIDE DEF l, r
    <3>2. PICK z : Sizes(z, l, r, num)
      BY <1>1, <3>1, SizesExist DEF TypeOK
    <3>3. 2 ^ (Len(stack') - 1) * z[0] = num
      <4>1. Len(stack') - 1 = 0 /\ 2 ^ 0 = 1 /\ z[0] = num
        BY <2>3, <3>2, PowersAssumption DEF PowersAssumption, Sizes
      <4>2. 2 ^ (Len(stack') - 1) = 1
        BY <4>1
      <4> QED
        BY <1>2, <4>1, <4>2
    <3>4. Shallow(stack', z, num)
      <4>1. \A p \in 1 .. Len(stack') : p = 1 /\ stack'[p].node = 0
        BY <2>3, <2>4
      <4> QED
        BY <1>2, <3>3, <4>1 DEF Shallow
    <3> QED
      BY <3>2, <3>4
  <2>10. TreeDeallocation'
    BY <1>1, <1>2, <1>4, <2>5, <2>7, <2>8, <2>9 DEF TreeDeallocation
  <2> QED
    BY <1>1, <1>6, <2>10 DEF IInv, IsList
<1> QED
  BY <1>5, <1>6

LEMMA DeallocateListObjectStep ==
  ASSUME IInv, DeallocateListObject, IsList(type)
  PROVE  IInv'
<1>1. /\ TypeOK /\ TypeOK' /\ ListDeallocation /\ UNCHANGED <<pc, type, num>> /\ stack # << >>
      /\ pc = "deallocate" /\ ~IsCompact(type)
  BY DEF DeallocateListObject, IInv, TypeOK
<1>2. num \in Nat \ {0} /\ Null \notin Object /\ Object' = Object /\ Object \subseteq Address
  BY <1>1, NumType DEF Object
<1>3. PICK k \in 0 .. num :
        /\ blocks = [a \in k .. num - 1 |-> 1]
        /\ Intact(k .. num - 1)
        /\ stack = <<Call(IF k = num THEN Null ELSE k, "next")>>
  BY <1>1 DEF ListDeallocation
<1>4. Head(stack).node = IF k = num THEN Null ELSE k
  BY <1>3 DEF Call
<1>5. ListDeallocation'
  <2>1. CASE k = num
    <3>1. stack' = << >> /\ UNCHANGED <<left, right, blocks>>
      BY <1>4, <2>1 DEF DeallocateListObject
    <3>2. Intact(k .. num - 1)'
      BY <1>1, <1>3, <3>1 DEF Intact, Left, Right
    <3> QED
      BY <1>1, <1>3, <2>1, <3>1, <3>2 DEF ListDeallocation
  <2>2. CASE k # num
    <3>0. PICK U : U = k .. num - 1
      OBVIOUS
    <3>1. /\ k \in U /\ k \in Object /\ k # Null /\ U \subseteq Address
          /\ U \ {k} = k + 1 .. num - 1 /\ k + 1 \in 0 .. num /\ (k + 1 = num <=> k = num - 1)
      BY <1>2, <2>2, <3>0 DEF Object
    <3>2. FreeBlock(k) /\ stack' = <<Call(left[k], "next")>>
      BY <1>4, <2>2, <3>1 DEF DeallocateListObject, NextOf
    <3>3. left[k] = IF k = num - 1 THEN Null ELSE k + 1
      <4>1. left[k] = Left(k)
        BY <1>3, <3>0, <3>1 DEF Intact
      <4>2. Left(k) = ListNext(num)[k]
        BY DEF Left, FirstLink
      <4>3. k \in 0 .. num - 1
        BY <3>1 DEF Object
      <4> QED
        BY <4>1, <4>2, <4>3 DEF ListNext
    <3>4. blocks = [a \in U |-> 1] /\ Intact(U)
      BY <1>3, <3>0
    <3>5. blocks' = [a \in U \ {k} |-> 1] /\ Intact(U \ {k})'
      BY <1>1, <3>1, <3>2, <3>4, FreeObject
    <3>6. /\ k + 1 \in 0 .. num'
          /\ blocks' = [a \in k + 1 .. num' - 1 |-> 1]
          /\ Intact(k + 1 .. num - 1)'
          /\ stack' = <<Call(IF k + 1 = num' THEN Null ELSE k + 1, "next")>>
      BY <1>1, <3>1, <3>2, <3>3, <3>5
    <3> QED
      BY <1>1, <3>6 DEF ListDeallocation
  <2> QED
    BY <2>1, <2>2
<1> QED
  BY <1>1, <1>5 DEF IInv, IsList, DeallocateListObject

(* The nodes of a path are allocated: each is the child its caller has not *)
(* finished with.                                                          *)
LEMMA PathInside ==
  ASSUME NEW n \in Nat \ {0}, NEW l, NEW r, NEW s, NEW U,
         Path(s, l, r, n), Unfreed(U, s, l, r, n)
  PROVE  \A p \in 1 .. Len(s) : s[p].node # Null => s[p].node \in U
<1> SUFFICES ASSUME NEW p \in 1 .. Len(s), s[p].node # Null PROVE s[p].node \in U
  OBVIOUS
<1>1. Len(s) \in Nat /\ s # << >>
  <2> DEFINE S == [node : (0 .. n - 1) \cup {Null}, stage : {"left", "right", "free"}]
  <2>1. s \in Seq(S)
    BY DEF Path
  <2> HIDE DEF S
  <2> QED
    BY <2>1, LenProperties, EmptySeq
<1>2. CASE p = Len(s)
  BY <1>1, <1>2 DEF Path, Unfreed
<1>3. CASE p # Len(s)
  <2> DEFINE q == p + 1
  <2>1. q \in 2 .. Len(s) /\ q \in 1 .. Len(s) /\ q - 1 = p /\ q > 1 /\ q # 1
    BY <1>1, <1>3
  <2> HIDE DEF q
  <2>2. s[q].node # Null
    BY <2>1 DEF Path
  <2>3. s[p].node = IF s[q].stage = "right" THEN l[s[q].node] ELSE r[s[q].node]
    BY <2>1 DEF Path
  <2>4. CASE s[q].stage = "right"
    BY <2>1, <2>2, <2>3, <2>4 DEF Unfreed
  <2>5. CASE s[q].stage # "right"
    BY <2>1, <2>2, <2>3, <2>5 DEF Unfreed
  <2> QED
    BY <2>4, <2>5
<1> QED
  BY <1>2, <1>3

(* A call returns.                                                         *)
LEMMA PathReturns ==
  ASSUME NEW n \in Nat \ {0}, NEW l, NEW r, NEW s, Path(s, l, r, n), s # << >>
  PROVE  Path(Tail(s), l, r, n)
<1> DEFINE S == [node : (0 .. n - 1) \cup {Null}, stage : {"left", "right", "free"}]
           u == Tail(s)
<1>1. s \in Seq(S)
  BY DEF Path
<1>2. /\ Len(s) \in Nat \ {0} /\ u \in Seq(S) /\ Len(u) = Len(s) - 1
      /\ \A i \in 1 .. Len(s) - 1 : u[i] = s[i + 1]
      /\ u = << >> <=> Len(s) = 1
  <2> HIDE DEF S
  <2> QED
    BY <1>1, TailFacts
<1> HIDE DEF u
<1>3. ASSUME NEW p \in 1 .. Len(u)
      PROVE  p + 1 \in 2 .. Len(s) /\ p + 1 \in 1 .. Len(s) /\ u[p] = s[p + 1]
  BY <1>2
<1>4. \A p \in 1 .. Len(u) : u[p].node # Null
  <2> TAKE p \in 1 .. Len(u)
  <2> DEFINE q == p + 1
  <2>1. q \in 1 .. Len(s) /\ q > 1 /\ u[p] = s[q]
    BY <1>3
  <2> HIDE DEF q
  <2> QED
    BY <2>1 DEF Path
<1>5. \A p \in 2 .. Len(u) : u[p].stage # "left"
  <2> TAKE p \in 2 .. Len(u)
  <2>1. p \in 1 .. Len(u)
    BY <1>2
  <2> QED
    BY <1>3, <2>1 DEF Path
<1>6. u # << >> => u[Len(u)].node = 0
  <2> HAVE u # << >>
  <2>1. Len(u) \in 1 .. Len(u) /\ Len(u) + 1 = Len(s)
    BY <1>2
  <2> QED
    BY <1>3, <2>1 DEF Path
<1>7. \A p \in 2 .. Len(u) :
        u[p - 1].node = IF u[p].stage = "right" THEN l[u[p].node] ELSE r[u[p].node]
  <2> TAKE p \in 2 .. Len(u)
  <2>1. p \in 1 .. Len(u) /\ p - 1 \in 1 .. Len(u) /\ (p - 1) + 1 = (p + 1) - 1
    BY <1>2
  <2> DEFINE q == p + 1
  <2>2. q \in 2 .. Len(s) /\ u[p] = s[q] /\ u[p - 1] = s[q - 1]
    BY <1>3, <2>1
  <2> HIDE DEF q
  <2> QED
    BY <2>2 DEF Path
<1>8. \A p, q \in 1 .. Len(u) : p < q /\ u[p].node # Null => u[p].node > u[q].node
  <2> SUFFICES ASSUME NEW p \in 1 .. Len(u), NEW q \in 1 .. Len(u), p < q, u[p].node # Null
               PROVE  u[p].node > u[q].node
    OBVIOUS
  <2>1. p + 1 < q + 1 /\ p + 1 \in 1 .. Len(s) /\ q + 1 \in 1 .. Len(s)
        /\ u[p] = s[p + 1] /\ u[q] = s[q + 1]
    BY <1>2, <1>3
  <2> QED
    BY <2>1 DEF Path
<1>9. \A p \in 1 .. Len(u) : u[p].node # Null => u[p].node >= Len(u) - p
  <2> TAKE p \in 1 .. Len(u)
  <2> DEFINE q == p + 1
  <2>1. q \in 1 .. Len(s) /\ u[p] = s[q] /\ Len(s) - q = Len(u) - p
    BY <1>2, <1>3
  <2> HIDE DEF q
  <2> QED
    BY <2>1 DEF Path
<1>10. u \in Seq(S)
  BY <1>2
<1> QED
  BY <1>4, <1>5, <1>6, <1>7, <1>8, <1>9, <1>10 DEF u, Path

(* A call calls itself for a child.                                        *)
Child(l, r, t, after) == IF after = "right" THEN l[t] ELSE r[t]
Called(s, c, t, after) == <<Call(c, "left"), Call(t, after)>> \o Tail(s)

IsCalled(u, s, c, t, after, n) ==
  /\ t \in 0 .. n - 1 /\ t \in Nat
  /\ c \in (t + 1 .. n - 1) \cup {Null}
  /\ u \in Seq([node : (0 .. n - 1) \cup {Null}, stage : {"left", "right", "free"}])
  /\ Len(s) \in Nat \ {0} /\ Len(u) = Len(s) + 1
  /\ u[1].node = c /\ u[1].stage = "left"
  /\ u[2].node = t /\ u[2].stage = after
  /\ \A i \in 3 .. Len(s) + 1 : u[i] = s[i - 1]
  /\ \A p \in 1 .. Len(s) : s[p].node \in (0 .. n - 1) \cup {Null}

LEMMA CalledFacts ==
  ASSUME NEW n \in Nat \ {0}, NEW l, NEW r, OrderedTree(l, r, n), NEW s, Path(s, l, r, n),
         s # << >>, NEW t, t = s[1].node, t # Null, NEW after \in {"right", "free"}
  PROVE  LET c == Child(l, r, t, after)
             u == Called(s, c, t, after)
         IN  IsCalled(u, s, c, t, after, n)
<1> DEFINE S == [node : (0 .. n - 1) \cup {Null}, stage : {"left", "right", "free"}]
           c == Child(l, r, t, after)
           d == Call(c, "left")
           e == Call(t, after)
           u == <<d, e>> \o Tail(s)
<1>1. s \in Seq(S)
  BY DEF Path
<1>2. Len(s) \in Nat \ {0} /\ \A p \in 1 .. Len(s) : s[p] \in S
  <2> HIDE DEF S
  <2> QED
    BY <1>1, TailFacts, ElementOfSeq
<1>3. 1 \in 1 .. Len(s)
  BY <1>2
<1>4. t \in 0 .. n - 1 /\ t \in Nat
  BY <1>2, <1>3
<1>5. c \in (t + 1 .. n - 1) \cup {Null}
  BY <1>4 DEF OrderedTree, Child
<1>6. d \in S /\ e \in S /\ d.node = c /\ d.stage = "left" /\ e.node = t /\ e.stage = after
  <2>1. c \in (0 .. n - 1) \cup {Null}
    BY <1>4, <1>5
  <2> HIDE DEF c
  <2> QED
    BY <1>4, <2>1 DEF Call
<1>7. /\ u \in Seq(S) /\ Len(u) = Len(s) + 1 /\ u[1] = d /\ u[2] = e
      /\ \A i \in 3 .. Len(s) + 1 : u[i] = s[i - 1]
  <2> HIDE DEF S, d, e
  <2> QED
    BY <1>1, <1>6, PushTwoFacts
<1>8. u = Called(s, c, t, after)
  BY DEF Called
<1>9. \A p \in 1 .. Len(s) : s[p].node \in (0 .. n - 1) \cup {Null}
  BY <1>2
<1> HIDE DEF u, c, d, e
<1>10. u[1].node = c /\ u[1].stage = "left" /\ u[2].node = t /\ u[2].stage = after
  BY <1>6, <1>7
<1> QED
  BY <1>2, <1>4, <1>5, <1>7, <1>8, <1>9, <1>10 DEF IsCalled, c

LEMMA PathCalls ==
  ASSUME NEW n \in Nat \ {0}, NEW l, NEW r, OrderedTree(l, r, n), NEW s, Path(s, l, r, n),
         s # << >>, NEW t, t = s[1].node, t # Null, NEW after \in {"right", "free"}
  PROVE  Path(Called(s, Child(l, r, t, after), t, after), l, r, n)
<1> DEFINE c == Child(l, r, t, after)
           u == Called(s, c, t, after)
<1>0. IsCalled(u, s, c, t, after, n)
  BY CalledFacts
<1>1. /\ t \in 0 .. n - 1 /\ t \in Nat
      /\ c \in (t + 1 .. n - 1) \cup {Null}
      /\ u \in Seq([node : (0 .. n - 1) \cup {Null}, stage : {"left", "right", "free"}])
      /\ Len(s) \in Nat \ {0} /\ Len(u) = Len(s) + 1
      /\ u[1].node = c /\ u[1].stage = "left"
      /\ u[2].node = t /\ u[2].stage = after
      /\ \A i \in 3 .. Len(s) + 1 : u[i] = s[i - 1]
      /\ \A p \in 1 .. Len(s) : s[p].node \in (0 .. n - 1) \cup {Null}
  BY <1>0 DEF IsCalled
<1>2. c = IF after = "right" THEN l[t] ELSE r[t]
  BY DEF Child
<1> HIDE DEF u, c
<1>3. \A p \in 1 .. Len(u) : p = 1 \/ p \in 2 .. Len(u)
  BY <1>1
<1>4. ASSUME NEW p \in 2 .. Len(u)
      PROVE  p - 1 \in 1 .. Len(s) /\ u[p].node = s[p - 1].node /\ u[p].node # Null
             /\ u[p].node \in Nat
  <2>1. p - 1 \in 1 .. Len(s)
    BY <1>1
  <2>2. CASE p = 2
    BY <1>1, <2>1, <2>2
  <2>3. CASE p # 2
    <3>1. p \in 3 .. Len(s) + 1
      BY <1>1, <2>3
    <3> DEFINE q == p - 1
    <3>2. q \in 1 .. Len(s) /\ q > 1 /\ u[p] = s[q]
      BY <1>1, <3>1
    <3> HIDE DEF q
    <3>3. s[q].node # Null
      BY <3>2 DEF Path
    <3>4. s[q].node \in Nat
      BY <1>1, <3>2, <3>3
    <3> QED
      BY <3>2, <3>3, <3>4 DEF q
  <2> QED
    BY <2>2, <2>3
<1>5. \A p \in 1 .. Len(u) : p > 1 \/ u[p].stage # "left" => u[p].node # Null
  BY <1>1, <1>3, <1>4
<1>6. \A p \in 2 .. Len(u) : u[p].stage # "left"
  <2> TAKE p \in 2 .. Len(u)
  <2>1. CASE p = 2
    BY <1>1, <2>1
  <2>2. CASE p # 2
    <3> DEFINE q == p - 1
    <3>1. q \in 2 .. Len(s) /\ u[p] = s[q]
      BY <1>1, <2>2
    <3> HIDE DEF q
    <3> QED
      BY <3>1 DEF Path
  <2> QED
    BY <2>1, <2>2
<1>7. u # << >> => u[Len(u)].node = 0
  <2>1. Len(u) \in 2 .. Len(u) /\ Len(u) - 1 = Len(s)
    BY <1>1
  <2> QED
    BY <1>4, <2>1 DEF Path
<1>8. \A p \in 2 .. Len(u) :
        u[p - 1].node = IF u[p].stage = "right" THEN l[u[p].node] ELSE r[u[p].node]
  <2> TAKE p \in 2 .. Len(u)
  <2>1. CASE p = 2
    BY <1>1, <1>2, <2>1
  <2>2. CASE p # 2
    <3> DEFINE q == p - 1
    <3>1. q \in 2 .. Len(s) /\ u[p] = s[q] /\ q \in 2 .. Len(u)
      BY <1>1, <2>2
    <3>2. u[q].node = s[q - 1].node
      BY <1>4, <3>1
    <3> HIDE DEF q
    <3>3. s[q - 1].node = IF s[q].stage = "right" THEN l[s[q].node] ELSE r[s[q].node]
      BY <3>1 DEF Path
    <3> QED
      BY <3>1, <3>2, <3>3 DEF q
  <2> QED
    BY <2>1, <2>2
<1>9. ASSUME NEW p \in 1 .. Len(u), NEW q \in 1 .. Len(u), p < q, u[p].node # Null
      PROVE  u[p].node > u[q].node
  <2>1. q \in 2 .. Len(u)
    BY <1>1, <1>9
  <2>2. q - 1 \in 1 .. Len(s) /\ u[q].node = s[q - 1].node /\ u[q].node \in Nat
    BY <1>4, <2>1
  <2>3. 1 \in 1 .. Len(s)
    BY <1>1
  <2>4. t >= u[q].node
    <3>1. CASE q - 1 = 1
      BY <1>1, <2>2, <3>1
    <3>2. CASE q - 1 # 1
      <4>1. 1 < q - 1
        BY <2>2, <3>2
      <4>2. s[1].node > s[q - 1].node
        BY <2>2, <2>3, <4>1 DEF Path
      <4> QED
        BY <1>1, <2>2, <4>2
    <3> QED
      BY <3>1, <3>2
  <2>5. CASE p = 1
    <3>1. u[p].node \in t + 1 .. n - 1
      BY <1>1, <1>9, <2>5
    <3> QED
      BY <1>1, <2>2, <2>4, <3>1
  <2>6. CASE p # 1
    <3>1. p \in 2 .. Len(u)
      BY <1>1, <2>6
    <3>2. p - 1 \in 1 .. Len(s) /\ u[p].node = s[p - 1].node /\ p - 1 < q - 1
      BY <1>4, <1>9, <3>1
    <3> QED
      BY <1>9, <2>2, <3>2 DEF Path
  <2> QED
    BY <2>5, <2>6
<1>10. ASSUME NEW p \in 1 .. Len(u), u[p].node # Null PROVE u[p].node >= Len(u) - p
  <2>1. 1 \in 1 .. Len(s)
    BY <1>1
  <2>2. t >= Len(s) - 1
    BY <2>1 DEF Path
  <2>3. CASE p = 1
    <3>1. u[p].node \in t + 1 .. n - 1
      BY <1>1, <1>10, <2>3
    <3> QED
      BY <1>1, <2>2, <2>3, <3>1
  <2>4. CASE p # 1
    <3>1. p \in 2 .. Len(u)
      BY <1>1, <2>4
    <3> DEFINE q == p - 1
    <3>2. q \in 1 .. Len(s) /\ u[p].node = s[q].node /\ Len(s) - q = Len(u) - p
      BY <1>1, <1>4, <3>1
    <3> HIDE DEF q
    <3> QED
      BY <1>10, <3>2 DEF Path
  <2> QED
    BY <2>3, <2>4
<1> QED
  BY <1>1, <1>5, <1>6, <1>7, <1>8, <1>9, <1>10 DEF Path, u, c

(* What the calls in progress say of U: p is the place in the stack.       *)
Leftward(U, s, l, p) ==
  s[p].node # Null /\ l[s[p].node] # Null =>
    (l[s[p].node] \notin U <=> s[p].stage = "free" \/ (s[p].stage = "right" /\ p = 1))
Rightward(U, s, r, p) ==
  s[p].node # Null /\ r[s[p].node] # Null =>
    (r[s[p].node] \notin U <=> s[p].stage = "free" /\ p = 1)

LEMMA UnfreedParts ==
  ASSUME NEW U, NEW s, NEW l, NEW r, NEW n
  PROVE  Unfreed(U, s, l, r, n) <=>
           /\ 0 \in U <=> s # << >>
           /\ \A i \in (0 .. n - 1) \ U : l[i] \notin U /\ r[i] \notin U
           /\ \A i \in U : ~In(s, i) => l[i] \in U \cup {Null} /\ r[i] \in U \cup {Null}
           /\ \A p \in 1 .. Len(s) : Leftward(U, s, l, p)
           /\ \A p \in 1 .. Len(s) : Rightward(U, s, r, p)
  BY DEF Unfreed, Leftward, Rightward

(* The rest of a path.                                                     *)
LEMMA RestOfPath ==
  ASSUME NEW n \in Nat \ {0}, NEW l, NEW r, NEW s, Path(s, l, r, n), s # << >>
  PROVE  /\ Len(s) \in Nat \ {0} /\ Len(Tail(s)) = Len(s) - 1 /\ Head(s) = s[1]
         /\ \A p \in 1 .. Len(Tail(s)) : p + 1 \in 2 .. Len(s) /\ Tail(s)[p] = s[p + 1]
         /\ Tail(s) = << >> <=> Len(s) = 1
         /\ \A j : In(Tail(s), j) <=> \E p \in 2 .. Len(s) : s[p].node = j
         /\ \A j : In(s, j) <=> j = s[1].node \/ In(Tail(s), j)
<1> DEFINE S == [node : (0 .. n - 1) \cup {Null}, stage : {"left", "right", "free"}]
           u == Tail(s)
<1>1. s \in Seq(S)
  BY DEF Path
<1>2. /\ Len(s) \in Nat \ {0} /\ u \in Seq(S) /\ Len(u) = Len(s) - 1 /\ Head(s) = s[1]
      /\ \A i \in 1 .. Len(s) - 1 : u[i] = s[i + 1]
      /\ u = << >> <=> Len(s) = 1
  <2> HIDE DEF S
  <2> QED
    BY <1>1, TailFacts
<1> HIDE DEF u
<1>3. \A p \in 1 .. Len(u) : p + 1 \in 2 .. Len(s) /\ u[p] = s[p + 1]
  BY <1>2
<1>4. ASSUME NEW j PROVE In(u, j) <=> \E p \in 2 .. Len(s) : s[p].node = j
  <2>1. \A p \in 2 .. Len(s) : p - 1 \in 1 .. Len(u) /\ u[p - 1] = s[p]
    <3> TAKE p \in 2 .. Len(s)
    <3>1. p - 1 \in 1 .. Len(s) - 1 /\ (p - 1) + 1 = p /\ p - 1 \in 1 .. Len(u)
      BY <1>2
    <3> QED
      BY <1>2, <3>1
  <2> QED
    BY <1>3, <2>1 DEF In
<1>5. ASSUME NEW j PROVE In(s, j) <=> j = s[1].node \/ In(u, j)
  <2>1. \A p : p \in 1 .. Len(s) <=> p = 1 \/ p \in 2 .. Len(s)
    BY <1>2
  <2> QED
    BY <1>4, <2>1 DEF In
<1> QED
  BY <1>2, <1>3, <1>4, <1>5 DEF u

(* A call for a child that does not exist returns.                         *)
LEMMA UnfreedReturns ==
  ASSUME NEW n \in Nat \ {0}, NEW l, NEW r, NEW s, Path(s, l, r, n), s # << >>,
         NEW U, Null \notin U, 0 # Null, Unfreed(U, s, l, r, n), s[1].node = Null
  PROVE  Unfreed(U, Tail(s), l, r, n)
<1> DEFINE u == Tail(s)
<1>1. /\ Len(s) \in Nat \ {0} /\ Len(u) = Len(s) - 1
      /\ \A p \in 1 .. Len(u) : p + 1 \in 2 .. Len(s) /\ u[p] = s[p + 1]
      /\ u = << >> <=> Len(s) = 1
      /\ \A j : In(s, j) <=> j = s[1].node \/ In(u, j)
  BY RestOfPath
<1>2. /\ 0 \in U <=> s # << >>
      /\ \A i \in (0 .. n - 1) \ U : l[i] \notin U /\ r[i] \notin U
      /\ \A i \in U : ~In(s, i) => l[i] \in U \cup {Null} /\ r[i] \in U \cup {Null}
      /\ \A p \in 1 .. Len(s) : Leftward(U, s, l, p)
      /\ \A p \in 1 .. Len(s) : Rightward(U, s, r, p)
  BY UnfreedParts
<1> HIDE DEF u
<1>3. 0 \in U <=> u # << >>
  BY <1>1, <1>2 DEF Path
<1>4. \A i \in U : ~In(u, i) => ~In(s, i)
  BY <1>1
<1>5. ASSUME NEW p \in 1 .. Len(u) PROVE Leftward(U, u, l, p) /\ Rightward(U, u, r, p)
  <2> DEFINE q == p + 1
  <2>1. q \in 2 .. Len(s) /\ q \in 1 .. Len(s) /\ u[p] = s[q] /\ q # 1
    BY <1>1
  <2>2. Leftward(U, s, l, q) /\ Rightward(U, s, r, q)
    BY <1>2, <2>1
  <2>3. p = 1 => Null = IF s[q].stage = "right" THEN l[s[q].node] ELSE r[s[q].node]
    <3>1. s[q - 1].node = IF s[q].stage = "right" THEN l[s[q].node] ELSE r[s[q].node]
      <4> HIDE DEF q
      <4> QED
        BY <2>1 DEF Path
    <3>2. q - 1 = p
      OBVIOUS
    <3> HIDE DEF q
    <3> QED
      BY <3>1, <3>2
  <2> HIDE DEF q
  <2>4. s[q].stage \in {"right", "free"}
    <3> DEFINE S == [node : (0 .. n - 1) \cup {Null}, stage : {"left", "right", "free"}]
    <3>1. s[q] \in S
      <4>1. s \in Seq(S)
        BY DEF Path
      <4> HIDE DEF S
      <4> QED
        BY <2>1, <4>1, ElementOfSeq
    <3>2. s[q].stage # "left"
      BY <2>1 DEF Path
    <3> QED
      BY <3>1, <3>2
  <2> QED
    BY <2>1, <2>2, <2>3, <2>4 DEF Leftward, Rightward
<1> QED
  BY <1>2, <1>3, <1>4, <1>5, UnfreedParts DEF u

(* The nodes of a path come before what is under its first call.           *)
LEMMA FirstIsLast ==
  ASSUME NEW n \in Nat \ {0}, NEW l, NEW r, NEW s, Path(s, l, r, n), s # << >>,
         s[1].node # Null, NEW c \in Nat, c > s[1].node, c # Null
  PROVE  ~In(s, c)
<1>1. /\ Len(s) \in Nat \ {0}
      /\ \A p \in 1 .. Len(s) : s[p].node \in (0 .. n - 1) \cup {Null}
  <2> DEFINE S == [node : (0 .. n - 1) \cup {Null}, stage : {"left", "right", "free"}]
  <2>1. s \in Seq(S)
    BY DEF Path
  <2>2. Len(s) \in Nat \ {0} /\ \A p \in 1 .. Len(s) : s[p] \in S
    <3> HIDE DEF S
    <3> QED
      BY <2>1, TailFacts, ElementOfSeq
  <2> QED
    BY <2>2
<1> SUFFICES ASSUME NEW p \in 1 .. Len(s), s[p].node = c PROVE FALSE
  BY DEF In
<1>2. 1 \in 1 .. Len(s) /\ s[1].node \in 0 .. n - 1
  BY <1>1
<1>3. p # 1
  BY <1>2
<1>4. s[1].node > s[p].node
  BY <1>1, <1>2, <1>3 DEF Path
<1> QED
  BY <1>2, <1>4

(* A call for the left, then for the right child.                          *)
LEMMA UnfreedCalls ==
  ASSUME NEW n \in Nat \ {0}, NEW l, NEW r, OrderedTree(l, r, n), NEW s, Path(s, l, r, n),
         s # << >>, NEW t, t = s[1].node, t # Null,
         NEW U \in SUBSET (0 .. n - 1), Null \notin U, Unfreed(U, s, l, r, n),
         NEW after, \/ s[1].stage = "left" /\ after = "right"
                    \/ s[1].stage = "right" /\ after = "free"
  PROVE  Unfreed(U, Called(s, Child(l, r, t, after), t, after), l, r, n)
<1> DEFINE c == Child(l, r, t, after)
           u == Called(s, c, t, after)
<1>0. IsCalled(u, s, c, t, after, n)
  BY CalledFacts
<1>1. /\ t \in 0 .. n - 1 /\ t \in Nat
      /\ c \in (t + 1 .. n - 1) \cup {Null}
      /\ u \in Seq([node : (0 .. n - 1) \cup {Null}, stage : {"left", "right", "free"}])
      /\ Len(s) \in Nat \ {0} /\ Len(u) = Len(s) + 1
      /\ u[1].node = c /\ u[1].stage = "left"
      /\ u[2].node = t /\ u[2].stage = after
      /\ \A i \in 3 .. Len(s) + 1 : u[i] = s[i - 1]
      /\ \A p \in 1 .. Len(s) : s[p].node \in (0 .. n - 1) \cup {Null}
  BY <1>0 DEF IsCalled
<1>2. c = IF after = "right" THEN l[t] ELSE r[t]
  BY DEF Child
<1>3. /\ 0 \in U <=> s # << >>
      /\ \A i \in (0 .. n - 1) \ U : l[i] \notin U /\ r[i] \notin U
      /\ \A i \in U : ~In(s, i) => l[i] \in U \cup {Null} /\ r[i] \in U \cup {Null}
      /\ \A p \in 1 .. Len(s) : Leftward(U, s, l, p)
      /\ \A p \in 1 .. Len(s) : Rightward(U, s, r, p)
  BY UnfreedParts
<1> HIDE DEF u, c
<1>4. 0 \in U <=> u # << >>
  <2>1. u # << >>
    BY <1>1, EmptySeq
  <2> QED
    BY <1>3, <2>1
<1>5. \A i : In(s, i) => In(u, i)
  <2> SUFFICES ASSUME NEW i \in 1 .. Len(s) PROVE \E k \in 1 .. Len(u) : u[k].node = s[i].node
    BY DEF In
  <2>1. CASE i = 1
    BY <1>1, <2>1
  <2>2. CASE i # 1
    <3>1. i + 1 \in 3 .. Len(s) + 1 /\ (i + 1) - 1 = i /\ i + 1 \in 1 .. Len(u)
      BY <1>1, <2>2
    <3>2. u[i + 1] = s[i]
      BY <1>1, <3>1
    <3> QED
      BY <3>1, <3>2
  <2> QED
    BY <2>1, <2>2
<1>6. 1 \in 1 .. Len(s) /\ Leftward(U, s, l, 1) /\ Rightward(U, s, r, 1)
  BY <1>1, <1>3
<1>7. c # Null => l[c] \in U \cup {Null} /\ r[c] \in U \cup {Null}
  <2> HAVE c # Null
  <2>1. c \in Nat /\ c > t
    BY <1>1
  <2>2. ~In(s, c)
    BY <2>1, FirstIsLast
  <2>3. c \in U
    BY <1>2, <1>6 DEF Leftward, Rightward
  <2> QED
    BY <1>3, <2>2, <2>3
<1>8. ASSUME NEW p \in 1 .. Len(u) PROVE Leftward(U, u, l, p) /\ Rightward(U, u, r, p)
  <2>1. CASE p = 1
    BY <1>1, <1>7, <2>1 DEF Leftward, Rightward
  <2>2. CASE p = 2
    BY <1>1, <1>6, <2>2 DEF Leftward, Rightward
  <2>3. CASE p \in 3 .. Len(u)
    <3> DEFINE q == p - 1
    <3>1. q \in 1 .. Len(s) /\ u[p] = s[q] /\ q # 1 /\ p # 1
      BY <1>1, <2>3
    <3> HIDE DEF q
    <3>2. Leftward(U, s, l, q) /\ Rightward(U, s, r, q)
      BY <1>3, <3>1
    <3> QED
      BY <3>1, <3>2 DEF Leftward, Rightward
  <2>4. p = 1 \/ p = 2 \/ p \in 3 .. Len(u)
    BY <1>1
  <2> QED
    BY <2>1, <2>2, <2>3, <2>4
<1> QED
  BY <1>3, <1>4, <1>5, <1>8, UnfreedParts DEF u, c

(* A call frees its object and returns.                                    *)
LEMMA UnfreedFrees ==
  ASSUME NEW n \in Nat \ {0}, NEW l, NEW r, OrderedTree(l, r, n), NEW s, Path(s, l, r, n),
         s # << >>, NEW t, t = s[1].node, t # Null, s[1].stage = "free",
         NEW U \in SUBSET (0 .. n - 1), Null \notin U, Unfreed(U, s, l, r, n)
  PROVE  Unfreed(U \ {t}, Tail(s), l, r, n)
<1> DEFINE u == Tail(s)
           W == U \ {t}
<1>1. /\ Len(s) \in Nat \ {0} /\ Len(u) = Len(s) - 1
      /\ \A p \in 1 .. Len(u) : p + 1 \in 2 .. Len(s) /\ u[p] = s[p + 1]
      /\ u = << >> <=> Len(s) = 1
      /\ \A j : In(u, j) <=> \E p \in 2 .. Len(s) : s[p].node = j
      /\ \A j : In(s, j) <=> j = s[1].node \/ In(u, j)
  BY RestOfPath
<1>2. /\ 0 \in U <=> s # << >>
      /\ \A i \in (0 .. n - 1) \ U : l[i] \notin U /\ r[i] \notin U
      /\ \A i \in U : ~In(s, i) => l[i] \in U \cup {Null} /\ r[i] \in U \cup {Null}
      /\ \A p \in 1 .. Len(s) : Leftward(U, s, l, p)
      /\ \A p \in 1 .. Len(s) : Rightward(U, s, r, p)
  BY UnfreedParts
<1>3. \A p \in 1 .. Len(s) : s[p].node \in (0 .. n - 1) \cup {Null} /\ s[p].stage \in {"left", "right", "free"}
  <2> DEFINE S == [node : (0 .. n - 1) \cup {Null}, stage : {"left", "right", "free"}]
  <2>1. s \in Seq(S)
    BY DEF Path
  <2>2. \A p \in 1 .. Len(s) : s[p] \in S
    <3> HIDE DEF S
    <3> QED
      BY <2>1, ElementOfSeq
  <2> QED
    BY <2>2
<1>4. 1 \in 1 .. Len(s) /\ t \in 0 .. n - 1 /\ Leftward(U, s, l, 1) /\ Rightward(U, s, r, 1)
  BY <1>1, <1>2, <1>3
<1> HIDE DEF u
<1>5. \A p \in 2 .. Len(s) : s[p].node \in 0 .. n - 1 /\ s[p].node # Null /\ t > s[p].node
  <2> TAKE p \in 2 .. Len(s)
  <2>1. p \in 1 .. Len(s) /\ p > 1 /\ 1 < p
    BY <1>1
  <2> QED
    BY <1>3, <1>4, <2>1 DEF Path
<1>6. 0 \in W <=> u # << >>
  <2>1. CASE Len(s) = 1
    BY <1>1, <2>1 DEF Path
  <2>2. CASE Len(s) # 1
    <3>1. Len(s) \in 2 .. Len(s)
      BY <1>1, <2>2
    <3>2. s[Len(s)].node = 0
      BY DEF Path
    <3> QED
      BY <1>1, <1>2, <1>4, <1>5, <2>2, <3>1, <3>2
  <2> QED
    BY <2>1, <2>2
<1>7. ASSUME NEW i \in (0 .. n - 1) \ W PROVE l[i] \notin W /\ r[i] \notin W
  <2>1. CASE i \notin U
    BY <1>2, <2>1
  <2>2. CASE i = t
    BY <1>4, <2>2 DEF Leftward, Rightward
  <2> QED
    BY <2>1, <2>2
<1>8. Len(s) # 1 =>
        /\ 2 \in 2 .. Len(s) /\ 2 \in 1 .. Len(s)
        /\ t = IF s[2].stage = "right" THEN l[s[2].node] ELSE r[s[2].node]
  <2> HAVE Len(s) # 1
  <2>1. 2 \in 2 .. Len(s) /\ 2 \in 1 .. Len(s)
    BY <1>1
  <2>2. s[2 - 1].node = IF s[2].stage = "right" THEN l[s[2].node] ELSE r[s[2].node]
    BY <2>1 DEF Path
  <2> QED
    BY <2>1, <2>2
<1>9. ASSUME NEW i \in 0 .. n - 1, l[i] = t \/ r[i] = t
      PROVE  Len(s) # 1 /\ i = s[2].node
  <2>1. Len(s) # 1
    <3>1. i < t
      BY <1>4, <1>9 DEF OrderedTree
    <3>2. Len(s) = 1 => t = 0
      BY DEF Path
    <3> QED
      BY <3>1, <3>2
  <2>2. s[2].node \in 0 .. n - 1 /\ (t = l[s[2].node] \/ t = r[s[2].node])
    BY <1>5, <1>8, <2>1
  <2> QED
    BY <1>9, <2>1, <2>2 DEF OrderedTree
<1>10. ASSUME NEW i \in W, ~In(u, i) PROVE l[i] \in W \cup {Null} /\ r[i] \in W \cup {Null}
  <2>1. ~In(s, i)
    BY <1>1, <1>10
  <2>2. l[i] # t /\ r[i] # t
    BY <1>1, <1>8, <1>9, <1>10
  <2> QED
    BY <1>2, <2>1, <2>2
<1>11. ASSUME NEW p \in 1 .. Len(u) PROVE Leftward(W, u, l, p) /\ Rightward(W, u, r, p)
  <2> DEFINE q == p + 1
  <2>1. q \in 2 .. Len(s) /\ q \in 1 .. Len(s) /\ u[p] = s[q] /\ q # 1 /\ (p = 1 <=> q = 2)
    BY <1>1
  <2>2. Leftward(U, s, l, q) /\ Rightward(U, s, r, q)
    BY <1>2, <2>1
  <2>3. s[q].node \in 0 .. n - 1 /\ s[q].node # Null
    <3> HIDE DEF q
    <3> QED
      BY <1>5, <2>1
  <2>4. s[q].stage \in {"right", "free"}
    <3> HIDE DEF q
    <3> QED
      BY <1>3, <2>1 DEF Path
  <2> HIDE DEF q
  <2>5. CASE q = 2
    <3>1. t = IF s[q].stage = "right" THEN l[s[q].node] ELSE r[s[q].node]
      BY <1>1, <1>8, <2>1, <2>5
    <3>2. l[s[q].node] # Null => l[s[q].node] # r[s[q].node]
      BY <2>3 DEF OrderedTree
    <3> QED
      BY <2>1, <2>2, <2>3, <2>4, <2>5, <3>1, <3>2 DEF Leftward, Rightward
  <2>6. CASE q # 2
    <3>1. s[q].node # s[2].node
      <4>1. 2 \in 1 .. Len(s) /\ 2 < q /\ s[2].node # Null /\ s[2].node \in 0 .. n - 1
        BY <1>1, <1>5, <2>1, <2>6
      <4>2. s[2].node > s[q].node
        BY <2>1, <4>1 DEF Path
      <4> QED
        BY <2>3, <4>1, <4>2
    <3>2. l[s[q].node] # t /\ r[s[q].node] # t
      BY <1>9, <2>3, <3>1
    <3> QED
      BY <2>1, <2>2, <2>3, <2>4, <2>6, <3>2 DEF Leftward, Rightward
  <2> QED
    BY <2>5, <2>6
<1> QED
  BY <1>6, <1>7, <1>10, <1>11, UnfreedParts DEF u

-----------------------------------------------------------------------------
(* The depth of the recursion.                                             *)
LEMMA ProductGrows ==
  ASSUME NEW a \in Nat, NEW x \in Nat, NEW y \in Nat, 2 * x <= y
  PROVE  (2 * a) * x <= a * y
<1>1. PICK d \in Nat : y = 2 * x + d
  <2>1. y - 2 * x \in Nat /\ y = 2 * x + (y - 2 * x)
    OBVIOUS
  <2> QED
    BY <2>1
<1>2. a * y = (2 * a) * x + a * d
  BY <1>1
<1>3. a * d \in Nat /\ (2 * a) * x \in Nat
  OBVIOUS
<1> QED
  BY <1>2, <1>3

LEMMA ShallowReturns ==
  ASSUME NEW n \in Nat \ {0}, NEW l, NEW r, NEW s, Path(s, l, r, n), s # << >>,
         NEW z, Shallow(s, z, n)
  PROVE  Shallow(Tail(s), z, n)
<1> DEFINE u == Tail(s)
<1>1. /\ Len(s) \in Nat \ {0} /\ Len(u) = Len(s) - 1
      /\ \A p \in 1 .. Len(u) : p + 1 \in 2 .. Len(s) /\ u[p] = s[p + 1]
  BY RestOfPath
<1> HIDE DEF u
<1>2. ASSUME NEW p \in 1 .. Len(u), u[p].node # Null
      PROVE  2 ^ (Len(u) - p) * z[u[p].node] <= n
  <2> DEFINE q == p + 1
  <2>1. q \in 1 .. Len(s) /\ u[p] = s[q] /\ Len(u) - p = Len(s) - q
    BY <1>1
  <2> HIDE DEF q
  <2>2. 2 ^ (Len(s) - q) * z[s[q].node] <= n
    BY <1>2, <2>1 DEF Shallow
  <2> QED
    BY <2>1, <2>2
<1> QED
  BY <1>2 DEF Shallow, u

LEMMA ShallowCalls ==
  ASSUME NEW n \in 1 .. MaxObjects, NEW l, NEW r, OrderedTree(l, r, n), NEW s, Path(s, l, r, n),
         s # << >>, NEW t, t = s[1].node, t # Null, NEW after \in {"right", "free"},
         NEW z, Sizes(z, l, r, n), Shallow(s, z, n)
  PROVE  Shallow(Called(s, Child(l, r, t, after), t, after), z, n)
<1> DEFINE c == Child(l, r, t, after)
           u == Called(s, c, t, after)
<1>0. n \in Nat \ {0} /\ n <= MaxObjects /\ MaxObjects \in Nat
  BY BoundAssumption DEF BoundAssumption
<1>1. IsCalled(u, s, c, t, after, n)
  BY <1>0, CalledFacts
<1>2. /\ t \in 0 .. n - 1 /\ t \in Nat
      /\ c \in (t + 1 .. n - 1) \cup {Null}
      /\ Len(s) \in Nat \ {0} /\ Len(u) = Len(s) + 1
      /\ u[1].node = c
      /\ u[2].node = t
      /\ \A i \in 3 .. Len(s) + 1 : u[i] = s[i - 1]
  BY <1>1 DEF IsCalled
<1>3. c = IF after = "right" THEN l[t] ELSE r[t]
  BY DEF Child
<1> HIDE DEF u, c
<1>4. ASSUME NEW p \in 1 .. Len(u), u[p].node # Null
      PROVE  2 ^ (Len(u) - p) * z[u[p].node] <= n
  <2>1. CASE p = 1
    <3> DEFINE k == Len(s) - 1
    <3>1. 1 \in 1 .. Len(s) /\ k \in Nat /\ Len(u) - p = k + 1
      BY <1>2, <2>1
    <3>2. t >= k
      BY <3>1 DEF Path
    <3>3. k \in 0 .. MaxObjects
      BY <1>0, <1>2, <3>1, <3>2
    <3>4. 2 ^ k * z[t] <= n
      BY <3>1 DEF Shallow
    <3>5. c # Null /\ u[p].node = c
      BY <1>2, <1>4, <2>1
    <3>6. z[c] \in Nat /\ z[t] \in Nat /\ 2 * z[c] <= z[t]
      <4>1. c \in 0 .. n - 1
        BY <1>2, <3>5
      <4> QED
        BY <1>2, <1>3, <3>5, <4>1 DEF Sizes
    <3> HIDE DEF k
    <3>7. 2 ^ k \in Nat /\ 2 ^ (k + 1) = 2 * 2 ^ k
      BY <3>3, PowersAssumption DEF PowersAssumption
    <3>8. (2 * 2 ^ k) * z[c] <= 2 ^ k * z[t]
      BY <3>6, <3>7, ProductGrows
    <3>9. (2 * 2 ^ k) * z[c] \in Nat /\ 2 ^ k * z[t] \in Nat
      BY <3>6, <3>7
    <3> QED
      BY <1>0, <3>1, <3>4, <3>5, <3>7, <3>8, <3>9
  <2>2. CASE p # 1
    <3> DEFINE q == p - 1
    <3>1. q \in 1 .. Len(s) /\ u[p].node = s[q].node /\ Len(u) - p = Len(s) - q
      <4>1. q \in 1 .. Len(s) /\ Len(u) - p = Len(s) - q
        BY <1>2, <2>2
      <4>2. CASE p = 2
        BY <1>2, <4>2
      <4>3. CASE p # 2
        BY <1>2, <2>2, <4>3
      <4> QED
        BY <4>1, <4>2, <4>3
    <3> HIDE DEF q
    <3>2. 2 ^ (Len(s) - q) * z[s[q].node] <= n
      BY <1>4, <3>1 DEF Shallow
    <3> QED
      BY <3>1, <3>2
  <2> QED
    BY <2>1, <2>2
<1> QED
  BY <1>4 DEF Shallow, u, c

-----------------------------------------------------------------------------
(* Lists and trees are given back by functions of their own.               *)
LEMMA ListStage ==
  ASSUME IInv, pc = "deallocate", IsList(type), stack # << >>
  PROVE  Head(stack).stage = "next"
<1>1. PICK k \in 0 .. num : stack = <<Call(IF k = num THEN Null ELSE k, "next")>>
  BY DEF IInv, ListDeallocation
<1> QED
  BY <1>1 DEF Call

LEMMA TreeStage ==
  ASSUME IInv, pc = "deallocate", ~IsList(type), stack # << >>
  PROVE  /\ Head(stack).stage \in {"left", "right", "free"}
         /\ Head(stack) = stack[1]
         /\ Head(stack).stage # "left" => Head(stack).node # Null
<1> DEFINE S == [node : (0 .. num - 1) \cup {Null}, stage : {"left", "right", "free"}]
<1>1. Path(stack, FirstLink(type, num), SecondLink(type, num), num)
  BY DEF IInv, TreeDeallocation
<1>2. stack \in Seq(S)
  BY <1>1 DEF Path
<1>3. Head(stack) = stack[1] /\ stack[1] \in S /\ Len(stack) \in Nat \ {0}
  <2> HIDE DEF S
  <2> QED
    BY <1>2, TailFacts
<1>4. 1 \in 1 .. Len(stack)
  BY <1>3
<1>5. stack[1].stage # "left" => stack[1].node # Null
  BY <1>1, <1>4 DEF Path
<1> QED
  BY <1>3, <1>5

LEMMA DeallocateSubtreeStep ==
  ASSUME IInv, DeallocateSubtree
  PROVE  IInv'
<1>0. pc = "deallocate" /\ stack # << >>
  BY DEF DeallocateSubtree
<1>1. ~IsList(type)
  BY <1>0, ListStage DEF DeallocateSubtree
<1>2. /\ TypeOK /\ TypeOK' /\ TreeDeallocation /\ UNCHANGED <<pc, type, num>>
      /\ ~IsCompact(type)
  BY <1>0, <1>1 DEF DeallocateSubtree, IInv, TypeOK
<1>3. num \in Nat \ {0} /\ Null \notin Object /\ 0 # Null /\ Object' = Object
      /\ Object \subseteq Address /\ Object = 0 .. num - 1 /\ num \in 1 .. MaxObjects
  BY <1>2, NumType DEF Object, TypeOK
<1> DEFINE l == FirstLink(type, num)
           r == SecondLink(type, num)
<1>4. OrderedTree(l, r, num)
  BY <1>1, <1>2, LinksAreTree DEF TypeOK
<1>5. (\A a : Left(a) = l[a] /\ Right(a) = r[a]) /\ l' = l /\ r' = r
  BY <1>2 DEF Left, Right
<1>6. PICK U \in SUBSET Object :
        /\ blocks = [a \in U |-> 1] /\ Intact(U)
        /\ Path(stack, l, r, num) /\ Unfreed(U, stack, l, r, num)
        /\ type = "BTREE" => \E z : Sizes(z, l, r, num) /\ Shallow(stack, z, num)
  BY <1>2 DEF TreeDeallocation
<1> HIDE DEF l, r
<1> DEFINE t == Head(stack).node
           stage == Head(stack).stage
           Keep == UNCHANGED <<left, right, blocks>>
<1>7. /\ stage \in {"left", "right", "free"} /\ t = stack[1].node /\ stage = stack[1].stage
      /\ stage # "left" => t # Null
  BY <1>0, <1>1, TreeStage
<1>8. Null \notin U /\ U \in SUBSET (0 .. num - 1) /\ U \subseteq Address
  BY <1>3
<1>9. t # Null => t \in U
  <2>1. 1 \in 1 .. Len(stack)
    BY <1>0, <1>3, <1>6, RestOfPath
  <2> QED
    BY <1>3, <1>6, <1>7, <2>1, PathInside
<1>10. Keep => blocks' = [a \in U |-> 1] /\ Intact(U)'
  BY <1>2, <1>5, <1>6 DEF Intact, Left, Right
<1>11. ASSUME NEW V \in SUBSET Object, blocks' = [a \in V |-> 1], Intact(V)',
              Path(stack', l, r, num), Unfreed(V, stack', l, r, num),
              \A z : type = "BTREE" /\ Sizes(z, l, r, num) /\ Shallow(stack, z, num)
                       => Shallow(stack', z, num)
       PROVE  IInv'
  <2>1. type = "BTREE" => \E z : Sizes(z, l, r, num) /\ Shallow(stack', z, num)
    BY <1>6, <1>11
  <2>2. \E W \in SUBSET Object' :
          /\ blocks' = [a \in W |-> 1] /\ Intact(W)'
          /\ Path(stack', l', r', num') /\ Unfreed(W, stack', l', r', num')
          /\ type' = "BTREE" => \E z : Sizes(z, l', r', num') /\ Shallow(stack', z, num')
    BY <1>2, <1>3, <1>5, <1>11, <2>1
  <2>3. TreeDeallocation'
    BY <2>2 DEF TreeDeallocation, l, r
  <2> QED
    BY <1>0, <1>1, <1>2, <2>3 DEF IInv, IsList
<1>12. CASE stage = "left" /\ t = Null
  <2>1. stack' = Tail(stack) /\ Keep
    BY <1>12 DEF DeallocateSubtree
  <2>2. Path(stack', l, r, num)
    BY <1>0, <1>3, <1>6, <2>1, PathReturns
  <2>3. Unfreed(U, stack', l, r, num)
    BY <1>0, <1>3, <1>6, <1>7, <1>8, <1>12, <2>1, UnfreedReturns
  <2>4. \A z : Shallow(stack, z, num) => Shallow(stack', z, num)
    BY <1>0, <1>3, <1>6, <2>1, ShallowReturns
  <2> QED
    BY <1>10, <1>11, <2>1, <2>2, <2>3, <2>4
<1>13. CASE (stage = "left" /\ t # Null) \/ stage = "right"
  <2> DEFINE after == IF stage = "left" THEN "right" ELSE "free"
             c == Child(l, r, t, after)
  <2>1. t # Null /\ t \in U
    BY <1>7, <1>9, <1>13
  <2>2. after \in {"right", "free"}
        /\ (\/ stack[1].stage = "left" /\ after = "right"
            \/ stack[1].stage = "right" /\ after = "free")
    BY <1>7, <1>13
  <2>3. c = IF stage = "left" THEN left[t] ELSE right[t]
    <3>1. left[t] = l[t] /\ right[t] = r[t]
      BY <1>1, <1>5, <1>6, <2>1 DEF Intact
    <3> QED
      BY <1>13, <3>1 DEF Child
  <2>4. stack' = Called(stack, c, t, after) /\ Keep
    BY <1>13, <2>3 DEF DeallocateSubtree, Called, AfterLeft
  <2> HIDE DEF after
  <2>5. Path(stack', l, r, num)
    BY <1>0, <1>3, <1>4, <1>6, <1>7, <2>1, <2>2, <2>4, PathCalls
  <2>6. Unfreed(U, stack', l, r, num)
    BY <1>0, <1>3, <1>4, <1>6, <1>7, <1>8, <2>1, <2>2, <2>4, UnfreedCalls
  <2>7. \A z : Sizes(z, l, r, num) /\ Shallow(stack, z, num) => Shallow(stack', z, num)
    BY <1>0, <1>3, <1>4, <1>6, <1>7, <2>1, <2>2, <2>4, ShallowCalls
  <2> QED
    BY <1>10, <1>11, <2>4, <2>5, <2>6, <2>7
<1>14. CASE stage = "free"
  <2>1. stack' = Tail(stack) /\ FreeBlock(t) /\ t # Null /\ t \in U
    BY <1>7, <1>9, <1>14 DEF DeallocateSubtree
  <2>2. Path(stack', l, r, num)
    BY <1>0, <1>3, <1>6, <2>1, PathReturns
  <2>3. PICK x \in U : x = t
    BY <2>1
  <2>4. Unfreed(U \ {x}, stack', l, r, num)
    BY <1>0, <1>3, <1>4, <1>6, <1>7, <1>8, <1>14, <2>1, <2>3, UnfreedFrees
  <2>5. FreeBlock(x)
    BY <2>1, <2>3
  <2>6. blocks' = [a \in U \ {x} |-> 1] /\ Intact(U \ {x})'
    BY <1>2, <1>6, <1>8, <2>5, FreeObject
  <2>7. \A z : Shallow(stack, z, num) => Shallow(stack', z, num)
    BY <1>0, <1>3, <1>6, <2>1, ShallowReturns
  <2>8. U \ {x} \in SUBSET Object
    OBVIOUS
  <2> QED
    BY <1>11, <2>2, <2>4, <2>6, <2>7, <2>8
<1> QED
  BY <1>7, <1>12, <1>13, <1>14

(* Nothing is left when no call is left: an object that were left would    *)
(* have a parent that is left, and so would the root.                      *)
LEMMA NothingLeft ==
  ASSUME TypeOK, ~IsList(type), NEW U \in SUBSET Object,
         Unfreed(U, << >>, FirstLink(type, num), SecondLink(type, num), num)
  PROVE  U = {}
<1> SUFFICES ASSUME U # {} PROVE FALSE
  OBVIOUS
<1>1. Object \subseteq Nat /\ Object = 0 .. num - 1
  BY NumType DEF Object
<1>2. PICK j \in U : \A m \in U : j <= m
  <2>1. U \in SUBSET Nat
    BY <1>1
  <2> QED
    BY <2>1, LeastNumber
<1>3. /\ 0 \notin U
      /\ \A i \in Object \ U : Left(i) \notin U /\ Right(i) \notin U
  BY <1>1 DEF Unfreed, Left, Right
<1>4. PICK i \in Object : i < j /\ (Left(i) = j \/ Right(i) = j)
  BY <1>3, ChildFacts
<1>5. i \notin U
  <2>1. i \in Nat /\ j \in Nat
    BY <1>1
  <2> QED
    BY <1>2, <1>4, <2>1
<1> QED
  BY <1>3, <1>4, <1>5

LEMMA DeallocateEndStep ==
  ASSUME IInv, DeallocateEnd
  PROVE  IInv'
<1>1. /\ TypeOK /\ TypeOK' /\ UNCHANGED <<type, num, blocks, stack>>
      /\ stack = << >> /\ pc = "deallocate" /\ pc' = "recycled"
  BY DEF DeallocateEnd, IInv, TypeOK
<1>2. blocks = << >>
  <2>1. CASE IsList(type)
    <3>1. PICK k \in 0 .. num : blocks = [a \in k .. num - 1 |-> 1] /\ k = num
      BY <1>1, <2>1 DEF IInv, ListDeallocation
    <3>2. k .. num - 1 = {}
      BY <1>1, <3>1, NumType
    <3> QED
      BY <3>1, <3>2
  <2>2. CASE ~IsList(type)
    <3>1. PICK U \in SUBSET Object :
            /\ blocks = [a \in U |-> 1]
            /\ Unfreed(U, stack, FirstLink(type, num), SecondLink(type, num), num)
      BY <1>1, <2>2 DEF IInv, TreeDeallocation
    <3>2. U = {}
      BY <1>1, <2>2, <3>1, NothingLeft
    <3> QED
      BY <3>1, <3>2
  <2> QED
    BY <2>1, <2>2
<1> QED
  BY <1>1, <1>2 DEF IInv

LEMMA Inductive == IInv /\ [Next]_vars => IInv'
<1> SUFFICES ASSUME IInv, [Next]_vars PROVE IInv'
  OBVIOUS
<1>1. CASE Allocate
  BY <1>1, AllocateStep
<1>2. CASE TraverseBegin
  BY <1>2, TraverseBeginStep
<1>3. CASE Visit
  BY <1>3, VisitStep
<1>4. CASE TraverseEnd
  BY <1>4, TraverseEndStep
<1>5. CASE DeallocateCompact
  BY <1>5, DeallocateCompactStep
<1>6. CASE DeallocateBegin
  BY <1>6, DeallocateBeginStep
<1>7. CASE DeallocateListObject
  <2>1. IsList(type)
    BY <1>7, TreeStage DEF DeallocateListObject
  <2> QED
    BY <1>7, <2>1, DeallocateListObjectStep
<1>8. CASE DeallocateSubtree
  BY <1>8, DeallocateSubtreeStep
<1>9. CASE DeallocateEnd
  BY <1>9, DeallocateEndStep
<1>10. CASE UNCHANGED vars
  <2>1. UNCHANGED <<pc, type, num, left, right, blocks, stack, visited, written>>
    BY <1>10 DEF vars
  <2>2. TypeOK' = TypeOK
    BY <2>1 DEF TypeOK
  <2>3. Whole' = Whole
    BY <2>1 DEF Whole, Intact, Left, Right, Object
  <2>4. ListTraversal' = ListTraversal
    BY <2>1 DEF ListTraversal, Object
  <2>5. TreeTraversal' = TreeTraversal
    BY <2>1 DEF TreeTraversal, Met, Pending, Left, Right, Object
  <2>6. ListDeallocation' = ListDeallocation
    BY <2>1 DEF ListDeallocation, Intact, Left, Right
  <2>7. TreeDeallocation' = TreeDeallocation
    BY <2>1 DEF TreeDeallocation, Intact, Left, Right, Object
  <2> QED
    BY <2>1, <2>2, <2>3, <2>4, <2>5, <2>6, <2>7 DEF IInv
<1> QED
  BY <1>1, <1>2, <1>3, <1>4, <1>5, <1>6, <1>7, <1>8, <1>9, <1>10 DEF Next, Terminating

(* The invariant: the links of what is allocated are those of the shape;   *)
(* what a traversal has met and what it will go on with are different;     *)
(* and what a deallocation has freed is below what it will go on with.     *)
THEOREM Invariant == Spec => []IInv
<1>1. Init => IInv
  BY InitStep
<1>2. IInv /\ [Next]_vars => IInv'
  BY Inductive
<1> QED
  BY <1>1, <1>2, PTL DEF Spec

-----------------------------------------------------------------------------
LEMMA NothingLeaksHolds == IInv => NothingLeaks
  BY DEF IInv, NothingLeaks

(* A class that is recycled has given back every block it was allocated.   *)
THEOREM AllIsFreed == Spec => []NothingLeaks
  BY Invariant, NothingLeaksHolds, PTL

LEMMA ListsWriteHolds == IInv => ListsWriteEveryIth
<1> SUFFICES ASSUME IInv, pc = "traverse", stack = << >>, IsList(type),
                    WriteAccessRatio \in 1 .. 100, NEW i \in 0 .. num - 1
             PROVE  i \in written <=> i % (100 \div WriteAccessRatio) = 0
  BY DEF ListsWriteEveryIth
<1>1. ListTraversal /\ num \in Nat \ {0}
  BY NumType DEF IInv
<1>2. Len(visited) = num
  BY <1>1 DEF ListTraversal
<1>3. i \in written <=> WriteIthElement(i)
  BY <1>1, <1>2 DEF ListTraversal
<1>4. WriteIthElement(i) <=> i % (100 \div WriteAccessRatio) = 0
  <2>1. CASE WriteAccessRatio = 100
    <3>1. 100 \div WriteAccessRatio = 1 /\ i % 1 = 0
      BY <2>1
    <3> QED
      BY <2>1, <3>1 DEF WriteIthElement
  <2>2. CASE WriteAccessRatio # 100
    <3>1. WriteAccessRatio # 0 /\ ~(WriteAccessRatio >= 100)
      BY <2>2
    <3> DEFINE b == i % (100 \div WriteAccessRatio) = 0
    <3>2. WriteIthElement(i) <=> b
      BY <3>1, Zenon DEF WriteIthElement
    <3> QED
      BY <3>2
  <2> QED
    BY <2>1, <2>2
<1> QED
  BY <1>3, <1>4

(* With a write access ratio of 1 to 100 percent, a traversal of a list    *)
(* writes every (100 / ratio)-th object of it and no other.                *)
THEOREM EveryIthIsWritten == Spec => []ListsWriteEveryIth
  BY Invariant, ListsWriteHolds, PTL

LEMMA MemorySafeHolds == IInv => MemorySafe
<1> SUFFICES ASSUME IInv, NEW i \in 1 .. Len(stack), stack[i].node # Null
             PROVE  stack[i].node \in Allocated
  BY DEF MemorySafe
<1>1. TypeOK /\ num \in Nat \ {0} /\ Object \subseteq Nat
  BY NumType DEF IInv
<1>2. stack # << >>
  <2>1. Len(<< >>) = 0 /\ 1 .. 0 = {}
    OBVIOUS
  <2> QED
    BY <2>1
<1>3. CASE pc = "traverse" /\ IsList(type)
  <2>1. Allocated = Object
    BY <1>1, <1>3, WholeIsAllocated DEF IInv
  <2>2. visited \in Seq(Object) /\ Len(visited) <= num
        /\ stack = <<Call(IF Len(visited) = num THEN Null ELSE Len(visited), "visit")>>
    BY <1>2, <1>3 DEF IInv, ListTraversal
  <2>3. Len(visited) \in Nat
    BY <2>2, LenProperties
  <2>4. stack[i].node = IF Len(visited) = num THEN Null ELSE Len(visited)
    BY <2>2 DEF Call
  <2> QED
    BY <1>1, <2>1, <2>2, <2>3, <2>4 DEF Object
<1>4. CASE pc = "traverse" /\ ~IsList(type)
  <2>1. Allocated = Object
    BY <1>1, <1>4, WholeIsAllocated DEF IInv
  <2> DEFINE S == [node : Object \cup {Null}, stage : {"visit"}]
  <2>2. stack \in Seq(S)
    BY <1>4 DEF IInv, TreeTraversal
  <2>3. stack[i] \in S
    <3> HIDE DEF S
    <3> QED
      BY <2>2, ElementOfSeq
  <2> QED
    BY <2>1, <2>3
<1>5. CASE pc = "deallocate" /\ IsList(type)
  <2>1. PICK k \in 0 .. num :
          /\ blocks = [a \in k .. num - 1 |-> 1]
          /\ stack = <<Call(IF k = num THEN Null ELSE k, "next")>>
    BY <1>2, <1>5 DEF IInv, ListDeallocation
  <2>2. Allocated = k .. num - 1
    <3>1. k .. num - 1 \subseteq Int
      BY <1>1
    <3> QED
      BY <2>1, <3>1, AllocatedObjects
  <2>3. stack[i].node = IF k = num THEN Null ELSE k
    BY <2>1 DEF Call
  <2> QED
    BY <1>1, <2>2, <2>3
<1>6. CASE pc = "deallocate" /\ ~IsList(type)
  <2>1. PICK U \in SUBSET Object :
          /\ blocks = [a \in U |-> 1]
          /\ Path(stack, FirstLink(type, num), SecondLink(type, num), num)
          /\ Unfreed(U, stack, FirstLink(type, num), SecondLink(type, num), num)
    BY <1>6 DEF IInv, TreeDeallocation
  <2>2. Allocated = U
    BY <1>1, <2>1, AllocatedObjects
  <2> QED
    BY <1>1, <2>1, <2>2, PathInside
<1>7. pc \in {"traverse", "deallocate"}
  BY <1>1, <1>2 DEF IInv, TypeOK
<1> QED
  BY <1>3, <1>4, <1>5, <1>6, <1>7

(* Whatever a traversal or a deallocation will touch is allocated, or null. *)
THEOREM NoUseAfterFree == Spec => []MemorySafe
  BY Invariant, MemorySafeHolds, PTL

(* A sequence without repetition that holds all objects.                   *)
LEMMA LengthOfAll ==
  ASSUME NEW n \in Nat, NEW s \in Seq(0 .. n - 1),
         \A i, k \in 1 .. Len(s) : s[i] = s[k] => i = k,
         \A j \in 0 .. n - 1 : \E i \in 1 .. Len(s) : s[i] = j
  PROVE  Len(s) = n /\ ToSet(s) = 0 .. n - 1
<1> DEFINE D == 1 .. Len(s)
           T == 0 .. n - 1
<1>1. Len(s) \in Nat /\ DOMAIN s = D /\ s \in [D -> T]
  <2>1. s \in Seq(T)
    OBVIOUS
  <2> HIDE DEF T
  <2> QED
    BY <2>1, LenProperties
<1>2. ToSet(s) = T
  <2>1. \A i \in D : s[i] \in T
    BY <1>1
  <2>2. \A j \in T : \E i \in D : s[i] = j
    OBVIOUS
  <2> HIDE DEF T, D
  <2> QED
    BY <1>1, <2>1, <2>2 DEF ToSet
<1>3. IsFiniteSet(D) /\ Cardinality(D) = Len(s)
  BY <1>1, FS_Interval
<1>4. Cardinality(T) = n
  BY FS_Interval
<1>5. ExistsBijection(D, T)
  <2>1. /\ \A i, k \in D : s[i] = s[k] => i = k
        /\ \A j \in T : \E i \in D : s[i] = j
    OBVIOUS
  <2> HIDE DEF D, T
  <2>2. s \in Injection(D, T)
    BY <1>1, <2>1 DEF Injection, IsInjective
  <2>3. s \in Surjection(D, T)
    BY <1>1, <2>1 DEF Surjection
  <2> QED
    BY <2>2, <2>3 DEF ExistsBijection, Bijection
<1> HIDE DEF D, T
<1>6. Cardinality(T) = Cardinality(D)
  BY <1>3, <1>5, FS_Bijection
<1> QED
  BY <1>2, <1>3, <1>4, <1>6 DEF T

LEMMA VisitsEachOnceHolds == IInv => VisitsEachOnce
<1> SUFFICES ASSUME IInv, pc = "traverse", stack = << >>
             PROVE  /\ Len(visited) = num
                    /\ ToSet(visited) = 0 .. num - 1
                    /\ IsList(type) => \A i \in 1 .. num : visited[i] = i - 1
  BY DEF VisitsEachOnce
<1>1. TypeOK /\ num \in Nat \ {0} /\ Object \subseteq Nat /\ Object = 0 .. num - 1
  BY NumType DEF IInv, Object
<1>2. CASE IsList(type)
  <2>1. visited \in Seq(0 .. num - 1) /\ Len(visited) = num
        /\ \A i \in 1 .. num : visited[i] = i - 1
    BY <1>1, <1>2 DEF IInv, ListTraversal
  <2>2. \A j \in 0 .. num - 1 : j + 1 \in 1 .. num /\ visited[j + 1] = j
    BY <1>1, <2>1
  <2>3. \A i, k \in 1 .. Len(visited) : visited[i] = visited[k] => i = k
    BY <1>1, <2>1
  <2>4. \A j \in 0 .. num - 1 : \E i \in 1 .. Len(visited) : visited[i] = j
    BY <2>1, <2>2
  <2> QED
    BY <1>1, <2>1, <2>3, <2>4, LengthOfAll
<1>3. CASE ~IsList(type)
  <2>1. TreeTraversal /\ \A j : ~Pending(j)
    <3>1. Len(stack) = 0 /\ 1 .. 0 = {}
      OBVIOUS
    <3> QED
      BY <1>3, <3>1 DEF IInv, Pending, In
  <2>2. /\ Met(0)
        /\ \A i \in Object : Left(i) # Null => (Met(i) <=> Met(Left(i)))
        /\ \A i \in Object : Right(i) # Null => (Met(i) <=> Met(Right(i)))
    BY <2>1 DEF TreeTraversal
  <2>3. \A j \in Object : Met(j)
    <3> DEFINE T == {j \in Object : ~Met(j)}
    <3> SUFFICES ASSUME T # {} PROVE FALSE
      OBVIOUS
    <3>1. PICK j \in T : \A m \in T : j <= m
      <4>1. T \in SUBSET Nat
        BY <1>1
      <4> HIDE DEF T
      <4> QED
        BY <4>1, LeastNumber
    <3>2. j \in Object /\ ~Met(j) /\ j # 0
      BY <2>2
    <3>3. PICK i \in Object : i < j /\ (Left(i) = j \/ Right(i) = j)
      BY <1>1, <1>3, <3>2, ChildFacts
    <3>4. j # Null /\ ~Met(i)
      <4>1. j # Null
        BY <1>1, <3>2, NumType
      <4> QED
        BY <2>2, <3>2, <3>3, <4>1
    <3>5. i \in T /\ i \in Nat /\ j \in Nat
      BY <1>1, <3>2, <3>4
    <3> HIDE DEF T
    <3> QED
      BY <3>1, <3>3, <3>5
  <2>4. /\ visited \in Seq(0 .. num - 1)
        /\ \A i, k \in 1 .. Len(visited) : visited[i] = visited[k] => i = k
    BY <1>1, <2>1 DEF TreeTraversal
  <2>5. \A j \in 0 .. num - 1 : \E i \in 1 .. Len(visited) : visited[i] = j
    BY <1>1, <2>3 DEF Met
  <2> QED
    BY <1>1, <1>3, <2>4, <2>5, LengthOfAll
<1> QED
  BY <1>2, <1>3

(* A traversal that has ended has met every object of the class once, a    *)
(* list in the order of allocation.                                        *)
THEOREM EachObjectIsVisited == Spec => []VisitsEachOnce
  BY Invariant, VisitsEachOnceHolds, PTL

LEMMA RecursionBoundedHolds == IInv => RecursionBounded
<1> SUFFICES ASSUME IInv, pc = "deallocate", type = "BTREE", Len(stack) > 1
             PROVE  2 ^ (Len(stack) - 2) <= num
  BY DEF RecursionBounded
<1> DEFINE l == FirstLink(type, num)
           r == SecondLink(type, num)
           S == [node : (0 .. num - 1) \cup {Null}, stage : {"left", "right", "free"}]
           k == Len(stack) - 2
<1>1. TypeOK /\ num \in Nat \ {0} /\ num <= MaxObjects /\ MaxObjects \in Nat
  BY NumType, BoundAssumption DEF IInv, TypeOK, BoundAssumption
<1>2. Path(stack, l, r, num) /\ \E z : Sizes(z, l, r, num) /\ Shallow(stack, z, num)
  BY DEF IInv, TreeDeallocation, IsList
<1> HIDE DEF l, r
<1>3. PICK z : Sizes(z, l, r, num) /\ Shallow(stack, z, num)
  BY <1>2
<1>4. Len(stack) \in Nat /\ 2 \in 1 .. Len(stack) /\ stack[2] \in S
  <2>1. stack \in Seq(S)
    BY <1>2 DEF Path
  <2> HIDE DEF S
  <2>2. Len(stack) \in Nat
    BY <2>1, LenProperties
  <2>3. 2 \in 1 .. Len(stack)
    BY <2>2
  <2> QED
    BY <2>1, <2>2, <2>3, ElementOfSeq
<1> DEFINE t == stack[2].node
<1>5. t # Null /\ t >= k
  BY <1>2, <1>4 DEF Path
<1>6. t \in 0 .. num - 1 /\ k \in 0 .. MaxObjects
  BY <1>1, <1>4, <1>5
<1>7. z[t] \in Nat \ {0} /\ 2 ^ k * z[t] <= num
  BY <1>3, <1>4, <1>5, <1>6 DEF Sizes, Shallow
<1>8. 2 ^ k \in Nat
  BY <1>6, PowersAssumption DEF PowersAssumption
<1>9. ASSUME NEW a \in Nat, NEW b \in Nat \ {0}, NEW m \in Nat, a * b <= m PROVE a <= m
  <2>1. PICK d \in Nat : b = d + 1
    <3>1. b - 1 \in Nat /\ b = (b - 1) + 1
      OBVIOUS
    <3> QED
      BY <3>1
  <2>2. a * b = a * d + a /\ a * d \in Nat
    BY <2>1
  <2> QED
    BY <1>9, <2>2
<1> HIDE DEF k, t
<1>10. 2 ^ k <= num
  BY <1>1, <1>7, <1>8, <1>9
<1> QED
  BY <1>10 DEF k

(* The recursion that deallocates a tree of build_tree_recursion is no     *)
(* deeper than the logarithm of the number of its objects, plus two calls. *)
THEOREM TreesAreBalanced == Spec => []RecursionBounded
  BY Invariant, RecursionBoundedHolds, PTL
=============================================================================
