--------------------------- MODULE StartupProofs ----------------------------
(***************************************************************************)
(* Whatever the command line, the start of the benchmark is a sequence of  *)
(* requests to the metadata allocator; and what belongs to one thread      *)
(* shares no cache line with anything else, for every number of threads.   *)
(***************************************************************************)
EXTENDS Startup, TLAPS

-----------------------------------------------------------------------------
(***************************************************************************)
(* The metadata allocator hands out disjoint, aligned blocks inside its    *)
(* heap, whatever sizes and alignments are asked for in whatever order;    *)
(* and line-aligned buffers share no cache line with any other block.      *)
(***************************************************************************)
(* Quotients.                                                              *)
LEMMA Division ==
  ASSUME NEW x \in Int, NEW n \in Nat, n > 0
  PROVE  /\ x \div n \in Int
         /\ x % n \in Int
         /\ 0 <= x % n
         /\ x % n < n
         /\ x = n * (x \div n) + (x % n)
  BY SMTT(30)

LEMMA FactorBounds ==
  ASSUME NEW n \in Nat, n > 0, NEW q \in Int, NEW r \in Int
  PROVE  /\ n * q < n * r => q < r
         /\ n * q \in Int
         /\ n * (q + 1) = n * q + n
<1>1. ASSUME q >= r PROVE n * q >= n * r
  BY <1>1
<1> QED
  BY <1>1

LEMMA DivisionBounds ==
  ASSUME NEW x \in Nat, NEW n \in Nat, n > 0, NEW q \in Int
  PROVE  /\ x < n * q => x \div n < q
         /\ n * q <= x => q <= x \div n
<1> DEFINE d == x \div n
           m == x % n
<1>1. d \in Int /\ m \in Int /\ 0 <= m /\ m < n /\ x = n * d + m
  BY Division
<1> HIDE DEF d, m
<1>2. /\ n * d \in Int /\ n * q \in Int
      /\ n * (d + 1) = n * d + n
      /\ n * d < n * q => d < q
      /\ n * q < n * (d + 1) => q < d + 1
  BY <1>1, FactorBounds
<1>3. x < n * q => d < q
  BY <1>1, <1>2
<1>4. n * q <= x => q <= d
  BY <1>1, <1>2
<1> QED
  BY <1>3, <1>4 DEF d

(* align_address moves a pointer up, by less than the alignment, to a      *)
(* multiple of it.                                                         *)
LEMMA AlignAddressBounds ==
  ASSUME NEW ptr \in Nat, NEW alignment \in Nat, alignment > 0
  PROVE  /\ AlignAddress(ptr, alignment) \in Nat
         /\ ptr <= AlignAddress(ptr, alignment)
         /\ AlignAddress(ptr, alignment) <= ptr + (alignment - 1)
         /\ \E q \in Nat : AlignAddress(ptr, alignment) = alignment * q
<1> DEFINE x == ptr + (alignment - 1)
           q == x \div alignment
           m == x % alignment
<1>1. x \in Nat /\ x = ptr + alignment - 1
  OBVIOUS
<1>2. AlignAddress(ptr, alignment) = alignment * q
  BY DEF AlignAddress
<1> HIDE DEF x
<1>3. q \in Int /\ m \in Int /\ 0 <= m /\ m < alignment /\ x = alignment * q + m
  BY <1>1, Division
<1> HIDE DEF q, m
<1>4. alignment * q \in Int
  BY <1>3, FactorBounds
<1>5. ptr <= alignment * q /\ alignment * q <= x
  BY <1>1, <1>3, <1>4
<1>6. q \in Nat
  <2>1. q < 0 => alignment * (q + 1) <= 0
    BY <1>3
  <2>2. alignment * (q + 1) = alignment * q + alignment
    BY <1>3, FactorBounds
  <2> QED
    BY <1>3, <1>4, <1>5, <2>1, <2>2
<1> QED
  BY <1>1, <1>2, <1>4, <1>5, <1>6 DEF x

-----------------------------------------------------------------------------
(* The inductive invariant: everything handed out lies below the bump      *)
(* pointer, where the next chunk starts, and is aligned as asked for.      *)
BelowBump ==
  \A k \in 1 .. Len(blocks) : blocks[k].start + blocks[k].size <= bump

Aligned ==
  \A k \in 1 .. Len(blocks) : \E q \in Nat : blocks[k].start = blocks[k].align * q

HeapIInv == HeapTypeOK /\ BelowBump /\ Aligned /\ BlocksDisjoint /\ BlocksInHeap

LEMMA HeapInitIInv == HeapInit => HeapIInv
<1> SUFFICES ASSUME HeapInit PROVE HeapIInv
  OBVIOUS
<1>1. blocks = << >> /\ Len(blocks) = 0
  BY DEF HeapInit
<1>2. HeapTypeOK
  <2> DEFINE Block == [start : Nat, size : Nat, align : Alignments]
  <2>1. heap_end \in Nat /\ bump \in Nat /\ failed \in BOOLEAN
    BY DEF HeapInit
  <2>2. << >> \in Seq(Block)
    <3> HIDE DEF Block
    <3> QED
      OBVIOUS
  <2> QED
    BY <1>1, <2>1, <2>2 DEF HeapTypeOK
<1>3. BelowBump /\ Aligned /\ BlocksDisjoint /\ BlocksInHeap
  BY <1>1 DEF BelowBump, Aligned, BlocksDisjoint, BlocksInHeap
<1> QED
  BY <1>2, <1>3 DEF HeapIInv

(* The fields of a block are numbers.                                      *)
LEMMA BlockFields ==
  ASSUME HeapTypeOK, NEW k \in 1 .. Len(blocks)
  PROVE  /\ blocks[k].start \in Nat
         /\ blocks[k].size \in Nat
         /\ blocks[k].align \in Nat
<1> DEFINE Block == [start : Nat, size : Nat, align : Alignments]
<1>1. blocks[k] \in Block
  <2>1. blocks \in Seq(Block)
    BY DEF HeapTypeOK
  <2> HIDE DEF Block
  <2> QED
    BY <2>1
<1> QED
  BY <1>1, LineAssumption DEF LineAssumption, Alignments, DefaultAlignment

LEMMA HeapNextIInv == HeapIInv /\ [HeapNext]_heapVars => HeapIInv'
<1> SUFFICES ASSUME HeapIInv, [HeapNext]_heapVars
             PROVE  HeapIInv'
  OBVIOUS
<1>1. ASSUME NEW size \in Nat, NEW alignment \in Alignments, Malloc(size, alignment)
      PROVE  HeapIInv'
  <2>1. /\ size \in Nat
        /\ alignment \in Nat
        /\ alignment > 0
        /\ heap_end \in Nat
        /\ heap_end' = heap_end
        /\ bump \in Nat
    BY <1>1, LineAssumption DEF LineAssumption, Alignments, DefaultAlignment, HeapIInv, HeapTypeOK, Malloc
  <2>2. bump' = bump + (size + (alignment - 1)) /\ bump' \in Nat /\ bump <= bump'
    BY <1>1, <2>1 DEF Malloc, ChunkSize
  <2>3. CASE bump' >= heap_end
    <3>1. blocks' = blocks /\ failed' = TRUE
      BY <1>1, <2>1, <2>2, <2>3 DEF Malloc
    <3>2. HeapTypeOK'
      BY <2>1, <2>2, <3>1 DEF HeapIInv, HeapTypeOK
    <3>3. BelowBump'
      <4> SUFFICES ASSUME NEW k \in 1 .. Len(blocks)
                   PROVE  blocks[k].start + blocks[k].size <= bump'
        BY <3>1 DEF BelowBump
      <4>1. blocks[k].start \in Nat /\ blocks[k].size \in Nat
        BY BlockFields DEF HeapIInv
      <4>2. blocks[k].start + blocks[k].size <= bump
        BY DEF HeapIInv, BelowBump
      <4> QED
        BY <2>1, <2>2, <4>1, <4>2
    <3>4. Aligned' /\ BlocksDisjoint' /\ BlocksInHeap'
      BY <2>1, <3>1 DEF HeapIInv, Aligned, BlocksDisjoint, BlocksInHeap
    <3> QED
      BY <3>2, <3>3, <3>4 DEF HeapIInv
  <2>4. CASE bump' < heap_end
    <3> DEFINE start == AlignAddress(bump, alignment)
               block == [start |-> start, size |-> size, align |-> alignment]
    <3>1. /\ start \in Nat
          /\ bump <= start
          /\ start + size <= bump'
          /\ \E q \in Nat : start = alignment * q
      <4>1. /\ start \in Nat
            /\ bump <= start
            /\ start <= bump + (alignment - 1)
            /\ \E q \in Nat : start = alignment * q
        BY <2>1, AlignAddressBounds
      <4> HIDE DEF start
      <4> QED
        BY <4>1, <2>1, <2>2
    <3>2. blocks' = Append(blocks, block) /\ failed' = failed
      BY <1>1, <2>1, <2>2, <2>4 DEF Malloc
    <3> HIDE DEF start
    <3>3. HeapTypeOK'
      BY <2>1, <2>2, <3>1, <3>2 DEF HeapIInv, HeapTypeOK
    <3> DEFINE n == Len(blocks)
    <3>4. /\ n \in Nat
          /\ Len(blocks') = n + 1
          /\ \A k \in 1 .. n : blocks'[k] = blocks[k]
          /\ blocks'[n + 1] = block
      BY <3>2 DEF HeapIInv, HeapTypeOK
    <3>5. \A k \in 1 .. n : blocks[k].start \in Nat /\ blocks[k].size \in Nat
      BY BlockFields DEF HeapIInv
    <3> HIDE DEF n
    <3>6. \A k \in 1 .. n + 1 : k \in 1 .. n \/ k = n + 1
      BY <3>4
    <3>7. \A k \in 1 .. n : blocks[k].start + blocks[k].size <= bump
      BY DEF HeapIInv, BelowBump, n
    <3>8. BelowBump'
      BY <2>1, <2>2, <3>1, <3>4, <3>5, <3>6, <3>7 DEF BelowBump
    <3>9. Aligned'
      BY <3>1, <3>4, <3>6 DEF HeapIInv, Aligned, n
    <3>10. BlocksDisjoint'
      <4> SUFFICES ASSUME NEW j \in 1 .. n + 1, NEW k \in 1 .. n + 1, j < k
                   PROVE  blocks'[j].start + blocks'[j].size <= blocks'[k].start
        BY <3>4 DEF BlocksDisjoint
      <4>1. CASE k \in 1 .. n
        <5>1. j \in 1 .. n
          BY <4>1, <3>4
        <5> QED
          BY <4>1, <5>1, <3>4 DEF HeapIInv, BlocksDisjoint, n
      <4>2. CASE k = n + 1
        <5>1. j \in 1 .. n
          BY <4>2, <3>4
        <5>2. blocks'[k].start = start
          BY <4>2, <3>4
        <5>3. blocks'[j] = blocks[j]
          BY <5>1, <3>4
        <5>4. blocks[j].start \in Nat /\ blocks[j].size \in Nat /\ blocks[j].start + blocks[j].size <= bump
          BY <5>1, <3>5, <3>7
        <5> QED
          BY <2>1, <3>1, <5>2, <5>3, <5>4
      <4> QED
        BY <4>1, <4>2, <3>6
    <3>11. BlocksInHeap'
      <4> SUFFICES ASSUME NEW k \in 1 .. n + 1
                   PROVE  blocks'[k].start + blocks'[k].size < heap_end'
        BY <3>4 DEF BlocksInHeap
      <4>1. CASE k \in 1 .. n
        BY <2>1, <4>1, <3>4 DEF HeapIInv, BlocksInHeap, n
      <4>2. CASE k = n + 1
        BY <2>1, <2>2, <2>4, <3>1, <3>4, <4>2
      <4> QED
        BY <4>1, <4>2, <3>6
    <3> QED
      BY <3>3, <3>8, <3>9, <3>10, <3>11 DEF HeapIInv
  <2> QED
    BY <2>1, <2>2, <2>3, <2>4
<1>2. ASSUME NEW heapsize \in Nat, InitMetadataHeap(heapsize)
      PROVE  HeapIInv'
  <2>1. Len(blocks) = 0
    <3>1. Len(blocks) \in Nat
      BY DEF HeapIInv, HeapTypeOK
    <3>2. ~ (1 \in 1 .. Len(blocks))
      <4> SUFFICES ASSUME 1 \in 1 .. Len(blocks) PROVE FALSE
        OBVIOUS
      <4>1. blocks[1].start \in Nat /\ blocks[1].size \in Nat
        BY BlockFields DEF HeapIInv
      <4>2. blocks[1].start + blocks[1].size < 0
        BY <1>2 DEF HeapIInv, BlocksInHeap, InitMetadataHeap
      <4> QED
        BY <4>1, <4>2
    <3> QED
      BY <3>1, <3>2
  <2>2. blocks' = blocks
    BY <1>2 DEF InitMetadataHeap
  <2>3. HeapTypeOK'
    BY <1>2, <2>2 DEF InitMetadataHeap, HeapIInv, HeapTypeOK
  <2>4. BelowBump' /\ Aligned' /\ BlocksDisjoint' /\ BlocksInHeap'
    BY <2>1, <2>2 DEF BelowBump, Aligned, BlocksDisjoint, BlocksInHeap
  <2> QED
    BY <2>3, <2>4 DEF HeapIInv
<1>3. CASE UNCHANGED heapVars
  BY <1>3 DEF heapVars, HeapIInv, HeapTypeOK, BelowBump, Aligned, BlocksDisjoint, BlocksInHeap
<1> QED
  BY <1>1, <1>2, <1>3 DEF HeapNext

LEMMA HeapInductive == HeapSpec => []HeapIInv
  BY HeapInitIInv, HeapNextIInv, PTL DEF HeapSpec

(* No byte of the metadata heap is handed out twice.                       *)
THEOREM BlocksAreDisjoint == HeapSpec => []BlocksDisjoint
<1>1. HeapIInv => BlocksDisjoint
  BY DEF HeapIInv
<1> QED
  BY <1>1, HeapInductive, PTL

(* Every block ends before the heap does.                                  *)
THEOREM BlocksAreInHeap == HeapSpec => []BlocksInHeap
<1>1. HeapIInv => BlocksInHeap
  BY DEF HeapIInv
<1> QED
  BY <1>1, HeapInductive, PTL

(* A buffer that is aligned to cache lines and fills them shares none of   *)
(* them: nodes and classes of different threads lie on different lines.    *)
THEOREM LinesAreNotShared == HeapSpec => []LinesNotShared
<1>1. HeapIInv => LinesNotShared
  <2> SUFFICES ASSUME HeapIInv,
                      NEW j \in 1 .. Len(blocks), NEW k \in 1 .. Len(blocks),
                      j # k,
                      blocks[j].align = LineSize,
                      blocks[j].size % LineSize = 0,
                      blocks[j].size > 0,
                      blocks[k].size > 0
               PROVE  \/ LastLine(blocks[j]) < FirstLine(blocks[k])
                      \/ LastLine(blocks[k]) < FirstLine(blocks[j])
    BY DEF LinesNotShared
  <2> DEFINE L == LineSize
             b == blocks[j].start
             s == blocks[j].size
             c == blocks[k].start
             t == blocks[k].size
  <2>1. L \in Nat /\ L > 0
    BY LineAssumption DEF LineAssumption
  <2>2. b \in Nat /\ s \in Nat /\ c \in Nat /\ t \in Nat
    BY BlockFields DEF HeapIInv
  <2>3. PICK q \in Nat : b = L * q
    BY DEF HeapIInv, Aligned
  <2>4. b + s <= c \/ c + t <= b
    BY DEF HeapIInv, BlocksDisjoint, HeapTypeOK
  <2>5. /\ FirstLine(blocks[j]) = b \div L
        /\ LastLine(blocks[j]) = (b + s - 1) \div L
        /\ FirstLine(blocks[k]) = c \div L
        /\ LastLine(blocks[k]) = (c + t - 1) \div L
    BY DEF FirstLine, LastLine
  <2>6. s > 0 /\ t > 0 /\ s % L = 0
    OBVIOUS
  <2> HIDE DEF L, b, s, c, t
  <2> DEFINE m == s \div L
  <2>7. m \in Int /\ s = L * m
    BY <2>1, <2>2, <2>6, Division
  <2> HIDE DEF m
  <2>8. L * (q + m) = b + s
    BY <2>1, <2>3, <2>7
  <2>9. CASE b + s <= c
    <3>1. (b + s - 1) \div L < q + m
      <4>1. b + s - 1 \in Nat /\ b + s - 1 < L * (q + m) /\ q + m \in Int
        BY <2>2, <2>6, <2>7, <2>8
      <4> QED
        BY <4>1, <2>1, DivisionBounds
    <3>2. q + m <= c \div L
      <4>1. L * (q + m) <= c /\ q + m \in Int
        BY <2>7, <2>8, <2>9
      <4> QED
        BY <4>1, <2>1, <2>2, DivisionBounds
    <3>3. (b + s - 1) \div L \in Int /\ c \div L \in Int
      BY <2>1, <2>2, <2>6
    <3> QED
      BY <3>1, <3>2, <3>3, <2>5, <2>7
  <2>10. CASE c + t <= b
    <3>1. (c + t - 1) \div L < q
      <4>1. c + t - 1 \in Nat /\ c + t - 1 < L * q
        BY <2>2, <2>3, <2>6, <2>10
      <4> QED
        BY <4>1, <2>1, DivisionBounds
    <3>2. q <= b \div L
      BY <2>1, <2>2, <2>3, DivisionBounds
    <3>3. (c + t - 1) \div L \in Int /\ b \div L \in Int
      BY <2>1, <2>2, <2>6
    <3> QED
      BY <3>1, <3>2, <3>3, <2>5
  <2> QED
    BY <2>4, <2>9, <2>10
<1> QED
  BY <1>1, HeapInductive, PTL

-----------------------------------------------------------------------------
(* What the machine makes of a number: an int or an unsigned long, and the *)
(* number itself if it is one.                                             *)
LEMMA Machine ==
  /\ IntSign \in Nat /\ IntSign > 0
  /\ IntMax \in Nat /\ IntMax < ULongRange
  /\ ULongRange \in Nat /\ ULongRange > 0
<1>1. IntBits - 1 \in 0 .. IntBits - 1
  BY IntAssumption DEF IntAssumption
<1>2. IntSign \in Nat \ {0}
  BY <1>1, IntAssumption DEF IntAssumption, IntSign
<1>3. ULongRange \in Nat /\ ULongRange >= 2 * IntSign
  BY IntAssumption DEF IntAssumption
<1> QED
  BY <1>2, <1>3 DEF IntMax

LEMMA Remainder ==
  ASSUME NEW x \in Nat, NEW n \in Nat, x < n
  PROVE  x % n = x
<1>1. /\ x \div n \in Int /\ x % n \in Int
      /\ 0 <= x % n /\ x % n < n /\ x = n * (x \div n) + (x % n)
  BY Division
<1> DEFINE q == x \div n
           r == x % n
<1> HIDE DEF q, r
<1>2. q \in Int /\ r \in Int /\ 0 <= r /\ r < n /\ x = n * q + r
  BY <1>1 DEF q, r
<1>3. q >= 1 => n * q >= n
  BY <1>2
<1>4. q <= -1 => n * q <= -n
  BY <1>2
<1>5. q = 0
  BY <1>2, <1>3, <1>4
<1> QED
  BY <1>2, <1>5 DEF r

LEMMA ToIntKept ==
  ASSUME NEW x \in Int
  PROVE  /\ ToInt(x) \in Int
         /\ x \in 0 .. IntMax => ToInt(x) = x
<1> DEFINE n == 2 * IntSign
           y == x + IntSign
<1>1. n \in Nat /\ n > 0 /\ y \in Int /\ IntSign \in Nat
  BY Machine
<1>2. x \in 0 .. IntMax => y \in Nat /\ y < n
  BY Machine DEF IntMax
<1>3. ToInt(x) = (y % n) - IntSign
  BY DEF ToInt
<1> HIDE DEF n, y
<1>4. y % n \in Int
  BY <1>1, Division
<1>5. x \in 0 .. IntMax => y % n = y
  BY <1>1, <1>2, Remainder
<1> QED
  BY <1>1, <1>3, <1>4, <1>5 DEF y

LEMMA ToULongKept ==
  ASSUME NEW x \in Int
  PROVE  /\ ToULong(x) \in Nat
         /\ x \in Nat /\ x < ULongRange => ToULong(x) = x
<1>1. x % ULongRange \in Int /\ 0 <= x % ULongRange
  BY Machine, Division
<1>2. x \in Nat /\ x < ULongRange => x % ULongRange = x
  BY Machine, Remainder
<1> QED
  BY <1>1, <1>2 DEF ToULong

LEMMA CastKept ==
  ASSUME NEW x \in Int
  PROVE  /\ CastToInt(x) \in Int
         /\ x \in 0 .. IntMax => CastToInt(x) = x
  BY Machine DEF CastToInt, IntMin, IntMax

LEMMA TruncatedInt ==
  ASSUME NEW a \in Int, NEW b \in Int, b # 0
  PROVE  /\ Truncated(a, b) \in Int
         /\ a >= 0 /\ b > 0 => Truncated(a, b) = a \div b
<1>1. CASE b > 0
  <2>1. a \div b \in Int /\ (-a) \div b \in Int
    BY <1>1, Division
  <2> QED
    BY <1>1, <2>1 DEF Truncated
<1>2. CASE b < 0
  <2>1. a \div (-b) \in Int /\ (-a) \div (-b) \in Int
    BY <1>2, Division
  <2> QED
    BY <1>2, <2>1 DEF Truncated
<1> QED
  BY <1>1, <1>2

LEMMA OneShiftedInt == ASSUME NEW k \in Nat PROVE OneShifted(k) \in Int
<1>1. k % IntBits \in 0 .. IntBits - 1
  <2>1. IntBits \in Nat /\ IntBits > 0
    BY IntAssumption DEF IntAssumption
  <2>2. k % IntBits \in Int /\ 0 <= k % IntBits /\ k % IntBits < IntBits
    BY <2>1, Division
  <2> QED
    BY <2>1, <2>2
<1>2. 2^(k % IntBits) \in Int
  BY <1>1, IntAssumption DEF IntAssumption
<1> QED
  BY <1>2, ToIntKept DEF OneShifted

-----------------------------------------------------------------------------
(* What getopt returns.                                                    *)
LEMMA OptionFields ==
  ASSUME NEW o \in Option
  PROVE  \/ o[1] = "help"
         \/ o[1] \in NumberOptions /\ o[2] \in Nat
         \/ o[1] = "max_time_gap" /\ o[2] \in Nat
         \/ o[1] \in Fields \ (NumberOptions \cup {"max_time_gap"})
<1>0. Numbers \subseteq Nat /\ 0 .. ULongRange - 1 \subseteq Nat
  BY Machine DEF Numbers
<1>1. CASE o \in (NumberOptions \ {"time_quantum"}) \X Numbers
  BY <1>0, <1>1
<1>7. CASE o \in {"time_quantum"} \X (0 .. ULongRange - 1)
  BY <1>0, <1>7 DEF NumberOptions
<1>2. CASE o \in Flags \X {TRUE}
  BY <1>2 DEF Flags, Fields, DefaultParams, NumberOptions
<1>3. CASE o \in {"max_time_gap"} \X Numbers
  BY <1>0, <1>3
<1>4. CASE o \in {"mode"} \X {"ACDC", "FS"}
  BY <1>4 DEF Fields, DefaultParams, NumberOptions
<1>5. CASE o \in {"allocator_name"} \X {"nulloc", "compact", "other"}
  BY <1>5 DEF Fields, DefaultParams, NumberOptions
<1>6. CASE o = <<"help", TRUE>>
  BY <1>6
<1> QED
  BY <1>1, <1>2, <1>3, <1>4, <1>5, <1>6, <1>7 DEF Option

LEMMA NumberFields == NumberOptions \subseteq Fields /\ "max_time_gap" \in Fields \ NumberOptions
  BY DEF NumberOptions, Fields, DefaultParams

(* Options with numbers where numbers belong.                              *)
Typed(g) ==
  /\ DOMAIN g = Fields
  /\ \A field \in NumberOptions : g[field] \in Nat
  /\ g.max_time_gap \in Int

LEMMA DefaultsTyped == Typed(DefaultParams)
  BY DEF Typed, Fields, DefaultParams, NumberOptions

LEMMA OptionTyped ==
  ASSUME NEW g, Typed(g), NEW o \in Option, o[1] # "help"
  PROVE  Typed([g EXCEPT ![o[1]] = o[2]])
  BY OptionFields, NumberFields DEF Typed

-----------------------------------------------------------------------------
(* Arithmetic of the estimate.                                             *)
LEMMA Product == ASSUME NEW a \in Nat, NEW b \in Nat PROVE a * b \in Nat
  OBVIOUS

LEMMA Quotient == ASSUME NEW a \in Nat, NEW b \in Int, b > 0 PROVE a \div b \in Nat
<1>1. a \div b \in Int /\ a % b \in Int /\ a % b < b /\ a = b * (a \div b) + (a % b)
  BY Division
<1> DEFINE q == a \div b
           r == a % b
<1> HIDE DEF q, r
<1>2. q < 0 => b * (q + 1) <= 0 /\ b * (q + 1) = b * q + b
  BY <1>1, FactorBounds DEF q, r
<1>3. q \in Int /\ r \in Int /\ r < b /\ a = b * q + r /\ b * q \in Int
  BY <1>1, FactorBounds DEF q, r
<1> QED
  BY <1>2, <1>3 DEF q

LEMMA ClassBytesInt ==
  ASSUME NEW g, Typed(g)
  PROVE  ClassBytes32(g) \in Int
<1> DEFINE e == SizeClass2(g) \div 2
           p == OneShifted(e) + OneShifted(e + 1)
           x == g.max_liveness - g.min_liveness + 2
           y == g.max_object_sc - g.min_object_sc + 2
           c == ClassBytes32(g)
<1>1. /\ g.max_liveness \in Nat /\ g.min_liveness \in Nat
      /\ g.max_object_sc \in Nat /\ g.min_object_sc \in Nat
  BY DEF Typed, NumberOptions
<1>2. x \in Int /\ y \in Int
  BY <1>1
<1>3. p \in Int
  <2>1. e \in Nat
    BY <1>1, Quotient DEF SizeClass2
  <2> HIDE DEF e
  <2>2. OneShifted(e) \in Int /\ OneShifted(e + 1) \in Int
    BY <2>1, OneShiftedInt
  <2> QED
    BY <2>2
<1>4. c = p * (x * x) * (y * y)
  BY DEF ClassBytes32
<1> HIDE DEF x, y, p, c
<1>5. c \in Int
  BY <1>2, <1>3, <1>4
<1> QED
  BY <1>5 DEF c

(* The products that the estimate divides.                                 *)
LEMMA ExpectedClassesInt ==
  ASSUME NEW g, Typed(g), g.max_time_gap \in Nat
  PROVE  ExpectedClasses(g) \in Int
<1>1. /\ g.max_liveness \in Nat /\ g.min_liveness \in Nat /\ g.time_quantum \in Nat
      /\ g.num_threads \in Nat /\ g.shared_objects_ratio \in Nat
  BY DEF Typed, NumberOptions
<1>2. CASE ClassBytes32(g) = 0
  BY <1>2, Machine DEF ExpectedClasses
<1>3. CASE ClassBytes32(g) # 0
  <2> DEFINE c == ClassBytes32(g)
             l == Liveness2(g)
             q == g.time_quantum
             t == 2 * g.max_time_gap + l
             r == ToInt(g.num_threads * g.shared_objects_ratio)
             m == 100 + r
  <2>1. c \in Int /\ c # 0
    BY <1>3, ClassBytesInt
  <2>2. l \in Int /\ q \in Int /\ t \in Int
    BY <1>1 DEF Liveness2
  <2>3. m \in Int
    <3>1. g.num_threads * g.shared_objects_ratio \in Int
      BY <1>1, Product
    <3>2. r \in Int
      BY <3>1, ToIntKept
    <3> HIDE DEF r
    <3> QED
      BY <3>2
  <2>4. ExpectedClasses(g) = IF g.shared_objects THEN Truncated(4 * l * q * t * m, 25 * c)
                             ELSE Truncated(16 * l * l * q, c)
    BY <1>3 DEF ExpectedClasses
  <2> HIDE DEF c, l, q, t, m
  <2>5. 25 * c \in Int /\ 25 * c # 0
    BY <2>1
  <2>6. 4 * l * q * t * m \in Int /\ 16 * l * l * q \in Int
    BY <2>2, <2>3
  <2> DEFINE a1 == 4 * l * q * t * m
             a2 == 16 * l * l * q
             b == 25 * c
  <2> HIDE DEF a1, a2, b
  <2>7. Truncated(a1, b) \in Int /\ Truncated(a2, c) \in Int
    BY <2>1, <2>5, <2>6, TruncatedInt DEF a1, a2, b
  <2> QED
    BY <2>4, <2>7 DEF a1, a2, b
<1> QED
  BY <1>2, <1>3

LEMMA EstimateNat ==
  ASSUME NEW g, Typed(g), g.max_time_gap \in Nat
  PROVE  /\ ClassBufferSize(g) \in Nat
         /\ NodeBufferSize(g) \in Nat
         /\ BufferMBs(g) \in Nat
         /\ MetadataHeapSize(g) \in Nat
<1> DEFINE c == ClassBufferSize(g)
           n == NodeBufferSize(g)
           t == g.num_threads
<1>1. t \in Nat /\ g.receiving_threads_ratio \in Nat
  BY DEF Typed, NumberOptions
<1>2. c \in Nat
  <2> DEFINE e == CastToInt(ExpectedClasses(g))
  <2>1. e \in Int
    BY ExpectedClassesInt, CastKept
  <2> HIDE DEF e
  <2>2. ToInt(2 * e) \in Int
    BY <2>1, ToIntKept
  <2>3. ToULong(ToInt(2 * e)) \in Nat
    BY <2>2, ToULongKept
  <2> QED
    BY <2>3 DEF e, ClassBufferSize
<1>3. n \in Nat
  <2> DEFINE r == ToInt(t * g.receiving_threads_ratio)
             a == c * r
             rn == ReceivedNodes(g)
  <2>1. n = IF g.shared_objects THEN ToULong(c + rn) ELSE c
    BY DEF NodeBufferSize
  <2>2. rn = CastToInt(Truncated(a, 100))
    BY DEF ReceivedNodes
  <2>3. r \in Int
    <3>1. t * g.receiving_threads_ratio \in Int
      BY <1>1, Product
    <3> QED
      BY <3>1, ToIntKept
  <2> HIDE DEF c, n, r, rn
  <2>4. a \in Int
    BY <1>2, <2>3
  <2> HIDE DEF a
  <2>5. rn \in Int
    <3>1. Truncated(a, 100) \in Int
      BY <2>4, TruncatedInt
    <3> QED
      BY <2>2, <3>1, CastKept
  <2>6. ToULong(c + rn) \in Nat
    BY <1>2, <2>5, ToULongKept
  <2> QED
    BY <1>2, <2>1, <2>6
<1>4. BufferMBs(g) \in Nat
  <2> DEFINE s == ToULong(c * LineSize) + ToULong(n * LineSize)
  <2>1. BufferMBs(g) = ToULong(s * t) \div MB
    BY DEF BufferMBs
  <2>2. LineSize \in Nat
    BY LineAssumption DEF LineAssumption
  <2> HIDE DEF c, n, t
  <2>3. c * LineSize \in Int /\ n * LineSize \in Int
    BY <1>2, <1>3, <2>2, Product
  <2>4. s \in Nat
    BY <2>3, ToULongKept
  <2> HIDE DEF s
  <2>5. s * t \in Int
    BY <1>1, <2>4, Product DEF t
  <2>6. ToULong(s * t) \in Nat
    BY <2>5, ToULongKept
  <2>7. MB \in Int /\ MB > 0
    BY SMT DEF MB
  <2> QED
    BY <2>1, <2>6, <2>7, Quotient
<1>5. MetadataHeapSize(g) \in Nat
  BY <1>1, <1>4, ToULongKept DEF MetadataHeapSize
<1> QED
  BY <1>2, <1>3, <1>4, <1>5

(* check_params leaves numbers behind, and a time gap.                     *)
LEMMA CheckedTyped ==
  ASSUME NEW g, Typed(g)
  PROVE  /\ Typed(WithAllocator(Completed(g)))
         /\ WithAllocator(Completed(g)).max_time_gap \in Nat
<1> DEFINE m == ModeParams(g)
           d == DerivedParams(g)
           c == Completed(g)
<1>1. Typed(m) /\ m.max_time_gap = g.max_time_gap
  BY DEF Typed, ModeParams, NumberOptions, Fields, DefaultParams
<1>2. Typed(d) /\ d.max_time_gap \in Nat
  <2>1. g.max_liveness \in Nat
    BY DEF Typed, NumberOptions
  <2>2. d = [m EXCEPT !.btree_based_ratio = 100 - g.list_based_ratio,
                      !.max_time_gap = IF @ < 0 THEN g.max_liveness ELSE @]
    BY DEF DerivedParams
  <2> HIDE DEF d, m
  <2> QED
    BY <1>1, <2>1, <2>2 DEF Typed, NumberOptions, Fields, DefaultParams
<1>3. Typed(c) /\ c.max_time_gap \in Nat
  <2>1. c = d \/ c = Autodetected(d)
    BY DEF Completed
  <2>2. Autodetected(d) = [d EXCEPT !.class_buffer_size = ClassBufferSize(d),
                                    !.node_buffer_size = NodeBufferSize(d),
                                    !.metadata_heap_sz = MetadataHeapSize(d)]
    BY DEF Autodetected
  <2>3. /\ ClassBufferSize(d) \in Nat
        /\ NodeBufferSize(d) \in Nat
        /\ MetadataHeapSize(d) \in Nat
    <3> HIDE DEF d
    <3> QED
      BY <1>2, EstimateNat
  <2> DEFINE a == Autodetected(d)
  <2> HIDE DEF c, d, a
  <2>4. DOMAIN a = DOMAIN d
    BY <2>2 DEF a
  <2>5. \A field \in Fields : a[field] =
          CASE field = "class_buffer_size" -> ClassBufferSize(d)
            [] field = "node_buffer_size" -> NodeBufferSize(d)
            [] field = "metadata_heap_sz" -> MetadataHeapSize(d)
            [] OTHER -> d[field]
    BY <1>2, <2>2 DEF a, Typed
  <2>6. Typed(a) /\ a.max_time_gap = d.max_time_gap
    BY <1>2, <2>3, <2>4, <2>5, NumberFields DEF Typed
  <2> QED
    BY <1>2, <2>1, <2>6 DEF a
<1>4. WithAllocator(c) =
        [c EXCEPT !.do_baseline_rss = @ \/ c.allocator_name = "nulloc",
                  !.use_compact_allocation = @ \/ c.allocator_name = "compact"]
  BY DEF WithAllocator
<1> HIDE DEF c
<1>5. Typed(WithAllocator(c)) /\ WithAllocator(c).max_time_gap \in Nat
  BY <1>3, <1>4 DEF Typed, NumberOptions, Fields, DefaultParams
<1> QED
  BY <1>5 DEF c

-----------------------------------------------------------------------------
(* What run_acdc asks for are numbers of bytes, and every context starts   *)
(* on a line.                                                              *)
LEMMA RequestsTyped ==
  ASSUME NEW g, Typed(g)
  PROVE  /\ \A i \in 1 .. Globals :
              GlobalRequests(g)[i].size \in Nat /\ GlobalRequests(g)[i].align \in Alignments
         /\ \A i \in 1 .. PerContext :
              ContextRequests(g)[i].size \in Nat /\ ContextRequests(g)[i].align \in Alignments
         /\ ContextRequests(g)[1].align = LineSize
<1>1. /\ g.num_threads \in Nat /\ g.max_liveness \in Nat /\ g.max_object_sc \in Nat
      /\ g.deallocation_delay \in Nat /\ g.node_buffer_size \in Nat /\ g.class_buffer_size \in Nat
  BY DEF Typed, NumberOptions
<1>2. LineSize * g.node_buffer_size \in Nat /\ LineSize * g.class_buffer_size \in Nat
  BY <1>1, LineAssumption, Product DEF LineAssumption
<1>3. ASSUME NEW i \in 1 .. Globals
      PROVE  GlobalRequests(g)[i].size \in Nat /\ GlobalRequests(g)[i].align \in Alignments
  <2>1. i \in {1, 2, 3, 4, 5}
    BY <1>3 DEF Globals
  <2> QED
    BY <1>1, <2>1 DEF GlobalRequests, Request, Alignments
<1>4. ASSUME NEW i \in 1 .. PerContext
      PROVE  ContextRequests(g)[i].size \in Nat /\ ContextRequests(g)[i].align \in Alignments
  <2>1. i \in {1, 2, 3, 4, 5, 6, 7, 8, 9}
    BY <1>4 DEF PerContext
  <2> QED
    BY <1>1, <1>2, <2>1 DEF ContextRequests, Request, Alignments
<1>5. ContextRequests(g)[1].align = LineSize
  BY DEF ContextRequests, Request
<1> QED
  BY <1>3, <1>4, <1>5

(* The position of a request in its context.                               *)
LEMMA Position ==
  ASSUME NEW k \in Nat, k >= Globals
  PROVE  ((k - Globals) % PerContext) + 1 \in 1 .. PerContext
  BY DEF Globals, PerContext

-----------------------------------------------------------------------------
(* Every step of the start is a step of the allocator, or none of its      *)
(* business.                                                               *)
GlobalsFirst == phase = "contexts" => Len(blocks) >= Globals

LEMMA HeapStep ==
  ASSUME TypeOK, GlobalsFirst, [Next]_vars
  PROVE  [HeapNext]_heapVars
<1>1. Typed(gopts) /\ Len(blocks) \in Nat
  BY DEF TypeOK, Typed, HeapTypeOK
<1>2. CASE MapHeap
  <2>1. ToULong(gopts.metadata_heap_sz * MB) \in Nat
    <3>1. gopts.metadata_heap_sz \in Nat /\ MB \in Nat
      BY <1>1, SMT DEF Typed, NumberOptions, MB
    <3>2. gopts.metadata_heap_sz * MB \in Nat
      BY <3>1, Product
    <3> QED
      BY <3>2, ToULongKept
  <2> QED
    BY <1>2, <2>1 DEF MapHeap, HeapNext
<1>3. CASE AllocateGlobal
  <2>1. Len(blocks) + 1 \in 1 .. Globals
    BY <1>1, <1>3 DEF AllocateGlobal, Globals
  <2> DEFINE request == GlobalRequests(gopts)[Len(blocks) + 1]
  <2>2. request.size \in Nat /\ request.align \in Alignments
    BY <1>1, <2>1, RequestsTyped
  <2>3. Malloc(request.size, request.align)
    BY <1>3 DEF AllocateGlobal
  <2> QED
    BY <2>2, <2>3 DEF HeapNext
<1>4. CASE AllocateContext
  <2> DEFINE request == ContextRequests(gopts)[((Len(blocks) - Globals) % PerContext) + 1]
  <2>1. ((Len(blocks) - Globals) % PerContext) + 1 \in 1 .. PerContext
    BY <1>1, <1>4, Position DEF AllocateContext, GlobalsFirst
  <2>2. request.size \in Nat /\ request.align \in Alignments
    BY <1>1, <2>1, RequestsTyped
  <2>3. Malloc(request.size, request.align)
    BY <1>4 DEF AllocateContext
  <2> QED
    BY <2>2, <2>3 DEF HeapNext
<1>5. CASE ParseOption \/ CheckParams \/ ChooseThreadFunction \/ CreateThreads
             \/ Terminating \/ UNCHANGED vars
  BY <1>5 DEF ParseOption, CheckParams, ChooseThreadFunction, CreateThreads, Terminating, vars
<1> QED
  BY <1>2, <1>3, <1>4, <1>5 DEF Next

-----------------------------------------------------------------------------
(* The inductive invariant: types, the allocator's invariant, and that     *)
(* every context starts on a line.                                         *)
ContextsAligned ==
  \A k \in 1 .. Len(blocks) :
    k > Globals /\ (k - (Globals + 1)) % PerContext = 0 => blocks[k].align = LineSize

IInv == TypeOK /\ GlobalsFirst /\ HeapIInv /\ ContextsAligned

LEMMA InitIInv == Init => IInv
<1> SUFFICES ASSUME Init PROVE IInv
  OBVIOUS
<1>1. HeapIInv
  BY HeapInitIInv DEF Init
<1>2. TypeOK
  BY <1>1, DefaultsTyped DEF Init, TypeOK, Typed, Checked, HeapIInv
<1>3. Len(blocks) = 0
  BY DEF Init, HeapInit
<1>4. GlobalsFirst /\ ContextsAligned
  BY <1>3 DEF Init, GlobalsFirst, ContextsAligned
<1> QED
  BY <1>1, <1>2, <1>4 DEF IInv

LEMMA NextTyped ==
  ASSUME IInv, [Next]_vars
  PROVE  TypeOK'
<1>1. HeapTypeOK'
  BY HeapStep, HeapNextIInv DEF IInv, HeapIInv
<1>2. Typed(gopts) /\ argv \in CommandLines /\ optind \in Nat \ {0} /\ (Checked => gopts.max_time_gap \in Nat)
  BY DEF IInv, TypeOK, Typed
<1>3. CASE ParseOption
  <2> DEFINE o == argv[optind]
  <2>1. CASE phase' = phase /\ o[1] # "help" /\ gopts' = [gopts EXCEPT ![o[1]] = o[2]]
    <3>1. Typed(gopts')
      <4>1. optind \in 1 .. Len(argv)
        BY <1>2, <1>3 DEF ParseOption
      <4>2. o \in Option
        BY <1>2, <4>1, CommandLinesAssumption DEF CommandLinesAssumption
      <4> HIDE DEF o
      <4> QED
        BY <1>2, <2>1, <4>2, OptionTyped
    <3>2. ~Checked'
      BY <1>3, <2>1 DEF ParseOption, Checked
    <3> QED
      BY <1>1, <1>2, <1>3, <3>1, <3>2 DEF TypeOK, Typed, ParseOption
  <2>2. CASE phase' = "exited" /\ gopts' = gopts
    BY <1>1, <1>2, <1>3, <2>2 DEF TypeOK, Typed, ParseOption, Checked
  <2> QED
    BY <1>3, <2>1, <2>2 DEF ParseOption
<1>4. CASE CheckParams
  <2>1. CASE gopts' = WithAllocator(Completed(gopts))
    <3>1. Typed(gopts') /\ gopts'.max_time_gap \in Nat
      BY <1>2, <2>1, CheckedTyped
    <3> QED
      BY <1>1, <1>2, <1>4, <3>1 DEF TypeOK, Typed, CheckParams
  <2>2. CASE phase' = "exited" /\ gopts' = gopts
    BY <1>1, <1>2, <1>4, <2>2 DEF TypeOK, Typed, CheckParams, Checked
  <2> QED
    BY <1>4, <2>1, <2>2 DEF CheckParams
<1>5. CASE UNCHANGED <<argv, optind, gopts>> /\ (Checked' => Checked)
  BY <1>1, <1>2, <1>5 DEF TypeOK, Typed
<1>6. CASE MapHeap \/ AllocateGlobal \/ ChooseThreadFunction \/ AllocateContext
             \/ CreateThreads \/ Terminating \/ UNCHANGED vars
  <2>1. UNCHANGED <<argv, optind, gopts>> /\ (Checked' => Checked)
    BY <1>6 DEF MapHeap, AllocateGlobal, ChooseThreadFunction, AllocateContext,
                CreateThreads, Terminating, vars, Checked
  <2> QED
    BY <1>5, <2>1
<1> QED
  BY <1>3, <1>4, <1>6 DEF Next

LEMMA NextContexts ==
  ASSUME IInv, [Next]_vars
  PROVE  GlobalsFirst' /\ ContextsAligned'
<1>1. Len(blocks) \in Nat /\ Typed(gopts)
  BY DEF IInv, TypeOK, HeapTypeOK, Typed
<1>2. ASSUME UNCHANGED blocks, phase' = "contexts" => phase = "contexts"
      PROVE  GlobalsFirst' /\ ContextsAligned'
  BY <1>2 DEF IInv, GlobalsFirst, ContextsAligned
<1>3. ASSUME NEW size \in Nat, NEW alignment, Malloc(size, alignment), phase' \in {"exited", phase},
             (Len(blocks) + 1 > Globals /\ (Len(blocks) - Globals) % PerContext = 0) => alignment = LineSize
      PROVE  GlobalsFirst' /\ ContextsAligned'
  <2>1. CASE UNCHANGED blocks
    BY <1>2, <1>3, <2>1
  <2>2. CASE blocks' = Append(blocks, [start |-> AlignAddress(bump, alignment),
                                       size |-> size, align |-> alignment])
    <3> DEFINE n == Len(blocks)
               b == [start |-> AlignAddress(bump, alignment), size |-> size, align |-> alignment]
    <3>1. Len(blocks') = n + 1 /\ blocks'[n + 1] = b /\ \A k \in 1 .. n : blocks'[k] = blocks[k]
      BY <2>2 DEF IInv, TypeOK, HeapTypeOK
    <3>2. b.align = alignment
      OBVIOUS
    <3> HIDE DEF b
    <3>3. GlobalsFirst'
      BY <1>1, <1>3, <3>1 DEF IInv, GlobalsFirst, Globals
    <3>4. ContextsAligned'
      <4> SUFFICES ASSUME NEW k \in 1 .. n + 1, k > Globals, (k - (Globals + 1)) % PerContext = 0
                   PROVE  blocks'[k].align = LineSize
        BY <3>1 DEF ContextsAligned
      <4>1. CASE k \in 1 .. n
        BY <3>1, <4>1 DEF IInv, ContextsAligned
      <4>2. CASE k = n + 1
        <5>1. n + 1 > Globals /\ (n - Globals) % PerContext = 0
          <6>1. k - (Globals + 1) = n - Globals
            BY <1>1, <4>2 DEF Globals
          <6> QED
            BY <4>2, <6>1
        <5> QED
          BY <1>3, <3>1, <3>2, <4>2, <5>1
      <4> QED
        BY <1>1, <4>1, <4>2
    <3> QED
      BY <3>3, <3>4
  <2> QED
    BY <1>3, <2>1, <2>2 DEF Malloc
<1>4. CASE AllocateGlobal
  <2> DEFINE request == GlobalRequests(gopts)[Len(blocks) + 1]
  <2>1. Len(blocks) + 1 \in 1 .. Globals
    BY <1>1, <1>4 DEF AllocateGlobal, Globals
  <2>2. request.size \in Nat /\ Malloc(request.size, request.align) /\ phase' \in {"exited", phase}
    BY <1>1, <1>4, <2>1, RequestsTyped DEF AllocateGlobal
  <2>3. ~(Len(blocks) + 1 > Globals)
    BY <2>1 DEF Globals
  <2> HIDE DEF request
  <2> QED
    BY <1>3, <2>2, <2>3
<1>5. CASE AllocateContext
  <2> DEFINE i == ((Len(blocks) - Globals) % PerContext) + 1
             request == ContextRequests(gopts)[i]
  <2>1. i \in 1 .. PerContext
    BY <1>1, <1>5, Position DEF AllocateContext, IInv, GlobalsFirst
  <2>2. request.size \in Nat /\ Malloc(request.size, request.align) /\ phase' \in {"exited", phase}
    BY <1>1, <1>5, <2>1, RequestsTyped DEF AllocateContext
  <2>3. (Len(blocks) - Globals) % PerContext = 0 => request.align = LineSize
    <3>1. (Len(blocks) - Globals) % PerContext = 0 => i = 1
      OBVIOUS
    <3> QED
      BY <1>1, <3>1, RequestsTyped
  <2> HIDE DEF request
  <2> QED
    BY <1>3, <2>2, <2>3
<1>6. CASE ChooseThreadFunction
  <2>1. blocks' = blocks /\ Len(blocks) >= Globals
    BY <1>1, <1>6 DEF ChooseThreadFunction, heapVars, Globals
  <2>2. GlobalsFirst'
    BY <2>1 DEF GlobalsFirst
  <2>3. ContextsAligned'
    BY <2>1 DEF IInv, ContextsAligned
  <2> QED
    BY <2>2, <2>3
<1>7. CASE ParseOption \/ CheckParams \/ MapHeap \/ CreateThreads \/ Terminating \/ UNCHANGED vars
  <2>1. UNCHANGED blocks /\ (phase' = "contexts" => phase = "contexts")
    BY <1>7 DEF ParseOption, CheckParams, MapHeap, InitMetadataHeap, CreateThreads, Terminating,
                vars, heapVars
  <2> QED
    BY <1>2, <2>1
<1> QED
  BY <1>4, <1>5, <1>6, <1>7 DEF Next

LEMMA Inductive == Spec => []IInv
<1>1. IInv /\ [Next]_vars => IInv'
  <2> SUFFICES ASSUME IInv, [Next]_vars PROVE IInv'
    OBVIOUS
  <2>1. HeapIInv'
    BY HeapStep, HeapNextIInv DEF IInv
  <2> QED
    BY <2>1, NextTyped, NextContexts DEF IInv
<1> QED
  BY <1>1, InitIInv, PTL DEF Spec

(* Options, heap pointers and blocks have their types, and the time gap is *)
(* filled in once the options are checked.                                 *)
THEOREM TypeCorrect == Spec => []TypeOK
<1>1. IInv => TypeOK
  BY DEF IInv
<1> QED
  BY <1>1, Inductive, PTL

(* What main and run_acdc do to the heap is what the allocator allows any  *)
(* caller to do: the theorems on the allocator hold of the program.        *)
THEOREM StartImplementsAllocator == Spec => HeapSpec
<1>1. Init => HeapInit
  BY DEF Init
<1>2. IInv /\ [Next]_vars => [HeapNext]_heapVars
  BY HeapStep DEF IInv
<1> QED
  BY <1>1, <1>2, Inductive, PTL DEF Spec, HeapSpec

(* No line is written by two threads because of what lies where.           *)
THEOREM ThreadsAreOnOwnLines == Spec => []ThreadsOnOwnLines
<1>1. IInv => ThreadsOnOwnLines
  <2> SUFFICES ASSUME IInv,
                      NEW j \in 1 .. Len(blocks), NEW k \in 1 .. Len(blocks),
                      Owner(j) < Owner(k), blocks[j].size > 0
               PROVE  LastLine(blocks[j]) < FirstLine(blocks[k])
    BY DEF ThreadsOnOwnLines
  <2>1. Len(blocks) \in Nat
    BY DEF IInv, TypeOK, HeapTypeOK
  (* m is the context of the thread that k belongs to.                     *)
  <2>2. PICK m \in 1 .. Len(blocks) :
          /\ j < m /\ m <= k /\ m > Globals
          /\ (m - (Globals + 1)) % PerContext = 0
    <3> DEFINE d == (k - 6) \div 9
               m == 9 * d + 6
    <3>1. k >= 6
      BY <2>1 DEF Owner, Globals, PerContext
    <3>2. d \in Nat /\ m \in Nat /\ m <= k /\ m >= 6 /\ (m - 6) % 9 = 0
      BY <2>1, <3>1
    <3>3. j < m
      <4>1. Owner(k) = d + 1
        BY <2>1, <3>1 DEF Owner, Globals, PerContext
      <4>2. CASE j <= 5
        BY <2>1, <3>2, <4>2
      <4>3. CASE j >= 6
        <5>1. Owner(j) = ((j - 6) \div 9) + 1
          BY <2>1, <4>3 DEF Owner, Globals, PerContext
        <5> HIDE DEF d
        <5> QED
          BY <2>1, <3>2, <4>1, <4>3, <5>1
      <4> QED
        BY <2>1, <4>2, <4>3
    <3> HIDE DEF m, d
    <3>4. m \in 1 .. Len(blocks)
      BY <2>1, <3>2, <3>3
    <3> QED
      BY <3>2, <3>3, <3>4 DEF Globals, PerContext
  <2> DEFINE L == LineSize
             b == blocks[j].start
             s == blocks[j].size
             a == blocks[m].start
             c == blocks[k].start
  <2>3. L \in Nat /\ L > 0
    BY LineAssumption DEF LineAssumption
  <2>4. b \in Nat /\ s \in Nat /\ a \in Nat /\ c \in Nat /\ blocks[m].size \in Nat
    BY BlockFields DEF IInv, HeapIInv
  <2>5. b + s <= a
    BY <2>2 DEF IInv, HeapIInv, BlocksDisjoint
  <2>6. a <= c
    <3>1. CASE m = k
      BY <2>4, <3>1
    <3>2. CASE m < k
      <4> DEFINE z == blocks[m].size
      <4>1. a + z <= c
        BY <3>2 DEF IInv, HeapIInv, BlocksDisjoint
      <4>2. z \in Nat /\ a \in Nat /\ c \in Nat
        BY <2>4
      <4> HIDE DEF a, c, z
      <4> QED
        BY <4>1, <4>2
    <3> QED
      BY <2>1, <2>2, <3>1, <3>2
  <2>7. PICK q \in Nat : a = L * q
    <3>1. blocks[m].align = LineSize
      BY <2>2 DEF IInv, ContextsAligned
    <3> QED
      BY <3>1 DEF IInv, HeapIInv, Aligned
  <2>8. s > 0
    BY <2>4
  <2>9. /\ LastLine(blocks[j]) = (b + s - 1) \div L
        /\ FirstLine(blocks[k]) = c \div L
    BY DEF LastLine, FirstLine
  <2> HIDE DEF L, b, s, a, c
  <2>10. (b + s - 1) \div L < q
    <3>1. b + s - 1 \in Nat /\ b + s - 1 < a
      BY <2>4, <2>5, <2>8
    <3>2. b + s - 1 < L * q
      BY <2>7, <3>1
    <3> DEFINE x == b + s - 1
    <3> HIDE DEF x
    <3>3. x \in Nat /\ x < L * q /\ q \in Int
      BY <2>7, <3>1, <3>2 DEF x
    <3>4. x \div L < q
      BY <2>3, <3>3, DivisionBounds
    <3> QED
      BY <3>4 DEF x
  <2>11. q <= c \div L
    BY <2>3, <2>4, <2>6, <2>7, DivisionBounds
  <2>12. (b + s - 1) \div L \in Int /\ c \div L \in Int
    BY <2>3, <2>4, <2>8
  <2> QED
    BY <2>9, <2>10, <2>11, <2>12
<1> QED
  BY <1>1, Inductive, PTL

-----------------------------------------------------------------------------
(***************************************************************************)
(* The estimate.  If one of the sizes was not given it is zero when the    *)
(* options are checked; main then exits unless all of them are, and takes  *)
(* the estimated ones.                                                     *)
(***************************************************************************)
SizeFields == {"metadata_heap_sz", "node_buffer_size", "class_buffer_size"}

ZeroUnlessGiven ==
  phase = "parse" =>
    \A field \in SizeFields :
      gopts[field] = 0 \/ \E i \in 1 .. Len(argv) : i < optind /\ argv[i][1] = field

EstimatedSizes(g) ==
  /\ g.class_buffer_size = ClassBufferSize(g)
  /\ g.node_buffer_size = NodeBufferSize(g)
  /\ g.metadata_heap_sz = MetadataHeapSize(g)
  /\ ~QuantumTooSmall(g)

Estimated ==
  Checked /\ (\E field \in SizeFields : ~Given(field)) => EstimatedSizes(gopts)

(* What the estimate depends on.                                           *)
SameParameters(g, h) ==
  /\ g.max_liveness = h.max_liveness /\ g.min_liveness = h.min_liveness
  /\ g.max_object_sc = h.max_object_sc /\ g.min_object_sc = h.min_object_sc
  /\ g.time_quantum = h.time_quantum /\ g.max_time_gap = h.max_time_gap
  /\ g.num_threads = h.num_threads /\ g.shared_objects = h.shared_objects
  /\ g.shared_objects_ratio = h.shared_objects_ratio
  /\ g.receiving_threads_ratio = h.receiving_threads_ratio

LEMMA SameEstimate ==
  ASSUME NEW g, NEW h, SameParameters(g, h)
  PROVE  /\ QuantumTooSmall(g) = QuantumTooSmall(h)
         /\ ClassBufferSize(g) = ClassBufferSize(h)
         /\ NodeBufferSize(g) = NodeBufferSize(h)
         /\ MetadataHeapSize(g) = MetadataHeapSize(h)
<1>1. ClassBytes32(g) = ClassBytes32(h) /\ Liveness2(g) = Liveness2(h)
  BY DEF SameParameters, ClassBytes32, Liveness2, SizeClass2
<1>2. QuantumTooSmall(g) = QuantumTooSmall(h)
  BY <1>1 DEF SameParameters, QuantumTooSmall
<1>3. ClassBufferSize(g) = ClassBufferSize(h)
  BY <1>1 DEF SameParameters, ClassBufferSize, ExpectedClasses
<1>4. NodeBufferSize(g) = NodeBufferSize(h)
  BY <1>3 DEF SameParameters, NodeBufferSize, ReceivedNodes
<1> QED
  BY <1>2, <1>3, <1>4 DEF SameParameters, MetadataHeapSize, BufferMBs

(* Options without sizes that are not rejected get the estimated ones.     *)
LEMMA CompletedSizes ==
  ASSUME NEW g, Typed(g), ~Rejected(g), NEW field \in SizeFields, g[field] = 0
  PROVE  EstimatedSizes(WithAllocator(Completed(g)))
<1> DEFINE m == ModeParams(g)
           d == DerivedParams(g)
           a == Autodetected(d)
           w == WithAllocator(a)
<1>1. Sizes(g) = NoSizes
  <2>1. \E i \in 1 .. 3 : Sizes(g)[i] = 0
    <3>1. CASE field = "metadata_heap_sz"
      BY <3>1 DEF Sizes
    <3>2. CASE field = "node_buffer_size"
      BY <3>2 DEF Sizes
    <3>3. CASE field = "class_buffer_size"
      BY <3>3 DEF Sizes
    <3> QED
      BY <3>1, <3>2, <3>3 DEF SizeFields
  <2> QED
    BY <2>1 DEF Rejected
<1>2. Completed(g) = a /\ ~QuantumTooSmall(d)
  BY <1>1 DEF Completed, Rejected
<1>3. DOMAIN d = Fields
  <2>1. DOMAIN m = Fields
    BY DEF ModeParams, Typed
  <2>2. DOMAIN d = DOMAIN m
    BY DEF DerivedParams
  <2> QED
    BY <2>1, <2>2
<1>4. a = [d EXCEPT !.class_buffer_size = ClassBufferSize(d),
                    !.node_buffer_size = NodeBufferSize(d),
                    !.metadata_heap_sz = MetadataHeapSize(d)]
  BY DEF Autodetected
<1>5. w = [a EXCEPT !.do_baseline_rss = @ \/ a.allocator_name = "nulloc",
                    !.use_compact_allocation = @ \/ a.allocator_name = "compact"]
  BY DEF WithAllocator
<1> DEFINE cb == ClassBufferSize(d)
           nb == NodeBufferSize(d)
           hs == MetadataHeapSize(d)
<1>6. a.class_buffer_size = cb /\ a.node_buffer_size = nb /\ a.metadata_heap_sz = hs
  <2> HIDE DEF cb, nb, hs, d, a
  <2> QED
    BY <1>3, <1>4 DEF cb, nb, hs, Fields, DefaultParams
<1>7. SameParameters(a, d) /\ DOMAIN a = Fields
  <2> HIDE DEF d, a
  <2> QED
    BY <1>3, <1>4 DEF SameParameters, Fields, DefaultParams
<1>8. /\ SameParameters(w, a)
      /\ w.class_buffer_size = a.class_buffer_size
      /\ w.node_buffer_size = a.node_buffer_size
      /\ w.metadata_heap_sz = a.metadata_heap_sz
  <2> HIDE DEF a, w
  <2> QED
    BY <1>5, <1>7 DEF SameParameters, Fields, DefaultParams
<1>9. SameParameters(w, d)
  <2> HIDE DEF a, w, d
  <2> QED
    BY <1>7, <1>8 DEF SameParameters
<1>10. /\ QuantumTooSmall(w) = QuantumTooSmall(d)
       /\ ClassBufferSize(w) = ClassBufferSize(d)
       /\ NodeBufferSize(w) = NodeBufferSize(d)
       /\ MetadataHeapSize(w) = MetadataHeapSize(d)
  <2> HIDE DEF w, d
  <2> QED
    BY <1>9, SameEstimate
<1>11. EstimatedSizes(w)
  <2> HIDE DEF w, d, a
  <2> QED
    BY <1>2, <1>6, <1>8, <1>10 DEF EstimatedSizes
<1> QED
  BY <1>2, <1>11

Parsed == ZeroUnlessGiven /\ Estimated

LEMMA InitParsed == Init => Parsed
<1>1. Init => ZeroUnlessGiven
  BY DEF Init, ZeroUnlessGiven, SizeFields, DefaultParams
<1>2. Init => Estimated
  BY DEF Init, Estimated, Checked
<1> QED
  BY <1>1, <1>2 DEF Parsed

LEMMA NextParsed == IInv /\ Parsed /\ [Next]_vars => Parsed'
<1> SUFFICES ASSUME IInv, Parsed, [Next]_vars PROVE Parsed'
  OBVIOUS
<1>1. Typed(gopts) /\ argv \in CommandLines /\ optind \in Nat \ {0}
  BY DEF IInv, TypeOK, Typed
<1>2. CASE ParseOption
  <2> DEFINE o == argv[optind]
  <2>1. /\ phase = "parse" /\ optind <= Len(argv) /\ optind' = optind + 1 /\ argv' = argv
    BY <1>2 DEF ParseOption
  <2>2. CASE phase' = "exited"
    BY <2>2 DEF Parsed, ZeroUnlessGiven, Estimated, Checked
  <2>3. CASE phase' = phase /\ gopts' = [gopts EXCEPT ![o[1]] = o[2]]
    <3>1. ASSUME NEW field \in SizeFields
          PROVE  gopts'[field] = 0 \/ \E i \in 1 .. Len(argv) : i < optind' /\ argv[i][1] = field
      <4>1. field \in Fields
        BY <3>1 DEF SizeFields, Fields, DefaultParams
      <4>2. CASE o[1] = field
        <5>1. optind \in 1 .. Len(argv) /\ optind < optind'
          BY <1>1, <2>1
        <5> QED
          BY <4>2, <5>1
      <4>3. CASE o[1] # field
        <5>1. gopts'[field] = gopts[field]
          <6> HIDE DEF o
          <6> QED
            BY <1>1, <2>3, <4>1, <4>3 DEF Typed
        <5>2. gopts[field] = 0 \/ \E i \in 1 .. Len(argv) : i < optind /\ argv[i][1] = field
          BY <2>1 DEF Parsed, ZeroUnlessGiven
        <5>3. \A i \in 1 .. Len(argv) : i < optind => i < optind'
          BY <1>1, <2>1
        <5> QED
          BY <5>1, <5>2, <5>3
      <4> QED
        BY <4>2, <4>3
    <3>2. ZeroUnlessGiven'
      BY <2>1, <3>1 DEF ZeroUnlessGiven
    <3>3. ~Checked'
      BY <2>1, <2>3 DEF Checked
    <3> QED
      BY <3>2, <3>3 DEF Parsed, Estimated
  <2> QED
    BY <1>2, <2>2, <2>3 DEF ParseOption
<1>3. CASE CheckParams
  <2>1. phase = "parse" /\ optind > Len(argv) /\ argv' = argv /\ phase' # "parse"
    BY <1>3 DEF CheckParams
  <2>2. ZeroUnlessGiven'
    BY <2>1 DEF ZeroUnlessGiven
  <2>3. Estimated'
    <3> SUFFICES ASSUME Checked', NEW field \in SizeFields, ~Given(field)'
                 PROVE  EstimatedSizes(gopts')
      BY DEF Estimated, EstimatedSizes
    <3>1. ~Rejected(gopts) /\ gopts' = WithAllocator(Completed(gopts))
      BY <1>3 DEF CheckParams, Checked
    <3>2. gopts[field] = 0
      BY <2>1 DEF Parsed, ZeroUnlessGiven, Given
    <3> QED
      BY <1>1, <3>1, <3>2, CompletedSizes
  <2> QED
    BY <2>2, <2>3 DEF Parsed
<1>4. CASE MapHeap \/ AllocateGlobal \/ ChooseThreadFunction \/ AllocateContext
             \/ CreateThreads \/ Terminating \/ UNCHANGED vars
  <2>1. UNCHANGED <<argv, optind, gopts>> /\ (Checked' => Checked) /\ (phase' = "parse" => phase = "parse")
    BY <1>4 DEF MapHeap, AllocateGlobal, ChooseThreadFunction, AllocateContext,
                CreateThreads, Terminating, vars, Checked
  <2>2. ZeroUnlessGiven'
    BY <2>1 DEF Parsed, ZeroUnlessGiven
  <2>3. Estimated'
    <3> SUFFICES ASSUME Checked', NEW field \in SizeFields, ~Given(field)'
                 PROVE  EstimatedSizes(gopts')
      BY DEF Estimated, EstimatedSizes
    <3>1. ~Given(field)
      BY <2>1 DEF Given
    <3>2. EstimatedSizes(gopts)
      BY <2>1, <3>1 DEF Parsed, Estimated
    <3> QED
      BY <2>1, <3>2
  <2> QED
    BY <2>2, <2>3 DEF Parsed
<1> QED
  BY <1>2, <1>3, <1>4 DEF Next

LEMMA ParsedInductive == Spec => []Parsed
  BY InitParsed, NextParsed, Inductive, PTL DEF Spec

-----------------------------------------------------------------------------
(* Half of the squared sum of liveness bounds, with a class that fits the  *)
(* quantum: the estimate is at least that.                                 *)
LEMMA HalfSquare ==
  ASSUME NEW l \in Nat, l > 0
  PROVE  \E h \in Nat : 2 * h <= l * l /\ l <= 2 * h + 1
<1> DEFINE s == l * l
           h == s \div 2
<1>1. s \in Nat /\ l <= s
  <2>1. l * 1 <= l * l
    BY SMT
  <2>2. l * l \in Nat
    BY Product
  <2> QED
    BY <2>1, <2>2
<1> HIDE DEF s
<1>2. h \in Nat /\ 2 * h <= s /\ s <= 2 * h + 1
  BY <1>1
<1> HIDE DEF h
<1>3. l <= 2 * h + 1
  BY <1>1, <1>2
<1>4. h \in Nat /\ 2 * h <= s /\ l <= 2 * h + 1
  BY <1>2, <1>3
<1> QED
  BY <1>4, Zenon DEF s

(* A product grows with its factors.                                       *)
LEMMA ProductGrows ==
  ASSUME NEW a \in Nat, NEW b \in Nat, NEW c \in Nat, NEW d \in Nat, a <= c, b <= d
  PROVE  a * b <= c * d
<1>1. a * b <= a * d /\ a * d <= c * d
  BY SMT
<1>2. a * b \in Nat /\ a * d \in Nat /\ c * d \in Nat
  BY Product
<1> QED
  BY <1>1, <1>2

LEMMA UnsharedQuotient ==
  ASSUME NEW c \in Nat, c > 0, NEW l \in Nat, NEW q \in Nat, c <= 32 * q,
         NEW h \in Nat, 2 * h <= l * l
  PROVE  h <= (16 * l * l * q) \div c
<1> DEFINE s == l * l
           n == 16 * l * l * q
<1>1. s \in Nat
  BY Product
<1>2. n = 16 * (s * q) /\ s * q \in Nat
  <2>1. 16 * l * l = 16 * s
    BY SMT
  <2>2. s * q \in Nat
    BY <1>1, Product
  <2> HIDE DEF s
  <2>3. (16 * s) * q = 16 * (s * q)
    BY <1>1, SMT
  <2> QED
    BY <2>1, <2>2, <2>3
<1> HIDE DEF s, n
<1>3. c * (2 * h) <= (32 * q) * s
  BY <1>1, ProductGrows DEF s
<1>4. c * (2 * h) = 2 * (c * h) /\ (32 * q) * s = 32 * (s * q) /\ c * h \in Nat
  BY <1>1, SMT
<1>5. c * h <= n /\ n \in Nat
  BY <1>2, <1>3, <1>4
<1>6. h <= n \div c
  BY <1>5, DivisionBounds
<1> QED
  BY <1>6 DEF n

LEMMA SharedQuotient ==
  ASSUME NEW c \in Nat, c > 0, NEW l \in Nat, NEW q \in Nat, c <= 32 * q,
         NEW h \in Nat, 2 * h <= l * l, NEW t \in Nat, l <= t, NEW m \in Nat, 100 <= m
  PROVE  h <= (4 * l * q * t * m) \div (25 * c)
<1> DEFINE s == l * l
           n == 4 * l * q * t * m
           lt == l * t
           k == lt * q
<1>1. s \in Nat /\ lt \in Nat /\ s <= lt
  BY Product, ProductGrows
<1>2. k \in Nat /\ s * q \in Nat /\ s * q <= k
  <2> HIDE DEF s, lt
  <2> QED
    BY <1>1, Product, ProductGrows
<1>3. n = 4 * (k * m) /\ k * m \in Nat
  <2>1. 4 * l * q * t = 4 * k
    BY SMT
  <2>2. k * m \in Nat
    BY <1>2, Product
  <2> HIDE DEF k
  <2>3. (4 * k) * m = 4 * (k * m)
    BY <1>2, SMT
  <2> QED
    BY <2>1, <2>2, <2>3
<1> HIDE DEF s, n, k
<1>4. (s * q) * 100 <= k * m
  BY <1>2, ProductGrows
<1>5. c * (2 * h) <= (32 * q) * s
  BY <1>1, ProductGrows DEF s
<1>6. c * (2 * h) = 2 * (c * h) /\ (32 * q) * s = 32 * (s * q) /\ c * h \in Nat
  BY <1>1, SMT
<1> DEFINE ch == c * h
           sq == s * q
           km == k * m
<1>7. ch \in Nat /\ sq \in Nat /\ km \in Nat /\ 2 * ch <= 32 * sq /\ sq * 100 <= km /\ n = 4 * km
  BY <1>2, <1>3, <1>4, <1>5, <1>6
<1>8. (25 * c) * h = 25 * ch
  BY SMT
<1> HIDE DEF ch, sq, km
<1>9. (25 * c) * h <= n /\ n \in Nat
  BY <1>7, <1>8
<1>10. 25 * c \in Nat /\ 25 * c > 0
  BY SMT
<1> DEFINE d == 25 * c
<1> HIDE DEF d
<1>11. h <= n \div d
  BY <1>9, <1>10, DivisionBounds DEF d
<1> QED
  BY <1>11 DEF n, d

(* The estimate for options that the check of the quantum lets through.    *)
LEMMA BufferIsLarge ==
  ASSUME NEW g, Typed(g), g.max_time_gap \in Nat, g.min_liveness >= 1,
         ~QuantumTooSmall(g), FitsInt(g)
  PROVE  ClassBufferSize(g) >= g.max_liveness
<1> DEFINE c == ClassBytes32(g)
           l == Liveness2(g)
           q == g.time_quantum
           t == 2 * g.max_time_gap + l
           r == g.num_threads * g.shared_objects_ratio
           m == 100 + r
           ml == g.max_liveness
           e == ExpectedClasses(g)
<1>1. /\ ml \in Nat /\ q \in Nat /\ l \in Nat /\ ml + 1 <= l
      /\ g.num_threads \in Nat /\ g.shared_objects_ratio \in Nat
  BY DEF Typed, NumberOptions, Liveness2
<1>2. r \in Nat
  BY <1>1, Product
<1>3. t \in Nat /\ l <= t /\ m \in Nat /\ 100 <= m
  <2> HIDE DEF l, r
  <2> QED
    BY <1>1, <1>2
<1>4. c \in Nat /\ c > 0 /\ c <= 32 * q
  <2>1. ~(c > 32 * q)
    BY DEF QuantumTooSmall
  <2>2. c \in Int /\ c > 0
    BY ClassBytesInt DEF FitsInt
  <2> HIDE DEF c, q
  <2> QED
    BY <1>1, <2>1, <2>2
<1>5. e = IF g.shared_objects THEN (4 * l * q * t * m) \div (25 * c)
          ELSE (16 * l * l * q) \div c
  <2>1. ToInt(r) = r
    <3>1. r <= IntMax
      BY DEF FitsInt
    <3> HIDE DEF r
    <3> QED
      BY <1>2, <3>1, ToIntKept, Machine
  <2>2. c # 0
    <3> HIDE DEF c
    <3> QED
      BY <1>4
  <2>3. e = IF g.shared_objects THEN Truncated(4 * l * q * t * (100 + ToInt(r)), 25 * c)
            ELSE Truncated(16 * l * l * q, c)
    BY <2>2 DEF ExpectedClasses
  <2> HIDE DEF c, l, q, t, r, e
  <2>4. e = IF g.shared_objects THEN Truncated(4 * l * q * t * m, 25 * c)
            ELSE Truncated(16 * l * l * q, c)
    BY <2>1, <2>3
  <2>5. 4 * l * q * t * m \in Nat /\ 16 * l * l * q \in Nat
    <3>1. 4 * l * q \in Nat /\ 16 * l * l \in Nat
      BY <1>1, Product
    <3>2. 4 * l * q * t \in Nat
      BY <1>3, <3>1, Product
    <3> HIDE DEF m
    <3> QED
      BY <1>1, <1>3, <3>1, <3>2, Product
  <2>6. 25 * c \in Int /\ 25 * c > 0
    BY <1>4
  <2> DEFINE a1 == 4 * l * q * t * m
             a2 == 16 * l * l * q
             b == 25 * c
  <2>7. a1 \in Nat /\ a2 \in Nat /\ b \in Int /\ b > 0
    BY <2>5, <2>6
  <2> HIDE DEF a1, a2, b
  <2>8. Truncated(a1, b) = a1 \div b /\ Truncated(a2, c) = a2 \div c
    <3>1. a1 \in Int /\ a1 >= 0 /\ a2 \in Int /\ a2 >= 0 /\ b # 0 /\ c \in Int /\ c > 0 /\ c # 0
      BY <1>4, <2>7
    <3>2. Truncated(a1, b) = a1 \div b
      BY <2>7, <3>1, TruncatedInt
    <3>3. Truncated(a2, c) = a2 \div c
      BY <3>1, TruncatedInt
    <3> QED
      BY <3>2, <3>3
  <2> QED
    BY <2>4, <2>8 DEF a1, a2, b
<1>6. ClassBufferSize(g) = ToULong(ToInt(2 * CastToInt(e)))
  BY DEF ClassBufferSize
<1>7. e \in Int /\ 2 * e <= IntMax
  BY ExpectedClassesInt DEF FitsInt
<1> HIDE DEF c, l, q, t, m, ml, e
<1>8. PICK h \in Nat : 2 * h <= l * l /\ l <= 2 * h + 1
  BY <1>1, HalfSquare
<1>9. h <= (16 * l * l * q) \div c
  BY <1>1, <1>4, <1>8, UnsharedQuotient
<1>10. h <= (4 * l * q * t * m) \div (25 * c)
  BY <1>1, <1>3, <1>4, <1>8, SharedQuotient
<1>11. h <= e
  BY <1>5, <1>9, <1>10
<1>12. ClassBufferSize(g) = 2 * e
  <2>1. e \in 0 .. IntMax /\ 2 * e \in 0 .. IntMax
    BY <1>7, <1>8, <1>11, Machine
  <2>2. CastToInt(e) = e /\ ToInt(2 * e) = 2 * e
    BY <2>1, CastKept, ToIntKept
  <2>3. ToULong(2 * e) = 2 * e
    BY <2>1, ToULongKept, Machine
  <2> QED
    BY <1>6, <2>2, <2>3
<1>13. ml <= 2 * e
  BY <1>1, <1>7, <1>8, <1>11
<1> QED
  BY <1>7, <1>12, <1>13, <1>1 DEF ml

(* A class of every lifetime fits into the buffer of an estimate that main *)
(* accepts, with sharing or without, for all sizes, quanta and gaps whose  *)
(* estimate can be computed in ints.  (Where it cannot, the code accepts   *)
(* options with a buffer of no entry; TLC sees them.)                      *)
THEOREM EveryLifetimeFits == Spec => []BufferHoldsEveryLifetime
<1>1. TypeOK /\ Parsed => BufferHoldsEveryLifetime
  <2> SUFFICES ASSUME TypeOK, Parsed, Checked, ~Given("class_buffer_size"),
                      gopts.min_liveness >= 1, FitsInt(gopts)
               PROVE  gopts.class_buffer_size >= gopts.max_liveness
    BY DEF BufferHoldsEveryLifetime
  <2>1. Typed(gopts) /\ gopts.max_time_gap \in Nat
    BY DEF TypeOK, Typed
  <2>2. EstimatedSizes(gopts)
    BY DEF Parsed, Estimated, SizeFields
  <2>3. gopts.class_buffer_size = ClassBufferSize(gopts) /\ ~QuantumTooSmall(gopts)
    BY <2>2 DEF EstimatedSizes
  <2> QED
    BY <2>1, <2>3, BufferIsLarge
<1> QED
  BY <1>1, TypeCorrect, ParsedInductive, PTL

-----------------------------------------------------------------------------
(***************************************************************************)
(* The heap.  The requests come in a fixed order, so the bump pointer is   *)
(* at most what the requests so far have asked for, with their padding:    *)
(* this much for all threads, then the same for every context, and within  *)
(* a context a sum of its first requests.                                  *)
(***************************************************************************)
GlobalBytes(g) == 200 * g.num_threads + 75

(* The first i requests of a context.                                      *)
Prefix(g, i) ==
  LET lists == 24 * g.max_liveness + 8 * g.max_object_sc
                 + 16 * (g.max_liveness + g.deallocation_delay)
  IN  CASE i = 0 -> 0
        [] i = 1 -> 111 + LineSize
        [] i = 2 -> 222 + LineSize
        [] i = 3 -> 245 + LineSize + 8 * g.max_liveness
        [] i = 4 -> 268 + LineSize + 8 * g.max_liveness + 8 * g.max_object_sc
        [] i = 5 -> 283 + LineSize + 8 * g.max_liveness + 8 * g.max_object_sc
                      + 16 * (g.max_liveness + g.deallocation_delay)
        [] i = 6 -> 298 + LineSize + lists
        [] i = 7 -> 297 + 2 * LineSize + lists + LineSize * g.node_buffer_size
        [] i = 8 -> 296 + 3 * LineSize + lists + LineSize * g.node_buffer_size
                      + LineSize * g.class_buffer_size
        [] i = 9 -> 311 + 3 * LineSize + lists + LineSize * g.node_buffer_size
                      + LineSize * g.class_buffer_size + 4 * g.num_threads

ContextBytes(g) == Prefix(g, 9)

LEMMA PrefixBounds ==
  ASSUME NEW g, Typed(g), NEW i \in 0 .. PerContext
  PROVE  Prefix(g, i) \in Nat /\ ContextBytes(g) \in Nat /\ Prefix(g, i) <= ContextBytes(g)
<1> DEFINE nb == LineSize * g.node_buffer_size
           cb == LineSize * g.class_buffer_size
<1>1. /\ g.num_threads \in Nat /\ g.max_liveness \in Nat /\ g.max_object_sc \in Nat
      /\ g.deallocation_delay \in Nat /\ g.node_buffer_size \in Nat /\ g.class_buffer_size \in Nat
      /\ LineSize \in Nat /\ LineSize >= 1
  BY LineAssumption DEF LineAssumption, Typed, NumberOptions
<1>2. nb \in Nat /\ cb \in Nat
  BY <1>1, Product
<1>3. i \in {0, 1, 2, 3, 4, 5, 6, 7, 8, 9}
  BY DEF PerContext
<1> DEFINE n == g.num_threads
           ml == g.max_liveness
           sc == g.max_object_sc
           dd == g.deallocation_delay
           p == Prefix(g, i)
           t == 311 + 3 * LineSize + (24 * ml + 8 * sc + 16 * (ml + dd)) + nb + cb + 4 * n
<1>4. ContextBytes(g) = t
  BY DEF Prefix, ContextBytes
<1>5. p \in Nat /\ p <= t
  <2> HIDE DEF t, p, nb, cb, n, ml, sc, dd
  <2>1. CASE i \in {0, 1, 2, 3}
    BY <1>1, <1>2, <2>1 DEF Prefix, n, ml, sc, dd, t, p
  <2>2. CASE i \in {4, 5, 6}
    BY <1>1, <1>2, <2>2 DEF Prefix, n, ml, sc, dd, t, p
  <2>3. CASE i = 7
    <3>1. p = 297 + 2 * LineSize + (24 * ml + 8 * sc + 16 * (ml + dd)) + nb
      BY <2>3 DEF Prefix, p, ml, sc, dd, nb
    <3> QED
      BY <1>1, <1>2, <3>1 DEF t, n, ml, sc, dd
  <2>4. CASE i = 8
    <3>1. p = 296 + 3 * LineSize + (24 * ml + 8 * sc + 16 * (ml + dd)) + nb + cb
      BY <2>4 DEF Prefix, p, ml, sc, dd, nb, cb
    <3> QED
      BY <1>1, <1>2, <3>1 DEF t, n, ml, sc, dd
  <2>5. CASE i = 9
    <3>1. p = 311 + 3 * LineSize + (24 * ml + 8 * sc + 16 * (ml + dd)) + nb + cb + 4 * n
      BY <2>5 DEF Prefix, p, ml, sc, dd, nb, cb, n
    <3> QED
      BY <1>1, <1>2, <3>1 DEF t, n, ml, sc, dd
  <2> QED
    BY <1>3, <2>1, <2>2, <2>3, <2>4, <2>5
<1>6. t \in Nat
  <2> HIDE DEF nb, cb
  <2> QED
    BY <1>1, <1>2
<1> QED
  BY <1>4, <1>5, <1>6

LEMMA PrefixStep ==
  ASSUME NEW g, Typed(g), NEW i \in 1 .. PerContext
  PROVE  Prefix(g, i - 1) + ChunkSize(ContextRequests(g)[i].size, ContextRequests(g)[i].align)
           = Prefix(g, i)
<1> DEFINE nb == LineSize * g.node_buffer_size
           cb == LineSize * g.class_buffer_size
<1>1. /\ g.num_threads \in Nat /\ g.max_liveness \in Nat /\ g.max_object_sc \in Nat
      /\ g.deallocation_delay \in Nat /\ g.node_buffer_size \in Nat /\ g.class_buffer_size \in Nat
      /\ LineSize \in Nat /\ LineSize >= 1
  BY LineAssumption DEF LineAssumption, Typed, NumberOptions
<1>2. nb \in Nat /\ cb \in Nat
  BY <1>1, Product
<1>3. i \in {1, 2, 3, 4, 5, 6, 7, 8, 9}
  BY DEF PerContext
<1>4. /\ ContextRequests(g)[1] = Request(112, LineSize)
      /\ ContextRequests(g)[2] = Request(96, DefaultAlignment)
      /\ ContextRequests(g)[3] = Request(8 * (g.max_liveness + 1), DefaultAlignment)
      /\ ContextRequests(g)[4] = Request(8 * (g.max_object_sc + 1), DefaultAlignment)
      /\ ContextRequests(g)[5] = Request(16 * (g.max_liveness + g.deallocation_delay), DefaultAlignment)
      /\ ContextRequests(g)[6] = Request(16 * g.max_liveness, DefaultAlignment)
      /\ ContextRequests(g)[7] = Request(nb, LineSize)
      /\ ContextRequests(g)[8] = Request(cb, LineSize)
      /\ ContextRequests(g)[9] = Request(4 * g.num_threads, DefaultAlignment)
  BY DEF ContextRequests
<1> HIDE DEF nb, cb
<1>5. ASSUME NEW size, NEW align
      PROVE  Request(size, align).size = size /\ Request(size, align).align = align
  BY DEF Request
<1>6. CASE i \in {1, 2, 3}
  BY <1>1, <1>2, <1>4, <1>5, <1>6 DEF Prefix, ChunkSize, DefaultAlignment
<1>7. CASE i \in {4, 5, 6}
  BY <1>1, <1>2, <1>4, <1>5, <1>7 DEF Prefix, ChunkSize, DefaultAlignment
<1> DEFINE lists == 24 * g.max_liveness + 8 * g.max_object_sc
                      + 16 * (g.max_liveness + g.deallocation_delay)
<1>8. /\ Prefix(g, 6) = 298 + LineSize + lists
      /\ Prefix(g, 7) = 297 + 2 * LineSize + lists + nb
      /\ Prefix(g, 8) = 296 + 3 * LineSize + lists + nb + cb
      /\ Prefix(g, 9) = 311 + 3 * LineSize + lists + nb + cb + 4 * g.num_threads
  BY DEF Prefix, nb, cb
<1>9. lists \in Nat
  BY <1>1
<1> HIDE DEF lists
<1>10. CASE i = 7
  BY <1>1, <1>2, <1>4, <1>5, <1>8, <1>9, <1>10 DEF ChunkSize
<1>11. CASE i = 8
  BY <1>1, <1>2, <1>4, <1>5, <1>8, <1>9, <1>11 DEF ChunkSize
<1>12. CASE i = 9
  BY <1>1, <1>2, <1>4, <1>5, <1>8, <1>9, <1>12 DEF ChunkSize, DefaultAlignment
<1> QED
  BY <1>3, <1>6, <1>7, <1>10, <1>11, <1>12

LEMMA GlobalChunk ==
  ASSUME NEW g, Typed(g), NEW i \in 1 .. Globals
  PROVE  ChunkSize(GlobalRequests(g)[i].size, GlobalRequests(g)[i].align) <= 40 * g.num_threads + 15
<1>1. g.num_threads \in Nat
  BY DEF Typed, NumberOptions
<1>2. i \in {1, 2, 3, 4, 5}
  BY DEF Globals
<1> QED
  BY <1>1, <1>2 DEF GlobalRequests, Request, ChunkSize, DefaultAlignment

(* Buffers of b lines for each of n threads, and m bytes more, end below u.*)
LEMMA BelowLimit ==
  ASSUME NEW n \in Nat, n > 0, NEW b \in Nat, NEW line \in Nat, line > 0,
         NEW u \in Nat, NEW m \in Nat, b < ((u \div n) - m) \div line
  PROVE  n * (line * b + m) < u
<1> DEFINE d == u \div n
           a == d - m
           k == a \div line
           lb == line * b
<1>1. d \in Int /\ u % n \in Int /\ 0 <= u % n /\ u = n * d + (u % n)
  BY Division
<1>2. b < k
  OBVIOUS
<1>3. lb \in Nat
  BY Product
<1> HIDE DEF d, lb
<1>4. a \in Int
  BY <1>1
<1> HIDE DEF a
<1>5. k \in Int /\ a % line \in Int /\ 0 <= a % line /\ a = line * k + (a % line)
  BY <1>4, Division
<1> HIDE DEF k
<1>6. b + 1 <= k /\ line * (b + 1) = lb + line /\ line * k \in Int
  BY <1>2, <1>5, FactorBounds DEF lb
<1>7. line * (b + 1) <= line * k
  BY <1>5, <1>6
<1>8. lb + line <= a
  BY <1>3, <1>4, <1>5, <1>6, <1>7
<1> DEFINE x == lb + m
<1>9. x \in Nat /\ x + 1 <= d
  BY <1>1, <1>3, <1>8 DEF a
<1> HIDE DEF x
<1>10. n * (x + 1) <= n * d /\ n * (x + 1) = n * x + n /\ n * d \in Int /\ n * x \in Int
  BY <1>1, <1>9, FactorBounds
<1>11. n * x < u
  BY <1>1, <1>10
<1> QED
  BY <1>11 DEF x, lb

(* The estimated heap holds all of it.                                     *)
LEMMA HeapHoldsAll ==
  ASSUME NEW g, Typed(g), EstimatedSizes(g), SmallContexts(g), BuffersAddressable(g),
         g.num_threads >= 2
  PROVE  /\ g.num_threads * MB <= ToULong(g.metadata_heap_sz * MB)
         /\ GlobalBytes(g) + g.num_threads * ContextBytes(g) < ToULong(g.metadata_heap_sz * MB)
<1> DEFINE n == g.num_threads
           nb == LineSize * g.node_buffer_size
           cb == LineSize * g.class_buffer_size
           x == 40 * g.max_liveness + 16 * g.deallocation_delay + 8 * g.max_object_sc
                  + 4 * g.num_threads + 3 * LineSize
           s == (cb + nb) * n
           d == s \div MB
           r == s % MB
<1>1. /\ g.num_threads \in Nat /\ g.max_liveness \in Nat /\ g.max_object_sc \in Nat
      /\ g.deallocation_delay \in Nat /\ g.node_buffer_size \in Nat /\ g.class_buffer_size \in Nat
      /\ LineSize \in Nat
  BY LineAssumption DEF LineAssumption, Typed, NumberOptions
<1>2. nb \in Nat /\ cb \in Nat
  BY <1>1, Product
<1>3. x \in Nat /\ x + 1000 <= 524288
  <2>1. MB \div 2 = 524288
    BY SMT DEF MB
  <2>2. x + 1000 <= MB \div 2
    BY DEF SmallContexts
  <2> QED
    BY <1>1, <2>1, <2>2
<1>4. ContextBytes(g) = 311 + x + (cb + nb)
  <2>1. ContextBytes(g) = 311 + 3 * LineSize
                            + (24 * g.max_liveness + 8 * g.max_object_sc
                                 + 16 * (g.max_liveness + g.deallocation_delay))
                            + nb + cb + 4 * g.num_threads
    BY DEF ContextBytes, Prefix
  <2> HIDE DEF nb, cb
  <2> QED
    BY <1>1, <1>2, <2>1
<1>5. s \in Nat /\ s + n * MB < ULongRange /\ n * MB \in Nat /\ n \in Nat /\ n >= 2
  <2> DEFINE c1 == g.class_buffer_size
             n1 == g.node_buffer_size
             lb == LineSize * (c1 + n1)
  <2>1. LineSize > 0 /\ MB \in Nat
    BY LineAssumption, SMT DEF LineAssumption, MB
  <2>2. c1 + n1 < ((ULongRange \div n) - MB) \div LineSize
    BY DEF BuffersAddressable
  <2>3. n * (lb + MB) < ULongRange
    <3>1. n > 0 /\ n \in Nat /\ c1 + n1 \in Nat
      BY <1>1
    <3> DEFINE b1 == c1 + n1
    <3>2. b1 \in Nat /\ b1 < ((ULongRange \div n) - MB) \div LineSize
      BY <2>2, <3>1
    <3> HIDE DEF b1, n, MB
    <3>3. n * (LineSize * b1 + MB) < ULongRange
      BY <1>1, <2>1, <3>1, <3>2, Machine, BelowLimit
    <3> QED
      BY <3>3 DEF b1
  <2>4. lb = cb + nb
    BY <1>1
  <2>5. n \in Nat /\ n >= 2
    BY <1>1
  <2> DEFINE b == cb + nb
  <2>6. b \in Nat /\ s = b * n /\ n * (b + MB) < ULongRange
    BY <1>2, <2>3, <2>4
  <2> HIDE DEF b, n, s, MB
  <2>7. n * (b + MB) = b * n + n * MB
    BY <2>1, <2>5, <2>6
  <2>8. b * n \in Nat /\ n * MB \in Nat
    BY <2>1, <2>5, <2>6, Product
  <2> QED
    BY <2>5, <2>6, <2>7, <2>8
<1>6. cb + nb <= s
  <2> DEFINE b == cb + nb
  <2>1. b \in Nat /\ s = b * n /\ b * 1 = b
    BY <1>2
  <2> HIDE DEF b, n, s
  <2>2. b * 1 <= b * n
    BY <1>5, <2>1, ProductGrows
  <2> QED
    BY <2>1, <2>2 DEF b
<1>9. d \in Nat /\ s < MB * d + MB /\ MB * d <= s
  <2> HIDE DEF s
  <2>1. MB \in Nat /\ MB > 0
    BY SMT DEF MB
  <2>2. s \div MB \in Int /\ s % MB \in Int /\ 0 <= s % MB /\ s % MB < MB /\ s = MB * (s \div MB) + (s % MB)
    BY <1>5, <2>1, Division
  <2>3. d \in Nat
    BY <1>5, <2>1, Quotient
  <2>4. MB * d \in Nat
    BY <2>1, <2>3, Product
  <2> HIDE DEF MB
  <2> QED
    BY <1>5, <2>1, <2>2, <2>3, <2>4
<1>16. (n + d) * MB < ULongRange /\ (n + d) * MB \in Nat /\ n + d \in Nat /\ n + d < ULongRange
  <2> HIDE DEF n, d, s
  <2>1. (n + d) * MB = n * MB + MB * d
    BY <1>5, <1>9 DEF MB
  <2>2. n + d \in Nat /\ n + d <= (n + d) * MB /\ (n + d) * MB \in Nat
    BY <1>5, <1>9 DEF MB
  <2>3. MB * d \in Nat
    BY <1>9 DEF MB
  <2> QED
    BY <1>5, <1>9, <2>1, <2>2, <2>3, Machine
<1>17. g.metadata_heap_sz = n + d
  <2>1. g.class_buffer_size * LineSize = cb /\ g.node_buffer_size * LineSize = nb
    BY <1>1, SMT
  <2>2. BufferMBs(g) = ToULong((ToULong(g.class_buffer_size * LineSize) + ToULong(g.node_buffer_size * LineSize)) * n)
                         \div MB
    BY DEF BufferMBs, EstimatedSizes
  <2>3. ToULong(cb) = cb /\ ToULong(nb) = nb /\ ToULong(s) = s
    <3> HIDE DEF cb, nb, s, n
    <3>1. cb < ULongRange /\ nb < ULongRange /\ s < ULongRange
      BY <1>2, <1>5, <1>6, Machine
    <3> QED
      BY <1>2, <1>5, <3>1, ToULongKept
  <2>4. BufferMBs(g) = d
    BY <2>1, <2>2, <2>3
  <2>5. g.metadata_heap_sz = ToULong(n + BufferMBs(g))
    BY DEF EstimatedSizes, MetadataHeapSize
  <2> HIDE DEF n, d
  <2> QED
    BY <1>16, <2>4, <2>5, ToULongKept
<1>18. ToULong(g.metadata_heap_sz * MB) = (n + d) * MB
  <2> HIDE DEF n, d
  <2> QED
    BY <1>16, <1>17, ToULongKept
<1> HIDE DEF x
<1> DEFINE b == cb + nb
<1>7. n * (311 + x + b) = n * (311 + x) + s /\ n * (311 + x) \in Nat
  <2>1. b \in Nat /\ s = b * n
    BY <1>2
  <2>2. 311 + x \in Nat
    BY <1>3
  <2> DEFINE y == 311 + x
  <2> HIDE DEF b, y, s
  <2>3. n * (y + b) = n * y + b * n
    BY <1>1, <2>1, <2>2, SMT DEF y
  <2>4. n * y \in Nat
    BY <1>1, <2>2, Product DEF y
  <2> QED
    BY <2>1, <2>3, <2>4 DEF y
<1>8. n * (311 + x) <= n * 523599
  <2>1. 311 + x \in Nat /\ 311 + x <= 523599
    BY <1>3
  <2> QED
    BY <1>1, <2>1, ProductGrows
<1> HIDE DEF s, d, b
<1>10. n * ContextBytes(g) <= n * 523599 + s
  BY <1>4, <1>7, <1>8, <1>5, <1>1 DEF b
<1>11. n \in Nat /\ n >= 2
  BY <1>1
<1> DEFINE cbytes == n * ContextBytes(g)
<1>12. cbytes \in Nat
  BY <1>1, <1>2, <1>3, <1>4, Product
<1> HIDE DEF cbytes
<1>13. GlobalBytes(g) = 200 * n + 75
  BY DEF GlobalBytes
<1>14. cbytes <= n * 523599 + s
  BY <1>10 DEF cbytes
<1> HIDE DEF n
<1>15. /\ n * MB <= (n + d) * MB
       /\ 200 * n + 75 + cbytes < (n + d) * MB
  BY <1>5, <1>9, <1>11, <1>12, <1>14 DEF MB
<1> QED
  BY <1>18, <1>13, <1>15 DEF n, cbytes

-----------------------------------------------------------------------------
(* The invariant: where the bump pointer is, after so many requests.       *)
BeforeMapping ==
  phase \in {"parse", "map"} =>
    heap_end = 0 /\ bump = 0 /\ blocks = << >> /\ ~failed

Mapped ==
  phase \in {"globals", "contexts"} => heap_end = ToULong(gopts.metadata_heap_sz * MB)

GlobalsUsed ==
  phase = "globals" =>
    Len(blocks) <= Globals /\ bump <= Len(blocks) * (40 * gopts.num_threads + 15)

(* t threads have their contexts, and the next one has i of its blocks.    *)
UsedBy(g, k, used, t, i) ==
  /\ k = Globals + PerContext * t + i
  /\ used <= GlobalBytes(g) + t * ContextBytes(g) + Prefix(g, i)

ContextsUsed ==
  phase = "contexts" =>
    /\ Len(blocks) <= Globals + PerContext * gopts.num_threads
    /\ \E t \in Nat, i \in 0 .. PerContext - 1 : UsedBy(gopts, Len(blocks), bump, t, i)

HeapUsed == BeforeMapping /\ Mapped /\ GlobalsUsed /\ ContextsUsed /\ TwoThreadsFit

LEMMA ContextsFit ==
  ASSUME NEW n \in Nat, NEW t \in Nat, t < n, NEW c \in Nat
  PROVE  t * c + c <= n * c /\ t * c \in Nat /\ (t + 1) * c = t * c + c
<1>1. (t + 1) * c <= n * c
  BY ProductGrows
<1>2. (t + 1) * c = t * c + c
  BY SMT
<1>3. t * c \in Nat
  BY Product
<1> QED
  BY <1>1, <1>2, <1>3

(* One more request of a context.                                          *)
LEMMA UsedStep ==
  ASSUME NEW g, Typed(g), NEW k \in Nat, NEW used \in Nat, NEW t \in Nat,
         NEW i \in 0 .. PerContext - 1, UsedBy(g, k, used, t, i),
         k < Globals + PerContext * g.num_threads,
         NEW request, request = ContextRequests(g)[((k - Globals) % PerContext) + 1],
         ChunkSize(request.size, request.align) \in Nat,
         NEW next \in Nat, next = used + ChunkSize(request.size, request.align)
  PROVE  /\ next <= GlobalBytes(g) + g.num_threads * ContextBytes(g)
         /\ \E u \in Nat, j \in 0 .. PerContext - 1 : UsedBy(g, k + 1, next, u, j)
<1> DEFINE n == g.num_threads
           c == ContextBytes(g)
           gb == GlobalBytes(g)
           p == Prefix(g, i)
           p1 == Prefix(g, i + 1)
           chunk == ChunkSize(request.size, request.align)
<1>1. n \in Nat /\ gb \in Nat
  BY DEF Typed, NumberOptions, GlobalBytes
<1>2. i \in Nat /\ i <= 8 /\ k = 5 + 9 * t + i /\ used <= gb + t * c + p
  BY DEF UsedBy, Globals, PerContext
<1>3. (k - Globals) % PerContext = i
  BY <1>2 DEF Globals, PerContext
<1>4. p + chunk = p1
  <2>1. i + 1 \in 1 .. PerContext /\ (i + 1) - 1 = i
    BY <1>2 DEF PerContext
  <2>2. request = ContextRequests(g)[i + 1]
    BY <1>3
  <2>3. Prefix(g, (i + 1) - 1) + ChunkSize(ContextRequests(g)[i + 1].size, ContextRequests(g)[i + 1].align)
          = Prefix(g, i + 1)
    BY <2>1, PrefixStep
  <2> QED
    BY <2>1, <2>2, <2>3
<1>5. p \in Nat /\ p1 \in Nat /\ c \in Nat /\ p1 <= c
  <2>1. i \in 0 .. PerContext /\ i + 1 \in 0 .. PerContext
    BY <1>2 DEF PerContext
  <2> QED
    BY <2>1, PrefixBounds
<1>6. t < n
  BY <1>1, <1>2 DEF Globals, PerContext
<1>7. chunk \in Nat /\ next = used + chunk
  OBVIOUS
<1>8. i = 8 => p1 = c
  BY DEF ContextBytes
<1> HIDE DEF c, gb, p, p1, chunk, n
<1>9. t * c + c <= n * c /\ t * c \in Nat /\ (t + 1) * c = t * c + c /\ n * c \in Nat
  BY <1>1, <1>5, <1>6, ContextsFit, Product
<1>10. next <= gb + t * c + p1
  <2> DEFINE tc == t * c
  <2>1. tc \in Nat /\ used <= gb + tc + p
    BY <1>2, <1>9
  <2> HIDE DEF tc
  <2>2. next <= gb + tc + p1
    BY <1>1, <1>4, <1>5, <1>7, <2>1
  <2> QED
    BY <2>2 DEF tc
<1>11. next <= gb + n * c
  BY <1>1, <1>5, <1>7, <1>9, <1>10
<1>12. CASE i = 8
  <2>1. k + 1 = 5 + 9 * (t + 1) + 0
    BY <1>2, <1>12
  <2>2. Prefix(g, 0) = 0
    BY DEF Prefix
  <2>3. next <= gb + (t + 1) * c + 0
    BY <1>1, <1>5, <1>8, <1>9, <1>10, <1>12
  <2>4. UsedBy(g, k + 1, next, t + 1, 0)
    BY <2>1, <2>2, <2>3 DEF UsedBy, Globals, PerContext, gb, c
  <2>5. t + 1 \in Nat /\ 0 \in 0 .. PerContext - 1
    BY DEF PerContext
  <2> QED
    BY <1>11, <2>4, <2>5 DEF gb, n, c
<1>13. CASE i # 8
  <2>1. k + 1 = 5 + 9 * t + (i + 1) /\ i + 1 \in 0 .. PerContext - 1
    BY <1>2, <1>13 DEF PerContext
  <2>2. UsedBy(g, k + 1, next, t, i + 1)
    BY <1>10, <2>1 DEF UsedBy, Globals, PerContext, gb, c, p1
  <2> QED
    BY <1>11, <2>1, <2>2 DEF gb, n, c
<1> QED
  BY <1>12, <1>13

LEMMA InitUsed == Init => HeapUsed
<1> SUFFICES ASSUME Init PROVE HeapUsed
  OBVIOUS
<1>1. phase = "parse" /\ heap_end = 0 /\ bump = 0 /\ blocks = << >> /\ ~failed
  BY DEF Init, HeapInit
<1>2. TwoThreadsFit
  BY <1>1 DEF TwoThreadsFit
<1> QED
  BY <1>1, <1>2 DEF HeapUsed, BeforeMapping, Mapped, GlobalsUsed, ContextsUsed

(* Nothing fails while what has been asked for is below the estimate.      *)
LEMMA EstimateSuffices ==
  ASSUME IInv, Parsed, Mapped, phase \in {"globals", "contexts"},
         gopts.num_threads >= 2, ~Given("metadata_heap_sz"),
         SmallContexts(gopts), BuffersAddressable(gopts)
  PROVE  /\ gopts.num_threads * MB <= heap_end
         /\ GlobalBytes(gopts) + gopts.num_threads * ContextBytes(gopts) < heap_end
<1>1. Typed(gopts)
  BY DEF IInv, TypeOK, Typed
<1>2. EstimatedSizes(gopts)
  BY DEF Parsed, Estimated, SizeFields, Checked
<1>3. heap_end = ToULong(gopts.metadata_heap_sz * MB)
  BY DEF Mapped
<1> QED
  BY <1>1, <1>2, <1>3, HeapHoldsAll

(* A request is granted, or the heap was too small for it.                 *)
LEMMA MallocOutcome ==
  ASSUME HeapTypeOK, NEW size, NEW align, Malloc(size, align), size \in Nat, align \in Alignments
  PROVE  /\ ~failed /\ heap_end' = heap_end /\ ChunkSize(size, align) \in Nat
         /\ bump' = bump + ChunkSize(size, align) /\ bump' \in Nat
         /\ \/ failed' /\ bump' >= heap_end
            \/ ~failed' /\ Len(blocks') = Len(blocks) + 1
<1>1. ChunkSize(size, align) \in Nat
  BY LineAssumption DEF LineAssumption, ChunkSize, Alignments, DefaultAlignment
<1>2. bump \in Nat /\ Len(blocks) \in Nat
  BY DEF HeapTypeOK
<1>3. bump' = bump + ChunkSize(size, align) /\ heap_end' = heap_end /\ ~failed
  BY DEF Malloc
<1>4. CASE bump' >= heap_end /\ failed' = TRUE
  BY <1>1, <1>2, <1>3, <1>4
<1>5. CASE /\ failed' = failed
           /\ blocks' = Append(blocks, [start |-> AlignAddress(bump, align),
                                        size |-> size, align |-> align])
  <2>1. Len(blocks') = Len(blocks) + 1
    BY <1>5 DEF HeapTypeOK
  <2>2. ~failed'
    BY <1>3, <1>5
  <2> QED
    BY <1>1, <1>2, <1>3, <2>1, <2>2
<1> QED
  BY <1>4, <1>5 DEF Malloc

LEMMA AllocateGlobalUsed == IInv /\ Parsed /\ HeapUsed /\ AllocateGlobal => HeapUsed'
<1> SUFFICES ASSUME IInv, Parsed, HeapUsed, AllocateGlobal PROVE HeapUsed'
  OBVIOUS
<1> DEFINE k == Len(blocks)
           n == gopts.num_threads
           request == GlobalRequests(gopts)[k + 1]
           chunk == ChunkSize(request.size, request.align)
<1>1. /\ Typed(gopts) /\ HeapTypeOK /\ k \in Nat /\ bump \in Nat /\ n \in Nat /\ heap_end \in Nat
  BY DEF IInv, TypeOK, Typed, HeapTypeOK, NumberOptions
<1>2. /\ phase = "globals" /\ k < Globals /\ Malloc(request.size, request.align)
      /\ phase' = (IF failed' THEN "exited" ELSE phase) /\ UNCHANGED <<argv, optind, gopts>>
  BY DEF AllocateGlobal
<1>3. k + 1 \in 1 .. Globals
  BY <1>1, <1>2 DEF Globals
<1>4. request.size \in Nat /\ request.align \in Alignments
  BY <1>1, <1>3, RequestsTyped
<1>5. chunk <= 40 * n + 15
  BY <1>1, <1>3, GlobalChunk
<1> HIDE DEF request
<1>6. /\ ~failed /\ heap_end' = heap_end /\ chunk \in Nat
      /\ bump' = bump + chunk /\ bump' \in Nat
      /\ \/ failed' /\ bump' >= heap_end
         \/ ~failed' /\ Len(blocks') = k + 1
  BY <1>1, <1>2, <1>4, MallocOutcome
<1>7. bump <= k * (40 * n + 15)
  BY <1>2 DEF HeapUsed, GlobalsUsed
<1> HIDE DEF chunk
<1>8. bump' <= (k + 1) * (40 * n + 15)
  <2> DEFINE x == 40 * n + 15
  <2>1. x \in Nat
    BY <1>1
  <2>2. chunk <= x /\ bump <= k * x
    BY <1>5, <1>7
  <2> HIDE DEF x, n, k
  <2>3. (k + 1) * x = k * x + x /\ k * x \in Nat
    BY <1>1, <2>1, SMT
  <2> QED
    BY <1>1, <1>6, <2>1, <2>2, <2>3 DEF x
<1>9. CASE failed'
  <2>1. phase' = "exited"
    BY <1>2, <1>9
  <2>2. TwoThreadsFit'
    <3> SUFFICES ASSUME n >= 2, ~Given("metadata_heap_sz"), SmallContexts(gopts),
                        BuffersAddressable(gopts)
                 PROVE  FALSE
      BY <1>2 DEF TwoThreadsFit, Given, SmallContexts, BuffersAddressable
    <3>1. n * MB <= heap_end
      BY <1>2, EstimateSuffices DEF HeapUsed
    <3>2. (k + 1) * (40 * n + 15) <= 5 * (40 * n + 15)
      <4>1. k + 1 \in Nat /\ k + 1 <= 5
        BY <1>1, <1>3 DEF Globals
      <4>2. 40 * n + 15 \in Nat
        BY <1>1
      <4> QED
        BY <4>1, <4>2, ProductGrows
    <3>3. bump' >= heap_end
      BY <1>6, <1>9
    <3> DEFINE y == (k + 1) * (40 * n + 15)
    <3>4. y \in Nat
      BY <1>1, Product
    <3>5. y <= 200 * n + 75 /\ bump' <= y
      BY <1>1, <1>8, <3>2
    <3> HIDE DEF y, n
    <3> QED
      BY <1>1, <1>6, <3>1, <3>3, <3>4, <3>5 DEF MB
  <2> QED
    BY <2>1, <2>2 DEF HeapUsed, BeforeMapping, Mapped, GlobalsUsed, ContextsUsed
<1>10. CASE ~failed'
  <2>1. phase' = "globals" /\ Len(blocks') = k + 1
    BY <1>2, <1>6, <1>10
  <2>2. GlobalsUsed'
    <3>1. k + 1 <= Globals
      BY <1>1, <1>2 DEF Globals
    <3> QED
      BY <1>2, <1>8, <2>1, <3>1 DEF GlobalsUsed
  <2>3. Mapped' /\ BeforeMapping' /\ ContextsUsed' /\ TwoThreadsFit'
    BY <1>2, <1>6, <1>10, <2>1 DEF HeapUsed, BeforeMapping, Mapped, ContextsUsed, TwoThreadsFit
  <2> QED
    BY <2>2, <2>3 DEF HeapUsed
<1> QED
  BY <1>9, <1>10

LEMMA AllocateContextUsed == IInv /\ Parsed /\ HeapUsed /\ AllocateContext => HeapUsed'
<1> SUFFICES ASSUME IInv, Parsed, HeapUsed, AllocateContext PROVE HeapUsed'
  OBVIOUS
<1> DEFINE k == Len(blocks)
           n == gopts.num_threads
           request == ContextRequests(gopts)[((k - Globals) % PerContext) + 1]
           chunk == ChunkSize(request.size, request.align)
<1>1. /\ Typed(gopts) /\ HeapTypeOK /\ k \in Nat /\ bump \in Nat /\ n \in Nat /\ heap_end \in Nat
  BY DEF IInv, TypeOK, Typed, HeapTypeOK, NumberOptions
<1>2. /\ phase = "contexts" /\ k < Globals + PerContext * n /\ Malloc(request.size, request.align)
      /\ phase' = (IF failed' THEN "exited" ELSE phase) /\ UNCHANGED <<argv, optind, gopts>>
  BY DEF AllocateContext
<1>3. ((k - Globals) % PerContext) + 1 \in 1 .. PerContext
  BY <1>1, <1>2, Position DEF IInv, GlobalsFirst
<1>4. request.size \in Nat /\ request.align \in Alignments
  BY <1>1, <1>3, RequestsTyped
<1>5. request = ContextRequests(gopts)[((k - Globals) % PerContext) + 1]
  OBVIOUS
<1> HIDE DEF request
<1>6. /\ ~failed /\ heap_end' = heap_end /\ chunk \in Nat
      /\ bump' = bump + chunk /\ bump' \in Nat
      /\ \/ failed' /\ bump' >= heap_end
         \/ ~failed' /\ Len(blocks') = k + 1
  BY <1>1, <1>2, <1>4, MallocOutcome
<1>7. PICK t \in Nat, i \in 0 .. PerContext - 1 : UsedBy(gopts, k, bump, t, i)
  BY <1>2 DEF HeapUsed, ContextsUsed
<1>8. /\ bump' <= GlobalBytes(gopts) + n * ContextBytes(gopts)
      /\ \E u \in Nat, j \in 0 .. PerContext - 1 : UsedBy(gopts, k + 1, bump', u, j)
  <2> DEFINE next == bump'
  <2>1. next \in Nat /\ next = bump + chunk
    BY <1>6
  <2> HIDE DEF next, k
  <2>2. /\ next <= GlobalBytes(gopts) + n * ContextBytes(gopts)
        /\ \E u \in Nat, j \in 0 .. PerContext - 1 : UsedBy(gopts, k + 1, next, u, j)
    BY <1>1, <1>2, <1>5, <1>6, <1>7, <2>1, UsedStep
  <2> QED
    BY <2>2 DEF next
<1>9. CASE failed'
  <2>1. phase' = "exited"
    BY <1>2, <1>9
  <2>2. TwoThreadsFit'
    <3> SUFFICES ASSUME n >= 2, ~Given("metadata_heap_sz"), SmallContexts(gopts),
                        BuffersAddressable(gopts)
                 PROVE  FALSE
      BY <1>2 DEF TwoThreadsFit, Given, SmallContexts, BuffersAddressable
    <3>1. GlobalBytes(gopts) + n * ContextBytes(gopts) < heap_end
      BY <1>2, EstimateSuffices DEF HeapUsed
    <3>2. bump' >= heap_end
      BY <1>6, <1>9
    <3> DEFINE y == GlobalBytes(gopts) + n * ContextBytes(gopts)
    <3>3. y \in Nat
      <4>1. ContextBytes(gopts) \in Nat
        <5>1. 0 \in 0 .. PerContext
          BY DEF PerContext
        <5> QED
          BY <1>1, <5>1, PrefixBounds
      <4>2. n * ContextBytes(gopts) \in Nat
        BY <1>1, <4>1, Product
      <4>3. GlobalBytes(gopts) \in Nat
        BY <1>1 DEF GlobalBytes
      <4> QED
        BY <4>2, <4>3
    <3>4. y < heap_end /\ bump' <= y
      BY <1>8, <3>1
    <3> HIDE DEF y
    <3> QED
      BY <1>1, <1>6, <3>2, <3>3, <3>4
  <2> QED
    BY <2>1, <2>2 DEF HeapUsed, BeforeMapping, Mapped, GlobalsUsed, ContextsUsed
<1>10. CASE ~failed'
  <2>1. phase' = "contexts" /\ Len(blocks') = k + 1
    BY <1>2, <1>6, <1>10
  <2>2. ContextsUsed'
    <3>1. k + 1 <= Globals + PerContext * n
      BY <1>1, <1>2 DEF Globals, PerContext
    <3> QED
      BY <1>2, <1>8, <2>1, <3>1 DEF ContextsUsed
  <2>3. Mapped' /\ BeforeMapping' /\ GlobalsUsed' /\ TwoThreadsFit'
    BY <1>2, <1>6, <1>10, <2>1 DEF HeapUsed, BeforeMapping, Mapped, GlobalsUsed, TwoThreadsFit
  <2> QED
    BY <2>2, <2>3 DEF HeapUsed
<1> QED
  BY <1>9, <1>10

LEMMA NextUsed == IInv /\ Parsed /\ HeapUsed /\ [Next]_vars => HeapUsed'
<1> SUFFICES ASSUME IInv, Parsed, HeapUsed, [Next]_vars PROVE HeapUsed'
  OBVIOUS
<1>1. CASE ParseOption \/ CheckParams
  <2>1. /\ phase = "parse" /\ phase' \in {"parse", "map", "exited"} /\ UNCHANGED heapVars
    BY <1>1 DEF ParseOption, CheckParams
  <2>2. heap_end = 0 /\ bump = 0 /\ blocks = << >> /\ ~failed
    BY <2>1 DEF HeapUsed, BeforeMapping
  <2>3. heap_end' = 0 /\ bump' = 0 /\ blocks' = << >> /\ ~failed'
    BY <2>1, <2>2 DEF heapVars
  <2> QED
    BY <2>1, <2>3 DEF HeapUsed, BeforeMapping, Mapped, GlobalsUsed, ContextsUsed, TwoThreadsFit
<1>2. CASE MapHeap
  <2>1. /\ phase = "map" /\ InitMetadataHeap(ToULong(gopts.metadata_heap_sz * MB))
        /\ phase' = (IF failed' THEN "exited" ELSE "globals") /\ gopts' = gopts
    BY <1>2 DEF MapHeap
  <2>2. bump = 0 /\ blocks = << >> /\ ~failed /\ heap_end = 0
    BY <2>1 DEF HeapUsed, BeforeMapping
  <2>3. CASE failed'
    <3>1. heap_end' = 0
      BY <2>1, <2>2, <2>3 DEF InitMetadataHeap
    <3>2. TwoThreadsFit'
      BY <3>1 DEF TwoThreadsFit
    <3> QED
      BY <2>1, <2>3, <3>2 DEF HeapUsed, BeforeMapping, Mapped, GlobalsUsed, ContextsUsed
  <2>4. CASE ~failed'
    <3>1. heap_end' = ToULong(gopts'.metadata_heap_sz * MB) /\ bump' = 0 /\ blocks' = << >>
      BY <2>1, <2>2, <2>4 DEF InitMetadataHeap
    <3>2. Len(blocks') = 0 /\ phase' = "globals"
      BY <2>1, <2>4, <3>1
    <3>3. GlobalsUsed'
      <4>1. gopts'.num_threads \in Nat
        BY <2>1 DEF IInv, TypeOK, NumberOptions
      <4>2. 0 <= 0 * (40 * gopts'.num_threads + 15)
        BY <4>1
      <4> QED
        BY <3>1, <3>2, <4>2 DEF GlobalsUsed, Globals
    <3> QED
      BY <2>4, <3>1, <3>2, <3>3 DEF HeapUsed, BeforeMapping, Mapped, ContextsUsed, TwoThreadsFit
  <2> QED
    BY <2>3, <2>4
<1>3. CASE ChooseThreadFunction
  <2>1. /\ phase = "globals" /\ Len(blocks) = Globals /\ phase' \in {"exited", "contexts"}
        /\ UNCHANGED <<argv, gopts, heap_end, bump, blocks, failed>>
    BY <1>3 DEF ChooseThreadFunction, heapVars
  <2>2. gopts.num_threads \in Nat /\ bump \in Nat
    BY DEF IInv, TypeOK, NumberOptions, HeapTypeOK
  <2>3. ContextsUsed'
    <3>1. bump <= Globals * (40 * gopts.num_threads + 15)
      BY <2>1 DEF HeapUsed, GlobalsUsed
    <3>2. ContextBytes(gopts) \in Nat /\ Prefix(gopts, 0) = 0
      <4>1. 0 \in 0 .. PerContext /\ Typed(gopts)
        BY DEF PerContext, IInv, TypeOK, Typed
      <4>2. Prefix(gopts, 0) = 0
        BY DEF Prefix
      <4> QED
        BY <4>1, <4>2, PrefixBounds
    <3>3. 0 * ContextBytes(gopts) = 0
      BY <3>2
    <3>4. GlobalBytes(gopts) = 200 * gopts.num_threads + 75
      BY DEF GlobalBytes
    <3>5. bump <= GlobalBytes(gopts) + 0 * ContextBytes(gopts) + Prefix(gopts, 0)
      <4> DEFINE g == GlobalBytes(gopts)
                 n == gopts.num_threads
      <4>1. n \in Nat /\ g = 200 * n + 75 /\ bump <= 5 * (40 * n + 15)
        BY <2>2, <3>1, <3>4 DEF Globals
      <4> HIDE DEF g, n
      <4>2. bump <= g + 0 + 0
        BY <2>2, <4>1
      <4> QED
        BY <3>2, <3>3, <4>2 DEF g
    <3>6. UsedBy(gopts, Globals, bump, 0, 0)
      BY <3>5 DEF UsedBy, Globals, PerContext
    <3>7. 0 \in Nat /\ 0 \in 0 .. PerContext - 1 /\ Globals <= Globals + PerContext * gopts.num_threads
      BY <2>2 DEF Globals, PerContext
    <3> QED
      BY <2>1, <3>6, <3>7 DEF ContextsUsed
  <2>4. BeforeMapping' /\ Mapped' /\ GlobalsUsed'
    BY <2>1 DEF HeapUsed, BeforeMapping, Mapped, GlobalsUsed
  <2>5. TwoThreadsFit'
    BY <2>1 DEF HeapUsed, TwoThreadsFit, Given, SmallContexts, BuffersAddressable
  <2> QED
    BY <2>3, <2>4, <2>5 DEF HeapUsed
<1>4. CASE CreateThreads
  <2>1. phase' = "running" /\ UNCHANGED <<argv, gopts, heap_end, bump, blocks, failed>>
    BY <1>4 DEF CreateThreads, heapVars
  <2>2. TwoThreadsFit'
    BY <2>1 DEF HeapUsed, TwoThreadsFit, Given, SmallContexts, BuffersAddressable
  <2> QED
    BY <2>1, <2>2 DEF HeapUsed, BeforeMapping, Mapped, GlobalsUsed, ContextsUsed
<1>5. CASE Terminating \/ UNCHANGED vars
  <2>1. UNCHANGED <<argv, gopts, phase, heap_end, bump, blocks, failed>>
    BY <1>5 DEF Terminating, vars, heapVars
  <2>2. TwoThreadsFit'
    BY <2>1 DEF HeapUsed, TwoThreadsFit, Given, SmallContexts, BuffersAddressable
  <2>3. BeforeMapping' /\ Mapped' /\ GlobalsUsed' /\ ContextsUsed'
    BY <2>1 DEF HeapUsed, BeforeMapping, Mapped, GlobalsUsed, ContextsUsed
  <2> QED
    BY <2>2, <2>3 DEF HeapUsed
<1> QED
  BY <1>1, <1>2, <1>3, <1>4, <1>5, AllocateGlobalUsed, AllocateContextUsed DEF Next

(* With two threads or more, run_acdc never runs out of the heap that main *)
(* asked for itself, whatever number of classes and nodes was estimated,   *)
(* as long as that many of them have addresses.                            *)
THEOREM EstimatedHeapFits == Spec => []TwoThreadsFit
<1>1. HeapUsed => TwoThreadsFit
  BY DEF HeapUsed
<1>2. Spec => []HeapUsed
  BY InitUsed, NextUsed, Inductive, ParsedInductive, PTL DEF Spec
<1> QED
  BY <1>1, <1>2, PTL
=============================================================================
