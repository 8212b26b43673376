------------------------------ MODULE SLABProofs ------------------------------
(***************************************************************************)
(* Proofs about SLAB, for every size of page, word and block: the bitmap   *)
(* says exactly which slots are free, callers have no byte in common,      *)
(* SLABFirst does not miss what was free all along, and SLABCanFree holds  *)
(* exactly for empty pages.                                                *)
(*                                                                         *)
(* Neither a block's length nor its place is stored, so that the inductive *)
(* invariant has to say that only offsets at which a block of the page     *)
(* begins are handed out; the proof is about how these blocks tile it.     *)
(***************************************************************************)
EXTENDS SLAB, NumberLemmas, FiniteSetTheorems, TLAPS

-----------------------------------------------------------------------------
(* Powers of two.                                                          *)

\* Between a divisor of a power of two and its double there is no other divisor.
LEMMA DivisorsApart ==
  ASSUME NEW n \in Nat \ {0}, IsPowerOfTwo(n),
         NEW t \in 1..n, NEW u \in 1..n, n % t = 0, n % u = 0, t < u
  PROVE  2 * t <= u
<1> DEFINE Close(a, b) == n % a = 0 /\ n % b = 0 /\ a < b /\ b < 2 * a
           T == {a \in 1..n : \E b \in 1..n : Close(a, b)}
<1>1. SUFFICES ASSUME u < 2 * t PROVE FALSE
  OBVIOUS
<1>2. t \in T /\ T # {} /\ T \subseteq 0..n
  <2>1. Close(t, u)
    BY <1>1
  <2>2. t \in T
    BY <2>1
  <2>3. T \subseteq 0..n
    OBVIOUS
  <2> QED
    BY <2>2, <2>3
<1>3. PICK a \in T : \A c \in T : c <= a
  <2> HIDE DEF T
  <2> QED
    BY <1>2, GreatestExists
<1>4. PICK b \in 1..n : Close(a, b)
  BY <1>3
<1>5. a \in 1..n /\ a < n
  BY <1>3, <1>4
<1>6. n % (2 * a) = 0 /\ 2 * a <= n
  BY <1>4, <1>5, HalfAtMost DEF IsPowerOfTwo
<1>7. b < n
  BY <1>4, <1>6
<1>8. n % (2 * b) = 0 /\ 2 * b <= n
  <2>1. n % b = 0 /\ b \in 1..(n - 1)
    BY <1>4, <1>7
  <2> HIDE DEF Close, T
  <2>2. 2 * b <= n
    BY <2>1, HalfAtMost
  <2>3. n % (2 * b) = 0
    BY <2>1 DEF IsPowerOfTwo
  <2> QED
    BY <2>2, <2>3
<1>9. 2 * a \in T
  <2>1. 2 * a \in 1..n /\ 2 * b \in 1..n
    BY <1>5, <1>6, <1>8
  <2>2. Close(2 * a, 2 * b)
    BY <1>4, <1>5, <1>6, <1>8
  <2> QED
    BY <2>1, <2>2
<1> QED
  BY <1>3, <1>5, <1>9

-----------------------------------------------------------------------------
(* The blocks of a page with blocks of n bytes.                            *)

\* A block begins at offset o: a residual one in front of the first main block,
\* or a main one.
IsBlock(n, o) ==
  /\ o \in SizeofSLAB..(PageSize - 1)
  /\ o % MinAlloc = 0
  /\ IF o < n THEN n % o = 0 ELSE o % n = 0

\* The length of the block at o.
Length(n, o) == IF o > n THEN n ELSE o

\* What the assumptions say of a block length.
LEMMA LengthFacts ==
  ASSUME NEW n \in ElementLengths
  PROVE  /\ n \in Nat \ {0} /\ IsPowerOfTwo(n) /\ n % MinAlloc = 0
         /\ n \div MinAlloc \in Nat \ {0} /\ n = MinAlloc * (n \div MinAlloc)
         /\ n \div MinAlloc < WordBits /\ WordBits % (n \div MinAlloc) = 0
         /\ n >= SizeofSLAB /\ n % SizeofSLAB = 0
<1>1. n \in Nat \ {0} /\ IsPowerOfTwo(n) /\ n % MinAlloc = 0 /\ n \div MinAlloc < WordBits
      /\ WordBits % (n \div MinAlloc) = 0
      /\ n % CachelineLength = 0
  BY SlabAssumption
<1>2. n \div MinAlloc \in Nat /\ n = MinAlloc * (n \div MinAlloc)
  <2>1. MinAlloc \in Nat \ {0}
    BY SlabAssumption
  <2> QED
    BY <1>1, <2>1, DivMod
<1>3. n \div MinAlloc # 0
  BY <1>1, <1>2, SlabAssumption
<1>4. SizeofSLAB \in Nat \ {0} /\ SizeofSLAB = CachelineLength
  BY SlabAssumption
<1>5. n >= SizeofSLAB
  <2>1. n < SizeofSLAB => n % SizeofSLAB = n
    BY <1>1, <1>4, DivUnique, SizeofSLAB * 0 + n = n
  <2> QED
    BY <2>1, <1>1, <1>4
<1> QED
  BY <1>1, <1>2, <1>3, <1>4, <1>5

\* What the assumptions say of the page and the header.
LEMMA PageFacts ==
  /\ PageSize \in Nat /\ MinAlloc \in Nat \ {0} /\ WordBits \in Nat \ {0}
  /\ SizeofSLAB \in Nat \ {0} /\ SizeofSLAB % MinAlloc = 0
  /\ Slots \in Nat /\ PageSize = MinAlloc * Slots
  /\ Slots % WordBits = 0 /\ Slots \div WordBits \in Nat
  /\ Slots = WordBits * (Slots \div WordBits)
<1>1. PageSize \in Nat /\ MinAlloc \in Nat \ {0} /\ WordBits \in Nat \ {0}
      /\ SizeofSLAB \in Nat \ {0} /\ SizeofSLAB % MinAlloc = 0
      /\ PageSize % MinAlloc = 0 /\ Slots % WordBits = 0
  BY SlabAssumption DEF Slots
<1>2. Slots \in Nat /\ PageSize = MinAlloc * Slots
  BY <1>1, DivMod DEF Slots
<1>3. Slots \div WordBits \in Nat /\ Slots = WordBits * (Slots \div WordBits)
  BY <1>1, <1>2, DivMod
<1> QED
  BY <1>1, <1>2, <1>3

\* A block ends before the next one begins.
LEMMA BlocksApart ==
  ASSUME NEW n \in ElementLengths, NEW t, NEW u, IsBlock(n, t), IsBlock(n, u), t < u
  PROVE  t + Length(n, t) <= u
<1>1. n \in Nat \ {0} /\ IsPowerOfTwo(n)
  BY LengthFacts
<1>2. t \in Nat \ {0} /\ u \in Nat \ {0}
  BY PageFacts DEF IsBlock
<1>3. CASE t >= n
  BY <1>1, <1>2, <1>3, MultiplesApart DEF IsBlock, Length
<1>4. CASE t < n /\ u >= n
  <2>1. n % t = 0
    BY <1>4 DEF IsBlock
  <2>2. 2 * t <= n
    BY <1>1, <1>2, <1>4, <2>1, HalfAtMost
  <2> QED
    BY <1>1, <1>2, <1>4, <2>2 DEF Length
<1>5. CASE t < n /\ u < n
  <2>1. n % t = 0 /\ n % u = 0 /\ t \in 1..n /\ u \in 1..n
    BY <1>1, <1>2, <1>5 DEF IsBlock
  <2>2. 2 * t <= u
    BY <1>1, <2>1, DivisorsApart
  <2> QED
    BY <1>1, <1>2, <1>5, <2>2 DEF Length
<1> QED
  BY <1>1, <1>2, <1>3, <1>4, <1>5

\* The blocks leave no gap: each byte behind the header is in one.
LEMMA BlocksTile ==
  ASSUME NEW n \in ElementLengths, NEW o \in SizeofSLAB..(PageSize - 1)
  PROVE  \E t \in Nat : IsBlock(n, t) /\ t <= o /\ o < t + Length(n, t)
<1>1. n \in Nat \ {0} /\ IsPowerOfTwo(n) /\ n % MinAlloc = 0
      /\ n >= SizeofSLAB /\ n % SizeofSLAB = 0
  BY LengthFacts
<1>2. MinAlloc \in Nat \ {0} /\ SizeofSLAB \in Nat \ {0} /\ SizeofSLAB % MinAlloc = 0
      /\ PageSize \in Nat /\ o \in Nat
  BY PageFacts
<1>3. CASE o >= n
  <2> DEFINE t == n * (o \div n)
  <2>1. o \div n \in Nat /\ o = n * (o \div n) + (o % n) /\ o % n \in 0..(n - 1)
    BY <1>1, <1>2, DivMod
  <2>2. t \in Nat /\ t <= o /\ o < t + n
    <3> DEFINE d == o \div n
               r == o % n
    <3>1. d \in Nat /\ o = n * d + r /\ r \in 0..(n - 1) /\ t = n * d
      BY <2>1
    <3> HIDE DEF t, d, r
    <3>2. t \in Nat
      BY <3>1, <1>1
    <3>3. o = t + r
      BY <3>1
    <3> QED
      BY <3>1, <3>2, <3>3, <1>1, <1>2
  <2>3. t % n = 0
    BY ONLY <2>1, <1>1, ProductDivides
  <2>4. t >= n
    <3>1. o \div n # 0
      BY <2>1, <1>1, <1>3
    <3>2. \A d \in Nat \ {0} : n * d >= n
      <4> SUFFICES ASSUME NEW d \in Nat \ {0} PROVE n * d >= n
        OBVIOUS
      <4>1. 0 * n + n <= d * n /\ d * n = n * d
        BY <1>1, Products
      <4>2. 0 * n = 0 /\ d * n \in Nat
        BY <1>1
      <4> QED
        BY <4>1, <4>2, <1>1
    <3> QED
      BY <3>1, <3>2, <2>1
  <2>5. t >= SizeofSLAB
    <3> HIDE DEF t
    <3> QED
      BY <2>4, <2>2, <1>1, <1>2
  <2>6. t % MinAlloc = 0
    <3> HIDE DEF t
    <3> QED
      BY <2>2, <2>3, <1>1, <1>2, DividesTrans
  <2>7. IsBlock(n, t)
    <3> HIDE DEF t
    <3> QED
      BY <2>2, <2>3, <2>4, <2>5, <2>6, <1>1, <1>2 DEF IsBlock
  <2>8. Length(n, t) = n
    <3> HIDE DEF t
    <3> QED
      BY <2>2, <2>4, <1>1 DEF Length
  <2> HIDE DEF t
  <2> QED
    BY <2>2, <2>7, <2>8
<1>4. CASE o < n
  <2> DEFINE T == {d \in SizeofSLAB..o : n % d = 0 /\ d % MinAlloc = 0}
  <2>1. SizeofSLAB \in T /\ T \subseteq 0..o
    BY <1>1, <1>2, <1>4
  <2>2. PICK t \in T : \A d \in T : d <= t
    <3> HIDE DEF T
    <3> QED
      BY <2>1, <1>2, GreatestExists
  <2>3. t \in SizeofSLAB..o /\ n % t = 0 /\ t % MinAlloc = 0
    BY <2>2
  <2>4. t \in Nat \ {0} /\ t <= o /\ t < n
    BY <2>3, <1>1, <1>2, <1>4
  <2>5. IsBlock(n, t)
    BY <2>3, <2>4, <1>1, <1>2 DEF IsBlock
  <2>6. n % (2 * t) = 0
    BY <2>3, <2>4, <1>1 DEF IsPowerOfTwo
  <2>7. (2 * t) % MinAlloc = 0
    <3>1. (2 * t) % t = 0
      BY <2>4, DivUnique, t * 2 + 0 = 2 * t
    <3>2. 2 * t \in Nat /\ t % MinAlloc = 0
      BY <2>3, <2>4
    <3> HIDE DEF T
    <3> QED
      BY <3>1, <3>2, <2>4, <1>2, DividesTrans
  <2>8. ~(2 * t <= o)
    <3>1. SUFFICES ASSUME 2 * t <= o PROVE FALSE
      OBVIOUS
    <3>2. 2 * t \in T
      BY <3>1, <2>3, <2>4, <2>6, <2>7, <1>2
    <3> QED
      BY <3>2, <2>2, <2>4
  <2>9. Length(n, t) = t
    BY <2>4, <1>1 DEF Length
  <2> QED
    BY <2>4, <2>5, <2>8, <2>9, <1>2
<1> QED
  BY <1>1, <1>2, <1>3, <1>4

-----------------------------------------------------------------------------
(* Blocks and slots.                                                       *)

\* A main block is a number of whole slots, all in the page and all in one word.
LEMMA MainBlockInWord ==
  ASSUME NEW n \in ElementLengths, NEW o, IsBlock(n, o), o >= n,
         NEW a, a = o \div MinAlloc, NEW m, m = n \div MinAlloc
  PROVE  (a % WordBits) + m <= WordBits /\ a + m <= Slots
<1>1. n \in Nat \ {0} /\ n % MinAlloc = 0 /\ m \in Nat \ {0} /\ n = MinAlloc * m
      /\ m < WordBits /\ WordBits % m = 0
  BY LengthFacts
<1>2. PageSize \in Nat /\ MinAlloc \in Nat \ {0} /\ WordBits \in Nat \ {0} /\ SizeofSLAB \in Nat \ {0}
      /\ Slots \in Nat /\ PageSize = MinAlloc * Slots /\ Slots % WordBits = 0
  BY PageFacts
<1>3. o \in Nat /\ o % MinAlloc = 0 /\ o < PageSize /\ o % n = 0
  BY <1>1, <1>2 DEF IsBlock
<1>4. a \in Nat /\ o = MinAlloc * a
  BY <1>2, <1>3, MultipleOf
<1>5. a % m = 0
  BY <1>1, <1>2, <1>3, <1>4, CancelFactor
<1>6. (a % WordBits) + m <= WordBits
  BY <1>1, <1>2, <1>4, <1>5, RemainderRoom
<1>7. Slots % m = 0
  BY <1>1, <1>2, DividesTrans
<1>8. a < Slots
  BY <1>2, <1>3, <1>4, Factors
<1> QED
  BY <1>1, <1>2, <1>4, <1>5, <1>6, <1>7, <1>8, MultiplesApart

\* So is a residual block.
LEMMA ResidualBlockInWord ==
  ASSUME NEW n \in ElementLengths, NEW o, IsBlock(n, o), o < n,
         NEW a, a = o \div MinAlloc
  PROVE  (a % WordBits) + a <= WordBits /\ a + a <= Slots
<1> DEFINE m == n \div MinAlloc
<1>1. n \in Nat \ {0} /\ m \in Nat \ {0} /\ n = MinAlloc * m /\ m < WordBits
  BY LengthFacts
<1>2. PageSize \in Nat /\ MinAlloc \in Nat \ {0} /\ WordBits \in Nat \ {0} /\ SizeofSLAB \in Nat \ {0}
      /\ Slots \in Nat /\ PageSize = MinAlloc * Slots /\ Slots % WordBits = 0
  BY PageFacts
<1>3. o \in Nat \ {0} /\ o % MinAlloc = 0 /\ o < PageSize /\ n % o = 0
  BY <1>1, <1>2 DEF IsBlock
<1>4. a \in Nat /\ o = MinAlloc * a
  BY <1>2, <1>3, MultipleOf
<1> HIDE DEF m
<1>5. 2 * o <= n
  BY <1>1, <1>3, HalfAtMost
<1>6. 2 * a <= m
  <2>1. (2 * a) * MinAlloc <= m * MinAlloc
    BY <1>1, <1>2, <1>4, <1>5
  <2> QED
    BY <2>1, <1>1, <1>2, <1>4, Factors
<1>7. a < WordBits /\ a + a <= WordBits
  BY <1>1, <1>2, <1>4, <1>6
<1>8. a % WordBits = a
  <2>1. WordBits * 0 + a = a /\ a \in 0..(WordBits - 1)
    BY <1>2, <1>4, <1>7
  <2> QED
    BY <2>1, <1>2, DivUnique
<1>9. WordBits <= Slots
  <2>1. Slots # 0
    BY <1>2, <1>3
  <2>2. 0 % WordBits = 0
    BY <1>2
  <2> QED
    BY <2>1, <2>2, <1>2, MultiplesApart
<1> QED
  BY <1>2, <1>4, <1>7, <1>8, <1>9

\* A block in terms of slots.
LEMMA BlockInWord ==
  ASSUME NEW n \in ElementLengths, NEW o, IsBlock(n, o),
         NEW a, a = o \div MinAlloc, NEW l, l = Length(n, o) \div MinAlloc
  PROVE  /\ a \in Nat /\ l \in Nat \ {0} /\ o \in Nat
         /\ o = MinAlloc * a /\ Length(n, o) = MinAlloc * l
         /\ (a % WordBits) + l <= WordBits
         /\ a + l <= Slots /\ o + Length(n, o) <= PageSize
<1>1. n \in Nat \ {0} /\ n \div MinAlloc \in Nat \ {0} /\ n = MinAlloc * (n \div MinAlloc)
  BY LengthFacts
<1>2. PageSize \in Nat /\ MinAlloc \in Nat \ {0} /\ WordBits \in Nat \ {0} /\ SizeofSLAB \in Nat \ {0}
      /\ Slots \in Nat /\ PageSize = MinAlloc * Slots
  BY PageFacts
<1>3. o \in Nat \ {0} /\ o % MinAlloc = 0
  BY <1>2 DEF IsBlock
<1>4. a \in Nat /\ o = MinAlloc * a
  BY <1>2, <1>3, MultipleOf
<1>5. a # 0
  BY <1>2, <1>3, <1>4
<1>6. /\ l \in Nat \ {0} /\ Length(n, o) = MinAlloc * l
      /\ (a % WordBits) + l <= WordBits /\ a + l <= Slots
  <2>1. CASE o >= n
    <3>1. Length(n, o) = n
      BY <1>1, <1>3, <2>1 DEF Length
    <3> QED
      BY <3>1, <2>1, <1>1, MainBlockInWord
  <2>2. CASE o < n
    <3>1. Length(n, o) = o
      BY <1>1, <1>3, <2>2 DEF Length
    <3> QED
      BY <3>1, <2>2, <1>4, <1>5, ResidualBlockInWord
  <2> QED
    BY <2>1, <2>2, <1>1, <1>3
<1>7. MinAlloc * a + MinAlloc * l <= MinAlloc * Slots
  <2>1. MinAlloc * (a + l) <= MinAlloc * Slots
    BY <1>2, <1>4, <1>6, Products
  <2> QED
    BY <2>1, <1>2, <1>4, <1>6
<1> QED
  BY <1>2, <1>3, <1>4, <1>6, <1>7

-----------------------------------------------------------------------------
(* The bitmap.                                                             *)

\* The slots of a block, and its length as SLABSet computes it.
LEMMA BlockSlotsOf ==
  ASSUME ElementLength \in ElementLengths, NEW o, IsBlock(ElementLength, o),
         NEW a, a = o \div MinAlloc, NEW l, l = Length(ElementLength, o) \div MinAlloc
  PROVE  /\ BlockLength(o) = Length(ElementLength, o)
         /\ BlockSlots(o) = a..(a + l - 1)
<1>1. BlockLength(o) = Length(ElementLength, o)
  BY DEF BlockLength, Length
<1>2. a \in Nat /\ l \in Nat \ {0} /\ o = MinAlloc * a /\ Length(ElementLength, o) = MinAlloc * l
  BY BlockInWord
<1>3. o + Length(ElementLength, o) = MinAlloc * (a + l) /\ a + l \in Nat
  <2>1. \A c, x, y \in Nat : c * x + c * y = c * (x + y)
    OBVIOUS
  <2>2. MinAlloc \in Nat
    BY PageFacts
  <2> QED
    BY <1>2, <2>1, <2>2
<1>4. (o + Length(ElementLength, o)) \div MinAlloc = a + l
  BY <1>3, PageFacts, ProductDivides
<1> QED
  BY <1>1, <1>4 DEF BlockSlots

\* The slots that are free according to a bitmap.
SlotsOf(f) == UNION {{WordBits * w + b : b \in f[w]} : w \in Words}

\* A slot is free if its bit in its word is set.
LEMMA FreeSlotBit ==
  ASSUME NEW f \in [Words -> SUBSET Bits], NEW s
  PROVE  s \in SlotsOf(f) <=> s \in 0..(Slots - 1) /\ s % WordBits \in f[s \div WordBits]
<1>1. WordBits \in Nat \ {0} /\ Slots \in Nat /\ Slots \div WordBits \in Nat
      /\ Slots = WordBits * (Slots \div WordBits)
  BY PageFacts
<1>2. s \in SlotsOf(f) <=> \E w \in Words : \E b \in f[w] : s = WordBits * w + b
  BY DEF SlotsOf
<1>3. ASSUME NEW w \in Words, NEW b \in f[w], s = WordBits * w + b
      PROVE  s \in 0..(Slots - 1) /\ s % WordBits \in f[s \div WordBits]
  <2>1. w \in Nat /\ b \in 0..(WordBits - 1) /\ w < Slots \div WordBits
    BY <1>1, <1>3 DEF Words, Bits
  <2>2. s \div WordBits = w /\ s % WordBits = b
    BY <1>1, <1>3, <2>1, DivUnique
  <2>3. WordBits * w + WordBits <= WordBits * (Slots \div WordBits)
    BY <1>1, <2>1, Products
  <2>4. WordBits * w \in Nat
    BY <1>1, <2>1, Products
  <2>5. s \in 0..(Slots - 1)
    BY <1>1, <1>3, <2>1, <2>3, <2>4
  <2> QED
    BY <2>2, <2>5
<1>4. ASSUME s \in 0..(Slots - 1), s % WordBits \in f[s \div WordBits]
      PROVE  \E w \in Words : \E b \in f[w] : s = WordBits * w + b
  <2>1. s = WordBits * (s \div WordBits) + (s % WordBits) /\ s \div WordBits \in Nat
        /\ s % WordBits \in 0..(WordBits - 1)
    <3>1. s \in Nat
      BY <1>1, <1>4
    <3> QED
      BY <3>1, <1>1, DivMod
  <2>2. (s \div WordBits) * WordBits < (Slots \div WordBits) * WordBits
    BY <1>1, <1>4, <2>1
  <2>3. s \div WordBits < Slots \div WordBits
    BY <1>1, <2>1, <2>2, Factors
  <2>4. s \div WordBits \in Words
    BY <1>1, <2>1, <2>3 DEF Words
  <2> QED
    BY <1>4, <2>1, <2>4
<1> QED
  BY <1>2, <1>3, <1>4

\* The slots that SLABSet's mask stands for are those of the block.
LEMMA MaskIsBlock ==
  ASSUME ElementLength \in ElementLengths, NEW o, IsBlock(ElementLength, o), NEW s \in 0..(Slots - 1)
  PROVE  /\ (o \div MinAlloc) \div WordBits \in Words
         /\ s \in BlockSlots(o) <=> /\ s \div WordBits = (o \div MinAlloc) \div WordBits
                                    /\ s % WordBits \in Mask(o)
<1> DEFINE a == o \div MinAlloc
           l == Length(ElementLength, o) \div MinAlloc
<1>1. WordBits \in Nat \ {0} /\ Slots \in Nat /\ Slots \div WordBits \in Nat
      /\ Slots = WordBits * (Slots \div WordBits)
  BY PageFacts
<1>2. a \in Nat /\ l \in Nat \ {0} /\ (a % WordBits) + l <= WordBits /\ a + l <= Slots
  BY BlockInWord
<1>3. BlockSlots(o) = a..(a + l - 1) /\ BlockLength(o) \div MinAlloc = l
  BY BlockSlotsOf
<1>4. Mask(o) = {b \in Bits : a % WordBits <= b /\ b < (a % WordBits) + l}
  BY <1>3 DEF Mask
<1> HIDE DEF a, l
<1>5. a = WordBits * (a \div WordBits) + (a % WordBits) /\ a \div WordBits \in Nat
      /\ a % WordBits \in 0..(WordBits - 1)
  BY <1>1, <1>2, DivMod
<1>6. s = WordBits * (s \div WordBits) + (s % WordBits) /\ s \div WordBits \in Nat
      /\ s % WordBits \in 0..(WordBits - 1)
  <2>1. s \in Nat
    BY <1>1
  <2> QED
    BY <2>1, <1>1, DivMod
<1>7. a \div WordBits \in Words
  <2>1. (a \div WordBits) * WordBits < (Slots \div WordBits) * WordBits
    BY <1>1, <1>2, <1>5
  <2> QED
    BY <2>1, <1>1, <1>5, Factors DEF Words
<1>8. ASSUME s \in a..(a + l - 1) PROVE s \div WordBits = a \div WordBits
  <2> DEFINE r == s - WordBits * (a \div WordBits)
  <2>1. r \in 0..(WordBits - 1) /\ s = WordBits * (a \div WordBits) + r
    BY <1>1, <1>2, <1>5, <1>8
  <2> HIDE DEF r
  <2> QED
    BY <2>1, <1>1, <1>5, DivUnique
<1>9. ASSUME s \div WordBits = a \div WordBits
      PROVE  s \in a..(a + l - 1) <=> a % WordBits <= s % WordBits /\ s % WordBits < (a % WordBits) + l
  <2>1. s - a = (s % WordBits) - (a % WordBits)
    BY <1>1, <1>2, <1>5, <1>6, <1>9
  <2> QED
    BY <2>1, <1>2, <1>5, <1>6
<1>10. s % WordBits \in Bits
  BY <1>6 DEF Bits
<1> QED
  BY <1>3, <1>4, <1>7, <1>8, <1>9, <1>10 DEF a

\* Each slot is in one of the words.
LEMMA SlotWord ==
  ASSUME NEW s \in 0..(Slots - 1)
  PROVE  s \div WordBits \in Words
<1>1. s \in Nat /\ WordBits \in Nat \ {0} /\ Slots \in Nat /\ Slots \div WordBits \in Nat
      /\ Slots = WordBits * (Slots \div WordBits)
  BY PageFacts
<1>2. s \div WordBits \in Nat /\ s = WordBits * (s \div WordBits) + (s % WordBits)
      /\ s % WordBits \in 0..(WordBits - 1)
  BY <1>1, DivMod
<1>3. (s \div WordBits) * WordBits < (Slots \div WordBits) * WordBits
  BY <1>1, <1>2
<1> QED
  BY <1>1, <1>2, <1>3, Factors DEF Words

\* SLABSet frees or occupies the slots of the block and no others.
LEMMA SetBlock ==
  ASSUME ElementLength \in ElementLengths, Bitmap \in [Words -> SUBSET Bits],
         NEW o, IsBlock(ElementLength, o), NEW isFree \in BOOLEAN, SLABSet(o, isFree)
  PROVE  /\ Bitmap' \in [Words -> SUBSET Bits]
         /\ FreeSlots' = IF isFree THEN FreeSlots \cup BlockSlots(o) ELSE FreeSlots \ BlockSlots(o)
<1> DEFINE word == (o \div MinAlloc) \div WordBits
<1>1. /\ word \in Words
      /\ \A s \in 0..(Slots - 1) :
           s \in BlockSlots(o) <=> s \div WordBits = word /\ s % WordBits \in Mask(o)
  <2>1. IsBlock(ElementLength, o) => 0 \in 0..(Slots - 1)
    BY PageFacts DEF IsBlock
  <2> QED
    BY <2>1, MaskIsBlock
<1>2. Bitmap' = [Bitmap EXCEPT ![word] = IF isFree THEN Bitmap[word] \cup Mask(o)
                                                   ELSE Bitmap[word] \ Mask(o)]
  BY DEF SLABSet
<1>3. Mask(o) \subseteq Bits /\ BlockSlots(o) \subseteq 0..(Slots - 1)
  <2>1. Mask(o) \subseteq Bits
    BY DEF Mask
  <2>2. PICK a, l : a \in Nat /\ l \in Nat /\ a + l <= Slots /\ BlockSlots(o) = a..(a + l - 1)
    BY BlockInWord, BlockSlotsOf
  <2> QED
    BY <2>1, <2>2, PageFacts
<1> HIDE DEF word
<1>4. Bitmap' \in [Words -> SUBSET Bits]
  BY <1>1, <1>2, <1>3
<1>5. FreeSlots = SlotsOf(Bitmap) /\ FreeSlots' = SlotsOf(Bitmap')
  BY DEF FreeSlots, SlotsOf
<1>6. ASSUME NEW s \in 0..(Slots - 1)
      PROVE  s % WordBits \in Bitmap'[s \div WordBits]
               <=> IF isFree
                   THEN s % WordBits \in Bitmap[s \div WordBits] \/ s \in BlockSlots(o)
                   ELSE s % WordBits \in Bitmap[s \div WordBits] /\ s \notin BlockSlots(o)
  BY SlotWord, <1>1, <1>2
<1> QED
  BY <1>3, <1>4, <1>5, <1>6, FreeSlotBit

\* Different blocks have no slot in common.
LEMMA SlotsApart ==
  ASSUME ElementLength \in ElementLengths, NEW a, NEW b,
         IsBlock(ElementLength, a), IsBlock(ElementLength, b), a # b
  PROVE  BlockSlots(a) \cap BlockSlots(b) = {}
<1>1. ASSUME NEW x, NEW y, IsBlock(ElementLength, x), IsBlock(ElementLength, y), x < y
      PROVE  BlockSlots(x) \cap BlockSlots(y) = {}
  <2>1. PICK s, l : /\ s \in Nat /\ l \in Nat \ {0} /\ x = MinAlloc * s
                    /\ Length(ElementLength, x) = MinAlloc * l /\ BlockSlots(x) = s..(s + l - 1)
    BY <1>1, BlockInWord, BlockSlotsOf
  <2>2. PICK t, m : /\ t \in Nat /\ m \in Nat \ {0} /\ y = MinAlloc * t
                    /\ BlockSlots(y) = t..(t + m - 1)
    BY <1>1, BlockInWord, BlockSlotsOf
  <2>3. MinAlloc * s + MinAlloc * l <= MinAlloc * t
    BY <1>1, <2>1, <2>2, BlocksApart
  <2>4. s + l <= t
    <3>1. MinAlloc \in Nat \ {0}
      BY PageFacts
    <3>2. (s + l) * MinAlloc <= t * MinAlloc
      BY <2>1, <2>2, <2>3, <3>1
    <3> QED
      BY <2>1, <2>2, <3>1, <3>2, Factors
  <2> QED
    BY <2>1, <2>2, <2>4
<1>2. a \in Nat /\ b \in Nat
  BY PageFacts DEF IsBlock
<1> QED
  BY <1>1, <1>2

-----------------------------------------------------------------------------
(* The inductive invariant.                                                *)

\* What callers have are blocks of the page: without it SLABSet would derive a
\* wrong length from the offset.
BlocksInPlace == \A a \in live : IsBlock(ElementLength, a)

\* What SLABFirst returned is a block, and still free when the owner marks it:
\* in between others may only free.
FoundBlock ==
  pc = "mark" => IsBlock(ElementLength, object) /\ object \div MinAlloc \in FreeSlots

\* If something was free when SLABFirst was called, it has not passed all of it.
SearchInv ==
  pc = "first" /\ hadFree => \E w \in Words : w >= base /\ Bitmap[w] # {}

IInv == TypeOK /\ FreeSlotsExact /\ BlocksInPlace /\ FoundBlock /\ SearchInv

\* The words begin with word 0.
LEMMA FirstWord == 0 \in Words
<1>1. PageSize # 0 /\ PageSize \in Nat
  BY SlabAssumption
<1>2. Slots # 0 /\ Slots \div WordBits # 0 /\ Slots \div WordBits \in Nat
  BY <1>1, PageFacts
<1> QED
  BY <1>2 DEF Words

\* The first free slot of a word is where a block begins: a block whose later
\* slots are free is free from its beginning, which is in the same word.
LEMMA FirstIsBlock ==
  ASSUME TypeOK, FreeSlotsExact, BlocksInPlace, Bitmap[base] # {},
         NEW s, s = Min(Bitmap[base]) + WordBits * base
  PROVE  s \in FreeSlots /\ IsBlock(ElementLength, s * MinAlloc)
<1>1. WordBits \in Nat \ {0} /\ MinAlloc \in Nat \ {0} /\ SizeofSLAB \in Nat \ {0} /\ Slots \in Nat
      /\ PageSize = MinAlloc * Slots /\ PageSize \in Nat
  BY PageFacts
<1>2. /\ Bitmap \in [Words -> SUBSET Bits] /\ base \in Words /\ base \in Nat
      /\ ElementLength \in ElementLengths /\ Bitmap[base] \subseteq 0..(WordBits - 1)
  BY <1>1 DEF TypeOK, Words, Bits
<1> DEFINE b == Min(Bitmap[base])
<1>3. b \in Bitmap[base] /\ \A c \in Bitmap[base] : b <= c
  <2>1. \E x \in Bitmap[base] : \A y \in Bitmap[base] : x <= y
    BY <1>1, <1>2, LeastExists
  <2> QED
    BY <2>1 DEF Min
<1>4. b \in 0..(WordBits - 1) /\ b \in Nat
  BY <1>2, <1>3
<1>5. s = WordBits * base + b
  BY <1>1, <1>2, <1>4
<1> HIDE DEF b
<1>6. s \in SlotsOf(Bitmap)
  BY <1>2, <1>3, <1>5 DEF SlotsOf
<1>7. FreeSlots = SlotsOf(Bitmap)
  BY DEF FreeSlots, SlotsOf
<1>8. s \div WordBits = base /\ s % WordBits = b
  <2>1. (WordBits * base + b) \div WordBits = base /\ (WordBits * base + b) % WordBits = b
    BY <1>1, <1>2, <1>4, DivUnique
  <2> QED
    BY <2>1, <1>5
<1>9. s \in (SizeofSLAB \div MinAlloc)..(Slots - 1) /\ s \in Nat
  <2>1. s \in (SizeofSLAB \div MinAlloc)..(Slots - 1)
    BY <1>6, <1>7 DEF FreeSlotsExact
  <2>2. SizeofSLAB \div MinAlloc \in Nat
    BY <1>1, DivMod
  <2> QED
    BY <2>1, <2>2
<1>10. s * MinAlloc \in SizeofSLAB..(PageSize - 1) /\ s * MinAlloc \in Nat
  <2>1. SizeofSLAB = MinAlloc * (SizeofSLAB \div MinAlloc) /\ SizeofSLAB \div MinAlloc \in Nat
    BY PageFacts, MultipleOf
  <2>2. (SizeofSLAB \div MinAlloc) * MinAlloc <= s * MinAlloc
    BY <2>1, <1>1, <1>9, Products
  <2>3. s * MinAlloc + MinAlloc <= Slots * MinAlloc
    BY <1>1, <1>9, Products
  <2>4. s * MinAlloc \in Nat
    BY <1>1, <1>9, Products
  <2> QED
    BY <2>1, <2>2, <2>3, <2>4, <1>1
<1>11. PICK t \in Nat : /\ IsBlock(ElementLength, t) /\ t <= s * MinAlloc
                        /\ s * MinAlloc < t + Length(ElementLength, t)
  BY <1>2, <1>10, BlocksTile
<1>12. PICK a, l : /\ a = t \div MinAlloc /\ l = Length(ElementLength, t) \div MinAlloc
                   /\ a \in Nat /\ l \in Nat \ {0} /\ t = MinAlloc * a
                   /\ Length(ElementLength, t) = MinAlloc * l /\ a + l <= Slots
                   /\ BlockSlots(t) = a..(a + l - 1)
  BY <1>2, <1>11, BlockInWord, BlockSlotsOf
<1>bounds. a \in Nat /\ l \in Nat \ {0} /\ a + l <= Slots /\ s \in Nat
  BY ONLY <1>9, <1>12
<1>13. s \in BlockSlots(t) /\ a \in BlockSlots(t) /\ a <= s
  <2>1. a * MinAlloc <= s * MinAlloc
    BY <1>1, <1>9, <1>11, <1>12
  <2>2. s * MinAlloc < (a + l) * MinAlloc
    BY <1>1, <1>9, <1>11, <1>12
  <2>3. a <= s /\ s < a + l
    <3>1. a \in Nat /\ s \in Nat /\ a + l \in Nat /\ MinAlloc \in Nat \ {0}
      BY ONLY <1>1, <1>bounds
    <3>2. a <= s
      BY <2>1, <3>1, Factors
    <3>3. s < a + l
      BY <2>2, <3>1, Factors
    <3> QED
      BY <3>2, <3>3
  <2>4. BlockSlots(t) = a..(a + l - 1)
    BY <1>12
  <2> QED
    BY ONLY <2>3, <2>4, <1>bounds
<1>14. a \in FreeSlots
  <2>1. \A c \in live : s \notin BlockSlots(c)
    BY <1>6, <1>7 DEF FreeSlotsExact
  <2>2. t \notin live
    BY <2>1, <1>13
  <2>3. \A c \in live : a \notin BlockSlots(c)
    BY <2>2, <1>2, <1>11, <1>13, SlotsApart DEF BlocksInPlace
  <2>4. a \in (SizeofSLAB \div MinAlloc)..(Slots - 1)
    <3>1. SizeofSLAB = MinAlloc * (SizeofSLAB \div MinAlloc) /\ SizeofSLAB \div MinAlloc \in Nat
      BY PageFacts, MultipleOf
    <3>2. SizeofSLAB <= t
      BY <1>11 DEF IsBlock
    <3>3. (SizeofSLAB \div MinAlloc) * MinAlloc <= a * MinAlloc
      BY <3>1, <3>2, <1>1, <1>12
    <3>4. a \in Nat /\ MinAlloc \in Nat \ {0}
      BY <1>1, <1>12
    <3>5. SizeofSLAB \div MinAlloc <= a
      BY <3>1, <3>3, <3>4, Factors
    <3> QED
      BY ONLY <3>1, <3>4, <3>5, <1>1, <1>bounds
  <2> QED
    BY <2>3, <2>4 DEF FreeSlotsExact
<1>15. a = s
  <2>1. a \in 0..(Slots - 1) /\ s \in 0..(Slots - 1) /\ a <= s
    <3>1. a <= s /\ a \in Nat
      BY <1>12, <1>13
    <3>2. s \in Nat /\ s <= Slots - 1
      BY <1>9
    <3> QED
      BY <3>1, <3>2, <1>1
  <2>2. a \div WordBits = base
    BY <2>1, <1>2, <1>8, <1>11, <1>12, <1>13, MaskIsBlock
  <2>3. a % WordBits \in Bitmap[base]
    BY <2>2, <1>2, <1>7, <1>14, FreeSlotBit
  <2>4. b <= a % WordBits
    BY <2>3, <1>3
  <2>5. a = WordBits * base + (a % WordBits) /\ a % WordBits \in 0..(WordBits - 1)
    BY <2>2, <1>1, <1>12, DivMod
  <2> QED
    BY <2>1, <2>4, <2>5, <1>1, <1>2, <1>4, <1>5
<1>16. t = s * MinAlloc
  <2>1. t = MinAlloc * a
    BY <1>12
  <2> QED
    BY <2>1, <1>1, <1>9, <1>15, Products
<1> QED
  BY <1>6, <1>7, <1>11, <1>16

\* The slots of a block are behind the header and in the page.
LEMMA SlotsInPage ==
  ASSUME ElementLength \in ElementLengths, NEW o, IsBlock(ElementLength, o)
  PROVE  /\ BlockSlots(o) \subseteq (SizeofSLAB \div MinAlloc)..(Slots - 1)
         /\ o \div MinAlloc \in BlockSlots(o)
<1>1. PICK a, l : /\ a = o \div MinAlloc /\ a \in Nat /\ l \in Nat \ {0} /\ o = MinAlloc * a
                  /\ a + l <= Slots /\ BlockSlots(o) = a..(a + l - 1)
  BY BlockInWord, BlockSlotsOf
<1>2. MinAlloc \in Nat \ {0} /\ SizeofSLAB \div MinAlloc \in Nat /\ Slots \in Nat
      /\ SizeofSLAB = MinAlloc * (SizeofSLAB \div MinAlloc)
  BY PageFacts, MultipleOf
<1>3. (SizeofSLAB \div MinAlloc) * MinAlloc <= a * MinAlloc
  <2>1. SizeofSLAB <= o
    BY DEF IsBlock
  <2> QED
    BY <2>1, <1>1, <1>2
<1>4. SizeofSLAB \div MinAlloc <= a
  BY ONLY <1>1, <1>2, <1>3, Factors
<1>5. a..(a + l - 1) \subseteq (SizeofSLAB \div MinAlloc)..(Slots - 1) /\ a \in a..(a + l - 1)
  <2>1. a \in Nat /\ l \in Nat \ {0} /\ a + l <= Slots
    BY ONLY <1>1
  <2> QED
    BY ONLY <2>1, <1>2, <1>4
<1> QED
  BY ONLY <1>1, <1>5

\* A new page is free behind its header.
LEMMA InitInv == Init => IInv
<1> SUFFICES ASSUME Init PROVE IInv
  OBVIOUS
<1>1. TypeOK
  <2>1. Bitmap \in [Words -> SUBSET Bits]
    BY DEF Init
  <2> QED
    BY <2>1, FirstWord DEF Init, TypeOK
<1>2. FreeSlotsExact
  <2>1. Bitmap \in [Words -> SUBSET Bits] /\ live = {}
    BY <1>1 DEF TypeOK, Init
  <2>2. FreeSlots = SlotsOf(Bitmap)
    BY DEF FreeSlots, SlotsOf
  <2>3. ASSUME NEW s \in 0..(Slots - 1)
        PROVE  s % WordBits \in Bitmap[s \div WordBits] <=> s >= SizeofSLAB \div MinAlloc
    <3>1. s \div WordBits \in Words
      BY SlotWord
    <3>2. s \in Nat /\ WordBits \in Nat \ {0}
      BY PageFacts
    <3>3. s = WordBits * (s \div WordBits) + (s % WordBits) /\ s % WordBits \in Bits
      BY <3>2, DivMod DEF Bits
    <3>4. Bitmap[s \div WordBits]
            = {b \in Bits : WordBits * (s \div WordBits) + b >= SizeofSLAB \div MinAlloc}
      BY <3>1 DEF Init
    <3> QED
      BY ONLY <3>3, <3>4
  <2>4. SizeofSLAB \div MinAlloc \in Nat /\ Slots \in Nat
    BY PageFacts, DivMod
  <2>5. \A s : s \in FreeSlots <=> s \in (SizeofSLAB \div MinAlloc)..(Slots - 1)
    <3>1. \A s : s \in FreeSlots <=> s \in 0..(Slots - 1) /\ s % WordBits \in Bitmap[s \div WordBits]
      BY <2>1, <2>2, FreeSlotBit
    <3> QED
      BY <3>1, <2>3, <2>4
  <2> QED
    BY <2>1, <2>5 DEF FreeSlotsExact
<1> QED
  BY <1>1, <1>2 DEF IInv, BlocksInPlace, FoundBlock, SearchInv, Init

\* SLABSet with a block that is free or that a caller has keeps the bitmap exact.
LEMMA ExactNext ==
  ASSUME TypeOK, FreeSlotsExact, BlocksInPlace, ElementLength' = ElementLength,
         NEW o, IsBlock(ElementLength, o), NEW isFree \in BOOLEAN, SLABSet(o, isFree),
         live' = IF isFree THEN live \ {o} ELSE live \cup {o}
  PROVE  FreeSlotsExact' /\ BlocksInPlace'
<1>1. ElementLength \in ElementLengths /\ Bitmap \in [Words -> SUBSET Bits]
  BY DEF TypeOK
<1>2. FreeSlots' = IF isFree THEN FreeSlots \cup BlockSlots(o) ELSE FreeSlots \ BlockSlots(o)
  BY <1>1, SetBlock
<1>3. \A a : BlockSlots(a)' = BlockSlots(a)
  BY DEF BlockSlots, BlockLength
<1>4. \A a \in live : a # o => BlockSlots(a) \cap BlockSlots(o) = {}
  BY <1>1, SlotsApart DEF BlocksInPlace
<1>5. BlockSlots(o) \subseteq (SizeofSLAB \div MinAlloc)..(Slots - 1)
  BY <1>1, SlotsInPage
<1> DEFINE R == (SizeofSLAB \div MinAlloc)..(Slots - 1)
<1>6. \A s : s \in FreeSlots <=> s \in R /\ \A a \in live : s \notin BlockSlots(a)
  BY DEF FreeSlotsExact
<1> HIDE DEF R
<1>7. \A s : s \in FreeSlots' <=> s \in R /\ \A a \in live' : s \notin BlockSlots(a)
  <2>1. BlockSlots(o) \subseteq R
    BY <1>5 DEF R
  <2>2. CASE isFree
    BY <2>1, <2>2, <1>2, <1>4, <1>6
  <2>3. CASE ~isFree
    BY <2>1, <2>3, <1>2, <1>4, <1>6
  <2> QED
    BY <2>2, <2>3
<1>8. FreeSlots' = R \ UNION {BlockSlots(a) : a \in live'}
  BY <1>7
<1>9. FreeSlotsExact'
  BY <1>3, <1>8 DEF FreeSlotsExact, R
<1>10. BlocksInPlace'
  BY DEF BlocksInPlace
<1> QED
  BY <1>9, <1>10

\* The owner's call of SLABFirst.
LEMMA AllocateInv == IInv /\ Allocate => IInv'
<1> SUFFICES ASSUME IInv, Allocate PROVE IInv'
  OBVIOUS
<1>1. TypeOK'
  BY FirstWord DEF IInv, TypeOK, Allocate
<1>2. FreeSlots' = FreeSlots /\ FreeSlotsExact' /\ BlocksInPlace'
  BY DEF IInv, Allocate, FreeSlots, FreeSlotsExact, BlocksInPlace, BlockSlots, BlockLength
<1>3. FoundBlock'
  BY DEF FoundBlock, Allocate
<1>4. SearchInv'
  <2>1. FreeSlots # {} => \E w \in Words : Bitmap[w] # {}
    BY DEF FreeSlots
  <2>2. \A w \in Words : w >= 0
    BY PageFacts DEF Words
  <2> QED
    BY <2>1, <2>2 DEF SearchInv, Allocate
<1> QED
  BY <1>1, <1>2, <1>3, <1>4 DEF IInv

\* SLABFirst passes a word without a free slot.
LEMMA FirstNextWordInv == IInv /\ FirstNextWord => IInv'
<1> SUFFICES ASSUME IInv, FirstNextWord PROVE IInv'
  OBVIOUS
<1>1. TypeOK'
  BY FirstWord DEF IInv, TypeOK, FirstNextWord
<1>2. FreeSlotsExact' /\ BlocksInPlace'
  BY DEF IInv, FirstNextWord, FreeSlots, FreeSlotsExact, BlocksInPlace, BlockSlots, BlockLength
<1>3. FoundBlock'
  BY DEF FoundBlock, FirstNextWord
<1>4. SearchInv'
  <2>1. CASE base + 1 \in Words
    <3>1. pc' = "first" /\ base' = base + 1 /\ Bitmap' = Bitmap /\ hadFree' = hadFree
          /\ Bitmap[base] = {} /\ pc = "first"
      BY <2>1 DEF FirstNextWord
    <3>2. ASSUME hadFree PROVE \E w \in Words : w >= base + 1 /\ Bitmap[w] # {}
      <4>1. PICK w \in Words : w >= base /\ Bitmap[w] # {}
        BY <3>1, <3>2 DEF IInv, SearchInv
      <4>2. w \in Int /\ base \in Int /\ w # base
        BY <4>1, <3>1, PageFacts DEF Words, IInv, TypeOK
      <4> QED
        BY <4>1, <4>2
    <3> QED
      BY <3>1, <3>2 DEF SearchInv
  <2>2. CASE base + 1 \notin Words
    BY <2>2 DEF FirstNextWord, SearchInv
  <2> QED
    BY <2>1, <2>2
<1> QED
  BY <1>1, <1>2, <1>3, <1>4 DEF IInv

\* SLABFirst finds a block.
LEMMA FirstFoundInv == IInv /\ FirstFound => IInv'
<1> SUFFICES ASSUME IInv, FirstFound PROVE IInv'
  OBVIOUS
<1> DEFINE s == Min(Bitmap[base]) + WordBits * base
<1>1. s \in FreeSlots /\ IsBlock(ElementLength, s * MinAlloc)
  BY FirstIsBlock DEF IInv, FirstFound
<1>2. object' = s * MinAlloc /\ pc' = "mark"
      /\ UNCHANGED <<ElementLength, Bitmap, live, base, hadFree>>
  BY DEF FirstFound
<1>3. s \in Nat
  BY <1>1, FreeSlotBit, PageFacts DEF IInv, TypeOK, FreeSlots, SlotsOf
<1> HIDE DEF s
<1>4. (s * MinAlloc) \div MinAlloc = s
  <2>1. MinAlloc \in Nat \ {0}
    BY PageFacts
  <2>2. s * MinAlloc = MinAlloc * s
    BY <2>1, <1>3, Products
  <2> QED
    BY <2>1, <2>2, <1>3, ProductDivides
<1>5. FreeSlots' = FreeSlots /\ FreeSlotsExact' /\ BlocksInPlace'
  BY <1>2 DEF IInv, FreeSlots, FreeSlotsExact, BlocksInPlace, BlockSlots, BlockLength
<1>6. FoundBlock'
  BY <1>1, <1>2, <1>4, <1>5 DEF FoundBlock
<1>7. TypeOK'
  <2>1. object' \in SizeofSLAB..(PageSize - 1)
    BY <1>1, <1>2 DEF IsBlock
  <2> QED
    BY <2>1, <1>2 DEF IInv, TypeOK
<1>8. SearchInv'
  BY <1>2 DEF SearchInv
<1> QED
  BY <1>5, <1>6, <1>7, <1>8 DEF IInv

\* The owner marks the block it found.
LEMMA MarkOccupiedInv == IInv /\ MarkOccupied => IInv'
<1> SUFFICES ASSUME IInv, MarkOccupied PROVE IInv'
  OBVIOUS
<1>1. IsBlock(ElementLength, object)
  BY DEF IInv, FoundBlock, MarkOccupied
<1>2. SLABSet(object, FALSE) /\ live' = live \cup {object} /\ ElementLength' = ElementLength
      /\ pc' = "idle" /\ base' = 0 /\ object' = NULL /\ hadFree' = FALSE
  BY DEF MarkOccupied
<1>3. FreeSlotsExact' /\ BlocksInPlace'
  BY <1>1, <1>2, ExactNext DEF IInv
<1>4. Bitmap' \in [Words -> SUBSET Bits]
  BY <1>1, <1>2, SetBlock DEF IInv, TypeOK
<1>5. object \in 0..(PageSize - 1)
  BY <1>1, PageFacts DEF IsBlock
<1>6. TypeOK'
  BY <1>2, <1>4, <1>5, FirstWord DEF IInv, TypeOK
<1> QED
  BY <1>2, <1>3, <1>6 DEF IInv, FoundBlock, SearchInv

\* Somebody frees a block while the owner is anywhere in its allocation.
LEMMA FreeInv == ASSUME NEW o \in live PROVE IInv /\ Free(o) => IInv'
<1> SUFFICES ASSUME IInv, Free(o) PROVE IInv'
  OBVIOUS
<1>1. IsBlock(ElementLength, o)
  BY DEF IInv, BlocksInPlace
<1>2. SLABSet(o, TRUE) /\ live' = live \ {o} /\ UNCHANGED <<ElementLength, pc, base, object, hadFree>>
  BY DEF Free
<1>3. FreeSlotsExact' /\ BlocksInPlace'
  BY <1>1, <1>2, ExactNext DEF IInv
<1>4. Bitmap' \in [Words -> SUBSET Bits] /\ FreeSlots \subseteq FreeSlots'
  BY <1>1, <1>2, SetBlock DEF IInv, TypeOK
<1>5. TypeOK'
  BY <1>2, <1>4 DEF IInv, TypeOK
<1>6. FoundBlock'
  BY <1>2, <1>4 DEF IInv, FoundBlock
<1>7. SearchInv'
  <2>1. \A w \in Words : Bitmap[w] \subseteq Bitmap'[w]
    BY <1>2 DEF SLABSet, IInv, TypeOK
  <2> QED
    BY <2>1, <1>2 DEF IInv, SearchInv
<1> QED
  BY <1>3, <1>5, <1>6, <1>7 DEF IInv

\* Every step keeps the invariant.
LEMMA NextInv == IInv /\ [Next]_vars => IInv'
<1>1. IInv /\ UNCHANGED vars => IInv'
  BY DEF vars, IInv, TypeOK, FreeSlotsExact, FreeSlots, BlocksInPlace, BlockSlots, BlockLength,
         FoundBlock, SearchInv
<1> QED
  BY <1>1, AllocateInv, FirstNextWordInv, FirstFoundInv, MarkOccupiedInv, FreeInv DEF Next

\* The invariant always holds.
LEMMA AlwaysIInv == Spec => []IInv
  BY InitInv, NextInv, PTL DEF Spec

-----------------------------------------------------------------------------
(* How many blocks a page has.                                             *)

\* A divisor of a power of two that is not 1 is twice another divisor.
LEMMA EvenDivisor ==
  ASSUME NEW n \in Nat \ {0}, IsPowerOfTwo(n), NEW m \in 2..n, n % m = 0
  PROVE  \E t \in 1..(m - 1) : m = 2 * t /\ n % t = 0
<1> DEFINE T == {t \in 1..(m - 1) : n % t = 0}
<1>1. T \subseteq 0..n /\ T # {}
  <2>1. n % 1 = 0
    BY DivUnique, 1 * n + 0 = n
  <2>2. 1 \in T
    BY <2>1
  <2> QED
    BY <2>2
<1>2. PICK t \in 1..(m - 1) : n % t = 0 /\ \A u \in T : u <= t
  <2>1. \E t \in T : \A u \in T : u <= t
    BY <1>1, GreatestExists
  <2> QED
    BY <2>1
<1>3. n % (2 * t) = 0
  <2>1. t \in 1..(n - 1)
    OBVIOUS
  <2> QED
    BY <1>2, <2>1 DEF IsPowerOfTwo
<1>4. 2 * t <= m
  <2>1. t \in 1..n /\ m \in 1..n /\ t < m
    OBVIOUS
  <2> QED
    BY <1>2, <2>1, DivisorsApart
<1>5. ~(2 * t < m)
  <2>1. SUFFICES ASSUME 2 * t < m PROVE FALSE
    OBVIOUS
  <2>2. 2 * t \in T
    BY <1>3, <2>1
  <2> QED
    BY <1>2, <2>2
<1>6. m = 2 * t
  BY <1>4, <1>5
<1> QED
  BY <1>2, <1>6

\* The divisors of a power of two are powers of two.
LEMMA DivisorIsPowerOfTwo ==
  ASSUME NEW n \in Nat \ {0}, IsPowerOfTwo(n), NEW d \in 1..n, n % d = 0
  PROVE  IsPowerOfTwo(d)
<1>1. SUFFICES ASSUME NEW e \in 1..(d - 1), d % e = 0
               PROVE  d % (2 * e) = 0
  BY DEF IsPowerOfTwo
<1>2. PICK m \in Nat : d = e * m
  BY <1>1, MultipleOf
<1>3. m # 0 /\ m # 1
  BY <1>1, <1>2
<1>4. d % m = 0 /\ m <= d
  <2>1. d = m * e
    BY <1>1, <1>2
  <2>2. d % m = 0
    BY <1>1, <1>3, <2>1, ProductDivides
  <2>3. 1 * m <= e * m
    BY <1>1, Products
  <2> QED
    BY <2>2, <2>3, <1>2
<1>5. n % m = 0 /\ m \in 2..n
  <2>1. d \in Nat \ {0} /\ m \in Nat \ {0} /\ d <= n
    BY <1>3
  <2>2. n % m = 0
    BY <2>1, <1>4, DividesTrans
  <2> QED
    BY <2>1, <2>2, <1>3, <1>4
<1>6. PICK t \in 1..(m - 1) : m = 2 * t
  BY <1>5, EvenDivisor
<1>7. d = (2 * e) * t
  BY <1>1, <1>2, <1>6
<1> QED
  BY <1>1, <1>6, <1>7, ProductDivides

\* Of two divisors of a power of two the smaller one divides the other.
LEMMA DivisorsNested ==
  ASSUME NEW n \in Nat \ {0}, IsPowerOfTwo(n),
         NEW d \in 1..n, NEW c \in 1..n, n % d = 0, n % c = 0, d <= c
  PROVE  c % d = 0
<1> DEFINE C == {x \in 1..n : n % x = 0 /\ d <= x /\ x % d # 0}
<1>1. SUFFICES ASSUME C # {} PROVE FALSE
  BY DEF C
<1>2. C \subseteq Nat
  OBVIOUS
<1>3. PICK x \in 1..n : /\ n % x = 0 /\ d <= x /\ x % d # 0
                       /\ \A y \in C : x <= y
  <2>1. \E x \in C : \A y \in C : x <= y
    BY <1>1, <1>2, LeastExists
  <2> QED
    BY <2>1
<1>4. d < x
  <2>1. d % d = 0
    BY DivUnique, d * 1 + 0 = d
  <2> QED
    BY <2>1, <1>3
<1>5. PICK t \in 1..(x - 1) : x = 2 * t /\ n % t = 0
  <2>1. x \in 2..n
    BY <1>4
  <2> QED
    BY <1>3, <2>1, EvenDivisor
<1>6. d <= t
  <2>1. 2 * d <= x
    BY <1>3, <1>4, DivisorsApart
  <2> QED
    BY <2>1, <1>5
<1>7. t % d = 0
  <2>1. SUFFICES ASSUME t % d # 0 PROVE FALSE
    OBVIOUS
  <2>2. t \in C
    BY <1>5, <1>6, <2>1
  <2> QED
    BY <1>3, <2>2
<1>8. x % t = 0
  BY <1>5, ProductDivides, x = t * 2
<1>9. x % d = 0
  <2>1. x \in Nat /\ t \in Nat \ {0} /\ d \in Nat \ {0}
    OBVIOUS
  <2> QED
    BY <2>1, <1>7, <1>8, DividesTrans
<1> QED
  BY <1>3, <1>9

\* For a power of two BSF counts the divisors above 1.
LEMMA LowestBitDivisors ==
  ASSUME NEW n \in Nat \ {0}, IsPowerOfTwo(n)
  PROVE  BSF(n) = Cardinality({d \in 2..n : n % d = 0})
<1>1. {d \in 2..n : IsPowerOfTwo(d) /\ n % d = 0} = {d \in 2..n : n % d = 0}
  BY DivisorIsPowerOfTwo
<1> QED
  BY <1>1 DEF BSF

\* SLABResidualTotal counts the residual blocks: their doubles are the divisors
\* of the length above a cache line.
LEMMA ResidualCount ==
  ASSUME NEW n \in Nat \ {0}, IsPowerOfTwo(n), NEW c \in 1..n, n % c = 0, IsPowerOfTwo(c)
  PROVE  /\ IsFiniteSet({o \in c..(n - 1) : n % o = 0})
         /\ BSF(n) - BSF(c) = Cardinality({o \in c..(n - 1) : n % o = 0})
<1> DEFINE R == {o \in c..(n - 1) : n % o = 0}
           D == {d \in (c + 1)..n : n % d = 0}
           N == {d \in 2..n : n % d = 0}
           C == {d \in 2..c : c % d = 0}
           f == [o \in R |-> 2 * o]
<1>1. IsFiniteSet(N) /\ IsFiniteSet(R) /\ IsFiniteSet(C)
  <2>1. IsFiniteSet(0..n)
    BY FS_Interval
  <2>2. N \in SUBSET (0..n) /\ R \in SUBSET (0..n) /\ C \in SUBSET (0..n)
    OBVIOUS
  <2> QED
    BY <2>1, <2>2, FS_Subset
<1>2. N \ C = D /\ N \cap C = C
  <2>1. ASSUME NEW d \in C PROVE n % d = 0
    <3>1. d \in Nat \ {0} /\ c \in Nat \ {0} /\ c % d = 0
      OBVIOUS
    <3> QED
      BY <3>1, DividesTrans
  <2>2. ASSUME NEW d \in N, d <= c PROVE c % d = 0
    <3>1. d \in 1..n /\ n % d = 0
      OBVIOUS
    <3> QED
      BY <3>1, <2>2, DivisorsNested
  <2> QED
    BY <2>1, <2>2
<1>3. Cardinality(D) = Cardinality(N) - Cardinality(C)
  BY <1>1, <1>2, FS_Difference
<1>4. f \in Bijection(R, D)
  <2>1. ASSUME NEW o \in R PROVE 2 * o \in D
    <3>1. n % (2 * o) = 0
      <4>1. o \in 1..(n - 1) /\ n % o = 0
        OBVIOUS
      <4> QED
        BY <4>1 DEF IsPowerOfTwo
    <3>2. 2 * o <= n
      BY HalfAtMost
    <3> QED
      BY <3>1, <3>2
  <2>2. ASSUME NEW d \in D PROVE \E o \in R : f[o] = d
    <3>0. d \in 2..n /\ d \in 1..n /\ n % d = 0 /\ c < d
      OBVIOUS
    <3>1. PICK t \in 1..(d - 1) : d = 2 * t /\ n % t = 0
      BY <3>0, EvenDivisor
    <3>2. 2 * c <= d
      BY <3>0, DivisorsApart
    <3>3. t \in R
      BY <3>1, <3>2
    <3> QED
      BY <3>1, <3>3
  <2>3. f \in [R -> D] /\ \A o, p \in R : f[o] = f[p] => o = p
    BY <2>1
  <2> QED
    BY <2>2, <2>3 DEF Bijection, Injection, Surjection, IsInjective
<1>5. Cardinality(D) = Cardinality(R)
  BY <1>1, <1>4, FS_Bijection DEF ExistsBijection
<1>6. BSF(n) = Cardinality(N) /\ BSF(c) = Cardinality(C)
  BY LowestBitDivisors
<1> QED
  BY <1>1, <1>3, <1>5, <1>6

\* Behind the header of a page of M times n bytes there are M - 1 multiples of n.
LEMMA MainCount ==
  ASSUME NEW n \in Nat \ {0}, NEW M \in Nat \ {0}, NEW c \in 1..n
  PROVE  /\ IsFiniteSet({o \in c..(n * M - 1) : o % n = 0})
         /\ (n * M - c) \div n = Cardinality({o \in c..(n * M - 1) : o % n = 0})
<1> DEFINE B == {o \in c..(n * M - 1) : o % n = 0}
           f == [k \in 1..(M - 1) |-> n * k]
<1>1. f \in Bijection(1..(M - 1), B)
  <2>1. ASSUME NEW k \in 1..(M - 1) PROVE n * k \in B
    <3>1. n * k \in Nat /\ (n * k) % n = 0
      BY ProductDivides
    <3>2. k * n + n <= M * n /\ k * n = n * k /\ M * n = n * M
      BY Products
    <3>3. 1 * n <= k * n
      BY Products
    <3> QED
      BY <3>1, <3>2, <3>3
  <2>2. ASSUME NEW o \in B PROVE \E k \in 1..(M - 1) : f[k] = o
    <3>1. n * M \in Nat /\ o \in Nat \ {0} /\ o < n * M /\ o % n = 0
      OBVIOUS
    <3> HIDE DEF B, f
    <3>2. PICK k \in Nat : o = n * k
      <4>1. o \div n \in Nat /\ o = n * (o \div n)
        BY <3>1, MultipleOf
      <4> QED
        BY <4>1
    <3>3. k # 0
      BY <3>1, <3>2
    <3>4. k * n < M * n
      BY <3>1, <3>2, Products
    <3>5. k < M
      BY <3>4, Factors
    <3> QED
      BY <3>2, <3>3, <3>5 DEF f
  <2>3. \A k, l \in 1..(M - 1) : f[k] = f[l] => k = l
    <3>1. SUFFICES ASSUME NEW k \in 1..(M - 1), NEW l \in 1..(M - 1), n * k = n * l
                   PROVE  k = l
      OBVIOUS
    <3>2. k * n = l * n
      BY <3>1, Products
    <3> QED
      BY <3>2, Factors
  <2>4. f \in [1..(M - 1) -> B]
    BY <2>1
  <2> QED
    BY <2>2, <2>3, <2>4 DEF Bijection, Injection, Surjection, IsInjective
<1>2. IsFiniteSet(1..(M - 1)) /\ Cardinality(1..(M - 1)) = M - 1
  BY FS_Interval
<1>3. IsFiniteSet(B) /\ Cardinality(B) = M - 1
  BY <1>1, <1>2, FS_Bijection DEF ExistsBijection
<1>4. (n * M - c) \div n = M - 1
  <2>1. n * M - c = n * (M - 1) + (n - c)
    OBVIOUS
  <2> QED
    BY <2>1, DivUnique
<1> QED
  BY <1>3, <1>4

\* Nothing of a finite set is taken away exactly if it keeps its cardinality.
LEMMA CountKept ==
  ASSUME NEW S, IsFiniteSet(S), NEW L
  PROVE  Cardinality(S) = Cardinality(S \ L) <=> S \cap L = {}
<1>1. S \ L \in SUBSET S
  OBVIOUS
<1>2. Cardinality(S) = Cardinality(S \ L) => S = S \ L
  BY <1>1, FS_Subset
<1>3. S \cap L = {} => S \ L = S
  OBVIOUS
<1> QED
  BY <1>2, <1>3

\* A page is a whole number of main blocks.
LEMMA PageOfBlocks ==
  ASSUME NEW n \in ElementLengths
  PROVE  \E M \in Nat \ {0} : PageSize = n * M
<1> DEFINE m == n \div MinAlloc
<1>1. n \in Nat \ {0} /\ m \in Nat \ {0} /\ n = MinAlloc * m /\ WordBits % m = 0
  BY LengthFacts
<1>2. PageSize \in Nat /\ PageSize # 0 /\ MinAlloc \in Nat \ {0} /\ WordBits \in Nat \ {0}
      /\ Slots \in Nat /\ PageSize = MinAlloc * Slots /\ Slots % WordBits = 0
  BY PageFacts, SlabAssumption
<1> HIDE DEF m
<1>3. Slots % m = 0
  BY <1>1, <1>2, DividesTrans
<1>4. PICK M \in Nat : Slots = m * M
  BY <1>1, <1>2, <1>3, MultipleOf
<1>5. PageSize = n * M
  BY <1>1, <1>2, <1>4
<1>6. M # 0
  BY <1>1, <1>2, <1>5
<1> QED
  BY <1>5, <1>6

-----------------------------------------------------------------------------
(* The theorems.                                                           *)

\* The state keeps its types; in particular what SLABFirst returns is NULL or
\* points behind the header and into the page.
THEOREM SlabTypeCorrect == Spec => []TypeOK
<1>1. IInv => TypeOK
  BY DEF IInv
<1> QED
  BY <1>1, AlwaysIInv, PTL

\* The bitmap that the owner and the processors that free change at the same
\* time says exactly which slots no caller has.
THEOREM FreeSlotsAlwaysExact == Spec => []FreeSlotsExact
<1>1. IInv => FreeSlotsExact
  BY DEF IInv
<1> QED
  BY <1>1, AlwaysIInv, PTL

\* No two callers have a byte in common, and nobody has one of the header or
\* behind the page.
THEOREM BlocksAlwaysDisjoint == Spec => []BlocksDisjoint
<1>1. ASSUME IInv PROVE BlocksDisjoint
  <2>1. ElementLength \in ElementLengths /\ \A a \in live : IsBlock(ElementLength, a)
    BY <1>1 DEF IInv, TypeOK, BlocksInPlace
  <2>2. ASSUME NEW a \in live
        PROVE  /\ SizeofSLAB <= a /\ a + BlockLength(a) <= PageSize
               /\ \A b \in live : a < b => a + BlockLength(a) <= b
    <3>1. BlockLength(a) = Length(ElementLength, a)
      BY DEF BlockLength, Length
    <3>2. SizeofSLAB <= a
      BY <2>1 DEF IsBlock
    <3>3. a + Length(ElementLength, a) <= PageSize
      BY <2>1, BlockInWord
    <3>4. \A b \in live : a < b => a + Length(ElementLength, a) <= b
      BY <2>1, BlocksApart
    <3> QED
      BY <3>1, <3>2, <3>3, <3>4
  <2> QED
    BY <2>2 DEF BlocksDisjoint
<1> QED
  BY <1>1, AlwaysIInv, PTL

\* SLABFirst returns NULL only if nothing was free when it was called.
THEOREM FirstAlwaysFindsFree == Spec => FirstFindsFree
<1>1. ASSUME IInv, [Next]_vars PROVE [pc = "first" /\ pc' = "idle" => ~hadFree]_vars
  <2>1. CASE FirstNextWord
    <3>1. SUFFICES ASSUME pc = "first", pc' = "idle", hadFree PROVE FALSE
      BY DEF vars
    <3>2. PICK w \in Words : w >= base /\ Bitmap[w] # {}
      BY <3>1, <1>1 DEF IInv, SearchInv
    <3>3. base + 1 \notin Words /\ Bitmap[base] = {}
      BY <3>1, <2>1 DEF FirstNextWord
    <3>4. base \in Words
      BY <1>1 DEF IInv, TypeOK
    <3> DEFINE W == Slots \div WordBits
    <3>5. W \in Nat /\ Words = 0..(W - 1)
      BY PageFacts DEF Words
    <3> HIDE DEF W
    <3>6. w = base
      BY <3>2, <3>3, <3>4, <3>5
    <3> QED
      BY <3>2, <3>3, <3>6
  <2>2. CASE ~FirstNextWord
    BY <2>2, <1>1 DEF Next, vars, Allocate, FirstFound, MarkOccupied, Free
  <2> QED
    BY <2>1, <2>2
<1> QED
  BY <1>1, AlwaysIInv, PTL DEF Spec, FirstFindsFree

\* For every page, block length from a cache line on and history of allocations
\* and frees, the counts of free blocks that SLABCanFree compares are those of an
\* empty page exactly if nobody has a block of it.
THEOREM EmptyPageAlwaysRecognised == Spec => []EmptyPageRecognised
<1>1. ASSUME IInv PROVE EmptyPageRecognised
  <2> DEFINE n == ElementLength
  <2>1. n \in ElementLengths /\ \A a \in live : IsBlock(n, a)
    BY <1>1 DEF IInv, TypeOK, BlocksInPlace
  <2>2. /\ n \in Nat \ {0} /\ IsPowerOfTwo(n) /\ n % SizeofSLAB = 0
        /\ SizeofSLAB = CachelineLength /\ SizeofSLAB \in 1..n /\ IsPowerOfTwo(SizeofSLAB)
    BY <2>1, LengthFacts, PageFacts, SlabAssumption
  <2>3. /\ IsFiniteSet(ResidualBlocks)
        /\ SLABResidualTotal(n) = Cardinality(ResidualBlocks)
    BY <2>2, ResidualCount DEF ResidualBlocks, SLABResidualTotal
  <2>4. /\ IsFiniteSet(MainBlocks)
        /\ SLABMainTotal(n) = Cardinality(MainBlocks)
    <3>1. PICK M \in Nat \ {0} : PageSize = n * M
      BY <2>1, PageOfBlocks
    <3>2. SLABMainTotal(n) = (n * M - SizeofSLAB) \div n
      BY <2>2, <3>1 DEF SLABMainTotal, SLABMainOffset
    <3>3. MainBlocks = {o \in SizeofSLAB..(n * M - 1) : o % n = 0}
      BY <3>1 DEF MainBlocks
    <3>4. n \in Nat \ {0} /\ SizeofSLAB \in 1..n
      BY <2>2
    <3> HIDE DEF n
    <3> QED
      BY <3>2, <3>3, <3>4, MainCount
  <2>5. SLABCanFree(n, Cardinality(ResidualBlocks \ live), Cardinality(MainBlocks \ live))
          <=> ResidualBlocks \cap live = {} /\ MainBlocks \cap live = {}
    BY <2>3, <2>4, CountKept DEF SLABCanFree
  <2>6. live \subseteq ResidualBlocks \cup MainBlocks
    <3>1. SUFFICES ASSUME NEW a \in live PROVE a \in ResidualBlocks \cup MainBlocks
      OBVIOUS
    <3>2. IsBlock(n, a)
      BY <2>1
    <3> QED
      BY <3>2, <2>2, PageFacts DEF IsBlock, ResidualBlocks, MainBlocks
  <2> QED
    BY <2>5, <2>6 DEF EmptyPageRecognised
<1> QED
  BY <1>1, AlwaysIInv, PTL
=============================================================================
