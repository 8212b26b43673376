-------------------------------- MODULE SLAB --------------------------------
(***************************************************************************)
(* The bitmap of a slab, kernel/memman/SLAB.c: one page that its owner     *)
(* allocates blocks from while any processor frees blocks of it.           *)
(*                                                                         *)
(* A block is known by its offset in the page.  Behind the header the page *)
(* holds main blocks of ElementLength bytes and, in front of the first of  *)
(* them, residual blocks as long as their offset; bit k of the bitmap says *)
(* that the k-th MinAlloc bytes are free.  The code has neither the        *)
(* owner's allocation nor the initialisation of a page: they follow its    *)
(* comments ("we lookup first free element and atomically mark it as       *)
(* occupied", line 142) and are marked external.  The lists of slabs are   *)
(* not modelled.                                                           *)
(***************************************************************************)
EXTENDS Integers, FiniteSetsExt

CONSTANTS PageSize,         \* PAGE_SIZE (4096 in the code)
          MinAlloc,         \* SLABS_MIN_ALLOC (16)
          CachelineLength,  \* CACHELINE_LENGTH (64)
          SizeofSLAB,       \* sizeof(SLAB), the header (64)
          WordBits,         \* the bits of a bitmap_t (64)
          ElementLengths,   \* what a slab's ElementLength may be (64 to 512)
          NULL              \* the null pointer

\* n is a power of two: each of its divisors below n can be doubled.
IsPowerOfTwo(n) == \A d \in 1..(n - 1) : n % d = 0 => n % (2 * d) = 0

\* The position of the lowest bit of a number that is not 0 (Architecture.c): the
\* number of the powers 2, 4, 8, ... that divide it.
BSF(n) == Cardinality({d \in 2..n : IsPowerOfTwo(d) /\ n % d = 0})

\* Lengths below a cache line (16 and 32) are left out: SLABMainOffset puts their
\* first block inside the header, and no code says which slots of the header an
\* initial bitmap would mark.
ASSUME SlabAssumption ==
  /\ {PageSize, MinAlloc, WordBits} \subseteq Nat \ {0}
  /\ PageSize % MinAlloc = 0 /\ (PageSize \div MinAlloc) % WordBits = 0
  /\ SizeofSLAB = CachelineLength
  /\ \A n \in ElementLengths \cup {CachelineLength} :
       /\ n \in Nat \ {0} /\ IsPowerOfTwo(n)
       /\ n % MinAlloc = 0 /\ n \div MinAlloc < WordBits
       /\ WordBits % (n \div MinAlloc) = 0
       /\ n % CachelineLength = 0
  /\ NULL \notin 0..PageSize

Slots == PageSize \div MinAlloc      \* SLABS_BITMAP_SLOT_COUNT
Words == 0..(Slots \div WordBits - 1)
Bits == 0..(WordBits - 1)

VARIABLES ElementLength,  \* of the slab
          Bitmap,         \* word -> its bits that are set
          live,           \* the offsets of the blocks that callers have
          pc, base,       \* the owner's place in SLABFirst
          object,         \* the owner's result of SLABFirst
          hadFree         \* a block was free when SLABFirst was called

vars == <<ElementLength, Bitmap, live, pc, base, object, hadFree>>

-----------------------------------------------------------------------------
(* The layout.                                                             *)

SLABResidualTotal(length) ==
  IF length < CachelineLength THEN 0 ELSE BSF(length) - BSF(CachelineLength)

SLABMainOffset(length) == IF SizeofSLAB > length THEN length ELSE SizeofSLAB

SLABMainTotal(length) == (PageSize - SLABMainOffset(length)) \div length

\* Mutant of SLABCanFree: the residual blocks are forgotten.
SLABCanFreeMainOnly(length, residualCount, mainCount) == SLABMainTotal(length) = mainCount

SLABCanFree(length, residualCount, mainCount) ==
  /\ SLABResidualTotal(length) = residualCount
  /\ SLABMainTotal(length) = mainCount

\* What SLABSet takes for the length of the block at this offset.
BlockLength(offset) == IF offset > ElementLength THEN ElementLength ELSE offset

BlockSlots(offset) == (offset \div MinAlloc) .. ((offset + BlockLength(offset)) \div MinAlloc - 1)

-----------------------------------------------------------------------------
(* The bitmap.                                                             *)

\* Mutant of Mask: the residual blocks in front of the main ones are marked as
\* if they were main blocks.
MaskNoResidual(offset) ==
  LET slot == (offset \div MinAlloc) % WordBits
  IN  {b \in Bits : slot <= b /\ b < slot + ElementLength \div MinAlloc}

\* Mutant of Mask: one bit too few.
MaskShort(offset) ==
  LET slot == (offset \div MinAlloc) % WordBits
  IN  {b \in Bits : slot <= b /\ b < slot + BlockLength(offset) \div MinAlloc - 1}

\* SLABSet's mask; what is shifted out of the word is lost.
Mask(offset) ==
  LET slot == (offset \div MinAlloc) % WordBits
  IN  {b \in Bits : slot <= b /\ b < slot + BlockLength(offset) \div MinAlloc}

\* SLABSet: an atomic OR or AND of one word.
SLABSet(offset, isFree) ==
  LET word == (offset \div MinAlloc) \div WordBits
  IN  Bitmap' = [Bitmap EXCEPT ![word] =
                   IF isFree THEN @ \cup Mask(offset) ELSE @ \ Mask(offset)]

FreeSlots == UNION {{WordBits * w + b : b \in Bitmap[w]} : w \in Words}

\* A page whose bytes behind the header are free.
Init ==
  /\ ElementLength \in ElementLengths
  /\ Bitmap = [w \in Words |-> {b \in Bits : WordBits * w + b >= SizeofSLAB \div MinAlloc}]
  /\ live = {}
  /\ pc = "idle"
  /\ base = 0
  /\ object = NULL
  /\ hadFree = FALSE

\* The owner calls SLABFirst.
Allocate ==
  /\ pc = "idle"
  /\ pc' = "first"
  /\ base' = 0
  /\ hadFree' = (FreeSlots # {})
  /\ UNCHANGED <<ElementLength, Bitmap, live, object>>

\* Mutant of FirstNextWord: the loop ends at the last word.
FirstNextWordShort ==
  /\ pc = "first"
  /\ Bitmap[base] = {}
  /\ IF base + 1 \in Words /\ base + 2 \in Words
     THEN base' = base + 1 /\ UNCHANGED <<pc, hadFree>>
     ELSE pc' = "idle" /\ base' = 0 /\ hadFree' = FALSE
  /\ UNCHANGED <<ElementLength, Bitmap, live, object>>

\* SLABFirst reads a word without a free slot, and returns NULL after the last.
FirstNextWord ==
  /\ pc = "first"
  /\ Bitmap[base] = {}
  /\ IF base + 1 \in Words
     THEN base' = base + 1 /\ UNCHANGED <<pc, hadFree>>
     ELSE pc' = "idle" /\ base' = 0 /\ hadFree' = FALSE
  /\ UNCHANGED <<ElementLength, Bitmap, live, object>>

\* Mutant of FirstFound: the words before this one count as one bit each.
FirstFoundUnscaled ==
  /\ pc = "first"
  /\ Bitmap[base] # {}
  /\ object' = (Min(Bitmap[base]) + base) * MinAlloc
  /\ pc' = "mark"
  /\ UNCHANGED <<ElementLength, Bitmap, live, base, hadFree>>

\* SLABFirst reads a word with a free slot and returns the address of the first.
FirstFound ==
  /\ pc = "first"
  /\ Bitmap[base] # {}
  /\ object' = (Min(Bitmap[base]) + WordBits * base) * MinAlloc
  /\ pc' = "mark"
  /\ UNCHANGED <<ElementLength, Bitmap, live, base, hadFree>>

\* The owner marks the block with SLABSet and hands it out.
MarkOccupied ==
  /\ pc = "mark"
  /\ SLABSet(object, FALSE)
  /\ live' = live \cup {object}
  /\ pc' = "idle"
  /\ base' = 0
  /\ object' = NULL
  /\ hadFree' = FALSE
  /\ UNCHANGED ElementLength

\* Any processor frees a block it has with SLABSet.
Free(offset) ==
  /\ offset \in live
  /\ SLABSet(offset, TRUE)
  /\ live' = live \ {offset}
  /\ UNCHANGED <<ElementLength, pc, base, object, hadFree>>

Next ==
  \/ Allocate \/ FirstNextWord \/ FirstFound \/ MarkOccupied
  \/ \E offset \in live : Free(offset)

Spec == Init /\ [][Next]_vars

-----------------------------------------------------------------------------
(* Properties.                                                             *)

\* The type of the state; in particular SLABFirst points into the page.
TypeOK ==
  /\ ElementLength \in ElementLengths
  /\ Bitmap \in [Words -> SUBSET Bits]
  /\ live \subseteq 0..(PageSize - 1)
  /\ pc \in {"idle", "first", "mark"}
  /\ base \in Words
  /\ object \in (SizeofSLAB..(PageSize - 1)) \cup {NULL}
  /\ hadFree \in BOOLEAN

\* No two callers have a byte in common, and nobody has a byte of the header or
\* behind the page, although lengths are stored nowhere but follow from offsets.
BlocksDisjoint ==
  \A a \in live :
    /\ SizeofSLAB <= a /\ a + BlockLength(a) <= PageSize
    /\ \A b \in live : a < b => a + BlockLength(a) <= b

\* The set bits are exactly the slots that no caller has: allocating and freeing
\* in one word at the same time loses nothing, and no mask leaves its word.
FreeSlotsExact ==
  FreeSlots = ((SizeofSLAB \div MinAlloc)..(Slots - 1)) \ UNION {BlockSlots(a) : a \in live}

\* SLABFirst gives up only if nothing was free when it was called, whatever is
\* freed behind its back in words that it has passed.
FirstFindsFree == [][pc = "first" /\ pc' = "idle" => ~hadFree]_vars

\* The blocks of the page: residual ones, as long as their offset, in front of the
\* first main one, and main ones, each at a multiple of its length (SLAB.c:5-7).
ResidualBlocks == {o \in SizeofSLAB..(ElementLength - 1) : ElementLength % o = 0}
MainBlocks == {o \in SizeofSLAB..(PageSize - 1) : o % ElementLength = 0}

\* With counts of the free blocks of either kind, SLABCanFree recognises exactly
\* the pages nobody has a block of.
EmptyPageRecognised ==
  SLABCanFree(ElementLength, Cardinality(ResidualBlocks \ live), Cardinality(MainBlocks \ live))
    <=> live = {}
=============================================================================
