------------------------- MODULE MemoryRangeProofs -------------------------
(***************************************************************************)
(* Proofs about MemoryRange, for every memory map, every page and hugepage *)
(* size with PagesPerHuge dividing PageSize, and every set of requests.    *)
(***************************************************************************)
EXTENDS MemoryRange, WellFoundedInduction, TLAPS

-----------------------------------------------------------------------------
(* The macro HUGEPAGE_SIZE after %.                                        *)

\* A multiple of a multiple of PagesPerHuge leaves no remainder: the
\* expression begin % HUGEPAGE_SIZE is 0 for every page-aligned address.
LEMMA HugeRemainderIsZero ==
  ASSUME NEW b \in Nat
  PROVE  HugeRemainder(b) = 0
<1>1. PICK k \in Int : PageSize = k * PagesPerHuge
  <2>1. PageSize = (PageSize \div PagesPerHuge) * PagesPerHuge + (PageSize % PagesPerHuge)
    BY ArchAssumption
  <2>2. PageSize \div PagesPerHuge \in Int
    BY ArchAssumption
  <2>3. QED
    BY <2>1, <2>2, ArchAssumption
<1>2. b * PageSize = (b * k) * PagesPerHuge
  BY <1>1, ArchAssumption
<1>3. \A m \in Int : (m * PagesPerHuge) % PagesPerHuge = 0
  BY ArchAssumption
<1>4. b * k \in Int
  BY <1>1
<1>5. (b * PageSize) % PagesPerHuge = 0
  BY <1>2, <1>3, <1>4
<1>6. QED
  BY <1>5, ArchAssumption DEF HugeRemainder

\* Consequently every range counts as aligned wherever it begins, against what
\* the lists' names say, and the split in InsertNewMemoryRange ("Function may
\* split the region in two based on it's alignment", MemoryRange.c:120) never
\* happens.
THEOREM EverythingIsAligned ==
  ASSUME NEW b \in Nat
  PROVE  Aligned(b)
BY HugeRemainderIsZero DEF Aligned

\* InsertNewMemoryRange's test for a split fails for every region.
THEOREM NeverSplits ==
  ASSUME NEW b \in Nat, NEW n \in Nat
  PROVE  ~Splits(b, n)
<1>1. HugeRemainder(b) = 0
  BY HugeRemainderIsZero
<1>2. (PagesPerHuge * PageSize - 0) \div PageSize = PagesPerHuge
  BY ArchAssumption
<1>3. PagesPerHuge % PagesPerHuge = 0
  BY ArchAssumption
<1>4. QED
  BY <1>1, <1>2, <1>3 DEF Splits, PagesToSplit

-----------------------------------------------------------------------------
(* Sets of ranges.                                                         *)

\* A function from first pages to lengths.
IsRanges(rs) == DOMAIN rs \subseteq Nat /\ rs \in [DOMAIN rs -> Nat]

\* A page is covered if it is in the extent of some range.
LEMMA CoveredElement ==
  ASSUME NEW rs, NEW x
  PROVE  x \in Covered(rs) <=> \E b \in DOMAIN rs : x \in Extent(b, rs[b])
BY DEF Covered

\* Ranges are disjoint if no page is in two of them.
LEMMA DisjointElement ==
  ASSUME NEW rs
  PROVE  Disjoint(rs) <=>
           \A p, q \in DOMAIN rs : p # q =>
             \A x : ~(x \in Extent(p, rs[p]) /\ x \in Extent(q, rs[q]))
BY DEF Disjoint

\* The pages of an extent, by their numbers.
LEMMA ExtentElement ==
  ASSUME NEW b \in Nat, NEW n \in Nat, NEW x
  PROVE  x \in Extent(b, n) <=> x \in Nat /\ b <= x /\ x < b + n
BY DEF Extent

\* Two adjacent extents make one.
LEMMA ExtentUnion ==
  ASSUME NEW b \in Nat, NEW m \in Nat, NEW n \in Nat, NEW x
  PROVE  x \in Extent(b, m + n) <=> x \in Extent(b, m) \/ x \in Extent(b + m, n)
BY DEF Extent

\* The result of merging b into p.
Merged(rs, p, b) == [q \in DOMAIN rs \ {b} |-> IF q = p THEN rs[p] + rs[b] ELSE rs[q]]

\* TryMergeMemoryRangesWithPrev changes nothing or merges with the range that ends here.
LEMMA TryMergeCases ==
  ASSUME NEW rs, IsRanges(rs), NEW b \in DOMAIN rs
  PROVE  \/ TryMergeMemoryRangesWithPrev(rs, b) = rs
         \/ \E p \in DOMAIN rs :
              /\ p # b
              /\ p + rs[p] = b
              /\ TryMergeMemoryRangesWithPrev(rs, b) = Merged(rs, p, b)
<1>1. CASE MergeTargets(rs, b) = {}
  BY <1>1 DEF TryMergeMemoryRangesWithPrev
<1>2. CASE MergeTargets(rs, b) # {}
  <2> DEFINE p == CHOOSE p \in MergeTargets(rs, b) : TRUE
  <2>1. p \in MergeTargets(rs, b)
    BY <1>2
  <2>2. TryMergeMemoryRangesWithPrev(rs, b)
          = MemoryRangeRemove(SetMemoryRangePages(rs, p, rs[p] + rs[b]), b)
    BY <1>2 DEF TryMergeMemoryRangesWithPrev
  <2> HIDE DEF p
  <2>3. p \in DOMAIN rs /\ p < b /\ p + rs[p] = b
    BY <2>1 DEF MergeTargets, IsPrev
  <2>4. p # b
    BY <2>3 DEF IsRanges
  <2>5. MemoryRangeRemove(SetMemoryRangePages(rs, p, rs[p] + rs[b]), b) = Merged(rs, p, b)
    BY <2>3, <2>4 DEF MemoryRangeRemove, SetMemoryRangePages, Merged, IsRanges
  <2>6. QED
    BY <2>2, <2>3, <2>4, <2>5
<1>3. QED
  BY <1>1, <1>2

\* Merging adjacent ranges keeps the covered pages and the disjointness.
LEMMA MergedLemma ==
  ASSUME NEW rs, IsRanges(rs), Disjoint(rs),
         NEW b \in DOMAIN rs, NEW p \in DOMAIN rs, p # b, p + rs[p] = b
  PROVE  /\ IsRanges(Merged(rs, p, b))
         /\ DOMAIN Merged(rs, p, b) = DOMAIN rs \ {b}
         /\ Disjoint(Merged(rs, p, b))
         /\ Covered(Merged(rs, p, b)) = Covered(rs)
<1> DEFINE m == Merged(rs, p, b)
<1>1. DOMAIN m = DOMAIN rs \ {b}
  BY DEF Merged
<1>2. IsRanges(m)
  BY DEF IsRanges, Merged
<1>3. \A x : x \in Extent(p, m[p]) <=> x \in Extent(p, rs[p]) \/ x \in Extent(b, rs[b])
  <2>1. m[p] = rs[p] + rs[b]
    BY DEF Merged
  <2>2. p \in Nat /\ rs[p] \in Nat /\ rs[b] \in Nat
    BY DEF IsRanges
  <2>3. QED
    BY <2>1, <2>2, ExtentUnion
<1>4. \A q \in DOMAIN m : q # p => Extent(q, m[q]) = Extent(q, rs[q])
  BY DEF Merged
<1> HIDE DEF m
<1>5. Disjoint(m)
  BY <1>1, <1>3, <1>4, DisjointElement
<1>6. \A x : x \in Covered(m) <=> x \in Covered(rs)
  BY <1>1, <1>3, <1>4, CoveredElement
<1>7. QED
  BY <1>1, <1>2, <1>5, <1>6 DEF m

\* A merge covers the same pages and keeps ranges disjoint.
LEMMA TryMergeLemma ==
  ASSUME NEW rs, IsRanges(rs), Disjoint(rs), NEW b \in DOMAIN rs
  PROVE  LET m == TryMergeMemoryRangesWithPrev(rs, b)
         IN  /\ IsRanges(m)
             /\ DOMAIN m \subseteq DOMAIN rs
             /\ DOMAIN rs \ {b} \subseteq DOMAIN m
             /\ Disjoint(m)
             /\ Covered(m) = Covered(rs)
<1> DEFINE m == TryMergeMemoryRangesWithPrev(rs, b)
<1>1. CASE m = rs
  BY <1>1
<1>2. ASSUME NEW p \in DOMAIN rs, p # b, p + rs[p] = b, m = Merged(rs, p, b)
      PROVE  /\ IsRanges(m)
             /\ DOMAIN m = DOMAIN rs \ {b}
             /\ Disjoint(m)
             /\ Covered(m) = Covered(rs)
  BY <1>2, MergedLemma
<1>3. QED
  BY <1>1, <1>2, TryMergeCases

\* Linking a range over pages that no range covers.
Linked(rs, b, n) == [q \in DOMAIN rs \cup {b} |-> IF q = b THEN n ELSE rs[q]]

\* Linking a range covers its pages in addition.
LEMMA LinkedLemma ==
  ASSUME NEW rs, IsRanges(rs), Disjoint(rs), NEW b \in Nat, b \notin DOMAIN rs, NEW n \in Nat,
         Extent(b, n) \cap Covered(rs) = {}
  PROVE  /\ IsRanges(Linked(rs, b, n))
         /\ DOMAIN Linked(rs, b, n) = DOMAIN rs \cup {b}
         /\ Disjoint(Linked(rs, b, n))
         /\ \A x : x \in Covered(Linked(rs, b, n)) <=> x \in Covered(rs) \/ x \in Extent(b, n)
<1> DEFINE l == Linked(rs, b, n)
<1>1. DOMAIN l = DOMAIN rs \cup {b}
  BY DEF Linked
<1>2. IsRanges(l)
  BY DEF IsRanges, Linked
<1>3. Extent(b, l[b]) = Extent(b, n)
  BY DEF Linked
<1>4. \A q \in DOMAIN rs : Extent(q, l[q]) = Extent(q, rs[q])
  BY DEF Linked
<1> HIDE DEF l
<1>5. \A q \in DOMAIN rs : \A x : ~(x \in Extent(q, rs[q]) /\ x \in Extent(b, n))
  BY CoveredElement
<1>6. Disjoint(l)
  BY <1>1, <1>3, <1>4, <1>5, DisjointElement
<1>7. \A x : x \in Covered(l) <=> x \in Covered(rs) \/ x \in Extent(b, n)
  BY <1>1, <1>3, <1>4, CoveredElement
<1>8. QED
  BY <1>1, <1>2, <1>6, <1>7 DEF l

\* Inserting a region: linking, then both merges.
LEMMA NewMemoryRangeLemma ==
  ASSUME NEW rs, IsRanges(rs), Disjoint(rs), NEW b \in Nat, b \notin DOMAIN rs, NEW n \in Nat,
         Extent(b, n) \cap Covered(rs) = {}
  PROVE  LET new == NewMemoryRange(rs, b, n)
         IN  /\ IsRanges(new)
             /\ DOMAIN new \subseteq DOMAIN rs \cup {b}
             /\ Disjoint(new)
             /\ Covered(new) = Covered(rs) \cup Extent(b, n)
<1> DEFINE linked == Linked(rs, b, n)
           nexts  == {q \in DOMAIN linked : IsPrev(linked, b, q)}
           nxt    == CHOOSE q \in nexts : TRUE
           merged == IF nexts = {} THEN linked ELSE TryMergeMemoryRangesWithPrev(linked, nxt)
<1>1. NewMemoryRange(rs, b, n) = TryMergeMemoryRangesWithPrev(merged, b)
  BY DEF NewMemoryRange, Linked
<1>2. /\ IsRanges(linked)
      /\ DOMAIN linked = DOMAIN rs \cup {b}
      /\ Disjoint(linked)
      /\ Covered(linked) = Covered(rs) \cup Extent(b, n)
  <2>1. \A x : x \in Covered(linked) <=> x \in Covered(rs) \/ x \in Extent(b, n)
    BY LinkedLemma
  <2>2. QED
    BY <2>1, LinkedLemma
<1>3. nexts # {} => nxt \in DOMAIN linked /\ nxt # b
  <2>1. \A q \in nexts : q \in DOMAIN linked /\ q # b
    BY <1>2 DEF IsPrev
  <2>2. nexts # {} => nxt \in nexts
    OBVIOUS
  <2>3. QED
    BY <2>1, <2>2
<1> HIDE DEF linked, nexts, nxt
<1>4. /\ IsRanges(merged)
      /\ DOMAIN merged \subseteq DOMAIN linked
      /\ b \in DOMAIN merged
      /\ Disjoint(merged)
      /\ Covered(merged) = Covered(linked)
  BY <1>2, <1>3, TryMergeLemma
<1> HIDE DEF merged
<1>5. QED
  BY <1>1, <1>2, <1>4, TryMergeLemma

\* InsertNewMemoryRange covers the region's pages in addition and keeps ranges disjoint.
LEMMA InsertedLemma ==
  ASSUME NEW rs, IsRanges(rs), Disjoint(rs), NEW b \in Nat, NEW n \in Nat,
         ~Reinitialises(rs, b, n), Extent(b, n) \cap Covered(rs) = {}
  PROVE  /\ IsRanges(Inserted(rs, b, n))
         /\ DOMAIN Inserted(rs, b, n) \subseteq DOMAIN rs \cup (IF n = 0 THEN {} ELSE {b})
         /\ Disjoint(Inserted(rs, b, n))
         /\ Covered(Inserted(rs, b, n)) = Covered(rs) \cup Extent(b, n)
<1>1. CASE n = 0
  <2>1. Extent(b, n) = {}
    BY <1>1 DEF Extent
  <2>2. QED
    BY <1>1, <2>1 DEF Inserted
<1>2. CASE n # 0
  <2>1. b \notin DOMAIN rs
    BY <1>2 DEF Reinitialises
  <2>2. Inserted(rs, b, n) = NewMemoryRange(rs, b, n)
    BY <1>2, NeverSplits DEF Inserted
  <2>3. QED
    BY <1>2, <2>1, <2>2, NewMemoryRangeLemma
<1>3. QED
  BY <1>1, <1>2

-----------------------------------------------------------------------------
(* Taking pages from a range.                                              *)

\* AllocatePages only considers ranges that are listed.
LEMMA CandidatesAreListed ==
  ASSUME NEW rs, NEW need, NEW exact
  PROVE  Candidates(rs, need, exact) \subseteq DOMAIN rs
BY DEF Candidates, SkipListBest, Lightest, Heaviest, SizeList

\* AllocatePagesFromList takes the last pages of a range and leaves the others.
LEMMA RemainingLemma ==
  ASSUME NEW rs, IsRanges(rs), Disjoint(rs), NEW best \in DOMAIN rs, NEW need \in Nat
  PROVE  LET pages == Taken(rs, best, need)
             begin == best + (rs[best] - pages)
             rest  == Remaining(rs, best, need)
         IN  /\ pages \in Nat /\ pages <= rs[best] /\ pages <= need
             /\ begin \in Nat
             /\ IsRanges(rest)
             /\ DOMAIN rest \subseteq DOMAIN rs
             /\ Disjoint(rest)
             /\ Covered(rest) = Covered(rs) \ Extent(begin, pages)
             /\ Extent(begin, pages) \subseteq Covered(rs)
<1> DEFINE pages == Taken(rs, best, need)
           begin == best + (rs[best] - pages)
           rest  == Remaining(rs, best, need)
<1>1. best \in Nat /\ rs[best] \in Nat
  BY DEF IsRanges
<1>2. pages \in Nat /\ pages <= rs[best] /\ pages <= need
  BY <1>1 DEF Taken
<1>3. begin \in Nat /\ rs[best] - pages \in Nat /\ begin = best + (rs[best] - pages)
  BY <1>1, <1>2
<1>4. \A x : x \in Extent(best, rs[best]) <=>
               x \in Extent(best, rs[best] - pages) \/ x \in Extent(begin, pages)
  <2> HIDE DEF pages
  <2>1. (rs[best] - pages) + pages = rs[best]
    BY <1>1, <1>2
  <2>2. QED
    BY <1>1, <1>2, <1>3, <2>1, ExtentUnion
<1>5. \A x : ~(x \in Extent(best, rs[best] - pages) /\ x \in Extent(begin, pages))
  <2> HIDE DEF pages
  <2>1. QED
    BY <1>1, <1>2, <1>3 DEF Extent
<1>6. \A q \in DOMAIN rs : q # best =>
        \A x : ~(x \in Extent(q, rs[q]) /\ x \in Extent(best, rs[best]))
  BY DisjointElement
<1>7. Extent(begin, pages) \subseteq Covered(rs)
  BY <1>4, CoveredElement
<1>8. CASE rs[best] = need
  <2>1. pages = rs[best]
    BY <1>1, <1>8 DEF Taken
  <2>2. rest = [q \in DOMAIN rs \ {best} |-> rs[q]]
    BY <1>8 DEF Remaining, MemoryRangeRemove
  <2>3. DOMAIN rest = DOMAIN rs \ {best} /\ \A q \in DOMAIN rest : rest[q] = rs[q]
    BY <2>2
  <2>4. IsRanges(rest)
    BY <2>2 DEF IsRanges
  <2>5. Extent(begin, pages) = Extent(best, rs[best])
    BY <1>1, <2>1
  <2> HIDE DEF rest, pages, begin
  <2>6. Disjoint(rest)
    BY <2>3, DisjointElement
  <2>7. \A x : x \in Covered(rest) <=> x \in Covered(rs) /\ x \notin Extent(best, rs[best])
    BY <2>3, <1>6, CoveredElement
  <2>8. QED
    BY <1>2, <1>3, <1>7, <2>3, <2>4, <2>5, <2>6, <2>7 DEF rest, pages, begin
<1>9. CASE rs[best] # need
  <2>1. rest = [rs EXCEPT ![best] = rs[best] - pages]
    BY <1>9 DEF Remaining, SetMemoryRangePages
  <2>2. /\ DOMAIN rest = DOMAIN rs
        /\ rest[best] = rs[best] - pages
        /\ \A q \in DOMAIN rs : q # best => rest[q] = rs[q]
    BY <2>1 DEF IsRanges
  <2>3. IsRanges(rest)
    <3> HIDE DEF pages
    <3>1. QED
      BY <2>1, <1>3 DEF IsRanges
  <2> HIDE DEF rest, pages, begin
  <2>4. Disjoint(rest)
    BY <2>2, <1>4, DisjointElement
  <2>5. \A x : x \in Covered(rest) <=> x \in Covered(rs) /\ x \notin Extent(begin, pages)
    BY <2>2, <1>4, <1>5, <1>6, CoveredElement
  <2>6. QED
    BY <1>2, <1>3, <1>7, <2>2, <2>3, <2>4, <2>5 DEF rest, pages, begin
<1>10. QED
  BY <1>8, <1>9

-----------------------------------------------------------------------------
(* Typing and page accounting, for all callers.                            *)

\* What PagesAccounted and the memory map say about a single range.
LEMMA RangeBounds ==
  ASSUME NEW rs, IsRanges(rs), DOMAIN rs \subseteq 0..TopPage,
         Covered(rs) \subseteq MemPages, NEW b \in DOMAIN rs
  PROVE  rs[b] \in 0..TopPage /\ b + rs[b] \in 0..TopPage
<1>1. b \in 0..TopPage /\ rs[b] \in Nat /\ TopPage \in Nat
  BY MemoryAssumption DEF IsRanges
<1>2. CASE rs[b] = 0
  BY <1>1, <1>2
<1>3. CASE rs[b] # 0
  <2>1. b + rs[b] - 1 \in Extent(b, rs[b])
    BY <1>1, <1>3 DEF Extent
  <2>2. b + rs[b] - 1 \in 0..(TopPage - 1)
    BY <2>1, CoveredElement, MemoryAssumption
  <2>3. QED
    BY <1>1, <2>2
<1>4. QED
  BY <1>2, <1>3

Accounting == TypeOK /\ PagesAccounted

\* Accounting holds at boot, when callers have everything.
LEMMA AccountingInit == Init => Accounting
<1> SUFFICES ASSUME Init PROVE Accounting
  OBVIOUS
<1>1. DOMAIN ranges = {}
  BY DEF Init
<1>2. ranges \in [DOMAIN ranges -> 0..TopPage]
  BY DEF Init
<1>3. TypeOK
  <2>1. NoCall \in [need : Nat, exact : BOOLEAN, ok : BOOLEAN,
                    begin : 0..TopPage, pages : 0..TopPage]
    BY MemoryAssumption DEF NoCall
  <2>2. DOMAIN ranges \subseteq 0..TopPage
    BY <1>1
  <2>3. held \subseteq MemPages /\ corrupt \in BOOLEAN
    BY DEF Init
  <2>4. QED
    BY <1>2, <2>1, <2>2, <2>3 DEF Init, TypeOK
<1>4. \A x : x \notin Covered(ranges)
  BY <1>1, CoveredElement
<1>5. PagesAccounted
  BY <1>1, <1>4 DEF Init, PagesAccounted, EveryPageOnce, Disjoint
<1>6. QED
  BY <1>3, <1>5 DEF Accounting

\* Nothing is followed after a linked descriptor has been overwritten.
LEMMA CorruptIsLast == corrupt /\ [Next]_vars => UNCHANGED vars
BY DEF Next, InsertNewMemoryRange, InsertOverLinkedNodes, OverwriteDescriptor, AllocatePages,
       AllocatePagesFails

\* Every step keeps Accounting.
LEMMA AccountingNext == Accounting /\ [Next]_vars => Accounting'
<1> SUFFICES ASSUME Accounting, [Next]_vars, ~corrupt PROVE Accounting'
  BY CorruptIsLast DEF vars, Accounting, TypeOK, PagesAccounted, EveryPageOnce
<1>1. /\ IsRanges(ranges)
      /\ DOMAIN ranges \subseteq 0..TopPage
      /\ Disjoint(ranges)
      /\ TopPage \in Nat
  BY MemoryAssumption DEF Accounting, TypeOK, PagesAccounted, EveryPageOnce, IsRanges
<1>2. ASSUME NEW b \in 0..TopPage, NEW n \in 0..TopPage, InsertNewMemoryRange(b, n)
      PROVE  Accounting'
  <2>1. b \in Nat /\ n \in Nat /\ ~Reinitialises(ranges, b, n) /\ Extent(b, n) \subseteq held
    BY <1>2 DEF InsertNewMemoryRange
  <2>2. Extent(b, n) \cap Covered(ranges) = {}
    BY <2>1 DEF Accounting, PagesAccounted, EveryPageOnce
  <2>3. /\ ranges' = Inserted(ranges, b, n)
        /\ held' = held \ Extent(b, n)
        /\ out' = NoCall
        /\ corrupt' = corrupt
    BY <1>2 DEF InsertNewMemoryRange
  <2>4. /\ IsRanges(ranges')
        /\ DOMAIN ranges' \subseteq DOMAIN ranges \cup {b}
        /\ Disjoint(ranges')
        /\ Covered(ranges') = Covered(ranges) \cup Extent(b, n)
    BY <1>1, <2>1, <2>2, <2>3, InsertedLemma
  <2>5. PagesAccounted'
    BY <2>1, <2>3, <2>4 DEF Accounting, PagesAccounted, EveryPageOnce
  <2>6. DOMAIN ranges' \subseteq 0..TopPage /\ Covered(ranges') \subseteq MemPages
    BY <1>1, <2>3, <2>4, <2>5 DEF PagesAccounted, EveryPageOnce
  <2>7. ranges' \in [DOMAIN ranges' -> 0..TopPage]
    BY <2>4, <2>6, RangeBounds DEF IsRanges
  <2>8. TypeOK'
    BY <1>1, <2>3, <2>6, <2>7 DEF Accounting, TypeOK, NoCall
  <2>9. QED
    BY <2>5, <2>8 DEF Accounting
<1>3. ASSUME NEW b \in 0..TopPage, NEW n \in 0..TopPage, InsertOverLinkedNodes(b, n)
      PROVE  Accounting'
  <2>1. PICK kept \in SUBSET (DOMAIN ranges \ {b}) :
          ranges' = [q \in kept \cup {b} |-> IF q = b THEN n ELSE ranges[q]]
    BY <1>3 DEF InsertOverLinkedNodes
  <2>2. DOMAIN ranges' \subseteq 0..TopPage /\ ranges' \in [DOMAIN ranges' -> 0..TopPage]
    BY <2>1, <1>1 DEF Accounting, TypeOK
  <2>3. held' \subseteq MemPages /\ out' = NoCall /\ corrupt' = TRUE
    BY <1>3 DEF InsertOverLinkedNodes, Accounting, TypeOK
  <2>4. TypeOK'
    BY <1>1, <2>2, <2>3 DEF TypeOK, NoCall
  <2>5. QED
    BY <2>3, <2>4 DEF Accounting, PagesAccounted
<1>4. CASE OverwriteDescriptor
  BY <1>4 DEF OverwriteDescriptor, Accounting, TypeOK, PagesAccounted, EveryPageOnce
<1>5. ASSUME NEW need \in Requests, NEW exact \in ExactModes, AllocatePages(need, exact)
      PROVE  Accounting'
  <2>1. PICK best \in Candidates(ranges, need, exact) :
          LET pages == Taken(ranges, best, need)
              begin == best + (ranges[best] - pages)
          IN  /\ ranges' = Remaining(ranges, best, need)
              /\ held' = held \cup Extent(begin, pages)
              /\ out' = [need |-> need, exact |-> exact, ok |-> TRUE,
                         begin |-> begin, pages |-> pages]
    BY <1>5 DEF AllocatePages
  <2> DEFINE pages == Taken(ranges, best, need)
             begin == best + (ranges[best] - pages)
  <2>2. best \in DOMAIN ranges /\ need \in Nat /\ exact \in BOOLEAN
    BY CandidatesAreListed, CallerAssumption
  <2>3. /\ pages \in Nat /\ pages <= ranges[best]
        /\ begin \in Nat
        /\ IsRanges(ranges')
        /\ DOMAIN ranges' \subseteq DOMAIN ranges
        /\ Disjoint(ranges')
        /\ Covered(ranges') = Covered(ranges) \ Extent(begin, pages)
        /\ Extent(begin, pages) \subseteq Covered(ranges)
    BY <1>1, <2>1, <2>2, RemainingLemma
  <2>4. best \in Nat /\ ranges[best] \in 0..TopPage /\ best + ranges[best] \in 0..TopPage
    BY <1>1, <2>2, RangeBounds DEF Accounting, PagesAccounted, EveryPageOnce, IsRanges
  <2>5. pages \in 0..TopPage /\ begin \in 0..TopPage
    <3>1. begin = best + (ranges[best] - pages)
      OBVIOUS
    <3> HIDE DEF pages, begin
    <3>2. QED
      BY <3>1, <2>3, <2>4, <1>1
  <2>6. /\ held' = held \cup Extent(begin, pages)
        /\ out' = [need |-> need, exact |-> exact, ok |-> TRUE,
                   begin |-> begin, pages |-> pages]
        /\ corrupt' = corrupt
    BY <2>1, <1>5 DEF AllocatePages
  <2> HIDE DEF pages, begin
  <2>7. PagesAccounted'
    BY <2>3, <2>6 DEF Accounting, PagesAccounted, EveryPageOnce
  <2>8. DOMAIN ranges' \subseteq 0..TopPage /\ Covered(ranges') \subseteq MemPages
    BY <1>1, <2>3, <2>6, <2>7 DEF PagesAccounted, EveryPageOnce
  <2>9. ranges' \in [DOMAIN ranges' -> 0..TopPage]
    BY <2>3, <2>8, RangeBounds DEF IsRanges
  <2>10. TypeOK'
    BY <2>2, <2>5, <2>6, <2>7, <2>8, <2>9 DEF Accounting, TypeOK, PagesAccounted, EveryPageOnce
  <2>11. QED
    BY <2>7, <2>10 DEF Accounting
<1>6. ASSUME NEW need \in Requests, NEW exact \in ExactModes, AllocatePagesFails(need, exact)
      PROVE  Accounting'
  <2>1. need \in Nat /\ exact \in BOOLEAN
    BY CallerAssumption
  <2>2. QED
    BY <1>1, <1>6, <2>1 DEF AllocatePagesFails, Accounting, TypeOK, PagesAccounted, EveryPageOnce
<1>7. CASE UNCHANGED vars
  BY <1>7 DEF vars, Accounting, TypeOK, PagesAccounted, EveryPageOnce
<1>8. QED
  BY <1>2, <1>3, <1>4, <1>5, <1>6, <1>7 DEF Next

\* Every behaviour of the allocator, whatever callers insert, allocate and
\* overwrite, keeps its types.
THEOREM TypeCorrect == Spec => []TypeOK
<1>1. Spec => []Accounting
  BY AccountingInit, AccountingNext, PTL DEF Spec
<1>2. Accounting => TypeOK
  BY DEF Accounting
<1>3. QED
  BY <1>1, <1>2, PTL

\* As long as no linked descriptor has been overwritten, no page is lost or
\* handed out twice, for every memory map and every sequence of insertions and
\* exact and inexact requests.
THEOREM PagesAlwaysAccounted == Spec => []PagesAccounted
<1>1. Spec => []Accounting
  BY AccountingInit, AccountingNext, PTL DEF Spec
<1>2. Accounting => PagesAccounted
  BY DEF Accounting
<1>3. QED
  BY <1>1, <1>2, PTL

-----------------------------------------------------------------------------
(* Merging is complete, for callers that ask for exact sizes.              *)

\* Every listed range has a page, and none ends where another begins.
Tight(rs) ==
  /\ \A b \in DOMAIN rs : rs[b] > 0
  /\ \A p, q \in DOMAIN rs : p + rs[p] # q

\* A range that ends where b begins is the one before b in the address list,
\* because whatever began in between would overlap it.
LEMMA AdjacentIsPrev ==
  ASSUME NEW rs, IsRanges(rs), Disjoint(rs), \A q \in DOMAIN rs : rs[q] > 0,
         NEW p \in DOMAIN rs, NEW b \in DOMAIN rs, p + rs[p] = b
  PROVE  IsPrev(rs, p, b)
<1>1. p \in Nat /\ rs[p] \in Nat /\ rs[p] > 0 /\ b \in Nat
  BY DEF IsRanges
<1>2. p < b
  BY <1>1
<1>3. ASSUME NEW q \in DOMAIN rs, q < b, ~(q <= p)
      PROVE  FALSE
  <2>1. q \in Nat /\ rs[q] \in Nat /\ rs[q] > 0
    BY DEF IsRanges
  <2>2. q \in Extent(q, rs[q]) /\ q \in Extent(p, rs[p])
    BY <1>1, <1>3, <2>1 DEF Extent
  <2>3. p # q
    BY <1>1, <1>3, <2>1
  <2>4. QED
    BY <2>2, <2>3, DisjointElement
<1>4. QED
  BY <1>2, <1>3 DEF IsPrev

\* Of two ranges that touch, the second is merged into the first.
LEMMA TryMergeMerges ==
  ASSUME NEW rs, IsRanges(rs), Disjoint(rs), \A q \in DOMAIN rs : rs[q] > 0,
         0 \notin DOMAIN rs,
         NEW p \in DOMAIN rs, NEW b \in DOMAIN rs, p + rs[p] = b
  PROVE  p # b /\ TryMergeMemoryRangesWithPrev(rs, b) = Merged(rs, p, b)
<1>1. p \in Nat /\ rs[p] \in Nat /\ rs[p] > 0 /\ b \in Nat
  BY DEF IsRanges
<1>2. p # b
  BY <1>1
<1>3. IsPrev(rs, p, b)
  BY AdjacentIsPrev
<1>4. Aligned(p)
  BY <1>1, EverythingIsAligned
<1>5. p \in MergeTargets(rs, b)
  BY <1>3, <1>4 DEF MergeTargets, IsNull
<1>6. \A r \in MergeTargets(rs, b) : r = p
  <2>1. \A r \in MergeTargets(rs, b) : r \in DOMAIN rs /\ IsPrev(rs, r, b)
    BY DEF MergeTargets
  <2>2. \A r \in DOMAIN rs : IsPrev(rs, r, b) => r <= p /\ p <= r /\ r \in Nat
    BY <1>3 DEF IsPrev, IsRanges
  <2>3. QED
    BY <1>1, <2>1, <2>2
<1>7. (CHOOSE r \in MergeTargets(rs, b) : TRUE) = p
  BY <1>5, <1>6
<1>8. TryMergeMemoryRangesWithPrev(rs, b)
        = MemoryRangeRemove(SetMemoryRangePages(rs, p, rs[p] + rs[b]), b)
  BY <1>5, <1>7 DEF TryMergeMemoryRangesWithPrev
<1>9. MemoryRangeRemove(SetMemoryRangePages(rs, p, rs[p] + rs[b]), b) = Merged(rs, p, b)
  BY <1>2 DEF MemoryRangeRemove, SetMemoryRangePages, Merged, IsRanges
<1>10. QED
  BY <1>2, <1>8, <1>9

\* After merging b into p, where the only adjacent pairs were p-b and pairs
\* that end in p, only pairs that end in p are left.
LEMMA MergedTight ==
  ASSUME NEW rs, IsRanges(rs), \A q \in DOMAIN rs : rs[q] > 0,
         NEW p \in DOMAIN rs, NEW b \in DOMAIN rs, p # b, p + rs[p] = b,
         NEW Ends,
         \A q, r \in DOMAIN rs : q + rs[q] = r => r = b \/ r \in Ends,
         \A q \in DOMAIN rs : q + rs[q] = b => q = p
  PROVE  LET m == Merged(rs, p, b)
         IN  /\ \A q \in DOMAIN m : m[q] > 0
             /\ \A q, r \in DOMAIN m : q + m[q] = r => r \in Ends
<1> DEFINE m == Merged(rs, p, b)
<1>1. /\ DOMAIN m = DOMAIN rs \ {b}
      /\ m[p] = rs[p] + rs[b]
      /\ \A q \in DOMAIN m : q # p => m[q] = rs[q]
  BY DEF Merged
<1>2. \A q \in DOMAIN rs : q \in Nat /\ rs[q] \in Nat
  BY DEF IsRanges
<1>3. p + m[p] = b + rs[b]
  BY <1>1, <1>2
<1> HIDE DEF m
<1>4. \A q \in DOMAIN m : m[q] > 0
  BY <1>1, <1>2
<1>5. ASSUME NEW q \in DOMAIN m, NEW r \in DOMAIN m, q + m[q] = r
      PROVE  r \in Ends
  <2>1. r # b /\ r \in DOMAIN rs
    BY <1>1
  <2>2. CASE q = p
    BY <1>3, <1>5, <2>1, <2>2
  <2>3. CASE q # p
    BY <1>1, <1>5, <2>1, <2>3
  <2>4. QED
    BY <2>2, <2>3
<1>6. QED
  BY <1>4, <1>5 DEF m

\* No two ranges end at the same page.
LEMMA UniqueEnd ==
  ASSUME NEW rs, IsRanges(rs), Disjoint(rs), \A q \in DOMAIN rs : rs[q] > 0,
         NEW p \in DOMAIN rs, NEW q \in DOMAIN rs, p + rs[p] = q + rs[q]
  PROVE  p = q
<1> SUFFICES ASSUME p # q PROVE FALSE
  OBVIOUS
<1>1. p \in Nat /\ rs[p] \in Nat /\ rs[p] > 0 /\ q \in Nat /\ rs[q] \in Nat /\ rs[q] > 0
  BY DEF IsRanges
<1>2. p + rs[p] - 1 \in Extent(p, rs[p]) /\ p + rs[p] - 1 \in Extent(q, rs[q])
  BY <1>1 DEF Extent
<1>3. QED
  BY <1>2, DisjointElement

\* The last merge: if b is the only range that others end at, nothing is left.
LEMMA LastMergeTight ==
  ASSUME NEW rs, IsRanges(rs), Disjoint(rs), \A q \in DOMAIN rs : rs[q] > 0,
         0 \notin DOMAIN rs, NEW b \in DOMAIN rs,
         \A q, r \in DOMAIN rs : q + rs[q] = r => r = b
  PROVE  Tight(TryMergeMemoryRangesWithPrev(rs, b))
<1>1. CASE \E p \in DOMAIN rs : p + rs[p] = b
  <2>1. PICK p \in DOMAIN rs : p + rs[p] = b
    BY <1>1
  <2>2. p # b /\ TryMergeMemoryRangesWithPrev(rs, b) = Merged(rs, p, b)
    BY <2>1, TryMergeMerges
  <2>3. \A q \in DOMAIN rs : q + rs[q] = b => q = p
    BY <2>1, UniqueEnd
  <2> DEFINE m == Merged(rs, p, b)
             none == {}
  <2> HIDE DEF none
  <2>4. \A q, r \in DOMAIN rs : q + rs[q] = r => r = b \/ r \in none
    OBVIOUS
  <2>5. /\ \A q \in DOMAIN m : m[q] > 0
        /\ \A q, r \in DOMAIN m : q + m[q] = r => r \in none
    BY <2>1, <2>2, <2>3, <2>4, MergedTight
  <2> HIDE DEF m
  <2>6. Tight(m)
    BY <2>5 DEF Tight, none
  <2>7. QED
    BY <2>2, <2>6 DEF m
<1>2. CASE ~\E p \in DOMAIN rs : p + rs[p] = b
  <2>1. TryMergeMemoryRangesWithPrev(rs, b) = rs
    BY <1>2, TryMergeCases
  <2>2. QED
    BY <1>2, <2>1 DEF Tight
<1>3. QED
  BY <1>1, <1>2

\* After its two merges, no insertion leaves ranges that touch.
LEMMA NewMemoryRangeTight ==
  ASSUME NEW rs, IsRanges(rs), Disjoint(rs), Tight(rs), 0 \notin DOMAIN rs,
         NEW b \in Nat, b # 0, b \notin DOMAIN rs, NEW n \in Nat, n > 0,
         Extent(b, n) \cap Covered(rs) = {}
  PROVE  Tight(NewMemoryRange(rs, b, n))
<1> DEFINE linked == Linked(rs, b, n)
           nexts  == {q \in DOMAIN linked : IsPrev(linked, b, q)}
           nxt    == CHOOSE q \in nexts : TRUE
           merged == IF nexts = {} THEN linked ELSE TryMergeMemoryRangesWithPrev(linked, nxt)
<1>1. NewMemoryRange(rs, b, n) = TryMergeMemoryRangesWithPrev(merged, b)
  BY DEF NewMemoryRange, Linked
<1>2. IsRanges(linked) /\ DOMAIN linked = DOMAIN rs \cup {b} /\ Disjoint(linked)
  BY LinkedLemma
<1>3. linked[b] = n /\ \A q \in DOMAIN rs : linked[q] = rs[q]
  BY DEF Linked
<1>4. \A q \in nexts : q \in DOMAIN linked /\ q # b
  BY <1>2 DEF IsPrev
<1>5. nexts # {} => nxt \in nexts
  OBVIOUS
<1>6. \A q \in DOMAIN linked : q \in nexts <=> IsPrev(linked, b, q)
  OBVIOUS
<1> HIDE DEF linked, nexts, nxt
<1>7. \A q \in DOMAIN linked : linked[q] > 0
  BY <1>2, <1>3 DEF Tight
\* Only b can be adjacent to another range.
<1>8. \A q, r \in DOMAIN linked : q + linked[q] = r => r = b \/ (q = b /\ r = b + n)
  BY <1>2, <1>3 DEF Tight
<1>9. \A q \in DOMAIN linked : q \in Nat
  BY <1>2 DEF IsRanges
<1>10. /\ IsRanges(merged)
       /\ Disjoint(merged)
       /\ b \in DOMAIN merged
       /\ 0 \notin DOMAIN merged
  <2>1. CASE nexts = {}
    BY <1>2, <2>1
  <2>2. CASE nexts # {}
    BY <1>2, <1>4, <1>5, <2>2, TryMergeLemma
  <2>3. QED
    BY <2>1, <2>2
<1>11. /\ \A q \in DOMAIN merged : merged[q] > 0
       /\ \A q, r \in DOMAIN merged : q + merged[q] = r => r = b
  <2>1. CASE b + n \in DOMAIN linked
    <3> DEFINE c == b + n
    <3>1. c \in DOMAIN linked /\ b \in DOMAIN linked /\ b + linked[b] = c
      BY <1>2, <1>3, <2>1
    <3>2. c \in nexts
      BY <1>2, <1>6, <1>7, <3>1, AdjacentIsPrev
    <3>3. nxt = c
      <4>1. nxt \in DOMAIN linked /\ IsPrev(linked, b, nxt) /\ IsPrev(linked, b, c)
        BY <1>4, <1>5, <1>6, <3>1, <3>2
      <4>2. nxt \in Nat /\ c \in Nat /\ b < c /\ b < nxt
        BY <1>9, <4>1, <3>1 DEF IsPrev
      <4>3. ~(nxt < c) /\ ~(c < nxt)
        BY <4>1, <4>2, <3>1 DEF IsPrev
      <4>4. QED
        BY <4>2, <4>3
    <3>4. b # c /\ TryMergeMemoryRangesWithPrev(linked, c) = Merged(linked, b, c)
      BY <1>2, <1>7, <3>1, TryMergeMerges
    <3>5. merged = Merged(linked, b, c)
      BY <3>2, <3>3, <3>4
    <3>6. \A q \in DOMAIN linked : q + linked[q] = c => q = b
      BY <1>8, <3>1, <3>4
    <3>7. \A q, r \in DOMAIN linked : q + linked[q] = r => r = c \/ r \in {b}
      BY <1>8
    <3>8. LET m == Merged(linked, b, c)
          IN  /\ \A q \in DOMAIN m : m[q] > 0
              /\ \A q, r \in DOMAIN m : q + m[q] = r => r \in {b}
      <4> HIDE DEF c
      <4>1. QED
        BY <1>2, <1>7, <3>1, <3>4, <3>6, <3>7, MergedTight
    <3> HIDE DEF c, merged
    <3>9. QED
      BY <3>5, <3>8
  <2>2. CASE b + n \notin DOMAIN linked
    <3>1. \A q, r \in DOMAIN linked : q + linked[q] = r => r = b
      BY <1>8, <2>2
    <3>2. merged = linked
      <4>1. CASE nexts = {}
        BY <4>1
      <4>2. CASE nexts # {}
        <5>1. nxt \in DOMAIN linked /\ nxt # b
          BY <1>4, <1>5, <4>2
        <5>2. ~\E p \in DOMAIN linked : p + linked[p] = nxt
          BY <3>1, <5>1
        <5>3. QED
          BY <1>2, <4>2, <5>1, <5>2, TryMergeCases
      <4>3. QED
        BY <4>1, <4>2
    <3> HIDE DEF merged
    <3>3. QED
      BY <1>7, <3>1, <3>2
  <2>3. QED
    BY <2>1, <2>2
<1> HIDE DEF merged
<1>12. QED
  BY <1>1, <1>10, <1>11, LastMergeTight

\* An exact request is only served from a range that is large enough, and
\* shrinking a range never makes it end where another one begins.
LEMMA ExactCandidates ==
  ASSUME NEW rs, NEW need, NEW best \in Candidates(rs, need, TRUE)
  PROVE  rs[best] >= need
BY DEF Candidates, SkipListBest, Lightest

\* Taking pages from a range makes no two ranges touch.
LEMMA RemainingTight ==
  ASSUME NEW rs, IsRanges(rs), Disjoint(rs), Tight(rs),
         NEW best \in DOMAIN rs, NEW need \in Nat, rs[best] >= need
  PROVE  Tight(Remaining(rs, best, need))
<1> DEFINE rest == Remaining(rs, best, need)
<1>1. \A q \in DOMAIN rs : q \in Nat /\ rs[q] \in Nat /\ rs[q] > 0
  BY DEF IsRanges, Tight
<1>2. CASE rs[best] = need
  <2>1. DOMAIN rest = DOMAIN rs \ {best} /\ \A q \in DOMAIN rest : rest[q] = rs[q]
    BY <1>2 DEF Remaining, MemoryRangeRemove
  <2> HIDE DEF rest
  <2>2. Tight(rest)
    BY <2>1 DEF Tight
  <2>3. QED
    BY <2>2 DEF rest
<1>3. CASE rs[best] # need
  <2>1. Taken(rs, best, need) = need
    BY <1>1, <1>3 DEF Taken
  <2>2. /\ DOMAIN rest = DOMAIN rs
        /\ rest[best] = rs[best] - need
        /\ \A q \in DOMAIN rs : q # best => rest[q] = rs[q]
    BY <1>3, <2>1 DEF Remaining, SetMemoryRangePages, IsRanges
  <2> HIDE DEF rest
  <2>3. \A q \in DOMAIN rest : rest[q] > 0
    BY <1>1, <1>3, <2>2
  <2>4. ASSUME NEW r \in DOMAIN rs, best + (rs[best] - need) = r
        PROVE  FALSE
    <3>1. CASE need = 0
      BY <1>1, <2>4, <3>1 DEF Tight
    <3>2. CASE need # 0
      <4>1. r # best
        BY <1>1, <1>3, <2>4
      <4>2. r \in Extent(r, rs[r]) /\ r \in Extent(best, rs[best])
        BY <1>1, <1>3, <2>4, <3>2 DEF Extent
      <4>3. QED
        BY <4>1, <4>2, DisjointElement
    <3>3. QED
      BY <3>1, <3>2
  <2>5. \A q, r \in DOMAIN rest : q + rest[q] # r
    BY <2>2, <2>4 DEF Tight
  <2>6. QED
    BY <2>3, <2>5 DEF Tight, rest
<1>4. QED
  BY <1>2, <1>3

\* The first page of a listed range is free.
LEMMA FirstPageIsFree ==
  ASSUME Accounting, Tight(ranges), ~corrupt, NEW b \in DOMAIN ranges
  PROVE  b \in Covered(ranges) /\ b \notin held
<1>1. b \in Nat /\ ranges[b] \in Nat /\ ranges[b] > 0
  BY MemoryAssumption DEF Accounting, TypeOK, Tight
<1>2. b \in Extent(b, ranges[b])
  BY <1>1 DEF Extent
<1>3. b \in Covered(ranges)
  BY <1>2, CoveredElement
<1>4. QED
  BY <1>3 DEF Accounting, PagesAccounted, EveryPageOnce

ExactInv == Accounting /\ Tight(ranges) /\ corrupt = FALSE

\* ExactInv holds at boot.
LEMMA ExactInvInit == Init => ExactInv
<1> SUFFICES ASSUME Init PROVE ExactInv
  OBVIOUS
<1>1. DOMAIN ranges = {}
  BY DEF Init
<1>2. QED
  BY <1>1, AccountingInit DEF ExactInv, Tight, Init

\* With exact requests and no page 0 every step keeps ExactInv.
LEMMA ExactInvNext ==
  ASSUME ExactModes = {TRUE}, 0 \notin MemPages
  PROVE  ExactInv /\ [Next]_vars => ExactInv'
<1> SUFFICES ASSUME ExactInv, [Next]_vars PROVE ExactInv'
  OBVIOUS
<1>1. Accounting /\ Accounting' /\ Tight(ranges) /\ corrupt = FALSE
  BY AccountingNext DEF ExactInv
<1>2. IsRanges(ranges) /\ Disjoint(ranges)
  BY <1>1, MemoryAssumption DEF Accounting, TypeOK, PagesAccounted, EveryPageOnce, IsRanges
<1>3. ASSUME NEW b \in 0..TopPage, NEW n \in 0..TopPage, InsertNewMemoryRange(b, n)
      PROVE  Tight(ranges') /\ corrupt' = FALSE
  <2>1. /\ b \in Nat /\ n \in Nat
        /\ ~Reinitialises(ranges, b, n)
        /\ Extent(b, n) \subseteq held
        /\ ranges' = Inserted(ranges, b, n)
        /\ corrupt' = corrupt
    BY <1>3, MemoryAssumption DEF InsertNewMemoryRange
  <2>2. Extent(b, n) \cap Covered(ranges) = {}
    BY <1>1, <2>1 DEF Accounting, PagesAccounted, EveryPageOnce
  <2>3. CASE n = 0
    BY <1>1, <2>1, <2>3 DEF Inserted
  <2>4. CASE n # 0
    <3>1. b \notin DOMAIN ranges
      BY <2>1, <2>4 DEF Reinitialises
    <3>2. ranges' = NewMemoryRange(ranges, b, n)
      BY <2>1, <2>4, NeverSplits DEF Inserted
    <3>3. n > 0
      BY <2>1, <2>4
    <3>4. b # 0 /\ 0 \notin DOMAIN ranges
      <4>1. b \in Extent(b, n)
        BY <2>1, <3>3 DEF Extent
      <4>2. held \subseteq MemPages /\ Covered(ranges) \subseteq MemPages
        BY <1>1 DEF Accounting, TypeOK, PagesAccounted, EveryPageOnce
      <4>3. QED
        BY <1>1, <2>1, <4>1, <4>2, FirstPageIsFree
    <3>5. Tight(NewMemoryRange(ranges, b, n))
      BY <3>4, <1>1, <1>2, <2>1, <2>2, <3>1, <3>3, NewMemoryRangeTight
    <3>6. QED
      BY <1>1, <2>1, <3>2, <3>5
  <2>5. QED
    BY <2>3, <2>4
<1>4. ASSUME NEW b \in 0..TopPage, NEW n \in 0..TopPage, InsertOverLinkedNodes(b, n)
      PROVE  FALSE
  <2>1. b \in Nat /\ n \in Nat /\ Reinitialises(ranges, b, n) /\ Extent(b, n) \subseteq held
    BY <1>4, MemoryAssumption DEF InsertOverLinkedNodes
  <2>2. n > 0 /\ b \in DOMAIN ranges
    BY <2>1, NeverSplits DEF Reinitialises
  <2>3. b \in Extent(b, n)
    BY <2>1, <2>2 DEF Extent
  <2>4. QED
    BY <1>1, <2>1, <2>2, <2>3, FirstPageIsFree
<1>5. ASSUME OverwriteDescriptor PROVE FALSE
  BY <1>1, <1>5, FirstPageIsFree DEF OverwriteDescriptor
<1>6. ASSUME NEW need \in Requests, NEW exact \in ExactModes, AllocatePages(need, exact)
      PROVE  Tight(ranges') /\ corrupt' = FALSE
  <2>1. exact = TRUE /\ need \in Nat
    BY CallerAssumption
  <2>2. PICK best \in Candidates(ranges, need, TRUE) : ranges' = Remaining(ranges, best, need)
    BY <1>6, <2>1 DEF AllocatePages
  <2>3. best \in DOMAIN ranges /\ ranges[best] >= need
    BY CandidatesAreListed, ExactCandidates
  <2>4. Tight(Remaining(ranges, best, need))
    BY <1>1, <1>2, <2>1, <2>3, RemainingTight
  <2>5. corrupt' = corrupt
    BY <1>6 DEF AllocatePages
  <2>6. QED
    BY <1>1, <2>2, <2>4, <2>5
<1>7. ASSUME NEW need \in Requests, NEW exact \in ExactModes, AllocatePagesFails(need, exact)
      PROVE  Tight(ranges') /\ corrupt' = FALSE
  BY <1>1, <1>7 DEF AllocatePagesFails
<1>8. ASSUME UNCHANGED vars PROVE Tight(ranges') /\ corrupt' = FALSE
  BY <1>1, <1>8 DEF vars
<1>9. Tight(ranges') /\ corrupt' = FALSE
  BY <1>3, <1>4, <1>5, <1>6, <1>7, <1>8 DEF Next
<1>10. QED
  BY <1>1, <1>9 DEF ExactInv

\* With callers that ask for exact sizes, on a machine whose memory map has no
\* page 0, the two merges of NewMemoryRange leave nothing to merge.
THEOREM AlwaysCoalesced ==
  ASSUME ExactModes = {TRUE}, 0 \notin MemPages
  PROVE  Spec => []Coalesced
<1>1. Spec => []ExactInv
  BY ExactInvInit, ExactInvNext, PTL DEF Spec
<1>2. ExactInv => Coalesced
  BY DEF ExactInv, Coalesced, Tight, MergeTargets
<1>3. QED
  BY <1>1, <1>2, PTL

\* With callers that ask for exact sizes and no page 0, no descriptor of a listed range is
\* ever in memory that a caller owns, and none is ever overwritten.
THEOREM DescriptorsAlwaysSafe ==
  ASSUME ExactModes = {TRUE}, 0 \notin MemPages
  PROVE  Spec => []DescriptorsSafe
<1>1. Spec => []ExactInv
  BY ExactInvInit, ExactInvNext, PTL DEF Spec
<1>2. ExactInv => DescriptorsSafe
  BY FirstPageIsFree DEF ExactInv, DescriptorsSafe
<1>3. QED
  BY <1>1, <1>2, PTL

\* With callers that ask for exact sizes and no page 0, no page is ever lost or
\* handed out twice, without any condition.
THEOREM ExactLosesNoPage ==
  ASSUME ExactModes = {TRUE}, 0 \notin MemPages
  PROVE  Spec => []EveryPageOnce
<1>1. Spec => []ExactInv
  BY ExactInvInit, ExactInvNext, PTL DEF Spec
<1>2. ExactInv => EveryPageOnce
  BY DEF ExactInv, Accounting, PagesAccounted
<1>3. QED
  BY <1>1, <1>2, PTL

-----------------------------------------------------------------------------
(* The allocator implements PageAllocator, for callers that ask for exact  *)
(* sizes.                                                                  *)

\* Some range is the lightest.
LEMMA LightestExists ==
  ASSUME NEW rs, NEW S, S # {}, \A b \in S : rs[b] \in Nat
  PROVE  Lightest(rs, S) # {}
<1> DEFINE R == OpToRel(<, Nat)
           T == {rs[b] : b \in S}
<1>1. IsWellFoundedOn(R, Nat)
  BY NatLessThanWellFounded
<1>2. T \subseteq Nat /\ T # {}
  OBVIOUS
<1>3. \A x, y \in Nat : y < x => <<y, x>> \in R
  BY DEF OpToRel
<1> HIDE DEF R
<1>4. PICK x \in T : \A y \in T : ~(<<y, x>> \in R)
  <2> HIDE DEF T
  <2>1. QED
    BY <1>1, <1>2, WFMin
<1>5. PICK b \in S : x = rs[b]
  BY <1>4
<1>6. ASSUME NEW c \in S PROVE rs[b] <= rs[c]
  <2>1. rs[b] \in Nat /\ rs[c] \in Nat /\ rs[c] \in T
    OBVIOUS
  <2>2. ~(rs[c] < rs[b])
    BY <1>3, <1>4, <1>5, <2>1
  <2>3. QED
    BY <2>1, <2>2
<1>7. QED
  BY <1>6 DEF Lightest

\* An exact request is refused only if every range is too short: a sufficient
\* range is in a list that the request falls through to.
LEMMA RefusedMeansShort ==
  ASSUME NEW rs, IsRanges(rs), NEW need \in Nat, Candidates(rs, need, TRUE) = {},
         NEW b \in DOMAIN rs, b # 0
  PROVE  rs[b] < need
<1> SUFFICES ASSUME rs[b] >= need PROVE FALSE
  BY DEF IsRanges
<1>1. b \in Nat /\ rs[b] \in Nat /\ PagesPerHuge \in Nat
  BY ArchAssumption DEF IsRanges
<1> DEFINE Heavy(sentinel) == {c \in SizeList(rs, sentinel) : rs[c] >= need}
           Best(sentinel)  == SkipListBest(rs, SizeList(rs, sentinel), need, TRUE)
<1>2. \A sentinel : Heavy(sentinel) # {} => Best(sentinel) # {}
  <2> TAKE sentinel
  <2>1. \A c \in Heavy(sentinel) : rs[c] \in Nat
    BY DEF SizeList, IsRanges
  <2>2. Best(sentinel) = Lightest(rs, Heavy(sentinel)) \cup {}
    BY DEF SkipListBest
  <2> HIDE DEF Heavy
  <2>3. QED
    BY <2>1, <2>2, LightestExists
<1>3. /\ need < PagesPerHuge => Best("Aligned2M") = {}
      /\ Best("Aligned2MBig") = {}
  BY DEF Candidates
<1>4. CASE rs[b] >= PagesPerHuge
  <2>1. b \in Heavy("Aligned2MBig")
    BY <1>1, <1>4, EverythingIsAligned DEF SizeList, MemoryRangeToSentinel, IsNull
  <2>2. QED
    BY <1>2, <1>3, <2>1
<1>5. CASE rs[b] < PagesPerHuge
  <2>1. b \in Heavy("Aligned2M")
    BY <1>1, <1>5, EverythingIsAligned DEF SizeList, MemoryRangeToSentinel, IsNull
  <2>2. need < PagesPerHuge
    BY <1>1, <1>5
  <2>3. Best("Aligned2M") = {} /\ Heavy("Aligned2M") # {}
    BY <1>3, <2>1, <2>2
  <2>4. QED
    BY <1>2, <2>3
<1>6. QED
  BY <1>1, <1>4, <1>5

\* Because merging is complete, a run of free pages lies inside one range.
LEMMA RunInOneRange ==
  ASSUME NEW rs, IsRanges(rs), Disjoint(rs), Tight(rs),
         NEW x \in Covered(rs), NEW need \in Nat, Extent(x, need) \subseteq Covered(rs)
  PROVE  \E b \in DOMAIN rs : need <= rs[b]
<1>1. PICK b \in DOMAIN rs : x \in Extent(b, rs[b])
  BY CoveredElement
<1>2. b \in Nat /\ rs[b] \in Nat /\ rs[b] > 0
  BY DEF IsRanges, Tight
<1>3. x \in Nat /\ b <= x /\ x < b + rs[b]
  BY <1>1, <1>2, ExtentElement
<1> DEFINE e == b + rs[b]
<1>4. CASE x + need <= e
  BY <1>2, <1>3, <1>4
<1>5. CASE ~(x + need <= e)
  <2>1. e \in Extent(x, need)
    BY <1>2, <1>3, <1>5 DEF Extent
  <2>2. PICK c \in DOMAIN rs : e \in Extent(c, rs[c])
    BY <2>1, CoveredElement
  <2>3. c \in Nat /\ rs[c] \in Nat /\ c <= e /\ e < c + rs[c]
    BY <2>2, ExtentElement DEF IsRanges
  <2>4. c # e
    BY DEF Tight
  <2>5. c # b
    BY <1>2, <2>3
  <2>6. e - 1 \in Extent(b, rs[b]) /\ e - 1 \in Extent(c, rs[c])
    BY <1>2, <2>3, <2>4 DEF Extent
  <2>7. QED
    BY <2>5, <2>6, DisjointElement
<1>6. QED
  BY <1>4, <1>5

\* The initial states are those of PageAllocator.
LEMMA ImplementsInit == Init => PA!Init
<1> SUFFICES ASSUME Init PROVE PA!Init
  OBVIOUS
<1>1. DOMAIN ranges = {}
  BY DEF Init
<1>2. \A x : x \notin Covered(ranges)
  BY <1>1, CoveredElement
<1>3. QED
  BY <1>2 DEF Init, PA!Init, NoCall, PA!NoCall

\* With exact requests and no page 0 every step is a step of PageAllocator.
LEMMA ImplementsNext ==
  ASSUME ExactModes = {TRUE}, 0 \notin MemPages
  PROVE  ExactInv /\ [Next]_vars => [PA!Next]_PA!vars
<1> SUFFICES ASSUME ExactInv, [Next]_vars PROVE [PA!Next]_PA!vars
  OBVIOUS
<1>1. Accounting /\ Tight(ranges) /\ corrupt = FALSE
  BY DEF ExactInv
<1>2. IsRanges(ranges) /\ Disjoint(ranges)
  BY <1>1, MemoryAssumption DEF Accounting, TypeOK, PagesAccounted, EveryPageOnce, IsRanges
<1>3. ASSUME NEW b \in 0..TopPage, NEW n \in 0..TopPage, InsertNewMemoryRange(b, n)
      PROVE  PA!Insert(b, n)
  <2>1. /\ b \in Nat /\ n \in Nat
        /\ ~Reinitialises(ranges, b, n)
        /\ Extent(b, n) \subseteq held
        /\ ranges' = Inserted(ranges, b, n)
        /\ out' = NoCall
    BY <1>3, MemoryAssumption DEF InsertNewMemoryRange
  <2>2. held \subseteq MemPages /\ held \cap Covered(ranges) = {}
    BY <1>1 DEF Accounting, TypeOK, PagesAccounted, EveryPageOnce
  <2>3. Covered(ranges') = Covered(ranges) \cup Extent(b, n)
    BY <1>2, <2>1, <2>2, InsertedLemma
  <2>4. QED
    BY <2>1, <2>2, <2>3 DEF PA!Insert, PA!Extent, Extent, PA!NoCall, NoCall
<1>4. ASSUME NEW need \in Requests, NEW exact \in ExactModes, AllocatePages(need, exact)
      PROVE  PA!Grant(need)
  <2>1. exact = TRUE /\ need \in Nat
    BY CallerAssumption
  <2>2. PICK best \in Candidates(ranges, need, TRUE) :
          LET pages == Taken(ranges, best, need)
              begin == best + (ranges[best] - pages)
          IN  /\ ranges' = Remaining(ranges, best, need)
              /\ out' = [need |-> need, exact |-> TRUE, ok |-> TRUE,
                         begin |-> begin, pages |-> pages]
    BY <1>4, <2>1 DEF AllocatePages
  <2>3. best \in DOMAIN ranges /\ ranges[best] >= need
    BY CandidatesAreListed, ExactCandidates
  <2>4. best \in Nat /\ ranges[best] \in Nat
    BY <1>2, <2>3 DEF IsRanges
  <2>5. Taken(ranges, best, need) = need
    BY <2>1, <2>3, <2>4 DEF Taken
  <2> DEFINE begin == best + (ranges[best] - need)
  <2>6. /\ Covered(ranges') = Covered(ranges) \ Extent(begin, need)
        /\ Extent(begin, need) \subseteq Covered(ranges)
    BY <1>2, <2>1, <2>2, <2>3, <2>5, RemainingLemma
  <2>7. out' = [need |-> need, exact |-> TRUE, ok |-> TRUE, begin |-> begin, pages |-> need]
    BY <2>2, <2>5
  <2>8. begin \in 0..TopPage
    <3>1. best + ranges[best] \in 0..TopPage
      BY <1>1, <1>2, <2>3, RangeBounds DEF Accounting, TypeOK, PagesAccounted, EveryPageOnce
    <3>2. QED
      BY <2>1, <2>3, <2>4, <3>1, MemoryAssumption
  <2> HIDE DEF begin
  <2>9. QED
    BY <2>6, <2>7, <2>8 DEF PA!Grant, PA!Extent, Extent
<1>5. ASSUME NEW need \in Requests, NEW exact \in ExactModes, AllocatePagesFails(need, exact)
      PROVE  PA!Refuse(need)
  <2>1. exact = TRUE /\ need \in Nat
    BY CallerAssumption
  <2>2. /\ Candidates(ranges, need, TRUE) = {}
        /\ ranges' = ranges
        /\ out' = [need |-> need, exact |-> TRUE, ok |-> FALSE, begin |-> 0, pages |-> 0]
    BY <1>5, <2>1 DEF AllocatePagesFails
  <2>3. ASSUME NEW x \in Covered(ranges), Extent(x, need) \subseteq Covered(ranges)
        PROVE  FALSE
    <3>1. PICK b \in DOMAIN ranges : need <= ranges[b]
      BY <1>1, <1>2, <2>1, <2>3, RunInOneRange
    <3>2. b # 0
      BY <1>1, FirstPageIsFree DEF Accounting, PagesAccounted, EveryPageOnce
    <3>3. ranges[b] < need /\ ranges[b] \in Nat
      BY <1>2, <2>1, <2>2, <3>2, RefusedMeansShort DEF IsRanges
    <3>4. QED
      BY <2>1, <3>1, <3>3
  <2>4. ~PA!HasRun(need)
    BY <2>3 DEF PA!HasRun, PA!Extent, Extent
  <2>5. Covered(ranges') = Covered(ranges)
    BY <2>2
  <2>6. QED
    BY <2>2, <2>4, <2>5 DEF PA!Refuse
\* The two ways to damage a descriptor are not enabled.
<1>6. ASSUME NEW b \in 0..TopPage, NEW n \in 0..TopPage, InsertOverLinkedNodes(b, n)
      PROVE  FALSE
  <2>1. corrupt' = TRUE
    BY <1>6 DEF InsertOverLinkedNodes
  <2>2. Next
    BY <1>6 DEF Next
  <2>3. QED
    BY <2>1, <2>2, ExactInvNext DEF ExactInv
<1>7. ASSUME OverwriteDescriptor PROVE FALSE
  BY <1>7, <1>1, ExactInvNext DEF ExactInv, OverwriteDescriptor
<1>8. CASE UNCHANGED vars
  BY <1>8 DEF vars, PA!vars
<1>9. CASE Next
  <2>1. PA!Next
    BY <1>3, <1>4, <1>5, <1>6, <1>7, <1>9 DEF Next, PA!Next
  <2>2. QED
    BY <2>1
<1>10. QED
  BY <1>8, <1>9

\* For callers that ask for exact sizes, and a memory map without page 0 (the
\* range there is in no size list), the allocator does what PageAllocator
\* promises: a request is granted with exactly the pages asked for, and it is
\* refused only when no run of that many free pages exists anywhere, however
\* the free pages came to be split and merged.
THEOREM ExactImplementsPageAllocator ==
  ASSUME ExactModes = {TRUE}, 0 \notin MemPages
  PROVE  Spec => ImplementsPageAllocator
<1>1. Spec => []ExactInv
  BY ExactInvInit, ExactInvNext, PTL DEF Spec
<1>2. QED
  BY <1>1, ImplementsInit, ImplementsNext, PTL DEF Spec, ImplementsPageAllocator, PA!Spec

-----------------------------------------------------------------------------
(* A small request that accepts less is served from whatever is free.      *)

\* Some range is the heaviest, if the lengths are bounded.
LEMMA HeaviestExists ==
  ASSUME NEW rs, NEW S, S # {}, NEW top \in Nat, \A b \in S : rs[b] \in 0..top
  PROVE  Heaviest(rs, S) # {}
<1> DEFINE gap == [b \in S |-> top - rs[b]]
<1>1. \A b \in S : gap[b] \in Nat /\ gap[b] = top - rs[b]
  OBVIOUS
<1> HIDE DEF gap
<1>2. PICK b \in S : \A c \in S : gap[b] <= gap[c]
  BY <1>1, LightestExists DEF Lightest
<1>3. \A c \in S : rs[c] <= rs[b]
  BY <1>1, <1>2
<1>4. QED
  BY <1>3 DEF Heaviest

\* A search that need not be exact finds something in a list that has anything.
LEMMA InexactFinds ==
  ASSUME NEW rs, NEW S, S # {}, NEW top \in Nat, \A b \in S : rs[b] \in 0..top, NEW need \in Nat
  PROVE  SkipListBest(rs, S, need, FALSE) # {}
<1> DEFINE heavy == {n \in S : rs[n] >= need}
<1>1. CASE heavy # {}
  <2>1. \A b \in heavy : rs[b] \in Nat
    OBVIOUS
  <2>2. Lightest(rs, heavy) \subseteq SkipListBest(rs, S, need, FALSE)
    BY DEF SkipListBest
  <2> HIDE DEF heavy
  <2>3. QED
    BY <1>1, <2>1, <2>2, LightestExists
<1>2. CASE heavy = {}
  <2>1. Heaviest(rs, S) \subseteq SkipListBest(rs, S, need, FALSE)
    BY <1>2 DEF SkipListBest
  <2>2. QED
    BY <2>1, HeaviestExists
<1>3. QED
  BY <1>1, <1>2

\* A small inexact request is refused only if no range is in a size list.
LEMMA RefusedMeansNothing ==
  ASSUME NEW rs, NEW top \in Nat, DOMAIN rs \subseteq Nat, \A b \in DOMAIN rs : rs[b] \in 0..top,
         NEW need \in Nat, need < PagesPerHuge, Candidates(rs, need, FALSE) = {},
         NEW b \in DOMAIN rs
  PROVE  b = 0
<1> SUFFICES ASSUME b # 0 PROVE FALSE
  OBVIOUS
<1>1. b \in Nat /\ rs[b] \in Nat /\ PagesPerHuge \in Nat
  BY ArchAssumption
<1>2. PICK sentinel \in {"Aligned2M", "Aligned2MBig"} : b \in SizeList(rs, sentinel)
  BY <1>1, EverythingIsAligned DEF SizeList, MemoryRangeToSentinel, IsNull
<1>3. \A c \in SizeList(rs, sentinel) : rs[c] \in 0..top
  BY DEF SizeList
<1>4. SkipListBest(rs, SizeList(rs, sentinel), need, FALSE) # {}
  BY <1>2, <1>3, InexactFinds
<1>5. QED
  BY <1>2, <1>4 DEF Candidates

\* With no page 0 every step keeps what SmallRequestsServed says.
LEMMA ServedNext ==
  ASSUME 0 \notin MemPages
  PROVE  Accounting /\ SmallRequestsServed /\ [Next]_vars => SmallRequestsServed'
<1> SUFFICES ASSUME Accounting, SmallRequestsServed, [Next]_vars PROVE SmallRequestsServed'
  OBVIOUS
<1>1. ASSUME NEW b \in 0..TopPage, NEW n \in 0..TopPage, InsertNewMemoryRange(b, n)
      PROVE  SmallRequestsServed'
  BY <1>1 DEF InsertNewMemoryRange, SmallRequestsServed, NoCall
<1>2. ASSUME NEW b \in 0..TopPage, NEW n \in 0..TopPage, InsertOverLinkedNodes(b, n)
      PROVE  SmallRequestsServed'
  BY <1>2 DEF InsertOverLinkedNodes, SmallRequestsServed, NoCall
<1>3. CASE OverwriteDescriptor
  BY <1>3 DEF OverwriteDescriptor, SmallRequestsServed
<1>4. ASSUME NEW need \in Requests, NEW exact \in ExactModes, AllocatePages(need, exact)
      PROVE  SmallRequestsServed'
  BY <1>4 DEF AllocatePages, SmallRequestsServed
<1>5. ASSUME NEW need \in Requests, NEW exact \in ExactModes, AllocatePagesFails(need, exact)
      PROVE  SmallRequestsServed'
  <2>1. /\ ranges' = ranges /\ need \in Nat /\ Candidates(ranges, need, exact) = {}
        /\ ~corrupt
        /\ out' = [need |-> need, exact |-> exact, ok |-> FALSE, begin |-> 0, pages |-> 0]
    BY <1>5, CallerAssumption DEF AllocatePagesFails
  <2>2. /\ TopPage \in Nat /\ DOMAIN ranges \subseteq Nat
        /\ \A b \in DOMAIN ranges : ranges[b] \in 0..TopPage
    BY MemoryAssumption DEF Accounting, TypeOK
  <2>3. ASSUME exact = FALSE, need < PagesPerHuge, NEW x \in Covered(ranges) PROVE FALSE
    <3>1. PICK b \in DOMAIN ranges : x \in Extent(b, ranges[b])
      BY <2>3, CoveredElement
    <3>2. b = 0
      BY <2>1, <2>2, <2>3, RefusedMeansNothing
    <3>3. 0 \in Extent(b, ranges[b])
      BY <2>2, <3>1, <3>2, ExtentElement
    <3>4. 0 \in MemPages
      BY <2>1, <3>1, <3>3, CoveredElement DEF Accounting, PagesAccounted, EveryPageOnce
    <3>5. QED
      BY <3>4
  <2>4. exact \in BOOLEAN
    BY CallerAssumption
  <2>5. QED
    BY <2>1, <2>3, <2>4 DEF SmallRequestsServed
<1>6. CASE UNCHANGED vars
  BY <1>6 DEF vars, SmallRequestsServed
<1>7. QED
  BY <1>1, <1>2, <1>3, <1>4, <1>5, <1>6 DEF Next

\* On a machine without page 0 in its memory map, AllocatePages refuses a
\* request below a hugepage that accepts less only when no page at all is free,
\* whatever exact and inexact requests came before.
THEOREM SmallRequestsAlwaysServed ==
  ASSUME 0 \notin MemPages
  PROVE  Spec => []SmallRequestsServed
<1>1. Init => SmallRequestsServed
  BY DEF Init, SmallRequestsServed, NoCall
<1>2. QED
  BY <1>1, AccountingInit, AccountingNext, ServedNext, PTL DEF Spec

-----------------------------------------------------------------------------
(* The range at page 0.                                                    *)

\* The range at page 0 is listed, with rs[0] pages, in new as in rs.
KeepsNull(rs, new) == 0 \in DOMAIN new /\ new[0] = rs[0]

\* TryMergeMemoryRangesWithPrev takes the range at page 0 for no range.
LEMMA TryMergeKeepsNull ==
  ASSUME NEW rs, 0 \in DOMAIN rs, NEW b
  PROVE  KeepsNull(rs, TryMergeMemoryRangesWithPrev(rs, b))
<1>1. CASE MergeTargets(rs, b) = {}
  BY <1>1 DEF TryMergeMemoryRangesWithPrev, KeepsNull
<1>2. CASE MergeTargets(rs, b) # {}
  <2> DEFINE p == CHOOSE p \in MergeTargets(rs, b) : TRUE
  <2>1. p # 0 /\ b # 0
    BY <1>2 DEF MergeTargets, IsNull
  <2>2. TryMergeMemoryRangesWithPrev(rs, b)
          = MemoryRangeRemove(SetMemoryRangePages(rs, p, rs[p] + rs[b]), b)
    BY <1>2 DEF TryMergeMemoryRangesWithPrev
  <2> HIDE DEF p
  <2> QED
    BY <2>1, <2>2 DEF MemoryRangeRemove, SetMemoryRangePages, KeepsNull
<1> QED
  BY <1>1, <1>2

\* An insertion that does not write over linked nodes leaves the range at page 0.
LEMMA InsertedKeepsNull ==
  ASSUME NEW rs, 0 \in DOMAIN rs, NEW b \in Nat, NEW n \in Nat, ~Reinitialises(rs, b, n)
  PROVE  KeepsNull(rs, Inserted(rs, b, n))
<1>1. CASE n = 0
  BY <1>1 DEF Inserted, KeepsNull
<1>2. CASE n # 0
  <2> DEFINE linked == Linked(rs, b, n)
             nexts  == {q \in DOMAIN linked : IsPrev(linked, b, q)}
             nxt    == CHOOSE q \in nexts : TRUE
             merged == IF nexts = {} THEN linked ELSE TryMergeMemoryRangesWithPrev(linked, nxt)
  <2>1. Inserted(rs, b, n) = TryMergeMemoryRangesWithPrev(merged, b)
    BY <1>2, NeverSplits DEF Inserted, NewMemoryRange, Linked
  <2>2. b # 0
    BY <1>2 DEF Reinitialises
  <2>3. KeepsNull(rs, linked)
    BY <2>2 DEF Linked, KeepsNull
  <2> HIDE DEF linked, nxt, nexts
  <2>4. KeepsNull(rs, merged)
    BY <2>3, TryMergeKeepsNull DEF KeepsNull
  <2> QED
    BY <2>1, <2>4, TryMergeKeepsNull DEF KeepsNull
<1> QED
  BY <1>1, <1>2

\* The range at page 0 is in no size list, so that no search returns it.
LEMMA NullIsNoCandidate ==
  ASSUME NEW rs, NEW need, NEW exact
  PROVE  0 \notin Candidates(rs, need, exact)
<1>1. \A sentinel \in {"Unaligned2M", "Aligned2M", "Aligned2MBig"} :
        0 \notin SkipListBest(rs, SizeList(rs, sentinel), need, exact)
  BY DEF SkipListBest, Lightest, Heaviest, SizeList, MemoryRangeToSentinel, IsNull
<1> QED
  BY <1>1 DEF Candidates

\* A region that is inserted at page 0 is lost: its descriptor is the NULL pointer,
\* and whatever callers insert and request afterwards, the range is never
\* allocated from, merged or removed as long as no linked descriptor is
\* overwritten, although NewMemoryRange "inserts it in corresponding Skip-Lists"
\* (MemoryRange.c:66).
THEOREM NullRangeNeverUsed ==
  Spec => [][0 \in DOMAIN ranges /\ ~corrupt' =>
               0 \in DOMAIN ranges' /\ ranges'[0] = ranges[0]]_vars
<1>1. ASSUME [Next]_vars, 0 \in DOMAIN ranges, ~corrupt'
      PROVE  0 \in DOMAIN ranges' /\ ranges'[0] = ranges[0]
  <2>1. CASE UNCHANGED ranges
    BY <1>1, <2>1
  <2>2. CASE \E b, n \in 0..TopPage : InsertNewMemoryRange(b, n)
    <3>1. PICK b \in 0..TopPage, n \in 0..TopPage : InsertNewMemoryRange(b, n)
      BY <2>2
    <3>2. b \in Nat /\ n \in Nat
      BY MemoryAssumption
    <3> QED
      BY <1>1, <3>1, <3>2, InsertedKeepsNull DEF InsertNewMemoryRange, KeepsNull
  <2>3. CASE \E need \in Requests, exact \in ExactModes : AllocatePages(need, exact)
    <3>1. PICK need \in Requests, exact \in ExactModes : AllocatePages(need, exact)
      BY <2>3
    <3>2. PICK best \in Candidates(ranges, need, exact) : ranges' = Remaining(ranges, best, need)
      BY <3>1 DEF AllocatePages
    <3>3. best # 0
      BY NullIsNoCandidate
    <3> QED
      BY <1>1, <3>2, <3>3 DEF Remaining, MemoryRangeRemove, SetMemoryRangePages
  <2> QED
    BY <1>1, <2>1, <2>2, <2>3
       DEF Next, InsertOverLinkedNodes, OverwriteDescriptor, AllocatePagesFails, vars
<1> QED
  BY <1>1, PTL DEF Spec
=============================================================================
