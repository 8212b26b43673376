---------------------------- MODULE MemoryRange ----------------------------
(***************************************************************************)
(* The page allocator of kernel/memman/MemoryRange.c.                      *)
(*                                                                         *)
(* Free memory is a set of ranges, each a run of contiguous pages whose    *)
(* descriptor (MemoryRange, two SkipList nodes) is stored in the range's   *)
(* own first page.  All ranges are in the address list Addr; each is also  *)
(* in one of three size lists, picked by alignment and size (the range at  *)
(* page 0, whose pointer is NULL, in none).  A range is                    *)
(* identified by the number of its first page; addresses are page numbers, *)
(* and byte addresses (page number times PageSize) appear only where the   *)
(* code computes with HUGEPAGE_SIZE.                                       *)
(*                                                                         *)
(* The lists are modelled by what they hold (module SkipList models the    *)
(* nodes and links): Addr is DOMAIN ranges ordered by page number, and the *)
(* size list of a range is a function of its first page and its length,    *)
(* because SetMemoryRangePages moves the range whenever the length changes *)
(* and the first page never changes after NewMemoryRange.                  *)
(***************************************************************************)
EXTENDS BestFit

CONSTANTS MemPages,      \* the page numbers of the machine's memory map
          TopPage,       \* no page number lies above TopPage
          PageSize,      \* PAGE_SIZE (4096 in the code)
          PagesPerHuge,  \* PAGES_PER_HUGEPAGE (512 in the code)
          Requests,      \* the values of pagesNeed that callers pass
          ExactModes     \* the values of exact that callers pass

ASSUME MemoryAssumption == TopPage \in Nat /\ MemPages \subseteq 0..(TopPage - 1)

\* 4096 and 512 satisfy this; the divisibility is what makes the macro
\* HUGEPAGE_SIZE, used without parentheses after %, degenerate (HugeRemainder).
ASSUME ArchAssumption ==
  /\ PageSize \in Nat \ {0}
  /\ PagesPerHuge \in Nat \ {0}
  /\ PageSize % PagesPerHuge = 0

ASSUME CallerAssumption == Requests \subseteq Nat /\ ExactModes \subseteq BOOLEAN

VARIABLES ranges,   \* first page -> number of pages, for every listed range
          held,     \* the pages that callers own: not yet inserted, or allocated
          out,      \* arguments and results of the last AllocatePages
          corrupt   \* a descriptor that is still linked has been overwritten

vars == <<ranges, held, out, corrupt>>

Extent(b, n) == b .. (b + n - 1)

Covered(rs) == UNION {Extent(b, rs[b]) : b \in DOMAIN rs}

-----------------------------------------------------------------------------
(* Alignment and classification.                                           *)

\* begin % HUGEPAGE_SIZE.  The macro expands to PAGES_PER_HUGEPAGE * PAGE_SIZE
\* without parentheses, so that C computes (begin % 512) * 4096.
HugeRemainder(b) == ((b * PageSize) % PagesPerHuge) * PageSize

Aligned(b) == HugeRemainder(b) = 0

\* A descriptor's address is its range's first byte, so that the pointer to the
\* range at page 0 is NULL, and the code takes it for no range.
IsNull(b) == b = 0

MemoryRangeToSentinel(b, n) ==
  IF IsNull(b) THEN "NULL"
  ELSE IF ~Aligned(b) THEN "Unaligned2M"
  ELSE IF n >= PagesPerHuge THEN "Aligned2MBig" ELSE "Aligned2M"

SizeList(rs, sentinel) ==
  {b \in DOMAIN rs : MemoryRangeToSentinel(b, rs[b]) = sentinel}

-----------------------------------------------------------------------------
(* Inserting and merging.                                                  *)

\* p is the range before b in the address list.
IsPrev(rs, p, b) ==
  /\ p \in DOMAIN rs
  /\ p < b
  /\ \A q \in DOMAIN rs : q < b => q <= p

\* SetMemoryRangePages: the length changes, and with it the size list (none if
\* MemoryRangeToSentinel is NULL: SkipListInsert then returns).
SetMemoryRangePages(rs, b, n) == [rs EXCEPT ![b] = n]

\* Mutant of MemoryRangeRemove: the range stays linked.
MemoryRangeRemoveKeepsRange(rs, b) == rs

\* MemoryRangeRemove: the range leaves both its lists.
MemoryRangeRemove(rs, b) == [q \in DOMAIN rs \ {b} |-> rs[q]]

\* The previous ranges that b is merged into (at most one): adjacent to b, and
\* not an unaligned range before an aligned one.
MergeTargets(rs, b) ==
  {p \in DOMAIN rs : /\ IsPrev(rs, p, b)
                     /\ ~IsNull(b) /\ ~IsNull(p)
                     /\ p + rs[p] = b
                     /\ ~(~Aligned(p) /\ Aligned(b))}

TryMergeMemoryRangesWithPrev(rs, b) ==
  IF MergeTargets(rs, b) = {}
  THEN rs
  ELSE LET p == CHOOSE p \in MergeTargets(rs, b) : TRUE
       IN  MemoryRangeRemove(SetMemoryRangePages(rs, p, rs[p] + rs[b]), b)

\* Mutant of NewMemoryRange: the next range is not merged into the new one.
NewMemoryRangeMergesPrevOnly(rs, b, n) ==
  TryMergeMemoryRangesWithPrev([q \in DOMAIN rs \cup {b} |-> IF q = b THEN n ELSE rs[q]], b)

\* Links a range in both lists, then merges the next range into it and it into
\* the previous one.
NewMemoryRange(rs, b, n) ==
  LET linked == [q \in DOMAIN rs \cup {b} |-> IF q = b THEN n ELSE rs[q]]
      nexts  == {q \in DOMAIN linked : IsPrev(linked, b, q)}
      merged == IF nexts = {} THEN linked
                ELSE TryMergeMemoryRangesWithPrev(linked, CHOOSE q \in nexts : TRUE)
  IN  TryMergeMemoryRangesWithPrev(merged, b)

\* pagesToSplit: pages up to the next hugepage boundary, as the code computes it.
PagesToSplit(b) == (PagesPerHuge * PageSize - HugeRemainder(b)) \div PageSize

Splits(b, n) == PagesToSplit(b) % PagesPerHuge # 0 /\ PagesToSplit(b) < n

\* The ranges after InsertNewMemoryRange; a region is cut at the boundary.
Inserted(rs, b, n) ==
  IF n = 0 THEN rs
  ELSE IF Splits(b, n)
  THEN LET s == PagesToSplit(b)
       IN  NewMemoryRange(NewMemoryRange(rs, b, s), b + s, n - s)
  ELSE NewMemoryRange(rs, b, n)

\* NewMemoryRange initialises the nodes in the region's first page without
\* looking whether nodes that are still linked live there.
Reinitialises(rs, b, n) ==
  /\ n > 0
  /\ \/ b \in DOMAIN rs
     \/ /\ Splits(b, n)
        /\ b + PagesToSplit(b) \in DOMAIN NewMemoryRange(rs, b, PagesToSplit(b))

-----------------------------------------------------------------------------
(* Best fit (BestFit says which range SkipListBest may return).            *)

\* Mutant of Candidates: a small request does not fall through to the big ranges.
CandidatesOwnListsOnly(rs, need, exact) ==
  LET Best(sentinel) == SkipListBest(rs, SizeList(rs, sentinel), need, exact)
  IN  IF need >= PagesPerHuge THEN Best("Aligned2MBig")
      ELSE IF Best("Unaligned2M") # {} THEN Best("Unaligned2M") ELSE Best("Aligned2M")

\* The lists AllocatePages tries, in order, for a request of a given size.
Candidates(rs, need, exact) ==
  LET Best(sentinel) == SkipListBest(rs, SizeList(rs, sentinel), need, exact)
  IN  IF need < PagesPerHuge /\ Best("Unaligned2M") # {} THEN Best("Unaligned2M")
      ELSE IF need < PagesPerHuge /\ Best("Aligned2M") # {} THEN Best("Aligned2M")
      ELSE Best("Aligned2MBig")

\* Mutant of Taken: the request is not cut down to the range's length.
TakenUncut(rs, best, need) == need

\* *pages
Taken(rs, best, need) == IF rs[best] < need THEN rs[best] ELSE need

\* Mutant of Remaining: a range used up completely stays listed.
RemainingKeepsEmpty(rs, best, need) ==
  SetMemoryRangePages(rs, best, rs[best] - Taken(rs, best, need))

\* The ranges after AllocatePagesFromList took pages from the end of best.
Remaining(rs, best, need) ==
  IF rs[best] = need
  THEN MemoryRangeRemove(rs, best)
  ELSE SetMemoryRangePages(rs, best, rs[best] - Taken(rs, best, need))

-----------------------------------------------------------------------------
(* The state machine.                                                      *)

NoCall == [need |-> 0, exact |-> FALSE, ok |-> FALSE, begin |-> 0, pages |-> 0]

\* At boot no range is listed and all memory is still the boot code's.
Init ==
  /\ ranges = [b \in {} |-> 0]
  /\ held = MemPages
  /\ out = NoCall
  /\ corrupt = FALSE

\* A caller gives pages it owns to the allocator: memory-map entries at boot,
\* allocated pages later (the repository has no other way to free pages).
InsertNewMemoryRange(b, n) ==
  /\ ~corrupt
  /\ Extent(b, n) \subseteq held
  /\ ~Reinitialises(ranges, b, n)
  /\ ranges' = Inserted(ranges, b, n)
  /\ held' = held \ Extent(b, n)
  /\ out' = NoCall
  /\ UNCHANGED corrupt

\* The same call when the region's first page carries nodes that are linked:
\* they are zeroed in place and linked again, and the lists lose whatever was
\* reached through them.  How much that is depends on the heights of the nodes,
\* and a node may come to follow itself: any of the other ranges may be lost.
\* What the lists do from here on is not followed.
InsertOverLinkedNodes(b, n) ==
  /\ ~corrupt
  /\ Extent(b, n) \subseteq held
  /\ Reinitialises(ranges, b, n)
  /\ \E kept \in SUBSET (DOMAIN ranges \ {b}) :
       ranges' = [q \in kept \cup {b} |-> IF q = b THEN n ELSE ranges[q]]
  /\ held' = held \ Extent(b, n)
  /\ out' = NoCall
  /\ corrupt' = TRUE

\* A caller writes to a page it owns and destroys a descriptor stored there.
OverwriteDescriptor ==
  /\ ~corrupt
  /\ DOMAIN ranges \cap held # {}
  /\ corrupt' = TRUE
  /\ UNCHANGED <<ranges, held, out>>

AllocatePages(need, exact) ==
  /\ ~corrupt
  /\ \E best \in Candidates(ranges, need, exact) :
       LET pages == Taken(ranges, best, need)
           begin == best + (ranges[best] - pages)
       IN  /\ ranges' = Remaining(ranges, best, need)
           /\ held' = held \cup Extent(begin, pages)
           /\ out' = [need |-> need, exact |-> exact, ok |-> TRUE,
                      begin |-> begin, pages |-> pages]
  /\ UNCHANGED corrupt

AllocatePagesFails(need, exact) ==
  /\ ~corrupt
  /\ Candidates(ranges, need, exact) = {}
  /\ out' = [need |-> need, exact |-> exact, ok |-> FALSE, begin |-> 0, pages |-> 0]
  /\ UNCHANGED <<ranges, held, corrupt>>

Next ==
  \/ \E b, n \in 0..TopPage : InsertNewMemoryRange(b, n) \/ InsertOverLinkedNodes(b, n)
  \/ OverwriteDescriptor
  \/ \E need \in Requests, exact \in ExactModes :
       AllocatePages(need, exact) \/ AllocatePagesFails(need, exact)

Spec == Init /\ [][Next]_vars

-----------------------------------------------------------------------------
(* Properties.                                                             *)

\* The type of the state.
TypeOK ==
  /\ DOMAIN ranges \subseteq 0..TopPage
  /\ ranges \in [DOMAIN ranges -> 0..TopPage]
  /\ held \subseteq MemPages
  /\ out \in [need : Nat, exact : BOOLEAN, ok : BOOLEAN, begin : 0..TopPage, pages : 0..TopPage]
  /\ corrupt \in BOOLEAN

Disjoint(rs) ==
  \A p, q \in DOMAIN rs : p # q => Extent(p, rs[p]) \cap Extent(q, rs[q]) = {}

\* The listed ranges do not overlap, and the memory map is exactly the listed
\* pages plus the pages that callers own.
EveryPageOnce ==
  /\ Disjoint(ranges)
  /\ Covered(ranges) \cap held = {}
  /\ Covered(ranges) \cup held = MemPages

\* As long as no linked descriptor has been overwritten, no page is lost and no
\* page is handed out twice: in whatever order callers insert and allocate,
\* exactly or not, and ranges split and merge.  (With inexact requests
\* descriptors can be overwritten, and pages are then lost: DescriptorsSafe.)
PagesAccounted == ~corrupt => EveryPageOnce

\* The two merges of NewMemoryRange are enough ("there can be no cascade
\* merging", MemoryRange.c:99): no listed range ever ends where another one
\* that it could be merged with begins, also after allocations in between.
Coalesced ==
  \A b \in DOMAIN ranges : MergeTargets(ranges, b) = {}

\* The descriptor of a listed range stays in memory that no caller owns, and
\* so no caller and no later insertion overwrites it.
DescriptorsSafe == ~corrupt /\ DOMAIN ranges \cap held = {}

\* A request below a hugepage that accepts less is refused only when nothing at
\* all is free ("Function may return less memory than requested").  Served it may
\* be with no pages at all, by a range that an inexact request left at length 0.
SmallRequestsServed ==
  (~out.ok /\ ~out.exact /\ 0 < out.need /\ out.need < PagesPerHuge) => Covered(ranges) = {}

\* AllocatePages for an exact size keeps the promises of PageAllocator.
PA == INSTANCE PageAllocator WITH avail <- Covered(ranges)

ImplementsPageAllocator == PA!Spec
=============================================================================
