--------------------------- MODULE PageAllocator ---------------------------
(***************************************************************************)
(* What the page allocator of kernel/memman/MemoryRange.c promises a       *)
(* caller that asks for an exact number of pages: pages put in with        *)
(* InsertNewMemoryRange become available, AllocatePages hands out a run of *)
(* contiguous available pages of exactly the size asked for, and it        *)
(* refuses only when no such run exists.  Nothing is said of ranges,       *)
(* lists, merging or best fit: MemoryRange implements this specification.  *)
(***************************************************************************)
EXTENDS Naturals

CONSTANTS MemPages,      \* the page numbers of the machine's memory map
          TopPage,       \* no page number lies above TopPage
          Requests       \* the sizes, in pages, that callers ask for

VARIABLES avail,         \* the pages the allocator may hand out
          out            \* arguments and results of the last AllocatePages

vars == <<avail, out>>

Extent(b, n) == b .. (b + n - 1)

\* There is a run of n contiguous pages to hand out (for n = 0: any page).
HasRun(n) == \E b \in avail : Extent(b, n) \subseteq avail

NoCall == [need |-> 0, exact |-> FALSE, ok |-> FALSE, begin |-> 0, pages |-> 0]

Init ==
  /\ avail = {}
  /\ out = NoCall

Insert(b, n) ==
  /\ Extent(b, n) \subseteq MemPages \ avail
  /\ avail' = avail \cup Extent(b, n)
  /\ out' = NoCall

Grant(need) ==
  \E b \in 0..TopPage :
    /\ Extent(b, need) \subseteq avail
    /\ avail' = avail \ Extent(b, need)
    /\ out' = [need |-> need, exact |-> TRUE, ok |-> TRUE, begin |-> b, pages |-> need]

Refuse(need) ==
  /\ ~HasRun(need)
  /\ avail' = avail
  /\ out' = [need |-> need, exact |-> TRUE, ok |-> FALSE, begin |-> 0, pages |-> 0]

Next ==
  \/ \E b, n \in 0..TopPage : Insert(b, n)
  \/ \E need \in Requests : Grant(need) \/ Refuse(need)

Spec == Init /\ [][Next]_vars
=============================================================================
