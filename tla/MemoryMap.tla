----------------------------- MODULE MemoryMap -----------------------------
(***************************************************************************)
(* The iterator of kernel/memman/MemoryMap.c over the memory map that the  *)
(* loader passes to the kernel.  An entry is known by its index; index 0   *)
(* stands for the null pointer.  Addresses are bytes, modulo AddressSpace. *)
(***************************************************************************)
EXTENDS Integers, Sequences, FiniteSetsExt

CONSTANTS PageSize,       \* PAGE_SIZE (4096 in the code)
          AddressSpace    \* 2^64

ASSUME MapAssumption == PageSize \in Nat \ {0} /\ AddressSpace \in Nat \ {0}

\* The lowest bit of the type, which is all that the loader sets.
IsMemoryEntryAvailable(e) == e.type % 2 = 1

\* Mutant of NextMemoryEntryWithin: an entry that ends where the region begins
\* counts as well.
NextMemoryEntryWithinTouching(begin, length, map, cur) ==
  LET end == (begin + length) % AddressSpace
      EntryEnd(e) == (e.begin + e.pages * PageSize) % AddressSpace
      rest == {k \in (cur + 1)..Len(map) :
                 /\ IsMemoryEntryAvailable(map[k])
                 /\ ~(map[k].begin >= end \/ EntryEnd(map[k]) < begin)}
  IN  IF rest = {} THEN 0 ELSE Min(rest)

\* Mutant of NextMemoryEntryWithin: the search starts at *cur.
NextMemoryEntryWithinAgain(begin, length, map, cur) ==
  LET end == (begin + length) % AddressSpace
      EntryEnd(e) == (e.begin + e.pages * PageSize) % AddressSpace
      rest == {k \in (IF cur = 0 THEN 1 ELSE cur)..Len(map) :
                 /\ IsMemoryEntryAvailable(map[k])
                 /\ ~(map[k].begin >= end \/ EntryEnd(map[k]) <= begin)}
  IN  IF rest = {} THEN 0 ELSE Min(rest)

\* The next available entry behind cur that overlaps the region; the result is
\* also the new *cur, so that the loop starts over after the last one.
NextMemoryEntryWithin(begin, length, map, cur) ==
  LET end == (begin + length) % AddressSpace
      EntryEnd(e) == (e.begin + e.pages * PageSize) % AddressSpace
      rest == {k \in (cur + 1)..Len(map) :
                 /\ IsMemoryEntryAvailable(map[k])
                 /\ ~(map[k].begin >= end \/ EntryEnd(map[k]) <= begin)}
  IN  IF rest = {} THEN 0 ELSE Min(rest)
=============================================================================
