--------------------------- MODULE MCMemoryRange ---------------------------
(***************************************************************************)
(* MemoryRange on a small machine: pages 1 to 8 with a hole at page 5 (a   *)
(* reserved entry of the memory map), hugepages of three pages, and a      *)
(* PageSize that PagesPerHuge divides, as 512 divides 4096.  Requests run  *)
(* from 0 over the hugepage size to more than any free run.                *)
(***************************************************************************)
EXTENDS MemoryRange

MCTopPage == 9
MCMemPages == (1..4) \cup (6..8)
MCPageSize == 6
MCPagesPerHuge == 3
MCRequests == 0..5
=============================================================================
