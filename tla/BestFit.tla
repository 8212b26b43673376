------------------------------ MODULE BestFit ------------------------------
(***************************************************************************)
(* What a best-fit search of kernel/memman/SkipList.c may answer, as a     *)
(* function of the weights of the listed elements alone.  SkipList shows   *)
(* that the search over the links answers one of these; MemoryRange        *)
(* allocates from any of them.                                             *)
(***************************************************************************)
EXTENDS Integers

Lightest(weight, S) == {n \in S : \A m \in S : weight[n] <= weight[m]}
Heaviest(weight, S) == {n \in S : \A m \in S : weight[m] <= weight[n]}

\* Mutant of SkipListBest: an element of exactly the weight asked for is passed
\* over.
SkipListBestStrict(weight, S, need, exact) ==
  LET heavy == {n \in S : weight[n] > need}
  IN  Lightest(weight, heavy) \cup (IF exact THEN {} ELSE Heaviest(weight, S \ heavy))

\* What SkipListBest can return from a list with elements S, for some heights of
\* its nodes: the lightest sufficient element and, unless exact, the heaviest
\* insufficient one if it is closer.  The first stays possible then: the skip
\* over light elements on the upper levels may end on the closer one, and the
\* scan of level 0 starts behind it.
SkipListBest(weight, S, need, exact) ==
  LET heavy == {n \in S : weight[n] >= need}
      near  == {n \in Heaviest(weight, S \ heavy) :
                  \A h \in heavy : need - weight[n] < weight[h] - need}
  IN  Lightest(weight, heavy) \cup (IF exact THEN {} ELSE near)
=============================================================================
