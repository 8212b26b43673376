------------------------------ MODULE Heapsort ------------------------------
(***************************************************************************)
(* kernel/utils/Heapsort.c on arrays of numbers that the caller compares   *)
(* with < (external).  Elements are known by their index, from 0.  Node i  *)
(* of the heap has the children 2i and 2i+1: the root, 0, has 1 as its     *)
(* only child, and what is behind it is a binary heap rooted at 1.         *)
(***************************************************************************)
EXTENDS Integers, FiniteSets

LOCAL INSTANCE SequencesExt

CONSTANTS MaxCount,   \* the length of the longest array
          Values      \* the numbers its elements may be

VARIABLES trg,        \* the array, a function from indices
          sorted      \* Heapsort has returned

vars == <<trg, sorted>>

cmp(a, b) == a < b

swap(a, i, j) == [a EXCEPT ![i] = a[j], ![j] = a[i]]

\* The first count elements take part.  Each call is for a larger index: the
\* only node that is its own child is the root.
RECURSIVE Heapify(_, _, _)
Heapify(a, id, count) ==
  LET left == id * 2
      right == id * 2 + 1
      l == IF left < count /\ cmp(a[id], a[left]) THEN left ELSE id
      largest == IF right < count /\ cmp(a[l], a[right]) THEN right ELSE l
  IN  IF largest = id THEN a ELSE Heapify(swap(a, id, largest), largest, count)

\* The first loop: the nodes of the first half, from the root on.
Build(a, count) ==
  FoldLeft(LAMBDA b, k : Heapify(b, k - 1, count), a, [k \in 1..(count \div 2) |-> k])

\* The second loop: from the last element to the first, each changes places with
\* the root, which then sinks among those in front of it.
Extract(a, count) ==
  FoldLeft(LAMBDA b, i : Heapify(swap(b, 0, i), 0, i), a, [k \in 1..count |-> count - k])

Init ==
  /\ trg \in UNION {[0..(n - 1) -> Values] : n \in 0..MaxCount}
  /\ sorted = FALSE

Sort ==
  /\ ~sorted
  /\ LET count == Cardinality(DOMAIN trg)
     IN  trg' = Extract(Build(trg, count), count)
  /\ sorted' = TRUE

Next == Sort

Spec == Init /\ [][Next]_vars

-----------------------------------------------------------------------------
(* Properties.                                                             *)

\* What the name and the header of the file say ("Generic OS Heapsort
\* implementation", Heapsort.c:2): afterwards no element is larger than one
\* behind it.
SortsArray == sorted => \A i, j \in DOMAIN trg : i < j => ~cmp(trg[j], trg[i])
=============================================================================
