---------------------------- MODULE SortedLists ----------------------------
(***************************************************************************)
(* What kernel/memman/SkipList.c promises its callers: each sentinel       *)
(* stands for a sequence of nodes in ascending order of weight, a node     *)
(* enters before the first one that is not lighter, it leaves without      *)
(* disturbing the others, and a search answers what BestFit allows.        *)
(* Nothing is said of links, levels and heights: SkipList implements this. *)
(***************************************************************************)
EXTENDS BestFit, SequencesExt

CONSTANTS Nodes,       \* the nodes that callers own
          Sentinels,   \* one for each list
          NULL,        \* the null pointer
          Weights,     \* the weights that callers give to nodes
          Requests     \* the weights that callers search for

VARIABLES lists,       \* sentinel -> the sequence of its nodes
          weight,      \* node -> its weight
          ret          \* arguments and answer of the last search

vars == <<lists, weight, ret>>

Elements(s) == {lists[s][k] : k \in DOMAIN lists[s]}

NoResult == [sentinel |-> NULL, weight |-> 0, exact |-> FALSE, node |-> NULL]

\* The lists without n, which is in one of them or in none.
Without(n) ==
  [s \in Sentinels |->
     IF n \in Elements(s)
     THEN RemoveAt(lists[s], CHOOSE k \in DOMAIN lists[s] : lists[s][k] = n)
     ELSE lists[s]]

Init ==
  /\ lists = [s \in Sentinels |-> <<>>]
  /\ weight = [n \in Nodes |-> 0]
  /\ ret = NoResult

\* A node is given a weight; if it is in a list, it leaves that list.
SetWeight(n, w) ==
  /\ weight' = [weight EXCEPT ![n] = w]
  /\ lists' = Without(n)
  /\ ret' = NoResult

\* A node enters behind the lighter ones and before all others.
InsertNode(s, n) ==
  /\ \A t \in Sentinels : n \notin Elements(t)
  /\ \E k \in 1..(Len(lists[s]) + 1) :
       /\ \A j \in DOMAIN lists[s] : weight[lists[s][j]] < weight[n] <=> j < k
       /\ lists' = [lists EXCEPT ![s] = InsertAt(@, k, n)]
  /\ ret' = NoResult
  /\ UNCHANGED weight

RemoveNode(n) ==
  /\ \E s \in Sentinels : n \in Elements(s)
  /\ lists' = Without(n)
  /\ ret' = NoResult
  /\ UNCHANGED weight

\* A search starts.
Forget ==
  /\ ret' = NoResult
  /\ UNCHANGED <<lists, weight>>

Best(s, w, exact) ==
  LET fitting == SkipListBest(weight, Elements(s), w, exact)
  IN  /\ \E n \in (IF fitting = {} THEN {NULL} ELSE fitting) :
           ret' = [sentinel |-> s, weight |-> w, exact |-> exact, node |-> n]
      /\ UNCHANGED <<lists, weight>>

Next ==
  \/ \E n \in Nodes, w \in Weights \cup {0} : SetWeight(n, w)
  \/ \E n \in Nodes, s \in Sentinels : InsertNode(s, n)
  \/ \E n \in Nodes : RemoveNode(n)
  \/ Forget
  \/ \E s \in Sentinels, w \in Requests, exact \in BOOLEAN : Best(s, w, exact)

Spec == Init /\ [][Next]_vars
=============================================================================
