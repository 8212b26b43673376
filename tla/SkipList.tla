------------------------------ MODULE SkipList ------------------------------
(***************************************************************************)
(* The skip lists of kernel/memman/SkipList.c, with their links.           *)
(*                                                                         *)
(* A node has a Next and a Prev pointer on each of MaxLevels levels and no *)
(* stored height: its height is the first level with a NULL Prev.  Above   *)
(* that level its pointers keep whatever an earlier insertion left there.  *)
(* Callers (MemoryRange.c) initialise a node, give it a weight and put it  *)
(* in a list, move it when its weight changes, remove it and search.  The  *)
(* loops over a list take one step per iteration; the loops over the       *)
(* levels of one node, whose iterations touch different levels, are a      *)
(* single step.                                                            *)
(***************************************************************************)
EXTENDS BestFit, Sequences, FiniteSets, Functions

CONSTANTS Nodes,       \* the nodes that callers own
          Sentinels,   \* the list heads (Addr and the three size lists)
          NULL,        \* the null pointer
          MaxLevels,   \* SKIPLIST_MAX_LEVELS (7 in the code)
          Weights,     \* the weights that callers give to nodes
          Requests,    \* the weights that callers search for
          SizeMax      \* SIZE_MAX

ASSUME NodesAssumption ==
  /\ IsFiniteSet(Nodes)
  /\ Nodes \cap Sentinels = {}
  /\ NULL \notin Nodes \cup Sentinels

ASSUME SizesAssumption ==
  /\ MaxLevels \in Nat \ {0}
  /\ SizeMax \in Nat
  /\ Weights \cup Requests \subseteq 0..SizeMax

VARIABLES weight,      \* node -> Weight
          next,        \* node or sentinel -> level -> Next[level]
          prev,        \* node or sentinel -> level -> Prev[level]
          owner,       \* node -> the list its caller put it in, or NULL
          fresh,       \* the nodes initialised and not yet put in a list
          pc,          \* the loop that is running
          call,        \* the arguments of the running call
          cur,         \* the loops' variable node
          level,       \* the loops' variable i
          path,        \* SkipListFindPrevs' result
          weightDiff,  \* SkipListBest's variable
          ret          \* arguments and result of the last SkipListBest

links == <<next, prev>>
vars == <<weight, next, prev, owner, fresh, pc, call, cur, level, path, weightDiff, ret>>

Levels == 0..(MaxLevels - 1)
Cells == Nodes \cup Sentinels
NoLinks == [i \in Levels |-> NULL]
NoCall == [sentinel |-> NULL, node |-> NULL, height |-> 0, weight |-> 0, exact |-> FALSE]
NoResult == [sentinel |-> NULL, weight |-> 0, exact |-> FALSE, node |-> NULL]

\* i < SkipListNodeHeight(n): no Prev pointer is NULL up to level i.
BelowHeight(n, i) == \A j \in 0..i : prev[n][j] # NULL

-----------------------------------------------------------------------------
(* The updates of the links.                                               *)

\* Mutant of SkipListRemove: the next node's Prev pointer is not updated.
SkipListRemoveKeepsPrev(n) ==
  /\ next' = [x \in Cells |-> [i \in Levels |->
                IF BelowHeight(n, i) /\ x = prev[n][i] THEN next[n][i] ELSE next[x][i]]]
  /\ UNCHANGED prev

\* SkipListRemove: on each level below its height the neighbours of n are linked
\* to each other.  The pointers of n itself stay.
SkipListRemove(n) ==
  /\ next' = [x \in Cells |-> [i \in Levels |->
                IF BelowHeight(n, i) /\ x = prev[n][i] THEN next[n][i] ELSE next[x][i]]]
  /\ prev' = [x \in Cells |-> [i \in Levels |->
                IF BelowHeight(n, i) /\ x = next[n][i] THEN prev[n][i] ELSE prev[x][i]]]

\* Mutant of SkipListInsertAfter: the level above the height is not cleared.
SkipListInsertAfterUnmarked(n, h) ==
  LET after == [i \in Levels |-> next[path[i]][i]]
  IN  /\ next' = [x \in Cells |-> [i \in Levels |->
                    IF x = n THEN (IF i < h THEN after[i] ELSE next[n][i])
                    ELSE IF i < h /\ x = path[i] THEN n ELSE next[x][i]]]
      /\ prev' = [x \in Cells |-> [i \in Levels |->
                    IF x = n THEN (IF i < h THEN path[i] ELSE prev[n][i])
                    ELSE IF i < h /\ x = after[i] THEN n ELSE prev[x][i]]]

\* SkipListInsertAfter: n goes behind path[i] on the levels i below h, and level
\* h of n, if there is one, is cleared to mark the height.
SkipListInsertAfter(n, h) ==
  LET after == [i \in Levels |-> next[path[i]][i]]
  IN  /\ next' = [x \in Cells |-> [i \in Levels |->
                    IF x = n THEN (IF i < h THEN after[i] ELSE IF i = h THEN NULL ELSE next[n][i])
                    ELSE IF i < h /\ x = path[i] THEN n ELSE next[x][i]]]
      /\ prev' = [x \in Cells |-> [i \in Levels |->
                    IF x = n THEN (IF i < h THEN path[i] ELSE IF i = h THEN NULL ELSE prev[n][i])
                    ELSE IF i < h /\ x = after[i] THEN n ELSE prev[x][i]]]

-----------------------------------------------------------------------------
(* The calls.                                                              *)

Init ==
  /\ weight = [n \in Nodes |-> 0]
  /\ next = [x \in Cells |-> NoLinks]
  /\ prev = [x \in Cells |-> NoLinks]
  /\ owner = [n \in Nodes |-> NULL]
  /\ fresh = {}
  /\ pc = "idle"
  /\ call = NoCall
  /\ cur = NULL
  /\ level = MaxLevels - 1
  /\ path = NoLinks
  /\ weightDiff = SizeMax
  /\ ret = NoResult

\* A loop over the list behind s starts on the highest level.
Enter(where, s, arguments) ==
  /\ pc' = where
  /\ call' = arguments
  /\ cur' = s
  /\ level' = MaxLevels - 1
  /\ path' = NoLinks
  /\ weightDiff' = SizeMax

Return == Enter("idle", NULL, NoCall)

\* NewMemoryRange puts a node in memory that holds no linked node.
SkipListInitNode(n) ==
  /\ pc = "idle"
  /\ owner[n] = NULL
  /\ weight' = [weight EXCEPT ![n] = 0]
  /\ next' = [next EXCEPT ![n] = NoLinks]
  /\ prev' = [prev EXCEPT ![n] = NoLinks]
  /\ fresh' = fresh \cup {n}
  /\ ret' = NoResult
  /\ UNCHANGED <<owner, pc, call, cur, level, path, weightDiff>>

\* SetMemoryRangeBegin and SetMemoryRangePages: the new weight is stored while
\* the node may still be linked, then the node is removed from its list (a
\* fresh one has height 0) and SkipListInsert is called for its new list.
SetNodeWeight(s, n, w, h) ==
  /\ pc = "idle"
  /\ owner[n] # NULL \/ n \in fresh
  /\ weight' = [weight EXCEPT ![n] = w]
  /\ SkipListRemove(n)
  /\ owner' = [owner EXCEPT ![n] = NULL]
  /\ fresh' = fresh \ {n}
  /\ Enter("find", s, [NoCall EXCEPT !.sentinel = s, !.node = n, !.height = h])
  /\ ret' = NoResult

\* The same for the range at page 0, for which MemoryRangeToSentinel returns
\* NULL: SkipListInsert returns at once.
SetNodeWeightNoList(n, w) ==
  /\ pc = "idle"
  /\ n \in fresh
  /\ weight' = [weight EXCEPT ![n] = w]
  /\ ret' = NoResult
  /\ UNCHANGED <<next, prev, owner, fresh, pc, call, cur, level, path, weightDiff>>

\* Mutant of Lighter: nodes of the same weight are passed too.
LighterOrEqual(need) == next[cur][level] # NULL /\ weight[next[cur][level]] <= need

\* The inner loop of SkipListFindPrevs and of SkipListBest's skip.
Lighter(need) == next[cur][level] # NULL /\ weight[next[cur][level]] < need

\* Mutant of FindNext: the loop does not get away from the list's head.
FindNextRestarts ==
  /\ pc = "find"
  /\ Lighter(weight[call.node])
  /\ cur' = call.sentinel
  /\ UNCHANGED <<weight, links, owner, fresh, pc, call, level, path, weightDiff, ret>>

FindNext ==
  /\ pc = "find"
  /\ Lighter(weight[call.node])
  /\ cur' = next[cur][level]
  /\ UNCHANGED <<weight, links, owner, fresh, pc, call, level, path, weightDiff, ret>>

\* Mutant of FindDown: the loop leaves level 0 before it ends.
FindDownPastZero ==
  /\ pc = "find"
  /\ ~Lighter(weight[call.node])
  /\ path' = [path EXCEPT ![level] = cur]
  /\ level' = level - 1
  /\ pc' = IF level > 0 THEN pc ELSE "link"
  /\ UNCHANGED <<weight, links, owner, fresh, call, cur, weightDiff, ret>>

FindDown ==
  /\ pc = "find"
  /\ ~Lighter(weight[call.node])
  /\ path' = [path EXCEPT ![level] = cur]
  /\ IF level > 0
     THEN level' = level - 1 /\ UNCHANGED pc
     ELSE pc' = "link" /\ UNCHANGED level
  /\ UNCHANGED <<weight, links, owner, fresh, call, cur, weightDiff, ret>>

Link ==
  /\ pc = "link"
  /\ SkipListInsertAfter(call.node, call.height)
  /\ owner' = [owner EXCEPT ![call.node] = call.sentinel]
  /\ Return
  /\ UNCHANGED <<weight, fresh, ret>>

\* MemoryRangeRemove.
RemoveNode(n) ==
  /\ pc = "idle"
  /\ owner[n] # NULL
  /\ SkipListRemove(n)
  /\ owner' = [owner EXCEPT ![n] = NULL]
  /\ ret' = NoResult
  /\ UNCHANGED <<weight, fresh, pc, call, cur, level, path, weightDiff>>

SkipListBestCall(s, w, exact) ==
  /\ pc = "idle"
  /\ Enter("best", s, [NoCall EXCEPT !.sentinel = s, !.weight = w, !.exact = exact])
  /\ ret' = NoResult
  /\ UNCHANGED <<weight, links, owner, fresh>>

BestSkip ==
  /\ pc = "best" /\ level > 0
  /\ IF Lighter(call.weight)
     THEN cur' = next[cur][level] /\ UNCHANGED level
     ELSE level' = level - 1 /\ UNCHANGED cur
  /\ UNCHANGED <<weight, links, owner, fresh, pc, call, path, weightDiff, ret>>

Distance(n, w) == IF weight[n] > w THEN weight[n] - w ELSE w - weight[n]

\* The conditions that end the scan of level 0: no next node, the next one is
\* farther away than the last, or an exact search has arrived (the skip only
\* passes nodes that are too light).
ScanEnds ==
  next[cur][0] # NULL =>
    IF call.exact
    THEN cur # call.sentinel /\ weight[cur] >= call.weight
    ELSE Distance(next[cur][0], call.weight) > weightDiff

BestScan ==
  /\ pc = "best" /\ level = 0
  /\ ~ScanEnds
  /\ cur' = next[cur][0]
  /\ weightDiff' = Distance(next[cur][0], call.weight)
  /\ UNCHANGED <<weight, links, owner, fresh, pc, call, level, path, ret>>

BestReturn ==
  /\ pc = "best" /\ level = 0
  /\ ScanEnds
  /\ LET none == cur = call.sentinel \/ (call.exact /\ call.weight > weight[cur])
     IN  ret' = [sentinel |-> call.sentinel, weight |-> call.weight, exact |-> call.exact,
                 node |-> IF none THEN NULL ELSE cur]
  /\ Return
  /\ UNCHANGED <<weight, links, owner, fresh>>

\* The steps of a running call.
Step == FindNext \/ FindDown \/ Link \/ BestSkip \/ BestScan \/ BestReturn

Next ==
  \/ \E n \in Nodes : SkipListInitNode(n) \/ RemoveNode(n)
  \/ \E n \in Nodes, w \in Weights : SetNodeWeightNoList(n, w)
  \/ \E s \in Sentinels, n \in Nodes, w \in Weights, h \in 1..MaxLevels : SetNodeWeight(s, n, w, h)
  \/ \E s \in Sentinels, w \in Requests, exact \in BOOLEAN : SkipListBestCall(s, w, exact)
  \/ Step

\* The code runs on: a call that was made keeps taking steps.
Spec == Init /\ [][Next]_vars /\ WF_vars(Step)

-----------------------------------------------------------------------------
(* Properties.                                                             *)

\* The type of the state.
TypeOK ==
  /\ weight \in [Nodes -> 0..SizeMax]
  /\ next \in [Cells -> [Levels -> Nodes \cup {NULL}]]
  /\ prev \in [Cells -> [Levels -> Cells \cup {NULL}]]
  /\ owner \in [Nodes -> Sentinels \cup {NULL}]
  /\ fresh \subseteq Nodes
  /\ pc \in {"idle", "find", "link", "best"}
  /\ call \in [sentinel : Sentinels \cup {NULL}, node : Nodes \cup {NULL},
               height : 0..MaxLevels, weight : 0..SizeMax, exact : BOOLEAN]
  /\ cur \in Cells \cup {NULL}
  /\ level \in Levels
  /\ path \in [Levels -> Cells \cup {NULL}]
  /\ weightDiff \in 0..SizeMax
  /\ ret \in [sentinel : Sentinels \cup {NULL}, weight : 0..SizeMax, exact : BOOLEAN,
              node : Nodes \cup {NULL}]

\* x takes part in level i of the list behind s.
OnLevel(x, s, i) == x = s \/ (x \in Nodes /\ owner[x] = s /\ BelowHeight(x, i))

\* On every level of every list Prev is the inverse of Next, links lead only to
\* nodes of the same list that reach that level, and never to a lighter node:
\* what an earlier list or an earlier height left in a node is never followed.
LinksConsistent ==
  \A s \in Sentinels, i \in Levels :
    /\ \A x \in Cells : OnLevel(x, s, i) /\ next[x][i] # NULL =>
         /\ OnLevel(next[x][i], s, i)
         /\ prev[next[x][i]][i] = x
         /\ x # s => weight[x] <= weight[next[x][i]]
    /\ \A n \in Nodes : OnLevel(n, s, i) =>
         /\ OnLevel(prev[n][i], s, i)
         /\ next[prev[n][i]][i] = n

\* SkipListNext, and the same pointer of the upper levels.
SkipListNext(x, i) == next[x][i]

\* More steps than a list has nodes.
WalkBound == Cardinality(Nodes) + 1

\* What is met on level i from s on, and NULL behind the end.
Walk(s, i) ==
  LET at[k \in 0..WalkBound] ==
        IF k = 0 THEN s
        ELSE LET x == at[k-1] IN IF x = NULL THEN NULL ELSE SkipListNext(x, i)
  IN  at

\* The nodes of level i of the list behind s (cut off, if there is a loop).
Chain(s, i) ==
  LET at == Walk(s, i)
  IN  [k \in {j \in 1..WalkBound : at[j] # NULL} |-> at[k]]

\* Every level of a list holds the nodes that reach it once each, in the order of
\* level 0, and level 0 is "gapless": it holds exactly what callers put in.
LevelsAreSublists ==
  \A s \in Sentinels :
    /\ Range(Chain(s, 0)) = {n \in Nodes : owner[n] = s}
    /\ \A i \in Levels :
         LET c == Chain(s, i)
             all == Chain(s, 0)
         IN  /\ IsInjective(c)
             /\ Range(c) = {n \in Range(all) : BelowHeight(n, i)}
             /\ \A j, k \in DOMAIN c : j < k =>
                  \E a, b \in DOMAIN all : a < b /\ c[j] = all[a] /\ c[k] = all[b]

\* Whatever the heights, insertions, removals and searches over the links do
\* what SortedLists says.
SL == INSTANCE SortedLists WITH lists <- [s \in Sentinels |-> Chain(s, 0)]

ImplementsSortedLists == SL!Spec

\* No search runs around in a list: every call returns.
EveryCallReturns == (pc # "idle") ~> (pc = "idle")

\* "Default (exact == false) behaivour returns block with weight closest to
\* requested" (SkipList.c:127).
BestIsClosest ==
  (ret.sentinel # NULL /\ ~ret.exact) =>
    \A n \in Nodes : owner[n] = ret.sentinel =>
      /\ ret.node # NULL
      /\ Distance(ret.node, ret.weight) <= Distance(n, ret.weight)
=============================================================================
