------------------------ MODULE SkipListOrderProofs ------------------------
(***************************************************************************)
(* For every finite set of nodes, any lists, levels, heights and weights:  *)
(* the levels of a skip list are sublists of its level 0, and what         *)
(* SkipList.c does to the links implements SortedLists.                    *)
(*                                                                         *)
(* That links are consistent (SkipListProofs) does not exclude rings apart *)
(* from the list; the invariant here adds that there is a sequence of all  *)
(* nodes of the list that every link of every level follows forwards.      *)
(***************************************************************************)
EXTENDS SkipListProofs, NumberLemmas, FiniteSetTheorems, SequenceTheorems

-----------------------------------------------------------------------------
(* Sequences.                                                              *)

\* The elements and the length of a sequence.
LEMMA Element ==
  ASSUME NEW S, NEW q \in Seq(S)
  PROVE  /\ Len(q) \in Nat /\ DOMAIN q = 1..Len(q)
         /\ \A k \in 1..Len(q) : q[k] \in S
BY LenProperties, ElementOfSeq

\* What InsertAt puts where.
LEMMA InsertAtIs ==
  ASSUME NEW S, NEW q \in Seq(S), NEW n \in S, NEW p \in 1..(Len(q) + 1)
  PROVE  LET r == SL!InsertAt(q, p, n)
         IN  /\ r \in Seq(S) /\ Len(r) = Len(q) + 1
             /\ \A k \in 1..(Len(q) + 1) :
                  r[k] = IF k < p THEN q[k] ELSE IF k = p THEN n ELSE q[k - 1]
<1> DEFINE a == SubSeq(q, 1, p - 1)
           b == SubSeq(q, p, Len(q))
<1>1. Len(q) \in Nat /\ \A k \in 1..Len(q) : q[k] \in S
  BY Element
<1>2. a \in Seq(S) /\ Len(a) = p - 1 /\ \A k \in 1..(p - 1) : a[k] = q[k]
  BY <1>1, SubSeqProperties
<1>3. b \in Seq(S) /\ Len(b) = Len(q) - p + 1 /\ \A k \in 1..(Len(q) - p + 1) : b[k] = q[p + k - 1]
  BY <1>1, SubSeqProperties
<1>4. <<n>> \in Seq(S) /\ Len(<<n>>) = 1 /\ <<n>>[1] = n
  OBVIOUS
<1> HIDE DEF a, b
<1>5. /\ a \o <<n>> \in Seq(S) /\ Len(a \o <<n>>) = p
      /\ \A k \in 1..p : (a \o <<n>>)[k] = IF k < p THEN q[k] ELSE n
  BY <1>2, <1>4
<1>6. /\ (a \o <<n>>) \o b \in Seq(S) /\ Len((a \o <<n>>) \o b) = Len(q) + 1
      /\ \A k \in 1..(Len(q) + 1) : ((a \o <<n>>) \o b)[k] = IF k <= p THEN (a \o <<n>>)[k] ELSE b[k - p]
  BY <1>1, <1>3, <1>5
<1>7. SL!InsertAt(q, p, n) = (a \o <<n>>) \o b
  BY DEF SL!InsertAt, a, b
<1> DEFINE h == a \o <<n>>
           r == h \o b
<1>8. ASSUME NEW k \in 1..(Len(q) + 1)
      PROVE  r[k] = IF k < p THEN q[k] ELSE IF k = p THEN n ELSE q[k - 1]
  <2>1. k \in 1..p => h[k] = IF k < p THEN q[k] ELSE n
    BY <1>5
  <2>2. r[k] = IF k <= p THEN h[k] ELSE b[k - p]
    BY <1>6
  <2> HIDE DEF h, r
  <2>3. CASE k <= p
    BY <2>1, <2>2, <2>3
  <2>4. CASE k > p
    <3>1. k - p \in 1..(Len(q) - p + 1) /\ p + (k - p) - 1 = k - 1
      BY <1>1, <2>4
    <3>2. b[k - p] = q[k - 1]
      BY <1>3, <3>1
    <3> QED
      BY <2>2, <2>4, <3>2
  <2> QED
    BY <1>1, <2>3, <2>4
<1>9. r \in Seq(S) /\ Len(r) = Len(q) + 1 /\ SL!InsertAt(q, p, n) = r
  BY <1>6, <1>7
<1> HIDE DEF r
<1> QED
  BY <1>8, <1>9

\* What RemoveAt leaves where.
LEMMA RemoveAtIs ==
  ASSUME NEW S, NEW q \in Seq(S), NEW p \in 1..Len(q)
  PROVE  LET r == SL!RemoveAt(q, p)
         IN  /\ r \in Seq(S) /\ Len(r) = Len(q) - 1
             /\ \A k \in 1..(Len(q) - 1) : r[k] = IF k < p THEN q[k] ELSE q[k + 1]
<1> DEFINE a == SubSeq(q, 1, p - 1)
           b == SubSeq(q, p + 1, Len(q))
<1>1. Len(q) \in Nat /\ \A k \in 1..Len(q) : q[k] \in S
  BY Element
<1>2. a \in Seq(S) /\ Len(a) = p - 1 /\ \A k \in 1..(p - 1) : a[k] = q[k]
  BY <1>1, SubSeqProperties
<1>3. b \in Seq(S) /\ Len(b) = Len(q) - p /\ \A k \in 1..(Len(q) - p) : b[k] = q[p + k]
  BY <1>1, SubSeqProperties
<1> HIDE DEF a, b
<1>4. /\ a \o b \in Seq(S) /\ Len(a \o b) = Len(q) - 1
      /\ \A k \in 1..(Len(q) - 1) : (a \o b)[k] = IF k < p THEN a[k] ELSE b[k - (p - 1)]
  <2>1. a \o b \in Seq(S) /\ Len(a \o b) = Len(a) + Len(b)
    BY <1>2, <1>3, ConcatProperties
  <2>2. \A k \in 1..(Len(a) + Len(b)) : (a \o b)[k] = IF k <= Len(a) THEN a[k] ELSE b[k - Len(a)]
    BY <1>2, <1>3, ConcatProperties
  <2>3. Len(a) + Len(b) = Len(q) - 1
    BY <1>1, <1>2, <1>3
  <2> QED
    BY <1>2, <2>1, <2>2, <2>3
<1>5. SL!RemoveAt(q, p) = a \o b
  BY DEF SL!RemoveAt, a, b
<1>6. ASSUME NEW k \in 1..(Len(q) - 1) PROVE (a \o b)[k] = IF k < p THEN q[k] ELSE q[k + 1]
  <2>1. CASE k < p
    BY <1>2, <1>4, <2>1
  <2>2. CASE k >= p
    <3>1. k - (p - 1) \in 1..(Len(q) - p) /\ p + (k - (p - 1)) = k + 1
      BY <1>1, <2>2
    <3> QED
      BY <1>3, <1>4, <2>2, <3>1
  <2>3. k < p \/ k >= p
    BY <1>1
  <2> QED
    BY ONLY <2>1, <2>2, <2>3
<1> QED
  BY <1>4, <1>5, <1>6

-----------------------------------------------------------------------------
(* The walk along a level.                                                 *)

\* One step of the walk.
After(x, i) == IF x = NULL THEN NULL ELSE next[x][i]

\* The bound on the walk is a number.
LEMMA BoundType == WalkBound \in Nat /\ WalkBound > 0 /\ Cardinality(Nodes) \in Nat
BY NodesAssumption, FS_CardinalityType DEF WalkBound

\* The recursive definition of the walk has a solution: one for the first m
\* steps can be continued by a step.
LEMMA WalkSteps ==
  ASSUME NEW s, NEW i
  PROVE  /\ Walk(s, i)[0] = s
         /\ \A k \in 1..WalkBound : Walk(s, i)[k] = After(Walk(s, i)[k - 1], i)
<1> DEFINE Solves(f, m) == f = [k \in 0..m |-> IF k = 0 THEN s ELSE After(f[k - 1], i)]
           M == {m \in 0..WalkBound : ~\E f : Solves(f, m)}
<1>1. WalkBound \in Nat
  BY BoundType
<1>2. M = {}
  <2>1. SUFFICES ASSUME M # {} PROVE FALSE
    OBVIOUS
  <2>2. M \subseteq Nat
    BY <1>1
  <2>3. PICK m \in 0..WalkBound : (~\E f : Solves(f, m)) /\ \A y \in M : m <= y
    <3>1. \E m \in M : \A y \in M : m <= y
      BY <2>1, <2>2, LeastExists
    <3> QED
      BY <3>1
  <2>4. CASE m = 0
    <3>1. Solves([k \in 0..0 |-> s], 0)
      OBVIOUS
    <3> QED
      BY <2>3, <2>4, <3>1
  <2>5. CASE m > 0
    <3>1. m - 1 \in 0..WalkBound /\ m - 1 \notin M
      BY <1>1, <2>3, <2>5
    <3>2. PICK f : Solves(f, m - 1)
      BY <3>1
    <3> DEFINE g == [k \in 0..m |-> IF k = m THEN After(f[m - 1], i) ELSE f[k]]
    <3>3. ASSUME NEW k \in 0..m
          PROVE  g[k] = IF k = 0 THEN s ELSE After(g[k - 1], i)
      <4>1. \A j \in 0..(m - 1) : f[j] = IF j = 0 THEN s ELSE After(f[j - 1], i)
        BY <3>2
      <4>2. \A j \in 0..(m - 1) : g[j] = f[j]
        BY <2>5
      <4>3. g[m] = After(f[m - 1], i)
        BY <1>1
      <4> HIDE DEF g
      <4> QED
        BY <1>1, <2>5, <4>1, <4>2, <4>3
    <3>4. g = [k \in 0..m |-> g[k]]
      OBVIOUS
    <3> HIDE DEF g
    <3>5. Solves(g, m)
      BY <3>3, <3>4
    <3> QED
      BY <2>3, <3>5
  <2> QED
    BY <1>1, <2>4, <2>5
<1>3. \E f : Solves(f, WalkBound)
  BY <1>1, <1>2
<1>4. Walk(s, i) = CHOOSE f : Solves(f, WalkBound)
  BY DEF Walk, After, SkipListNext
<1>5. Solves(Walk(s, i), WalkBound)
  BY <1>3, <1>4
<1> HIDE DEF Solves
<1>6. Walk(s, i) = [k \in 0..WalkBound |-> IF k = 0 THEN s ELSE After(Walk(s, i)[k - 1], i)]
  BY <1>5 DEF Solves
<1>7. \A k \in 0..WalkBound : Walk(s, i)[k] = IF k = 0 THEN s ELSE After(Walk(s, i)[k - 1], i)
  BY <1>6
<1> QED
  BY <1>1, <1>7

-----------------------------------------------------------------------------
(* The inductive invariant.                                                *)

\* The nodes that callers put in the list behind s.
Owned(s) == {n \in Nodes : owner[n] = s}

\* q holds the nodes of the list behind s, once each and by ascending weight, and
\* no link of any level leads backwards in it.
OrderedBy(s, q) ==
  /\ q \in Seq(Nodes)
  /\ \A j, k \in 1..Len(q) : q[j] = q[k] => j = k
  /\ \A n \in Nodes : owner[n] = s <=> \E k \in 1..Len(q) : q[k] = n
  /\ \A j, k \in 1..Len(q) : j < k => weight[q[j]] <= weight[q[k]]
  /\ \A i \in Levels : \A j, k \in 1..Len(q) :
       BelowHeight(q[j], i) /\ next[q[j]][i] = q[k] => j < k

OrderInv == \A s \in Sentinels : \E q : OrderedBy(s, q)

\* A node in a list is on its level 0.
ListedInv == \A n \in Nodes : owner[n] # NULL => prev[n][0] # NULL

\* The answer of the last search is forgotten when a node moves.
AnswerInv == pc \in {"find", "link"} => ret = NoResult

\* SkipListBest stands on nothing heavier than the lightest sufficient node, and
\* weightDiff belongs to where it stands once the scan of level 0 has begun.
BestFound ==
  pc = "best" =>
    /\ call.weight \in Requests
    /\ IF cur # call.sentinel /\ weight[cur] >= call.weight
       THEN /\ level = 0 /\ weightDiff = Distance(cur, call.weight)
            /\ cur \in Owned(call.sentinel)
            /\ \A n \in Owned(call.sentinel) :
                 weight[n] >= call.weight => weight[cur] <= weight[n]
       ELSE \/ weightDiff = SizeMax
            \/ cur # call.sentinel /\ level = 0 /\ weightDiff = Distance(cur, call.weight)

OInv == IInv /\ OrderInv /\ ListedInv /\ AnswerInv /\ BestFound

-----------------------------------------------------------------------------
(* Links and the order.                                                    *)

\* The cell at position p of a list; the head is at position 0.
At(s, q, p) == IF p = 0 THEN s ELSE q[p]

\* What an order says of its nodes.
LEMMA OrderFacts ==
  ASSUME NEW s \in Sentinels, NEW q, OrderedBy(s, q)
  PROVE  /\ q \in Seq(Nodes) /\ Len(q) \in Nat /\ DOMAIN q = 1..Len(q)
         /\ \A k \in 1..Len(q) : q[k] \in Nodes /\ owner[q[k]] = s /\ q[k] # s /\ q[k] # NULL
         /\ \A n \in Nodes : owner[n] = s => \E k \in 1..Len(q) : q[k] = n
         /\ Owned(s) = {q[k] : k \in 1..Len(q)}
         /\ s # NULL
<1>1. q \in Seq(Nodes) /\ Len(q) \in Nat /\ DOMAIN q = 1..Len(q)
      /\ \A k \in 1..Len(q) : q[k] \in Nodes
  BY Element DEF OrderedBy
<1>2. \A n \in Nodes : owner[n] = s <=> \E k \in 1..Len(q) : q[k] = n
  BY DEF OrderedBy
<1>3. \A n \in Nodes : n # s /\ n # NULL
  BY NodesAssumption
<1> QED
  BY <1>1, <1>2, <1>3, NodesAssumption DEF Owned

\* Every cell of a level has a position.
LEMMA Position ==
  ASSUME NEW s \in Sentinels, NEW q, OrderedBy(s, q), NEW i \in Levels, NEW x, OnLevel(x, s, i)
  PROVE  \E p \in 0..Len(q) : x = At(s, q, p)
<1>1. Len(q) \in Nat
  BY OrderFacts
<1>2. CASE x = s
  BY <1>1, <1>2 DEF At
<1>3. CASE x # s
  <2>1. x \in Nodes /\ owner[x] = s
    BY <1>3 DEF OnLevel
  <2>2. PICK k \in 1..Len(q) : q[k] = x
    BY <2>1, OrderFacts
  <2> QED
    BY <1>1, <2>2 DEF At
<1> QED
  BY <1>2, <1>3

\* Links lead forwards, ...
LEMMA Forward ==
  ASSUME TypeOK, LinksConsistent, NEW s \in Sentinels, NEW q, OrderedBy(s, q), NEW i \in Levels,
         NEW p \in 0..Len(q), OnLevel(At(s, q, p), s, i), next[At(s, q, p)][i] # NULL
  PROVE  \E k \in (p + 1)..Len(q) : next[At(s, q, p)][i] = q[k] /\ OnLevel(q[k], s, i)
<1> DEFINE x == At(s, q, p)
           y == next[x][i]
<1>1. Len(q) \in Nat /\ x \in Cells
  BY OrderFacts, OnLevelFacts
<1>2. OnLevel(y, s, i) /\ y \in Nodes
  BY <1>1, NextLinked DEF TypeOK
<1>3. owner[y] = s
  BY <1>2, OnLevelFacts
<1>4. PICK k \in 1..Len(q) : q[k] = y
  BY <1>2, <1>3, OrderFacts
<1>5. p < k
  <2>1. CASE p = 0
    BY <2>1, <1>1
  <2>2. CASE p # 0
    <3>1. x = q[p] /\ p \in 1..Len(q)
      BY <1>1, <2>2 DEF At
    <3>2. x \in Nodes
      BY <3>1, OrderFacts
    <3>3. BelowHeight(q[p], i) /\ next[q[p]][i] = q[k]
      <4>1. OnLevel(q[p], s, i) /\ q[p] \in Nodes /\ q[p] = x
        BY <3>1, <3>2
      <4>2. BelowHeight(q[p], i)
        BY <4>1, OnLevelFacts
      <4> QED
        BY <1>4, <4>1, <4>2
    <3> QED
      BY <3>1, <3>3 DEF OrderedBy
  <2> QED
    BY <2>1, <2>2
<1> QED
  BY <1>1, <1>2, <1>4, <1>5

\* ... and Prev leads backwards.
LEMMA Backward ==
  ASSUME TypeOK, LinksConsistent, NEW s \in Sentinels, NEW q, OrderedBy(s, q), NEW i \in Levels,
         NEW k \in 1..Len(q), OnLevel(q[k], s, i)
  PROVE  \E p \in 0..(k - 1) :
           /\ prev[q[k]][i] = At(s, q, p) /\ OnLevel(At(s, q, p), s, i)
           /\ next[At(s, q, p)][i] = q[k]
<1>1. Len(q) \in Nat /\ q[k] \in Nodes /\ q[k] # NULL
  BY OrderFacts
<1>2. OnLevel(prev[q[k]][i], s, i) /\ next[prev[q[k]][i]][i] = q[k]
  BY <1>1, PrevLinked
<1>3. PICK p \in 0..Len(q) : prev[q[k]][i] = At(s, q, p)
  BY <1>2, Position
<1>4. PICK l \in (p + 1)..Len(q) : next[At(s, q, p)][i] = q[l]
  BY <1>1, <1>2, <1>3, Forward
<1>5. l \in 1..Len(q) /\ q[l] = q[k]
  BY <1>1, <1>2, <1>3, <1>4
<1>6. l = k
  BY <1>5 DEF OrderedBy
<1> QED
  BY <1>1, <1>2, <1>3, <1>6

\* A link does not pass over a node of its level.
LEMMA Nearest ==
  ASSUME TypeOK, LinksConsistent, NEW s \in Sentinels, NEW q, OrderedBy(s, q), NEW i \in Levels,
         NEW p \in 0..Len(q), NEW m \in (p + 1)..Len(q),
         OnLevel(At(s, q, p), s, i), OnLevel(q[m], s, i)
  PROVE  \E k \in (p + 1)..m : next[At(s, q, p)][i] = q[k]
<1> DEFINE Reached(a, b) == \E k \in (a + 1)..b : next[At(s, q, a)][i] = q[k]
           Passed(a, b) == a < b /\ OnLevel(At(s, q, a), s, i) /\ OnLevel(q[b], s, i) /\ ~Reached(a, b)
           M == {b \in 1..Len(q) : \E a \in 0..Len(q) : Passed(a, b)}
<1>1. Len(q) \in Nat /\ s # NULL /\ \A k \in 1..Len(q) : q[k] # NULL /\ q[k] # s /\ q[k] \in Nodes
  BY OrderFacts
<1>2. SUFFICES ASSUME ~Reached(p, m) PROVE FALSE
  OBVIOUS
<1>3. m \in M
  <2>1. m \in 1..Len(q) /\ Passed(p, m)
    BY <1>1, <1>2
  <2> QED
    BY <2>1
<1>4. PICK b \in 1..Len(q) : (\E a \in 0..Len(q) : Passed(a, b)) /\ \A c \in M : b <= c
  <2>1. M \subseteq Nat /\ M # {}
    BY <1>3
  <2>2. \E b \in M : \A c \in M : b <= c
    BY <2>1, LeastExists
  <2> QED
    BY <2>2
<1>5. PICK a \in 0..Len(q) : Passed(a, b)
  BY <1>4
<1>6. PICK c \in 0..(b - 1) : OnLevel(At(s, q, c), s, i) /\ next[At(s, q, c)][i] = q[b]
  BY <1>5, Backward
<1>7. c # a
  <2>1. SUFFICES ASSUME c = a PROVE FALSE
    OBVIOUS
  <2>2. Reached(a, b)
    BY <1>1, <1>5, <1>6, <2>1
  <2> QED
    BY <1>5, <2>2
<1>8. ~(a < c)
  <2>1. SUFFICES ASSUME a < c PROVE FALSE
    OBVIOUS
  <2>2. c \in 1..Len(q) /\ At(s, q, c) = q[c] /\ c < b
    BY <1>1, <2>1 DEF At
  <2>3. c \notin M
    BY <1>4, <2>2
  <2>4. ~Passed(a, c)
    BY <2>2, <2>3
  <2>5. Reached(a, c)
    BY <1>5, <1>6, <2>1, <2>2, <2>4
  <2>6. Reached(a, b)
    BY <1>1, <2>2, <2>5
  <2> QED
    BY <1>5, <2>6
<1>9. ~(c < a)
  <2>1. SUFFICES ASSUME c < a PROVE FALSE
    OBVIOUS
  <2>2. a \in 1..Len(q) /\ At(s, q, a) = q[a] /\ a < b /\ c \in 0..Len(q)
    BY <1>1, <1>5, <2>1 DEF At
  <2>3. a \notin M
    BY <1>4, <2>2
  <2>4. ~Passed(c, a)
    BY <2>2, <2>3
  <2>5. Reached(c, a)
    BY <1>5, <1>6, <2>1, <2>2, <2>4
  <2>6. PICK k \in (c + 1)..a : next[At(s, q, c)][i] = q[k]
    BY <2>5
  <2>7. k \in 1..Len(q) /\ q[k] = q[b] /\ k # b
    BY <1>1, <1>6, <2>2, <2>6
  <2> QED
    BY <2>7 DEF OrderedBy
<1> QED
  BY <1>1, <1>7, <1>8, <1>9

\* Level 0 follows the order node by node.
LEMMA LevelZero ==
  ASSUME TypeOK, LinksConsistent, ListedInv, NEW s \in Sentinels, NEW q, OrderedBy(s, q),
         NEW p \in 0..Len(q)
  PROVE  /\ OnLevel(At(s, q, p), s, 0)
         /\ next[At(s, q, p)][0] = IF p < Len(q) THEN q[p + 1] ELSE NULL
<1>1. Len(q) \in Nat /\ 0 \in Levels
  BY OrderFacts, SizesAssumption DEF Levels
<1>2. ASSUME NEW r \in 0..Len(q) PROVE OnLevel(At(s, q, r), s, 0)
  <2>1. CASE r = 0
    BY <2>1 DEF At, OnLevel
  <2>2. CASE r # 0
    <3>1. r \in 1..Len(q) /\ At(s, q, r) = q[r]
      BY <1>1, <2>2 DEF At
    <3>2. q[r] \in Nodes /\ owner[q[r]] = s /\ owner[q[r]] # NULL
      BY <3>1, OrderFacts
    <3>3. prev[q[r]][0] # NULL
      BY <3>2 DEF ListedInv
    <3> QED
      BY <3>1, <3>2, <3>3 DEF OnLevel, BelowHeight
  <2> QED
    BY <2>1, <2>2
<1>3. CASE p < Len(q)
  <2>1. p + 1 \in (p + 1)..Len(q) /\ p + 1 \in 0..Len(q) /\ At(s, q, p + 1) = q[p + 1]
    BY <1>1, <1>3 DEF At
  <2>2. OnLevel(At(s, q, p), s, 0) /\ OnLevel(q[p + 1], s, 0)
    BY <1>2, <2>1
  <2>3. PICK k \in (p + 1)..(p + 1) : next[At(s, q, p)][0] = q[k]
    BY <1>1, <2>1, <2>2, Nearest
  <2> QED
    BY <1>3, <2>2, <2>3
<1>4. CASE ~(p < Len(q))
  <2>1. next[At(s, q, p)][0] = NULL
    <3>1. SUFFICES ASSUME next[At(s, q, p)][0] # NULL PROVE FALSE
      OBVIOUS
    <3>2. \E k \in (p + 1)..Len(q) : TRUE
      BY <1>1, <1>2, <3>1, Forward
    <3> QED
      BY <1>1, <1>4, <3>2
  <2> QED
    BY <1>2, <1>4, <2>1
<1> QED
  BY <1>3, <1>4

-----------------------------------------------------------------------------
(* The chains.                                                             *)

\* A list is shorter than the walk.
LEMMA ListFits ==
  ASSUME NEW s \in Sentinels, NEW q, OrderedBy(s, q)
  PROVE  Len(q) \in Nat /\ Len(q) < WalkBound
<1>1. Len(q) \in Nat /\ DOMAIN q = 1..Len(q) /\ q \in Seq(Nodes)
      /\ \A k \in 1..Len(q) : q[k] \in Nodes
  BY OrderFacts
<1>2. q \in [1..Len(q) -> Nodes]
  BY <1>1
<1>3. q \in Injection(1..Len(q), Nodes)
  BY <1>1, <1>2 DEF Injection, IsInjective, OrderedBy
<1>4. Cardinality(1..Len(q)) <= Cardinality(Nodes)
  BY <1>3, NodesAssumption, FS_Injection
<1>5. Cardinality(1..Len(q)) = Len(q)
  <2>1. \A l \in Nat : Cardinality(1..l) = IF 1 > l THEN 0 ELSE l - 1 + 1
    BY FS_Interval
  <2> QED
    BY <1>1, <2>1
<1> QED
  BY <1>1, <1>4, <1>5, BoundType DEF WalkBound

\* The walk along a level meets cells of that level at ascending positions.
LEMMA WalkAscends ==
  ASSUME TypeOK, LinksConsistent, NEW s \in Sentinels, NEW q, OrderedBy(s, q), NEW i \in Levels,
         NEW k \in 0..WalkBound, Walk(s, i)[k] # NULL
  PROVE  \E b \in k..Len(q) :
           /\ Walk(s, i)[k] = At(s, q, b) /\ OnLevel(At(s, q, b), s, i)
           /\ \A j \in 0..(k - 1) : \E a \in j..(b - 1) : Walk(s, i)[j] = At(s, q, a)
<1> DEFINE w == Walk(s, i)
           Meets(l) == \E b \in l..Len(q) :
                         /\ w[l] = At(s, q, b) /\ OnLevel(At(s, q, b), s, i)
                         /\ \A j \in 0..(l - 1) : \E a \in j..(b - 1) : w[j] = At(s, q, a)
           K == {l \in 0..WalkBound : w[l] # NULL /\ ~Meets(l)}
<1>1. WalkBound \in Nat /\ Len(q) \in Nat
  BY BoundType, OrderFacts
<1>2. w[0] = s /\ \A l \in 1..WalkBound : w[l] = After(w[l - 1], i)
  BY WalkSteps
<1> HIDE DEF w
<1>3. SUFFICES ASSUME K # {} PROVE FALSE
  BY DEF w
<1>4. PICK l \in 0..WalkBound : w[l] # NULL /\ ~Meets(l) /\ \A y \in K : l <= y
  <2>1. K \subseteq Nat
    BY <1>1
  <2>2. \E l \in K : \A y \in K : l <= y
    BY <1>3, <2>1, LeastExists
  <2> QED
    BY <2>2
<1>5. CASE l = 0
  <2>1. 0 \in 0..Len(q) /\ w[0] = At(s, q, 0) /\ OnLevel(At(s, q, 0), s, i)
    BY <1>1, <1>2 DEF At, OnLevel
  <2>2. Meets(0)
    BY <2>1
  <2> QED
    BY <1>4, <1>5, <2>2
<1>6. CASE l > 0
  <2>1. l - 1 \in 0..WalkBound /\ l - 1 < l /\ w[l] = After(w[l - 1], i) /\ l \in 1..WalkBound
    BY <1>1, <1>2, <1>6
  <2>2. w[l - 1] # NULL /\ w[l] = next[w[l - 1]][i]
    BY <1>4, <2>1 DEF After
  <2>3. l - 1 \notin K
    BY <1>4, <2>1
  <2>4. Meets(l - 1)
    BY <2>1, <2>2, <2>3
  <2>5. PICK b \in (l - 1)..Len(q) :
          /\ w[l - 1] = At(s, q, b) /\ OnLevel(At(s, q, b), s, i)
          /\ \A j \in 0..(l - 2) : \E a \in j..(b - 1) : w[j] = At(s, q, a)
    BY <2>4, (l - 1) - 1 = l - 2
  <2>6. b \in 0..Len(q) /\ next[At(s, q, b)][i] # NULL
    BY <1>1, <1>4, <2>1, <2>2, <2>5
  <2>7. PICK c \in (b + 1)..Len(q) : next[At(s, q, b)][i] = q[c] /\ OnLevel(q[c], s, i)
    BY <2>5, <2>6, Forward
  <2>8. c \in l..Len(q) /\ At(s, q, c) = q[c] /\ w[l] = q[c]
    BY <1>1, <2>2, <2>5, <2>6, <2>7 DEF At
  <2>9. ASSUME NEW j \in 0..(l - 1) PROVE \E a \in j..(c - 1) : w[j] = At(s, q, a)
    <3>1. CASE j = l - 1
      BY <1>1, <2>5, <2>7, <3>1
    <3>2. CASE j # l - 1
      <4>1. j \in 0..(l - 2)
        BY <2>1, <3>2
      <4>2. PICK a \in j..(b - 1) : w[j] = At(s, q, a)
        BY <2>5, <4>1
      <4>3. a \in j..(c - 1)
        BY <1>1, <2>7, <4>2
      <4> QED
        BY <4>2, <4>3
    <3> QED
      BY <3>1, <3>2
  <2>10. Meets(l)
    BY <2>7, <2>8, <2>9
  <2> QED
    BY <1>4, <2>10
<1> QED
  BY <1>1, <1>5, <1>6

\* The walk along a level meets every node of that level.
LEMMA WalkCovers ==
  ASSUME TypeOK, LinksConsistent, NEW s \in Sentinels, NEW q, OrderedBy(s, q), NEW i \in Levels,
         NEW m \in 1..Len(q), OnLevel(q[m], s, i)
  PROVE  \E k \in 1..m : k <= WalkBound /\ Walk(s, i)[k] = q[m]
<1> DEFINE w == Walk(s, i)
           Met(l) == \E k \in 1..l : k <= WalkBound /\ w[k] = q[l]
           M == {l \in 1..Len(q) : OnLevel(q[l], s, i) /\ ~Met(l)}
<1>1. WalkBound \in Nat /\ Len(q) \in Nat /\ Len(q) < WalkBound
      /\ s # NULL /\ \A l \in 1..Len(q) : q[l] # NULL
  BY BoundType, ListFits, OrderFacts
<1>2. w[0] = s /\ \A l \in 1..WalkBound : w[l] = After(w[l - 1], i)
  BY WalkSteps
<1> HIDE DEF w
<1>3. SUFFICES ASSUME M # {} PROVE FALSE
  BY DEF w
<1>4. PICK l \in 1..Len(q) : OnLevel(q[l], s, i) /\ ~Met(l) /\ \A y \in M : l <= y
  <2>1. M \subseteq Nat
    BY <1>1
  <2>2. \E l \in M : \A y \in M : l <= y
    BY <1>3, <2>1, LeastExists
  <2> QED
    BY <2>2
<1>5. PICK p \in 0..(l - 1) : OnLevel(At(s, q, p), s, i) /\ next[At(s, q, p)][i] = q[l]
  BY <1>4, Backward
<1>6. \E k \in 0..p : w[k] = At(s, q, p)
  <2>1. CASE p = 0
    BY <1>2, <2>1 DEF At
  <2>2. CASE p # 0
    <3>1. p \in 1..Len(q) /\ At(s, q, p) = q[p] /\ p < l
      BY <1>1, <2>2 DEF At
    <3>2. p \notin M
      BY <1>4, <3>1
    <3>3. Met(p)
      BY <1>5, <3>1, <3>2
    <3> QED
      BY <3>1, <3>3
  <2> QED
    BY <2>1, <2>2
<1>7. PICK k \in 0..p : w[k] = At(s, q, p)
  BY <1>6
<1>8. k + 1 \in 1..l /\ k + 1 \in 1..WalkBound /\ (k + 1) - 1 = k
  BY <1>1
<1>9. At(s, q, p) # NULL
  BY <1>5, OnLevelFacts
<1>10. w[k + 1] = q[l]
  BY <1>2, <1>5, <1>7, <1>8, <1>9 DEF After
<1>11. Met(l)
  BY <1>8, <1>10
<1> QED
  BY <1>4, <1>11

\* The chain of level 0 is the order itself.
LEMMA ChainZero ==
  ASSUME TypeOK, LinksConsistent, ListedInv, NEW s \in Sentinels, NEW q, OrderedBy(s, q)
  PROVE  Chain(s, 0) = q
<1> DEFINE w == Walk(s, 0)
           K == {l \in 0..WalkBound : w[l] # IF l <= Len(q) THEN At(s, q, l) ELSE NULL}
<1>1. WalkBound \in Nat /\ Len(q) \in Nat /\ Len(q) < WalkBound
      /\ s # NULL /\ q \in Seq(Nodes) /\ \A l \in 1..Len(q) : q[l] # NULL
  BY BoundType, ListFits, OrderFacts
<1>2. w[0] = s /\ \A l \in 1..WalkBound : w[l] = After(w[l - 1], 0)
  BY WalkSteps
<1>3. Chain(s, 0) = [k \in {j \in 1..WalkBound : w[j] # NULL} |-> w[k]]
  BY DEF Chain
<1> HIDE DEF w
<1>4. K = {}
  <2>1. SUFFICES ASSUME K # {} PROVE FALSE
    OBVIOUS
  <2>2. PICK l \in 0..WalkBound : /\ w[l] # IF l <= Len(q) THEN At(s, q, l) ELSE NULL
                                  /\ \A y \in K : l <= y
    <3>1. K \subseteq Nat
      BY <1>1
    <3>2. \E l \in K : \A y \in K : l <= y
      BY <2>1, <3>1, LeastExists
    <3> QED
      BY <3>2
  <2>3. l # 0
    BY <1>1, <1>2, <2>2 DEF At
  <2>4. l - 1 \in 0..WalkBound /\ l - 1 < l /\ w[l] = After(w[l - 1], 0)
    BY <1>1, <1>2, <2>3
  <2>5. l - 1 \notin K
    BY <2>2, <2>4
  <2>6. w[l - 1] = IF l - 1 <= Len(q) THEN At(s, q, l - 1) ELSE NULL
    BY <2>4, <2>5
  <2>7. CASE l - 1 <= Len(q)
    <3>1. l - 1 \in 0..Len(q)
      BY <1>1, <2>4, <2>7
    <3>2. /\ OnLevel(At(s, q, l - 1), s, 0)
          /\ next[At(s, q, l - 1)][0] = IF l - 1 < Len(q) THEN q[(l - 1) + 1] ELSE NULL
      BY <3>1, LevelZero
    <3>3. At(s, q, l - 1) # NULL
      BY <1>1, <3>1 DEF At
    <3>4. w[l] = IF l - 1 < Len(q) THEN q[l] ELSE NULL
      BY <2>4, <2>6, <2>7, <3>2, <3>3, (l - 1) + 1 = l DEF After
    <3> QED
      BY <1>1, <2>2, <2>3, <3>4 DEF At
  <2>8. CASE ~(l - 1 <= Len(q))
    BY <1>1, <2>2, <2>4, <2>6, <2>8 DEF After
  <2> QED
    BY <2>7, <2>8
<1>5. \A l \in 1..WalkBound : w[l] = IF l <= Len(q) THEN q[l] ELSE NULL
  BY <1>1, <1>4 DEF At
<1>6. {j \in 1..WalkBound : w[j] # NULL} = 1..Len(q)
  BY <1>1, <1>5
<1>7. \A k \in 1..Len(q) : w[k] = q[k]
  BY <1>1, <1>5
<1>8. q = [k \in 1..Len(q) |-> q[k]]
  BY <1>1
<1> QED
  BY <1>3, <1>6, <1>7, <1>8

-----------------------------------------------------------------------------
(* The levels.                                                             *)

\* Every level holds the nodes that reach it, in the order of level 0.
LEMMA LevelsOfOrder ==
  ASSUME TypeOK, LinksConsistent, ListedInv, OrderInv
  PROVE  LevelsAreSublists
<1>1. SUFFICES ASSUME NEW s \in Sentinels
               PROVE  /\ Range(Chain(s, 0)) = Owned(s)
                      /\ \A i \in Levels :
                           LET c == Chain(s, i)
                               all == Chain(s, 0)
                           IN  /\ IsInjective(c)
                               /\ Range(c) = {n \in Range(all) : BelowHeight(n, i)}
                               /\ \A j, k \in DOMAIN c : j < k =>
                                    \E a, b \in DOMAIN all : a < b /\ c[j] = all[a] /\ c[k] = all[b]
  BY DEF LevelsAreSublists, Owned
<1>2. PICK q : OrderedBy(s, q)
  BY DEF OrderInv
<1>3. Chain(s, 0) = q
  BY <1>2, ChainZero
<1>4. /\ q \in Seq(Nodes) /\ Len(q) \in Nat /\ DOMAIN q = 1..Len(q)
      /\ \A k \in 1..Len(q) : q[k] \in Nodes /\ owner[q[k]] = s /\ q[k] # s /\ q[k] # NULL
      /\ Owned(s) = {q[k] : k \in 1..Len(q)}
  BY <1>2, OrderFacts
<1>5. Range(q) = Owned(s)
  BY <1>4 DEF Range
<1>6. ASSUME NEW i \in Levels, NEW c, c = Chain(s, i)
      PROVE  /\ IsInjective(c)
             /\ Range(c) = {n \in Range(q) : BelowHeight(n, i)}
             /\ \A j, k \in DOMAIN c : j < k =>
                  \E a, b \in DOMAIN q : a < b /\ c[j] = q[a] /\ c[k] = q[b]
  <2> DEFINE w == Walk(s, i)
  <2>1. c = [k \in {j \in 1..WalkBound : w[j] # NULL} |-> w[k]]
    BY <1>6 DEF Chain
  <2>2. DOMAIN c = {j \in 1..WalkBound : w[j] # NULL} /\ \A k \in DOMAIN c : c[k] = w[k]
    BY <2>1
  <2>3. WalkBound \in Nat
    BY BoundType
  <2>4. ASSUME NEW j \in DOMAIN c, NEW k \in DOMAIN c, j < k
        PROVE  \E a, b \in 1..Len(q) : a < b /\ c[j] = q[a] /\ c[k] = q[b]
    <3>1. j \in 1..WalkBound /\ k \in 0..WalkBound /\ w[k] # NULL
      BY <2>2, <2>3
    <3>2. PICK b \in k..Len(q) :
            /\ w[k] = At(s, q, b)
            /\ \A l \in 0..(k - 1) : \E a \in l..(b - 1) : w[l] = At(s, q, a)
      BY <1>2, <3>1, WalkAscends
    <3>3. j \in 0..(k - 1)
      BY <2>3, <2>4, <3>1
    <3>4. PICK a \in j..(b - 1) : w[j] = At(s, q, a)
      BY <3>2, <3>3
    <3>5. a \in 1..Len(q) /\ b \in 1..Len(q) /\ a < b
      BY <1>4, <3>1, <3>2, <3>3, <3>4
    <3>6. w[j] = q[a] /\ w[k] = q[b]
      BY <3>2, <3>4, <3>5 DEF At
    <3> QED
      BY <2>2, <3>5, <3>6
  <2>5. IsInjective(c)
    <3>1. ASSUME NEW j \in DOMAIN c, NEW k \in DOMAIN c, j < k PROVE c[j] # c[k]
      <4>1. PICK a, b \in 1..Len(q) : a < b /\ c[j] = q[a] /\ c[k] = q[b]
        BY <2>4, <3>1
      <4>2. q[a] = q[b] => a = b
        BY <1>2 DEF OrderedBy
      <4> QED
        BY <1>4, <4>1, <4>2
    <3>2. \A j, k \in DOMAIN c : j \in Nat /\ k \in Nat
      BY <2>2
    <3>3. \A j, k \in DOMAIN c : j # k => j < k \/ k < j
      BY <3>2
    <3> QED
      BY <3>1, <3>3 DEF IsInjective
  <2>6. ASSUME NEW n PROVE n \in Range(c) <=> n \in Owned(s) /\ BelowHeight(n, i)
    <3>1. ASSUME n \in Range(c) PROVE n \in Owned(s) /\ BelowHeight(n, i)
      <4>1. PICK k \in DOMAIN c : n = c[k]
        BY <3>1 DEF Range
      <4>2. k \in 0..WalkBound /\ k \in 1..WalkBound /\ w[k] # NULL /\ n = w[k]
        BY <2>2, <2>3, <4>1
      <4>3. PICK b \in k..Len(q) : w[k] = At(s, q, b) /\ OnLevel(At(s, q, b), s, i)
        BY <1>2, <4>2, WalkAscends
      <4>4. b \in 1..Len(q) /\ n = q[b]
        BY <1>4, <4>2, <4>3 DEF At
      <4>5. n \in Nodes /\ owner[n] = s /\ OnLevel(n, s, i)
        BY <1>4, <4>2, <4>3, <4>4
      <4> QED
        BY <4>5, OnLevelFacts DEF Owned
    <3>2. ASSUME n \in Owned(s), BelowHeight(n, i) PROVE n \in Range(c)
      <4>1. n \in Nodes /\ owner[n] = s /\ OnLevel(n, s, i)
        BY <3>2 DEF Owned, OnLevel
      <4>2. PICK m \in 1..Len(q) : q[m] = n
        BY <1>4, <3>2
      <4>3. PICK k \in 1..m : k <= WalkBound /\ w[k] = q[m]
        BY <1>2, <4>1, <4>2, WalkCovers
      <4>4. k \in DOMAIN c /\ c[k] = n
        BY <1>4, <2>2, <2>3, <4>2, <4>3
      <4> QED
        BY <4>4 DEF Range
    <3> QED
      BY <3>1, <3>2
  <2>7. Range(c) = {n \in Range(q) : BelowHeight(n, i)}
    BY <1>5, <2>6
  <2> QED
    BY <1>4, <2>4, <2>5, <2>7
<1> QED
  BY <1>3, <1>5, <1>6

\* What stands next to a cell on level 0: nothing lies between them.
LEMMA NextOnZero ==
  ASSUME TypeOK, LinksConsistent, ListedInv, OrderInv,
         NEW s \in Sentinels, NEW x, OnLevel(x, s, 0)
  PROVE  /\ next[x][0] = NULL =>
              \A m \in Owned(s) : x # s /\ weight[m] <= weight[x]
         /\ next[x][0] # NULL =>
              /\ next[x][0] \in Owned(s)
              /\ \A m \in Owned(s) : \/ weight[next[x][0]] <= weight[m]
                                     \/ x # s /\ weight[m] <= weight[x]
<1>1. 0 \in Levels
  BY SizesAssumption DEF Levels
<1>2. PICK q : OrderedBy(s, q)
  BY DEF OrderInv
<1>3. /\ Len(q) \in Nat
      /\ \A k \in 1..Len(q) : q[k] \in Nodes /\ q[k] # s /\ q[k] # NULL
      /\ Owned(s) = {q[k] : k \in 1..Len(q)}
  BY <1>2, OrderFacts
<1>4. PICK p \in 0..Len(q) : x = At(s, q, p)
  BY <1>1, <1>2, Position
<1>5. next[x][0] = IF p < Len(q) THEN q[p + 1] ELSE NULL
  BY <1>2, <1>4, LevelZero
<1>6. \A n \in Nodes : weight[n] \in Nat
  BY SizesAssumption DEF TypeOK
<1>7. \A j, k \in 1..Len(q) : j <= k => weight[q[j]] <= weight[q[k]]
  <2>1. \A j, k \in 1..Len(q) : j < k => weight[q[j]] <= weight[q[k]]
    BY <1>2 DEF OrderedBy
  <2>2. \A k \in 1..Len(q) : weight[q[k]] \in Nat
    BY <1>3, <1>6
  <2> QED
    BY <2>1, <2>2
<1>8. \A j \in 1..Len(q) : j <= p => x # s /\ weight[q[j]] <= weight[x]
  BY <1>3, <1>4, <1>7 DEF At
<1>9. p < Len(q) => /\ p + 1 \in 1..Len(q)
                    /\ \A j \in 1..Len(q) : j <= p \/ weight[q[p + 1]] <= weight[q[j]]
  BY <1>3, <1>7
<1>10. CASE p < Len(q)
  <2>1. next[x][0] = q[p + 1] /\ q[p + 1] # NULL /\ q[p + 1] \in Owned(s)
    BY <1>3, <1>5, <1>9, <1>10
  <2>2. ASSUME NEW m \in Owned(s)
        PROVE  weight[next[x][0]] <= weight[m] \/ (x # s /\ weight[m] <= weight[x])
    BY <1>3, <1>8, <1>9, <1>10, <2>1
  <2> QED
    BY <2>1, <2>2
<1>11. CASE ~(p < Len(q))
  <2>1. next[x][0] = NULL /\ p = Len(q)
    BY <1>3, <1>5, <1>11
  <2>2. ASSUME NEW m \in Owned(s) PROVE x # s /\ weight[m] <= weight[x]
    BY <1>3, <1>8, <2>1
  <2> QED
    BY <2>1, <2>2
<1> QED
  BY <1>10, <1>11

-----------------------------------------------------------------------------
(* Steps that leave a list alone.                                          *)

\* An order stays one if weights, links and heights of its nodes stay.
LEMMA OrderKept ==
  ASSUME NEW s \in Sentinels, NEW q, OrderedBy(s, q),
         \A n \in Nodes : owner'[n] = s <=> owner[n] = s,
         \A k \in 1..Len(q) : weight'[q[k]] = weight[q[k]],
         \A k \in 1..Len(q) : \A i \in Levels :
           (BelowHeight(q[k], i)' => BelowHeight(q[k], i)) /\ next'[q[k]][i] = next[q[k]][i]
  PROVE  OrderedBy(s, q)'
<1>1. /\ q \in Seq(Nodes)
      /\ \A j, k \in 1..Len(q) : q[j] = q[k] => j = k
      /\ \A n \in Nodes : owner'[n] = s <=> \E k \in 1..Len(q) : q[k] = n
      /\ \A j, k \in 1..Len(q) : j < k => weight'[q[j]] <= weight'[q[k]]
  BY DEF OrderedBy
<1>2. ASSUME NEW i \in Levels, NEW j \in 1..Len(q), NEW k \in 1..Len(q),
             BelowHeight(q[j], i)', next'[q[j]][i] = q[k]
      PROVE  j < k
  <2>1. BelowHeight(q[j], i) /\ next[q[j]][i] = q[k]
    BY <1>2
  <2> QED
    BY <2>1 DEF OrderedBy
<1> QED
  BY <1>1, <1>2 DEF OrderedBy, BelowHeight

\* All orders stay if only a node changes that is in no list.
LEMMA OutsideOrder ==
  ASSUME NEW n \in Nodes, owner[n] = NULL, owner' = owner,
         \A m \in Nodes \ {n} : weight'[m] = weight[m],
         \A x \in Cells \ {n} : next'[x] = next[x] /\ prev'[x] = prev[x],
         NEW s \in Sentinels, NEW q, OrderedBy(s, q)
  PROVE  OrderedBy(s, q)'
<1>1. \A k \in 1..Len(q) : q[k] \in Nodes \ {n} /\ q[k] \in Cells \ {n}
  BY OrderFacts DEF Cells
<1>2. \A k \in 1..Len(q) : \A i \in Levels :
        (BelowHeight(q[k], i)' => BelowHeight(q[k], i)) /\ next'[q[k]][i] = next[q[k]][i]
  BY <1>1 DEF BelowHeight
<1> QED
  BY <1>1, <1>2, OrderKept

-----------------------------------------------------------------------------
(* Removing a node.                                                        *)

\* The lists that the removed node is not in keep their order.
LEMMA RemoveOther ==
  ASSUME TypeOK, LinksConsistent, FreshUnlinked, NEW n \in Nodes,
         owner[n] # NULL \/ n \in fresh, SkipListRemove(n),
         owner' = [owner EXCEPT ![n] = NULL],
         \A m \in Nodes \ {n} : weight'[m] = weight[m],
         NEW s \in Sentinels, owner[n] # s, NEW q, OrderedBy(s, q)
  PROVE  OrderedBy(s, q)'
<1>1. \A k \in 1..Len(q) : q[k] \in Nodes /\ q[k] # n /\ owner[q[k]] = s
  BY OrderFacts
<1>2. \A m \in Nodes : owner'[m] = s <=> owner[m] = s
  BY NodesAssumption DEF TypeOK
<1>3. ASSUME NEW k \in 1..Len(q), NEW i \in Levels
      PROVE  (BelowHeight(q[k], i)' => BelowHeight(q[k], i)) /\ next'[q[k]][i] = next[q[k]][i]
  <2>1. q[k] \in Nodes /\ q[k] \in Cells /\ owner[q[k]] = s
    BY <1>1 DEF Cells
  <2>2. \A j \in 0..i : prev'[q[k]][j] = NULL <=> prev[q[k]][j] = NULL
    BY <2>1, LevelsBelow, RemoveHeights
  <2>3. BelowHeight(q[k], i)' => BelowHeight(q[k], i)
    BY <2>2 DEF BelowHeight
  <2>4. next'[q[k]][i] = IF BelowHeight(n, i) /\ q[k] = prev[n][i] THEN next[n][i] ELSE next[q[k]][i]
    BY <2>1 DEF SkipListRemove
  <2>5. ~(BelowHeight(n, i) /\ q[k] = prev[n][i])
    <3>1. SUFFICES ASSUME BelowHeight(n, i), q[k] = prev[n][i] PROVE FALSE
      OBVIOUS
    <3>2. owner[n] \in Sentinels /\ OnLevel(n, owner[n], i)
      BY <2>1, <3>1, RemoveHeights
    <3>3. OnLevel(q[k], owner[n], i)
      BY <3>1, <3>2, PrevLinked
    <3> QED
      BY <2>1, <3>2, <3>3, OnLevelFacts
  <2> QED
    BY <2>3, <2>4, <2>5
<1> QED
  BY <1>1, <1>2, <1>3, OrderKept

\* The list that a node is removed from keeps its order without the node.
LEMMA RemoveOrder ==
  ASSUME TypeOK, LinksConsistent, FreshUnlinked, NEW n \in Nodes,
         owner[n] # NULL \/ n \in fresh, SkipListRemove(n),
         owner' = [owner EXCEPT ![n] = NULL],
         \A m \in Nodes \ {n} : weight'[m] = weight[m],
         NEW s \in Sentinels, owner[n] = s, NEW q, OrderedBy(s, q),
         NEW p \in 1..Len(q), q[p] = n
  PROVE  OrderedBy(s, SL!RemoveAt(q, p))'
<1> DEFINE r == SL!RemoveAt(q, p)
           f(k) == IF k < p THEN k ELSE k + 1
<1>1. /\ q \in Seq(Nodes) /\ Len(q) \in Nat
      /\ \A k \in 1..Len(q) : q[k] \in Nodes /\ owner[q[k]] = s
      /\ \A m \in Nodes : owner[m] = s => \E k \in 1..Len(q) : q[k] = m
  BY OrderFacts
<1>2. \A j, k \in 1..Len(q) : q[j] = q[k] => j = k
  BY DEF OrderedBy
<1>3. /\ r \in Seq(Nodes) /\ Len(r) = Len(q) - 1 /\ Len(r) \in Nat
      /\ \A k \in 1..Len(r) : r[k] = q[f(k)]
  <2>1. /\ r \in Seq(Nodes) /\ Len(r) = Len(q) - 1
        /\ \A k \in 1..(Len(q) - 1) : r[k] = IF k < p THEN q[k] ELSE q[k + 1]
    BY <1>1, RemoveAtIs
  <2> HIDE DEF r
  <2>2. \A k \in 1..(Len(q) - 1) : r[k] = q[f(k)]
    BY <2>1
  <2>3. Len(q) - 1 \in Nat
    BY <1>1
  <2> QED
    BY <2>1, <2>2, <2>3
<1> HIDE DEF r
<1>4. /\ \A k \in 1..Len(r) : f(k) \in 1..Len(q) /\ f(k) # p
      /\ \A j, k \in 1..Len(r) : (f(j) < f(k) <=> j < k) /\ (f(j) = f(k) => j = k)
      /\ \A l \in 1..Len(q) : l # p => \E k \in 1..Len(r) : l = f(k)
  <2>1. ASSUME NEW l \in 1..Len(q), l # p PROVE \E k \in 1..Len(r) : l = f(k)
    <3>1. CASE l < p
      BY <1>1, <1>3, <3>1
    <3>2. CASE l > p
      <4>1. l - 1 \in 1..Len(r) /\ f(l - 1) = l
        BY <1>1, <1>3, <3>2
      <4> QED
        BY <4>1
    <3> QED
      BY <1>1, <2>1, <3>1, <3>2
  <2> QED
    BY <1>1, <1>3, <2>1
<1> HIDE DEF f
<1>5. \A k \in 1..Len(r) : r[k] \in Nodes /\ r[k] \in Cells /\ r[k] # n
  BY <1>1, <1>2, <1>3, <1>4 DEF Cells
<1>6. ASSUME NEW j \in 1..Len(r), NEW k \in 1..Len(r), r[j] = r[k] PROVE j = k
  <2>1. q[f(j)] = q[f(k)] /\ f(j) \in 1..Len(q) /\ f(k) \in 1..Len(q)
    BY <1>3, <1>4, <1>6
  <2>2. f(j) = f(k)
    BY <1>2, <2>1
  <2> QED
    BY <1>4, <2>2
<1>7. ASSUME NEW m \in Nodes PROVE owner'[m] = s <=> \E k \in 1..Len(r) : r[k] = m
  <2>1. owner'[m] = s <=> m # n /\ owner[m] = s
    BY NodesAssumption DEF TypeOK
  <2>2. ASSUME m # n, owner[m] = s PROVE \E k \in 1..Len(r) : r[k] = m
    <3>1. PICK l \in 1..Len(q) : q[l] = m
      BY <1>1, <2>2
    <3>2. PICK k \in 1..Len(r) : l = f(k)
      BY <1>4, <2>2, <3>1
    <3> QED
      BY <1>3, <3>1, <3>2
  <2>3. ASSUME NEW k \in 1..Len(r), r[k] = m PROVE m # n /\ owner[m] = s
    BY <1>1, <1>3, <1>4, <1>5, <2>3
  <2> QED
    BY <2>1, <2>2, <2>3
<1>8. ASSUME NEW j \in 1..Len(r), NEW k \in 1..Len(r), j < k
      PROVE  weight'[r[j]] <= weight'[r[k]]
  <2>1. f(j) < f(k) /\ r[j] = q[f(j)] /\ r[k] = q[f(k)]
    BY <1>3, <1>4, <1>8
  <2>2. weight[r[j]] <= weight[r[k]]
    BY <1>4, <2>1 DEF OrderedBy
  <2> QED
    BY <1>5, <2>2
<1>9. ASSUME NEW i \in Levels, NEW j \in 1..Len(r), NEW k \in 1..Len(r),
             BelowHeight(r[j], i)', next'[r[j]][i] = r[k]
      PROVE  j < k
  <2>1. r[j] = q[f(j)] /\ r[k] = q[f(k)] /\ f(j) \in 1..Len(q) /\ f(k) \in 1..Len(q)
        /\ f(j) \in Nat /\ f(k) \in Nat
    BY <1>3, <1>4
  <2>2. BelowHeight(r[j], i)
    <3>1. \A l \in 0..i : prev'[r[j]][l] = NULL <=> prev[r[j]][l] = NULL
      BY <1>5, LevelsBelow, RemoveHeights
    <3> QED
      BY <1>9, <3>1 DEF BelowHeight
  <2>3. next'[r[j]][i] = IF BelowHeight(n, i) /\ r[j] = prev[n][i] THEN next[n][i] ELSE next[r[j]][i]
    BY <1>5 DEF SkipListRemove
  <2>4. CASE BelowHeight(n, i) /\ r[j] = prev[n][i]
    <3>1. OnLevel(n, s, i)
      BY <2>4 DEF OnLevel
    <3>2. next[r[j]][i] = n
      BY <2>4, <3>1, PrevLinked
    <3>3. f(j) < p
      BY <2>1, <2>2, <3>2 DEF OrderedBy
    <3>4. next[n][i] = r[k]
      BY <1>9, <2>3, <2>4
    <3>5. p < f(k)
      BY <2>1, <2>4, <3>4 DEF OrderedBy
    <3>6. f(j) < f(k)
      BY <2>1, <3>3, <3>5
    <3> QED
      BY <1>4, <3>6
  <2>5. CASE ~(BelowHeight(n, i) /\ r[j] = prev[n][i])
    <3>1. next[r[j]][i] = r[k]
      BY <1>9, <2>3, <2>5
    <3>2. f(j) < f(k)
      BY <2>1, <2>2, <3>1 DEF OrderedBy
    <3> QED
      BY <1>4, <3>2
  <2> QED
    BY <2>4, <2>5
<1>10. OrderedBy(s, r)'
  BY <1>3, <1>6, <1>7, <1>8, <1>9 DEF OrderedBy, BelowHeight
<1> QED
  BY <1>10 DEF r

-----------------------------------------------------------------------------
(* Inserting a node.                                                       *)

\* The lists that the inserted node does not go to keep their order.
LEMMA LinkOther ==
  ASSUME TypeOK, LinksConsistent, FindInv, Link,
         NEW s \in Sentinels, call.sentinel # s, NEW q, OrderedBy(s, q)
  PROVE  OrderedBy(s, q)'
<1>1. /\ call.node \in Nodes /\ call.sentinel \in Sentinels /\ owner[call.node] = NULL
      /\ owner' = [owner EXCEPT ![call.node] = call.sentinel] /\ weight' = weight
  BY SizesAssumption, AllFound DEF Link, Levels
<1>2. \A k \in 1..Len(q) : q[k] \in Nodes /\ q[k] # call.node /\ owner[q[k]] = s
  BY <1>1, OrderFacts
<1>3. \A m \in Nodes : owner'[m] = s <=> owner[m] = s
  BY <1>1, NodesAssumption DEF TypeOK
<1>4. ASSUME NEW k \in 1..Len(q), NEW i \in Levels
      PROVE  (BelowHeight(q[k], i)' => BelowHeight(q[k], i)) /\ next'[q[k]][i] = next[q[k]][i]
  <2>1. q[k] \in Nodes /\ q[k] \in Cells /\ owner[q[k]] = s /\ q[k] # call.node
    BY <1>2 DEF Cells
  <2>2. BelowHeight(q[k], i)' => BelowHeight(q[k], i)
    BY <2>1, InsertHeights
  <2>3. q[k] # path[i]
    <3>1. OnLevel(path[i], call.sentinel, i)
      BY AllFound DEF Found
    <3> QED
      BY <1>1, <2>1, <3>1, OnLevelFacts
  <2> QED
    BY <2>1, <2>2, <2>3, InsertCells
<1> QED
  BY <1>1, <1>3, <1>4, OrderKept

\* The search has found the place behind all lighter nodes.
LEMMA LinkPlace ==
  ASSUME TypeOK, LinksConsistent, ListedInv, FindInv, Link,
         NEW q, OrderedBy(call.sentinel, q)
  PROVE  \E p \in 1..(Len(q) + 1) :
           \A j \in 1..Len(q) : weight[q[j]] < weight[call.node] <=> j < p
<1> DEFINE s == call.sentinel
           n == call.node
<1>1. 0 \in Levels
  BY SizesAssumption DEF Levels
<1>2. s \in Sentinels /\ n \in Nodes /\ OnLevel(path[0], s, 0) /\ path[0] \in Cells
      /\ (path[0] # s => weight[path[0]] < weight[n])
      /\ (next[path[0]][0] # NULL => weight[n] <= weight[next[path[0]][0]])
  BY <1>1, AllFound DEF Found
<1>3. Len(q) \in Nat /\ \A k \in 1..Len(q) : q[k] \in Nodes /\ q[k] # s /\ q[k] # NULL
  BY <1>2, OrderFacts
<1>4. PICK p \in 0..Len(q) : path[0] = At(s, q, p)
  BY <1>1, <1>2, Position
<1>5. next[path[0]][0] = IF p < Len(q) THEN q[p + 1] ELSE NULL
  BY <1>2, <1>4, LevelZero
<1>6. \A m \in Nodes : weight[m] \in Nat
  BY SizesAssumption DEF TypeOK
<1>7. weight[n] \in Nat /\ \A k \in 1..Len(q) : weight[q[k]] \in Nat
  BY <1>2, <1>3, <1>6
<1>8. \A j, k \in 1..Len(q) : j < k => weight[q[j]] <= weight[q[k]]
  BY DEF OrderedBy
<1> HIDE DEF s, n
<1>9. ASSUME NEW j \in 1..Len(q), j < p + 1 PROVE weight[q[j]] < weight[n]
  <2>1. p \in 1..Len(q) /\ path[0] = q[p]
    BY <1>3, <1>4, <1>9 DEF At
  <2>2. weight[q[p]] < weight[n]
    BY <1>2, <1>3, <2>1
  <2>3. CASE j = p
    BY <2>2, <2>3
  <2>4. CASE j < p
    BY <1>7, <1>8, <2>1, <2>2, <2>4
  <2> QED
    BY <1>3, <1>9, <2>3, <2>4
<1>10. ASSUME NEW j \in 1..Len(q), ~(j < p + 1) PROVE ~(weight[q[j]] < weight[n])
  <2>1. p < Len(q) /\ p + 1 \in 1..Len(q)
    BY <1>3, <1>10
  <2>2. weight[n] <= weight[q[p + 1]]
    BY <1>2, <1>3, <1>5, <2>1
  <2>3. CASE j = p + 1
    BY <1>7, <2>2, <2>3
  <2>4. CASE j > p + 1
    <3>1. weight[q[p + 1]] <= weight[q[j]]
      BY <1>8, <2>1, <2>4
    <3> QED
      BY <1>7, <2>1, <2>2, <3>1
  <2> QED
    BY <1>3, <1>10, <2>3, <2>4
<1>11. p + 1 \in 1..(Len(q) + 1)
  BY <1>3
<1> QED
  BY <1>9, <1>10, <1>11 DEF n

\* The list that a node is inserted in keeps its order with the node at that place.
LEMMA LinkOrder ==
  ASSUME TypeOK, LinksConsistent, FindInv, Link,
         NEW q, OrderedBy(call.sentinel, q), NEW s, s = call.sentinel, NEW n, n = call.node,
         NEW p \in 1..(Len(q) + 1),
         \A j \in 1..Len(q) : weight[q[j]] < weight[n] <=> j < p
  PROVE  OrderedBy(s, SL!InsertAt(q, p, n))'
<1> DEFINE r == SL!InsertAt(q, p, n)
           f(k) == IF k < p THEN k ELSE k - 1
<1>1. /\ n \in Nodes /\ s \in Sentinels /\ owner[n] = NULL /\ weight' = weight
      /\ owner' = [owner EXCEPT ![n] = s]
  BY SizesAssumption, AllFound DEF Link, Levels
<1>2. /\ q \in Seq(Nodes) /\ Len(q) \in Nat
      /\ \A k \in 1..Len(q) : q[k] \in Nodes /\ owner[q[k]] = s /\ q[k] # n
      /\ \A m \in Nodes : owner[m] = s => \E k \in 1..Len(q) : q[k] = m
      /\ \A k \in 1..Len(q) : weight[q[k]] \in Nat
      /\ weight[n] \in Nat
  BY <1>1, OrderFacts, SizesAssumption, NodesAssumption DEF TypeOK
<1>3. \A j, k \in 1..Len(q) : q[j] = q[k] => j = k
  BY DEF OrderedBy
<1>4. /\ r \in Seq(Nodes) /\ Len(r) = Len(q) + 1
      /\ r[p] = n /\ \A k \in 1..(Len(q) + 1) : k # p => r[k] = q[f(k)]
  <2>1. /\ r \in Seq(Nodes) /\ Len(r) = Len(q) + 1
        /\ \A k \in 1..(Len(q) + 1) :
             r[k] = IF k < p THEN q[k] ELSE IF k = p THEN n ELSE q[k - 1]
    <3>1. n \in Nodes /\ q \in Seq(Nodes) /\ p \in 1..(Len(q) + 1)
      BY <1>1, <1>2
    <3> QED
      BY ONLY <3>1, InsertAtIs
  <2> HIDE DEF r
  <2>2. \A k \in 1..(Len(q) + 1) : k # p => r[k] = q[f(k)]
    BY <2>1
  <2>3. r[p] = n
    BY <1>2, <2>1
  <2> QED
    BY <2>1, <2>2, <2>3
<1> HIDE DEF r
<1>5. /\ \A k \in 1..Len(r) : k # p => f(k) \in 1..Len(q) /\ f(k) \in Nat /\ (f(k) < p <=> k < p)
      /\ \A j, k \in 1..Len(r) : j # p /\ k # p =>
           (f(j) < f(k) => j < k) /\ (j < k => f(j) < f(k)) /\ (f(j) = f(k) => j = k)
      /\ \A l \in 1..Len(q) : \E k \in 1..Len(r) : k # p /\ l = f(k)
  <2>1. ASSUME NEW l \in 1..Len(q) PROVE \E k \in 1..Len(r) : k # p /\ l = f(k)
    <3>1. CASE l < p
      BY <1>2, <1>4, <3>1
    <3>2. CASE l >= p
      <4>1. l + 1 \in 1..Len(r) /\ f(l + 1) = l /\ l + 1 # p
        BY <1>2, <1>4, <3>2
      <4> QED
        BY <4>1
    <3> QED
      BY <1>2, <3>1, <3>2
  <2> QED
    BY <1>2, <1>4, <2>1
<1> HIDE DEF f
<1>6. \A k \in 1..Len(r) : /\ r[k] \in Nodes /\ r[k] \in Cells
                           /\ r[k] = n <=> k = p
                           /\ k # p => r[k] = q[f(k)] /\ owner[r[k]] = s
                           /\ k # p => (weight[r[k]] < weight[n] <=> k < p)
                           /\ weight[r[k]] \in Nat
  BY <1>1, <1>2, <1>4, <1>5 DEF Cells
<1>7. ASSUME NEW j \in 1..Len(r), NEW k \in 1..Len(r), r[j] = r[k] PROVE j = k
  <2>1. CASE j = p \/ k = p
    BY <1>6, <1>7, <2>1
  <2>2. CASE j # p /\ k # p
    <3>1. q[f(j)] = q[f(k)] /\ f(j) \in 1..Len(q) /\ f(k) \in 1..Len(q)
      BY <1>5, <1>6, <1>7, <2>2
    <3>2. f(j) = f(k)
      BY <1>3, <3>1
    <3> QED
      BY <1>5, <2>2, <3>2
  <2> QED
    BY <2>1, <2>2
<1>8. ASSUME NEW m \in Nodes PROVE owner'[m] = s <=> \E k \in 1..Len(r) : r[k] = m
  <2>1. owner'[m] = s <=> m = n \/ owner[m] = s
    BY <1>1 DEF TypeOK
  <2>2. ASSUME owner[m] = s PROVE \E k \in 1..Len(r) : r[k] = m
    <3>1. PICK l \in 1..Len(q) : q[l] = m
      BY <1>2, <2>2
    <3>2. PICK k \in 1..Len(r) : k # p /\ l = f(k)
      BY <1>5, <3>1
    <3> QED
      BY <1>6, <3>1, <3>2
  <2>3. p \in 1..Len(r)
    BY <1>2, <1>4
  <2>4. ASSUME NEW k \in 1..Len(r), r[k] = m PROVE m = n \/ owner[m] = s
    BY <1>6, <2>4
  <2> QED
    BY <1>4, <2>1, <2>2, <2>3, <2>4
<1>9. ASSUME NEW j \in 1..Len(r), NEW k \in 1..Len(r), j < k
      PROVE  weight'[r[j]] <= weight'[r[k]]
  <2>1. CASE j # p /\ k # p
    <3>1. f(j) < f(k) /\ r[j] = q[f(j)] /\ r[k] = q[f(k)]
          /\ f(j) \in 1..Len(q) /\ f(k) \in 1..Len(q)
      BY <1>5, <1>6, <1>9, <2>1
    <3> QED
      BY <1>1, <3>1 DEF OrderedBy
  <2>2. CASE j = p
    <3>1. k # p /\ ~(k < p) /\ r[j] = n
      BY <1>2, <1>4, <1>9, <2>2
    <3> QED
      BY <1>1, <1>2, <1>6, <3>1
  <2>3. CASE k = p
    <3>1. j # p /\ j < p /\ r[k] = n
      BY <1>2, <1>4, <1>9, <2>3
    <3> QED
      BY <1>1, <1>2, <1>6, <3>1
  <2> QED
    BY <2>1, <2>2, <2>3
<1>10. ASSUME NEW i \in Levels, NEW j \in 1..Len(r), NEW k \in 1..Len(r),
              BelowHeight(r[j], i)', next'[r[j]][i] = r[k]
       PROVE  j < k
  <2>1. Found(i) /\ path[i] \in Cells /\ path[i] # n /\ r[j] \in Nodes /\ r[j] \in Cells
        /\ r[k] \in Nodes /\ r[k] # NULL /\ j \in Nat /\ k \in Nat /\ p \in Nat
    BY <1>2, <1>6, AllFound, NodesAssumption
  <2>2. CASE j = p
    <3>1. r[j] = n /\ i < call.height
      BY <1>4, <1>10, <2>1, <2>2, InsertHeights
    <3>2. r[k] = next[path[i]][i]
      BY <1>10, <2>1, <3>1, InsertCells
    <3>3. r[k] # n /\ weight[n] <= weight[r[k]]
      BY <2>1, <3>2, AfterFound
    <3>4. k # p /\ ~(k < p)
      BY <1>2, <1>6, <3>3
    <3> QED
      BY <2>1, <2>2, <3>4
  <2>3. CASE j # p /\ i < call.height /\ r[j] = path[i]
    <3>1. r[j] # n /\ r[k] = n
      BY <1>6, <1>10, <2>1, <2>3, InsertCells
    <3>2. k = p
      BY <1>6, <3>1
    <3>3. r[j] # s
      BY <1>1, <2>1, NodesAssumption
    <3>4. weight[r[j]] < weight[n]
      BY <2>1, <2>3, <3>3 DEF Found
    <3> QED
      BY <1>6, <2>3, <3>2, <3>4
  <2>4. CASE j # p /\ ~(i < call.height /\ r[j] = path[i])
    <3>1. r[j] # n /\ owner[r[j]] = s /\ r[j] = q[f(j)]
      BY <1>6, <2>4
    <3>2. next[r[j]][i] = r[k]
      BY <1>10, <2>1, <2>4, <3>1, InsertCells
    <3>3. BelowHeight(r[j], i)
      BY <1>10, <2>1, <3>1, InsertHeights
    <3>4. OnLevel(r[k], s, i)
      <4>1. OnLevel(r[j], s, i)
        BY <2>1, <3>1, <3>3 DEF OnLevel
      <4> QED
        BY <1>1, <2>1, <3>2, <4>1, NextLinked
    <3>5. owner[r[k]] = s
      BY <1>1, <2>1, <3>4, OnLevelFacts
    <3>6. k # p
      BY <1>1, <1>4, <3>5, NodesAssumption
    <3>7. r[k] = q[f(k)] /\ f(j) \in 1..Len(q) /\ f(k) \in 1..Len(q)
      BY <1>5, <1>6, <2>4, <3>6
    <3>8. f(j) < f(k)
      BY <3>1, <3>2, <3>3, <3>7 DEF OrderedBy
    <3> QED
      BY <1>5, <2>4, <3>6, <3>8
  <2> QED
    BY <2>2, <2>3, <2>4
<1>11. OrderedBy(s, r)'
  BY <1>4, <1>7, <1>8, <1>9, <1>10 DEF OrderedBy, BelowHeight
<1> QED
  BY <1>11 DEF r

-----------------------------------------------------------------------------
(* The lists before and after a step.                                      *)

\* In a state of the invariant the chain of level 0 is the order.
LEMMA ChainsAre ==
  TypeOK /\ LinksConsistent /\ ListedInv =>
    \A s \in Sentinels : \A q : OrderedBy(s, q) => Chain(s, 0) = q
BY ChainZero

\* The abstract list of s holds the nodes that callers put in.
LEMMA ElementsAre ==
  ASSUME OInv, NEW s \in Sentinels
  PROVE  SL!Elements(s) = Owned(s)
<1>1. PICK q : OrderedBy(s, q)
  BY DEF OInv, OrderInv
<1>2. Chain(s, 0) = q
  BY <1>1, ChainZero DEF OInv, IInv
<1>3. DOMAIN q = 1..Len(q) /\ Owned(s) = {q[k] : k \in 1..Len(q)}
  BY <1>1, OrderFacts
<1> QED
  BY <1>2, <1>3 DEF SL!Elements

\* A step that keeps every order keeps the lists.
LEMMA KeptLists ==
  ASSUME OInv, TypeOK', LinksConsistent', ListedInv',
         \A s \in Sentinels : \A q : OrderedBy(s, q) => OrderedBy(s, q)'
  PROVE  /\ OrderInv'
         /\ [s \in Sentinels |-> Chain(s, 0)]' = [s \in Sentinels |-> Chain(s, 0)]
<1>1. (TypeOK /\ LinksConsistent /\ ListedInv =>
         \A s \in Sentinels : \A q : OrderedBy(s, q) => Chain(s, 0) = q)'
  BY ChainsAre, PTL
<1>2. ASSUME NEW s \in Sentinels
      PROVE  (\E q : OrderedBy(s, q)') /\ Chain(s, 0)' = Chain(s, 0)
  <2>1. PICK q : OrderedBy(s, q)
    BY DEF OInv, OrderInv
  <2>2. OrderedBy(s, q)' /\ Chain(s, 0) = q
    BY <2>1, ChainZero DEF OInv, IInv
  <2>3. Chain(s, 0)' = q
    BY <1>1, <2>2
  <2> QED
    BY <2>2, <2>3
<1>3. OrderInv'
  BY <1>2 DEF OrderInv
<1>4. \A s \in Sentinels : Chain(s, 0)' = Chain(s, 0)
  BY <1>2
<1> QED
  BY <1>3, <1>4

\* A search and a stuttering step keep the lists.
LEMMA SameLists ==
  ASSUME OInv, IInv', UNCHANGED <<weight, next, prev, owner>>
  PROVE  /\ OrderInv' /\ ListedInv'
         /\ [s \in Sentinels |-> Chain(s, 0)]' = [s \in Sentinels |-> Chain(s, 0)]
<1>1. ListedInv'
  BY DEF OInv, ListedInv
<1>2. ASSUME NEW s \in Sentinels, NEW q, OrderedBy(s, q) PROVE OrderedBy(s, q)'
  BY <1>2 DEF OrderedBy, BelowHeight
<1> QED
  BY <1>1, <1>2, KeptLists DEF IInv

\* Removing a node removes it from its list.
LEMMA RemoveLists ==
  ASSUME OInv, NEW n \in Nodes, owner[n] # NULL \/ n \in fresh, SkipListRemove(n),
         owner' = [owner EXCEPT ![n] = NULL],
         \A m \in Nodes \ {n} : weight'[m] = weight[m], IInv'
  PROVE  /\ OrderInv' /\ ListedInv'
         /\ [s \in Sentinels |-> Chain(s, 0)]' = SL!Without(n)
<1> USE DEF OInv, IInv
<1>1. ListedInv'
  <2>1. ASSUME NEW m \in Nodes, owner'[m] # NULL PROVE prev'[m][0] # NULL
    <3>1. m # n /\ owner[m] # NULL
      BY <2>1 DEF TypeOK
    <3>2. prev[m][0] # NULL
      BY <3>1 DEF ListedInv
    <3>3. 0 \in Levels
      BY SizesAssumption DEF Levels
    <3> QED
      BY <3>2, <3>3, RemoveHeights
  <2> QED
    BY <2>1 DEF ListedInv
<1>2. (TypeOK /\ LinksConsistent /\ ListedInv =>
         \A s \in Sentinels : \A q : OrderedBy(s, q) => Chain(s, 0) = q)'
  BY ChainsAre, PTL
<1> DEFINE without(s) == IF n \in SL!Elements(s)
                         THEN SL!RemoveAt(Chain(s, 0), CHOOSE k \in DOMAIN Chain(s, 0) : Chain(s, 0)[k] = n)
                         ELSE Chain(s, 0)
<1>3. ASSUME NEW s \in Sentinels
      PROVE  (\E q : OrderedBy(s, q)') /\ Chain(s, 0)' = without(s)
  <2>1. PICK q : OrderedBy(s, q)
    BY DEF OrderInv
  <2>2. Chain(s, 0) = q
    BY <2>1, ChainZero
  <2>3. n \in SL!Elements(s) <=> owner[n] = s
    BY ElementsAre DEF Owned
  <2>4. CASE owner[n] = s
    <3>1. DOMAIN q = 1..Len(q) /\ \E k \in 1..Len(q) : q[k] = n
      BY <2>1, <2>4, OrderFacts
    <3>2. PICK p \in 1..Len(q) : q[p] = n /\ p = CHOOSE k \in DOMAIN q : q[k] = n
      BY <3>1
    <3>3. OrderedBy(s, SL!RemoveAt(q, p))'
      BY <2>1, <2>4, <3>2, RemoveOrder
    <3>4. without(s) = SL!RemoveAt(q, p)
      BY <2>2, <2>3, <2>4, <3>2
    <3> DEFINE r == SL!RemoveAt(q, p)
    <3>5. PICK u : u = r
      OBVIOUS
    <3>6. OrderedBy(s, u)'
      BY <3>3, <3>5
    <3>7. Chain(s, 0)' = u
      BY <1>1, <1>2, <3>6
    <3> QED
      BY <3>4, <3>5, <3>6, <3>7
  <2>5. CASE owner[n] # s
    <3>1. OrderedBy(s, q)'
      BY <2>1, <2>5, RemoveOther
    <3>2. Chain(s, 0)' = q
      BY <1>1, <1>2, <3>1
    <3> QED
      BY <2>2, <2>3, <2>5, <3>1, <3>2
  <2> QED
    BY <2>4, <2>5
<1>4. OrderInv'
  BY <1>3 DEF OrderInv
<1>5. \A s \in Sentinels : Chain(s, 0)' = without(s)
  BY <1>3
<1>6. SL!Without(n) = [s \in Sentinels |-> without(s)]
  BY DEF SL!Without
<1> HIDE DEF without
<1> QED
  BY <1>1, <1>4, <1>5, <1>6

\* Linking a node inserts it behind the lighter nodes of its list.
LEMMA LinkLists ==
  ASSUME OInv, Link, IInv'
  PROVE  OrderInv' /\ ListedInv' /\ SL!InsertNode(call.sentinel, call.node)
<1>0. (TypeOK /\ LinksConsistent /\ ListedInv =>
         \A s \in Sentinels : \A q : OrderedBy(s, q) => Chain(s, 0) = q)'
  BY ChainsAre, PTL
<1> USE DEF OInv, IInv
<1>1. PICK s, n : s = call.sentinel /\ n = call.node
  OBVIOUS
<1>2. 0 \in Levels
  BY SizesAssumption DEF Levels
<1>3. /\ s \in Sentinels /\ n \in Nodes /\ owner[n] = NULL /\ call.height \in 1..MaxLevels
      /\ owner' = [owner EXCEPT ![n] = s] /\ weight' = weight /\ ret' = NoResult
  BY <1>1, <1>2, AllFound DEF Link, AnswerInv
<1>4. ListedInv'
  <2>1. ASSUME NEW m \in Nodes, owner'[m] # NULL PROVE prev'[m][0] # NULL
    <3>1. BelowHeight(m, 0)' <=> IF m = n THEN 0 < call.height ELSE BelowHeight(m, 0)
      BY <1>1, <1>2, InsertHeights
    <3>2. m # n => BelowHeight(m, 0)
      BY <1>3, <2>1 DEF ListedInv, BelowHeight, TypeOK
    <3>3. 0 < call.height
      BY <1>3
    <3> QED
      BY <3>1, <3>2, <3>3 DEF BelowHeight
  <2> QED
    BY <2>1 DEF ListedInv
<1>5. TypeOK' /\ LinksConsistent' /\ ListedInv' =>
        \A t \in Sentinels : \A q : OrderedBy(t, q)' => Chain(t, 0)' = q
  BY <1>0
<1>6. ASSUME NEW t \in Sentinels, t # s
      PROVE  (\E q : OrderedBy(t, q)') /\ Chain(t, 0)' = Chain(t, 0)
  <2>1. PICK q : OrderedBy(t, q)
    BY DEF OrderInv
  <2>2. OrderedBy(t, q)' /\ Chain(t, 0) = q
    BY <1>1, <1>6, <2>1, ChainZero, LinkOther
  <2> QED
    BY <1>4, <1>5, <2>2
<1>7. PICK q : OrderedBy(s, q) /\ Chain(s, 0) = q
  <2>1. \E q : OrderedBy(s, q)
    BY <1>3 DEF OrderInv
  <2> QED
    BY <1>3, <2>1, ChainZero
<1>8. PICK p \in 1..(Len(q) + 1) : \A j \in 1..Len(q) : weight[q[j]] < weight[n] <=> j < p
  BY <1>1, <1>7, LinkPlace
<1>9. PICK u : u = SL!InsertAt(q, p, n)
  OBVIOUS
<1>10. OrderedBy(s, u)'
  BY <1>1, <1>7, <1>8, <1>9, LinkOrder
<1>11. Chain(s, 0)' = u
  BY <1>3, <1>4, <1>5, <1>10
<1>12. OrderInv'
  BY <1>6, <1>10 DEF OrderInv
<1> DEFINE L == [t \in Sentinels |-> Chain(t, 0)]
<1>13. [t \in Sentinels |-> Chain(t, 0)]' = [L EXCEPT ![s] = SL!InsertAt(q, p, n)]
  <2>1. \A t \in Sentinels : Chain(t, 0)' = IF t = s THEN u ELSE Chain(t, 0)
    BY <1>6, <1>11
  <2> QED
    BY <1>9, <2>1
<1>14. \A t \in Sentinels : n \notin SL!Elements(t)
  BY <1>3, ElementsAre, NodesAssumption DEF Owned
<1>15. L[s] = q /\ DOMAIN q = 1..Len(q)
  BY <1>3, <1>7, OrderFacts
<1>16. SL!NoResult = NoResult
  BY DEF SL!NoResult, NoResult
<1>17. [L EXCEPT ![s] = SL!InsertAt(q, p, n)] = [L EXCEPT ![s] = SL!InsertAt(@, p, n)]
  BY <1>15
<1>18. SL!InsertNode(s, n)
  <2>1. \E k \in 1..(Len(L[s]) + 1) :
          /\ \A j \in DOMAIN L[s] : weight[L[s][j]] < weight[n] <=> j < k
          /\ [t \in Sentinels |-> Chain(t, 0)]' = [L EXCEPT ![s] = SL!InsertAt(@, k, n)]
    BY <1>8, <1>13, <1>15, <1>17
  <2> QED
    BY <1>3, <1>14, <1>16, <2>1 DEF SL!InsertNode
<1> QED
  BY <1>1, <1>4, <1>12, <1>18

-----------------------------------------------------------------------------
(* The search.                                                             *)

\* Distances are as large as weights at most.
LEMMA DistanceType ==
  ASSUME TypeOK, NEW n \in Nodes, NEW w \in 0..SizeMax
  PROVE  /\ Distance(n, w) \in 0..SizeMax
         /\ weight[n] >= w => Distance(n, w) = weight[n] - w
         /\ weight[n] < w => Distance(n, w) = w - weight[n]
<1>1. weight[n] \in 0..SizeMax /\ SizeMax \in Nat
  BY SizesAssumption DEF TypeOK
<1> QED
  BY <1>1 DEF Distance

\* What the search knows where it stands.
LEMMA BestFacts ==
  ASSUME OInv, pc = "best"
  PROVE  /\ call.sentinel \in Sentinels /\ call.weight \in 0..SizeMax /\ call.weight \in Requests
         /\ level \in Levels /\ OnLevel(cur, call.sentinel, level) /\ cur \in Cells
         /\ cur # call.sentinel => cur \in Nodes /\ cur \in Owned(call.sentinel)
         /\ \A n \in Nodes : weight[n] \in 0..SizeMax
         /\ SizeMax \in Nat
<1>1. /\ call.sentinel \in Sentinels /\ call.weight \in 0..SizeMax /\ call.weight \in Requests
      /\ level \in Levels /\ OnLevel(cur, call.sentinel, level)
  BY DEF OInv, IInv, TypeOK, BestInv, BestFound
<1>2. cur \in Cells /\ (cur # call.sentinel => cur \in Nodes /\ owner[cur] = call.sentinel)
  BY <1>1, OnLevelFacts
<1> QED
  BY <1>1, <1>2, SizesAssumption DEF OInv, IInv, TypeOK, Owned

\* The scan of level 0 does not pass the lightest sufficient node.
LEMMA ScanFound ==
  ASSUME OInv, BestScan, NEW y, y = next[cur][0], weight[y] >= call.weight,
         NEW n \in Owned(call.sentinel), weight[n] >= call.weight
  PROVE  weight[y] <= weight[n]
<1> DEFINE s == call.sentinel
           w == call.weight
<1>1. pc = "best" /\ level = 0 /\ ~ScanEnds
  BY DEF BestScan
<1>2. y # NULL /\ IF call.exact THEN ~(cur # s /\ weight[cur] >= w) ELSE ~(Distance(y, w) > weightDiff)
  BY <1>1 DEF ScanEnds
<1>3. s \in Sentinels /\ w \in 0..SizeMax /\ OnLevel(cur, s, 0) /\ SizeMax \in Nat
      /\ (cur # s => cur \in Nodes) /\ \A m \in Nodes : weight[m] \in 0..SizeMax
  BY <1>1, BestFacts
<1>4. /\ y \in Owned(s)
      /\ weight[y] <= weight[n] \/ (cur # s /\ weight[n] <= weight[cur])
  BY <1>2, <1>3, NextOnZero DEF OInv, IInv
<1>5. y \in Nodes /\ n \in Nodes
  BY <1>4 DEF Owned
<1>6. CASE cur # s /\ weight[n] <= weight[cur]
  <2>1. weight[cur] >= w
    BY <1>3, <1>5, <1>6
  <2>2. weightDiff = Distance(cur, w) /\ weight[cur] <= weight[n]
    BY <1>1, <1>6, <2>1 DEF OInv, BestFound
  <2>3. ~(Distance(y, w) > weightDiff)
    BY <1>2, <1>6, <2>1
  <2>4. Distance(y, w) = weight[y] - w /\ Distance(cur, w) = weight[cur] - w
    BY <1>3, <1>5, <1>6, <2>1, DistanceType DEF OInv, IInv
  <2> QED
    BY <1>3, <1>5, <1>6, <2>2, <2>3, <2>4
<1> QED
  BY <1>4, <1>6

\* SkipListBest answers what BestFit allows.
LEMMA BestAnswer ==
  ASSUME OInv, BestReturn, NEW F,
         F = SL!SkipListBest(weight, Owned(call.sentinel), call.weight, call.exact)
  PROVE  IF F = {} THEN ret'.node = NULL ELSE ret'.node \in F
<1> DEFINE s == call.sentinel
           w == call.weight
           S == Owned(s)
           y == next[cur][0]
           heavy == {n \in S : weight[n] >= w}
           light == {n \in S \ heavy : \A m \in S \ heavy : weight[m] <= weight[n]}
           near == {n \in light : \A h \in heavy : w - weight[n] < weight[h] - w}
           fit == {n \in heavy : \A m \in heavy : weight[n] <= weight[m]}
<1>1. F = fit \cup (IF call.exact THEN {} ELSE near)
  BY DEF SL!SkipListBest, SL!Lightest, SL!Heaviest
<1>2. /\ pc = "best" /\ level = 0 /\ ScanEnds
      /\ ret'.node = IF cur = s \/ (call.exact /\ w > weight[cur]) THEN NULL ELSE cur
  BY DEF BestReturn
<1>3. /\ s \in Sentinels /\ w \in 0..SizeMax /\ OnLevel(cur, s, 0) /\ SizeMax \in Nat /\ cur \in Cells
      /\ (cur # s => cur \in Nodes /\ cur \in S) /\ \A m \in Nodes : weight[m] \in 0..SizeMax
      /\ call.exact \in BOOLEAN
  BY <1>2, BestFacts DEF OInv, IInv, TypeOK
<1>4. /\ y = NULL => \A m \in S : cur # s /\ weight[m] <= weight[cur]
      /\ y # NULL => /\ y \in S
                     /\ \A m \in S : weight[y] <= weight[m] \/ (cur # s /\ weight[m] <= weight[cur])
  BY <1>3, NextOnZero DEF OInv, IInv
<1>5. \A m \in S : m \in Nodes /\ weight[m] \in Nat /\ weight[m] \in 0..SizeMax
  BY <1>3 DEF Owned
<1>6. y # NULL => IF call.exact THEN cur # s /\ weight[cur] >= w ELSE Distance(y, w) > weightDiff
  BY <1>2 DEF ScanEnds
<1>7. IF cur # s /\ weight[cur] >= w
      THEN weightDiff = Distance(cur, w) /\ \A n \in S : weight[n] >= w => weight[cur] <= weight[n]
      ELSE weightDiff = SizeMax \/ (cur # s /\ weightDiff = Distance(cur, w))
  BY <1>2 DEF OInv, BestFound
<1>8. y # NULL => Distance(y, w) \in 0..SizeMax
  BY <1>3, <1>4, <1>5, DistanceType DEF OInv, IInv
<1>9. CASE cur = s
  <2>1. y = NULL
    BY <1>3, <1>6, <1>7, <1>8, <1>9
  <2>2. S = {}
    BY <1>4, <1>9, <2>1
  <2>3. F = {}
    BY <1>1, <2>2
  <2> QED
    BY <1>2, <1>9, <2>3
<1>10. CASE cur # s /\ weight[cur] >= w
  <2>1. cur \in fit
    BY <1>3, <1>7, <1>10
  <2>2. ret'.node = cur
    BY <1>2, <1>3, <1>5, <1>10
  <2> QED
    BY <1>1, <2>1, <2>2
<1>11. CASE cur # s /\ ~(weight[cur] >= w) /\ y = NULL
  <2>1. heavy = {}
    BY <1>3, <1>4, <1>5, <1>11
  <2>2. cur \in near
    BY <1>3, <1>4, <1>11, <2>1
  <2>3. CASE call.exact
    BY <1>1, <1>2, <1>3, <1>5, <1>11, <2>1, <2>3
  <2>4. CASE ~call.exact
    BY <1>1, <1>2, <1>11, <2>2, <2>4
  <2> QED
    BY <2>3, <2>4
<1>12. CASE cur # s /\ ~(weight[cur] >= w) /\ y # NULL
  <2>1. ~call.exact /\ Distance(y, w) > weightDiff
    BY <1>6, <1>12
  <2>2. weightDiff = Distance(cur, w)
    BY <1>3, <1>7, <1>8, <1>12, <2>1
  <2>3. weight[y] \in Nat /\ weight[cur] \in Nat /\ w \in Nat /\ weight[cur] < w /\ y \in Nodes
    BY <1>3, <1>4, <1>5, <1>12
  <2>4. Distance(cur, w) = w - weight[cur]
    BY <1>3, <1>12, <2>3, DistanceType DEF OInv, IInv
  <2>5. weight[cur] <= weight[y]
    <3>1. 0 \in Levels
      BY SizesAssumption DEF Levels
    <3> QED
      BY <1>3, <1>12, <3>1, NextLinked DEF OInv, IInv
  <2>6. weight[y] >= w
    <3>1. SUFFICES ASSUME weight[y] < w PROVE FALSE
      BY <2>3
    <3>2. Distance(y, w) = w - weight[y]
      BY <1>3, <2>3, <3>1, DistanceType DEF OInv, IInv
    <3> QED
      BY <2>1, <2>2, <2>3, <2>4, <2>5, <3>2
  <2>7. w - weight[cur] < weight[y] - w
    <3>1. Distance(y, w) = weight[y] - w
      BY <1>3, <2>3, <2>6, DistanceType DEF OInv, IInv
    <3> QED
      BY <2>1, <2>2, <2>3, <2>4, <3>1
  <2>8. ASSUME NEW h \in heavy PROVE w - weight[cur] < weight[h] - w
    <3>1. weight[h] \in Nat /\ weight[h] >= w /\ (weight[y] <= weight[h] \/ weight[h] <= weight[cur])
      BY <1>4, <1>5, <1>12
    <3> QED
      BY <2>3, <2>7, <3>1
  <2>9. ASSUME NEW m \in S \ heavy PROVE weight[m] <= weight[cur]
    <3>1. weight[m] \in Nat /\ ~(weight[m] >= w) /\ (weight[y] <= weight[m] \/ weight[m] <= weight[cur])
      BY <1>4, <1>5, <1>12
    <3> QED
      BY <2>3, <2>6, <3>1
  <2>10. cur \in near
    BY <1>3, <1>12, <2>8, <2>9
  <2> QED
    BY <1>1, <1>2, <1>12, <2>1, <2>10
<1> QED
  BY <1>9, <1>10, <1>11, <1>12

-----------------------------------------------------------------------------
(* Every action keeps the invariant and does what SortedLists says.        *)

\* A step that keeps the lists, weights and the answer changes nothing there.
LEMMA Stutters ==
  ASSUME [s \in Sentinels |-> Chain(s, 0)]' = [s \in Sentinels |-> Chain(s, 0)],
         weight' = weight, ret' = ret
  PROVE  [SL!Next]_SL!vars
BY DEF SL!vars

\* A node in no list gets a weight: SetWeight leaves the lists alone.
LEMMA SetsOutside ==
  ASSUME OInv, NEW n \in Nodes, owner[n] = NULL, NEW w \in Weights \cup {0},
         weight' = [weight EXCEPT ![n] = w], ret' = NoResult,
         [s \in Sentinels |-> Chain(s, 0)]' = [s \in Sentinels |-> Chain(s, 0)]
  PROVE  SL!Next
<1>1. \A s \in Sentinels : n \notin SL!Elements(s)
  BY ElementsAre, NodesAssumption DEF Owned
<1> DEFINE L == [s \in Sentinels |-> Chain(s, 0)]
<1>2. SL!Without(n) = [s \in Sentinels |-> L[s]]
  BY <1>1 DEF SL!Without
<1>3. SL!Without(n) = L
  BY <1>2
<1>4. SL!SetWeight(n, w)
  BY <1>3 DEF SL!SetWeight, SL!NoResult, NoResult
<1> QED
  BY <1>4 DEF SL!Next

\* SkipListInitNode.
LEMMA InitNodeOrder ==
  ASSUME OInv, NEW n \in Nodes, SkipListInitNode(n), IInv'
  PROVE  OInv' /\ SL!Next
<1>1. /\ owner[n] = NULL /\ owner' = owner /\ weight' = [weight EXCEPT ![n] = 0]
      /\ pc = "idle" /\ pc' = pc /\ ret' = NoResult
      /\ \A m \in Nodes \ {n} : weight'[m] = weight[m]
      /\ \A x \in Cells \ {n} : next'[x] = next[x] /\ prev'[x] = prev[x]
  BY DEF SkipListInitNode, OInv, IInv, TypeOK
<1>2. ListedInv'
  BY <1>1 DEF OInv, ListedInv, Cells
<1>3. /\ OrderInv'
      /\ [s \in Sentinels |-> Chain(s, 0)]' = [s \in Sentinels |-> Chain(s, 0)]
  BY <1>1, <1>2, OutsideOrder, KeptLists DEF IInv
<1>4. OInv'
  BY <1>1, <1>2, <1>3 DEF OInv, AnswerInv, BestFound
<1>5. SL!Next
  BY <1>1, <1>3, SetsOutside
<1> QED
  BY <1>4, <1>5

\* SetNodeWeightNoList.
LEMMA NoListOrder ==
  ASSUME OInv, NEW n \in Nodes, NEW w \in Weights, SetNodeWeightNoList(n, w), IInv'
  PROVE  OInv' /\ SL!Next
<1>1. /\ owner[n] = NULL /\ owner' = owner /\ weight' = [weight EXCEPT ![n] = w]
      /\ pc = "idle" /\ pc' = pc /\ ret' = NoResult /\ next' = next /\ prev' = prev
      /\ \A m \in Nodes \ {n} : weight'[m] = weight[m]
  BY DEF SetNodeWeightNoList, OInv, IInv, FreshUnlinked, TypeOK
<1>2. ListedInv'
  BY <1>1 DEF OInv, ListedInv
<1>3. /\ OrderInv'
      /\ [s \in Sentinels |-> Chain(s, 0)]' = [s \in Sentinels |-> Chain(s, 0)]
  BY <1>1, <1>2, OutsideOrder, KeptLists DEF IInv
<1>4. OInv'
  BY <1>1, <1>2, <1>3 DEF OInv, AnswerInv, BestFound
<1>5. SL!Next
  BY <1>1, <1>3, SetsOutside
<1> QED
  BY <1>4, <1>5

\* SetNodeWeight.
LEMMA SetNodeWeightOrder ==
  ASSUME OInv, NEW s \in Sentinels, NEW n \in Nodes, NEW w \in Weights, NEW h \in 1..MaxLevels,
         SetNodeWeight(s, n, w, h), IInv'
  PROVE  OInv' /\ SL!Next
<1>1. /\ owner[n] # NULL \/ n \in fresh
      /\ SkipListRemove(n) /\ owner' = [owner EXCEPT ![n] = NULL]
      /\ weight' = [weight EXCEPT ![n] = w] /\ ret' = NoResult /\ pc' = "find"
      /\ \A m \in Nodes \ {n} : weight'[m] = weight[m]
  BY DEF SetNodeWeight, Enter, OInv, IInv, TypeOK
<1>2. /\ OrderInv' /\ ListedInv'
      /\ [t \in Sentinels |-> Chain(t, 0)]' = SL!Without(n)
  BY <1>1, RemoveLists
<1>3. OInv'
  BY <1>1, <1>2 DEF OInv, AnswerInv, BestFound
<1>4. SL!SetWeight(n, w)
  BY <1>1, <1>2 DEF SL!SetWeight, SL!NoResult, NoResult
<1> QED
  BY <1>3, <1>4 DEF SL!Next

\* RemoveNode.
LEMMA RemoveNodeOrder ==
  ASSUME OInv, NEW n \in Nodes, RemoveNode(n), IInv'
  PROVE  OInv' /\ SL!Next
<1>1. /\ owner[n] # NULL /\ SkipListRemove(n) /\ owner' = [owner EXCEPT ![n] = NULL]
      /\ weight' = weight /\ ret' = NoResult /\ pc = "idle" /\ pc' = pc
      /\ \A m \in Nodes \ {n} : weight'[m] = weight[m]
  BY DEF RemoveNode
<1>2. /\ OrderInv' /\ ListedInv'
      /\ [t \in Sentinels |-> Chain(t, 0)]' = SL!Without(n)
  BY <1>1, RemoveLists
<1>3. OInv'
  BY <1>1, <1>2 DEF OInv, AnswerInv, BestFound
<1>4. owner[n] \in Sentinels /\ n \in SL!Elements(owner[n])
  <2>1. owner[n] \in Sentinels
    BY <1>1 DEF OInv, IInv, TypeOK
  <2> QED
    BY <2>1, ElementsAre DEF Owned
<1>5. SL!RemoveNode(n)
  BY <1>1, <1>2, <1>4 DEF SL!RemoveNode, SL!NoResult, NoResult
<1> QED
  BY <1>3, <1>5 DEF SL!Next

\* FindNext and FindDown.
LEMMA FindOrder ==
  ASSUME OInv, FindNext \/ FindDown, IInv'
  PROVE  OInv' /\ [SL!Next]_SL!vars
<1>1. /\ UNCHANGED <<weight, next, prev, owner>> /\ ret' = ret
      /\ pc = "find" /\ pc' \in {"find", "link"}
  BY DEF FindNext, FindDown, links
<1>2. /\ OrderInv' /\ ListedInv'
      /\ [t \in Sentinels |-> Chain(t, 0)]' = [t \in Sentinels |-> Chain(t, 0)]
  BY <1>1, SameLists
<1>3. OInv'
  BY <1>1, <1>2 DEF OInv, AnswerInv, BestFound
<1> QED
  BY <1>1, <1>2, <1>3, Stutters

\* Link.
LEMMA LinkOrders ==
  ASSUME OInv, Link, IInv'
  PROVE  OInv' /\ SL!Next
<1>1. pc' = "idle"
  BY DEF Link, Return, Enter
<1>2. OrderInv' /\ ListedInv' /\ SL!InsertNode(call.sentinel, call.node)
  BY LinkLists
<1>3. OInv'
  BY <1>1, <1>2 DEF OInv, AnswerInv, BestFound
<1>4. call.sentinel \in Sentinels /\ call.node \in Nodes
  BY DEF OInv, IInv, FindInv, Link
<1> QED
  BY <1>2, <1>3, <1>4 DEF SL!Next

\* SkipListBestCall.
LEMMA BestCallOrder ==
  ASSUME OInv, NEW s \in Sentinels, NEW w \in Requests, NEW exact \in BOOLEAN,
         SkipListBestCall(s, w, exact), IInv'
  PROVE  OInv' /\ SL!Next
<1>1. /\ UNCHANGED <<weight, next, prev, owner>> /\ ret' = NoResult
      /\ pc' = "best" /\ cur' = s /\ weightDiff' = SizeMax
      /\ call' = [NoCall EXCEPT !.sentinel = s, !.weight = w, !.exact = exact]
  BY DEF SkipListBestCall, Enter, links
<1>2. /\ OrderInv' /\ ListedInv'
      /\ [t \in Sentinels |-> Chain(t, 0)]' = [t \in Sentinels |-> Chain(t, 0)]
  BY <1>1, SameLists
<1>3. call'.sentinel = s /\ call'.weight = w
  BY <1>1 DEF NoCall
<1>4. BestFound'
  BY <1>1, <1>3 DEF BestFound
<1>5. OInv'
  BY <1>1, <1>2, <1>4 DEF OInv, AnswerInv
<1>6. SL!Forget
  BY <1>1, <1>2 DEF SL!Forget, SL!NoResult, NoResult
<1> QED
  BY <1>5, <1>6 DEF SL!Next

\* BestSkip.
LEMMA BestSkipOrder ==
  ASSUME OInv, BestSkip, IInv'
  PROVE  OInv' /\ [SL!Next]_SL!vars
<1>1. /\ UNCHANGED <<weight, next, prev, owner>> /\ ret' = ret
      /\ pc = "best" /\ pc' = "best" /\ level > 0 /\ call' = call /\ weightDiff' = weightDiff
      /\ \/ Lighter(call.weight) /\ cur' = next[cur][level]
         \/ cur' = cur
  BY DEF BestSkip, links
<1>2. /\ OrderInv' /\ ListedInv'
      /\ [t \in Sentinels |-> Chain(t, 0)]' = [t \in Sentinels |-> Chain(t, 0)]
  BY <1>1, SameLists
<1>3. level \in Nat
  BY LevelsBelow DEF OInv, IInv, TypeOK
<1>4. /\ call.weight \in Requests /\ weightDiff = SizeMax
      /\ ~(cur # call.sentinel /\ weight[cur] >= call.weight)
  BY <1>1, <1>3 DEF OInv, BestFound
<1>5. call.weight \in 0..SizeMax /\ \A n \in Nodes : weight[n] \in 0..SizeMax
  BY <1>1, BestFacts
<1>6. ~(cur' # call.sentinel /\ weight[cur'] >= call.weight)
  <2>1. ASSUME Lighter(call.weight), cur' = next[cur][level] PROVE ~(weight[cur'] >= call.weight)
    <3>1. cur' # NULL /\ weight[cur'] < call.weight
      BY <2>1 DEF Lighter
    <3>2. cur' \in Nodes
      BY <1>1, <2>1, <3>1, BestFacts DEF OInv, IInv, TypeOK
    <3> QED
      BY <1>5, <3>1, <3>2
  <2> QED
    BY <1>1, <1>4, <2>1
<1>7. BestFound'
  BY <1>1, <1>4, <1>6 DEF BestFound
<1>8. OInv'
  BY <1>1, <1>2, <1>7 DEF OInv, AnswerInv
<1> QED
  BY <1>1, <1>2, <1>8, Stutters

\* BestScan.
LEMMA BestScanOrder ==
  ASSUME OInv, BestScan, IInv'
  PROVE  OInv' /\ [SL!Next]_SL!vars
<1>1. /\ UNCHANGED <<weight, next, prev, owner>> /\ ret' = ret
      /\ pc = "best" /\ pc' = "best" /\ level = 0 /\ level' = level /\ call' = call
      /\ cur' = next[cur][0] /\ weightDiff' = Distance(next[cur][0], call.weight)
      /\ next[cur][0] # NULL
  BY DEF BestScan, ScanEnds, links
<1>2. /\ OrderInv' /\ ListedInv'
      /\ [t \in Sentinels |-> Chain(t, 0)]' = [t \in Sentinels |-> Chain(t, 0)]
  BY <1>1, SameLists
<1>3. PICK y : y = next[cur][0]
  OBVIOUS
<1>4. y \in Owned(call.sentinel) /\ y # call.sentinel /\ call.weight \in Requests
  <2>1. OnLevel(cur, call.sentinel, 0) /\ call.sentinel \in Sentinels /\ call.weight \in Requests
    BY <1>1, BestFacts
  <2>2. y \in Owned(call.sentinel)
    BY <1>1, <1>3, <2>1, NextOnZero DEF OInv, IInv
  <2> QED
    BY <2>1, <2>2, NodesAssumption DEF Owned
<1>5. ASSUME weight[y] >= call.weight
      PROVE  \A n \in Owned(call.sentinel) : weight[n] >= call.weight => weight[y] <= weight[n]
  BY <1>3, <1>5, ScanFound
<1>6. BestFound'
  <2>1. /\ cur' = y /\ weightDiff' = Distance(y, call.weight)
        /\ weight' = weight /\ owner' = owner /\ call' = call /\ level' = 0
    BY <1>1, <1>3
  <2> QED
    BY <1>4, <1>5, <2>1 DEF BestFound, Owned, Distance
<1>7. OInv'
  BY <1>1, <1>2, <1>6 DEF OInv, AnswerInv
<1> QED
  BY <1>1, <1>2, <1>7, Stutters

\* BestReturn.
LEMMA BestReturnOrder ==
  ASSUME OInv, BestReturn, IInv'
  PROVE  OInv' /\ SL!Next
<1>1. /\ UNCHANGED <<weight, next, prev, owner>> /\ pc = "best" /\ pc' = "idle"
      /\ ret' = [sentinel |-> call.sentinel, weight |-> call.weight, exact |-> call.exact,
                 node |-> ret'.node]
  BY DEF BestReturn, Return, Enter, links
<1>2. /\ OrderInv' /\ ListedInv'
      /\ [t \in Sentinels |-> Chain(t, 0)]' = [t \in Sentinels |-> Chain(t, 0)]
  BY <1>1, SameLists
<1>3. OInv'
  BY <1>1, <1>2 DEF OInv, AnswerInv, BestFound
<1>4. call.sentinel \in Sentinels /\ call.weight \in Requests /\ call.exact \in BOOLEAN
  BY <1>1, BestFacts DEF OInv, IInv, TypeOK
<1>5. PICK F : F = SL!SkipListBest(weight, Owned(call.sentinel), call.weight, call.exact)
  OBVIOUS
<1>6. IF F = {} THEN ret'.node = NULL ELSE ret'.node \in F
  BY <1>5, BestAnswer
<1>7. \E n \in (IF F = {} THEN {NULL} ELSE F) :
        ret' = [sentinel |-> call.sentinel, weight |-> call.weight, exact |-> call.exact, node |-> n]
  BY <1>1, <1>6
<1>8. SL!Elements(call.sentinel) = Owned(call.sentinel)
  BY <1>4, ElementsAre
<1>9. SL!Best(call.sentinel, call.weight, call.exact)
  BY <1>1, <1>2, <1>5, <1>7, <1>8 DEF SL!Best
<1> QED
  BY <1>3, <1>4, <1>9 DEF SL!Next

\* The initial state has the invariant and maps to an initial state.
LEMMA InitOrder == Init => OInv /\ SL!Init
<1> SUFFICES ASSUME Init PROVE OInv /\ SL!Init
  OBVIOUS
<1>1. IInv
  BY IInvInit
<1>2. ASSUME NEW s \in Sentinels PROVE OrderedBy(s, <<>>)
  <2>1. \A n \in Nodes : owner[n] # s
    BY NodesAssumption DEF Init
  <2>2. <<>> \in Seq(Nodes) /\ Len(<<>>) = 0 /\ 1..0 = {}
    OBVIOUS
  <2> QED
    BY <2>1, <2>2 DEF OrderedBy
<1>3. ListedInv /\ AnswerInv /\ BestFound
  BY DEF Init, ListedInv, AnswerInv, BestFound
<1>4. OInv
  BY <1>1, <1>2, <1>3 DEF OInv, OrderInv
<1>5. \A s \in Sentinels : Chain(s, 0) = <<>>
  BY <1>1, <1>2, <1>3, ChainZero DEF IInv
<1>6. SL!Init
  BY <1>5 DEF SL!Init, SL!NoResult, NoResult, Init
<1> QED
  BY <1>4, <1>6

\* Every step keeps the invariant and maps to a step or to none.
LEMMA NextOrder == OInv /\ [Next]_vars => OInv' /\ [SL!Next]_SL!vars
<1> SUFFICES ASSUME OInv, [Next]_vars PROVE OInv' /\ [SL!Next]_SL!vars
  OBVIOUS
<1>1. IInv'
  BY IInvNext DEF OInv
<1>2. ASSUME NEW n \in Nodes, SkipListInitNode(n) \/ RemoveNode(n) PROVE OInv' /\ SL!Next
  BY <1>1, <1>2, InitNodeOrder, RemoveNodeOrder
<1>3. ASSUME NEW n \in Nodes, NEW w \in Weights, SetNodeWeightNoList(n, w) PROVE OInv' /\ SL!Next
  BY <1>1, <1>3, NoListOrder
<1>4. ASSUME NEW s \in Sentinels, NEW n \in Nodes, NEW w \in Weights, NEW h \in 1..MaxLevels,
             SetNodeWeight(s, n, w, h)
      PROVE  OInv' /\ SL!Next
  BY <1>1, <1>4, SetNodeWeightOrder
<1>5. ASSUME NEW s \in Sentinels, NEW w \in Requests, NEW exact \in BOOLEAN,
             SkipListBestCall(s, w, exact)
      PROVE  OInv' /\ SL!Next
  BY <1>1, <1>5, BestCallOrder
<1>6. CASE Step
  BY <1>1, <1>6, FindOrder, LinkOrders, BestSkipOrder, BestScanOrder, BestReturnOrder DEF Step
<1>7. CASE UNCHANGED vars
  <2>1. UNCHANGED <<weight, next, prev, owner>> /\ ret' = ret /\ pc' = pc /\ call' = call
        /\ cur' = cur /\ level' = level /\ weightDiff' = weightDiff
    BY <1>7 DEF vars
  <2>2. /\ OrderInv' /\ ListedInv'
        /\ [t \in Sentinels |-> Chain(t, 0)]' = [t \in Sentinels |-> Chain(t, 0)]
    BY <1>1, <2>1, SameLists
  <2>3. AnswerInv' /\ BestFound'
    BY <2>1 DEF OInv, AnswerInv, BestFound, Owned, Distance
  <2> QED
    BY <1>1, <2>1, <2>2, <2>3, Stutters DEF OInv
<1> QED
  BY <1>2, <1>3, <1>4, <1>5, <1>6, <1>7 DEF Next

-----------------------------------------------------------------------------
(* The theorems.                                                           *)

\* For any nodes, lists, heights and weights and after every insertion, move and
\* removal of SkipList.c, every level of a list holds the nodes that reach it
\* once each and in the order of level 0, which holds exactly what callers put in.
THEOREM LevelsAlwaysSublists == Spec => []LevelsAreSublists
<1>1. OInv => LevelsAreSublists
  BY LevelsOfOrder DEF OInv, IInv
<1> QED
  BY <1>1, InitOrder, NextOrder, PTL DEF Spec

\* Whatever the heights, the loops of SkipList.c over links and levels insert,
\* remove and search as SortedLists says of plain sorted sequences.
THEOREM SkipListImplementsSortedLists == Spec => ImplementsSortedLists
BY InitOrder, NextOrder, PTL DEF Spec, ImplementsSortedLists, SL!Spec
=============================================================================
