--------------------------- MODULE SkipListProofs ---------------------------
(***************************************************************************)
(* For every set of nodes and lists, every number of levels and all        *)
(* weights: the links of the skip lists stay consistent on every level,    *)
(* whatever earlier lists and heights left in the nodes.                   *)
(***************************************************************************)
EXTENDS SkipList, TLAPS

-----------------------------------------------------------------------------
(* The inductive invariant.                                                *)

\* A node that was initialised and not yet put in a list has height 0, so that
\* the removal with which SetMemoryRangePages begins does nothing.
FreshUnlinked == \A n \in fresh : owner[n] = NULL /\ prev[n][0] = NULL

\* path[i] is where the new node belongs on level i: on that level of the list,
\* itself lighter, and next to it nothing that is lighter.
Found(i) ==
  /\ OnLevel(path[i], call.sentinel, i)
  /\ path[i] # call.sentinel => weight[path[i]] < weight[call.node]
  /\ next[path[i]][i] # NULL => weight[call.node] <= weight[next[path[i]][i]]

\* SkipListFindPrevs stands on the level it searches, has passed lighter nodes
\* only, and has found the place on every level above; when it is done, on all.
\* The node that is to be inserted is in no list meanwhile.
FindInv ==
  pc \in {"find", "link"} =>
    /\ call.sentinel \in Sentinels
    /\ call.node \in Nodes \ fresh
    /\ call.height \in 1..MaxLevels
    /\ owner[call.node] = NULL
    /\ OnLevel(cur, call.sentinel, level)
    /\ cur # call.sentinel => weight[cur] < weight[call.node]
    /\ \A i \in Levels : i > level \/ pc = "link" => Found(i)

\* SkipListBest stands on the level it searches.
BestInv ==
  pc = "best" =>
    /\ call.sentinel \in Sentinels
    /\ OnLevel(cur, call.sentinel, level)

IInv == TypeOK /\ LinksConsistent /\ FreshUnlinked /\ FindInv /\ BestInv

-----------------------------------------------------------------------------
(* Facts about levels and links.                                           *)

\* The levels up to one are levels.
LEMMA LevelsBelow ==
  ASSUME NEW i \in Levels
  PROVE  /\ i \in Nat /\ 0 \in Levels
         /\ \A j \in 0..i : j \in Levels
BY SizesAssumption DEF Levels

\* A node reaches every level below one that it reaches.
LEMMA LevelDown ==
  ASSUME NEW x, NEW s, NEW i \in Levels, NEW j \in 0..i, OnLevel(x, s, i)
  PROVE  OnLevel(x, s, j)
<1>1. 0..j \subseteq 0..i
  BY LevelsBelow
<1>2. QED
  BY <1>1 DEF OnLevel, BelowHeight

\* What OnLevel says of nodes and of list heads.
LEMMA OnLevelFacts ==
  ASSUME NEW x, NEW s \in Sentinels, NEW i \in Levels, OnLevel(x, s, i)
  PROVE  /\ x \in Cells /\ x # NULL
         /\ x \in Nodes => x # s /\ owner[x] = s /\ BelowHeight(x, i) /\ prev[x][i] # NULL
         /\ x \notin Nodes => x = s
BY NodesAssumption, LevelsBelow DEF OnLevel, Cells, BelowHeight

\* No cell takes part in two lists.
LEMMA OneList ==
  ASSUME NEW x, NEW s \in Sentinels, NEW t \in Sentinels, NEW i \in Levels,
         OnLevel(x, s, i), OnLevel(x, t, i)
  PROVE  s = t
BY NodesAssumption DEF OnLevel

\* LinksConsistent for the successor of a cell ...
LEMMA NextLinked ==
  ASSUME LinksConsistent, NEW s \in Sentinels, NEW i \in Levels, NEW x \in Cells,
         OnLevel(x, s, i), next[x][i] # NULL
  PROVE  /\ OnLevel(next[x][i], s, i)
         /\ prev[next[x][i]][i] = x
         /\ x # s => weight[x] <= weight[next[x][i]]
BY DEF LinksConsistent

\* ... and for the predecessor of a node.
LEMMA PrevLinked ==
  ASSUME LinksConsistent, NEW s \in Sentinels, NEW i \in Levels, NEW n \in Nodes,
         OnLevel(n, s, i)
  PROVE  /\ OnLevel(prev[n][i], s, i)
         /\ next[prev[n][i]][i] = n
BY DEF LinksConsistent

-----------------------------------------------------------------------------
(* Removing a node.                                                        *)

\* SkipListRemove keeps the types of the links, ...
LEMMA RemoveTypes ==
  ASSUME TypeOK, NEW n \in Nodes, SkipListRemove(n)
  PROVE  /\ next' \in [Cells -> [Levels -> Nodes \cup {NULL}]]
         /\ prev' \in [Cells -> [Levels -> Cells \cup {NULL}]]
<1>1. n \in Cells
  BY DEF Cells
<1>2. QED
  BY <1>1 DEF TypeOK, SkipListRemove

\* ... the height of every other node in a list or out of it, ...
LEMMA RemoveHeights ==
  ASSUME TypeOK, LinksConsistent, FreshUnlinked, NEW n \in Nodes,
         owner[n] # NULL \/ n \in fresh, SkipListRemove(n),
         NEW x \in Nodes, NEW i \in Levels
  PROVE  /\ prev'[x][i] = NULL <=> prev[x][i] = NULL
         /\ BelowHeight(n, i) => owner[n] \in Sentinels /\ OnLevel(n, owner[n], i)
<1>1. x \in Cells /\ n \in Cells
  BY DEF Cells
<1>2. prev'[x][i] = IF BelowHeight(n, i) /\ x = next[n][i] THEN prev[n][i] ELSE prev[x][i]
  BY <1>1 DEF SkipListRemove
<1>3. ASSUME BelowHeight(n, i) PROVE owner[n] \in Sentinels /\ OnLevel(n, owner[n], i)
  <2>1. prev[n][0] # NULL
    BY <1>3, LevelsBelow DEF BelowHeight
  <2>2. owner[n] # NULL
    BY <2>1 DEF FreshUnlinked
  <2>3. QED
    BY <1>3, <2>2 DEF OnLevel, TypeOK
<1>4. ASSUME BelowHeight(n, i), x = next[n][i]
      PROVE  prev[n][i] # NULL /\ prev[x][i] # NULL
  <2>1. x # NULL
    BY NodesAssumption
  <2>2. prev[x][i] = n
    BY <1>1, <1>3, <1>4, <2>1, NextLinked
  <2>3. prev[n][i] # NULL
    BY <1>4, LevelsBelow DEF BelowHeight
  <2>4. QED
    BY <2>2, <2>3, NodesAssumption
<1>5. QED
  BY <1>2, <1>3, <1>4

\* ... and the places of all others, if the node leaves its list.
LEMMA RemoveOnLevel ==
  ASSUME TypeOK, LinksConsistent, FreshUnlinked, NEW n \in Nodes,
         owner[n] # NULL \/ n \in fresh, SkipListRemove(n),
         owner' = [owner EXCEPT ![n] = NULL],
         NEW x \in Cells, NEW s \in Sentinels, NEW i \in Levels
  PROVE  OnLevel(x, s, i)' <=> x # n /\ OnLevel(x, s, i)
<1>1. CASE x \notin Nodes
  BY <1>1, NodesAssumption DEF OnLevel, Cells
<1>2. CASE x \in Nodes
  <2>1. \A j \in 0..i : prev'[x][j] = NULL <=> prev[x][j] = NULL
    BY <1>2, LevelsBelow, RemoveHeights
  <2>2. BelowHeight(x, i)' <=> BelowHeight(x, i)
    BY <2>1 DEF BelowHeight
  <2>3. owner'[x] = IF x = n THEN NULL ELSE owner[x]
    BY <1>2 DEF TypeOK
  <2>4. x # s /\ s # NULL
    BY <1>2, NodesAssumption
  <2>5. QED
    BY <1>2, <2>2, <2>3, <2>4 DEF OnLevel
<1>3. QED
  BY <1>1, <1>2

\* Removing a node from its list leaves all lists consistent.  Its weight may
\* have changed before: it does not matter.
LEMMA RemoveLinks ==
  ASSUME TypeOK, LinksConsistent, FreshUnlinked, NEW n \in Nodes,
         owner[n] # NULL \/ n \in fresh, SkipListRemove(n),
         owner' = [owner EXCEPT ![n] = NULL],
         \A m \in Nodes \ {n} : weight'[m] = weight[m]
  PROVE  LinksConsistent'
<1> DEFINE out(i) == BelowHeight(n, i)
<1>1. n \in Cells /\ n # NULL
  BY NodesAssumption DEF Cells
<1>2. ASSUME NEW x \in Cells, NEW i \in Levels
      PROVE  /\ next'[x][i] = IF out(i) /\ x = prev[n][i] THEN next[n][i] ELSE next[x][i]
             /\ prev'[x][i] = IF out(i) /\ x = next[n][i] THEN prev[n][i] ELSE prev[x][i]
  BY DEF SkipListRemove
<1>3. ASSUME NEW i \in Levels, out(i)
      PROVE  /\ owner[n] \in Sentinels /\ OnLevel(n, owner[n], i)
             /\ OnLevel(prev[n][i], owner[n], i) /\ next[prev[n][i]][i] = n
             /\ next[n][i] # NULL => /\ OnLevel(next[n][i], owner[n], i)
                                     /\ prev[next[n][i]][i] = n
                                     /\ weight[n] <= weight[next[n][i]]
  <2>1. owner[n] \in Sentinels /\ OnLevel(n, owner[n], i)
    BY <1>3, RemoveHeights
  <2>2. n # owner[n]
    BY <2>1, NodesAssumption
  <2>3. QED
    BY <1>1, <2>1, <2>2, NextLinked, PrevLinked
<1> HIDE DEF out
<1>4. ASSUME NEW s \in Sentinels, NEW i \in Levels, NEW x \in Cells, NEW y,
             OnLevel(x, s, i)', y = next'[x][i], y # NULL
      PROVE  /\ OnLevel(y, s, i)'
             /\ prev'[y][i] = x
             /\ x # s => weight'[x] <= weight'[y]
  <2>1. x # n /\ OnLevel(x, s, i)
    BY <1>4, RemoveOnLevel
  <2>2. y \in Nodes /\ y \in Cells
    BY <1>4, RemoveTypes DEF Cells
  <2>3. CASE out(i) /\ x = prev[n][i]
    <3>1. y = next[n][i]
      BY <1>2, <1>4, <2>3
    <3>2. owner[n] = s
      BY <1>3, <2>1, <2>3, OneList
    <3>3. OnLevel(y, s, i) /\ prev[y][i] = n /\ weight[n] <= weight[y]
      BY <1>3, <1>4, <2>3, <3>1, <3>2
    <3>4. y # n
      BY <2>1, <2>3, <3>3
    <3>5. OnLevel(y, s, i)'
      BY <2>2, <3>3, <3>4, RemoveOnLevel
    <3>6. prev'[y][i] = x
      BY <1>2, <2>2, <2>3, <3>1
    <3>7. ASSUME x # s PROVE weight'[x] <= weight'[y]
      <4>1. x \in Nodes
        BY <2>1, <3>7, OnLevelFacts
      <4>2. weight[x] <= weight[n]
        BY <1>1, <1>3, <2>1, <2>3, <3>7, NextLinked
      <4>3. weight[x] <= weight[y]
        BY <2>2, <3>3, <4>1, <4>2, SizesAssumption DEF TypeOK
      <4>4. QED
        BY <2>1, <2>2, <3>4, <4>1, <4>3
    <3>8. QED
      BY <3>5, <3>6, <3>7
  <2>4. CASE ~(out(i) /\ x = prev[n][i])
    <3>1. y = next[x][i]
      BY <1>2, <1>4, <2>4
    <3>2. OnLevel(y, s, i) /\ prev[y][i] = x /\ (x # s => weight[x] <= weight[y])
      BY <1>4, <2>1, <3>1, NextLinked
    <3>3. y # n
      BY <2>2, <2>4, <3>2, OnLevelFacts DEF out
    <3>4. OnLevel(y, s, i)'
      BY <2>2, <3>2, <3>3, RemoveOnLevel
    <3>5. ~(out(i) /\ y = next[n][i])
      BY <1>3, <2>1, <2>2, <3>2, NodesAssumption
    <3>6. prev'[y][i] = x
      BY <1>2, <2>2, <3>2, <3>5
    <3>7. ASSUME x # s PROVE weight'[x] <= weight'[y]
      <4>1. x \in Nodes
        BY <2>1, <3>7, OnLevelFacts
      <4>2. QED
        BY <2>1, <2>2, <3>2, <3>3, <3>7, <4>1
    <3>8. QED
      BY <3>4, <3>6, <3>7
  <2>5. QED
    BY <2>3, <2>4
<1>5. ASSUME NEW s \in Sentinels, NEW i \in Levels, NEW m \in Nodes, NEW r,
             OnLevel(m, s, i)', r = prev'[m][i]
      PROVE  OnLevel(r, s, i)' /\ next'[r][i] = m
  <2>1. m \in Cells
    BY DEF Cells
  <2>2. m # n /\ OnLevel(m, s, i)
    BY <1>5, <2>1, RemoveOnLevel
  <2>3. OnLevel(prev[m][i], s, i) /\ next[prev[m][i]][i] = m /\ prev[m][i] \in Cells
    BY <2>2, PrevLinked, OnLevelFacts
  <2>4. CASE out(i) /\ m = next[n][i]
    <3>1. r = prev[n][i]
      BY <1>2, <1>5, <2>1, <2>4
    <3>2. owner[n] = s
      BY <1>3, <2>2, <2>4, NodesAssumption, OneList
    <3>3. OnLevel(r, s, i) /\ next[r][i] = n /\ r \in Cells
      BY <1>3, <2>4, <3>1, <3>2, OnLevelFacts
    <3>4. r # n
      BY <2>2, <2>4, <3>3
    <3>5. OnLevel(r, s, i)'
      BY <3>3, <3>4, RemoveOnLevel
    <3>6. next'[r][i] = m
      BY <1>2, <2>4, <3>1, <3>3
    <3>7. QED
      BY <3>5, <3>6
  <2>5. CASE ~(out(i) /\ m = next[n][i])
    <3>1. r = prev[m][i]
      BY <1>2, <1>5, <2>1, <2>5
    <3>2. r # n
      BY <2>3, <2>5, <3>1, OnLevelFacts DEF out
    <3>3. OnLevel(r, s, i)'
      BY <2>3, <3>1, <3>2, RemoveOnLevel
    <3>4. ~(out(i) /\ r = prev[n][i])
      BY <1>3, <2>2, <2>3, <3>1
    <3>5. next'[r][i] = m
      BY <1>2, <2>3, <3>1, <3>4
    <3>6. QED
      BY <3>3, <3>5
  <2>6. QED
    BY <2>4, <2>5
<1>6. QED
  BY <1>4, <1>5 DEF LinksConsistent, OnLevel, BelowHeight

-----------------------------------------------------------------------------
(* Inserting a node.                                                       *)

\* The links after SkipListInsertAfter, cell by cell.
LEMMA InsertCells ==
  ASSUME TypeOK, FindInv, Link, NEW x \in Cells, NEW i \in Levels
  PROVE  LET n == call.node
             h == call.height
         IN  /\ next'[x][i] = IF x = n
                              THEN IF i < h THEN next[path[i]][i] ELSE IF i = h THEN NULL ELSE next[n][i]
                              ELSE IF i < h /\ x = path[i] THEN n ELSE next[x][i]
             /\ prev'[x][i] = IF x = n
                              THEN IF i < h THEN path[i] ELSE IF i = h THEN NULL ELSE prev[n][i]
                              ELSE IF i < h /\ x = next[path[i]][i] THEN n ELSE prev[x][i]
BY DEF Link, SkipListInsertAfter

\* What a search that is done knows.
LEMMA AllFound ==
  ASSUME TypeOK, FindInv, Link, NEW i \in Levels
  PROVE  /\ call.node \in Nodes \ fresh /\ call.sentinel \in Sentinels
         /\ call.height \in 1..MaxLevels /\ owner[call.node] = NULL
         /\ Found(i)
         /\ path[i] \in Cells /\ path[i] # call.node /\ path[i] # NULL
<1>1. /\ call.node \in Nodes \ fresh /\ call.sentinel \in Sentinels
      /\ call.height \in 1..MaxLevels /\ owner[call.node] = NULL
      /\ Found(i)
  BY DEF FindInv, Link
<1>2. OnLevel(path[i], call.sentinel, i)
  BY <1>1 DEF Found
<1>3. QED
  BY <1>1, <1>2, OnLevelFacts, NodesAssumption

\* SkipListInsertAfter keeps the types of the links.
LEMMA InsertTypes ==
  ASSUME TypeOK, FindInv, Link
  PROVE  /\ next' \in [Cells -> [Levels -> Nodes \cup {NULL}]]
         /\ prev' \in [Cells -> [Levels -> Cells \cup {NULL}]]
<1>1. /\ call.node \in Nodes /\ call.node \in Cells
      /\ \A i \in Levels : path[i] \in Cells
  BY AllFound, LevelsBelow, SizesAssumption DEF Cells, Levels
<1>2. QED
  BY <1>1 DEF Link, SkipListInsertAfter, TypeOK

\* Behind the place that was found is a node of the list, or nothing.
LEMMA AfterFound ==
  ASSUME TypeOK, LinksConsistent, FindInv, Link, NEW i \in Levels, next[path[i]][i] # NULL
  PROVE  /\ OnLevel(next[path[i]][i], call.sentinel, i)
         /\ next[path[i]][i] \in Nodes /\ next[path[i]][i] # call.node
         /\ prev[next[path[i]][i]][i] = path[i]
         /\ weight[call.node] <= weight[next[path[i]][i]]
<1>1. call.sentinel \in Sentinels /\ Found(i) /\ path[i] \in Cells /\ owner[call.node] = NULL
  BY AllFound
<1>2. OnLevel(next[path[i]][i], call.sentinel, i) /\ prev[next[path[i]][i]][i] = path[i]
  BY <1>1, NextLinked DEF Found
<1>3. next[path[i]][i] \in Nodes
  BY <1>1 DEF TypeOK
<1>4. owner[next[path[i]][i]] # NULL
  BY <1>1, <1>2, <1>3, NodesAssumption DEF OnLevel
<1>5. QED
  BY <1>1, <1>2, <1>3, <1>4 DEF Found

\* Insertion keeps the height of every node but the new one, which gets its own.
LEMMA InsertHeights ==
  ASSUME TypeOK, LinksConsistent, FindInv, Link, NEW x \in Nodes, NEW i \in Levels
  PROVE  BelowHeight(x, i)' <=> IF x = call.node THEN i < call.height ELSE BelowHeight(x, i)
<1>1. x \in Cells /\ call.node \in Nodes /\ call.height \in 1..MaxLevels
  BY AllFound DEF Cells
<1>2. CASE x # call.node
  <2>1. ASSUME NEW j \in 0..i PROVE prev'[x][j] = NULL <=> prev[x][j] = NULL
    <3>1. j \in Levels
      BY LevelsBelow
    <3>2. CASE j < call.height /\ x = next[path[j]][j]
      <4>1. x # NULL /\ call.node # NULL
        BY <1>1, NodesAssumption
      <4>2. prev[x][j] # NULL
        BY <3>1, <3>2, <4>1, AfterFound, AllFound
      <4>3. prev'[x][j] = call.node
        BY <1>1, <1>2, <3>1, <3>2, InsertCells
      <4>4. QED
        BY <4>1, <4>2, <4>3
    <3>3. CASE ~(j < call.height /\ x = next[path[j]][j])
      BY <1>1, <1>2, <3>1, <3>3, InsertCells
    <3>4. QED
      BY <3>2, <3>3
  <2>2. QED
    BY <1>2, <2>1 DEF BelowHeight
<1>3. CASE x = call.node
  <2>1. ASSUME NEW j \in Levels, j < call.height PROVE prev'[x][j] # NULL
    BY <1>1, <1>3, <2>1, InsertCells, AllFound
  <2>2. call.height \in Levels => prev'[x][call.height] = NULL
    BY <1>1, <1>3, InsertCells DEF Levels
  <2>3. CASE i < call.height
    <3>1. \A j \in 0..i : j \in Levels /\ j < call.height
      BY <1>1, <2>3, LevelsBelow
    <3>2. QED
      BY <1>3, <2>1, <2>3, <3>1 DEF BelowHeight
  <2>4. CASE ~(i < call.height)
    <3>1. call.height \in 0..i /\ call.height \in Levels
      BY <1>1, <2>4, LevelsBelow
    <3>2. QED
      BY <1>3, <2>2, <2>4, <3>1 DEF BelowHeight
  <2>5. QED
    BY <2>3, <2>4
<1>4. QED
  BY <1>2, <1>3

\* The new node takes part in the levels below its height, all others stay
\* where they are.
LEMMA InsertOnLevel ==
  ASSUME TypeOK, LinksConsistent, FindInv, Link,
         NEW x \in Cells, NEW s \in Sentinels, NEW i \in Levels
  PROVE  OnLevel(x, s, i)' <=> IF x = call.node THEN s = call.sentinel /\ i < call.height
                                                ELSE OnLevel(x, s, i)
<1>1. call.node \in Nodes
  BY AllFound
<1>2. CASE x \notin Nodes
  BY <1>1, <1>2 DEF OnLevel
<1>3. CASE x \in Nodes
  <2>1. owner'[x] = IF x = call.node THEN call.sentinel ELSE owner[x]
    BY <1>1, <1>3 DEF Link, TypeOK
  <2>2. x # s
    BY <1>3, NodesAssumption
  <2>3. BelowHeight(x, i)' <=> IF x = call.node THEN i < call.height ELSE BelowHeight(x, i)
    BY <1>3, InsertHeights
  <2>4. QED
    BY <1>3, <2>1, <2>2, <2>3 DEF OnLevel
<1>4. QED
  BY <1>2, <1>3

\* Linking the node at the places found leaves all lists consistent.
LEMMA InsertLinks ==
  ASSUME TypeOK, LinksConsistent, FindInv, Link
  PROVE  LinksConsistent'
<1>1. weight' = weight
  BY DEF Link
<1>2. /\ call.node \in Nodes /\ call.node \in Cells /\ call.sentinel \in Sentinels
      /\ owner[call.node] = NULL
      /\ \A s \in Sentinels, i \in Levels : ~OnLevel(call.node, s, i)
  <2>1. 0 \in Levels
    BY SizesAssumption DEF Levels
  <2>2. call.node \in Nodes /\ call.sentinel \in Sentinels /\ owner[call.node] = NULL
    BY <2>1, AllFound
  <2>3. QED
    BY <2>2, NodesAssumption DEF OnLevel, Cells
<1>3. ASSUME NEW s \in Sentinels, NEW i \in Levels, NEW x \in Cells, NEW y,
             OnLevel(x, s, i)', y = next'[x][i], y # NULL
      PROVE  /\ OnLevel(y, s, i)'
             /\ prev'[y][i] = x
             /\ x # s => weight'[x] <= weight'[y]
  <2>1. y \in Nodes /\ y \in Cells
    BY <1>3, InsertTypes DEF Cells
  <2>2. CASE x = call.node
    <3>1. s = call.sentinel /\ i < call.height
      BY <1>3, <2>2, InsertOnLevel
    <3>2. y = next[path[i]][i]
      BY <1>3, <2>2, <3>1, InsertCells
    <3>3. /\ OnLevel(y, s, i) /\ y # call.node /\ weight[call.node] <= weight[y]
      BY <1>3, <3>1, <3>2, AfterFound
    <3>4. OnLevel(y, s, i)'
      BY <2>1, <3>3, InsertOnLevel
    <3>5. prev'[y][i] = x
      BY <2>1, <2>2, <3>1, <3>2, <3>3, InsertCells
    <3>6. QED
      BY <1>1, <2>2, <3>3, <3>4, <3>5
  <2>3. CASE x # call.node /\ i < call.height /\ x = path[i]
    <3>1. y = call.node
      BY <1>3, <2>3, InsertCells
    <3>2. OnLevel(x, s, i) /\ OnLevel(x, call.sentinel, i)
      BY <1>3, <2>3, InsertOnLevel, AllFound DEF Found
    <3>3. s = call.sentinel
      BY <1>2, <3>2, OneList
    <3>4. OnLevel(y, s, i)'
      BY <1>2, <2>3, <3>1, <3>3, InsertOnLevel
    <3>5. prev'[y][i] = x
      BY <1>2, <2>3, <3>1, InsertCells
    <3>6. x # s => weight[x] <= weight[y]
      <4>1. x # s => x \in Nodes /\ weight[x] < weight[y]
        BY <2>3, <3>1, <3>2, <3>3, AllFound, OnLevelFacts DEF Found
      <4>2. QED
        BY <1>2, <3>1, <4>1, SizesAssumption DEF TypeOK
    <3>7. QED
      BY <1>1, <3>4, <3>5, <3>6
  <2>4. CASE x # call.node /\ ~(i < call.height /\ x = path[i])
    <3>1. y = next[x][i]
      BY <1>3, <2>4, InsertCells
    <3>2. OnLevel(x, s, i)
      BY <1>3, <2>4, InsertOnLevel
    <3>3. /\ OnLevel(y, s, i) /\ prev[y][i] = x
          /\ x # s => weight[x] <= weight[y]
      BY <1>3, <3>1, <3>2, NextLinked
    <3>4. y # call.node
      BY <1>2, <3>3
    <3>5. OnLevel(y, s, i)'
      BY <2>1, <3>3, <3>4, InsertOnLevel
    <3>6. ~(i < call.height /\ y = next[path[i]][i])
      BY <1>3, <2>4, <3>3, AfterFound
    <3>7. prev'[y][i] = x
      BY <2>1, <3>3, <3>4, <3>6, InsertCells
    <3>8. QED
      BY <1>1, <3>3, <3>5, <3>7
  <2>5. QED
    BY <2>2, <2>3, <2>4
<1>4. ASSUME NEW s \in Sentinels, NEW i \in Levels, NEW m \in Nodes, NEW r,
             OnLevel(m, s, i)', r = prev'[m][i]
      PROVE  OnLevel(r, s, i)' /\ next'[r][i] = m
  <2>1. m \in Cells /\ m # NULL
    BY NodesAssumption DEF Cells
  <2>2. CASE m = call.node
    <3>1. s = call.sentinel /\ i < call.height
      BY <1>4, <2>1, <2>2, InsertOnLevel
    <3>2. r = path[i]
      BY <1>4, <2>1, <2>2, <3>1, InsertCells
    <3>3. OnLevel(r, s, i) /\ r \in Cells /\ r # call.node
      BY <3>1, <3>2, AllFound DEF Found
    <3>4. OnLevel(r, s, i)'
      BY <3>3, InsertOnLevel
    <3>5. next'[r][i] = m
      BY <2>2, <3>1, <3>2, <3>3, InsertCells
    <3>6. QED
      BY <3>4, <3>5
  <2>3. CASE m # call.node /\ i < call.height /\ m = next[path[i]][i]
    <3>1. r = call.node
      BY <1>4, <2>1, <2>3, InsertCells
    <3>2. OnLevel(m, s, i) /\ OnLevel(m, call.sentinel, i)
      BY <1>4, <2>1, <2>3, InsertOnLevel, AfterFound
    <3>3. s = call.sentinel
      BY <1>2, <3>2, OneList
    <3>4. OnLevel(r, s, i)'
      BY <1>2, <2>3, <3>1, <3>3, InsertOnLevel
    <3>5. next'[r][i] = m
      BY <1>2, <2>3, <3>1, InsertCells
    <3>6. QED
      BY <3>4, <3>5
  <2>4. CASE m # call.node /\ ~(i < call.height /\ m = next[path[i]][i])
    <3>1. r = prev[m][i]
      BY <1>4, <2>1, <2>4, InsertCells
    <3>2. OnLevel(m, s, i)
      BY <1>4, <2>1, <2>4, InsertOnLevel
    <3>3. OnLevel(r, s, i) /\ next[r][i] = m
      BY <3>1, <3>2, PrevLinked
    <3>4. r \in Cells /\ r # call.node
      BY <1>2, <3>3, OnLevelFacts
    <3>5. OnLevel(r, s, i)'
      BY <3>3, <3>4, InsertOnLevel
    <3>6. ~(i < call.height /\ r = path[i])
      BY <2>4, <3>3
    <3>7. next'[r][i] = m
      BY <3>3, <3>4, <3>6, InsertCells
    <3>8. QED
      BY <3>5, <3>7
  <2>5. QED
    BY <2>2, <2>3, <2>4
<1>5. QED
  BY <1>3, <1>4 DEF LinksConsistent, OnLevel, BelowHeight

-----------------------------------------------------------------------------
(* The invariant holds at the start and is kept by every step.             *)

\* The invariant holds while all lists are empty.
LEMMA IInvInit == Init => IInv
<1> SUFFICES ASSUME Init PROVE IInv
  OBVIOUS
<1>1. MaxLevels - 1 \in Levels /\ 0 \in 0..SizeMax /\ SizeMax \in 0..SizeMax /\ 0 \in 0..MaxLevels
  BY SizesAssumption DEF Levels
<1>2. TypeOK
  BY <1>1 DEF Init, TypeOK, NoLinks, NoCall, NoResult
<1>3. LinksConsistent
  BY NodesAssumption DEF Init, LinksConsistent, OnLevel, NoLinks, Cells
<1>4. QED
  BY <1>2, <1>3 DEF Init, IInv, FreshUnlinked, FindInv, BestInv

\* Writing to a node that is in no list does not touch the lists.
LEMMA OutsideLinks ==
  ASSUME TypeOK, LinksConsistent, NEW n \in Nodes, owner[n] = NULL, owner' = owner,
         \A m \in Nodes \ {n} : weight'[m] = weight[m],
         \A x \in Cells \ {n} : next'[x] = next[x] /\ prev'[x] = prev[x]
  PROVE  LinksConsistent'
<1>1. n \in Cells /\ \A s \in Sentinels, i \in Levels : ~OnLevel(n, s, i) /\ ~OnLevel(n, s, i)'
  BY NodesAssumption DEF OnLevel, Cells
<1>2. ASSUME NEW x \in Cells, NEW s \in Sentinels, NEW i \in Levels
      PROVE  OnLevel(x, s, i)' <=> OnLevel(x, s, i)
  BY <1>1 DEF OnLevel, BelowHeight
<1>3. ASSUME NEW s \in Sentinels, NEW i \in Levels, NEW x \in Cells, NEW y,
             OnLevel(x, s, i)', y = next'[x][i], y # NULL
      PROVE  /\ OnLevel(y, s, i)'
             /\ prev'[y][i] = x
             /\ x # s => weight'[x] <= weight'[y]
  <2>1. OnLevel(x, s, i) /\ x # n /\ y = next[x][i]
    BY <1>1, <1>2, <1>3
  <2>2. OnLevel(y, s, i) /\ prev[y][i] = x /\ (x # s => weight[x] <= weight[y])
    BY <1>3, <2>1, NextLinked
  <2>3. y \in Nodes /\ y \in Cells /\ y # n
    BY <1>1, <1>3, <2>1, <2>2 DEF TypeOK, Cells
  <2>4. x # s => x \in Nodes
    BY <2>1, OnLevelFacts
  <2>5. QED
    BY <1>2, <2>1, <2>2, <2>3, <2>4
<1>4. ASSUME NEW s \in Sentinels, NEW i \in Levels, NEW m \in Nodes, NEW r,
             OnLevel(m, s, i)', r = prev'[m][i]
      PROVE  OnLevel(r, s, i)' /\ next'[r][i] = m
  <2>1. m \in Cells
    BY DEF Cells
  <2>2. OnLevel(m, s, i) /\ m # n /\ r = prev[m][i]
    BY <1>1, <1>2, <1>4, <2>1
  <2>3. OnLevel(r, s, i) /\ next[r][i] = m
    BY <2>2, PrevLinked
  <2>4. r \in Cells /\ r # n
    BY <1>1, <2>3, OnLevelFacts
  <2>5. QED
    BY <1>2, <2>3, <2>4
<1>5. QED
  BY <1>3, <1>4 DEF LinksConsistent, OnLevel, BelowHeight

\* SkipListInitNode of a node in no list keeps the invariant.
LEMMA InitNodeKeeps ==
  ASSUME IInv, NEW n \in Nodes, SkipListInitNode(n)
  PROVE  IInv'
<1> USE DEF IInv
<1>1. n \in Cells /\ 0 \in Levels /\ 0 \in 0..SizeMax
  BY SizesAssumption DEF Cells, Levels
<1>2. TypeOK'
  BY <1>1 DEF SkipListInitNode, TypeOK, NoLinks, NoResult
<1>3. LinksConsistent'
  BY OutsideLinks DEF SkipListInitNode, TypeOK
<1>4. FreshUnlinked'
  BY <1>1 DEF SkipListInitNode, FreshUnlinked, TypeOK, NoLinks, Cells
<1>5. QED
  BY <1>2, <1>3, <1>4 DEF SkipListInitNode, FindInv, BestInv

\* What Enter stores has its type: the call of an insertion ...
LEMMA InsertCallType ==
  ASSUME NEW s \in Sentinels, NEW n \in Nodes, NEW h \in 1..MaxLevels
  PROVE  [NoCall EXCEPT !.sentinel = s, !.node = n, !.height = h] \in
           [sentinel : Sentinels \cup {NULL}, node : Nodes \cup {NULL},
            height : 0..MaxLevels, weight : 0..SizeMax, exact : BOOLEAN]
<1>1. h \in 0..MaxLevels /\ 0 \in 0..SizeMax /\ 0 \in 0..MaxLevels
  BY SizesAssumption
<1>2. NoCall \in
           [sentinel : Sentinels \cup {NULL}, node : Nodes \cup {NULL},
            height : 0..MaxLevels, weight : 0..SizeMax, exact : BOOLEAN]
  BY <1>1 DEF NoCall
<1>3. QED
  BY <1>1, <1>2

\* ... or of a search, ...
LEMMA BestCallType ==
  ASSUME NEW s \in Sentinels, NEW w \in 0..SizeMax, NEW exact \in BOOLEAN
  PROVE  [NoCall EXCEPT !.sentinel = s, !.weight = w, !.exact = exact] \in
           [sentinel : Sentinels \cup {NULL}, node : Nodes \cup {NULL},
            height : 0..MaxLevels, weight : 0..SizeMax, exact : BOOLEAN]
<1>1. 0 \in 0..SizeMax /\ 0 \in 0..MaxLevels
  BY SizesAssumption
<1>2. NoCall \in
           [sentinel : Sentinels \cup {NULL}, node : Nodes \cup {NULL},
            height : 0..MaxLevels, weight : 0..SizeMax, exact : BOOLEAN]
  BY <1>1 DEF NoCall
<1>3. QED
  BY <1>1, <1>2

\* ... and everything else.
LEMMA EntryTypes ==
  /\ MaxLevels - 1 \in Levels /\ SizeMax \in 0..SizeMax /\ 0 \in 0..SizeMax
  /\ NoLinks \in [Levels -> Cells \cup {NULL}]
  /\ NoCall \in [sentinel : Sentinels \cup {NULL}, node : Nodes \cup {NULL},
                 height : 0..MaxLevels, weight : 0..SizeMax, exact : BOOLEAN]
  /\ NoResult \in [sentinel : Sentinels \cup {NULL}, weight : 0..SizeMax,
                   exact : BOOLEAN, node : Nodes \cup {NULL}]
<1>1. MaxLevels - 1 \in Levels /\ SizeMax \in 0..SizeMax /\ 0 \in 0..SizeMax /\ 0 \in 0..MaxLevels
  BY SizesAssumption DEF Levels
<1>2. QED
  BY <1>1 DEF NoLinks, NoCall, NoResult

\* The beginning of a move, with its removal, keeps the invariant.
LEMMA SetNodeWeightKeeps ==
  ASSUME IInv, NEW s \in Sentinels, NEW n \in Nodes, NEW w \in Weights, NEW h \in 1..MaxLevels,
         SetNodeWeight(s, n, w, h)
  PROVE  IInv'
<1> USE DEF IInv
<1>1. w \in 0..SizeMax /\ s \in Cells
  BY SizesAssumption DEF Cells
<1>2. /\ owner[n] # NULL \/ n \in fresh
      /\ SkipListRemove(n) /\ owner' = [owner EXCEPT ![n] = NULL] /\ fresh' = fresh \ {n}
      /\ weight' = [weight EXCEPT ![n] = w]
  BY DEF SetNodeWeight
<1>3. /\ pc' = "find" /\ call' = [NoCall EXCEPT !.sentinel = s, !.node = n, !.height = h]
      /\ cur' = s /\ level' = MaxLevels - 1 /\ path' = NoLinks /\ weightDiff' = SizeMax
      /\ ret' = NoResult
  BY DEF SetNodeWeight, Enter
<1>4. TypeOK'
  BY <1>1, <1>2, <1>3, EntryTypes, InsertCallType, RemoveTypes DEF TypeOK
<1>5. LinksConsistent'
  BY <1>2, RemoveLinks DEF TypeOK
<1>6. FreshUnlinked'
  <2>1. \A m \in fresh \ {n} : prev'[m][0] = NULL
    BY <1>2, RemoveHeights, SizesAssumption DEF FreshUnlinked, TypeOK, Levels
  <2>2. QED
    BY <1>2, <2>1 DEF FreshUnlinked, TypeOK
<1>7. FindInv'
  <2>1. call'.sentinel = s /\ call'.node = n /\ call'.height = h
    BY <1>3 DEF NoCall
  <2>2. owner'[n] = NULL /\ n \notin fresh'
    BY <1>2 DEF TypeOK
  <2>3. \A i \in Levels : ~(i > level' \/ pc' = "link")
    BY <1>3, SizesAssumption DEF Levels
  <2>4. QED
    BY <1>3, <2>1, <2>2, <2>3 DEF FindInv, OnLevel
<1>8. QED
  BY <1>3, <1>4, <1>5, <1>6, <1>7 DEF BestInv

\* A node that moves to no list keeps the invariant.
LEMMA NoListKeeps ==
  ASSUME IInv, NEW n \in Nodes, NEW w \in Weights, SetNodeWeightNoList(n, w)
  PROVE  IInv'
<1> USE DEF IInv
<1>1. w \in 0..SizeMax /\ owner[n] = NULL
  BY SizesAssumption DEF SetNodeWeightNoList, FreshUnlinked
<1>2. TypeOK'
  BY <1>1, EntryTypes DEF SetNodeWeightNoList, TypeOK
<1>3. LinksConsistent'
  BY <1>1, OutsideLinks DEF SetNodeWeightNoList, TypeOK
<1>4. QED
  BY <1>2, <1>3 DEF SetNodeWeightNoList, FreshUnlinked, FindInv, BestInv

\* A step to the right in SkipListFindPrevs keeps the invariant.
LEMMA FindNextKeeps ==
  ASSUME IInv, FindNext
  PROVE  IInv'
<1> USE DEF IInv
<1>1. /\ call.sentinel \in Sentinels /\ call.node \in Nodes /\ OnLevel(cur, call.sentinel, level)
      /\ level \in Levels /\ cur \in Cells
  BY OnLevelFacts DEF FindInv, FindNext, TypeOK
<1>2. /\ next[cur][level] # NULL /\ weight[next[cur][level]] < weight[call.node]
      /\ cur' = next[cur][level]
  BY DEF FindNext, Lighter
<1>3. OnLevel(next[cur][level], call.sentinel, level)
  BY <1>1, <1>2, NextLinked
<1>4. next[cur][level] \in Nodes \cup {NULL} /\ Nodes \subseteq Cells
  BY <1>1 DEF TypeOK, Cells
<1>5. TypeOK'
  BY <1>2, <1>4 DEF TypeOK, FindNext, links
<1>6. LinksConsistent' /\ FreshUnlinked' /\ BestInv'
  BY DEF FindNext, links, LinksConsistent, OnLevel, BelowHeight, FreshUnlinked, BestInv
<1>7. FindInv'
  BY <1>1, <1>2, <1>3 DEF FindNext, links, FindInv, Found, OnLevel, BelowHeight
<1>8. QED
  BY <1>5, <1>6, <1>7

\* On the level that FindDown leaves the place is found, on the level below the
\* search goes on at the same node.
LEMMA FindDownKeeps ==
  ASSUME IInv, FindDown
  PROVE  IInv'
<1> USE DEF IInv
<1>1. /\ call.sentinel \in Sentinels /\ call.node \in Nodes \ fresh /\ call.height \in 1..MaxLevels
      /\ owner[call.node] = NULL /\ OnLevel(cur, call.sentinel, level)
      /\ cur # call.sentinel => weight[cur] < weight[call.node]
      /\ \A i \in Levels : i > level => Found(i)
      /\ pc = "find"
  BY DEF FindInv, FindDown
<1>2. level \in Levels /\ cur \in Cells
  BY <1>1, OnLevelFacts DEF TypeOK
<1>3. /\ path' = [path EXCEPT ![level] = cur]
      /\ UNCHANGED <<weight, next, prev, owner, fresh, call, cur, weightDiff, ret>>
      /\ IF level > 0 THEN level' = level - 1 /\ pc' = pc ELSE pc' = "link" /\ level' = level
  BY DEF FindDown, links
<1>4. level' \in 0..level /\ level' \in Levels
  BY <1>2, <1>3, LevelsBelow, SizesAssumption DEF Levels
<1>5. TypeOK'
  BY <1>1, <1>2, <1>3, <1>4 DEF TypeOK
<1>6. LinksConsistent' /\ FreshUnlinked' /\ BestInv'
  BY <1>1, <1>3 DEF LinksConsistent, OnLevel, BelowHeight, FreshUnlinked, BestInv
<1>7. FindInv'
  <2>1. OnLevel(cur, call.sentinel, level')
    BY <1>1, <1>2, <1>4, LevelDown
  <2>2. \A x, t, i : OnLevel(x, t, i)' <=> OnLevel(x, t, i)
    BY <1>3 DEF OnLevel, BelowHeight
  <2>3. path'[level] = cur /\ \A i \in Levels \ {level} : path'[i] = path[i]
    BY <1>2, <1>3 DEF TypeOK
  <2>4. next[cur][level] # NULL => weight[call.node] <= weight[next[cur][level]]
    <3>1. /\ next[cur][level] \in Nodes \cup {NULL}
          /\ weight[call.node] \in Nat
          /\ \A m \in Nodes : weight[m] \in Nat
      BY <1>1, <1>2, SizesAssumption DEF TypeOK
    <3>2. QED
      BY <3>1 DEF FindDown, Lighter
  <2>5. ASSUME NEW i \in Levels, i > level' \/ pc' = "link", NEW p, p = path'[i]
        PROVE  /\ OnLevel(p, call.sentinel, i)
               /\ p # call.sentinel => weight[p] < weight[call.node]
               /\ next[p][i] # NULL => weight[call.node] <= weight[next[p][i]]
    <3>1. CASE i = level
      BY <1>1, <2>3, <2>4, <2>5, <3>1
    <3>2. CASE i # level
      <4>1. i > level
        BY <1>1, <1>2, <1>3, <2>5, <3>2, SizesAssumption DEF Levels
      <4>2. p = path[i]
        BY <2>3, <2>5, <3>2
      <4>3. QED
        BY <1>1, <4>1, <4>2 DEF Found
    <3>3. QED
      BY <3>1, <3>2
  <2>6. QED
    BY <1>1, <1>3, <2>1, <2>2, <2>5 DEF FindInv, Found, OnLevel, BelowHeight
<1>8. QED
  BY <1>5, <1>6, <1>7

\* Linking the node behind what the search found keeps the invariant.
LEMMA LinkKeeps ==
  ASSUME IInv, Link
  PROVE  IInv'
<1> USE DEF IInv
<1>1. 0 \in Levels
  BY SizesAssumption DEF Levels
<1>2. call.node \in Nodes \ fresh /\ call.sentinel \in Sentinels
  BY <1>1, AllFound
<1>3. /\ owner' = [owner EXCEPT ![call.node] = call.sentinel]
      /\ pc' = "idle" /\ call' = NoCall /\ cur' = NULL /\ level' = MaxLevels - 1
      /\ path' = NoLinks /\ weightDiff' = SizeMax
      /\ weight' = weight /\ fresh' = fresh /\ ret' = ret
  BY DEF Link, Return, Enter
<1>4. TypeOK'
  BY <1>2, <1>3, EntryTypes, InsertTypes DEF TypeOK
<1>5. LinksConsistent'
  BY InsertLinks
<1>6. FreshUnlinked'
  <2>1. ASSUME NEW m \in fresh PROVE owner'[m] = NULL /\ prev'[m][0] = NULL
    <3>1. m \in Nodes /\ m \in Cells /\ m # call.node /\ m # NULL
      BY <1>2, NodesAssumption DEF TypeOK, Cells
    <3>2. owner[m] = NULL /\ prev[m][0] = NULL
      BY <2>1 DEF FreshUnlinked
    <3>3. ~(m = next[path[0]][0])
      BY <1>1, <1>2, <3>1, <3>2, AfterFound, NodesAssumption DEF OnLevel
    <3>4. QED
      BY <1>1, <1>3, <3>1, <3>2, <3>3, InsertCells DEF TypeOK
  <2>2. QED
    BY <1>3, <2>1 DEF FreshUnlinked
<1>7. QED
  BY <1>3, <1>4, <1>5, <1>6 DEF FindInv, BestInv

\* MemoryRangeRemove of a node keeps the invariant.
LEMMA RemoveNodeKeeps ==
  ASSUME IInv, NEW n \in Nodes, RemoveNode(n)
  PROVE  IInv'
<1> USE DEF IInv
<1>1. /\ owner[n] # NULL /\ SkipListRemove(n) /\ owner' = [owner EXCEPT ![n] = NULL]
      /\ ret' = NoResult /\ pc = "idle"
      /\ UNCHANGED <<weight, fresh, pc, call, cur, level, path, weightDiff>>
  BY DEF RemoveNode
<1>2. TypeOK'
  BY <1>1, EntryTypes, RemoveTypes DEF TypeOK
<1>3. LinksConsistent'
  BY <1>1, RemoveLinks
<1>4. FreshUnlinked'
  <2>1. \A m \in fresh : prev'[m][0] = NULL
    BY <1>1, RemoveHeights, SizesAssumption DEF FreshUnlinked, TypeOK, Levels
  <2>2. QED
    BY <1>1, <2>1 DEF FreshUnlinked, TypeOK
<1>5. QED
  BY <1>1, <1>2, <1>3, <1>4 DEF FindInv, BestInv

\* The steps of SkipListBest change nothing but their own variables.
LEMMA SearchKeeps ==
  ASSUME LinksConsistent, FreshUnlinked, UNCHANGED <<weight, links, owner, fresh>>
  PROVE  /\ LinksConsistent' /\ FreshUnlinked'
         /\ \A x, s, i : OnLevel(x, s, i)' <=> OnLevel(x, s, i)
BY DEF links, LinksConsistent, OnLevel, BelowHeight, FreshUnlinked

\* The beginning of SkipListBest keeps the invariant.
LEMMA BestCallKeeps ==
  ASSUME IInv, NEW s \in Sentinels, NEW w \in Requests, NEW exact \in BOOLEAN,
         SkipListBestCall(s, w, exact)
  PROVE  IInv'
<1> USE DEF IInv
<1>1. w \in 0..SizeMax /\ s \in Cells
  BY SizesAssumption DEF Cells
<1>2. /\ pc' = "best" /\ call' = [NoCall EXCEPT !.sentinel = s, !.weight = w, !.exact = exact]
      /\ cur' = s /\ level' = MaxLevels - 1 /\ path' = NoLinks /\ weightDiff' = SizeMax
      /\ ret' = NoResult /\ UNCHANGED <<weight, links, owner, fresh>>
  BY DEF SkipListBestCall, Enter
<1>3. TypeOK'
  BY <1>1, <1>2, EntryTypes, BestCallType DEF TypeOK, links
<1>4. call'.sentinel = s
  BY <1>2 DEF NoCall
<1>5. BestInv'
  BY <1>2, <1>4 DEF BestInv, OnLevel
<1>6. QED
  BY <1>2, <1>3, <1>5, SearchKeeps DEF FindInv

\* Where SkipListBest goes next: along the level or down.
LEMMA BestMoves ==
  ASSUME IInv, pc = "best", UNCHANGED <<weight, links, owner, fresh, pc, call>>,
         NEW x, NEW i \in 0..level, OnLevel(x, call.sentinel, i), cur' = x, level' = i
  PROVE  /\ LinksConsistent' /\ FreshUnlinked' /\ FindInv' /\ BestInv'
         /\ cur' \in Cells /\ level' \in Levels
<1> USE DEF IInv
<1>1. call.sentinel \in Sentinels /\ i \in Levels
  BY LevelsBelow DEF BestInv, TypeOK
<1>2. x \in Cells
  BY <1>1, OnLevelFacts
<1>3. BestInv'
  BY <1>1, SearchKeeps DEF BestInv, OnLevel, BelowHeight, links
<1>4. QED
  BY <1>1, <1>2, <1>3, SearchKeeps DEF FindInv

\* The skip over light nodes keeps the invariant.
LEMMA BestSkipKeeps ==
  ASSUME IInv, BestSkip
  PROVE  IInv'
<1> USE DEF IInv
<1>1. /\ pc = "best" /\ level > 0 /\ level \in Levels /\ cur \in Cells
      /\ call.sentinel \in Sentinels /\ OnLevel(cur, call.sentinel, level)
      /\ UNCHANGED <<weight, links, owner, fresh, pc, call, path, weightDiff, ret>>
  BY OnLevelFacts DEF BestSkip, BestInv, TypeOK
<1>2. level \in 0..level /\ level - 1 \in 0..level
  BY <1>1, LevelsBelow
<1>3. CASE Lighter(call.weight)
  <2>1. next[cur][level] # NULL /\ cur' = next[cur][level] /\ level' = level
    BY <1>3 DEF BestSkip, Lighter
  <2>2. OnLevel(next[cur][level], call.sentinel, level)
    BY <1>1, <2>1, NextLinked
  <2>3. /\ LinksConsistent' /\ FreshUnlinked' /\ FindInv' /\ BestInv'
        /\ cur' \in Cells /\ level' \in Levels
    BY <1>1, <1>2, <2>1, <2>2, BestMoves
  <2>4. QED
    BY <1>1, <2>3 DEF TypeOK, links
<1>4. CASE ~Lighter(call.weight)
  <2>1. cur' = cur /\ level' = level - 1
    BY <1>4 DEF BestSkip
  <2>2. OnLevel(cur, call.sentinel, level - 1)
    BY <1>1, <1>2, LevelDown
  <2>3. /\ LinksConsistent' /\ FreshUnlinked' /\ FindInv' /\ BestInv'
        /\ cur' \in Cells /\ level' \in Levels
    BY <1>1, <1>2, <2>1, <2>2, BestMoves
  <2>4. QED
    BY <1>1, <2>3 DEF TypeOK, links
<1>5. QED
  BY <1>3, <1>4

\* The scan of level 0 keeps the invariant.
LEMMA BestScanKeeps ==
  ASSUME IInv, BestScan
  PROVE  IInv'
<1> USE DEF IInv
<1>1. /\ pc = "best" /\ level = 0 /\ level \in Levels /\ cur \in Cells
      /\ call.sentinel \in Sentinels /\ OnLevel(cur, call.sentinel, level)
      /\ call.weight \in 0..SizeMax
      /\ UNCHANGED <<weight, links, owner, fresh, pc, call, level, path, ret>>
  BY OnLevelFacts DEF BestScan, BestInv, TypeOK
<1>2. next[cur][level] # NULL /\ cur' = next[cur][level]
  BY <1>1 DEF BestScan, ScanEnds
<1>3. OnLevel(next[cur][level], call.sentinel, level)
  BY <1>1, <1>2, NextLinked
<1>4. /\ LinksConsistent' /\ FreshUnlinked' /\ FindInv' /\ BestInv'
      /\ cur' \in Cells /\ level' \in Levels
  <2>1. level \in 0..level /\ level' = level
    BY <1>1
  <2>2. QED
    BY <1>1, <1>2, <1>3, <2>1, BestMoves
<1>5. weightDiff' \in 0..SizeMax
  <2>1. next[cur][0] \in Nodes
    BY <1>1, <1>2 DEF TypeOK
  <2>2. weight[next[cur][0]] \in 0..SizeMax
    BY <2>1 DEF TypeOK
  <2>3. QED
    BY <1>1, <2>2, SizesAssumption DEF BestScan, Distance
<1>6. QED
  BY <1>1, <1>4, <1>5 DEF TypeOK, links

\* The end of SkipListBest keeps the invariant.
LEMMA BestReturnKeeps ==
  ASSUME IInv, BestReturn
  PROVE  IInv'
<1> USE DEF IInv
<1>1. /\ pc = "best" /\ level \in Levels /\ call.sentinel \in Sentinels
      /\ OnLevel(cur, call.sentinel, level)
      /\ call.weight \in 0..SizeMax /\ call.exact \in BOOLEAN
  BY DEF BestReturn, BestInv, TypeOK
<1>2. cur # call.sentinel => cur \in Nodes
  BY <1>1, OnLevelFacts
<1>3. /\ pc' = "idle" /\ call' = NoCall /\ cur' = NULL /\ level' = MaxLevels - 1
      /\ path' = NoLinks /\ weightDiff' = SizeMax
      /\ UNCHANGED <<weight, links, owner, fresh>>
  BY DEF BestReturn, Return, Enter
<1>4. ret' \in [sentinel : Sentinels \cup {NULL}, weight : 0..SizeMax, exact : BOOLEAN,
                node : Nodes \cup {NULL}]
  BY <1>1, <1>2 DEF BestReturn
<1>5. TypeOK'
  BY <1>3, <1>4, EntryTypes DEF TypeOK, links
<1>6. QED
  BY <1>3, <1>5, SearchKeeps DEF FindInv, BestInv

\* Every step keeps the invariant.
LEMMA IInvNext == IInv /\ [Next]_vars => IInv'
<1> SUFFICES ASSUME IInv, [Next]_vars PROVE IInv'
  OBVIOUS
<1>1. ASSUME NEW n \in Nodes, SkipListInitNode(n) \/ RemoveNode(n) PROVE IInv'
  BY <1>1, InitNodeKeeps, RemoveNodeKeeps
<1>2. ASSUME NEW n \in Nodes, NEW w \in Weights, SetNodeWeightNoList(n, w) PROVE IInv'
  BY <1>2, NoListKeeps
<1>3. ASSUME NEW s \in Sentinels, NEW n \in Nodes, NEW w \in Weights, NEW h \in 1..MaxLevels,
             SetNodeWeight(s, n, w, h)
      PROVE  IInv'
  BY <1>3, SetNodeWeightKeeps
<1>4. ASSUME NEW s \in Sentinels, NEW w \in Requests, NEW exact \in BOOLEAN,
             SkipListBestCall(s, w, exact)
      PROVE  IInv'
  BY <1>4, BestCallKeeps
<1>5. CASE Step
  BY <1>5, FindNextKeeps, FindDownKeeps, LinkKeeps, BestSkipKeeps, BestScanKeeps,
     BestReturnKeeps DEF Step
<1>6. CASE UNCHANGED vars
  BY <1>6 DEF vars, IInv, TypeOK, LinksConsistent, OnLevel, BelowHeight, FreshUnlinked,
     FindInv, Found, BestInv
<1>7. QED
  BY <1>1, <1>2, <1>3, <1>4, <1>5, <1>6 DEF Next

-----------------------------------------------------------------------------
(* The theorems.                                                           *)

\* The state keeps its type: no loop of SkipList.c steps to NULL or below level
\* 0, and every pointer it stores leads to a node, a list head or nowhere.
THEOREM LinksTypeCorrect == Spec => []TypeOK
<1>1. IInv => TypeOK
  BY DEF IInv
<1>2. QED
  BY <1>1, IInvInit, IInvNext, PTL DEF Spec

\* For any nodes, lists, levels and weights, after every insertion, move and
\* removal of SkipList.c, Next and Prev are inverse on every level of every
\* list, lead only to nodes of that list that reach the level, and do not lead
\* to lighter nodes.
THEOREM LinksAlwaysConsistent == Spec => []LinksConsistent
<1>1. IInv => LinksConsistent
  BY DEF IInv
<1>2. QED
  BY <1>1, IInvInit, IInvNext, PTL DEF Spec
=============================================================================
