----------------------------- MODULE MCSProofs -----------------------------
(***************************************************************************)
(* Proofs about MCS, for any number of processors and tickets, and for     *)
(* every use that callers make of the memory of tickets.                   *)
(***************************************************************************)
EXTENDS MCS, TLAPS

-----------------------------------------------------------------------------
(* The inductive invariant.                                                *)

Queued(p) == pc[p] \in {"exchanged", "waiting", "locked"}

\* The ticket that p waits for: still a local variable, or already in p's ticket.
Before(p) == IF pc[p] = "exchanged" THEN prevTop[p] ELSE Prev[newTop[p]]

\* The queue holds each waiting processor and the holder once.
QueueHoldsWaiting ==
  /\ \A i \in 1..Len(queue) : Queued(queue[i])
  /\ \A p \in Procs : Queued(p) => \E i \in 1..Len(queue) : queue[i] = p
  /\ \A i, j \in 1..Len(queue) : queue[i] = queue[j] => i = j

\* No two processors have the same ticket, and one that is initialised and not
\* released says so.
TicketsOwned ==
  /\ \A p, q \in Procs : newTop[p] = newTop[q] /\ newTop[p] # NULL => p = q
  /\ \A p \in Procs : pc[p] \in {"waiting", "locked"} => ~Finished[newTop[p]]

\* Each processor in the queue waits for the one before it.
QueueLinked ==
  \A i \in 1..Len(queue) : i > 1 => Before(queue[i]) = newTop[queue[i-1]]

\* The lock points to the last ticket in the queue.
TopIsLast == Len(queue) > 0 => top = newTop[queue[Len(queue)]]

\* Only the first in the queue has the lock.
HolderIsFirst ==
  \A p \in Procs : pc[p] = "locked" => Len(queue) > 0 /\ queue[1] = p

\* The order of the queue, which is lost once somebody is passed.
Order == QueueLinked /\ TopIsLast /\ HolderIsFirst

IInv == TypeOK /\ QueueHoldsWaiting /\ TicketsOwned /\ (~early => Order)

-----------------------------------------------------------------------------
(* The initial states.                                                     *)

\* The invariant holds while nobody has a ticket.
LEMMA IInvInit == Init => IInv
<1> SUFFICES ASSUME Init PROVE IInv
  OBVIOUS
<1> USE DEF Init
<1>1. TypeOK
  <2>1. early \in BOOLEAN /\ reused \in BOOLEAN
    BY Zenon
  <2>2. Finished \in [Tickets -> BOOLEAN]
    BY Zenon
  <2>3. queue \in Seq(Procs)
    OBVIOUS
  <2>4. QED
    BY <2>1, <2>2, <2>3 DEF TypeOK
<1>2. Len(queue) = 0
  OBVIOUS
<1>3. QueueHoldsWaiting /\ QueueLinked /\ TopIsLast
  BY <1>2 DEF QueueHoldsWaiting, QueueLinked, TopIsLast, Queued
<1>4. TicketsOwned /\ HolderIsFirst
  BY DEF TicketsOwned, HolderIsFirst
<1>5. QED
  BY <1>1, <1>3, <1>4 DEF IInv, Order

-----------------------------------------------------------------------------
(* One lemma per action.                                                   *)

\* The ticket t is nobody's now, so that whatever its memory holds disturbs no
\* link of the queue.
LEMMA DeclareKeeps ==
  ASSUME IInv, NEW p \in Procs, NEW t \in Tickets, Declare(p, t)
  PROVE  IInv'
<1> USE TicketsAssumption DEF IInv
<1>1. PICK old \in Stale : Finished' = [Finished EXCEPT ![t] = old]
  BY DEF Declare
<1>2. TypeOK'
  BY <1>1, StaleAssumption DEF TypeOK, Declare, Goto, PointedTo
<1>3. /\ \A q \in Procs : q # p => pc'[q] = pc[q] /\ newTop'[q] = newTop[q]
      /\ pc[p] = "idle" /\ pc'[p] = "declared" /\ newTop'[p] = t
  BY DEF TypeOK, Declare, Goto
<1>4. /\ \A u \in Tickets : u # t => Finished'[u] = Finished[u]
      /\ Prev' = Prev /\ queue' = queue /\ top' = top /\ prevTop' = prevTop /\ early' = early
  BY <1>1 DEF TypeOK, Declare, Goto
<1>5. \A q \in Procs : Queued(q)' <=> Queued(q)
  BY <1>3 DEF Queued
<1>6. QueueHoldsWaiting'
  BY <1>4, <1>5 DEF QueueHoldsWaiting, TypeOK
<1>7. \A q \in Procs : newTop[q] # t
  BY DEF Declare
<1>8. TicketsOwned'
  BY <1>3, <1>4, <1>7 DEF TicketsOwned, TypeOK
<1>9. \A q \in Procs : Queued(q) => Before(q)' = Before(q) /\ newTop'[q] = newTop[q]
  BY <1>3, <1>4 DEF Queued, Before
<1>10. Len(queue) \in Nat /\ \A i \in 1..Len(queue) : queue[i] \in Procs /\ Queued(queue[i])
  BY DEF QueueHoldsWaiting, TypeOK
<1>11. \A i \in 1..Len(queue) : Before(queue[i])' = Before(queue[i])
                                /\ newTop'[queue[i]] = newTop[queue[i]]
  BY <1>4, <1>9, <1>10
<1>12. Order => QueueLinked'
  <2>1. \A i \in 1..Len(queue) : i > 1 => i - 1 \in 1..Len(queue)
    BY <1>10
  <2>2. QED
    BY <1>4, <1>11, <2>1 DEF Order, QueueLinked
<1>13. Order => TopIsLast'
  <2>1. Len(queue) > 0 => Len(queue) \in 1..Len(queue)
    BY <1>10
  <2>2. QED
    BY <1>4, <1>11, <2>1 DEF Order, TopIsLast
<1>14. Order => HolderIsFirst'
  BY <1>3, <1>4 DEF Order, HolderIsFirst
<1>15. QED
  BY <1>2, <1>4, <1>6, <1>8, <1>12, <1>13, <1>14 DEF Order

\* The processor that joins waits for what the lock pointed to.
LEMMA ExchangeKeeps ==
  ASSUME IInv, NEW p \in Procs, Exchange(p)
  PROVE  IInv'
<1> USE TicketsAssumption DEF IInv
<1>1. TypeOK'
  BY DEF TypeOK, Exchange, Goto
<1>2. \A q \in Procs : q # p => pc'[q] = pc[q] /\ prevTop'[q] = prevTop[q]
  BY DEF TypeOK, Exchange, Goto
<1>3. /\ pc[p] = "declared" /\ pc'[p] = "exchanged" /\ prevTop'[p] = top
      /\ top' = newTop[p] /\ Prev' = Prev /\ Finished' = Finished /\ newTop' = newTop
      /\ early' = early
  BY DEF TypeOK, Exchange, Goto
<1>4. /\ Len(queue) \in Nat
      /\ Len(queue') = Len(queue) + 1
      /\ \A i \in 1..Len(queue) : queue'[i] = queue[i] /\ queue[i] \in Procs
      /\ queue'[Len(queue) + 1] = p
  BY DEF TypeOK, Exchange
<1>5. \A i \in 1..Len(queue) : Queued(queue[i]) /\ queue[i] # p
  BY <1>3, <1>4 DEF QueueHoldsWaiting, Queued
<1>6. \A q \in Procs : q # p => (Queued(q)' <=> Queued(q)) /\ Before(q)' = Before(q)
  BY <1>2, <1>3 DEF Queued, Before
<1>7. Queued(p)' /\ Before(p)' = top
  BY <1>3 DEF Queued, Before
<1>8. QueueHoldsWaiting'
  <2>1. \A i \in 1..Len(queue') : Queued(queue[i])'
    BY <1>4, <1>5, <1>6, <1>7
  <2>2. \A q \in Procs : Queued(q)' => \E i \in 1..Len(queue') : queue'[i] = q
    <3> SUFFICES ASSUME NEW q \in Procs, Queued(q)'
                 PROVE  \E i \in 1..Len(queue') : queue'[i] = q
      OBVIOUS
    <3>1. CASE q = p
      BY <3>1, <1>4
    <3>2. CASE q # p
      <4>1. PICK i \in 1..Len(queue) : queue[i] = q
        BY <3>2, <1>6 DEF QueueHoldsWaiting
      <4>2. QED
        BY <4>1, <1>4
    <3>3. QED
      BY <3>1, <3>2
  <2>3. \A i, j \in 1..Len(queue') : queue'[i] = queue'[j] => i = j
    BY <1>4, <1>5 DEF QueueHoldsWaiting
  <2>4. QED
    BY <2>1, <2>2, <2>3 DEF QueueHoldsWaiting
<1>9. TicketsOwned'
  BY <1>2, <1>3 DEF TicketsOwned
<1>10. Order => QueueLinked'
  <2> SUFFICES ASSUME Order, NEW i \in 1..Len(queue'), i > 1
               PROVE  Before(queue[i])' = newTop'[queue'[i-1]]
    BY DEF QueueLinked
  <2>1. CASE i <= Len(queue)
    <3>1. i \in 1..Len(queue) /\ i - 1 \in 1..Len(queue)
      BY <2>1, <1>4
    <3>2. Before(queue[i]) = newTop[queue[i-1]]
      BY <3>1 DEF Order, QueueLinked
    <3>3. queue'[i] = queue[i] /\ queue'[i-1] = queue[i-1]
      BY <3>1, <1>4
    <3>4. Before(queue[i])' = Before(queue[i])
      BY <1>2, <1>3, <1>4, <1>5, <3>1, <3>3 DEF Before
    <3>5. QED
      BY <1>3, <3>2, <3>3, <3>4
  <2>2. CASE i = Len(queue) + 1
    <3>1. queue'[i] = p /\ Len(queue) > 0
      BY <2>2, <1>4
    <3>2. queue'[i-1] = queue[Len(queue)]
      BY <2>2, <3>1, <1>4
    <3>3. top = newTop[queue[Len(queue)]]
      BY <3>1 DEF Order, TopIsLast
    <3>4. Before(queue[i])' = top
      BY <1>3, <3>1 DEF Before
    <3>5. QED
      BY <1>3, <3>2, <3>3, <3>4
  <2>3. QED
    BY <2>1, <2>2, <1>4
<1>11. TopIsLast'
  BY <1>3, <1>4 DEF TopIsLast
<1>12. Order => HolderIsFirst'
  BY <1>2, <1>3, <1>4 DEF Order, HolderIsFirst
<1>13. QED
  BY <1>1, <1>3, <1>8, <1>9, <1>10, <1>11, <1>12 DEF Order

\* The ticket takes over what the local variable held.
LEMMA InitTicketKeeps ==
  ASSUME IInv, NEW p \in Procs, InitTicket(p)
  PROVE  IInv'
<1> USE TicketsAssumption DEF IInv
<1>1. TypeOK'
  BY DEF TypeOK, InitTicket, Goto
<1>2. \A q \in Procs : q # p => pc'[q] = pc[q] /\ prevTop'[q] = prevTop[q]
  BY DEF TypeOK, InitTicket, Goto
<1>3. /\ pc[p] = "exchanged" /\ pc'[p] = "waiting"
      /\ newTop' = newTop /\ queue' = queue /\ top' = top /\ early' = early
      /\ newTop[p] \in Tickets
  BY DEF TypeOK, InitTicket, Goto
<1>4. /\ ~Finished'[newTop[p]] /\ Prev'[newTop[p]] = prevTop[p]
      /\ \A u \in Tickets : u # newTop[p] => Prev'[u] = Prev[u] /\ Finished'[u] = Finished[u]
  BY <1>3 DEF InitTicket, TypeOK
<1>5. \A q \in Procs : pc'[q] # "idle" => newTop[q] \in Tickets
  BY <1>1, <1>3 DEF TypeOK
<1>6. \A q \in Procs : Queued(q)' <=> Queued(q)
  BY <1>2, <1>3 DEF Queued
<1>7. \A q \in Procs : Queued(q) => Before(q)' = Before(q)
  <2> SUFFICES ASSUME NEW q \in Procs, Queued(q) PROVE Before(q)' = Before(q)
    OBVIOUS
  <2>1. CASE q = p
    BY <2>1, <1>3, <1>4 DEF Before
  <2>2. CASE q # p
    <3>1. newTop[q] \in Tickets
      BY DEF Queued, TypeOK
    <3>2. newTop[q] # newTop[p]
      BY <2>2, <3>1 DEF TicketsOwned
    <3>3. QED
      BY <2>2, <3>1, <3>2, <1>2, <1>3, <1>4 DEF Before
  <2>3. QED
    BY <2>1, <2>2
<1>8. \A i \in 1..Len(queue) : queue[i] \in Procs /\ Queued(queue[i])
  BY DEF QueueHoldsWaiting, TypeOK
<1>9. QueueHoldsWaiting'
  BY <1>3, <1>6, <1>8 DEF QueueHoldsWaiting
<1>10. TicketsOwned'
  <2>1. ASSUME NEW q \in Procs, pc'[q] \in {"waiting", "locked"}
        PROVE  ~Finished'[newTop[q]]
    <3>1. CASE q = p
      BY <3>1, <1>4
    <3>2. CASE q # p
      <4>1. newTop[q] \in Tickets /\ newTop[q] # newTop[p]
        BY <2>1, <3>2, <1>5 DEF TicketsOwned
      <4>2. QED
        BY <2>1, <3>2, <4>1, <1>2, <1>4 DEF TicketsOwned
    <3>3. QED
      BY <3>1, <3>2
  <2>2. QED
    BY <2>1, <1>3 DEF TicketsOwned
<1>11. \A i \in 1..Len(queue) : Before(queue[i])' = Before(queue[i])
  BY <1>3, <1>7, <1>8
<1>12. Order => QueueLinked' /\ TopIsLast' /\ HolderIsFirst'
  BY <1>2, <1>3, <1>11 DEF Order, QueueLinked, TopIsLast, HolderIsFirst
<1>13. QED
  BY <1>1, <1>3, <1>9, <1>10, <1>12 DEF Order

\* The ticket before p's is unfinished unless p is the first in the queue, or
\* that ticket is not yet initialised: so that only the first gets past the
\* loop, or somebody is passed.
LEMMA EnterKeeps ==
  ASSUME IInv, NEW p \in Procs, Enter(p)
  PROVE  IInv'
<1> USE TicketsAssumption DEF IInv
<1>1. TypeOK'
  BY DEF TypeOK, Enter, Goto, Uninitialised
<1>2. \A q \in Procs : q # p => pc'[q] = pc[q]
  BY DEF TypeOK, Enter, Goto
<1>3. /\ pc[p] = "waiting" /\ pc'[p] = "locked"
      /\ newTop' = newTop /\ queue' = queue /\ top' = top
      /\ Prev' = Prev /\ Finished' = Finished /\ prevTop' = prevTop
      /\ early' = (early \/ Uninitialised(p))
  BY DEF TypeOK, Enter, Goto
<1>4. \A q \in Procs : (Queued(q)' <=> Queued(q)) /\ Before(q)' = Before(q)
  BY <1>2, <1>3 DEF Queued, Before
<1>5. Len(queue) \in Nat /\ \A i \in 1..Len(queue) : queue[i] \in Procs /\ Queued(queue[i])
  BY DEF QueueHoldsWaiting, TypeOK
<1>6. QueueHoldsWaiting'
  BY <1>3, <1>4, <1>5 DEF QueueHoldsWaiting
<1>7. TicketsOwned'
  BY <1>2, <1>3 DEF TicketsOwned
<1>8. ASSUME ~early' PROVE Order'
  <2>1. Order /\ ~Uninitialised(p)
    BY <1>3, <1>8
  <2>2. QueueLinked' /\ TopIsLast'
    <3>1. \A i \in 1..Len(queue) : Before(queue[i])' = Before(queue[i])
      BY <1>3, <1>4, <1>5
    <3>2. QED
      BY <1>3, <2>1, <3>1 DEF Order, QueueLinked, TopIsLast
  <2>3. PICK i \in 1..Len(queue) : queue[i] = p
    BY <1>3 DEF QueueHoldsWaiting, Queued
  <2>4. ASSUME i > 1 PROVE FALSE
    <3> DEFINE q == queue[i-1]
    <3>1. q \in Procs /\ Queued(q)
      BY <2>4, <1>5
    <3>2. newTop[q] \in Tickets
      BY <3>1 DEF Queued, TypeOK
    <3>3. Prev[newTop[p]] = newTop[q]
      BY <2>1, <2>3, <2>4, <1>3 DEF Order, QueueLinked, Before
    <3>4. pc[q] # "exchanged"
      BY <2>1, <3>1, <3>3 DEF Uninitialised
    <3>5. ~Finished[newTop[q]]
      BY <3>1, <3>4 DEF Queued, TicketsOwned
    <3>6. QED
      BY <3>2, <3>3, <3>5 DEF Enter
  <2>5. Len(queue) > 0 /\ queue[1] = p
    BY <2>3, <2>4, <1>5
  <2>6. HolderIsFirst'
    BY <1>2, <1>3, <2>1, <2>5 DEF Order, HolderIsFirst
  <2>7. QED
    BY <2>2, <2>6 DEF Order
<1>9. QED
  BY <1>1, <1>6, <1>7, <1>8

\* Whoever leaves the queue leaves the others in their order.
LEMMA LeaveShifts ==
  ASSUME TypeOK, NEW p \in Procs, Leave(p)
  PROVE  \E k \in 1..Len(queue) :
           /\ Len(queue) \in Nat /\ queue' \in Seq(Procs) /\ Len(queue') = Len(queue) - 1
           /\ queue[k] = p
           /\ \A i \in 1..Len(queue') : queue'[i] = IF i < k THEN queue[i] ELSE queue[i+1]
           /\ \A i \in 1..Len(queue) : queue[i] \in Procs
<1>1. Len(queue) \in Nat /\ DOMAIN queue = 1..Len(queue)
      /\ \A i \in 1..Len(queue) : queue[i] \in Procs
  BY DEF TypeOK
<1>2. PICK k \in 1..Len(queue) :
        /\ queue[k] = p
        /\ queue' = [i \in 1..(Len(queue) - 1) |-> IF i < k THEN queue[i] ELSE queue[i+1]]
  BY <1>1 DEF Leave
<1>3. Len(queue) - 1 \in Nat
  BY <1>1
<1>4. \A i \in 1..(Len(queue) - 1) : (IF i < k THEN queue[i] ELSE queue[i+1]) \in Procs
  BY <1>1
<1>5. queue' \in [1..(Len(queue) - 1) -> Procs]
  BY <1>2, <1>4
<1>6. queue' \in Seq(Procs) /\ Len(queue') = Len(queue) - 1
  BY <1>3, <1>5
<1>7. QED
  BY <1>1, <1>2, <1>6

\* The holder leaves at the front, unless somebody has been passed.
LEMMA FinishKeeps ==
  ASSUME IInv, NEW p \in Procs, Finish(p)
  PROVE  IInv'
<1> USE TicketsAssumption DEF IInv
<1>1. /\ pc[p] = "locked" /\ pc'[p] = "finished"
      /\ newTop' = newTop /\ top' = top /\ Prev' = Prev /\ prevTop' = prevTop
      /\ early' = early
  BY DEF TypeOK, Finish, Goto
<1>2. \A q \in Procs : q # p => pc'[q] = pc[q]
  BY DEF TypeOK, Finish, Goto
<1>3. PICK k \in 1..Len(queue) :
           /\ Len(queue) \in Nat /\ queue' \in Seq(Procs) /\ Len(queue') = Len(queue) - 1
           /\ queue[k] = p
           /\ \A i \in 1..Len(queue') : queue'[i] = IF i < k THEN queue[i] ELSE queue[i+1]
           /\ \A i \in 1..Len(queue) : queue[i] \in Procs
  BY LeaveShifts DEF Finish
<1>4. newTop[p] \in Tickets
  BY <1>1 DEF TypeOK
<1>5. /\ Finished'[newTop[p]]
      /\ \A u \in Tickets : u # newTop[p] => Finished'[u] = Finished[u]
  BY <1>4 DEF Finish, TypeOK
<1>6. TypeOK'
  BY <1>3 DEF TypeOK, Finish, Goto
<1>7. \A i \in 1..Len(queue) : i # k => queue[i] # p
  BY <1>3 DEF QueueHoldsWaiting
<1>8. \A q \in Procs : q # p => (Queued(q)' <=> Queued(q)) /\ Before(q)' = Before(q)
  BY <1>1, <1>2 DEF Queued, Before
<1> DEFINE at(i) == IF i < k THEN i ELSE i + 1
<1>9. \A i \in 1..Len(queue') : /\ at(i) \in 1..Len(queue) /\ at(i) # k
                                /\ queue'[i] = queue[at(i)]
                                /\ queue'[i] \in Procs /\ queue'[i] # p
  BY <1>3, <1>7
<1>10. QueueHoldsWaiting'
  <2>1. \A i \in 1..Len(queue') : Queued(queue[i])'
    BY <1>2, <1>9 DEF QueueHoldsWaiting, Queued
  <2>2. ASSUME NEW q \in Procs, Queued(q)'
        PROVE  \E i \in 1..Len(queue') : queue'[i] = q
    <3>1. q # p
      BY <2>2, <1>1 DEF Queued
    <3>2. PICK i \in 1..Len(queue) : queue[i] = q
      BY <2>2, <3>1, <1>8 DEF QueueHoldsWaiting
    <3>3. i # k
      BY <3>1, <3>2, <1>3
    <3>4. CASE i < k
      <4>1. i \in 1..Len(queue') /\ queue'[i] = queue[i]
        BY <3>4, <1>3
      <4>2. QED
        BY <3>2, <4>1
    <3>5. CASE i > k
      <4>1. i - 1 \in 1..Len(queue') /\ ~(i - 1 < k) /\ (i - 1) + 1 = i
        BY <3>5, <1>3
      <4>2. queue'[i-1] = queue[i]
        BY <4>1, <1>3
      <4>3. QED
        BY <3>2, <4>1, <4>2
    <3>6. QED
      BY <3>3, <3>4, <3>5, <1>3
  <2>3. ASSUME NEW i \in 1..Len(queue'), NEW j \in 1..Len(queue'), queue'[i] = queue'[j]
        PROVE  i = j
    <3>1. at(i) = at(j)
      BY <2>3, <1>9 DEF QueueHoldsWaiting
    <3>2. QED
      BY <3>1, <1>3
  <2>4. QED
    BY <2>1, <2>2, <2>3 DEF QueueHoldsWaiting
<1>11. TicketsOwned'
  <2>1. ASSUME NEW q \in Procs, pc'[q] \in {"waiting", "locked"}
        PROVE  ~Finished'[newTop'[q]]
    <3>1. q # p /\ pc'[q] = pc[q]
      BY <2>1, <1>1, <1>2
    <3>2. newTop[q] \in Tickets
      BY <2>1, <3>1 DEF TypeOK
    <3>3. newTop[q] # newTop[p]
      BY <3>1, <3>2 DEF TicketsOwned
    <3>4. QED
      BY <2>1, <3>1, <3>2, <3>3, <1>1, <1>5 DEF TicketsOwned
  <2>2. QED
    BY <2>1, <1>1 DEF TicketsOwned
<1>12. ASSUME Order PROVE Order'
  <2>1. k = 1
    BY <1>1, <1>3, <1>12 DEF Order, HolderIsFirst, QueueHoldsWaiting
  <2>2. \A i \in 1..Len(queue') : i + 1 \in 1..Len(queue) /\ queue'[i] = queue[i+1]
    BY <1>3, <2>1
  <2>3. QueueLinked'
    <3> SUFFICES ASSUME NEW i \in 1..Len(queue'), i > 1
                 PROVE  Before(queue[i])' = newTop'[queue'[i-1]]
      BY DEF QueueLinked
    <3>1. /\ i - 1 \in 1..Len(queue') /\ (i - 1) + 1 = i
          /\ i + 1 \in 1..Len(queue) /\ i + 1 > 1 /\ (i + 1) - 1 = i
      BY <1>3
    <3>2. queue'[i-1] = queue[i] /\ queue'[i] = queue[i+1]
      BY <3>1, <2>2
    <3>3. Before(queue[i+1]) = newTop[queue[i]]
      BY <3>1, <1>12 DEF Order, QueueLinked
    <3>4. Before(queue[i])' = Before(queue[i+1])
      BY <3>2, <1>1, <1>2, <1>9 DEF Before
    <3>5. QED
      BY <3>2, <3>3, <3>4, <1>1
  <2>4. TopIsLast'
    <3>1. ASSUME Len(queue') > 0 PROVE queue'[Len(queue')] = queue[Len(queue)] /\ Len(queue) > 0
      BY <3>1, <1>3, <2>2
    <3>2. QED
      BY <3>1, <1>1, <1>12 DEF Order, TopIsLast
  <2>5. HolderIsFirst'
    BY <1>1, <1>2, <1>3, <1>12 DEF Order, HolderIsFirst
  <2>6. QED
    BY <2>3, <2>4, <2>5 DEF Order
<1>13. QED
  BY <1>1, <1>6, <1>10, <1>11, <1>12

\* A released ticket is not in the queue any more, so that nobody's link is lost
\* with it.
LEMMA ForgetKeeps ==
  ASSUME IInv, NEW p \in Procs, Forget(p)
  PROVE  IInv'
<1> USE TicketsAssumption DEF IInv
<1>1. TypeOK'
  BY DEF TypeOK, Forget, Goto
<1>2. \A q \in Procs : q # p => pc'[q] = pc[q] /\ newTop'[q] = newTop[q]
  BY DEF TypeOK, Forget, Goto
<1>3. /\ pc[p] = "finished" /\ pc'[p] = "idle" /\ newTop'[p] = NULL
      /\ queue' = queue /\ top' = top /\ Finished' = Finished /\ prevTop' = prevTop
      /\ early' = early
  BY DEF TypeOK, Forget, Goto
<1>4. newTop[p] \in Tickets
  BY <1>3 DEF TypeOK
<1>5. \A u \in Tickets : u # newTop[p] => Prev'[u] = Prev[u]
  BY <1>4 DEF Forget, TypeOK
<1>6. \A q \in Procs : Queued(q)' <=> Queued(q)
  BY <1>2, <1>3 DEF Queued
<1>7. \A q \in Procs : Queued(q) => q # p /\ newTop[q] \in Tickets
  BY <1>3 DEF Queued, TypeOK
<1>8. \A q \in Procs : Queued(q) => Before(q)' = Before(q) /\ newTop'[q] = newTop[q]
  <2> SUFFICES ASSUME NEW q \in Procs, Queued(q)
               PROVE  Before(q)' = Before(q) /\ newTop'[q] = newTop[q]
    OBVIOUS
  <2>1. q # p /\ newTop[q] \in Tickets
    BY <1>7
  <2>2. newTop[q] # newTop[p]
    BY <2>1 DEF TicketsOwned
  <2>3. QED
    BY <2>1, <2>2, <1>2, <1>3, <1>5 DEF Before
<1>9. Len(queue) \in Nat /\ \A i \in 1..Len(queue) : queue[i] \in Procs /\ Queued(queue[i])
  BY DEF QueueHoldsWaiting, TypeOK
<1>10. QueueHoldsWaiting'
  BY <1>3, <1>6, <1>9 DEF QueueHoldsWaiting
<1>11. TicketsOwned'
  BY <1>2, <1>3 DEF TicketsOwned
<1>12. \A i \in 1..Len(queue) : Before(queue[i])' = Before(queue[i])
                                /\ newTop'[queue[i]] = newTop[queue[i]]
  BY <1>3, <1>8, <1>9
<1>13. Order => QueueLinked'
  <2>1. \A i \in 1..Len(queue) : i > 1 => i - 1 \in 1..Len(queue)
    BY <1>9
  <2>2. QED
    BY <1>3, <1>12, <2>1 DEF Order, QueueLinked
<1>14. Order => TopIsLast'
  <2>1. Len(queue) > 0 => Len(queue) \in 1..Len(queue)
    BY <1>9
  <2>2. QED
    BY <1>3, <1>12, <2>1 DEF Order, TopIsLast
<1>15. Order => HolderIsFirst'
  BY <1>2, <1>3 DEF Order, HolderIsFirst
<1>16. QED
  BY <1>1, <1>3, <1>10, <1>11, <1>13, <1>14, <1>15 DEF Order

-----------------------------------------------------------------------------
(* The theorems.                                                           *)

\* Every step keeps the invariant.
LEMMA IInvNext == IInv /\ [Next]_vars => IInv'
<1> SUFFICES ASSUME IInv, [Next]_vars PROVE IInv'
  OBVIOUS
<1>1. CASE Next
  <2>1. PICK p \in Procs : Run(p) \/ \E t \in Tickets : Declare(p, t)
    BY <1>1 DEF Next
  <2>2. CASE Run(p)
    BY <2>2, ExchangeKeeps, InitTicketKeeps, EnterKeeps, FinishKeeps, ForgetKeeps DEF Run
  <2>3. CASE \E t \in Tickets : Declare(p, t)
    BY <2>3, DeclareKeeps
  <2>4. QED
    BY <2>1, <2>2, <2>3
<1>2. CASE UNCHANGED vars
  BY <1>2 DEF vars, IInv, Order, TypeOK, QueueHoldsWaiting, TicketsOwned, QueueLinked, TopIsLast,
              HolderIsFirst, Queued, Before
<1>3. QED
  BY <1>1, <1>2

\* The state keeps its type, for any number of processors and tickets; in
\* particular MCSLock and MCSUnlock never use a null ticket.
THEOREM TicketsTypeCorrect == Spec => []TypeOK
<1>1. IInv => TypeOK
  BY DEF IInv
<1>2. QED
  BY IInvInit, IInvNext, <1>1, PTL DEF Spec

\* For any number of processors and tickets, and whatever the callers do with the
\* memory of tickets, two processors are in their critical sections together
\* only after one has read a ticket between MCS.c:12 and 13.
THEOREM OneHolder == Spec => []MutualExclusion
<1>1. IInv => MutualExclusion
  BY DEF IInv, Order, HolderIsFirst, MutualExclusion, OneInside
<1>2. QED
  BY IInvInit, IInvNext, <1>1, PTL DEF Spec

\* For any number of processors and tickets, the lock is handed over in the order
\* of the exchanges unless a ticket is read in that window, and nobody drops out
\* of the queue.
THEOREM ServedInOrder == Spec => []FirstComeFirstServed
<1>1. IInv => FirstComeFirstServed
  <2> SUFFICES ASSUME IInv PROVE FirstComeFirstServed
    OBVIOUS
  <2>1. Len(queue) \in Nat /\ DOMAIN queue = 1..Len(queue)
        /\ \A i \in 1..Len(queue) : queue[i] \in Procs
    BY DEF IInv, TypeOK
  <2>2. ASSUME ~early, NEW p \in Procs, pc[p] = "locked"
        PROVE  queue # <<>> /\ Head(queue) = p
    BY <2>1, <2>2 DEF IInv, Order, HolderIsFirst, TypeOK
  <2>3. {queue[k] : k \in DOMAIN queue} = {p \in Procs : Queued(p)}
    BY <2>1 DEF IInv, QueueHoldsWaiting
  <2>4. QED
    BY <2>2, <2>3 DEF FirstComeFirstServed, Queued
<1>2. QED
  BY IInvInit, IInvNext, <1>1, PTL DEF Spec

-----------------------------------------------------------------------------
(* Callers that zero their tickets.                                        *)

\* A ticket says unfinished from its declaration to its release.
ZeroInv ==
  /\ ~early
  /\ \A p \in Procs : pc[p] \in {"declared", "exchanged", "waiting", "locked"}
       => ~Finished[newTop[p]]

\* If every caller zeroes its ticket, no old Finished is ever seen.
LEMMA ZeroInvNext ==
  ASSUME Stale = {FALSE}, IInv, ZeroInv, [Next]_vars
  PROVE  ZeroInv'
<1> USE TicketsAssumption DEF IInv
<1>1. \A p \in Procs : pc[p] # "idle" => newTop[p] \in Tickets
  BY DEF TypeOK
<1>2. \A p, q \in Procs : p # q /\ pc[p] # "idle" => newTop[p] # newTop[q]
  BY <1>1 DEF TicketsOwned
<1>3. ASSUME NEW p \in Procs, NEW t \in Tickets, Declare(p, t) PROVE ZeroInv'
  <2>1. /\ Finished' = [Finished EXCEPT ![t] = FALSE]
        /\ newTop' = [newTop EXCEPT ![p] = t] /\ early' = early
        /\ pc' = [pc EXCEPT ![p] = "declared"]
        /\ \A q \in Procs : newTop[q] # t
    BY <1>3 DEF Declare, Goto
  <2>2. QED
    BY <1>1, <2>1 DEF ZeroInv, TypeOK
<1>4. ASSUME NEW p \in Procs, Exchange(p) PROVE ZeroInv'
  BY <1>4 DEF Exchange, Goto, ZeroInv, TypeOK
<1>5. ASSUME NEW p \in Procs, InitTicket(p) PROVE ZeroInv'
  <2>1. Finished[newTop[p]] = FALSE /\ newTop[p] \in Tickets
    BY <1>1, <1>5 DEF InitTicket, Goto, ZeroInv, TypeOK
  <2>2. Finished' = Finished
    BY <1>5, <2>1 DEF InitTicket, TypeOK
  <2>3. QED
    BY <1>5, <2>2 DEF InitTicket, Goto, ZeroInv, TypeOK
<1>6. ASSUME NEW p \in Procs, Enter(p) PROVE ZeroInv'
  <2>1. newTop[p] \in Tickets
    BY <1>1, <1>6 DEF Enter, Goto
  <2>2. ASSUME NEW q \in Procs, pc[q] = "exchanged", newTop[q] = Prev[newTop[p]] PROVE FALSE
    <3>1. ~Finished[newTop[q]] /\ newTop[q] # NULL
      BY <2>2, <1>1 DEF ZeroInv
    <3>2. QED
      BY <1>6, <2>2, <3>1 DEF Enter
  <2>3. ~early'
    BY <1>6, <2>2 DEF Enter, Uninitialised, ZeroInv
  <2>4. QED
    BY <1>6, <2>3 DEF Enter, Goto, ZeroInv, TypeOK
<1>7. ASSUME NEW p \in Procs, Finish(p) PROVE ZeroInv'
  <2>1. /\ Finished' = [Finished EXCEPT ![newTop[p]] = TRUE]
        /\ newTop' = newTop /\ early' = early /\ pc' = [pc EXCEPT ![p] = "finished"]
        /\ pc[p] = "locked"
    BY <1>7 DEF Finish, Goto
  <2>2. ASSUME NEW q \in Procs, pc'[q] \in {"declared", "exchanged", "waiting", "locked"}
        PROVE  ~Finished'[newTop'[q]]
    <3>1. q # p /\ pc[q] = pc'[q]
      BY <2>1, <2>2 DEF TypeOK
    <3>2. newTop[q] # newTop[p] /\ newTop[q] \in Tickets
      BY <1>1, <1>2, <2>1, <2>2, <3>1
    <3>3. QED
      BY <2>1, <2>2, <3>1, <3>2 DEF ZeroInv, TypeOK
  <2>3. QED
    BY <2>1, <2>2 DEF ZeroInv
<1>8. ASSUME NEW p \in Procs, Forget(p) PROVE ZeroInv'
  BY <1>8 DEF Forget, Goto, ZeroInv, TypeOK
<1>9. CASE UNCHANGED vars
  BY <1>9 DEF vars, ZeroInv
<1>10. QED
  BY <1>3, <1>4, <1>5, <1>6, <1>7, <1>8, <1>9 DEF Next, Run

\* If every caller zeroes its ticket before MCSLock, the window is harmless: two
\* processors are never in their critical sections together, even if tickets
\* are used again while somebody still points to them.
THEOREM ZeroedTicketsExclude ==
  ASSUME Stale = {FALSE}
  PROVE  Spec => []OneInside
<1>1. Init => IInv /\ ZeroInv
  BY IInvInit DEF Init, ZeroInv
<1>2. IInv /\ ZeroInv /\ [Next]_vars => (IInv /\ ZeroInv)'
  BY IInvNext, ZeroInvNext
<1>3. IInv /\ ZeroInv => OneInside
  BY DEF IInv, ZeroInv, Order, HolderIsFirst, OneInside
<1>4. QED
  BY <1>1, <1>2, <1>3, PTL DEF Spec
=============================================================================
