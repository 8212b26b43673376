-------------------------------- MODULE MCS --------------------------------
(***************************************************************************)
(* The queue lock of kernel/utils/MCS.c: processors line up by exchanging  *)
(* the lock's pointer to the last ticket for their own, and each waits     *)
(* until the ticket before its own is finished.                            *)
(*                                                                         *)
(* Each access to memory that another processor can see is a step of its   *)
(* own.  Nothing in the repository calls the lock yet, and MCS.h states no *)
(* rule for the memory of a ticket, so that none is assumed: a processor   *)
(* may take any memory that is not the ticket of another processor now,    *)
(* whatever it holds and whoever still points to it.  Two things can then  *)
(* go wrong, and a history variable records each: MCSLock publishes a      *)
(* ticket before it initialises it, so that the next processor may take    *)
(* an old Finished for the new one's (early), and a ticket may be used     *)
(* again while somebody still waits for its last use (reused).             *)
(***************************************************************************)
EXTENDS Naturals, Sequences

CONSTANTS Procs,     \* the processors
          Tickets,   \* the memory for tickets
          Stale,     \* what that memory may say of Finished before MCSLock
          NULL       \* the null pointer

ASSUME TicketsAssumption == NULL \notin Tickets

ASSUME StaleAssumption == Stale \subseteq BOOLEAN

VARIABLES top,       \* the lock: the last ticket in the queue
          Prev,      \* ticket -> the ticket before it
          Finished,  \* ticket -> its owner has released the lock
          newTop,    \* processor -> the ticket it passes to MCSLock and MCSUnlock
          prevTop,   \* processor -> the local variable of MCSLock
          pc,        \* processor -> where it is
          queue,     \* history: the processors in the order of their exchanges
          early,     \* history: a processor has passed a ticket not yet initialised
          reused     \* history: a ticket has been taken that was still pointed to

vars == <<top, Prev, Finished, newTop, prevTop, pc, queue, early, reused>>

Init ==
  /\ top = NULL
  /\ Prev = [t \in Tickets |-> NULL]
  /\ Finished = [t \in Tickets |-> FALSE]
  /\ newTop = [p \in Procs |-> NULL]
  /\ prevTop = [p \in Procs |-> NULL]
  /\ pc = [p \in Procs |-> "idle"]
  /\ queue = <<>>
  /\ early = FALSE
  /\ reused = FALSE

Goto(p, from, to) == pc[p] = from /\ pc' = [pc EXCEPT ![p] = to]

\* The lock, a ticket or a processor that is entering the queue points to t.
PointedTo(t) ==
  \/ t = top
  \/ \E u \in Tickets : Prev[u] = t
  \/ \E q \in Procs : prevTop[q] = t

\* The caller takes memory for a ticket, and leaves it as it finds it.
Declare(p, t) ==
  /\ Goto(p, "idle", "declared")
  /\ \A q \in Procs : newTop[q] # t
  /\ \E old \in Stale : Finished' = [Finished EXCEPT ![t] = old]
  /\ newTop' = [newTop EXCEPT ![p] = t]
  /\ reused' = (reused \/ PointedTo(t))
  /\ UNCHANGED <<top, Prev, prevTop, queue, early>>

\* MCSLock publishes the ticket, by an atomic exchange ...
Exchange(p) ==
  /\ Goto(p, "declared", "exchanged")
  /\ prevTop' = [prevTop EXCEPT ![p] = top]
  /\ top' = newTop[p]
  /\ queue' = Append(queue, p)
  /\ UNCHANGED <<Prev, Finished, newTop, early, reused>>

\* ... then initialises it ...
InitTicket(p) ==
  /\ Goto(p, "exchanged", "waiting")
  /\ Prev' = [Prev EXCEPT ![newTop[p]] = prevTop[p]]
  /\ Finished' = [Finished EXCEPT ![newTop[p]] = FALSE]
  /\ prevTop' = [prevTop EXCEPT ![p] = NULL]
  /\ UNCHANGED <<top, newTop, queue, early, reused>>

\* The ticket before p's belongs to a processor that has published it and not
\* initialised it.
Uninitialised(p) == \E q \in Procs : pc[q] = "exchanged" /\ newTop[q] = Prev[newTop[p]]

\* Mutant of Enter: the loop looks at the processor's own ticket only.
EnterUnlessLast(p) ==
  /\ Goto(p, "waiting", "locked")
  /\ Prev[newTop[p]] = NULL \/ newTop[p] # top
  /\ early' = (early \/ Uninitialised(p))
  /\ UNCHANGED <<top, Prev, Finished, newTop, prevTop, queue, reused>>

\* Mutant of Enter: the release is moved in front of the critical section.
EnterReleasesEarly(p) ==
  /\ Goto(p, "waiting", "locked")
  /\ Prev[newTop[p]] # NULL => Finished[Prev[newTop[p]]]
  /\ Finished' = [Finished EXCEPT ![newTop[p]] = TRUE]
  /\ early' = (early \/ Uninitialised(p))
  /\ UNCHANGED <<top, Prev, newTop, prevTop, queue, reused>>

\* ... and spins until there is no unfinished ticket before it.
Enter(p) ==
  /\ Goto(p, "waiting", "locked")
  /\ Prev[newTop[p]] # NULL => Finished[Prev[newTop[p]]]
  /\ early' = (early \/ Uninitialised(p))
  /\ UNCHANGED <<top, Prev, Finished, newTop, prevTop, queue, reused>>

\* p leaves the queue: at the front, unless somebody has been passed.
Leave(p) ==
  \E k \in DOMAIN queue :
    /\ queue[k] = p
    /\ queue' = [i \in 1..(Len(queue) - 1) |-> IF i < k THEN queue[i] ELSE queue[i+1]]

\* Mutant of Finish: the caller's ticket is gone before MCSUnlock has returned.
FinishLosesTicket(p) ==
  /\ Goto(p, "locked", "finished")
  /\ Finished' = [Finished EXCEPT ![newTop[p]] = TRUE]
  /\ newTop' = [newTop EXCEPT ![p] = NULL]
  /\ Leave(p)
  /\ UNCHANGED <<top, Prev, prevTop, early, reused>>

\* Mutant of Finish: MCSUnlock only clears Prev.
FinishSilently(p) ==
  /\ Goto(p, "locked", "finished")
  /\ Leave(p)
  /\ UNCHANGED <<top, Prev, Finished, newTop, prevTop, early, reused>>

\* MCSUnlock: first Finished is set ...
Finish(p) ==
  /\ Goto(p, "locked", "finished")
  /\ Finished' = [Finished EXCEPT ![newTop[p]] = TRUE]
  /\ Leave(p)
  /\ UNCHANGED <<top, Prev, newTop, prevTop, early, reused>>

\* ... then Prev is cleared, and the call returns.
Forget(p) ==
  /\ Goto(p, "finished", "idle")
  /\ Prev' = [Prev EXCEPT ![newTop[p]] = NULL]
  /\ newTop' = [newTop EXCEPT ![p] = NULL]
  /\ UNCHANGED <<top, Finished, prevTop, queue, early, reused>>

\* The steps a processor takes from the declaration of its ticket on.
Run(p) == Exchange(p) \/ InitTicket(p) \/ Enter(p) \/ Finish(p) \/ Forget(p)

Next == \E p \in Procs : Run(p) \/ \E t \in Tickets : Declare(p, t)

\* Every processor keeps running, and whoever has the lock releases it.
Fairness == \A p \in Procs : WF_vars(Run(p))

Spec == Init /\ [][Next]_vars /\ Fairness

-----------------------------------------------------------------------------
(* Properties.                                                             *)

\* The type of the state; in particular a processor that is inside a call has a
\* ticket.
TypeOK ==
  /\ top \in Tickets \cup {NULL}
  /\ Prev \in [Tickets -> Tickets \cup {NULL}]
  /\ Finished \in [Tickets -> BOOLEAN]
  /\ newTop \in [Procs -> Tickets \cup {NULL}]
  /\ prevTop \in [Procs -> Tickets \cup {NULL}]
  /\ pc \in [Procs -> {"idle", "declared", "exchanged", "waiting", "locked", "finished"}]
  /\ queue \in Seq(Procs)
  /\ early \in BOOLEAN /\ reused \in BOOLEAN
  /\ \A p \in Procs : pc[p] # "idle" => newTop[p] # NULL

\* At most one processor is in its critical section.
OneInside ==
  \A p, q \in Procs : pc[p] = "locked" /\ pc[q] = "locked" => p = q

\* Two processors are in their critical sections together only after one has
\* read Finished in a ticket between its publication and its initialisation
\* (MCS.c:12 and 13): nothing else that callers do with the memory of tickets,
\* not even using one that is still waited for, breaks the lock.
MutualExclusion == ~early => OneInside

\* Unless a ticket is read in that window, the lock is handed over in the order
\* of the exchanges; and whoever entered the queue stays in it until it has had
\* the lock.
FirstComeFirstServed ==
  /\ ~early => \A p \in Procs : pc[p] = "locked" => queue # <<>> /\ Head(queue) = p
  /\ {queue[k] : k \in DOMAIN queue} = {p \in Procs : pc[p] \in {"exchanged", "waiting", "locked"}}

\* Whoever calls MCSLock gets the lock, unless somebody has taken a ticket that
\* was still pointed to (a processor may then wait for itself, MCS.c:15).
EveryoneIsServed ==
  \A p \in Procs : (pc[p] = "declared") ~> (pc[p] = "locked" \/ reused)
=============================================================================
