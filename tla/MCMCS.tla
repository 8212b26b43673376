------------------------------- MODULE MCMCS -------------------------------
(***************************************************************************)
(* MCS with three processors and three tickets, so that tickets are used   *)
(* again all the time, also while they are still pointed to, and hold      *)
(* either value of Finished before.  No symmetry is used: a liveness       *)
(* property is checked.  Deadlock is not an error: a processor whose       *)
(* ticket is the one it waits for spins for ever, and with it the others.  *)
(***************************************************************************)
EXTENDS MCS
=============================================================================
