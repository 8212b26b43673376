----------------------------- MODULE MCHeapsort -----------------------------
(***************************************************************************)
(* Heapsort on all arrays of up to four of three values.                   *)
(***************************************************************************)
EXTENDS Heapsort

MCValues == 1..3
=============================================================================
