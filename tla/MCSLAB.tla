------------------------------- MODULE MCSLAB -------------------------------
(***************************************************************************)
(* SLAB with pages of 64 bytes: 32 slots of two bytes in two words, and    *)
(* blocks of a cache line (4 bytes), of twice and of four times that, in   *)
(* front of which there are none, one and two residual blocks.             *)
(***************************************************************************)
EXTENDS SLAB

MCElementLengths == {4, 8, 16}

\* BSF counts the zero bits below the lowest one.
ASSUME LowestBit == \A k \in 0..5, odd \in {1, 3, 5, 9} : BSF(odd * 2^k) = k
=============================================================================
