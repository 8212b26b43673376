----------------------------- MODULE MCSkipList -----------------------------
(***************************************************************************)
(* SkipList with small sets of nodes, lists, levels and weights.  Nodes    *)
(* are interchangeable; the symmetry is used where no liveness property is *)
(* checked.                                                                *)
(***************************************************************************)
EXTENDS SkipList, TLC

MCNodeSymmetry == Permutations(Nodes)
=============================================================================
