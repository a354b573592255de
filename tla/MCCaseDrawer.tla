---------------------------- MODULE MCCaseDrawer ----------------------------
(* A small instance of CaseDrawer: nothing tells one case from another. *)
EXTENDS CaseDrawer, TLC

Symmetry == Permutations(Case)
=============================================================================
