----------------------------- MODULE MCAnalytics ----------------------------
(* Analytics on a small instance. *)
EXTENDS Analytics, TLC

Symmetry == Permutations(Docs)
=============================================================================
