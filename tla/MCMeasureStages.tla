-------------------------- MODULE MCMeasureStages ---------------------------
(* MeasureStages, and what is shown of it, on small instances. *)
EXTENDS MeasureViews, TLC

Symmetry == Permutations(Requests)
=============================================================================
