----------------------------- MODULE MCHandoffs -----------------------------
(* Handoffs and the screens that show it, on small instances. *)
EXTENDS OfficeViews, TLC

Symmetry == Permutations(Offices) \cup Permutations(Requests)
=============================================================================
