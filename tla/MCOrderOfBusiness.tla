-------------------------- MODULE MCOrderOfBusiness -------------------------
(* OrderOfBusiness on small instances. *)
EXTENDS OrderOfBusiness

Symmetry == Permutations(Requests)
=============================================================================
