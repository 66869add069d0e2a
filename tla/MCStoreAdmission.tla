--------------------------- MODULE MCStoreAdmission ---------------------------
(* Instances of StoreAdmission for TLC. *)
EXTENDS StoreAdmission, TLC

Symmetry == Permutations(Clients)
=============================================================================
