--------------------------- MODULE MCStoreLifecycle ---------------------------
(* Instances of StoreLifecycle for TLC. *)
EXTENDS StoreLifecycle, TLC

Symmetry == Permutations(Rows)

(* Every synchronization can fail. *)
AllSyncs == RootSteps

(* Every one but that of the very first mkdir of db/, which no later start  *)
(* repeats (see known deviations, README.md).                                 *)
RetriedSyncs == RootSteps \ {"prepare"}
=============================================================================
