-------------------------- MODULE MCAlertLifecycle --------------------------
(* AlertLifecycle on small sets of model values; rows of one table are
   interchangeable until they are used, and so are collectors. *)
EXTENDS AlertLifecycle, TLC

Symmetry == Permutations(AlertIds) \cup Permutations(EventIds) \cup Permutations(Collectors)
=============================================================================
