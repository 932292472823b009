--------------------------- MODULE MCUsageCleanup ---------------------------
(* TLC instances of UsageCleanup. *)
EXTENDS UsageCleanup, TLC

Symmetry == Permutations(Instances) \cup Permutations(Models) \cup Permutations(Sids)
=============================================================================
