---------------------------- MODULE MCCollabDoc ----------------------------
(* TLC instances of CollabDoc. *)
EXTENDS CollabDoc, TLC

Symmetry == Permutations(Sids) \cup Permutations(Edits) \cup Permutations(Slots)
                \cup Permutations(Instances)
=============================================================================
