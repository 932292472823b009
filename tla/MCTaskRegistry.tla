--------------------------- MODULE MCTaskRegistry ---------------------------
(* TLC instances of TaskRegistry: two tasks of one or two items and two     *)
(* coroutines that stop them; three tasks of one item and one coroutine.    *)
EXTENDS TaskRegistry, TLC

Symmetry == Permutations(Tasks) \cup Permutations(Items)
                \cup Permutations(Stoppers)
=============================================================================
