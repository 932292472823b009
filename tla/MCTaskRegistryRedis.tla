------------------------- MODULE MCTaskRegistryRedis -------------------------
(* TLC instances of TaskRegistryRedis: two instances, two tasks.            *)
EXTENDS TaskRegistryRedis, TLC

Symmetry == Permutations(Tasks) \cup Permutations(Items)
                \cup Permutations(Instances)

\* The instances are alike, and so are the tasks: a stop request is served where
\* the first task runs, and the second runs there too or on the other instance.
\* (Bound: not both tasks on the other one.  Symmetry sets are not sound for
\* liveness.)
MCInit ==
    LET here == CHOOSE n \in Instances : TRUE
    IN /\ Init
       /\ home[CHOOSE t \in Tasks : TRUE] = here
       /\ \A s \in Stoppers : at[s] = here

MCFairSpec == MCInit /\ [][Next]_vars /\ Fairness
=============================================================================
