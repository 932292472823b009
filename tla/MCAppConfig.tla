------------------------------ MODULE MCAppConfig ------------------------------
(* A TLC instance of AppConfig. *)
EXTENDS AppConfig, TLC

CONSTANT u, v

MCValues  == {u, v}
MCImports == {doc \in [Keys -> {v, None}] : {doc[k] : k \in Keys} = {v, None}}
Symmetry  == Permutations(Instances) \cup Permutations(Keys) \cup Permutations(Calls)
=============================================================================
