----------------------------- MODULE MCInstance -----------------------------
(* Instance for TLC: two modules that start with one page and with two.    *)
EXTENDS Instance, TLC

CONSTANTS small, large

MCStartingPages == (small :> 1) @@ (large :> 2)
Symmetric == Permutations(Worker) \cup Permutations(Sandbox)

=============================================================================
