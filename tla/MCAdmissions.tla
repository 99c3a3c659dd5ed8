---------------------------- MODULE MCAdmissions -----------------------------
(* Admissions for TLC: execution times whose estimates are 0, 2, 3 and 5     *)
(* against a capacity of 8.                                                  *)
EXTENDS Admissions, TLC

MCTime == {1, 4, 6, 10}

Symmetric == Permutations(Sandbox) \cup Permutations(Worker)

=============================================================================
