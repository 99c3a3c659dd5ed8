---------------------------- MODULE MCHttpSession ----------------------------
(* HttpSession for TLC: the addresses and the workers are interchangeable. *)
EXTENDS HttpSession, TLC

Symmetric == Permutations(Session) \cup Permutations(Worker)

=============================================================================
