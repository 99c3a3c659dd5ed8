------------------------------- MODULE MCMtds -------------------------------
(***************************************************************************)
(* Instance of Mtds for TLC: a tenant that pays, with two requests around  *)
(* the request of one that does not, and two workers.                      *)
(***************************************************************************)
EXTENDS Mtds

CONSTANTS paid, free

MCTenantOf == [s \in Sandbox |-> IF s = 2 THEN free ELSE paid]
MCDeadline == [s \in Sandbox |-> s]
=============================================================================
