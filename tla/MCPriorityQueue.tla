--------------------------- MODULE MCPriorityQueue ---------------------------
(***************************************************************************)
(* Instances of PriorityQueue for TLC.  The elements are numbers; the      *)
(* priorities are equal in pairs.                                          *)
(***************************************************************************)
EXTENDS PriorityQueue

MCElement == 1 .. Capacity
Paired == [e \in MCElement |-> (e + 1) \div 2]

=============================================================================
