------------------------------- MODULE MCFifo -------------------------------
(***************************************************************************)
(* Instance of Fifo for TLC: two workers race for three sandboxes in a     *)
(* deque that is full with two.                                            *)
(***************************************************************************)
EXTENDS Fifo
=============================================================================
