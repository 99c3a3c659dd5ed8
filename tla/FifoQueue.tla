------------------------------ MODULE FifoQueue ------------------------------
(***************************************************************************)
(* What the global request scheduler promises under the FIFO policy: the   *)
(* listener adds a sandbox at the end of a queue, a worker takes the one   *)
(* at its front, and each does so in one indivisible step.                 *)
(***************************************************************************)
EXTENDS Integers, Sequences

CONSTANTS Worker, Sandbox

VARIABLES
    queue,  \* the sandboxes added and not yet taken, oldest first
    got     \* per worker, the sandboxes it has taken, in order

Init == queue = <<>> /\ got = [w \in Worker |-> <<>>]

Add(s) == queue' = Append(queue, s) /\ UNCHANGED got

Remove(w) ==
    /\ queue # <<>>
    /\ got' = [got EXCEPT ![w] = Append(@, Head(queue))]
    /\ queue' = Tail(queue)

Next == (\E s \in Sandbox : Add(s)) \/ (\E w \in Worker : Remove(w))

Spec == Init /\ [][Next]_<<queue, got>>
=============================================================================
