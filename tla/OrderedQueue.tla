---------------------------- MODULE OrderedQueue ----------------------------
(***************************************************************************)
(* What a priority queue promises: a bounded set of elements from which    *)
(* only a most urgent one is ever taken, and a published priority that a   *)
(* thread may read at any time without the lock.  An operation may leave   *)
(* the published priority behind, but the next one starts only when it is  *)
(* exact again.                                                            *)
(***************************************************************************)
EXTENDS Integers

CONSTANTS Element, PriorityOf, MaxPriority

VARIABLES
    elements,   \* what the queue holds
    published   \* the priority a lock-free reader sees

vars == <<elements, published>>

IsEarliest(e, S) == e \in S /\ \A x \in S : PriorityOf[e] <= PriorityOf[x]

\* p is the priority of the most urgent element of S.
IsHighest(p, S) ==
    \/ S = {} /\ p = MaxPriority
    \/ \E e \in S : IsEarliest(e, S) /\ p = PriorityOf[e]

Init == elements = {} /\ published = MaxPriority

Put(e) ==
    /\ IsHighest(published, elements)
    /\ e \notin elements
    /\ elements' = elements \cup {e}
    /\ UNCHANGED published

Take(e) ==
    /\ IsHighest(published, elements)
    /\ IsEarliest(e, elements)
    /\ elements' = elements \ {e}
    /\ UNCHANGED published

Publish ==
    /\ IsHighest(published', elements)
    /\ UNCHANGED elements

Next == (\E e \in Element : Put(e) \/ Take(e)) \/ Publish

Spec == Init /\ [][Next]_vars

=============================================================================
