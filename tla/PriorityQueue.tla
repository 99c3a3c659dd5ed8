---------------------------- MODULE PriorityQueue ----------------------------
(***************************************************************************)
(* priority_queue.h: the array-based min-heap behind the global request    *)
(* queue, the run queues and the timeout queues.  One action is one        *)
(* iteration of a loop, so every state a lock-free reader of               *)
(* highest_priority can observe is a state here.  The lock (or the thread  *)
(* that owns an unlocked queue) serialises the operations: pc = "free"     *)
(* while none is in progress.                                              *)
(***************************************************************************)
EXTENDS Integers

CONSTANTS
    Element,      \* what is queued
    PriorityOf,   \* get_priority_fn
    MaxPriority,  \* ULONG_MAX
    Capacity,
    AnyDelete,    \* priority_queue_delete is called on other elements than the first
    NULL

ASSUME ElementAssumption ==
    /\ NULL \notin Element
    /\ Capacity \in Nat
    /\ MaxPriority \in Nat
    /\ PriorityOf \in [Element -> Nat]
    /\ \A e \in Element : PriorityOf[e] < MaxPriority
    /\ AnyDelete \in BOOLEAN

VARIABLES
    items,             \* items[1 .. size] is the heap
    size,
    highest_priority,  \* the memoized priority, read without the lock
    pc,                \* "free", or the loop the lock holder is in
    index,             \* its loop variable
    memoize            \* update_highest_value of priority_queue_percolate_down

vars == <<items, size, highest_priority, pc, index, memoize>>

Slot == 1 .. Capacity

\* priority_queue_initialize.
Init ==
    /\ items = [k \in Slot |-> NULL]
    /\ size = 0
    /\ highest_priority = MaxPriority
    /\ pc = "free"
    /\ index = 0
    /\ memoize = FALSE

Contents == {items[k] : k \in 1 .. size}

Priority(k) == PriorityOf[items[k]]

Swap(j, k) == items' = [items EXCEPT ![j] = items[k], ![k] = items[j]]

\* Mutant: the new element is published as the earliest before it has risen.
AppendPublishes(e) ==
    /\ pc = "free"
    /\ e \notin Contents
    /\ size < Capacity
    /\ size' = size + 1
    /\ items' = [items EXCEPT ![size + 1] = e]
    /\ pc' = "up"
    /\ index' = size + 1
    /\ highest_priority' = PriorityOf[e]
    /\ UNCHANGED memoize

\* priority_queue_append; a full queue answers -ENOSPC and stays as it is.
priority_queue_append(e) ==
    /\ pc = "free"
    /\ e \notin Contents
    /\ size < Capacity
    /\ size' = size + 1
    /\ items' = [items EXCEPT ![size + 1] = e]
    /\ pc' = "up"
    /\ index' = size + 1
    /\ UNCHANGED <<highest_priority, memoize>>

\* One iteration of priority_queue_percolate_up, or its end.
priority_queue_percolate_up ==
    /\ pc = "up"
    /\ LET parent == index \div 2
           rises == parent # 0 /\ Priority(index) < Priority(parent) IN
       \/ /\ size = 1
          /\ highest_priority' = Priority(1)
          /\ pc' = "free"
          /\ UNCHANGED <<items, index>>
       \/ /\ size # 1
          /\ rises
          /\ Swap(index, parent)
          /\ highest_priority' = IF parent = 1 THEN Priority(index) ELSE highest_priority
          /\ index' = parent
          /\ UNCHANGED pc
       \/ /\ size # 1
          /\ ~rises
          /\ pc' = "free"
          /\ UNCHANGED <<items, highest_priority, index>>
    /\ UNCHANGED <<size, memoize>>

\* The last element replaces element k, and percolate_down starts from there.
RemoveAt(k) ==
    /\ items' = [items EXCEPT ![k] = items[size], ![size] = NULL]
    /\ size' = size - 1
    /\ pc' = "down"
    /\ index' = k
    /\ memoize' = (k = 1)
    /\ UNCHANGED highest_priority

\* Only an element strictly earlier than the caller's deadline is dequeued.
priority_queue_dequeue_if_earlier(target) ==
    /\ pc = "free"
    /\ size > 0
    /\ highest_priority < target
    /\ RemoveAt(1)

\* Every caller of the EDF policy deletes the first element.
priority_queue_delete(e) ==
    /\ pc = "free"
    /\ \E k \in 1 .. size : items[k] = e /\ (AnyDelete \/ k = 1) /\ RemoveAt(k)

\* Mutant: the right child is never looked at.
IsLeftChild(c, parent) == c = 2 * parent

\* priority_queue_find_smallest_child.
IsSmallestChild(c, parent) ==
    \/ c = 2 * parent /\ (c + 1 <= size => Priority(c) < Priority(c + 1))
    \/ c = 2 * parent + 1 /\ c <= size /\ Priority(c - 1) >= Priority(c)
\* One iteration of priority_queue_percolate_down, or its end.
priority_queue_percolate_down ==
    /\ pc = "down"
    /\ \/ \E c \in 1 .. size :
            /\ IsSmallestChild(c, index)
            /\ Priority(index) > Priority(c)
            /\ Swap(index, c)
            /\ index' = c
            /\ UNCHANGED <<highest_priority, pc>>
       \/ /\ \A c \in 1 .. size : IsSmallestChild(c, index) => Priority(index) <= Priority(c)
          /\ highest_priority' = IF ~memoize THEN highest_priority
                                 ELSE IF size = 0 THEN MaxPriority ELSE Priority(1)
          /\ pc' = "free"
          /\ UNCHANGED <<items, index>>
    /\ UNCHANGED <<size, memoize>>

Deadline == {PriorityOf[e] : e \in Element} \cup {MaxPriority}

Next ==
    \/ \E e \in Element : priority_queue_append(e) \/ priority_queue_delete(e)
    \/ \E target \in Deadline : priority_queue_dequeue_if_earlier(target)
    \/ priority_queue_percolate_up
    \/ priority_queue_percolate_down

Spec == Init /\ [][Next]_vars

-----------------------------------------------------------------------------
TypeOK ==
    /\ items \in [Slot -> Element \cup {NULL}]
    /\ size \in 0 .. Capacity
    /\ highest_priority \in Nat
    /\ pc \in {"free", "up", "down"}
    /\ index \in 0 .. Capacity
    /\ memoize \in BOOLEAN
    /\ \A k \in Slot : items[k] # NULL <=> k <= size

\* No element is stored twice or lost in a swap, even in the middle of an operation.
Distinct == \A j, k \in 1 .. size : items[j] = items[k] => j = k

\* Between two operations the first element is a most urgent one and the memoized
\* priority, which priority_queue_peek returns without the lock, is exactly its priority.
HeadIsEarliest ==
    pc = "free" =>
        /\ size = 0 => highest_priority = MaxPriority
        /\ \A k \in 1 .. size : highest_priority = Priority(1) /\ Priority(1) <= Priority(k)

\* While elements are taken a lock-free reader sees a priority that is not later than
\* any element's, and while one is added not later than any of the others': it may look
\* at the queue in vain, but never overlooks an element that was there before.
PeekOverlooksNothing ==
    /\ pc = "down" => \A k \in 1 .. size : highest_priority <= Priority(k)
    /\ pc = "up" => \A k \in 1 .. size : k # index => highest_priority <= Priority(k) \/ size = 1

\* The heap implements the ordered queue.
Ordered == INSTANCE OrderedQueue WITH elements <- Contents, published <- highest_priority
ImplementsOrderedQueue == Ordered!Spec

=============================================================================
