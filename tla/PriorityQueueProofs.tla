------------------------- MODULE PriorityQueueProofs -------------------------
(***************************************************************************)
(* The heap implements the ordered queue, for every capacity and every     *)
(* assignment of priorities, as long as priority_queue_delete is called on *)
(* the first element only (as the EDF policy does).                        *)
(***************************************************************************)
EXTENDS PriorityQueue, TLAPS, WellFoundedInduction

IsChild(k, j) == k = 2 * j \/ k = 2 * j + 1

\* The heap order between every parent and child, except where the operation in
\* progress has still to look: above index on the way up, below it on the way down.
HeapOrder ==
    \A j, k \in 1 .. size : IsChild(k, j) =>
        \/ Priority(j) <= Priority(k)
        \/ pc = "up" /\ k = index
        \/ pc = "down" /\ j = index

\* The element at index may be wrong there, but its parent is not later than its
\* children, so that moving it keeps the order around it.
AcrossIndex ==
    pc # "free" => \A j, k \in 1 .. size :
        IsChild(index, j) /\ IsChild(k, index) => Priority(j) <= Priority(k)

\* The first element is a most urgent one, but for the element on its way up.
RootIsEarliest ==
    /\ pc = "free" => \A k \in 1 .. size : Priority(1) <= Priority(k)
    /\ pc = "up" => index \in 1 .. size /\ \A k \in 1 .. size : k # index => Priority(1) <= Priority(k)

\* The memoized priority.
Memoized ==
    /\ pc = "free" => highest_priority = IF size = 0 THEN MaxPriority ELSE Priority(1)
    /\ pc = "up" => (size # 1 => highest_priority = Priority(1))
    /\ pc = "down" =>
        /\ memoize
        /\ index >= 1
        /\ \A k \in 1 .. size : highest_priority <= Priority(k)

HeapInv == TypeOK /\ Distinct /\ HeapOrder /\ AcrossIndex /\ RootIsEarliest /\ Memoized

-----------------------------------------------------------------------------
\* A non-empty set of natural numbers has a least element.
LEMMA Least ==
    ASSUME NEW S \in SUBSET Nat, S # {}
    PROVE  \E n \in S : \A m \in S : n <= m
  <1>1. PICK n \in S : \A m \in S : ~(<<m, n>> \in OpToRel(<, Nat))
    BY NatLessThanWellFounded, WFMin
  <1>2. \A m \in S : <<m, n>> \in OpToRel(<, Nat) <=> m < n
    BY DEF OpToRel
  <1>3. \A m \in S : ~(m < n)
    BY <1>1, <1>2
  <1> QED BY <1>3

\* Every slot but the first has a parent before it.
LEMMA Parent ==
    ASSUME NEW k \in Nat, k >= 2
    PROVE  /\ k \div 2 \in Nat /\ k \div 2 >= 1 /\ k \div 2 < k
           /\ IsChild(k, k \div 2)
           /\ \A j \in Nat : IsChild(k, j) => j = k \div 2
  BY Z3 DEF IsChild

\* A complete heap order makes the first element a most urgent one: otherwise take the
\* first slot that is more urgent and look at its parent.
LEMMA Root ==
    ASSUME TypeOK,
           \A j, k \in 1 .. size : IsChild(k, j) => Priority(j) <= Priority(k)
    PROVE  \A k \in 1 .. size : Priority(1) <= Priority(k)
  <1> DEFINE Bad == {k \in 1 .. size : Priority(1) > Priority(k)}
  <1>1. \A k \in 1 .. size : Priority(k) \in Nat
    BY ElementAssumption DEF TypeOK, Priority, Slot
  <1>2. CASE Bad = {}
    <2> SUFFICES ASSUME NEW k \in 1 .. size
                 PROVE  Priority(1) <= Priority(k)
      OBVIOUS
    <2>1. ~(Priority(1) > Priority(k))
      BY <1>2
    <2>2. 1 \in 1 .. size
      BY DEF TypeOK
    <2> HIDE DEF Bad
    <2> QED BY <1>1, <2>1, <2>2
  <1>3. CASE Bad # {}
    <2>1. Bad \in SUBSET Nat
      BY DEF TypeOK
    <2>2. PICK k \in Bad : \A m \in Bad : k <= m
      BY <2>1, <1>3, Least
    <2>3. k \in 1 .. size /\ k >= 2 /\ k \in Nat /\ size \in Nat
      BY <1>1, <2>2 DEF TypeOK
    <2>4. k \div 2 \in 1 .. size /\ k \div 2 < k /\ IsChild(k, k \div 2)
      BY <2>3, Parent
    <2>5. k \div 2 \notin Bad
      BY <2>2, <2>3, <2>4
    <2>6. Priority(k \div 2) <= Priority(k) /\ Priority(1) <= Priority(k \div 2)
      BY <1>1, <2>3, <2>4, <2>5
    <2> QED BY <1>1, <2>2, <2>3, <2>4, <2>6
  <1> QED BY <1>2, <1>3

-----------------------------------------------------------------------------
\* The slots in use hold elements, and their priorities are numbers.
LEMMA SlotView ==
    ASSUME TypeOK
    PROVE  /\ size \in Nat
           /\ \A k \in 1 .. size : k \in Slot /\ items[k] \in Element /\ Priority(k) \in Nat
           /\ \A k \in 1 .. size : Priority(k) < MaxPriority
  BY ElementAssumption DEF TypeOK, Slot, Priority

\* A swap exchanges two priorities and keeps the contents.
LEMMA SwapView ==
    ASSUME TypeOK, Distinct, NEW a \in 1 .. size, NEW b \in 1 .. size, a # b,
           Swap(a, b), size' = size
    PROVE  /\ items' \in [Slot -> Element \cup {NULL}]
           /\ \A k \in Slot : items'[k] # NULL <=> k <= size
           /\ Priority(a)' = Priority(b) /\ Priority(b)' = Priority(a)
           /\ \A k \in 1 .. size : k # a /\ k # b => Priority(k)' = Priority(k)
           /\ Distinct'
           /\ Contents' = Contents
  <1> USE SlotView
  <1>1. /\ a \in Slot /\ b \in Slot
        /\ items'[a] = items[b] /\ items'[b] = items[a]
        /\ \A k \in Slot : k # a /\ k # b => items'[k] = items[k]
    BY DEF TypeOK, Swap
  <1>2. items' \in [Slot -> Element \cup {NULL}]
    BY DEF TypeOK, Swap
  <1>3. \A k \in Slot : items'[k] # NULL <=> k <= size
    BY <1>1 DEF TypeOK
  <1>4. Distinct'
    BY <1>1 DEF Distinct
  <1>5. Contents' = Contents
    BY <1>1 DEF Contents
  <1> QED BY <1>1, <1>2, <1>3, <1>4, <1>5 DEF Priority

\* Appending keeps the invariant.
LEMMA AppendKeeps ==
    ASSUME HeapInv, NEW e \in Element, priority_queue_append(e)
    PROVE  HeapInv'
  <1> TypeOK BY DEF HeapInv
  <1> USE SlotView
  <1>1. /\ size + 1 \in Slot /\ size' = size + 1
        /\ items'[size + 1] = e /\ \A k \in 1 .. size : items'[k] = items[k]
        /\ \A k \in 1 .. size : Priority(k)' = Priority(k)
    BY ElementAssumption DEF TypeOK, Slot, priority_queue_append, Priority
  <1>2. TypeOK'
    BY <1>1, ElementAssumption DEF TypeOK, Slot, priority_queue_append
  <1>3. Distinct'
    BY <1>1 DEF HeapInv, Distinct, priority_queue_append, Contents
  <1>4. HeapOrder'
    BY <1>1 DEF HeapInv, HeapOrder, IsChild, priority_queue_append
  <1>5. AcrossIndex'
    BY <1>1 DEF AcrossIndex, IsChild, priority_queue_append
  <1>6. RootIsEarliest'
    BY <1>1 DEF HeapInv, RootIsEarliest, priority_queue_append
  <1>7. Memoized'
    BY <1>1 DEF HeapInv, Memoized, priority_queue_append
  <1> QED BY <1>2, <1>3, <1>4, <1>5, <1>6, <1>7 DEF HeapInv

\* An iteration of priority_queue_percolate_up keeps the invariant.
LEMMA UpKeeps ==
    ASSUME HeapInv, priority_queue_percolate_up
    PROVE  HeapInv'
  <1> TypeOK BY DEF HeapInv
  <1> USE SlotView
  <1> DEFINE parent == index \div 2
             rises  == parent # 0 /\ Priority(index) < Priority(parent)
  <1>1. pc = "up" /\ index \in 1 .. size /\ index \in Nat /\ size' = size /\ memoize' = memoize
    BY DEF HeapInv, RootIsEarliest, priority_queue_percolate_up
  <1>2. index >= 2 => parent \in 1 .. size /\ parent # index /\ IsChild(index, parent)
    BY <1>1, Parent
  <1>3. index = 1 => parent = 0
    BY Z3
  <1>4. index >= 2 => parent # 0 /\ \A j \in Nat : IsChild(index, j) => j = parent
    BY <1>1, Parent
  <1> HIDE DEF parent
  <1>5. CASE size = 1
    <2>1. pc' = "free" /\ items' = items /\ index' = index /\ highest_priority' = Priority(1)
      BY <1>5 DEF priority_queue_percolate_up
    <2>2. TypeOK' /\ Distinct'
      BY <2>1, <1>1, <1>5 DEF HeapInv, TypeOK, Distinct
    <2>3. HeapOrder' /\ AcrossIndex' /\ RootIsEarliest' /\ Memoized'
      BY <2>1, <1>1, <1>5 DEF HeapOrder, AcrossIndex, RootIsEarliest, Memoized, IsChild, Priority
    <2> QED BY <2>2, <2>3 DEF HeapInv
  <1>6. CASE size # 1 /\ rises
    <2>1. /\ index >= 2
          /\ Swap(index, parent) /\ index' = parent /\ pc' = pc
          /\ highest_priority' = IF parent = 1 THEN Priority(index) ELSE highest_priority
      BY <1>1, <1>3, <1>6 DEF priority_queue_percolate_up, parent
    <2>2. /\ items' \in [Slot -> Element \cup {NULL}]
          /\ \A k \in Slot : items'[k] # NULL <=> k <= size
          /\ Priority(index)' = PriorityOf[items'[index']]
          /\ PriorityOf[items'[index]] = Priority(parent)
          /\ PriorityOf[items'[parent]] = Priority(index)
          /\ \A k \in 1 .. size : k # index /\ k # parent => PriorityOf[items'[k]] = Priority(k)
          /\ Distinct'
      BY <1>1, <1>2, <2>1, SwapView DEF HeapInv, Priority
    <2>3. TypeOK'
      <3>1. highest_priority' \in Nat /\ index' \in 0 .. Capacity
        BY <1>1, <1>2, <2>1, ElementAssumption DEF TypeOK
      <3> QED BY <1>1, <2>1, <2>2, <3>1 DEF TypeOK
    <2>4. HeapOrder'
      BY <1>1, <1>2, <1>4, <1>6, <2>1, <2>2 DEF HeapInv, HeapOrder, AcrossIndex, IsChild, Priority
    <2>5. AcrossIndex'
      BY <1>1, <1>2, <1>4, <1>6, <2>1, <2>2 DEF HeapInv, HeapOrder, AcrossIndex, IsChild, Priority
    <2>6. RootIsEarliest'
      BY <1>1, <1>2, <1>6, <2>1, <2>2 DEF HeapInv, RootIsEarliest, Priority
    <2>7. Memoized'
      BY <1>1, <1>2, <1>6, <2>1, <2>2 DEF HeapInv, Memoized, Priority
    <2> QED BY <2>2, <2>3, <2>4, <2>5, <2>6, <2>7 DEF HeapInv
  <1>7. CASE size # 1 /\ ~rises
    <2>1. pc' = "free" /\ items' = items /\ index' = index /\ highest_priority' = highest_priority
      BY <1>7 DEF priority_queue_percolate_up, parent
    <2>2. \A j, k \in 1 .. size : IsChild(k, j) => Priority(j) <= Priority(k)
      BY <1>1, <1>2, <1>4, <1>7 DEF HeapInv, HeapOrder, IsChild
    <2>3. \A k \in 1 .. size : Priority(1) <= Priority(k)
      BY <2>2, Root
    <2>4. TypeOK' /\ Distinct'
      BY <2>1, <1>1 DEF HeapInv, TypeOK, Distinct
    <2>5. HeapOrder' /\ AcrossIndex' /\ RootIsEarliest' /\ Memoized'
      BY <2>1, <2>2, <2>3, <1>1, <1>7
      DEF HeapInv, HeapOrder, AcrossIndex, RootIsEarliest, Memoized, IsChild, Priority
    <2> QED BY <2>4, <2>5 DEF HeapInv
  <1> QED BY <1>5, <1>6, <1>7

\* Removing the first element keeps the invariant.
LEMMA RemoveKeeps ==
    ASSUME HeapInv, pc = "free", size > 0, RemoveAt(1)
    PROVE  HeapInv' /\ Contents' = Contents \ {items[1]}
  <1> TypeOK BY DEF HeapInv
  <1> USE SlotView
  <1>0. memoize' = TRUE
    BY Zenon DEF RemoveAt
  <1>1. /\ 1 \in Slot /\ size \in Slot /\ size' = size - 1 /\ pc' = "down" /\ index' = 1 /\ memoize'
        /\ highest_priority' = highest_priority
        /\ items' = [items EXCEPT ![1] = items[size], ![size] = NULL]
    BY <1>0 DEF TypeOK, Slot, RemoveAt
  <1>2. /\ items' \in [Slot -> Element \cup {NULL}]
        /\ items'[size] = NULL
        /\ size # 1 => items'[1] = items[size]
        /\ \A k \in Slot : k # 1 /\ k # size => items'[k] = items[k]
    BY <1>1 DEF TypeOK
  <1>3. TypeOK'
    BY <1>1, <1>2, ElementAssumption DEF TypeOK, Slot
  <1>4. Distinct'
    BY <1>1, <1>2 DEF HeapInv, Distinct, Slot
  <1>5. /\ size # 1 => Priority(1)' = Priority(size)
        /\ \A k \in 2 .. size - 1 : Priority(k)' = Priority(k)
    BY <1>1, <1>2 DEF Priority, Slot
  <1>6. HeapOrder' /\ AcrossIndex'
    BY <1>1, <1>5 DEF HeapInv, HeapOrder, AcrossIndex, IsChild
  <1>7. RootIsEarliest' /\ Memoized'
    BY <1>1, <1>5 DEF HeapInv, RootIsEarliest, Memoized
  <1>8. Contents' = Contents \ {items[1]}
    <2>1. \A k \in 1 .. size - 1 : items'[k] \in Contents \ {items[1]}
      BY <1>1, <1>2 DEF HeapInv, Distinct, Contents, Slot
    <2>2. \A k \in 2 .. size : \E l \in 1 .. size - 1 : items'[l] = items[k]
      <3> SUFFICES ASSUME NEW k \in 2 .. size
                   PROVE  \E l \in 1 .. size - 1 : items'[l] = items[k]
        OBVIOUS
      <3>1. CASE k = size
        BY <1>1, <1>2, <3>1
      <3>2. CASE k # size
        BY <1>1, <1>2, <3>2 DEF Slot
      <3> QED BY <3>1, <3>2
    <2>3. \A x \in Contents \ {items[1]} : \E k \in 2 .. size : x = items[k]
      BY DEF Contents
    <2>4. Contents' = {items'[k] : k \in 1 .. size - 1}
      BY <1>1 DEF Contents
    <2>5. Contents' \subseteq Contents \ {items[1]}
      BY <2>1, <2>4
    <2>6. Contents \ {items[1]} \subseteq Contents'
      BY <2>2, <2>3, <2>4
    <2> QED BY <2>5, <2>6
  <1> QED BY <1>3, <1>4, <1>6, <1>7, <1>8 DEF HeapInv

\* An iteration of priority_queue_percolate_down keeps the invariant.
LEMMA DownKeeps ==
    ASSUME HeapInv, priority_queue_percolate_down
    PROVE  HeapInv'
  <1> TypeOK BY DEF HeapInv
  <1> USE SlotView
  <1>1. /\ pc = "down" /\ index \in Nat /\ index >= 1 /\ memoize
        /\ size' = size /\ memoize' = memoize
        /\ \A k \in 1 .. size : highest_priority <= Priority(k)
    BY DEF HeapInv, TypeOK, Memoized, priority_queue_percolate_down
  <1>2. ASSUME NEW c \in 1 .. size, IsSmallestChild(c, index), Priority(index) > Priority(c),
               Swap(index, c), index' = c, highest_priority' = highest_priority, pc' = pc
        PROVE  HeapInv'
    <2>1. /\ index \in 1 .. size /\ c # index /\ IsChild(c, index) /\ c \in Nat /\ c > index
          /\ \A k \in 1 .. size : IsChild(k, index) => Priority(c) <= Priority(k)
      BY <1>1, <1>2 DEF IsSmallestChild, IsChild
    <2>2. /\ items' \in [Slot -> Element \cup {NULL}]
          /\ \A k \in Slot : items'[k] # NULL <=> k <= size
          /\ PriorityOf[items'[index]] = Priority(c)
          /\ PriorityOf[items'[c]] = Priority(index)
          /\ \A k \in 1 .. size : k # index /\ k # c => PriorityOf[items'[k]] = Priority(k)
          /\ Distinct'
      BY <1>1, <1>2, <2>1, SwapView DEF HeapInv, Priority
    <2>3. TypeOK'
      <3>1. index' \in 0 .. Capacity
        BY <1>2, ElementAssumption DEF TypeOK
      <3> QED BY <1>1, <1>2, <2>2, <3>1 DEF TypeOK
    <2>4. HeapOrder'
      BY <1>1, <1>2, <2>1, <2>2 DEF HeapInv, HeapOrder, AcrossIndex, IsChild, Priority
    <2>5. AcrossIndex'
      BY <1>1, <1>2, <2>1, <2>2 DEF HeapInv, HeapOrder, AcrossIndex, IsChild, Priority
    <2>6. RootIsEarliest' /\ Memoized'
      BY <1>1, <1>2, <2>1, <2>2 DEF RootIsEarliest, Memoized, Priority
    <2> QED BY <2>2, <2>3, <2>4, <2>5, <2>6 DEF HeapInv
  <1>3. ASSUME \A c \in 1 .. size : IsSmallestChild(c, index) => Priority(index) <= Priority(c),
               highest_priority' = IF size = 0 THEN MaxPriority ELSE Priority(1),
               pc' = "free", items' = items, index' = index
        PROVE  HeapInv'
    <2>1. \A k \in 1 .. size : IsChild(k, index) => Priority(index) <= Priority(k)
      BY <1>1, <1>3 DEF IsSmallestChild, IsChild
    <2>2. \A j, k \in 1 .. size : IsChild(k, j) => Priority(j) <= Priority(k)
      BY <1>1, <2>1 DEF HeapInv, HeapOrder
    <2>3. \A k \in 1 .. size : Priority(1) <= Priority(k)
      BY <2>2, Root
    <2>4. TypeOK' /\ Distinct'
      BY <1>1, <1>3, ElementAssumption DEF HeapInv, TypeOK, Distinct
    <2>5. HeapOrder' /\ AcrossIndex' /\ RootIsEarliest' /\ Memoized'
      BY <1>1, <1>3, <2>2, <2>3 DEF HeapOrder, AcrossIndex, RootIsEarliest, Memoized, Priority
    <2> QED BY <2>4, <2>5 DEF HeapInv
  <1> QED BY <1>1, <1>2, <1>3 DEF priority_queue_percolate_down

-----------------------------------------------------------------------------
\* priority_queue_initialize and every step of every operation keep the heap invariant.
THEOREM HeapInvariance ==
    ASSUME ~AnyDelete
    PROVE  Spec => []HeapInv
  <1>1. Init => HeapInv
    <2> SUFFICES ASSUME Init
                 PROVE  HeapInv
      OBVIOUS
    <2>1. TypeOK
      <3>1. items \in [Slot -> Element \cup {NULL}] /\ memoize \in BOOLEAN
        BY DEF Init
      <3>2. \A k \in Slot : items[k] = NULL /\ ~(k <= size)
        BY ElementAssumption DEF Init, Slot
      <3>3. size \in 0 .. Capacity /\ index \in 0 .. Capacity /\ highest_priority \in Nat
        BY ElementAssumption DEF Init
      <3> QED BY <3>1, <3>2, <3>3 DEF Init, TypeOK
    <2>2. Distinct /\ HeapOrder /\ AcrossIndex /\ RootIsEarliest /\ Memoized
      BY DEF Init, Distinct, HeapOrder, AcrossIndex, RootIsEarliest, Memoized
    <2> QED BY <2>1, <2>2 DEF HeapInv
  <1>2. HeapInv /\ [Next]_vars => HeapInv'
    <2> SUFFICES ASSUME HeapInv, [Next]_vars
                 PROVE  HeapInv'
      OBVIOUS
    <2>1. CASE \E e \in Element : priority_queue_append(e)
      BY <2>1, AppendKeeps
    <2>2. CASE \E e \in Element : priority_queue_delete(e)
      <3>1. pc = "free" /\ size > 0 /\ RemoveAt(1)
        BY <2>2 DEF priority_queue_delete, HeapInv, TypeOK
      <3> QED BY <3>1, RemoveKeeps
    <2>3. CASE \E target \in Deadline : priority_queue_dequeue_if_earlier(target)
      BY <2>3, RemoveKeeps DEF priority_queue_dequeue_if_earlier
    <2>4. CASE priority_queue_percolate_up
      BY <2>4, UpKeeps
    <2>5. CASE priority_queue_percolate_down
      BY <2>5, DownKeeps
    <2>6. CASE UNCHANGED vars
      BY <2>6 DEF vars, HeapInv, TypeOK, Distinct, HeapOrder, AcrossIndex, RootIsEarliest,
                  Memoized, Priority
    <2> QED BY <2>1, <2>2, <2>3, <2>4, <2>5, <2>6 DEF Next
  <1> QED BY <1>1, <1>2, PTL DEF Spec

\* Between operations the head of the heap is a most urgent element and the memoized
\* priority is exact: what priority_queue_peek and _dequeue_if_earlier rely on.
THEOREM EarliestAtHead ==
    ASSUME ~AnyDelete
    PROVE  Spec => []HeadIsEarliest
  <1>1. HeapInv => HeadIsEarliest
    BY SlotView DEF HeapInv, HeadIsEarliest, RootIsEarliest, Memoized
  <1> QED BY <1>1, HeapInvariance, PTL

\* A lock-free reader of the memoized priority never overlooks an element that was in
\* the queue before the operation in progress.
THEOREM NothingOverlooked ==
    ASSUME ~AnyDelete
    PROVE  Spec => []PeekOverlooksNothing
  <1>1. HeapInv => PeekOverlooksNothing
    BY SlotView DEF HeapInv, PeekOverlooksNothing, RootIsEarliest, Memoized
  <1> QED BY <1>1, HeapInvariance, PTL

\* Between two operations the memoized priority is the highest of the contents.
LEMMA Published ==
    ASSUME HeapInv, pc = "free"
    PROVE  /\ Ordered!IsHighest(highest_priority, Contents)
           /\ size > 0 => Ordered!IsEarliest(items[1], Contents)
  <1> TypeOK BY DEF HeapInv
  <1>1. size = 0 => Contents = {} /\ highest_priority = MaxPriority
    BY DEF HeapInv, Memoized, Contents
  <1>2. size > 0 => /\ Ordered!IsEarliest(items[1], Contents)
                    /\ highest_priority = PriorityOf[items[1]]
                    /\ items[1] \in Contents
    BY SlotView DEF HeapInv, Memoized, RootIsEarliest, Contents, Priority, Ordered!IsEarliest
  <1> QED BY <1>1, <1>2, SlotView DEF Ordered!IsHighest

\* Every step of the heap is a step of the ordered queue or changes nothing there.
LEMMA StepRefines ==
    ASSUME ~AnyDelete, HeapInv, HeapInv', [Next]_vars
    PROVE  [Ordered!Next]_(Ordered!vars)
  <1> TypeOK /\ Distinct BY DEF HeapInv
  <1> USE SlotView
  <1>1. ASSUME NEW e \in Element, priority_queue_append(e)
        PROVE  Ordered!Put(e)
    <2>1. \A k \in 1 .. size : items'[k] = items[k]
      BY <1>1, ElementAssumption DEF TypeOK, Slot, priority_queue_append
    <2>2. items'[size + 1] = e /\ size' = size + 1
      BY <1>1, ElementAssumption DEF TypeOK, Slot, priority_queue_append
    <2>3. Contents' = Contents \cup {e}
      BY <2>1, <2>2 DEF Contents
    <2> QED BY <1>1, <2>3, Published DEF priority_queue_append, Ordered!Put
  <1>2. ASSUME pc = "free", size > 0, RemoveAt(1)
        PROVE  Ordered!Take(items[1])
    BY <1>2, RemoveKeeps, Published DEF RemoveAt, Ordered!Take
  <1>3. items[1] \in Element \/ size = 0
    OBVIOUS
  <1>4. ASSUME size > 0, size' = size, Contents' = Contents,
               highest_priority' = PriorityOf[items'[1]],
               \A k \in 1 .. size : PriorityOf[items'[1]] <= PriorityOf[items'[k]]
        PROVE  Ordered!Publish
    <2>1. Contents = {items'[k] : k \in 1 .. size}
      BY <1>4 DEF Contents
    <2>2. Ordered!IsEarliest(items'[1], Contents)
      BY <1>4, <2>1 DEF Ordered!IsEarliest
    <2>3. items'[1] \in Contents
      BY <2>2 DEF Ordered!IsEarliest
    <2> QED BY <1>4, <2>2, <2>3 DEF Ordered!Publish, Ordered!IsHighest
  <1>5. CASE priority_queue_percolate_up
    <2>1. pc = "up" /\ index \in 1 .. size /\ size' = size /\ size > 0
      BY <1>5 DEF HeapInv, RootIsEarliest, priority_queue_percolate_up
    <2>2. CASE items' = items /\ pc' = "free"
      <3>1. Contents' = Contents
        BY <2>1, <2>2 DEF Contents
      <3>2. /\ highest_priority' = PriorityOf[items'[1]]
            /\ \A k \in 1 .. size : PriorityOf[items'[1]] <= PriorityOf[items'[k]]
        BY <2>1, <2>2 DEF HeapInv, RootIsEarliest, Memoized, Priority
      <3> QED BY <2>1, <3>1, <3>2, <1>4 DEF Ordered!Next
    <2>3. CASE /\ index \div 2 # 0
               /\ Swap(index, index \div 2)
               /\ highest_priority' = IF index \div 2 = 1 THEN Priority(index) ELSE highest_priority
               /\ index' = index \div 2
               /\ pc' = pc
               /\ size # 1
      <3>1. index >= 2
        BY <2>1, <2>3, Z3
      <3>2. index \div 2 \in 1 .. size /\ index \div 2 # index
        BY <2>1, <3>1, Parent
      <3>3. Contents' = Contents
        BY <2>1, <2>3, <3>2, SwapView
      <3>4. CASE index \div 2 = 1
        <4>1. highest_priority' = PriorityOf[items'[1]]
          BY <2>1, <2>3 DEF HeapInv, Memoized, Priority
        <4>2. \A k \in 1 .. size : PriorityOf[items'[k]] \in Nat
          BY <2>1, ElementAssumption DEF HeapInv, TypeOK, Slot
        <4>3. \A k \in 1 .. size : PriorityOf[items'[1]] <= PriorityOf[items'[k]]
          BY <2>1, <2>3, <3>4, <4>2 DEF HeapInv, RootIsEarliest, Priority
        <4> QED BY <2>1, <3>3, <4>1, <4>3, <1>4 DEF Ordered!Next
      <3>5. CASE index \div 2 # 1
        BY <2>3, <3>3, <3>5 DEF Ordered!vars
      <3> QED BY <3>4, <3>5
    <2> QED BY <1>5, <2>1, <2>2, <2>3 DEF priority_queue_percolate_up
  <1>6. CASE priority_queue_percolate_down
    <2>1. pc = "down" /\ size' = size /\ index \in Nat /\ index >= 1 /\ memoize
      BY <1>6 DEF HeapInv, TypeOK, Memoized, priority_queue_percolate_down
    <2>2. ASSUME NEW c \in 1 .. size, IsSmallestChild(c, index), Swap(index, c),
                 highest_priority' = highest_priority
          PROVE  UNCHANGED Ordered!vars
      <3>1. index \in 1 .. size /\ c # index
        BY <2>1, <2>2 DEF IsSmallestChild
      <3>2. Contents' = Contents
        BY <2>1, <2>2, <3>1, SwapView
      <3> QED BY <2>2, <3>2 DEF Ordered!vars
    <2>3. CASE items' = items /\ pc' = "free"
      <3>1. Contents' = Contents
        BY <2>1, <2>3 DEF Contents
      <3>2. CASE size = 0
        <4>1. Contents = {} /\ highest_priority' = MaxPriority
          BY <2>1, <2>3, <3>2 DEF Contents, HeapInv, Memoized
        <4> QED BY <3>1, <4>1 DEF Ordered!Next, Ordered!Publish, Ordered!IsHighest
      <3>3. CASE size # 0
        <4>1. /\ highest_priority' = PriorityOf[items'[1]]
              /\ \A k \in 1 .. size : PriorityOf[items'[1]] <= PriorityOf[items'[k]]
          BY <2>1, <2>3, <3>3 DEF HeapInv, RootIsEarliest, Memoized, Priority
        <4> QED BY <2>1, <3>1, <3>3, <4>1, <1>4 DEF Ordered!Next
      <3> QED BY <3>2, <3>3
    <2> QED BY <1>6, <2>2, <2>3 DEF priority_queue_percolate_down
  <1>7. CASE \E e \in Element : priority_queue_append(e)
    BY <1>1, <1>7 DEF Ordered!Next
  <1>8. CASE \E e \in Element : priority_queue_delete(e)
    <2>1. pc = "free" /\ size > 0 /\ RemoveAt(1)
      BY <1>8 DEF priority_queue_delete
    <2> QED BY <1>2, <1>3, <2>1 DEF Ordered!Next
  <1>9. CASE \E target \in Deadline : priority_queue_dequeue_if_earlier(target)
    BY <1>2, <1>3, <1>9 DEF priority_queue_dequeue_if_earlier, Ordered!Next
  <1>10. CASE UNCHANGED vars
    BY <1>10 DEF vars, Ordered!vars, Contents
  <1> QED BY <1>5, <1>6, <1>7, <1>8, <1>9, <1>10 DEF Next

\* priority_queue.h implements the ordered queue: an element is taken only if none in
\* the queue is more urgent, and nothing is lost, duplicated or published wrongly.
THEOREM Refinement ==
    ASSUME ~AnyDelete
    PROVE  Spec => ImplementsOrderedQueue
  <1>1. Init => Ordered!Init
    BY DEF Init, Ordered!Init, Contents
  <1>2. HeapInv /\ HeapInv' /\ [Next]_vars => [Ordered!Next]_(Ordered!vars)
    BY StepRefines
  <1> QED BY <1>1, <1>2, HeapInvariance, PTL DEF Spec, ImplementsOrderedQueue, Ordered!Spec

=============================================================================
