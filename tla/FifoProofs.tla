------------------------------ MODULE FifoProofs ------------------------------
(***************************************************************************)
(* Proofs about the FIFO policy, for any number of workers and requests    *)
(* and any capacity: the deque without a lock is a queue.                  *)
(*                                                                         *)
(* IInv is inductive.  It holds because top and bottom only grow, because  *)
(* only the listener moves bottom and writes wrk[], and because it writes  *)
(* only at bottom: an entry that a worker has read is what the worker      *)
(* steals if the compare-and-swap then finds top unchanged.  The last part *)
(* is about the place of each request, which moves from one to the next.   *)
(***************************************************************************)
EXTENDS Fifo, SequenceTheorems, FiniteSetTheorems, TLAPS

\* Appending an element of a set to a sequence over the set gives such a sequence.
LEMMA AppendType ==
  ASSUME NEW S, NEW q \in Seq(S), NEW s \in S PROVE Append(q, s) \in Seq(S)
  OBVIOUS

\* Append as a function.
LEMMA AppendIs ==
  ASSUME NEW S, NEW q \in Seq(S), NEW s \in S
  PROVE  Append(q, s) = [i \in 1 .. Len(q) + 1 |-> IF i = Len(q) + 1 THEN s ELSE q[i]]
  <1> DEFINE a == Append(q, s)
             f == [i \in 1 .. Len(q) + 1 |-> IF i = Len(q) + 1 THEN s ELSE q[i]]
  <1>1. a \in Seq(S) /\ Len(a) = Len(q) + 1 /\ Len(q) \in Nat
    BY AppendProperties
  <1>2. f \in Seq(S) /\ Len(f) = Len(q) + 1
    BY <1>1
  <1>3. \A i \in 1 .. Len(q) + 1 : a[i] = f[i]
    BY <1>1, AppendProperties
  <1> HIDE DEF a, f
  <1>4. a = f
    BY <1>1, <1>2, <1>3, SeqEqual, ZenonT(60)
  <1> QED BY <1>4 DEF a, f

\* Tail as a function.
LEMMA TailIs ==
  ASSUME NEW S, NEW q \in Seq(S), Len(q) > 0
  PROVE  Tail(q) = [i \in 1 .. Len(q) - 1 |-> q[i + 1]]
  <1> DEFINE t == Tail(q)
             f == [i \in 1 .. Len(q) - 1 |-> q[i + 1]]
  <1>1. q # <<>>
    OBVIOUS
  <1>2. t \in Seq(S) /\ Len(t) = Len(q) - 1
    BY <1>1, HeadTailProperties
  <1>3. f \in Seq(S) /\ Len(f) = Len(q) - 1
    OBVIOUS
  <1>4. \A i \in 1 .. Len(q) - 1 : t[i] = f[i]
    BY <1>1, <1>2, HeadTailProperties, ZenonT(60)
  <1> HIDE DEF t, f
  <1>5. t = f
    BY <1>2, <1>3, <1>4, SeqEqual, ZenonT(60)
  <1> QED BY <1>5 DEF t, f

\* A sequence of one element of a set is a sequence over the set.
LEMMA OneInSeq == ASSUME NEW S, NEW s \in S PROVE <<s>> \in Seq(S)
  OBVIOUS

\* The invariant holds when the deque is empty and no thread has begun.
LEMMA InitIInv == Init => IInv
  <1> USE SMTT(30), ZenonT(30)
  <1> QED BY FifoAssumption DEF Init, IInv, TypeOK, HoldsOne, PushInv, StealInv

\* Each step of the listener in deque_push preserves the invariant.
LEMMA ListenerIInv == IInv /\ Listener => IInv'
  <1> SUFFICES ASSUME IInv, Listener PROVE IInv'
    BY ZenonT(60)
  <1> USE FifoAssumption, SMTT(30), ZenonT(30)
  <1>1. CASE \E s \in Sandbox : sandbox_alloc(s)
    BY <1>1 DEF sandbox_alloc, IInv, TypeOK, HoldsOne, PushInv, StealInv, deque, stealing, local
  <1>2. CASE deque_push_top
    BY <1>2 DEF deque_push_top, IInv, TypeOK, HoldsOne, PushInv, StealInv, deque, stealing, local
  <1>3. CASE deque_push_bottom
    BY <1>3 DEF deque_push_bottom, deque_full, IInv, TypeOK, HoldsOne, PushInv, StealInv, deque, stealing, local
  <1>4. CASE deque_push_store
    <2>1. \A i \in 0 .. bottom - 1 : wrk'[i] = wrk[i]
      BY <1>4 DEF deque_push_store, IInv, TypeOK, PushInv
    <2>2. wrk' \in [0 .. DEQUE_MAX_SZ - 1 -> Sandbox \cup {NULL}] /\ wrk'[lcb] = lhand
      BY <1>4 DEF deque_push_store, IInv, TypeOK, PushInv
    <2> QED BY <1>4, <2>1, <2>2 DEF deque_push_store, IInv, TypeOK, HoldsOne, PushInv, StealInv, stealing, local
  <1>5. CASE deque_push_cas
    BY <1>5 DEF deque_push_cas, IInv, TypeOK, HoldsOne, PushInv, StealInv, stealing, local
  <1> QED BY <1>1, <1>2, <1>3, <1>4, <1>5, ZenonT(60) DEF Listener

\* Each step of a worker preserves the invariant.
LEMMA WorkerIInv == ASSUME IInv, NEW w \in Worker, WorkerStep(w) \/ scheduler_preemptive_sched(w) PROVE IInv'
  <1> USE FifoAssumption, SMTT(30), ZenonT(30)
  <1>1. CASE scheduler_fifo_get_next(w)
    BY <1>1, ZenonT(60) DEF scheduler_fifo_get_next, IInv, TypeOK, HoldsOne, PushInv, StealInv, deque, listener, stealing, local
  <1>2. CASE deque_steal_top(w)
    BY <1>2 DEF deque_steal_top, IInv, TypeOK, HoldsOne, PushInv, StealInv, deque, listener, local
  <1>3. CASE deque_steal_bottom(w)
    BY <1>3 DEF deque_steal_bottom, deque_empty, IInv, TypeOK, HoldsOne, PushInv, StealInv, deque, listener, stealing, local
  <1>4. CASE deque_steal_copy(w)
    BY <1>4 DEF deque_steal_copy, deque_entry, IInv, TypeOK, HoldsOne, PushInv, StealInv, deque, listener, local
  <1>5. CASE deque_steal_cas(w)
    <2>0. pc[w] = "cas" /\ UNCHANGED <<bottom, wrk, listener, stealing, local, state>>
      BY <1>5 DEF deque_steal_cas
    <2>1. CASE deque_steal_wins(w)
      <3>1. /\ top' = top + 1
            /\ pc' = [pc EXCEPT ![w] = "prepare"]
            /\ got' = [got EXCEPT ![w] = Append(@, stolen[w])]
        BY <1>5, <2>1, ZenonT(60) DEF deque_steal_cas, deque_steal_wins
      <3>2. stolen[w] = wrk[ct[w]] /\ ct[w] < bottom /\ ct[w] = top
        BY <2>0, <2>1, ZenonT(60) DEF deque_steal_wins, IInv, StealInv
      <3>3. stolen[w] \in Sandbox
        BY <3>2 DEF IInv, TypeOK, PushInv
      <3>4. got' \in [Worker -> Seq(Sandbox)]
        BY <3>1, <3>3, AppendType, ZenonT(60) DEF IInv, TypeOK
      <3>5. TypeOK'
        BY <2>0, <3>1, <3>2, <3>4 DEF IInv, TypeOK, listener, stealing, local
      <3>6. HoldsOne'
        BY <2>0, <3>1, ZenonT(60) DEF IInv, TypeOK, HoldsOne, PushInv, StealInv, local
      <3>7. StealInv'
        BY <2>0, <3>1, <3>3 DEF IInv, TypeOK, StealInv, stealing
      <3>8. PushInv'
        BY <2>0, <3>1 DEF IInv, TypeOK, PushInv, listener
      <3> QED BY <3>5, <3>6, <3>7, <3>8, ZenonT(60) DEF IInv
    <2>2. CASE ~deque_steal_wins(w)
      <3>1. pc' = [pc EXCEPT ![w] = "switch"] /\ UNCHANGED <<top, got>>
        BY <1>5, <2>2, ZenonT(60) DEF deque_steal_cas
      <3>2. HoldsOne'
        BY <2>0, <3>1, ZenonT(60) DEF IInv, TypeOK, HoldsOne, PushInv, StealInv, local
      <3> QED BY <2>0, <3>1, <3>2, ZenonT(60) DEF IInv, TypeOK, PushInv, StealInv, listener, stealing, local
    <2> QED BY <2>1, <2>2, ZenonT(60)
  <1>6. CASE sandbox_set_as_runnable(w)
    <2>0. /\ pc[w] = "prepare" /\ pc' = [pc EXCEPT ![w] = "switch"]
          /\ UNCHANGED <<deque, listener, stealing, current, exiting, cleanup, got>>
          /\ state' = [state EXCEPT ![stolen[w]] = "RUNNABLE"]
          /\ runq' = [runq EXCEPT ![w] = Append(@, stolen[w])]
      BY <1>6, ZenonT(60) DEF sandbox_set_as_runnable, local_runqueue_list_append
    <2>1. stolen[w] \in Sandbox /\ runq[w] = <<>>
      BY <2>0, ZenonT(60) DEF IInv, HoldsOne, StealInv
    <2>2. runq' = [runq EXCEPT ![w] = <<stolen[w]>>]
      BY <2>0, <2>1
    <2>3. TypeOK'
      BY <2>0, <2>1, <2>2, OneInSeq DEF IInv, TypeOK, deque, listener, stealing
    <2>4. HoldsOne'
      <3>1. \A v \in Worker : /\ current'[v] = current[v]
                             /\ v # w => pc'[v] = pc[v] /\ runq'[v] = runq[v]
        BY <2>0, <2>2 DEF IInv, TypeOK
      <3>2. pc'[w] = "switch" /\ runq'[w] = <<stolen[w]>>
        BY ZenonT(60), <2>0, <2>2 DEF IInv, TypeOK
      <3> QED BY ZenonT(60), <2>0, <2>1, <3>1, <3>2 DEF IInv, HoldsOne
    <2> QED BY <2>0, <2>1, <2>3, <2>4 DEF IInv, TypeOK, PushInv, StealInv, deque, listener, stealing
  <1>7. CASE scheduler_cooperative_switch_to(w)
    <2> DEFINE next == local_runqueue_list_get_next(runq[w])
    <2>0. /\ pc[w] = "switch"
          /\ UNCHANGED <<deque, listener, stealing, runq, got>>
          /\ cleanup' = [cleanup EXCEPT ![w] = @ \cup ({exiting[w]} \ {NULL})]
          /\ exiting' = [exiting EXCEPT ![w] = NULL]
      BY <1>7 DEF scheduler_cooperative_switch_to
    <2>1. cleanup' \in [Worker -> SUBSET Sandbox] /\ exiting' \in [Worker -> Sandbox \cup {NULL}]
      <3>1. cleanup \in [Worker -> SUBSET Sandbox] /\ exiting \in [Worker -> Sandbox \cup {NULL}]
        BY DEF IInv, TypeOK
      <3>2. cleanup[w] \cup ({exiting[w]} \ {NULL}) \in SUBSET Sandbox
        BY <3>1
      <3> QED BY <2>0, <3>1, <3>2
    <2>2. CASE next = NULL
      <3>1. pc' = [pc EXCEPT ![w] = "base"] /\ UNCHANGED <<current, state>>
        BY <1>7, <2>2 DEF scheduler_cooperative_switch_to
      <3>2. runq[w] = <<>>
        <4>1. CASE \E s \in Sandbox : runq[w] = <<s>>
          BY <2>2, <4>1 DEF local_runqueue_list_get_next
        <4> QED BY <2>0, <4>1 DEF IInv, HoldsOne
      <3>3. HoldsOne'
        BY <2>0, <3>1, <3>2, ZenonT(60) DEF IInv, TypeOK, HoldsOne, PushInv, StealInv
      <3> QED BY <2>0, <2>1, <3>1, <3>3 DEF IInv, TypeOK, PushInv, StealInv, deque, listener, stealing
    <2>3. CASE next # NULL
      <3>1. PICK s \in Sandbox : runq[w] = <<s>>
        BY <2>0, <2>3, ZenonT(60) DEF IInv, HoldsOne, local_runqueue_list_get_next
      <3>2. next = s
        BY <3>1 DEF local_runqueue_list_get_next
      <3>3. /\ pc' = [pc EXCEPT ![w] = "module"]
            /\ current' = [current EXCEPT ![w] = s]
            /\ state' = [state EXCEPT ![s] = "RUNNING"]
        BY <1>7, <2>3, <3>2, ZenonT(60) DEF scheduler_cooperative_switch_to
      <3>4. HoldsOne'
        BY <2>0, <3>1, <3>3, ZenonT(60) DEF IInv, TypeOK, HoldsOne, PushInv, StealInv
      <3> QED BY <2>0, <2>1, <3>3, <3>4, ZenonT(60) DEF IInv, TypeOK, PushInv, StealInv, deque, listener, stealing
    <2> QED BY <2>2, <2>3
  <1>8. CASE scheduler_idle_loop(w)
    <2>0. /\ pc[w] = "base" /\ pc' = [pc EXCEPT ![w] = "get_next"]
          /\ UNCHANGED <<deque, listener, stealing, runq, current, exiting, got>>
          /\ state' = Free(cleanup[w]) /\ cleanup' = [cleanup EXCEPT ![w] = {}]
      BY <1>8, Zenon DEF scheduler_idle_loop
    <2>1. TypeOK'
      <3>1. state' \in [Sandbox -> {"none", "INITIALIZED", "RUNNABLE", "RUNNING", "COMPLETE", "freed"}]
        BY <2>0, ZenonT(60) DEF Free, IInv, TypeOK
      <3>2. cleanup' \in [Worker -> SUBSET Sandbox]
        BY <2>0, ZenonT(60) DEF IInv, TypeOK
      <3> QED BY <2>0, <3>1, <3>2, ZenonT(60) DEF IInv, TypeOK, deque, listener, stealing
    <2>2. HoldsOne'
      BY <2>0, ZenonT(60) DEF IInv, TypeOK, HoldsOne
    <2> QED BY <2>0, <2>1, <2>2, ZenonT(60) DEF IInv, TypeOK, PushInv, StealInv, deque, listener, stealing
  <1>9. CASE current_sandbox_fini(w)
    <2>0. /\ pc[w] = "module" /\ pc' = [pc EXCEPT ![w] = "get_next"]
          /\ UNCHANGED <<deque, listener, stealing, got>>
          /\ runq' = [runq EXCEPT ![w] = local_runqueue_list_remove(@, current[w])]
          /\ state' = [Free(cleanup[w]) EXCEPT ![current[w]] = "COMPLETE"]
          /\ exiting' = [exiting EXCEPT ![w] = current[w]]
          /\ current' = [current EXCEPT ![w] = NULL]
          /\ cleanup' = [cleanup EXCEPT ![w] = {}]
      BY <1>9, Zenon DEF current_sandbox_fini
    <2>1. current[w] \in Sandbox /\ runq[w] = <<current[w]>>
      BY <2>0, ZenonT(60) DEF IInv, HoldsOne
    <2>2. runq' = [runq EXCEPT ![w] = <<>>]
      BY <2>0, <2>1 DEF local_runqueue_list_remove
    <2>3. TypeOK'
      <3>1. state' \in [Sandbox -> {"none", "INITIALIZED", "RUNNABLE", "RUNNING", "COMPLETE", "freed"}]
        BY <2>0, <2>1, ZenonT(60) DEF Free, IInv, TypeOK
      <3>2. cleanup' \in [Worker -> SUBSET Sandbox] /\ exiting' \in [Worker -> Sandbox \cup {NULL}]
        BY <2>0, <2>1, ZenonT(60) DEF IInv, TypeOK
      <3>3. runq' \in [Worker -> Seq(Sandbox)] /\ current' \in [Worker -> Sandbox \cup {NULL}]
        BY <2>0, <2>2 DEF IInv, TypeOK
      <3> QED BY <2>0, <3>1, <3>2, <3>3, ZenonT(60) DEF IInv, TypeOK, deque, listener, stealing
    <2>4. HoldsOne'
      BY <2>0, <2>2, ZenonT(60) DEF IInv, TypeOK, HoldsOne
    <2> QED BY <2>0, <2>3, <2>4 DEF IInv, TypeOK, PushInv, StealInv, deque, listener, stealing
  <1>10. CASE scheduler_preemptive_sched(w)
    <2>0. /\ pc[w] = "module"
          /\ UNCHANGED <<deque, listener, pc, stealing, exiting, cleanup, state, got>>
          /\ runq' = [runq EXCEPT ![w] = local_runqueue_list_rotate(@)]
          /\ current' = [current EXCEPT ![w] = local_runqueue_list_get_next(local_runqueue_list_rotate(runq[w]))]
      BY <1>10, ZenonT(60) DEF scheduler_preemptive_sched
    <2>1. current[w] \in Sandbox /\ runq[w] = <<current[w]>>
      BY <2>0, ZenonT(60) DEF IInv, HoldsOne
    <2>2. /\ local_runqueue_list_rotate(runq[w]) = runq[w]
          /\ local_runqueue_list_get_next(runq[w]) = current[w]
      BY <2>1 DEF local_runqueue_list_rotate, local_runqueue_list_get_next
    <2>3. UNCHANGED <<runq, current>>
      BY <2>0, <2>2, ZenonT(60) DEF IInv, TypeOK
    <2> QED BY <2>0, <2>3, ZenonT(60) DEF IInv, TypeOK, HoldsOne, PushInv, StealInv, deque, listener, stealing
  <1> QED BY <1>1, <1>2, <1>3, <1>4, <1>5, <1>6, <1>7, <1>8, <1>9, <1>10 DEF WorkerStep
-----------------------------------------------------------------------------
\* For any workers, requests and capacity: IInv is an invariant.  The deque never holds more
\* than its capacity (deque_full tests an old top, which is only ever too low), and a worker
\* that runs a sandbox has no other on its list, so that there is nothing to rotate.
THEOREM FifoInvariant == Spec => []IInv
  <1>1. IInv /\ [Next]_vars => IInv'
    <2> SUFFICES ASSUME IInv, [Next]_vars PROVE IInv'
      OBVIOUS
    <2>1. CASE Listener
      BY <2>1, ListenerIInv, ZenonT(60)
    <2>2. CASE \E w \in Worker : WorkerStep(w) \/ scheduler_preemptive_sched(w)
      BY <2>2, WorkerIInv, ZenonT(60)
    <2>3. CASE UNCHANGED vars
      BY <2>3 DEF vars, deque, listener, stealing, local, IInv, TypeOK, HoldsOne, PushInv, StealInv
    <2> QED BY <2>1, <2>2, <2>3, ZenonT(60) DEF Next, Aborted
  <1> QED BY InitIInv, <1>1, PTL DEF Spec

\* Under FIFO a worker's list holds the sandbox it runs and no other.
THEOREM FifoHoldsOne == Spec => []HoldsOne
  <1>1. IInv => HoldsOne
    BY DEF IInv
  <1> QED BY FifoInvariant, <1>1, PTL

-----------------------------------------------------------------------------
\* A step that leaves the deque and the history alone leaves the abstract queue alone.
LEMMA Stutters == UNCHANGED <<top, bottom, wrk, got>> => UNCHANGED <<contents, got>>
  BY DEF contents

\* deque_push_store writes behind the last entry.
LEMMA StoreIsBehind == IInv /\ deque_push_store => UNCHANGED <<contents, got>>
  <1> SUFFICES ASSUME IInv, deque_push_store PROVE UNCHANGED <<contents, got>>
    BY ZenonT(60)
  <1> USE FifoAssumption, SMTT(30), ZenonT(30)
  <1>1. UNCHANGED <<top, bottom, got>> /\ wrk' = [wrk EXCEPT ![lcb] = lhand] /\ lcb = bottom
    BY ZenonT(60) DEF deque_push_store, IInv, PushInv
  <1>2. \A i \in 1 .. bottom - top : wrk'[top + i - 1] = wrk[top + i - 1]
    BY <1>1 DEF IInv, TypeOK
  <1> QED BY <1>1, <1>2 DEF contents

\* The compare-and-swap of deque_push adds the sandbox at the end of the queue.
LEMMA PushAdds == IInv /\ deque_push_cas => \E s \in Sandbox : Queue!Add(s)
  <1> SUFFICES ASSUME IInv, deque_push_cas PROVE Queue!Add(lhand) /\ lhand \in Sandbox
    BY ZenonT(60)
  <1> USE FifoAssumption, SMTT(30), ZenonT(30)
  <1>1. /\ bottom' = bottom + 1 /\ UNCHANGED <<top, wrk, got>>
        /\ wrk[bottom] = lhand /\ lhand \in Sandbox
    BY ZenonT(60) DEF deque_push_cas, IInv, PushInv
  <1>2. top \in Int /\ bottom \in Int /\ top >= 0 /\ top <= bottom
    BY DEF IInv, TypeOK
  <1>3. contents' = Append(contents, lhand)
    <2> DEFINE n == bottom - top
    <2>1. n \in Nat /\ bottom' - top' = n + 1
      BY <1>1, <1>2
    <2>2. contents \in Seq(Sandbox) /\ Len(contents) = n
      <3>1. \A i \in 1 .. n : wrk[top + i - 1] \in Sandbox
        BY <1>2 DEF IInv, PushInv
      <3> QED BY <2>1, <3>1 DEF contents
    <2>3. Append(contents, lhand) = [i \in 1 .. n + 1 |-> IF i = n + 1 THEN lhand ELSE contents[i]]
      BY <2>2, <1>1, AppendIs
    <2>4. \A i \in 1 .. n + 1 : wrk[top + i - 1] = IF i = n + 1 THEN lhand ELSE contents[i]
      BY <1>1, <1>2, <2>1 DEF contents
    <2>5. contents' = [i \in 1 .. n + 1 |-> wrk[top + i - 1]]
      BY <1>1, <2>1 DEF contents
    <2> QED BY <2>3, <2>4, <2>5, ZenonT(60)
  <1> QED BY <1>1, <1>3 DEF Queue!Add

\* A compare-and-swap of deque_steal that succeeds takes the front of the queue.
LEMMA StealRemoves ==
  ASSUME IInv, NEW w \in Worker, deque_steal_cas(w), deque_steal_wins(w) PROVE Queue!Remove(w)
  <1> USE FifoAssumption, SMTT(30), ZenonT(30)
  <1>1. /\ top' = top + 1 /\ UNCHANGED <<bottom, wrk>> /\ pc[w] = "cas" /\ ct[w] = top
        /\ got' = [got EXCEPT ![w] = Append(@, stolen[w])]
    BY ZenonT(60) DEF deque_steal_cas, deque_steal_wins
  <1>2. top \in Int /\ bottom \in Int /\ top >= 0 /\ top < bottom /\ stolen[w] = wrk[top]
    BY <1>1 DEF IInv, TypeOK, StealInv
  <1> DEFINE n == bottom - top
  <1>3. n \in Nat /\ n > 0
    BY <1>2
  <1>4. contents \in Seq(Sandbox) /\ Len(contents) = n
    <2>1. \A i \in 1 .. n : wrk[top + i - 1] \in Sandbox
      BY <1>2 DEF IInv, PushInv
    <2> QED BY <1>3, <2>1 DEF contents
  <1>5. contents # <<>> /\ Head(contents) = stolen[w]
    BY <1>2, <1>3, <1>4 DEF contents
  <1>6. Tail(contents) = [i \in 1 .. n - 1 |-> contents[i + 1]]
    BY <1>3, <1>4, TailIs, ZenonT(60)
  <1>7. \A i \in 1 .. n - 1 : wrk[top + 1 + i - 1] = contents[i + 1]
    BY <1>2, <1>3 DEF contents
  <1>8. contents' = [i \in 1 .. n - 1 |-> wrk[top + 1 + i - 1]]
    BY <1>1, <1>2 DEF contents
  <1>9. contents' = Tail(contents)
    BY <1>6, <1>7, <1>8, ZenonT(60)
  <1> QED BY ZenonT(60), <1>1, <1>5, <1>9 DEF Queue!Remove

\* For any workers, requests and capacity: the lock-free deque implements the queue.  The two
\* successful compare-and-swaps are its steps; every other step leaves it as it is.
THEOREM DequeIsQueue == Spec => IsQueue
  <1>1. Init => Queue!Init
    BY DEF Init, Queue!Init, contents
  <1>2. IInv /\ [Next]_vars => [Queue!Next]_<<contents, got>>
    <2> SUFFICES ASSUME IInv, [Next]_vars PROVE Queue!Next \/ UNCHANGED <<contents, got>>
      OBVIOUS
    <2>1. CASE Listener
      <3>1. CASE (\E s \in Sandbox : sandbox_alloc(s)) \/ deque_push_top \/ deque_push_bottom
        BY <3>1, Stutters, ZenonT(60) DEF sandbox_alloc, deque_push_top, deque_push_bottom, deque
      <3> QED BY <2>1, <3>1, StoreIsBehind, PushAdds, ZenonT(60) DEF Listener, Queue!Next
    <2>2. ASSUME NEW w \in Worker, WorkerStep(w) \/ scheduler_preemptive_sched(w)
          PROVE  Queue!Next \/ UNCHANGED <<contents, got>>
      <3>1. CASE deque_steal_cas(w)
        <4>1. CASE deque_steal_wins(w)
          BY <3>1, <4>1, StealRemoves, ZenonT(60) DEF Queue!Next
        <4>2. CASE ~deque_steal_wins(w)
          BY <3>1, <4>2, Stutters, ZenonT(60) DEF deque_steal_cas
        <4> QED BY <4>1, <4>2, ZenonT(60)
      <3>2. CASE ~deque_steal_cas(w)
        BY <2>2, <3>2, Stutters, ZenonT(60) DEF WorkerStep, scheduler_fifo_get_next, deque_steal_top, deque_steal_bottom,
             deque_steal_copy, sandbox_set_as_runnable, scheduler_cooperative_switch_to, scheduler_idle_loop,
             current_sandbox_fini, scheduler_preemptive_sched, deque
      <3> QED BY <3>1, <3>2, ZenonT(60)
    <2>3. CASE UNCHANGED vars
      BY <2>3, Stutters, ZenonT(60) DEF vars, deque
    <2> QED BY <2>1, <2>2, <2>3, ZenonT(60) DEF Next, Aborted
  <1> QED BY FifoInvariant, <1>1, <1>2, PTL DEF Spec, IsQueue, Queue!Spec

-----------------------------------------------------------------------------
(***************************************************************************)
(* A sandbox is in one place.  Here(k, x, s) says that s is at place x of  *)
(* kind k, so that Places(s) is the set of the <<k, x>> with Here(k, x, s).*)
(***************************************************************************)
InList(q, s) == \E j \in DOMAIN q : q[j] = s

Here(k, x, s) ==
    \/ k = "listener" /\ x = 0 /\ lhand = s
    \/ k = "deque" /\ x \in top .. bottom - 1 /\ wrk[x] = s
    \/ k = "hand" /\ x \in Worker /\ pc[x] = "prepare" /\ stolen[x] = s
    \/ k = "runq" /\ x \in Worker /\ InList(runq[x], s)
    \/ k = "exiting" /\ x \in Worker /\ exiting[x] = s
    \/ k = "cleanup" /\ x \in Worker /\ s \in cleanup[x]

Live(s) == state[s] \notin {"none", "freed"}

\* No sandbox is in two places, and exactly those that were allocated and not freed are in one.
Placed ==
    /\ \A s \in Sandbox : \A k, x, l, y : Here(k, x, s) /\ Here(l, y, s) => k = l /\ x = y
    /\ \A s \in Sandbox : Live(s) <=> \E k, x : Here(k, x, s)

\* A thread that is about to put a sandbox somewhere has not one there already.
Vacant ==
    /\ lpc = "wait" => lhand = NULL
    /\ \A w \in Worker : pc[w] \in {"module", "base"} => exiting[w] = NULL

\* What is in a list of no or one element.
LEMMA ShortLists ==
    ASSUME NEW s
    PROVE  ~InList(<<>>, s) /\ \A a : InList(<<a>>, s) <=> a = s
  BY DEF InList

\* Placed says that every sandbox has as many places as OnePlace wants.
LEMMA PlacedIsOnePlace == Placed => OnePlace
  <1> SUFFICES ASSUME Placed, NEW s \in Sandbox
               PROVE  Cardinality(Places(s)) = IF state[s] \in {"none", "freed"} THEN 0 ELSE 1
    BY Zenon DEF OnePlace
  <1>1. \A p \in Places(s) : \E k, x : p = <<k, x>> /\ Here(k, x, s)
    BY Zenon DEF Places, Here, InList
  <1>2. \A k, x : Here(k, x, s) => <<k, x>> \in Places(s)
    BY Zenon DEF Places, Here, InList
  <1>3. CASE ~Live(s)
    <2>1. Places(s) = {}
      BY <1>1, <1>3, Zenon DEF Placed
    <2> QED BY <1>3, <2>1, FS_EmptySet, Zenon DEF Live
  <1>4. CASE Live(s)
    <2>1. PICK k, x : Here(k, x, s)
      BY <1>4, Zenon DEF Placed
    <2>2. \A p \in Places(s) : p = <<k, x>>
      BY <1>1, <2>1, Zenon DEF Placed
    <2>3. Places(s) = {<<k, x>>}
      BY <1>2, <2>1, <2>2, Zenon
    <2> QED BY <1>4, <2>3, FS_Singleton, Zenon DEF Live
  <1> QED BY <1>3, <1>4, Zenon

\* What a step can do to a sandbox: leave it where it is, take it away, or put it in place x of kind k.
Stays(s)       == (Live(s)' <=> Live(s)) /\ \A k, x : Here(k, x, s)' <=> Here(k, x, s)
Leaves(s)      == ~Live(s)' /\ \A k, x : ~Here(k, x, s)'
MovesTo(s, k, x) == Live(s)' /\ \A l, y : Here(l, y, s)' <=> (l = k /\ y = x)

\* A step that does one of these to every sandbox keeps each in its place.
LEMMA StepKeepsPlaced ==
    ASSUME Placed, \A s \in Sandbox : Stays(s) \/ Leaves(s) \/ \E k, x : MovesTo(s, k, x)
    PROVE  Placed'
  <1> DEFINE Fine(s) == /\ \A k, x, l, y : Here(k, x, s)' /\ Here(l, y, s)' => k = l /\ x = y
                        /\ Live(s)' <=> \E k, x : Here(k, x, s)'
  <1>1. ASSUME NEW s \in Sandbox
        PROVE  Fine(s)
    <2>1. CASE Stays(s)
      BY <2>1, Zenon DEF Stays, Placed
    <2>2. CASE Leaves(s)
      BY <2>2, Zenon DEF Leaves
    <2>3. ASSUME NEW k, NEW x, MovesTo(s, k, x)
          PROVE  Fine(s)
      BY <2>3 DEF MovesTo
    <2> QED BY <2>1, <2>2, <2>3, ZenonT(60)
  <1> QED BY <1>1, Zenon DEF Placed

\* A step that leaves a sandbox alone in all of the queues and hands.
LEMMA SandboxStays ==
    ASSUME NEW s \in Sandbox, lhand' = s <=> lhand = s,
           \A j : (j \in top' .. bottom' - 1 /\ wrk'[j] = s) <=> (j \in top .. bottom - 1 /\ wrk[j] = s),
           \A w \in Worker : /\ (pc'[w] = "prepare" /\ stolen'[w] = s) <=> (pc[w] = "prepare" /\ stolen[w] = s)
                             /\ InList(runq'[w], s) <=> InList(runq[w], s)
                             /\ exiting'[w] = s <=> exiting[w] = s
                             /\ s \in cleanup'[w] <=> s \in cleanup[w],
           Live(s)' <=> Live(s)
    PROVE  Stays(s)
  <1> SUFFICES ASSUME NEW k, NEW x
               PROVE  Here(k, x, s)' <=> Here(k, x, s)
    BY Zenon DEF Stays
  <1>1. CASE k = "listener"
    BY <1>1 DEF Here
  <1>2. CASE k = "deque"
    BY <1>2, ZenonT(60) DEF Here
  <1>3. CASE k = "hand"
    BY <1>3, ZenonT(60) DEF Here
  <1>4. CASE k = "runq"
    BY <1>4, ZenonT(60) DEF Here, InList
  <1>5. CASE k = "exiting"
    BY <1>5, ZenonT(60) DEF Here
  <1>6. CASE k = "cleanup"
    BY <1>6 DEF Here
  <1> QED BY <1>1, <1>2, <1>3, <1>4, <1>5, <1>6, Zenon DEF Here

\* A step that leaves all of them alone.
LEMMA AllStay ==
    ASSUME Placed, UNCHANGED <<lhand, top, bottom, runq, exiting, cleanup, state>>,
           \A j \in top .. bottom - 1 : wrk'[j] = wrk[j],
           \A w \in Worker : /\ pc'[w] = "prepare" <=> pc[w] = "prepare"
                             /\ pc[w] = "prepare" => stolen'[w] = stolen[w]
    PROVE  Placed'
  <1>1. ASSUME NEW s \in Sandbox
        PROVE  Stays(s)
    <2>1. /\ lhand' = s <=> lhand = s
          /\ Live(s)' <=> Live(s)
          /\ \A j : (j \in top' .. bottom' - 1 /\ wrk'[j] = s) <=> (j \in top .. bottom - 1 /\ wrk[j] = s)
          /\ \A w \in Worker : /\ (pc'[w] = "prepare" /\ stolen'[w] = s) <=> (pc[w] = "prepare" /\ stolen[w] = s)
                               /\ InList(runq'[w], s) <=> InList(runq[w], s)
                               /\ exiting'[w] = s <=> exiting[w] = s
                               /\ s \in cleanup'[w] <=> s \in cleanup[w]
      BY Zenon DEF Live
    <2> QED BY <2>1, SandboxStays, Zenon
  <1> QED BY <1>1, StepKeepsPlaced, Zenon

\* A sandbox is put in the listener's hand and from there in the deque.
LEMMA ListenerPlaces ==
    ASSUME IInv, Placed, Vacant, Listener
    PROVE  Placed' /\ Vacant'
  <1>1. ASSUME NEW s \in Sandbox, sandbox_alloc(s)
        PROVE  Placed' /\ Vacant'
    <2>1. /\ lpc = "wait" /\ state[s] = "none" /\ lhand' = s /\ state' = [state EXCEPT ![s] = "INITIALIZED"]
          /\ lpc' = "top" /\ pc' = pc /\ exiting' = exiting
          /\ UNCHANGED <<top, bottom, wrk, runq, cleanup, stolen>>
      BY <1>1, Zenon DEF sandbox_alloc, deque, stealing, local
    <2>2. lhand = NULL /\ state \in [Sandbox -> {"none", "INITIALIZED", "RUNNABLE", "RUNNING", "COMPLETE", "freed"}]
      BY <2>1, Zenon DEF Vacant, IInv, TypeOK
    <2>3. MovesTo(s, "listener", 0)
      <3>1. Live(s)' /\ ~Live(s)
        BY <2>1, <2>2 DEF Live
      <3>2. \A k, x : ~Here(k, x, s)
        BY <3>1, Zenon DEF Placed
      <3>3. \A k, x : Here(k, x, s)' <=> (k = "listener" /\ x = 0)
        BY <2>1, <3>2, Zenon DEF Here
      <3> QED BY <3>1, <3>3, Zenon DEF MovesTo
    <2>4. ASSUME NEW r \in Sandbox, r # s
          PROVE  Stays(r)
      <3>1. lhand' # r /\ lhand # r
        BY <2>1, <2>2, <2>4, FifoAssumption, Zenon
      <3>2. Live(r)' <=> Live(r)
        BY <2>1, <2>2, <2>4, Zenon DEF Live
      <3>3. \A w \in Worker : /\ (pc'[w] = "prepare" /\ stolen'[w] = r) <=> (pc[w] = "prepare" /\ stolen[w] = r)
                              /\ InList(runq'[w], r) <=> InList(runq[w], r)
                              /\ exiting'[w] = r <=> exiting[w] = r
                              /\ r \in cleanup'[w] <=> r \in cleanup[w]
        BY <2>1, Zenon
      <3>4. \A j : (j \in top' .. bottom' - 1 /\ wrk'[j] = r) <=> (j \in top .. bottom - 1 /\ wrk[j] = r)
        BY <2>1, Zenon
      <3> QED BY <3>1, <3>2, <3>3, <3>4, SandboxStays, Zenon
    <2>5. Placed'
      BY <2>3, <2>4, StepKeepsPlaced, Zenon
    <2> QED BY <2>1, <2>5, ZenonT(60) DEF Vacant
  <1>2. CASE deque_push_top \/ deque_push_bottom
    <2>1. /\ lpc' # "wait" /\ pc' = pc /\ stolen' = stolen /\ wrk' = wrk
          /\ UNCHANGED <<lhand, top, bottom, runq, exiting, cleanup, state>>
      BY <1>2 DEF deque_push_top, deque_push_bottom, deque, stealing, local
    <2>2. Placed'
      BY <2>1, AllStay, Zenon
    <2> QED BY <2>1, <2>2, Zenon DEF Vacant
  <1>3. CASE deque_push_store
    <2>1. /\ lpc' # "wait" /\ pc' = pc /\ stolen' = stolen /\ wrk' = [wrk EXCEPT ![lcb] = lhand] /\ lcb = bottom
          /\ UNCHANGED <<lhand, top, bottom, runq, exiting, cleanup, state>>
      BY <1>3, ZenonT(60) DEF deque_push_store, deque, stealing, local, IInv, PushInv
    <2>2. \A j \in top .. bottom - 1 : wrk'[j] = wrk[j]
      BY <2>1 DEF IInv, TypeOK
    <2>3. Placed'
      BY <2>1, <2>2, AllStay, Zenon
    <2> QED BY <2>1, <2>3, Zenon DEF Vacant
  <1>4. CASE deque_push_cas
    <2>1. /\ lpc = "cas" /\ bottom = lcb /\ bottom' = bottom + 1 /\ lhand' = NULL /\ pc' = pc
          /\ wrk[bottom] = lhand /\ lhand \in Sandbox
          /\ UNCHANGED <<top, wrk, runq, exiting, cleanup, state, stolen>>
      BY <1>4, Zenon DEF deque_push_cas, stealing, local, IInv, PushInv
    <2>2. top \in Nat /\ bottom \in Nat /\ top <= bottom /\ lhand # NULL
      BY <2>1, FifoAssumption DEF IInv, TypeOK
    <2>3. \A j : j \in top .. bottom' - 1 <=> j \in top .. bottom - 1 \/ j = bottom
      BY <2>1, <2>2
    <2>4. bottom \notin top .. bottom - 1
      BY <2>2
    <2>5. ASSUME NEW s \in Sandbox, s = lhand
          PROVE  MovesTo(s, "deque", bottom)
      <3>1. Here("listener", 0, s)
        BY <2>5, Zenon DEF Here
      <3>2. \A k, x : Here(k, x, s) => k = "listener" /\ x = 0
        BY <3>1, Zenon DEF Placed
      <3>3. Live(s)
        BY <3>1, Zenon DEF Placed
      <3>4. \A k, x : Here(k, x, s)' <=> (k = "deque" /\ x = bottom)
        BY <2>1, <2>2, <2>3, <2>5, <3>2, Zenon DEF Here
      <3> QED BY <2>1, <3>3, <3>4, Zenon DEF MovesTo, Live
    <2>6. ASSUME NEW r \in Sandbox, r # lhand
          PROVE  Stays(r)
      <3>1. \A j : (j \in top' .. bottom' - 1 /\ wrk'[j] = r) <=> (j \in top .. bottom - 1 /\ wrk[j] = r)
        BY <2>1, <2>3, <2>6, Zenon
      <3>2. lhand' # r
        BY <2>1, FifoAssumption, Zenon
      <3>3. /\ Live(r)' <=> Live(r)
            /\ \A w \in Worker : /\ (pc'[w] = "prepare" /\ stolen'[w] = r) <=> (pc[w] = "prepare" /\ stolen[w] = r)
                                 /\ InList(runq'[w], r) <=> InList(runq[w], r)
                                 /\ exiting'[w] = r <=> exiting[w] = r
                                 /\ r \in cleanup'[w] <=> r \in cleanup[w]
        BY <2>1, Zenon DEF Live
      <3> QED BY <2>6, <3>1, <3>2, <3>3, SandboxStays, Zenon
    <2>7. Placed'
      BY <2>5, <2>6, StepKeepsPlaced, Zenon
    <2> QED BY <2>1, <2>7, Zenon DEF Vacant
  <1> QED BY <1>1, <1>2, <1>3, <1>4, Zenon DEF Listener

\* The steps of a worker that move no sandbox.
LEMMA QuietPlaces ==
    ASSUME IInv, Placed, Vacant, NEW w \in Worker,
           \/ scheduler_fifo_get_next(w) \/ deque_steal_top(w) \/ deque_steal_bottom(w) \/ deque_steal_copy(w)
           \/ deque_steal_cas(w) /\ ~deque_steal_wins(w)
           \/ scheduler_preemptive_sched(w)
    PROVE  Placed' /\ Vacant'
  <1> USE DEF deque, listener, stealing, local
  <1>1. CASE scheduler_preemptive_sched(w)
    <2>1. runq[w] = <<current[w]>>
      BY <1>1, Zenon DEF scheduler_preemptive_sched, IInv, HoldsOne
    <2>2. local_runqueue_list_rotate(runq[w]) = runq[w]
      BY <2>1, ZenonT(60) DEF local_runqueue_list_rotate
    <2>3. runq' = runq
      BY <1>1, <2>2, ZenonT(60) DEF scheduler_preemptive_sched, IInv, TypeOK
    <2>4. Placed'
      BY <1>1, <2>3, AllStay, Zenon DEF scheduler_preemptive_sched
    <2> QED BY <1>1, <2>4, Zenon DEF scheduler_preemptive_sched, Vacant
  <1>2. CASE ~scheduler_preemptive_sched(w)
    <2>1. /\ UNCHANGED <<lpc, lhand, top, bottom, wrk, runq, exiting, cleanup, state>>
          /\ pc[w] # "prepare"
      BY <1>2, Zenon DEF scheduler_fifo_get_next, deque_steal_top, deque_steal_bottom, deque_steal_copy, deque_steal_cas
    <2>2. /\ pc' = [pc EXCEPT ![w] = pc'[w]] /\ pc'[w] \notin {"prepare", "module", "base"}
          /\ \A v \in Worker : v # w => stolen'[v] = stolen[v]
      BY <1>2, ZenonT(60) DEF scheduler_fifo_get_next, deque_steal_top, deque_steal_bottom, deque_steal_copy, deque_steal_cas, IInv, TypeOK
    <2>3. \A v \in Worker : v # w => pc'[v] = pc[v] /\ stolen'[v] = stolen[v]
      BY <2>2 DEF IInv, TypeOK
    <2>4. Placed'
      BY <2>1, <2>2, <2>3, AllStay, Zenon
    <2> QED BY <2>1, <2>2, <2>3, <2>4, Zenon DEF Vacant
  <1> QED BY <1>1, <1>2, Zenon

\* The compare-and-swap that succeeds takes the entry at top out of the deque.
LEMMA StealPlaces ==
    ASSUME IInv, Placed, Vacant, NEW w \in Worker, deque_steal_cas(w), deque_steal_wins(w)
    PROVE  Placed' /\ Vacant'
  <1>1. /\ top' = top + 1 /\ pc[w] = "cas" /\ ct[w] = top /\ stolen[w] = wrk[top] /\ top < bottom
        /\ UNCHANGED <<lpc, lhand, bottom, wrk, runq, exiting, cleanup, state, stolen>>
    BY Zenon DEF deque_steal_cas, deque_steal_wins, listener, stealing, local, IInv, StealInv
  <1>2. top \in Nat /\ bottom \in Nat /\ wrk[top] \in Sandbox
    BY <1>1 DEF IInv, TypeOK, PushInv
  <1>3. pc'[w] = "prepare" /\ \A v \in Worker : v # w => pc'[v] = pc[v]
    BY ZenonT(60) DEF deque_steal_cas, deque_steal_wins, IInv, TypeOK
  <1>4. /\ top \in top .. bottom - 1
        /\ \A j : j \in top' .. bottom' - 1 <=> j \in top .. bottom - 1 /\ j # top
    BY <1>1, <1>2
  <1>5. ASSUME NEW s \in Sandbox, s = wrk[top]
        PROVE  MovesTo(s, "hand", w)
    <2>1. Here("deque", top, s)
      BY <1>4, <1>5, Zenon DEF Here
    <2>2. \A k, x : Here(k, x, s) => k = "deque" /\ x = top
      BY <2>1, Zenon DEF Placed
    <2>3. Live(s)
      BY <2>1, Zenon DEF Placed
    <2>4. \A k, x : Here(k, x, s)' <=> (k = "hand" /\ x = w)
      BY <1>1, <1>3, <1>4, <1>5, <2>2, Zenon DEF Here
    <2> QED BY <1>1, <2>3, <2>4, Zenon DEF MovesTo, Live
  <1>6. ASSUME NEW r \in Sandbox, r # wrk[top]
        PROVE  Stays(r)
    <2>1. \A j : (j \in top' .. bottom' - 1 /\ wrk'[j] = r) <=> (j \in top .. bottom - 1 /\ wrk[j] = r)
      BY <1>1, <1>4, <1>6, Zenon
    <2>2. /\ lhand' = r <=> lhand = r
          /\ Live(r)' <=> Live(r)
          /\ \A v \in Worker : /\ (pc'[v] = "prepare" /\ stolen'[v] = r) <=> (pc[v] = "prepare" /\ stolen[v] = r)
                               /\ InList(runq'[v], r) <=> InList(runq[v], r)
                               /\ exiting'[v] = r <=> exiting[v] = r
                               /\ r \in cleanup'[v] <=> r \in cleanup[v]
      BY <1>1, <1>3, <1>6, Zenon DEF Live
    <2> QED BY <2>1, <2>2, SandboxStays, Zenon
  <1>7. Placed'
    BY <1>2, <1>5, <1>6, StepKeepsPlaced, Zenon
  <1> QED BY <1>1, <1>3, <1>7, Zenon DEF Vacant

\* What was stolen goes to the run queue, which was empty.
LEMMA RunnablePlaces ==
    ASSUME IInv, Placed, Vacant, NEW w \in Worker, sandbox_set_as_runnable(w)
    PROVE  Placed' /\ Vacant'
  <1>1. /\ pc[w] = "prepare" /\ stolen[w] \in Sandbox /\ runq[w] = <<>>
        /\ UNCHANGED <<lpc, lhand, top, bottom, wrk, exiting, cleanup, stolen>>
    BY ZenonT(60) DEF sandbox_set_as_runnable, deque, listener, stealing, IInv, StealInv, HoldsOne
  <1>2. /\ pc'[w] = "switch" /\ runq'[w] = <<stolen[w]>> /\ state'[stolen[w]] = "RUNNABLE"
        /\ \A v \in Worker : v # w => pc'[v] = pc[v] /\ runq'[v] = runq[v]
        /\ \A r \in Sandbox : r # stolen[w] => state'[r] = state[r]
    BY <1>1 DEF sandbox_set_as_runnable, local_runqueue_list_append, IInv, TypeOK
  <1>3. ASSUME NEW s \in Sandbox, s = stolen[w]
        PROVE  MovesTo(s, "runq", w)
    <2>1. Here("hand", w, s)
      BY <1>1, <1>3, Zenon DEF Here
    <2>2. \A k, x : Here(k, x, s) => k = "hand" /\ x = w
      BY <2>1, Zenon DEF Placed
    <2>3. Live(s)'
      BY <1>2, <1>3, ZenonT(60) DEF Live
    <2>4. InList(runq'[w], s)
      BY <1>2, <1>3, ShortLists
    <2>5. \A v \in Worker : InList(runq'[v], s) => v = w
      BY <1>2, <2>2, Zenon DEF Here
    <2>6. /\ lhand # s /\ \A j \in top .. bottom - 1 : wrk[j] # s
          /\ \A v \in Worker : /\ pc[v] = "prepare" /\ stolen[v] = s => v = w
                               /\ exiting[v] # s /\ s \notin cleanup[v]
      <3>1. /\ ~Here("listener", 0, s) /\ \A j : ~Here("deque", j, s)
            /\ \A v : (Here("hand", v, s) => v = w) /\ ~Here("exiting", v, s) /\ ~Here("cleanup", v, s)
        BY <2>2
      <3> QED BY <3>1, Zenon DEF Here
    <2>7. /\ lhand' # s /\ \A j \in top' .. bottom' - 1 : wrk'[j] # s
          /\ \A v \in Worker : /\ ~(pc'[v] = "prepare" /\ stolen'[v] = s)
                               /\ exiting'[v] # s /\ s \notin cleanup'[v]
      BY <1>1, <1>2, <2>6, Zenon
    <2>8. \A k, x : Here(k, x, s)' <=> (k = "runq" /\ x = w)
      BY <2>4, <2>5, <2>7, Zenon DEF Here
    <2> QED BY <2>3, <2>8, Zenon DEF MovesTo
  <1>4. ASSUME NEW r \in Sandbox, r # stolen[w]
        PROVE  Stays(r)
    <2>1. ~InList(runq[w], r) /\ ~InList(runq'[w], r)
      BY <1>1, <1>2, <1>4, ShortLists, Zenon
    <2>2. /\ lhand' = r <=> lhand = r
          /\ Live(r)' <=> Live(r)
          /\ \A j : (j \in top' .. bottom' - 1 /\ wrk'[j] = r) <=> (j \in top .. bottom - 1 /\ wrk[j] = r)
          /\ \A v \in Worker : /\ (pc'[v] = "prepare" /\ stolen'[v] = r) <=> (pc[v] = "prepare" /\ stolen[v] = r)
                               /\ InList(runq'[v], r) <=> InList(runq[v], r)
                               /\ exiting'[v] = r <=> exiting[v] = r
                               /\ r \in cleanup'[v] <=> r \in cleanup[v]
      BY <1>1, <1>2, <1>4, <2>1, Zenon DEF Live
    <2> QED BY <2>2, SandboxStays, Zenon
  <1>5. Placed'
    BY <1>1, <1>3, <1>4, StepKeepsPlaced, Zenon
  <1> QED BY <1>1, <1>2, <1>5, Zenon DEF Vacant

\* What exited goes to the cleanup queue; the next sandbox stays at the head of the run queue.
LEMMA SwitchPlaces ==
    ASSUME IInv, Placed, Vacant, NEW w \in Worker, scheduler_cooperative_switch_to(w)
    PROVE  Placed' /\ Vacant'
  <1>1. pc[w] = "switch" /\ UNCHANGED <<lpc, lhand, top, bottom, wrk, stolen, runq>>
    BY Zenon DEF scheduler_cooperative_switch_to, deque, listener, stealing
  <1>2. /\ exiting'[w] = NULL /\ cleanup'[w] = cleanup[w] \cup ({exiting[w]} \ {NULL})
        /\ \A v \in Worker : v # w => exiting'[v] = exiting[v] /\ cleanup'[v] = cleanup[v]
    BY ZenonT(60) DEF scheduler_cooperative_switch_to, IInv, TypeOK
  <1>3. pc'[w] # "prepare" /\ \A v \in Worker : v # w => pc'[v] = pc[v]
    BY ZenonT(60) DEF scheduler_cooperative_switch_to, IInv, TypeOK
  <1>4. \A r \in Sandbox : Live(r)' <=> Live(r)
    <2>1. CASE state' = state
      BY <2>1, Zenon DEF Live
    <2>2. ASSUME NEW next, state[next] = "RUNNABLE", state' = [state EXCEPT ![next] = "RUNNING"]
          PROVE  \A r \in Sandbox : Live(r)' <=> Live(r)
      BY <2>2, ZenonT(60) DEF Live, IInv, TypeOK
    <2> QED BY <2>1, <2>2, Zenon DEF scheduler_cooperative_switch_to
  <1>5. ASSUME NEW s \in Sandbox, s = exiting[w]
        PROVE  MovesTo(s, "cleanup", w)
    <2>1. Here("exiting", w, s)
      BY <1>5, Zenon DEF Here
    <2>2. \A k, x : Here(k, x, s) => k = "exiting" /\ x = w
      BY <2>1, Zenon DEF Placed
    <2>3. Live(s)'
      BY <1>4, <2>1, Zenon DEF Placed
    <2>4. /\ lhand # s /\ \A j \in top .. bottom - 1 : wrk[j] # s
          /\ \A v \in Worker : /\ ~(pc[v] = "prepare" /\ stolen[v] = s) /\ ~InList(runq[v], s)
                               /\ exiting[v] = s => v = w
                               /\ s \notin cleanup[v]
      <3>1. /\ ~Here("listener", 0, s) /\ \A j : ~Here("deque", j, s)
            /\ \A v : ~Here("hand", v, s) /\ ~Here("runq", v, s) /\ (Here("exiting", v, s) => v = w) /\ ~Here("cleanup", v, s)
        BY <2>2, ZenonT(60)
      <3> QED BY <3>1, Zenon DEF Here
    <2>5. s \in cleanup'[w] /\ exiting'[w] # s
      BY <1>2, <1>5, FifoAssumption, Zenon
    <2>6. /\ lhand' # s /\ \A j \in top' .. bottom' - 1 : wrk'[j] # s
          /\ \A v \in Worker : /\ ~(pc'[v] = "prepare" /\ stolen'[v] = s) /\ ~InList(runq'[v], s)
                               /\ exiting'[v] # s
                               /\ s \in cleanup'[v] <=> v = w
      BY <1>1, <1>2, <1>3, <2>4, <2>5, Zenon
    <2>7. \A k, x : Here(k, x, s)' <=> (k = "cleanup" /\ x = w)
      BY <2>6, Zenon DEF Here
    <2> QED BY <2>3, <2>7, Zenon DEF MovesTo
  <1>6. ASSUME NEW r \in Sandbox, r # exiting[w]
        PROVE  Stays(r)
    <2>1. (r \in cleanup'[w] <=> r \in cleanup[w]) /\ exiting'[w] # r
      BY <1>2, <1>6, FifoAssumption, Zenon
    <2>2. /\ lhand' = r <=> lhand = r
          /\ Live(r)' <=> Live(r)
          /\ \A j : (j \in top' .. bottom' - 1 /\ wrk'[j] = r) <=> (j \in top .. bottom - 1 /\ wrk[j] = r)
          /\ \A v \in Worker : /\ (pc'[v] = "prepare" /\ stolen'[v] = r) <=> (pc[v] = "prepare" /\ stolen[v] = r)
                               /\ InList(runq'[v], r) <=> InList(runq[v], r)
                               /\ exiting'[v] = r <=> exiting[v] = r
                               /\ r \in cleanup'[v] <=> r \in cleanup[v]
      BY <1>1, <1>2, <1>3, <1>4, <1>6, <2>1, Zenon
    <2> QED BY <2>2, SandboxStays, Zenon
  <1>7. Placed'
    BY <1>5, <1>6, StepKeepsPlaced, Zenon
  <1> QED BY <1>1, <1>2, <1>3, <1>7, Zenon DEF Vacant

\* The idle loop frees what is in the cleanup queue.
LEMMA IdlePlaces ==
    ASSUME IInv, Placed, Vacant, NEW w \in Worker, scheduler_idle_loop(w)
    PROVE  Placed' /\ Vacant'
  <1>1. pc[w] = "base" /\ UNCHANGED <<lpc, lhand, top, bottom, wrk, stolen, runq, exiting>>
    BY Zenon DEF scheduler_idle_loop, deque, listener, stealing
  <1>2. /\ cleanup'[w] = {} /\ pc'[w] = "get_next"
        /\ \A v \in Worker : v # w => pc'[v] = pc[v] /\ cleanup'[v] = cleanup[v]
    BY ZenonT(60) DEF scheduler_idle_loop, IInv, TypeOK
  <1>3. \A r \in Sandbox : state'[r] = IF r \in cleanup[w] THEN "freed" ELSE state[r]
    BY DEF scheduler_idle_loop, Free
  <1>4. ASSUME NEW s \in Sandbox, s \in cleanup[w]
        PROVE  Leaves(s)
    <2>1. Here("cleanup", w, s)
      BY <1>4, Zenon DEF Here
    <2>2. \A k, x : Here(k, x, s) => k = "cleanup" /\ x = w
      BY <2>1, Zenon DEF Placed
    <2>3. ~Live(s)'
      BY <1>3, <1>4, ZenonT(60) DEF Live
    <2>4. /\ lhand # s /\ \A j \in top .. bottom - 1 : wrk[j] # s
          /\ \A v \in Worker : /\ ~(pc[v] = "prepare" /\ stolen[v] = s) /\ ~InList(runq[v], s)
                               /\ exiting[v] # s
                               /\ s \in cleanup[v] => v = w
      <3>1. /\ ~Here("listener", 0, s) /\ \A j : ~Here("deque", j, s)
            /\ \A v : ~Here("hand", v, s) /\ ~Here("runq", v, s) /\ ~Here("exiting", v, s) /\ (Here("cleanup", v, s) => v = w)
        BY <2>2, ZenonT(60)
      <3> QED BY <3>1, Zenon DEF Here
    <2>5. /\ lhand' # s /\ \A j \in top' .. bottom' - 1 : wrk'[j] # s
          /\ \A v \in Worker : /\ ~(pc'[v] = "prepare" /\ stolen'[v] = s) /\ ~InList(runq'[v], s)
                               /\ exiting'[v] # s /\ s \notin cleanup'[v]
      BY <1>1, <1>2, <2>4, ZenonT(60)
    <2>6. \A k, x : ~Here(k, x, s)'
      BY <2>5, Zenon DEF Here
    <2> QED BY <2>3, <2>6, Zenon DEF Leaves
  <1>5. ASSUME NEW r \in Sandbox, r \notin cleanup[w]
        PROVE  Stays(r)
    <2>1. (Live(r)' <=> Live(r)) /\ r \notin cleanup'[w]
      BY <1>2, <1>3, <1>5, Zenon DEF Live
    <2>2. /\ lhand' = r <=> lhand = r
          /\ Live(r)' <=> Live(r)
          /\ \A j : (j \in top' .. bottom' - 1 /\ wrk'[j] = r) <=> (j \in top .. bottom - 1 /\ wrk[j] = r)
          /\ \A v \in Worker : /\ (pc'[v] = "prepare" /\ stolen'[v] = r) <=> (pc[v] = "prepare" /\ stolen[v] = r)
                               /\ InList(runq'[v], r) <=> InList(runq[v], r)
                               /\ exiting'[v] = r <=> exiting[v] = r
                               /\ r \in cleanup'[v] <=> r \in cleanup[v]
      <3>1. ASSUME NEW v \in Worker
            PROVE  /\ (pc'[v] = "prepare" /\ stolen'[v] = r) <=> (pc[v] = "prepare" /\ stolen[v] = r)
                   /\ r \in cleanup'[v] <=> r \in cleanup[v]
        BY <1>1, <1>2, <1>5, <2>1, ZenonT(60)
      <3> QED BY <1>1, <2>1, <3>1, Zenon
    <2> QED BY <2>2, SandboxStays, Zenon
  <1>6. Placed'
    BY <1>4, <1>5, StepKeepsPlaced, Zenon
  <1> QED BY <1>1, <1>2, <1>6, Zenon DEF Vacant

\* A sandbox that ends is taken from the run queue, and what had exited before is freed.
LEMMA FiniPlaces ==
    ASSUME IInv, Placed, Vacant, NEW w \in Worker, current_sandbox_fini(w)
    PROVE  Placed' /\ Vacant'
  <1>1. pc[w] = "module" /\ UNCHANGED <<lpc, lhand, top, bottom, wrk, stolen>>
    BY Zenon DEF current_sandbox_fini, deque, listener, stealing
  <1>2. current[w] \in Sandbox /\ runq[w] = <<current[w]>> /\ exiting[w] = NULL
    BY <1>1, ZenonT(60) DEF IInv, HoldsOne, Vacant
  <1>3. local_runqueue_list_remove(runq[w], current[w]) = <<>>
    BY <1>2 DEF local_runqueue_list_remove
  <1>4. /\ pc'[w] = "get_next" /\ cleanup'[w] = {} /\ runq'[w] = <<>> /\ exiting'[w] = current[w]
        /\ \A v \in Worker : v # w => /\ pc'[v] = pc[v] /\ cleanup'[v] = cleanup[v]
                                      /\ runq'[v] = runq[v] /\ exiting'[v] = exiting[v]
    BY <1>3, ZenonT(60) DEF current_sandbox_fini, IInv, TypeOK
  <1>5. \A r \in Sandbox : state'[r] = IF r = current[w] THEN "COMPLETE" ELSE IF r \in cleanup[w] THEN "freed" ELSE state[r]
    BY <1>2, ZenonT(60) DEF current_sandbox_fini, Free
  <1>6. ASSUME NEW s \in Sandbox, s = current[w]
        PROVE  MovesTo(s, "exiting", w)
    <2>1. Here("runq", w, s)
      <3>1. InList(runq[w], s)
        BY <1>2, <1>6, ShortLists
      <3> QED BY <3>1, Zenon DEF Here
    <2>2. \A k, x : Here(k, x, s) => k = "runq" /\ x = w
      BY <2>1, Zenon DEF Placed
    <2>3. Live(s)'
      BY <1>5, <1>6, ZenonT(60) DEF Live
    <2>4. /\ lhand # s /\ \A j \in top .. bottom - 1 : wrk[j] # s
          /\ \A v \in Worker : /\ ~(pc[v] = "prepare" /\ stolen[v] = s)
                               /\ InList(runq[v], s) => v = w
                               /\ exiting[v] # s /\ s \notin cleanup[v]
      <3>1. /\ ~Here("listener", 0, s) /\ \A j : ~Here("deque", j, s)
            /\ \A v : ~Here("hand", v, s) /\ (Here("runq", v, s) => v = w) /\ ~Here("exiting", v, s) /\ ~Here("cleanup", v, s)
        BY <2>2, ZenonT(60)
      <3> QED BY <3>1, Zenon DEF Here
    <2>5. exiting'[w] = s /\ s \notin cleanup'[w] /\ pc'[w] # "prepare" /\ ~InList(runq'[w], s)
      BY <1>4, <1>6, ShortLists, ZenonT(60)
    <2>6. /\ lhand' # s /\ \A j \in top' .. bottom' - 1 : wrk'[j] # s
          /\ \A v \in Worker : /\ ~(pc'[v] = "prepare" /\ stolen'[v] = s) /\ ~InList(runq'[v], s)
                               /\ exiting'[v] = s <=> v = w
                               /\ s \notin cleanup'[v]
      BY <1>1, <1>4, <2>4, <2>5, Zenon
    <2>7. \A k, x : Here(k, x, s)' <=> (k = "exiting" /\ x = w)
      BY <2>6, Zenon DEF Here
    <2> QED BY <2>3, <2>7, Zenon DEF MovesTo
  <1>7. ASSUME NEW s \in Sandbox, s # current[w], s \in cleanup[w]
        PROVE  Leaves(s)
    <2>1. Here("cleanup", w, s)
      BY <1>7, Zenon DEF Here
    <2>2. \A k, x : Here(k, x, s) => k = "cleanup" /\ x = w
      BY <2>1, Zenon DEF Placed
    <2>3. ~Live(s)'
      BY <1>5, <1>7, ZenonT(60) DEF Live
    <2>4. ~InList(runq'[w], s) /\ exiting'[w] # s /\ s \notin cleanup'[w] /\ pc'[w] # "prepare"
      BY <1>4, <1>7, ShortLists, ZenonT(60)
    <2>5. /\ lhand # s /\ \A j \in top .. bottom - 1 : wrk[j] # s
          /\ \A v \in Worker : /\ ~(pc[v] = "prepare" /\ stolen[v] = s) /\ ~InList(runq[v], s)
                               /\ exiting[v] # s
                               /\ s \in cleanup[v] => v = w
      <3>1. /\ ~Here("listener", 0, s) /\ \A j : ~Here("deque", j, s)
            /\ \A v : ~Here("hand", v, s) /\ ~Here("runq", v, s) /\ ~Here("exiting", v, s) /\ (Here("cleanup", v, s) => v = w)
        BY <2>2, ZenonT(60)
      <3> QED BY <3>1, Zenon DEF Here
    <2>6. /\ lhand' # s /\ \A j \in top' .. bottom' - 1 : wrk'[j] # s
          /\ \A v \in Worker : /\ ~(pc'[v] = "prepare" /\ stolen'[v] = s) /\ ~InList(runq'[v], s)
                               /\ exiting'[v] # s /\ s \notin cleanup'[v]
      BY <1>1, <1>4, <2>4, <2>5, ZenonT(60)
    <2>7. \A k, x : ~Here(k, x, s)'
      BY <2>6, Zenon DEF Here
    <2> QED BY <2>3, <2>7, Zenon DEF Leaves
  <1>8. ASSUME NEW r \in Sandbox, r # current[w], r \notin cleanup[w]
        PROVE  Stays(r)
    <2>1. /\ ~InList(runq'[w], r) /\ ~InList(runq[w], r) /\ r \notin cleanup'[w]
          /\ exiting[w] # r /\ exiting'[w] # r
      BY <1>2, <1>4, <1>8, ShortLists, FifoAssumption
    <2>2. Live(r)' <=> Live(r)
      BY <1>5, <1>8, Zenon DEF Live
    <2>3. ASSUME NEW v \in Worker
          PROVE  /\ (pc'[v] = "prepare" /\ stolen'[v] = r) <=> (pc[v] = "prepare" /\ stolen[v] = r)
                 /\ InList(runq'[v], r) <=> InList(runq[v], r)
                 /\ exiting'[v] = r <=> exiting[v] = r
                 /\ r \in cleanup'[v] <=> r \in cleanup[v]
      BY <1>1, <1>4, <1>8, <2>1, ZenonT(60)
    <2>4. /\ lhand' = r <=> lhand = r
          /\ \A j : (j \in top' .. bottom' - 1 /\ wrk'[j] = r) <=> (j \in top .. bottom - 1 /\ wrk[j] = r)
      BY <1>1, Zenon
    <2> QED BY <2>2, <2>3, <2>4, SandboxStays, Zenon
  <1>9. Placed'
    BY <1>6, <1>7, <1>8, StepKeepsPlaced, Zenon
  <1> QED BY <1>1, <1>4, <1>9, Zenon DEF Vacant

\* A sandbox that was allocated and not yet freed is in exactly one place: whichever workers
\* race for it, deque_steal gives it to one of them, and it is never lost between the listener,
\* the deque, a run queue and a cleanup queue.
THEOREM SandboxesHaveOnePlace == Spec => []OnePlace
  <1>1. Init => Placed /\ Vacant
    <2> SUFFICES ASSUME Init PROVE Placed /\ Vacant
      BY ZenonT(60)
    <2>1. \A s \in Sandbox : ~Live(s)
      BY ZenonT(60) DEF Init, Live
    <2>2. top .. bottom - 1 = {}
      BY DEF Init
    <2>3. \A s \in Sandbox : \A k, x : ~Here(k, x, s)
      <3>1. \A s \in Sandbox : /\ lhand # s
                               /\ \A w \in Worker : /\ pc[w] # "prepare" /\ ~InList(runq[w], s)
                                                    /\ exiting[w] # s /\ s \notin cleanup[w]
        BY FifoAssumption, ShortLists DEF Init
      <3> QED BY <2>2, <3>1, Zenon DEF Here
    <2> QED BY <2>1, <2>3, ZenonT(60) DEF Placed, Vacant, Init
  <1>2. IInv /\ Placed /\ Vacant /\ [Next]_vars => Placed' /\ Vacant'
    <2> SUFFICES ASSUME IInv, Placed, Vacant, [Next]_vars PROVE Placed' /\ Vacant'
      OBVIOUS
    <2>1. CASE Listener
      BY <2>1, ListenerPlaces, Zenon
    <2>2. ASSUME NEW w \in Worker, WorkerStep(w) \/ scheduler_preemptive_sched(w)
          PROVE  Placed' /\ Vacant'
      <3>1. CASE deque_steal_cas(w) /\ deque_steal_wins(w)
        BY <3>1, StealPlaces, Zenon
      <3>2. CASE ~(deque_steal_cas(w) /\ deque_steal_wins(w))
        BY <2>2, <3>2, QuietPlaces, RunnablePlaces, SwitchPlaces, IdlePlaces, FiniPlaces, Zenon DEF WorkerStep
      <3> QED BY <3>1, <3>2, Zenon
    <2>3. CASE UNCHANGED vars
      <3>1. /\ UNCHANGED <<lpc, lhand, top, bottom, runq, exiting, cleanup, state>>
            /\ wrk' = wrk /\ pc' = pc /\ stolen' = stolen
        BY <2>3, Zenon DEF vars, deque, listener, stealing, local
      <3>2. Placed'
        BY <3>1, AllStay, Zenon
      <3> QED BY <3>1, <3>2, Zenon DEF Vacant
    <2> QED BY <2>1, <2>2, <2>3, Zenon DEF Next, Aborted
  <1> QED BY FifoInvariant, <1>1, <1>2, PlacedIsOnePlace, PTL DEF Spec

=============================================================================
