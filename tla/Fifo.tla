--------------------------------- MODULE Fifo ---------------------------------
(***************************************************************************)
(* The runtime under the FIFO policy (SLEDGE_SCHEDULER=FIFO): the listener *)
(* pushes sandboxes on a deque that has no lock, idle workers steal from   *)
(* its other end, and each worker keeps what it runs on a list.            *)
(*                                                                         *)
(* deque_push and deque_steal are one step per access to shared memory.    *)
(* Everything else that a worker does is private to it.  A SIGALRM that    *)
(* arrives outside of the module's code is deferred or only propagated,    *)
(* and changes nothing here.                                               *)
(***************************************************************************)
EXTENDS Integers, Sequences, FiniteSets

CONSTANTS
    Worker,      \* worker threads
    Sandbox,     \* ids of the sandboxes, one per request, given in order
    Capacity,    \* GLOBAL_REQUEST_SCHEDULER_DEQUE_CAPACITY
    DEQUE_MAX_SZ,\* length of wrk[]
    NULL

ASSUME FifoAssumption ==
    /\ Sandbox \subseteq Nat /\ NULL \notin Sandbox
    /\ Capacity \in Nat \ {0} /\ DEQUE_MAX_SZ \in Nat

VARIABLES
    top, bottom, wrk,     \* global_request_scheduler_deque
    lpc, lhand, lct, lcb, \* the listener in deque_push: position, *w, ct and cb
    pc, ct, stolen,       \* a worker: position, and ct and *w of deque_steal
    runq,                 \* local_runqueue_list
    current,              \* worker_thread_current_sandbox
    exiting,              \* exiting_sandbox of scheduler_cooperative_sched
    cleanup,              \* local_cleanup_queue
    state,                \* sandbox->state
    got                   \* per worker, the sandboxes it has stolen (history)

deque    == <<top, bottom, wrk>>
listener == <<lpc, lhand, lct, lcb>>
stealing == <<ct, stolen>>
local    == <<runq, current, exiting, cleanup>>
vars     == <<deque, listener, pc, stealing, local, state, got>>

-----------------------------------------------------------------------------
(***************************************************************************)
(* The listener: on_client_request_received allocates the sandbox and      *)
(* global_request_scheduler_deque_add pushes it.                           *)
(***************************************************************************)
sandbox_alloc(s) ==
    /\ lpc = "wait"
    /\ state[s] = "none"
    /\ \A t \in Sandbox : t < s => state[t] # "none"
    /\ lhand' = s
    /\ state' = [state EXCEPT ![s] = "INITIALIZED"]
    /\ lpc' = "top"
    /\ UNCHANGED <<deque, lct, lcb, pc, stealing, local, got>>

deque_push_top ==
    /\ lpc = "top"
    /\ lct' = top
    /\ lpc' = "bottom"
    /\ UNCHANGED <<deque, lhand, lcb, pc, stealing, local, state, got>>

\* The test for -ENOSPC when n entries are thought to be in the deque.
deque_full(size, n) == size - 1 < n

\* -ENOSPC: the listener means to answer 429, but first calls sandbox_free, which asserts that
\* the sandbox is in a terminal state.  It is INITIALIZED, and the process aborts.
deque_push_bottom ==
    /\ lpc = "bottom"
    /\ lcb' = bottom
    /\ \/ /\ deque_full(Capacity, bottom - lct)
          /\ lpc' = "aborted"
       \/ /\ ~deque_full(Capacity, bottom - lct)
          /\ lpc' = "store"
    /\ UNCHANGED <<deque, lhand, lct, pc, stealing, local, state, got>>

\* wrk[] is written at cb itself: an index is used once, and the last one is DEQUE_MAX_SZ - 1.
deque_push_store ==
    /\ lpc = "store"
    /\ lcb < DEQUE_MAX_SZ
    /\ wrk' = [wrk EXCEPT ![lcb] = lhand]
    /\ lpc' = "cas"
    /\ UNCHANGED <<top, bottom, lhand, lct, lcb, pc, stealing, local, state, got>>

\* The compare-and-swap of bottom; assert(0) when it fails.
deque_push_cas ==
    /\ lpc = "cas"
    /\ bottom = lcb
    /\ bottom' = lcb + 1
    /\ lhand' = NULL
    /\ lpc' = "wait"
    /\ UNCHANGED <<top, wrk, lct, lcb, pc, stealing, local, state, got>>

Listener ==
    \/ \E s \in Sandbox : sandbox_alloc(s)
    \/ deque_push_top
    \/ deque_push_bottom
    \/ deque_push_store
    \/ deque_push_cas

-----------------------------------------------------------------------------
(***************************************************************************)
(* The local run queue.                                                    *)
(***************************************************************************)
local_runqueue_list_get_next(q) == IF q = <<>> THEN NULL ELSE Head(q)

local_runqueue_list_append(q, s) == Append(q, s)

\* ps_list_rem_d of a sandbox that is at the head.
local_runqueue_list_remove(q, s) == IF q # <<>> /\ Head(q) = s THEN Tail(q) ELSE q

local_runqueue_list_rotate(q) == IF Len(q) = 1 THEN q ELSE Append(Tail(q), Head(q))

-----------------------------------------------------------------------------
(***************************************************************************)
(* A worker.  scheduler_fifo_get_next is called by the idle loop and by    *)
(* scheduler_cooperative_sched, with no current sandbox in both.           *)
(***************************************************************************)
scheduler_fifo_get_next(w) ==
    /\ pc[w] = "get_next"
    /\ pc' = [pc EXCEPT ![w] = IF local_runqueue_list_get_next(runq[w]) = NULL THEN "top" ELSE "switch"]
    /\ UNCHANGED <<deque, listener, stealing, local, state, got>>

deque_steal_top(w) ==
    /\ pc[w] = "top"
    /\ ct' = [ct EXCEPT ![w] = top]
    /\ pc' = [pc EXCEPT ![w] = "bottom"]
    /\ UNCHANGED <<deque, listener, stolen, local, state, got>>

\* Mutant: a deque of one is taken for empty.
OneIsEmpty(c, cb) == c + 1 >= cb

\* The test for -ENOENT.
deque_empty(c, cb) == c >= cb

\* -ENOENT when the deque looks empty.
deque_steal_bottom(w) ==
    /\ pc[w] = "bottom"
    /\ pc' = [pc EXCEPT ![w] = IF deque_empty(ct[w], bottom) THEN "switch" ELSE "copy"]
    /\ UNCHANGED <<deque, listener, stealing, local, state, got>>

\* Mutant: the entry at the other end is copied.
CopiesNewest(w) == wrk[bottom - 1]

\* The entry that deque_steal copies to *w.
deque_entry(w) == wrk[ct[w]]

deque_steal_copy(w) ==
    /\ pc[w] = "copy"
    /\ stolen' = [stolen EXCEPT ![w] = deque_entry(w)]
    /\ pc' = [pc EXCEPT ![w] = "cas"]
    /\ UNCHANGED <<deque, listener, ct, local, state, got>>

\* Mutant: the result of the compare-and-swap is not looked at.
StealsAnyway(w) == TRUE

\* The compare-and-swap of top finds it as it was read.
deque_steal_wins(w) == top = ct[w]

\* -EAGAIN when another worker was faster.
deque_steal_cas(w) ==
    /\ pc[w] = "cas"
    /\ \/ /\ deque_steal_wins(w)
          /\ top' = ct[w] + 1
          /\ got' = [got EXCEPT ![w] = Append(@, stolen[w])]
          /\ pc' = [pc EXCEPT ![w] = "prepare"]
       \/ /\ ~deque_steal_wins(w)
          /\ pc' = [pc EXCEPT ![w] = "switch"]
          /\ UNCHANGED <<top, got>>
    /\ UNCHANGED <<bottom, wrk, listener, stealing, local, state>>

\* sandbox_prepare_execution_environment and sandbox_set_as_runnable.
sandbox_set_as_runnable(w) ==
    /\ pc[w] = "prepare"
    /\ runq' = [runq EXCEPT ![w] = local_runqueue_list_append(@, stolen[w])]
    /\ state' = [state EXCEPT ![stolen[w]] = "RUNNABLE"]
    /\ pc' = [pc EXCEPT ![w] = "switch"]
    /\ UNCHANGED <<deque, listener, stealing, current, exiting, cleanup, got>>

(***************************************************************************)
(* The caller of get_next: a sandbox that exits is handed to the cleanup   *)
(* queue, and the worker switches to the next sandbox or to its base       *)
(* context.  Only a runnable sandbox can be next: preemption never leaves  *)
(* a sandbox (see HoldsOne), and switching to any other is a panic.        *)
(***************************************************************************)
scheduler_cooperative_switch_to(w) ==
    LET next == local_runqueue_list_get_next(runq[w])
    IN  /\ pc[w] = "switch"
        /\ cleanup' = [cleanup EXCEPT ![w] = @ \cup ({exiting[w]} \ {NULL})]
        /\ exiting' = [exiting EXCEPT ![w] = NULL]
        /\ \/ /\ next = NULL
              /\ pc' = [pc EXCEPT ![w] = "base"]
              /\ UNCHANGED <<current, state>>
           \/ /\ next # NULL
              /\ state[next] = "RUNNABLE"
              /\ state' = [state EXCEPT ![next] = "RUNNING"]
              /\ current' = [current EXCEPT ![w] = next]
              /\ pc' = [pc EXCEPT ![w] = "module"]
        /\ UNCHANGED <<deque, listener, stealing, runq, got>>

\* local_cleanup_queue_free: the state of a freed sandbox is no longer looked at.
Free(sandboxes) == [s \in Sandbox |-> IF s \in sandboxes THEN "freed" ELSE state[s]]

\* The idle loop frees what has exited and tries again.
scheduler_idle_loop(w) ==
    /\ pc[w] = "base"
    /\ state' = Free(cleanup[w])
    /\ cleanup' = [cleanup EXCEPT ![w] = {}]
    /\ pc' = [pc EXCEPT ![w] = "get_next"]
    /\ UNCHANGED <<deque, listener, stealing, runq, current, exiting, got>>

\* SIGALRM in the module's code: scheduler_preemptive_sched rotates and takes the new head.
scheduler_preemptive_sched(w) ==
    LET rotated == local_runqueue_list_rotate(runq[w])
    IN  /\ pc[w] = "module"
        /\ runq' = [runq EXCEPT ![w] = rotated]
        /\ current' = [current EXCEPT ![w] = local_runqueue_list_get_next(rotated)]
        /\ UNCHANGED <<deque, listener, pc, stealing, exiting, cleanup, state, got>>

\* The module returns or traps: the sandbox leaves the run queue, answers its client and
\* enters scheduler_cooperative_sched, which frees what had exited before.
current_sandbox_fini(w) ==
    /\ pc[w] = "module"
    /\ runq' = [runq EXCEPT ![w] = local_runqueue_list_remove(@, current[w])]
    /\ state' = [Free(cleanup[w]) EXCEPT ![current[w]] = "COMPLETE"]
    /\ exiting' = [exiting EXCEPT ![w] = current[w]]
    /\ current' = [current EXCEPT ![w] = NULL]
    /\ cleanup' = [cleanup EXCEPT ![w] = {}]
    /\ pc' = [pc EXCEPT ![w] = "get_next"]
    /\ UNCHANGED <<deque, listener, stealing, got>>

WorkerStep(w) ==
    \/ scheduler_fifo_get_next(w)
    \/ deque_steal_top(w)
    \/ deque_steal_bottom(w)
    \/ deque_steal_copy(w)
    \/ deque_steal_cas(w)
    \/ sandbox_set_as_runnable(w)
    \/ scheduler_cooperative_switch_to(w)
    \/ scheduler_idle_loop(w)
    \/ current_sandbox_fini(w)

-----------------------------------------------------------------------------
\* deque_init and local_runqueue_list_initialize.
Init ==
    /\ top = 0 /\ bottom = 0
    /\ wrk = [i \in 0 .. DEQUE_MAX_SZ - 1 |-> NULL]
    /\ lpc = "wait" /\ lhand = NULL /\ lct = 0 /\ lcb = 0
    /\ pc = [w \in Worker |-> "get_next"]
    /\ ct = [w \in Worker |-> 0]
    /\ stolen = [w \in Worker |-> NULL]
    /\ runq = [w \in Worker |-> <<>>]
    /\ current = [w \in Worker |-> NULL]
    /\ exiting = [w \in Worker |-> NULL]
    /\ cleanup = [w \in Worker |-> {}]
    /\ state = [s \in Sandbox |-> "none"]
    /\ got = [w \in Worker |-> <<>>]

\* A failed assert of the listener ends every thread of the process.
Alive == lpc # "aborted"

Aborted == ~Alive /\ UNCHANGED vars

Next ==
    \/ Alive /\ Listener
    \/ \E w \in Worker : Alive /\ (WorkerStep(w) \/ scheduler_preemptive_sched(w))
    \/ Aborted

Spec == Init /\ [][Next]_vars

(***************************************************************************)
(* While the process lives its threads are scheduled, and modules end.     *)
(* Nothing is asked of the order in which they run or of who wins a        *)
(* compare-and-swap.                                                       *)
(***************************************************************************)
FairSpec ==
    /\ Spec
    /\ WF_vars(deque_push_top \/ deque_push_bottom \/ deque_push_store \/ deque_push_cas)
    /\ \A w \in Worker : WF_vars(Alive /\ WorkerStep(w))

-----------------------------------------------------------------------------
(***************************************************************************)
(* Properties.                                                             *)
(***************************************************************************)
\* Type invariant of the deque, the listener and the workers; the deque holds at most
\* Capacity sandboxes although deque_push tests a value of top that may be old.
TypeOK ==
    /\ top \in 0 .. DEQUE_MAX_SZ /\ bottom \in 0 .. DEQUE_MAX_SZ
    /\ bottom - top \in 0 .. Capacity
    /\ wrk \in [0 .. DEQUE_MAX_SZ - 1 -> Sandbox \cup {NULL}]
    /\ lpc \in {"wait", "top", "bottom", "store", "cas", "aborted"}
    /\ lhand \in Sandbox \cup {NULL}
    /\ lct \in 0 .. DEQUE_MAX_SZ /\ lcb \in 0 .. DEQUE_MAX_SZ
    /\ pc \in [Worker -> {"get_next", "top", "bottom", "copy", "cas", "prepare", "switch", "base", "module"}]
    /\ ct \in [Worker -> 0 .. DEQUE_MAX_SZ]
    /\ stolen \in [Worker -> Sandbox \cup {NULL}]
    /\ runq \in [Worker -> Seq(Sandbox)]
    /\ current \in [Worker -> Sandbox \cup {NULL}]
    /\ exiting \in [Worker -> Sandbox \cup {NULL}]
    /\ cleanup \in [Worker -> SUBSET Sandbox]
    /\ state \in [Sandbox -> {"none", "INITIALIZED", "RUNNABLE", "RUNNING", "COMPLETE", "freed"}]
    /\ got \in [Worker -> Seq(Sandbox)]

\* The places where a sandbox is.
Places(s) ==
    {<<"listener", 0>> : x \in {lhand} \cap {s}}
        \cup {<<"deque", i>> : i \in {i \in top .. bottom - 1 : wrk[i] = s}}
        \cup {<<"hand", w>> : w \in {w \in Worker : pc[w] = "prepare" /\ stolen[w] = s}}
        \cup {<<"runq", w>> : w \in {w \in Worker : \E i \in DOMAIN runq[w] : runq[w][i] = s}}
        \cup {<<"exiting", w>> : w \in {w \in Worker : exiting[w] = s}}
        \cup {<<"cleanup", w>> : w \in {w \in Worker : s \in cleanup[w]}}

\* A sandbox that was allocated and not yet freed is in exactly one place, whichever workers
\* race for it: two workers never get the same one and none is lost between the deque and a
\* run queue (deque_push, deque_steal, scheduler_fifo_get_next, scheduler_cooperative_sched).
OnePlace ==
    \A s \in Sandbox :
        Cardinality(Places(s)) = IF state[s] \in {"none", "freed"} THEN 0 ELSE 1

\* A worker's run queue holds the sandbox it runs and no other, and is empty when the worker
\* looks for one: under FIFO local_runqueue_list_rotate never rotates, and preemption never
\* takes a worker away from a sandbox.
HoldsOne ==
    \A w \in Worker :
        /\ pc[w] = "module" => current[w] \in Sandbox /\ runq[w] = <<current[w]>>
        /\ pc[w] # "module" => current[w] = NULL
        /\ pc[w] = "switch" => runq[w] \in {<<>>} \cup {<<s>> : s \in Sandbox}
        /\ pc[w] \notin {"module", "switch"} => runq[w] = <<>>

\* Although deque_push and deque_steal take several steps and no lock, they behave as a queue
\* that the listener and the workers use one at a time: sandboxes are taken in the order they
\* were added, each by one worker.
contents == [i \in 1 .. bottom - top |-> wrk[top + i - 1]]
Queue == INSTANCE FifoQueue WITH queue <- contents
IsQueue == Queue!Spec

\* A sandbox that was pushed is run to completion, although any steal may fail with -EAGAIN,
\* unless the listener meets a full deque and aborts the process.
EventuallyServed ==
    \A s \in Sandbox : state[s] = "INITIALIZED" ~> state[s] \in {"COMPLETE", "freed"} \/ ~Alive

-----------------------------------------------------------------------------
\* What deque_push has read is still so when it is used: only the listener moves bottom.
PushInv ==
    /\ lpc # "wait" => lhand \in Sandbox
    /\ lpc \in {"bottom", "store", "cas"} => lct <= top
    /\ lpc \in {"store", "cas"} => lcb = bottom /\ bottom - lct < Capacity
    /\ lpc = "cas" => lcb < DEQUE_MAX_SZ /\ wrk[lcb] = lhand
    /\ \A i \in 0 .. bottom - 1 : wrk[i] \in Sandbox

\* What deque_steal has read can only be behind top, and an entry below bottom never changes.
StealInv ==
    \A w \in Worker :
        /\ pc[w] \in {"bottom", "copy", "cas"} => ct[w] <= top
        /\ pc[w] \in {"copy", "cas"} => ct[w] < bottom
        /\ pc[w] = "cas" => stolen[w] = wrk[ct[w]]
        /\ pc[w] = "prepare" => stolen[w] \in Sandbox

\* The inductive invariant behind TypeOK, HoldsOne and IsQueue: the listener's and the
\* workers' copies of top, bottom and the entries are never wrong, only old.
IInv == TypeOK /\ HoldsOne /\ PushInv /\ StealInv
=============================================================================
