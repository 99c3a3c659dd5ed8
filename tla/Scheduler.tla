------------------------------ MODULE Scheduler ------------------------------
(***************************************************************************)
(* The core of the SLEdge runtime under its default policy (earliest       *)
(* deadline first): the listener that allocates a sandbox per request and  *)
(* queues it, the worker threads that pull, run, preempt, finish and free  *)
(* sandboxes, and the SIGALRM / SIGUSR1 handler that runs on the workers.  *)
(*                                                                         *)
(* A worker thread executes on one stack at a time: its base context (the  *)
(* idle loop) or the stack of a sandbox.  pc[w] is where the thread is.    *)
(* When a signal arrives, intr[w] remembers the interrupted pc until the   *)
(* handler returns or switches to another sandbox; signals are masked      *)
(* while intr[w] # "none" (handler_depth = 1).  scheduler_edf_get_next is  *)
(* called from three places (idle loop, cooperative scheduler, SIGALRM     *)
(* handler) and is the same four steps in each of them.                    *)
(*                                                                         *)
(* The two min-heaps are sets ordered by absolute_deadline here.           *)
(***************************************************************************)
EXTENDS Integers, FiniteSets

CONSTANTS
    Worker,         \* worker threads
    Sandbox,        \* sandboxes that may be allocated in a run
    Deadline,       \* values of absolute_deadline
    QueueCapacity,  \* capacity of the global request queue (4096 in the code)
    Triaged,        \* SLEDGE_SIGALRM_HANDLER: TRIAGED (TRUE) or BROADCAST
    SpinloopPause,  \* SLEDGE_SPINLOOP_PAUSE_ENABLED
    ModuleDoes,     \* what the WebAssembly modules of the run do (see UserStep)
    PrepareMayFail, \* an allocation of sandbox_prepare_execution_environment may fail
    NULL,           \* the null sandbox pointer
    Base            \* worker_thread_base_context

ASSUME NamesAssumption == NULL \notin Sandbox /\ Base \notin Sandbox
ASSUME DeadlineAssumption == Deadline \subseteq Nat
ASSUME CapacityAssumption == QueueCapacity \in Nat
ASSUME OptionsAssumption ==
    /\ Triaged \in BOOLEAN /\ SpinloopPause \in BOOLEAN /\ PrepareMayFail \in BOOLEAN
    /\ ModuleDoes \subseteq {"sys", "fini", "trap"}

VARIABLES
    pc,        \* where each worker thread executes
    intr,      \* the pc the running handler interrupted, or "none"
    exec,      \* the context whose stack the worker is on
    current,   \* worker_thread_current_sandbox
    inhand,    \* local variable "global" of scheduler_edf_get_next
    deferred,  \* deferred_sigalrm > 0
    pending,   \* a SIGALRM sent to the thread is pending
    timer,     \* a SIGALRM of the interval timer is pending for the process
    targets,   \* workers the running propagate_sigalrm has still to consider
    state,     \* sandbox->state
    ctxt,      \* sandbox->ctxt.variant
    saved,     \* where the sandbox resumes when it is switched to
    absolute_deadline,
    http,      \* sandbox->http: "open" while owned, then the status answered
    globalq,   \* global_request_scheduler_minheap
    runq,      \* local_runqueue_minheap of each worker
    cleanup,   \* local_cleanup_queue of each worker
    lpc,       \* where the listener is in on_client_request_received
    lhand      \* its local variable "sandbox"

control   == <<pc, intr, exec, current, inhand>>
signals   == <<deferred, pending, timer, targets>>
sandboxes == <<state, ctxt, saved, absolute_deadline, http>>
queues    == <<globalq, runq, cleanup>>
listener  == <<lpc, lhand>>
vars      == <<control, signals, sandboxes, queues, listener>>

(***************************************************************************)
(* FREED is sandbox_free's effect.  ALLOCATED does not outlive             *)
(* sandbox_alloc, and ASLEEP has no caller in the runtime.                 *)
(***************************************************************************)
SandboxState == {"UNINITIALIZED", "INITIALIZED", "RUNNABLE", "PREEMPTED", "RUNNING_SYS",
                 "RUNNING_USER", "INTERRUPTED", "RETURNED", "COMPLETE", "ERROR", "FREED"}
Variant      == {"UNUSED", "FAST", "SLOW", "RUNNING"}

BasePC    == {"idle", "cleanup", "paused"}
GetNextPC == {"peek", "pull", "prepare", "dispatch"}
UserPC    == {"replay", "clear", "raise", "user"}
SysPC     == {"start", "sys", "fini", "trap"}
HandlerPC == {"sigalrm", "sigusr1"}
PC        == BasePC \cup GetNextPC \cup UserPC \cup SysPC \cup HandlerPC
               \cup {"choose", "switch", "returned", "exit", "coop"}

Init ==
    /\ pc = [w \in Worker |-> "idle"]
    /\ intr = [w \in Worker |-> "none"]
    /\ exec = [w \in Worker |-> Base]
    /\ current = [w \in Worker |-> NULL]
    /\ inhand = [w \in Worker |-> NULL]
    /\ deferred = [w \in Worker |-> FALSE]
    /\ pending = [w \in Worker |-> FALSE]
    /\ timer = FALSE
    /\ targets = [w \in Worker |-> {}]
    /\ state = [s \in Sandbox |-> "UNINITIALIZED"]
    /\ ctxt = [s \in Sandbox |-> "UNUSED"]
    /\ saved = [s \in Sandbox |-> "start"]
    /\ absolute_deadline = [s \in Sandbox |-> 0]
    /\ http = [s \in Sandbox |-> "none"]
    /\ globalq = {}
    /\ runq = [w \in Worker |-> {}]
    /\ cleanup = [w \in Worker |-> {}]
    /\ lpc = "epoll"
    /\ lhand = NULL

-----------------------------------------------------------------------------
(***************************************************************************)
(* Helpers.                                                                *)
(***************************************************************************)
Goto(w, label) == pc' = [pc EXCEPT ![w] = label]
SetState(s, x) == state' = [state EXCEPT ![s] = x]

\* The head of the worker's run queue.
IsLocalHead(s, w) ==
    /\ s \in runq[w]
    /\ \A t \in runq[w] : absolute_deadline[s] <= absolute_deadline[t]

\* Mutant: an equal deadline counts as earlier.
NotLaterThanLocal(s, w) == \A t \in runq[w] : absolute_deadline[s] <= absolute_deadline[t]

\* absolute_deadline < local_deadline, which is UINT64_MAX for an empty run queue.
EarlierThanLocal(s, w) == \A t \in runq[w] : absolute_deadline[s] < absolute_deadline[t]

\* The head of the global request queue, and its removal under the lock.
IsGlobalHead(s) ==
    /\ s \in globalq
    /\ \A t \in globalq : absolute_deadline[s] <= absolute_deadline[t]
\* Mutant: the head is returned but stays in the queue.
PeekOnly(s) == UNCHANGED globalq

global_request_scheduler_remove(s) == globalq' = globalq \ {s}

\* The run queue is thread local.
local_runqueue_add(w, s) == runq' = [runq EXCEPT ![w] = @ \cup {s}]

\* Mutant: a finished sandbox stays in the run queue.
ForgottenDelete(w, s) == UNCHANGED runq

local_runqueue_delete(w, s) == runq' = [runq EXCEPT ![w] = @ \ {s}]

\* Mutant: the sandbox whose stack is in use is freed as well.
FreesOwnStack(w) ==
    /\ state' = [s \in Sandbox |-> IF s \in cleanup[w] \cup {exec[w]} THEN "FREED" ELSE state[s]]
    /\ cleanup' = [cleanup EXCEPT ![w] = {}]

\* Frees the sandboxes that have exited, never the one whose stack is in use.
local_cleanup_queue_free(w) ==
    /\ state' = [s \in Sandbox |-> IF s \in cleanup[w] THEN "FREED" ELSE state[s]]
    /\ cleanup' = [cleanup EXCEPT ![w] = {}]

\* The session goes back to the listener with its answer.
http_session_send_response(s, code) == http' = [http EXCEPT ![s] = code]

\* Mutant: the alarm is not noted.
LostAlarm(w) == UNCHANGED deferred

\* The two stores to deferred_sigalrm.
defer_sigalrm(w) == deferred' = [deferred EXCEPT ![w] = TRUE]

\* Mutant: the alarms stay noted.
ForgottenClear(w) == UNCHANGED deferred

software_interrupt_deferred_sigalrm_clear(w) == deferred' = [deferred EXCEPT ![w] = FALSE]

\* Mutant: an idle worker is not woken.
OnlyBusyWorkers(v) ==
    \E s \in globalq :
        current[v] # NULL /\ absolute_deadline[s] < absolute_deadline[current[v]]

\* Does the global queue hold a deadline earlier than the one worker v published?
scheduler_worker_would_preempt(v) ==
    \E s \in globalq :
        current[v] = NULL \/ absolute_deadline[s] < absolute_deadline[current[v]]

\* The sandbox that exits and whose stack the thread is on, if it is not the base context.
ExitingSandbox(w) == {exec[w]} \ {Base}

\* Mutant: a sandbox is preempted whatever its state.
AnyCurrent(w) == current[w] # NULL

\* May a signal handler preempt the current sandbox?
current_sandbox_is_preemptable(w) ==
    current[w] # NULL /\ state[current[w]] = "RUNNING_USER"

\* What sandbox_deinit asserts of a sandbox that is about to be freed.
MayBeFreed(s) == state[s] \in {"COMPLETE", "ERROR"} /\ http[s] # "open"

\* A failed assert of the listener or of a worker; it aborts the whole process.
Aborted ==
    \/ lpc = "free" /\ ~MayBeFreed(lhand)
    \/ \E w \in Worker : pc[w] = "dispatch" /\ state[inhand[w]] # "INITIALIZED"

-----------------------------------------------------------------------------
(***************************************************************************)
(* The listener.                                                           *)
(***************************************************************************)
\* A routed and admitted request gets a sandbox.
sandbox_alloc(s, d) ==
    /\ lpc = "epoll"
    /\ state[s] = "UNINITIALIZED"
    /\ SetState(s, "INITIALIZED")
    /\ absolute_deadline' = [absolute_deadline EXCEPT ![s] = d]
    /\ http' = [http EXCEPT ![s] = "open"]
    /\ lpc' = "add"
    /\ lhand' = s
    /\ UNCHANGED <<control, signals, ctxt, saved, queues>>

\* The sandbox goes to the global queue; when that is full the listener frees it.
global_request_scheduler_add ==
    /\ lpc = "add"
    /\ \/ /\ Cardinality(globalq) < QueueCapacity
          /\ globalq' = globalq \cup {lhand}
          /\ lpc' = "epoll"
          /\ lhand' = NULL
       \/ /\ Cardinality(globalq) >= QueueCapacity
          /\ lpc' = "free"
          /\ UNCHANGED <<globalq, lhand>>
    /\ UNCHANGED <<control, signals, sandboxes, runq, cleanup>>

-----------------------------------------------------------------------------
(***************************************************************************)
(* scheduler_edf_get_next.                                                 *)
(***************************************************************************)
\* The lock-free peek: is there anything earlier than the local head?
edf_peek(w) ==
    /\ pc[w] = "peek"
    /\ Goto(w, IF \E s \in globalq : EarlierThanLocal(s, w) THEN "pull" ELSE "choose")
    /\ UNCHANGED <<intr, exec, current, inhand, signals, sandboxes, queues, listener>>

\* remove_if_earlier: under the lock, the head leaves the queue if it is still earlier.
edf_remove_if_earlier(w) ==
    /\ pc[w] = "pull"
    /\ \/ \E s \in globalq :
            /\ IsGlobalHead(s)
            /\ EarlierThanLocal(s, w)
            /\ global_request_scheduler_remove(s)
            /\ inhand' = [inhand EXCEPT ![w] = s]
            /\ Goto(w, "prepare")
       \/ /\ \A s \in globalq : ~EarlierThanLocal(s, w)
          /\ Goto(w, "choose")
          /\ UNCHANGED <<globalq, inhand>>
    /\ UNCHANGED <<intr, exec, current, signals, sandboxes, runq, cleanup, listener>>

\* sandbox_prepare_execution_environment; get_next ignores its return code.
edf_prepare(w) ==
    /\ pc[w] = "prepare"
    /\ Goto(w, "dispatch")
    /\ LET s == inhand[w] IN
       \/ /\ ctxt' = [ctxt EXCEPT ![s] = "FAST"]
          /\ UNCHANGED <<state, http>>
       \/ /\ PrepareMayFail
          /\ SetState(s, "ERROR")
          /\ http_session_send_response(s, "500")
          /\ UNCHANGED ctxt
    /\ UNCHANGED <<intr, exec, current, inhand, signals, saved, absolute_deadline,
                   queues, listener>>

\* assert(global->state == SANDBOX_INITIALIZED), then sandbox_set_as_runnable.
edf_set_as_runnable(w) ==
    /\ pc[w] = "dispatch"
    /\ LET s == inhand[w] IN
       /\ state[s] = "INITIALIZED"
       /\ SetState(s, "RUNNABLE")
       /\ local_runqueue_add(w, s)
    /\ inhand' = [inhand EXCEPT ![w] = NULL]
    /\ Goto(w, "choose")
    /\ UNCHANGED <<intr, exec, current, signals, ctxt, saved, absolute_deadline, http,
                   globalq, cleanup, listener>>

-----------------------------------------------------------------------------
(***************************************************************************)
(* The idle loop and the cooperative scheduler.                            *)
(***************************************************************************)
\* One turn of the idle loop starts on the base context.
scheduler_idle_loop(w) ==
    /\ pc[w] = "idle"
    /\ Goto(w, "peek")
    /\ UNCHANGED <<intr, exec, current, inhand, signals, sandboxes, queues, listener>>

\* local_cleanup_queue_free, then pause() when it is enabled.
idle_cleanup(w) ==
    /\ pc[w] = "cleanup"
    /\ local_cleanup_queue_free(w)
    /\ Goto(w, IF SpinloopPause THEN "paused" ELSE "idle")
    /\ UNCHANGED <<intr, exec, current, inhand, signals, ctxt, saved, absolute_deadline,
                   http, globalq, runq, listener>>

\* An exiting sandbox enters the cooperative scheduler: current_sandbox_set(NULL).
scheduler_cooperative_sched(w) ==
    /\ pc[w] = "exit"
    /\ current' = [current EXCEPT ![w] = NULL]
    /\ Goto(w, "coop")
    /\ UNCHANGED <<intr, exec, inhand, signals, sandboxes, queues, listener>>

\* Then it drops deferred SIGALRMs and frees the sandboxes that exited before it.
cooperative_clear(w) ==
    /\ pc[w] = "coop"
    /\ software_interrupt_deferred_sigalrm_clear(w)
    /\ local_cleanup_queue_free(w)
    /\ Goto(w, "peek")
    /\ UNCHANGED <<intr, exec, current, inhand, pending, timer, targets, ctxt, saved,
                   absolute_deadline, http, globalq, runq, listener>>

\* What the idle loop and the cooperative scheduler do with get_next's answer.  An
\* exiting sandbox puts itself on the cleanup queue while still on its own stack.
cooperative_choose(w) ==
    /\ pc[w] = "choose"
    /\ intr[w] = "none"
    /\ cleanup' = [cleanup EXCEPT ![w] = @ \cup ExitingSandbox(w)]
    /\ \/ \E n \in runq[w] :
            /\ IsLocalHead(n, w)
            /\ current' = [current EXCEPT ![w] = n]
            /\ Goto(w, "switch")
       \/ /\ runq[w] = {}
          /\ Goto(w, IF exec[w] = Base THEN "cleanup" ELSE "switch")
          /\ UNCHANGED current
    /\ UNCHANGED <<intr, exec, inhand, signals, sandboxes, globalq, runq, listener>>

\* arch_context_switch to a sandbox that never ran: a plain jump.
cooperative_switch_fast(w) ==
    /\ pc[w] = "switch"
    /\ current[w] # NULL
    /\ LET n == current[w] IN
       /\ state[n] = "RUNNABLE"
       /\ SetState(n, "RUNNING_SYS")
       /\ ctxt' = [s \in Sandbox |-> CASE s = n -> "RUNNING"
                                       [] s # n /\ s = exec[w] -> "FAST"
                                       [] OTHER -> ctxt[s]]
       /\ exec' = [exec EXCEPT ![w] = n]
       /\ Goto(w, saved[n])
    /\ UNCHANGED <<intr, current, inhand, signals, saved, absolute_deadline, http,
                   queues, listener>>

\* arch_context_switch to a preempted sandbox: the thread sends itself SIGUSR1.
cooperative_switch_slow(w) ==
    /\ pc[w] = "switch"
    /\ current[w] # NULL
    /\ state[current[w]] = "PREEMPTED"
    /\ ctxt' = [s \in Sandbox |-> IF s = exec[w] THEN "FAST" ELSE ctxt[s]]
    /\ intr' = [intr EXCEPT ![w] = "switch"]
    /\ Goto(w, "sigusr1")
    /\ UNCHANGED <<exec, current, inhand, signals, state, saved, absolute_deadline, http,
                   queues, listener>>

\* Nothing to run: back to the idle loop, behind its own cooperative_switch_to.
scheduler_switch_to_base_context(w) ==
    /\ pc[w] = "switch"
    /\ current[w] = NULL
    /\ ctxt' = [s \in Sandbox |-> IF s = exec[w] THEN "FAST" ELSE ctxt[s]]
    /\ exec' = [exec EXCEPT ![w] = Base]
    /\ Goto(w, "cleanup")
    /\ UNCHANGED <<intr, current, inhand, signals, state, saved, absolute_deadline, http,
                   queues, listener>>

-----------------------------------------------------------------------------
(***************************************************************************)
(* Code that runs on the stack of a sandbox.                               *)
(***************************************************************************)
\* current_sandbox_init, or the end of a system call: sandbox_return makes the
\* sandbox preemptable before it looks at the deferred SIGALRMs.
sandbox_return(w) ==
    /\ pc[w] \in {"start", "sys"}
    /\ SetState(current[w], "RUNNING_USER")
    /\ Goto(w, "replay")
    /\ UNCHANGED <<intr, exec, current, inhand, signals, ctxt, saved, absolute_deadline,
                   http, queues, listener>>

\* software_interrupt_deferred_sigalrm_replay: the test ...
deferred_sigalrm_replay(w) ==
    /\ pc[w] = "replay"
    /\ Goto(w, IF deferred[w] THEN "clear" ELSE "user")
    /\ UNCHANGED <<intr, exec, current, inhand, signals, sandboxes, queues, listener>>

\* ... and the store; raise(SIGALRM) follows.
deferred_sigalrm_clear(w) ==
    /\ pc[w] = "clear"
    /\ software_interrupt_deferred_sigalrm_clear(w)
    /\ Goto(w, "raise")
    /\ UNCHANGED <<intr, exec, current, inhand, pending, timer, targets, sandboxes,
                   queues, listener>>

\* The module makes a system call ("sys"), returns from its entry point ("fini"),
\* or traps ("trap"): sandbox_syscall makes the sandbox non-preemptable first.
sandbox_syscall(w, label) ==
    /\ pc[w] = "user"
    /\ SetState(current[w], "RUNNING_SYS")
    /\ Goto(w, label)
    /\ UNCHANGED <<intr, exec, current, inhand, signals, ctxt, saved, absolute_deadline,
                   http, queues, listener>>

\* The sandbox leaves the run queue and its session goes back to the listener.
sandbox_set_as_returned(w) ==
    /\ pc[w] = "fini"
    /\ SetState(current[w], "RETURNED")
    /\ local_runqueue_delete(w, current[w])
    /\ http_session_send_response(current[w], "200")
    /\ Goto(w, "returned")
    /\ UNCHANGED <<intr, exec, current, inhand, signals, ctxt, saved, absolute_deadline,
                   globalq, cleanup, listener>>

sandbox_exit_success(w) ==
    /\ pc[w] = "returned"
    /\ SetState(current[w], "COMPLETE")
    /\ Goto(w, "exit")
    /\ UNCHANGED <<intr, exec, current, inhand, signals, ctxt, saved, absolute_deadline,
                   http, queues, listener>>

sandbox_exit_error(w) ==
    /\ pc[w] = "trap"
    /\ SetState(current[w], "ERROR")
    /\ local_runqueue_delete(w, current[w])
    /\ http_session_send_response(current[w], "500")
    /\ Goto(w, "exit")
    /\ UNCHANGED <<intr, exec, current, inhand, signals, ctxt, saved, absolute_deadline,
                   globalq, cleanup, listener>>

-----------------------------------------------------------------------------
(***************************************************************************)
(* Signals.                                                                *)
(***************************************************************************)
\* Entry of the SIGALRM handler at resume; ts are the workers to propagate to.
sigalrm_enter(w, resume, ts) ==
    /\ intr' = [intr EXCEPT ![w] = resume]
    /\ targets' = [targets EXCEPT ![w] = ts]
    /\ state' = IF current_sandbox_is_preemptable(w)
                THEN [state EXCEPT ![current[w]] = "INTERRUPTED"] ELSE state
    /\ Goto(w, "sigalrm")

\* The interval timer expires.
timer_expires ==
    /\ ~timer
    /\ timer' = TRUE
    /\ UNCHANGED <<control, deferred, pending, targets, sandboxes, queues, listener>>

\* The timer's SIGALRM (SI_KERNEL) is delivered to any one worker, which propagates
\* it.  pause() returns once the handler has.
sigalrm_kernel(w) ==
    /\ timer
    /\ intr[w] = "none"
    /\ timer' = FALSE
    /\ sigalrm_enter(w, IF pc[w] = "paused" THEN "idle" ELSE pc[w], Worker \ {w})
    /\ UNCHANGED <<exec, current, inhand, deferred, pending, ctxt, saved,
                   absolute_deadline, http, queues, listener>>

\* A SIGALRM another worker sent with pthread_kill (SI_TKILL) is not propagated.
sigalrm_tkill(w) ==
    /\ pending[w]
    /\ intr[w] = "none"
    /\ pending' = [pending EXCEPT ![w] = FALSE]
    /\ sigalrm_enter(w, IF pc[w] = "paused" THEN "idle" ELSE pc[w], {})
    /\ UNCHANGED <<exec, current, inhand, deferred, timer, ctxt, saved,
                   absolute_deadline, http, queues, listener>>

\* raise(SIGALRM) runs the handler before it returns to the sandbox.
sigalrm_raise(w) ==
    /\ pc[w] = "raise"
    /\ sigalrm_enter(w, "user", {})
    /\ UNCHANGED <<exec, current, inhand, deferred, pending, timer, ctxt, saved,
                   absolute_deadline, http, queues, listener>>

\* propagate_sigalrm: one other worker gets the signal, or is spared by TRIAGED.
propagate_sigalrm(w, v) ==
    /\ pc[w] = "sigalrm"
    /\ v \in targets[w]
    /\ targets' = [targets EXCEPT ![w] = @ \ {v}]
    /\ pending' = IF Triaged => scheduler_worker_would_preempt(v)
                  THEN [pending EXCEPT ![v] = TRUE] ELSE pending
    /\ UNCHANGED <<control, deferred, timer, sandboxes, queues, listener>>

\* After propagation: run the scheduler, do nothing, or defer the signal.
sigalrm_dispatch(w) ==
    /\ pc[w] = "sigalrm"
    /\ targets[w] = {}
    /\ \/ /\ current[w] # NULL
          /\ state[current[w]] = "INTERRUPTED"
          /\ Goto(w, "peek")
          /\ UNCHANGED <<intr, deferred>>
       \/ /\ current[w] = NULL
          /\ Goto(w, intr[w])
          /\ intr' = [intr EXCEPT ![w] = "none"]
          /\ UNCHANGED deferred
       \/ /\ current[w] # NULL
          /\ state[current[w]] # "INTERRUPTED"
          /\ defer_sigalrm(w)
          /\ Goto(w, intr[w])
          /\ intr' = [intr EXCEPT ![w] = "none"]
    /\ UNCHANGED <<exec, current, inhand, pending, timer, targets, sandboxes, queues,
                   listener>>

\* scheduler_preemptive_sched: the interrupted sandbox is still the head.
preemptive_resume(w) ==
    /\ pc[w] = "choose"
    /\ intr[w] # "none"
    /\ IsLocalHead(current[w], w)
    /\ SetState(current[w], "RUNNING_USER")
    /\ Goto(w, intr[w])
    /\ intr' = [intr EXCEPT ![w] = "none"]
    /\ UNCHANGED <<exec, current, inhand, signals, ctxt, saved, absolute_deadline, http,
                   queues, listener>>

\* The SLOW branch of preemptive_switch_to ends in sandbox_set_as_running_user, whose
\* replay raises a SIGALRM that stays pending until the handler returns.
replay_masked(w) ==
    /\ software_interrupt_deferred_sigalrm_clear(w)
    /\ pending' = [pending EXCEPT ![w] = @ \/ deferred[w]]

\* Otherwise it is preempted, its registers are saved, and the new head is restored.
preemptive_switch(w, n) ==
    /\ pc[w] = "choose"
    /\ intr[w] # "none"
    /\ IsLocalHead(n, w)
    /\ n # current[w]
    /\ saved' = [saved EXCEPT ![current[w]] = intr[w]]
    /\ ctxt' = [ctxt EXCEPT ![current[w]] = "SLOW", ![n] = "RUNNING"]
    /\ \/ /\ ctxt[n] = "FAST"
          /\ state' = [state EXCEPT ![current[w]] = "PREEMPTED", ![n] = "RUNNING_SYS"]
          /\ UNCHANGED <<deferred, pending>>
       \/ /\ ctxt[n] = "SLOW"
          /\ state' = [state EXCEPT ![current[w]] = "PREEMPTED", ![n] = "RUNNING_USER"]
          /\ replay_masked(w)
    /\ current' = [current EXCEPT ![w] = n]
    /\ exec' = [exec EXCEPT ![w] = n]
    /\ Goto(w, saved[n])
    /\ intr' = [intr EXCEPT ![w] = "none"]
    /\ UNCHANGED <<inhand, timer, targets, absolute_deadline, http, queues, listener>>

\* The SIGUSR1 handler restores the preempted sandbox cooperative_switch_slow chose.
sigusr1(w) ==
    /\ pc[w] = "sigusr1"
    /\ LET n == current[w] IN
       /\ ctxt' = [ctxt EXCEPT ![n] = "RUNNING"]
       /\ SetState(n, "RUNNING_USER")
       /\ replay_masked(w)
       /\ exec' = [exec EXCEPT ![w] = n]
       /\ Goto(w, saved[n])
    /\ intr' = [intr EXCEPT ![w] = "none"]
    /\ UNCHANGED <<current, inhand, timer, targets, saved, absolute_deadline, http,
                   queues, listener>>

-----------------------------------------------------------------------------
(***************************************************************************)
(* The specification.                                                      *)
(***************************************************************************)
ListenerStep == (\E s \in Sandbox, d \in Deadline : sandbox_alloc(s, d))
                  \/ global_request_scheduler_add

\* What a worker thread does by itself once it is given processor time.
WorkerStep(w) ==
    \/ edf_peek(w) \/ edf_remove_if_earlier(w) \/ edf_prepare(w) \/ edf_set_as_runnable(w)
    \/ scheduler_idle_loop(w) \/ idle_cleanup(w)
    \/ scheduler_cooperative_sched(w) \/ cooperative_clear(w) \/ cooperative_choose(w)
    \/ cooperative_switch_fast(w) \/ cooperative_switch_slow(w)
    \/ scheduler_switch_to_base_context(w)
    \/ sandbox_return(w) \/ deferred_sigalrm_replay(w) \/ deferred_sigalrm_clear(w)
    \/ sandbox_set_as_returned(w) \/ sandbox_exit_success(w) \/ sandbox_exit_error(w)
    \/ sigalrm_raise(w) \/ (\E v \in Worker : propagate_sigalrm(w, v))
    \/ sigalrm_dispatch(w) \/ preemptive_resume(w)
    \/ (\E n \in Sandbox : preemptive_switch(w, n)) \/ sigusr1(w)

\* What the WebAssembly module decides to do: call the runtime, return, or trap.  A
\* run may restrict the choice, for example to modules that never end.
UserStep(w) == \E label \in ModuleDoes : sandbox_syscall(w, label)

Next ==
    /\ ~Aborted
    /\ \/ ListenerStep
       \/ timer_expires
       \/ \E w \in Worker : WorkerStep(w) \/ UserStep(w) \/ sigalrm_kernel(w) \/ sigalrm_tkill(w)

Spec == Init /\ [][Next]_vars

\* Worker threads are pinned and never blocked, the kernel delivers pending signals,
\* the interval timer keeps expiring, the listener finishes the request it handles.
\* A handler run is short against the quantum, so a thread that is interrupted again and
\* again still gets on with the code the signals interrupt (strong fairness).  Nothing
\* is assumed of the WebAssembly modules.
Fairness ==
    /\ WF_vars(global_request_scheduler_add)
    /\ WF_vars(timer_expires)
    /\ WF_vars(\E w \in Worker : sigalrm_kernel(w))
    /\ \A w \in Worker :
        /\ WF_vars(WorkerStep(w))
        /\ SF_vars(intr[w] = "none" /\ WorkerStep(w))
        /\ WF_vars(sigalrm_tkill(w))

FairSpec == Spec /\ Fairness

\* Every module terminates: it cannot stay in its code for ever.
ModulesTerminate ==
    \A w \in Worker : SF_vars(sandbox_syscall(w, "fini") \/ sandbox_syscall(w, "trap"))

-----------------------------------------------------------------------------
(***************************************************************************)
(* Properties.                                                             *)
(***************************************************************************)
TypeOK ==
    /\ pc \in [Worker -> PC]
    /\ intr \in [Worker -> PC \cup {"none"}]
    /\ exec \in [Worker -> Sandbox \cup {Base}]
    /\ current \in [Worker -> Sandbox \cup {NULL}]
    /\ inhand \in [Worker -> Sandbox \cup {NULL}]
    /\ deferred \in [Worker -> BOOLEAN]
    /\ pending \in [Worker -> BOOLEAN]
    /\ timer \in BOOLEAN
    /\ targets \in [Worker -> SUBSET Worker]
    /\ state \in [Sandbox -> SandboxState]
    /\ ctxt \in [Sandbox -> Variant]
    /\ saved \in [Sandbox -> PC]
    /\ absolute_deadline \in [Sandbox -> Nat]
    /\ http \in [Sandbox -> {"none", "open", "200", "500"}]
    /\ globalq \in SUBSET Sandbox
    /\ runq \in [Worker -> SUBSET Sandbox]
    /\ cleanup \in [Worker -> SUBSET Sandbox]
    /\ lpc \in {"epoll", "add", "free"}
    /\ lhand \in Sandbox \cup {NULL}

\* The states in which a sandbox is on the run queue of its worker.
QueuedStates == {"RUNNABLE", "PREEMPTED", "RUNNING_SYS", "RUNNING_USER", "INTERRUPTED"}

\* Hand-over between threads (on_client_request_received, scheduler_edf_get_next,
\* sandbox_set_as_runnable, _returned, _error, local_cleanup_queue): a sandbox is held in
\* exactly one place for its state and by one worker only.  None is lost, none is shared.
OnePlace ==
    /\ \A s \in Sandbox :
        /\ state[s] = "INITIALIZED" =>
               s \in globalq \/ s = lhand \/ \E w \in Worker : inhand[w] = s
        /\ state[s] \in QueuedStates <=> \E w \in Worker : s \in runq[w]
        /\ state[s] \in {"RETURNED", "COMPLETE", "ERROR"} =>
               \E w \in Worker : exec[w] = s \/ s \in cleanup[w] \/ inhand[w] = s
    /\ \A s \in globalq : state[s] = "INITIALIZED" /\ s # lhand
    /\ \A w \in Worker :
        /\ inhand[w] # NULL => inhand[w] \notin globalq \cup {lhand}
        /\ \A v \in Worker \ {w} :
            /\ runq[w] \cap runq[v] = {}
            /\ cleanup[w] \cap cleanup[v] = {}
            /\ inhand[w] # NULL => inhand[w] # inhand[v]

\* Mutual exclusion on a sandbox: two workers never execute on the same stack or have
\* the same current sandbox, and a sandbox in a running state is the current sandbox of
\* the worker whose run queue holds it (cooperative_switch_to, preemptive_switch_to).
RunningIsCurrent ==
    /\ \A v, w \in Worker : v # w =>
        /\ current[w] # NULL => current[v] # current[w]
        /\ exec[w] # Base => exec[v] # exec[w]
    /\ \A s \in Sandbox : state[s] \in {"RUNNING_SYS", "RUNNING_USER", "INTERRUPTED"} =>
        \E w \in Worker : current[w] = s /\ s \in runq[w]

\* No thread executes on the stack of a freed sandbox, although an exiting sandbox joins
\* the cleanup queue before the thread has left its stack (scheduler_cooperative_sched:
\* "Do not touch sandbox struct after this point!"), and a freed sandbox is in no queue.
StackAlive ==
    \A w \in Worker :
        /\ exec[w] # Base => state[exec[w]] # "FREED"
        /\ \A s \in runq[w] \cup cleanup[w] : state[s] # "FREED"

\* The asserts of the scheduler, of the context switch, of the signal handler and of
\* sandbox_free hold wherever a signal may have interrupted the thread: no deferred
\* SIGALRM survives into the idle loop, SIGUSR1 finds a PREEMPTED sandbox with a saved
\* context, get_next answers the handler, a finishing sandbox is on the run queue.
WorkerAsserts(w) ==
    /\ pc[w] = "idle" => current[w] = NULL /\ ~deferred[w]
    /\ pc[w] \in {"exit", "returned"} \cup SysPC => current[w] # NULL
    /\ pc[w] \in SysPC => state[current[w]] = "RUNNING_SYS" /\ current[w] \in runq[w]
    /\ pc[w] = "user" => state[current[w]] = "RUNNING_USER"
    /\ pc[w] \in {"cleanup", "coop"} => \A s \in cleanup[w] : MayBeFreed(s) /\ s # current[w]
    /\ pc[w] = "choose" /\ intr[w] # "none" =>
           state[current[w]] = "INTERRUPTED" /\ runq[w] # {} /\ ctxt[current[w]] = "RUNNING"
    /\ \A n \in runq[w] : pc[w] = "choose" /\ IsLocalHead(n, w) /\ n # current[w] =>
           \/ state[n] = "RUNNABLE" /\ ctxt[n] = "FAST"
           \/ state[n] = "PREEMPTED" /\ ctxt[n] = "SLOW"
    /\ pc[w] = "switch" => exec[w] # current[w] /\ (exec[w] # Base => ctxt[exec[w]] = "RUNNING")
    /\ pc[w] = "sigusr1" =>
           current[w] # NULL /\ state[current[w]] = "PREEMPTED" /\ ctxt[current[w]] = "SLOW"

AssertionsHold == \A w \in Worker : WorkerAsserts(w)

\* Earliest deadline first on a worker: whatever runs has a strictly earlier deadline
\* than everything else on its run queue.  It is why deleting a finished sandbox from
\* the heap always deletes the root (local_runqueue_minheap_delete).
RunsEarliest ==
    \A w \in Worker : current[w] # NULL =>
        (state[current[w]] \in {"RUNNING_SYS", "RUNNING_USER"} =>
            \A t \in runq[w] \ {current[w]} : absolute_deadline[current[w]] < absolute_deadline[t])

\* Module code never runs with a SIGALRM left deferred: each one that hit a
\* non-preemptable section is replayed (or dropped with the sandbox) before it.
NoDeferredInUserCode ==
    \A w \in Worker : pc[w] = "user" \/ intr[w] = "user" => ~deferred[w]

\* Once a sandbox is on a worker's run queue no other worker ever gets it.
NoMigration ==
    [][\A s \in Sandbox, v, w \in Worker : s \in runq[w] /\ v # w => s \notin runq'[v]]_vars

\* A sandbox is preempted only in favour of one with a strictly earlier deadline on the
\* same worker, so two sandboxes never preempt each other in turn.
PreemptedByEarlier ==
    [][\A s \in Sandbox : state[s] # "PREEMPTED" /\ state'[s] = "PREEMPTED" =>
        \E w \in Worker : /\ current[w] = s
                          /\ current'[w] # NULL
                          /\ absolute_deadline[current'[w]] < absolute_deadline[s]]_vars

\* A client gets one answer: it is given once, never changed, and never missing when the
\* sandbox is freed.
AnsweredOnce ==
    [][\A s \in Sandbox : /\ http[s] \in {"200", "500"} => http'[s] = http[s]
                          /\ state'[s] = "FREED" => http[s] \in {"200", "500"}]_vars

\* The runtime implements the life cycle: the documented transitions only, one owner per
\* sandbox, one running sandbox per worker.
Lifecycle == INSTANCE SandboxLifecycle
    WITH owner <- [s \in Sandbox |-> {w \in Worker : s \in runq[w]}]
ImplementsLifecycle == Lifecycle!Spec

\* A queued sandbox with the earliest deadline of all is picked up even if no module
\* ever returns or every module keeps making system calls: preemption, propagation and
\* deferral together lose no opportunity for good.
MostUrgent(s) ==
    /\ s \in globalq
    /\ \A t \in (globalq \cup UNION {runq[w] : w \in Worker}) \ {s} :
        absolute_deadline[s] < absolute_deadline[t]
UrgentIsPickedUp == \A s \in Sandbox : MostUrgent(s) ~> ~MostUrgent(s)

\* A queued sandbox does not wait while some worker has nothing to do, even if that
\* worker sleeps in pause() and the timer's signal always hits a busy worker.
IdleWorkerPicksUp ==
    \A s \in Sandbox :
        (s \in globalq /\ \E w \in Worker : runq[w] = {})
            ~> (s \notin globalq \/ \A w \in Worker : runq[w] # {})

\* If modules terminate, every sandbox the listener allocates is run and answered.
EveryRequestAnswered ==
    ModulesTerminate => \A s \in Sandbox : state[s] = "INITIALIZED" ~> http[s] \in {"200", "500"}

\* "If the global request scheduler is full, return a 429 to the client": the listener
\* frees the sandbox it could not queue, so it must be one that sandbox_free accepts.
FullQueueIsRefused == lpc = "free" => MayBeFreed(lhand)

=============================================================================
