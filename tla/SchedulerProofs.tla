--------------------------- MODULE SchedulerProofs --------------------------
(***************************************************************************)
(* The invariant of Scheduler is inductive, and the safety properties      *)
(* follow from it for every value of the constants.                        *)
(*                                                                         *)
(* The first lemmas say what the invariant means at each program point,    *)
(* and that a step of one worker leaves alone what the others hold: the    *)
(* argument that reduces the proof of every part of the invariant to the   *)
(* thread that steps.  Then one lemma per part of the invariant: about     *)
(* that thread, about the structures that hold the sandboxes, and about    *)
(* the sandboxes it holds itself.  Each of these lemmas first names the    *)
(* few forms of change the actions make, and what each form preserves;     *)
(* then one step per action says which form it has.                        *)
(***************************************************************************)
EXTENDS SchedulerInvariant, TLAPS

\* First-order steps go to Zenon; the few that need arithmetic or sets of functions say SMT.
USE ZenonT(60)

-----------------------------------------------------------------------------
(***************************************************************************)
(* What the inductive invariant says of a thread at each program point.    *)
(***************************************************************************)
\* In module code, and in the replay of deferred signals that precedes it.
LEMMA UserView ==
    ASSUME IInv, NEW w \in Worker, pc[w] \in UserPC
    PROVE  /\ intr[w] = "none"
           /\ current[w] \in Sandbox /\ exec[w] = current[w]
           /\ current[w] \in runq[w] /\ state[current[w]] = "RUNNING_USER"
           /\ pc[w] \in {"raise", "user"} => ~deferred[w]
  BY DEF IInv, ControlInv, ThreadInv, SignalInv, Signal, Thread, Pos, BasePC, GetNextPC, UserPC,
         SysPC, HandlerPC, Dispatch

\* In the runtime on behalf of the module.
LEMMA SysView ==
    ASSUME IInv, NEW w \in Worker, pc[w] \in SysPC
    PROVE  /\ intr[w] = "none"
           /\ current[w] \in Sandbox /\ exec[w] = current[w]
           /\ current[w] \in runq[w] /\ state[current[w]] = "RUNNING_SYS"
  BY DEF IInv, ControlInv, ThreadInv, Thread, Pos, GetNextPC, UserPC, SysPC, HandlerPC,
         Dispatch

\* After the entry point returned or trapped, until the cooperative scheduler is left.
LEMMA EndView ==
    ASSUME IInv, NEW w \in Worker, pc[w] \in {"returned", "exit", "coop"}
    PROVE  /\ intr[w] = "none" /\ exec[w] \in Sandbox
           /\ pc[w] = "returned" => state[exec[w]] = "RETURNED"
           /\ pc[w] \in {"exit", "coop"} => state[exec[w]] \in Terminal
           /\ current[w] = IF pc[w] = "coop" THEN NULL ELSE exec[w]
           /\ exec[w] \notin cleanup[w]
  BY SMT DEF IInv, ControlInv, ThreadInv, Thread, Pos, GetNextPC, HandlerPC, Dispatch,
         OnEndedStack, PlaceInv, Global, Place, Disjoint

\* In scheduler_get_next, called by the SIGALRM handler.
LEMMA PreemptView ==
    ASSUME IInv, NEW w \in Worker, pc[w] \in Dispatch, intr[w] # "none"
    PROVE  /\ intr[w] \in UserPC
           /\ current[w] \in Sandbox /\ exec[w] = current[w]
           /\ current[w] \in runq[w] /\ state[current[w]] = "INTERRUPTED"
           /\ intr[w] \in {"raise", "user"} => ~deferred[w]
  BY DEF IInv, ControlInv, ThreadInv, SignalInv, Signal, Thread, Pos, BasePC, GetNextPC, UserPC,
         HandlerPC, Dispatch

\* In scheduler_get_next, called by the idle loop or the cooperative scheduler.
LEMMA CooperativeView ==
    ASSUME IInv, NEW w \in Worker, pc[w] \in Dispatch, intr[w] = "none"
    PROVE  /\ current[w] = NULL /\ ~deferred[w]
           /\ exec[w] = Base \/ (exec[w] \in Sandbox /\ state[exec[w]] \in Terminal)
           /\ exec[w] \notin cleanup[w]
  BY SMT DEF IInv, ControlInv, ThreadInv, SignalInv, Signal, Thread, Pos, BasePC, GetNextPC, UserPC,
         HandlerPC, Dispatch, OnEndedStack, PlaceInv, Global, Place, Disjoint

\* On the base context.
LEMMA BaseView ==
    ASSUME IInv, NEW w \in Worker, pc[w] \in BasePC
    PROVE  intr[w] = "none" /\ exec[w] = Base /\ current[w] = NULL /\ ~deferred[w]
  BY DEF IInv, ControlInv, ThreadInv, SignalInv, Signal, Thread, Pos, BasePC, GetNextPC, UserPC,
         HandlerPC, Dispatch

\* About to leave a stack, with or without the SIGUSR1 that restores a saved context.
LEMMA SwitchView ==
    ASSUME IInv, NEW w \in Worker, pc[w] \in {"switch", "sigusr1"}
    PROVE  /\ pc[w] = "switch" => intr[w] = "none"
           /\ pc[w] = "sigusr1" =>
                intr[w] = "switch" /\ current[w] # NULL /\ state[current[w]] = "PREEMPTED"
           /\ exec[w] # Base =>
                exec[w] \in Sandbox /\ state[exec[w]] \in Terminal /\ exec[w] \in cleanup[w]
           /\ current[w] = NULL => exec[w] # Base /\ ~deferred[w]
           /\ current[w] # NULL =>
                /\ current[w] \in Sandbox /\ current[w] \in runq[w]
                /\ state[current[w]] \in {"RUNNABLE", "PREEMPTED"}
                /\ current[w] # exec[w]
  BY NamesAssumption, SMT
     DEF IInv, TypeOK, ControlInv, ThreadInv, SignalInv, Signal, Thread, Pos, GetNextPC, HandlerPC,
         Dispatch, OnEndedStack, Terminal

\* In the SIGALRM handler, before it calls the scheduler.
LEMMA AlarmView ==
    ASSUME IInv, NEW w \in Worker, pc[w] = "sigalrm"
    PROVE  /\ intr[w] \in PC \ (HandlerPC \cup {"paused"}) /\ intr[w] # "none"
           /\ Thread(w, intr[w]) /\ Signal(w)
           /\ intr[w] \in UserPC <=> current[w] # NULL /\ state[current[w]] = "INTERRUPTED"
           /\ current[w] # NULL /\ state[current[w]] # "INTERRUPTED" =>
                intr[w] \notin BasePC \cup Dispatch \cup UserPC
  <1>1. intr[w] \in PC \ (HandlerPC \cup {"paused"})
    BY DEF IInv, TypeOK, ControlInv, HandlerPC
  <1>2. Pos(w) = intr[w] /\ Thread(w, intr[w]) /\ intr[w] # "none"
    BY DEF IInv, ControlInv, ThreadInv, Pos, HandlerPC
  <1>3. intr[w] \in UserPC => current[w] # NULL /\ state[current[w]] = "INTERRUPTED"
    BY <1>2, NamesAssumption DEF Thread
  <1>4. current[w] # NULL /\ state[current[w]] = "INTERRUPTED" => intr[w] \in UserPC
    BY <1>1, <1>2 DEF Thread, PC, BasePC, GetNextPC, SysPC, Dispatch, OnEndedStack, Terminal
  <1>5. Signal(w) BY DEF IInv, SignalInv
  <1>6. current[w] # NULL => intr[w] \notin BasePC \cup Dispatch BY <1>2 DEF Thread
  <1> QED BY <1>1, <1>2, <1>3, <1>4, <1>5, <1>6

\* The current sandbox is the one the thread executes, or waits on the worker's run
\* queue to be switched to.
LEMMA CurrentView ==
    ASSUME IInv, NEW w \in Worker, current[w] # NULL
    PROVE  /\ \/ current[w] = exec[w] /\ state[current[w]] \notin {"RUNNABLE", "PREEMPTED"}
              \/ current[w] \in runq[w] /\ state[current[w]] \in {"RUNNABLE", "PREEMPTED"}
           /\ current[w] \in Sandbox
           /\ exec[w] = current[w] \/ exec[w] \in cleanup[w] \/ exec[w] = Base
  <1>1. Thread(w, Pos(w)) BY DEF IInv, ThreadInv
  <1>2. Pos(w) \in PC \ HandlerPC BY DEF IInv, TypeOK, ControlInv, Pos, HandlerPC
  <1> QED BY <1>1, <1>2, NamesAssumption
          DEF IInv, TypeOK, Thread, PC, BasePC, GetNextPC, UserPC, SysPC, HandlerPC, Dispatch,
              OnEndedStack, Terminal

\* Two workers never have the same current sandbox.
LEMMA CurrentDistinct ==
    ASSUME IInv, NEW v \in Worker, NEW w \in Worker, v # w, current[v] # NULL
    PROVE  current[v] # current[w]
  <1> SUFFICES ASSUME current[v] = current[w] PROVE FALSE OBVIOUS
  <1>1. current[v] \in Sandbox /\ current[v] # Base BY CurrentView, NamesAssumption
  <1>2. exec[v] # Base => exec[v] # exec[w] BY SMT DEF IInv, PlaceInv, Global, Place, Disjoint
  <1>3. ~(current[v] \in runq[v] /\ current[v] \in runq[w])
    BY <1>1 DEF IInv, PlaceInv, Global, Place, Disjoint
  <1> QED BY <1>1, <1>2, <1>3, CurrentView

\* What get_next has in hand; unless the process aborts it can be dispatched.
LEMMA InHandView ==
    ASSUME IInv, NEW w \in Worker, inhand[w] # NULL \/ pc[w] \in {"prepare", "dispatch"}
    PROVE  /\ inhand[w] \in Sandbox /\ inhand[w] # NULL
           /\ ~Aborted => state[inhand[w]] = "INITIALIZED"
  <1>1. inhand[w] \in Sandbox /\ inhand[w] # NULL
    BY NamesAssumption DEF IInv, TypeOK, ControlInv, At
  <1> QED BY <1>1 DEF IInv, PlaceInv, Global, Place, Disjoint, Aborted

\* A thread executes on the stack of a sandbox that has started and is not freed.
LEMMA ExecView ==
    ASSUME IInv, NEW w \in Worker, exec[w] # Base
    PROVE  /\ exec[w] \in Sandbox
           /\ \/ state[exec[w]] \in {"RETURNED", "COMPLETE", "ERROR"}
              \/ /\ state[exec[w]] \in {"RUNNING_SYS", "RUNNING_USER", "INTERRUPTED"}
                 /\ exec[w] = current[w] /\ exec[w] \in runq[w]
  <1>1. Thread(w, Pos(w)) BY DEF IInv, ThreadInv
  <1>2. Pos(w) \in PC \ HandlerPC BY DEF IInv, TypeOK, ControlInv, Pos, HandlerPC
  <1> QED BY <1>1, <1>2, NamesAssumption
          DEF IInv, TypeOK, Thread, PC, BasePC, GetNextPC, UserPC, SysPC, HandlerPC, Dispatch,
              OnEndedStack, Terminal

\* The sandboxes only worker w may touch.
Holds(w, s) == s \in runq[w] \/ s \in cleanup[w] \/ s = exec[w] \/ s = inhand[w]

\* What a worker holds is not held by another one, nor current there.
LEMMA Apart ==
    ASSUME IInv, ~Aborted, NEW v \in Worker, NEW w \in Worker, v # w,
           NEW s \in Sandbox, Holds(w, s)
    PROVE  s # current[v] /\ ~Holds(v, s)
  <1>1. s # Base /\ s # NULL BY NamesAssumption
  <1>2. ASSUME NEW x \in Worker, s = exec[x]
        PROVE  \/ state[s] \in {"RETURNED", "COMPLETE", "ERROR"}
               \/ s \in runq[x] /\ state[s] \in {"RUNNING_SYS", "RUNNING_USER", "INTERRUPTED"}
    BY <1>1, <1>2, ExecView
  <1>3. ASSUME NEW x \in Worker
        PROVE  /\ s \in runq[x] => state[s] \in QueuedStates
               /\ s \in cleanup[x] => state[s] \in {"COMPLETE", "ERROR"}
               /\ s = inhand[x] => state[s] = "INITIALIZED"
    BY <1>1, InHandView DEF IInv, PlaceInv, Global, Place, Disjoint, Terminal
  <1>4. /\ ~(s \in runq[v] /\ s \in runq[w]) /\ ~(s \in cleanup[v] /\ s \in cleanup[w])
        /\ ~(s = exec[v] /\ s = exec[w]) /\ ~(s = inhand[v] /\ s = inhand[w])
        /\ ~(s = exec[v] /\ s \in cleanup[w]) /\ ~(s = exec[w] /\ s \in cleanup[v])
    BY <1>1, SMT DEF IInv, PlaceInv, Global, Place, Disjoint
  <1>5. ~Holds(v, s) BY <1>2, <1>3, <1>4 DEF Holds, QueuedStates
  <1>6. s # current[v] BY <1>1, <1>5, CurrentView DEF Holds
  <1> QED BY <1>5, <1>6

\* The other sandboxes of a run queue are ready to be switched to.
LEMMA WaitingView ==
    ASSUME IInv, NEW w \in Worker, NEW n \in runq[w], n # current[w]
    PROVE  /\ n \in Sandbox
           /\ \/ state[n] = "RUNNABLE" /\ ctxt[n] = "FAST" /\ saved[n] = "start"
              \/ state[n] = "PREEMPTED" /\ ctxt[n] = "SLOW" /\ saved[n] \in UserPC
  <1>1. n \in Sandbox /\ state[n] \in QueuedStates
    BY DEF IInv, TypeOK, PlaceInv, Global, Place, Disjoint
  <1> QED BY <1>1 DEF IInv, ContextInv, Saved, Context, QueuedStates

\* A sandbox that waits to be switched to has a saved context of the right kind.
LEMMA ReadyView ==
    ASSUME IInv, NEW n \in Sandbox
    PROVE  /\ state[n] = "RUNNABLE" => ctxt[n] = "FAST" /\ saved[n] = "start"
           /\ state[n] = "PREEMPTED" => ctxt[n] = "SLOW" /\ saved[n] \in UserPC
  BY DEF IInv, ContextInv, Saved, Context

\* A thread no handler runs on: a signal can interrupt it anywhere, and the sandbox is
\* preemptable exactly in module code and in the replay of deferred signals.
LEMMA InterruptView ==
    ASSUME IInv, NEW w \in Worker, intr[w] = "none"
    PROVE  /\ pc[w] \in PC \ HandlerPC /\ pc[w] # "none" /\ Thread(w, pc[w]) /\ Signal(w)
           /\ pc[w] \in UserPC <=> current[w] # NULL /\ state[current[w]] = "RUNNING_USER"
           /\ current[w] # NULL => current[w] \in Sandbox
  <1>1. pc[w] \in PC \ HandlerPC /\ Thread(w, pc[w])
    BY DEF IInv, TypeOK, ControlInv, ThreadInv, Pos
  <1>2. pc[w] \in UserPC => current[w] # NULL /\ state[current[w]] = "RUNNING_USER"
    BY <1>1, NamesAssumption DEF Thread
  <1>3. current[w] # NULL /\ state[current[w]] = "RUNNING_USER" => pc[w] \in UserPC
    BY <1>1 DEF Thread, PC, BasePC, GetNextPC, SysPC, HandlerPC, Dispatch, OnEndedStack, Terminal
  <1>4. pc[w] # "none" BY <1>1 DEF PC, BasePC, GetNextPC, SysPC, UserPC, HandlerPC
  <1>5. Signal(w) BY DEF IInv, SignalInv
  <1> QED BY <1>1, <1>2, <1>3, <1>4, <1>5, CurrentView

\* A step of worker w concerns w, the sandboxes it holds and the global queue only.
LocalTo(w) ==
    /\ \A v \in Worker : v # w =>
        /\ pc'[v] = pc[v] /\ intr'[v] = intr[v] /\ exec'[v] = exec[v]
        /\ current'[v] = current[v] /\ inhand'[v] = inhand[v] /\ deferred'[v] = deferred[v]
        /\ runq'[v] = runq[v] /\ cleanup'[v] = cleanup[v]
    /\ \A s \in Sandbox : ~Holds(w, s) =>
        state'[s] = state[s] /\ ctxt'[s] = ctxt[s] /\ saved'[s] = saved[s] /\ http'[s] = http[s]
    /\ \A s \in Sandbox : Holds(w, s)' => Holds(w, s) \/ s \in globalq
    /\ globalq' \subseteq globalq
    /\ UNCHANGED <<absolute_deadline, lpc, lhand>>

\* Every step of a worker is local to it.
LEMMA Locality ==
    ASSUME IInv, NEW w \in Worker, Step(w)
    PROVE  LocalTo(w)
  <1> TypeOK BY DEF IInv
  <1> USE NamesAssumption, OptionsAssumption
        DEF TypeOK, LocalTo, Holds, Goto, SetState, control, signals, sandboxes, queues, listener,
            BasePC, GetNextPC, UserPC, SysPC, Dispatch
  <1>1. CASE edf_peek(w)
    BY <1>1 DEF edf_peek
  <1>2. CASE edf_remove_if_earlier(w)
    BY <1>2, SMT DEF edf_remove_if_earlier, global_request_scheduler_remove
  <1>3. CASE edf_prepare(w)
    BY <1>3, InHandView, SMT DEF edf_prepare, http_session_send_response
  <1>4. CASE edf_set_as_runnable(w)
    BY <1>4, InHandView DEF edf_set_as_runnable, local_runqueue_add
  <1>5. CASE scheduler_idle_loop(w)
    BY <1>5, BaseView DEF scheduler_idle_loop
  <1>6. CASE idle_cleanup(w)
    BY <1>6, BaseView DEF idle_cleanup, local_cleanup_queue_free
  <1>7. CASE scheduler_cooperative_sched(w)
    BY <1>7, EndView, SMT DEF scheduler_cooperative_sched
  <1>8. CASE cooperative_clear(w)
    BY <1>8, EndView, SMT DEF cooperative_clear, software_interrupt_deferred_sigalrm_clear,
        local_cleanup_queue_free
  <1>9. CASE cooperative_choose(w)
    BY <1>9, CooperativeView, SMT DEF cooperative_choose, ExitingSandbox
  <1>10. CASE cooperative_switch_fast(w)
    BY <1>10, SwitchView, SMT DEF cooperative_switch_fast
  <1>11. CASE cooperative_switch_slow(w)
    BY <1>11, SwitchView, SMT DEF cooperative_switch_slow
  <1>12. CASE scheduler_switch_to_base_context(w)
    BY <1>12, SwitchView, SMT DEF scheduler_switch_to_base_context
  <1>13. CASE sandbox_return(w)
    BY <1>13, SysView, SMT DEF sandbox_return
  <1>14. CASE deferred_sigalrm_replay(w)
    BY <1>14, UserView, SMT DEF deferred_sigalrm_replay
  <1>15. CASE deferred_sigalrm_clear(w)
    BY <1>15, UserView, SMT DEF deferred_sigalrm_clear, software_interrupt_deferred_sigalrm_clear
  <1>16. ASSUME NEW l \in ModuleDoes, sandbox_syscall(w, l) PROVE LocalTo(w)
    BY <1>16, UserView, SMT DEF sandbox_syscall
  <1>17. CASE sandbox_set_as_returned(w)
    BY <1>17, SysView, SMT DEF sandbox_set_as_returned, local_runqueue_delete,
        http_session_send_response
  <1>18. CASE sandbox_exit_success(w)
    BY <1>18, EndView, SMT DEF sandbox_exit_success
  <1>19. CASE sandbox_exit_error(w)
    BY <1>19, SysView, SMT DEF sandbox_exit_error, local_runqueue_delete,
        http_session_send_response
  <1>20. CASE sigalrm_kernel(w)
    BY <1>20, CurrentView, SMT DEF sigalrm_kernel, sigalrm_enter, current_sandbox_is_preemptable
  <1>21. CASE sigalrm_tkill(w)
    BY <1>21, CurrentView, SMT DEF sigalrm_tkill, sigalrm_enter, current_sandbox_is_preemptable
  <1>22. CASE sigalrm_raise(w)
    BY <1>22, CurrentView, SMT DEF sigalrm_raise, sigalrm_enter, current_sandbox_is_preemptable
  <1>23. ASSUME NEW v \in Worker, propagate_sigalrm(w, v) PROVE LocalTo(w)
    BY <1>23 DEF propagate_sigalrm
  <1>24. CASE sigalrm_dispatch(w)
    BY <1>24, AlarmView, SMT DEF sigalrm_dispatch, defer_sigalrm
  <1>25. CASE preemptive_resume(w)
    BY <1>25, PreemptView, SMT DEF preemptive_resume
  <1>26. ASSUME NEW n \in Sandbox, preemptive_switch(w, n) PROVE LocalTo(w)
    BY <1>26, PreemptView, SMT DEF preemptive_switch, replay_masked,
        software_interrupt_deferred_sigalrm_clear, IsLocalHead
  <1>27. CASE sigusr1(w)
    BY <1>27, SwitchView, SMT DEF sigusr1, replay_masked,
        software_interrupt_deferred_sigalrm_clear
  <1> QED
    BY <1>1, <1>2, <1>3, <1>4, <1>5, <1>6, <1>7, <1>8, <1>9, <1>10, <1>11, <1>12, <1>13,
       <1>14, <1>15, <1>16, <1>17, <1>18, <1>19, <1>20, <1>21, <1>22, <1>23, <1>24, <1>25,
       <1>26, <1>27 DEF Step, WorkerStep, UserStep

\* What the listener or the global queue holds is held by no worker.
LEMMA Unclaimed ==
    ASSUME IInv, NEW w \in Worker, NEW s \in Sandbox, s \in globalq \/ s = lhand
    PROVE  state[s] = "INITIALIZED" /\ s # current[w] /\ ~Holds(w, s)
  <1>1. s # Base /\ s # NULL BY NamesAssumption
  <1>2. state[s] = "INITIALIZED" BY <1>1 DEF IInv, PlaceInv, Global
  <1>3. s # exec[w] BY <1>1, <1>2, ExecView
  <1>4. s \notin runq[w] /\ s \notin cleanup[w] /\ s # inhand[w]
    BY <1>1, <1>2, SMT DEF IInv, PlaceInv, Place, QueuedStates, Terminal
  <1>5. s # current[w] BY <1>1, <1>2, <1>3, CurrentView
  <1> QED BY <1>2, <1>3, <1>4, <1>5 DEF Holds

\* What a worker holds is left alone by the steps of the others.
LEMMA Frame ==
    ASSUME IInv, ~Aborted, NEW v \in Worker, NEW w \in Worker, v # w, LocalTo(w),
           NEW s \in Sandbox, Holds(v, s) \/ s = current[v] \/ s \in globalq \/ s = lhand
    PROVE  /\ ~Holds(w, s)
           /\ state'[s] = state[s] /\ ctxt'[s] = ctxt[s]
           /\ saved'[s] = saved[s] /\ http'[s] = http[s]
  <1>1. CASE Holds(v, s) \/ s = current[v]
    BY <1>1, Apart DEF LocalTo
  <1>2. CASE s \in globalq \/ s = lhand
    BY <1>2, Unclaimed DEF LocalTo
  <1> QED BY <1>1, <1>2

-----------------------------------------------------------------------------
(***************************************************************************)
(* What a step of a worker does to the worker itself: types, the nesting   *)
(* of handlers, the program point and the deferred signals.                *)
(***************************************************************************)
\* A step of a worker keeps every variable in its type.
LEMMA TypeOwn ==
    ASSUME IInv, ~Aborted, NEW w \in Worker, Step(w)
    PROVE  TypeOK'
  <1>c. /\ pc \in [Worker -> PC] /\ intr \in [Worker -> PC \cup {"none"}]
        /\ exec \in [Worker -> Sandbox \cup {Base}]
        /\ current \in [Worker -> Sandbox \cup {NULL}] /\ inhand \in [Worker -> Sandbox \cup {NULL}]
    BY DEF IInv, TypeOK
  <1>g. /\ deferred \in [Worker -> BOOLEAN] /\ pending \in [Worker -> BOOLEAN]
        /\ timer \in BOOLEAN /\ targets \in [Worker -> SUBSET Worker]
    BY DEF IInv, TypeOK
  <1>b. /\ state \in [Sandbox -> SandboxState] /\ ctxt \in [Sandbox -> Variant]
        /\ saved \in [Sandbox -> PC] /\ absolute_deadline \in [Sandbox -> Nat]
        /\ http \in [Sandbox -> {"none", "open", "200", "500"}]
    BY DEF IInv, TypeOK
  <1>q. /\ globalq \in SUBSET Sandbox
        /\ runq \in [Worker -> SUBSET Sandbox] /\ cleanup \in [Worker -> SUBSET Sandbox]
    BY DEF IInv, TypeOK
  <1>l. lpc \in {"epoll", "add", "free"} /\ lhand \in Sandbox \cup {NULL} BY DEF IInv, TypeOK
  \* What an update keeps in its type.
  <1>p. /\ \A p \in PC : Goto(w, p) => pc' \in [Worker -> PC]
        /\ \A p \in PC \cup {"none"} : intr' = [intr EXCEPT ![w] = p] => intr' \in [Worker -> PC \cup {"none"}]
    BY <1>c DEF Goto
  <1>s. \A n : \A x \in SandboxState : SetState(n, x) => state' \in [Sandbox -> SandboxState]
    BY <1>b DEF SetState
  <1>h. \A n : \A x \in {"200", "500"} : http_session_send_response(n, x) =>
               http' \in [Sandbox -> {"none", "open", "200", "500"}]
    BY <1>b DEF http_session_send_response
  <1>e. \A n \in Sandbox : exec' = [exec EXCEPT ![w] = n] => exec' \in [Worker -> Sandbox \cup {Base}]
    BY <1>c
  <1>d. /\ local_runqueue_delete(w, current[w]) => runq' \in [Worker -> SUBSET Sandbox]
        /\ software_interrupt_deferred_sigalrm_clear(w) => deferred' \in [Worker -> BOOLEAN]
    BY <1>g, <1>q DEF local_runqueue_delete, software_interrupt_deferred_sigalrm_clear
  <1>f. local_cleanup_queue_free(w) =>
          state' \in [Sandbox -> SandboxState] /\ cleanup' \in [Worker -> SUBSET Sandbox]
    BY <1>b, <1>q DEF local_cleanup_queue_free, SandboxState
  <1>m. replay_masked(w) => deferred' \in [Worker -> BOOLEAN] /\ pending' \in [Worker -> BOOLEAN]
    <2> SUFFICES ASSUME replay_masked(w)
                 PROVE  deferred' \in [Worker -> BOOLEAN] /\ pending' \in [Worker -> BOOLEAN]
      OBVIOUS
    <2>1. (pending[w] \/ deferred[w]) \in BOOLEAN OBVIOUS
    <2>2. pending' = [pending EXCEPT ![w] = pending[w] \/ deferred[w]] BY DEF replay_masked
    <2> QED BY <1>d, <1>g, <2>1, <2>2 DEF replay_masked
  <1>k. /\ {"idle", "cleanup", "paused", "peek", "pull", "prepare", "dispatch", "choose", "switch",
            "coop", "exit", "returned", "replay", "clear", "raise", "user", "sigalrm",
            "sigusr1", "start"} \subseteq PC
        /\ ModuleDoes \subseteq PC
    BY OptionsAssumption DEF PC, BasePC, GetNextPC, UserPC, SysPC, HandlerPC
  <1>v. \A r \in PC, ts \in SUBSET Worker : sigalrm_enter(w, r, ts) =>
          /\ pc' \in [Worker -> PC] /\ intr' \in [Worker -> PC \cup {"none"}]
          /\ targets' \in [Worker -> SUBSET Worker] /\ state' \in [Sandbox -> SandboxState]
    <2> SUFFICES ASSUME NEW r \in PC, NEW ts \in SUBSET Worker, sigalrm_enter(w, r, ts)
                 PROVE  /\ pc' \in [Worker -> PC] /\ intr' \in [Worker -> PC \cup {"none"}]
                        /\ targets' \in [Worker -> SUBSET Worker] /\ state' \in [Sandbox -> SandboxState]
      OBVIOUS
    <2>1. pc' \in [Worker -> PC] BY <1>p, <1>k DEF sigalrm_enter
    <2>2. intr' \in [Worker -> PC \cup {"none"}] BY <1>p DEF sigalrm_enter
    <2>3. targets' \in [Worker -> SUBSET Worker] BY <1>g DEF sigalrm_enter
    <2>4. "INTERRUPTED" \in SandboxState BY DEF SandboxState
    <2>5. state' \in [Sandbox -> SandboxState] BY <1>b, <1>s, <2>4 DEF sigalrm_enter, SetState
    <2> QED BY <2>1, <2>2, <2>3, <2>5
  \* The actions.
  <1>1. CASE edf_peek(w) \/ scheduler_idle_loop(w) \/ deferred_sigalrm_replay(w)
    <2>1. pc' \in [Worker -> PC]
      BY <1>1, <1>p, <1>k DEF edf_peek, scheduler_idle_loop, deferred_sigalrm_replay
    <2> QED BY <1>1, <1>c, <1>g, <1>b, <1>q, <1>l, <2>1
            DEF edf_peek, scheduler_idle_loop, deferred_sigalrm_replay, signals, sandboxes, queues,
               listener, TypeOK
  <1>2. CASE edf_remove_if_earlier(w)
    <2>1. pc' \in [Worker -> PC] BY <1>2, <1>p, <1>k DEF edf_remove_if_earlier
    <2>2. globalq' \in SUBSET Sandbox
      BY <1>2, <1>q DEF edf_remove_if_earlier, global_request_scheduler_remove
    <2>3. inhand' \in [Worker -> Sandbox \cup {NULL}] BY <1>2, <1>q, <1>c DEF edf_remove_if_earlier
    <2> QED BY <1>2, <1>c, <1>g, <1>b, <1>q, <1>l, <2>1, <2>2, <2>3
            DEF edf_remove_if_earlier, signals, sandboxes, listener, TypeOK
  <1>3. CASE edf_prepare(w)
    <2>1. pc' \in [Worker -> PC] BY <1>3, <1>p, <1>k DEF edf_prepare
    <2>2. state' \in [Sandbox -> SandboxState] BY <1>3, <1>b, <1>s DEF edf_prepare, SandboxState
    <2>3. http' \in [Sandbox -> {"none", "open", "200", "500"}] BY <1>3, <1>b, <1>h DEF edf_prepare
    <2>4. ctxt' \in [Sandbox -> Variant] BY <1>3, <1>b DEF edf_prepare, Variant
    <2> QED BY <1>3, <1>c, <1>g, <1>b, <1>q, <1>l, <2>1, <2>2, <2>3, <2>4
            DEF edf_prepare, signals, queues, listener, TypeOK
  <1>4. CASE edf_set_as_runnable(w)
    <2>1. pc' \in [Worker -> PC] BY <1>4, <1>p, <1>k DEF edf_set_as_runnable
    <2>2. state' \in [Sandbox -> SandboxState] BY <1>4, <1>s DEF edf_set_as_runnable, SandboxState
    <2>3. inhand[w] \in Sandbox BY <1>4, InHandView DEF edf_set_as_runnable
    <2>4. runq' \in [Worker -> SUBSET Sandbox]
      BY <1>4, <1>q, <2>3 DEF edf_set_as_runnable, local_runqueue_add
    <2>5. inhand' \in [Worker -> Sandbox \cup {NULL}] BY <1>4, <1>c DEF edf_set_as_runnable
    <2> QED BY <1>4, <1>c, <1>g, <1>b, <1>q, <1>l, <2>1, <2>2, <2>4, <2>5
            DEF edf_set_as_runnable, signals, listener, TypeOK
  <1>5. CASE idle_cleanup(w) \/ cooperative_clear(w)
    <2>1. pc' \in [Worker -> PC] BY <1>5, <1>p, <1>k DEF idle_cleanup, cooperative_clear
    <2>2. deferred' \in [Worker -> BOOLEAN]
      BY <1>5, <1>g, <1>d DEF idle_cleanup, cooperative_clear, signals
    <2>3. state' \in [Sandbox -> SandboxState] /\ cleanup' \in [Worker -> SUBSET Sandbox]
      BY <1>5, <1>f DEF idle_cleanup, cooperative_clear
    <2> QED BY <1>5, <1>c, <1>g, <1>b, <1>q, <1>l, <2>1, <2>2, <2>3
            DEF idle_cleanup, cooperative_clear, signals, listener, TypeOK
  <1>6. CASE scheduler_cooperative_sched(w)
    <2>1. pc' \in [Worker -> PC] BY <1>6, <1>p, <1>k DEF scheduler_cooperative_sched
    <2>2. current' \in [Worker -> Sandbox \cup {NULL}] BY <1>6, <1>c DEF scheduler_cooperative_sched
    <2> QED BY <1>6, <1>c, <1>g, <1>b, <1>q, <1>l, <2>1, <2>2
            DEF scheduler_cooperative_sched, signals, sandboxes, queues, listener, TypeOK
  <1>7. CASE cooperative_choose(w)
    <2>1. pc' \in [Worker -> PC] BY <1>7, <1>p, <1>k DEF cooperative_choose
    <2>2. current' \in [Worker -> Sandbox \cup {NULL}] BY <1>7, <1>c, <1>q DEF cooperative_choose
    <2>3. ExitingSandbox(w) \subseteq Sandbox BY <1>c DEF ExitingSandbox
    <2>4. cleanup' \in [Worker -> SUBSET Sandbox] BY <1>7, <1>q, <2>3 DEF cooperative_choose
    <2> QED BY <1>7, <1>c, <1>g, <1>b, <1>q, <1>l, <2>1, <2>2, <2>4
            DEF cooperative_choose, signals, sandboxes, listener, TypeOK
  <1>8. CASE cooperative_switch_fast(w)
    <2>1. current[w] \in Sandbox BY <1>8, SwitchView DEF cooperative_switch_fast
    <2>2. pc' \in [Worker -> PC] BY <1>8, <1>p, <1>b, <2>1 DEF cooperative_switch_fast
    <2>3. state' \in [Sandbox -> SandboxState] BY <1>8, <1>s DEF cooperative_switch_fast, SandboxState
    <2>4. exec' \in [Worker -> Sandbox \cup {Base}] BY <1>8, <1>e, <2>1 DEF cooperative_switch_fast
    <2>5. ctxt' \in [Sandbox -> Variant]
      <3>1. \A s \in Sandbox : ctxt'[s] \in {"RUNNING", "FAST", ctxt[s]}
        BY <1>8 DEF cooperative_switch_fast
      <3>2. \A s \in Sandbox : ctxt'[s] \in Variant BY <1>b, <3>1 DEF Variant
      <3>3. ctxt' = [s \in Sandbox |-> ctxt'[s]] BY <1>8 DEF cooperative_switch_fast
      <3> QED BY <3>2, <3>3
    <2> QED BY <1>8, <1>c, <1>g, <1>b, <1>q, <1>l, <2>2, <2>3, <2>4, <2>5
            DEF cooperative_switch_fast, signals, queues, listener, TypeOK
  <1>9. CASE cooperative_switch_slow(w) \/ scheduler_switch_to_base_context(w)
    <2>1. pc' \in [Worker -> PC]
      BY <1>9, <1>p, <1>k DEF cooperative_switch_slow, scheduler_switch_to_base_context
    <2>2. intr' \in [Worker -> PC \cup {"none"}]
      BY <1>9, <1>c, <1>p, <1>k DEF cooperative_switch_slow, scheduler_switch_to_base_context
    <2>3. exec' \in [Worker -> Sandbox \cup {Base}]
      BY <1>9, <1>c DEF cooperative_switch_slow, scheduler_switch_to_base_context
    <2>4. ctxt' \in [Sandbox -> Variant]
      BY <1>9, <1>b DEF cooperative_switch_slow, scheduler_switch_to_base_context, Variant
    <2> QED BY <1>9, <1>c, <1>g, <1>b, <1>q, <1>l, <2>1, <2>2, <2>3, <2>4
            DEF cooperative_switch_slow, scheduler_switch_to_base_context, signals, queues,
               listener, TypeOK
  <1>10. CASE sandbox_return(w)
    <2>1. pc' \in [Worker -> PC] BY <1>10, <1>p, <1>k DEF sandbox_return
    <2>2. state' \in [Sandbox -> SandboxState] BY <1>10, <1>s DEF sandbox_return, SandboxState
    <2> QED BY <1>10, <1>c, <1>g, <1>b, <1>q, <1>l, <2>1, <2>2
            DEF sandbox_return, signals, queues, listener, TypeOK
  <1>11. CASE deferred_sigalrm_clear(w)
    <2>1. pc' \in [Worker -> PC] BY <1>11, <1>p, <1>k DEF deferred_sigalrm_clear
    <2>2. deferred' \in [Worker -> BOOLEAN] BY <1>11, <1>d DEF deferred_sigalrm_clear
    <2> QED BY <1>11, <1>c, <1>g, <1>b, <1>q, <1>l, <2>1, <2>2
            DEF deferred_sigalrm_clear, sandboxes, queues, listener, TypeOK
  <1>12. ASSUME NEW l \in ModuleDoes, sandbox_syscall(w, l) PROVE TypeOK'
    <2>1. pc' \in [Worker -> PC] BY <1>12, <1>p, <1>k DEF sandbox_syscall
    <2>2. state' \in [Sandbox -> SandboxState] BY <1>12, <1>s DEF sandbox_syscall, SandboxState
    <2> QED BY <1>12, <1>c, <1>g, <1>b, <1>q, <1>l, <2>1, <2>2
            DEF sandbox_syscall, signals, queues, listener, TypeOK
  <1>13. CASE sandbox_set_as_returned(w) \/ sandbox_exit_error(w)
    <2>1. pc' \in [Worker -> PC] BY <1>13, <1>p, <1>k DEF sandbox_set_as_returned, sandbox_exit_error
    <2>2. state' \in [Sandbox -> SandboxState]
      BY <1>13, <1>s DEF sandbox_set_as_returned, sandbox_exit_error, SandboxState
    <2>3. http' \in [Sandbox -> {"none", "open", "200", "500"}] /\ runq' \in [Worker -> SUBSET Sandbox]
      BY <1>13, <1>h, <1>d DEF sandbox_set_as_returned, sandbox_exit_error
    <2> QED BY <1>13, <1>c, <1>g, <1>b, <1>q, <1>l, <2>1, <2>2, <2>3
            DEF sandbox_set_as_returned, sandbox_exit_error, signals, listener, TypeOK
  <1>14. CASE sandbox_exit_success(w)
    <2>1. pc' \in [Worker -> PC] BY <1>14, <1>p, <1>k DEF sandbox_exit_success
    <2>2. state' \in [Sandbox -> SandboxState] BY <1>14, <1>s DEF sandbox_exit_success, SandboxState
    <2> QED BY <1>14, <1>c, <1>g, <1>b, <1>q, <1>l, <2>1, <2>2
            DEF sandbox_exit_success, signals, queues, listener, TypeOK
  <1>15. CASE sigalrm_kernel(w) \/ sigalrm_tkill(w) \/ sigalrm_raise(w)
    <2>1. pc[w] \in PC /\ (IF pc[w] = "paused" THEN "idle" ELSE pc[w]) \in PC BY <1>c, <1>k
    <2>2. Worker \ {w} \in SUBSET Worker /\ {} \in SUBSET Worker OBVIOUS
    <2>3. /\ pc' \in [Worker -> PC] /\ intr' \in [Worker -> PC \cup {"none"}]
          /\ targets' \in [Worker -> SUBSET Worker] /\ state' \in [Sandbox -> SandboxState]
      BY <1>15, <1>v, <1>k, <2>1, <2>2 DEF sigalrm_kernel, sigalrm_tkill, sigalrm_raise
    <2>4. timer' \in BOOLEAN /\ pending' \in [Worker -> BOOLEAN]
      BY <1>15, <1>g DEF sigalrm_kernel, sigalrm_tkill, sigalrm_raise
    <2> QED BY <1>15, <1>c, <1>g, <1>b, <1>q, <1>l, <2>3, <2>4
            DEF sigalrm_kernel, sigalrm_tkill, sigalrm_raise, queues, listener, TypeOK
  <1>16. ASSUME NEW v \in Worker, propagate_sigalrm(w, v) PROVE TypeOK'
    <2>1. targets' \in [Worker -> SUBSET Worker] BY <1>16, <1>g DEF propagate_sigalrm
    <2>2. pending' \in [Worker -> BOOLEAN] BY <1>16, <1>g DEF propagate_sigalrm
    <2> QED BY <1>16, <1>c, <1>g, <1>b, <1>q, <1>l, <2>1, <2>2
            DEF propagate_sigalrm, control, sandboxes, queues, listener, TypeOK
  <1>17. CASE sigalrm_dispatch(w)
    <2>1. intr[w] \in PC BY <1>17, AlarmView DEF sigalrm_dispatch
    <2>2. pc' \in [Worker -> PC] BY <1>17, <1>p, <1>k, <2>1 DEF sigalrm_dispatch
    <2>3. intr' \in [Worker -> PC \cup {"none"}] BY <1>17, <1>c, <1>p DEF sigalrm_dispatch
    <2>4. deferred' \in [Worker -> BOOLEAN] BY <1>17, <1>g DEF sigalrm_dispatch, defer_sigalrm
    <2> QED BY <1>17, <1>c, <1>g, <1>b, <1>q, <1>l, <2>2, <2>3, <2>4
            DEF sigalrm_dispatch, sandboxes, queues, listener, TypeOK
  <1>18. CASE preemptive_resume(w)
    <2>1. intr[w] \in PC BY <1>18, <1>c DEF preemptive_resume
    <2>2. pc' \in [Worker -> PC] BY <1>18, <1>p, <2>1 DEF preemptive_resume
    <2>3. intr' \in [Worker -> PC \cup {"none"}] BY <1>18, <1>p DEF preemptive_resume
    <2>4. state' \in [Sandbox -> SandboxState] BY <1>18, <1>s DEF preemptive_resume, SandboxState
    <2> QED BY <1>18, <1>c, <1>g, <1>b, <1>q, <1>l, <2>2, <2>3, <2>4
            DEF preemptive_resume, signals, queues, listener, TypeOK
  <1>19. ASSUME NEW n \in Sandbox, preemptive_switch(w, n) PROVE TypeOK'
    <2>1. intr[w] \in PC BY <1>19, <1>c DEF preemptive_switch
    <2>2. pc' \in [Worker -> PC] BY <1>19, <1>p, <1>b DEF preemptive_switch
    <2>3. intr' \in [Worker -> PC \cup {"none"}] BY <1>19, <1>p DEF preemptive_switch
    <2>4. saved' \in [Sandbox -> PC] BY <1>19, <1>b, <2>1 DEF preemptive_switch
    <2>5. ctxt' \in [Sandbox -> Variant] BY <1>19, <1>b DEF preemptive_switch, Variant
    <2>6. state' \in [Sandbox -> SandboxState] BY <1>19, <1>b DEF preemptive_switch, SandboxState
    <2>7. deferred' \in [Worker -> BOOLEAN] /\ pending' \in [Worker -> BOOLEAN]
      BY <1>19, <1>g, <1>m DEF preemptive_switch
    <2>8. current' \in [Worker -> Sandbox \cup {NULL}] /\ exec' \in [Worker -> Sandbox \cup {Base}]
      BY <1>19, <1>c DEF preemptive_switch
    <2> QED BY <1>19, <1>c, <1>g, <1>b, <1>q, <1>l, <2>2, <2>3, <2>4, <2>5, <2>6, <2>7, <2>8
            DEF preemptive_switch, queues, listener, TypeOK
  <1>20. CASE sigusr1(w)
    <2>1. current[w] \in Sandbox BY <1>20, SwitchView DEF sigusr1
    <2>2. pc' \in [Worker -> PC] BY <1>20, <1>p, <1>b, <2>1 DEF sigusr1
    <2>3. intr' \in [Worker -> PC \cup {"none"}] BY <1>20, <1>p DEF sigusr1
    <2>4. ctxt' \in [Sandbox -> Variant] BY <1>20, <1>b DEF sigusr1, Variant
    <2>5. state' \in [Sandbox -> SandboxState] BY <1>20, <1>s DEF sigusr1, SandboxState
    <2>6. deferred' \in [Worker -> BOOLEAN] /\ pending' \in [Worker -> BOOLEAN]
      BY <1>20, <1>m DEF sigusr1
    <2>7. exec' \in [Worker -> Sandbox \cup {Base}] BY <1>20, <1>e, <2>1 DEF sigusr1
    <2> QED BY <1>20, <1>c, <1>g, <1>b, <1>q, <1>l, <2>2, <2>3, <2>4, <2>5, <2>6, <2>7
            DEF sigusr1, queues, listener, TypeOK
  <1> QED
    BY <1>1, <1>2, <1>3, <1>4, <1>5, <1>6, <1>7, <1>8, <1>9, <1>10, <1>11, <1>12, <1>13, <1>14,
       <1>15, <1>16, <1>17, <1>18, <1>19, <1>20
    DEF Step, WorkerStep, UserStep

\* Handlers nest and get_next keeps track of what it holds.
LEMMA ControlOwn ==
    ASSUME IInv, ~Aborted, NEW w \in Worker, Step(w)
    PROVE  ControlInv'
  <1>c. ControlInv BY DEF IInv
  <1>t. /\ pc \in [Worker -> PC] /\ intr \in [Worker -> PC \cup {"none"}]
        /\ inhand \in [Worker -> Sandbox \cup {NULL}]
    BY DEF IInv, TypeOK
  <1>p. ASSUME NEW p, Goto(w, p) PROVE pc'[w] = p /\ \A v \in Worker : v # w => pc'[v] = pc[v]
    BY <1>t, <1>p DEF Goto
  <1>i. ASSUME NEW p, intr' = [intr EXCEPT ![w] = p]
        PROVE  intr'[w] = p /\ \A v \in Worker : v # w => intr'[v] = intr[v]
    BY <1>t, <1>i
  <1>h. inhand[w] # NULL <=> At(w, "prepare") \/ At(w, "dispatch") BY <1>c DEF ControlInv
  <1>s. \A s \in Sandbox : saved[s] \in UserPC \cup {"start"} BY <1>c DEF ControlInv
  \* Only the control of the thread changes, and the saved program points.
  <1>1. ASSUME \A v \in Worker : v # w => /\ pc'[v] = pc[v] /\ intr'[v] = intr[v]
                                          /\ inhand'[v] = inhand[v],
               UNCHANGED listener, \A s \in Sandbox : saved'[s] \in UserPC \cup {"start"},
               intr'[w] = "none" => pc'[w] \notin HandlerPC,
               intr'[w] # "none" => \/ pc'[w] = "sigalrm"
                                    \/ pc'[w] = "sigusr1" /\ intr'[w] = "switch"
                                    \/ pc'[w] \in Dispatch /\ intr'[w] \in UserPC,
               intr'[w] \notin HandlerPC \cup {"paused"},
               inhand'[w] # NULL <=> At(w, "prepare")' \/ At(w, "dispatch")'
        PROVE  ControlInv'
    BY <1>c, <1>1 DEF ControlInv, At, listener
  \* The forms of change: a step that is not in a handler or in get_next, a step of get_next,
  \* the entry of a handler, the return from it.
  <1>2. ASSUME NEW p, Goto(w, p), intr[w] = "none", UNCHANGED <<intr, inhand, saved, listener>>,
               p \notin HandlerPC \cup {"prepare", "dispatch"}, pc[w] \notin {"prepare", "dispatch"}
        PROVE  ControlInv'
    <2>1. inhand'[w] # NULL <=> At(w, "prepare")' \/ At(w, "dispatch")' BY <1>h, <1>p, <1>2 DEF At
    <2> QED BY <1>s, <1>1, <1>p, <1>2, <2>1 DEF HandlerPC
  <1>3. ASSUME NEW p \in Dispatch, Goto(w, p), pc[w] \in Dispatch, UNCHANGED <<intr, saved, listener>>,
               inhand'[w] # NULL <=> p \in {"prepare", "dispatch"},
               \A v \in Worker : v # w => inhand'[v] = inhand[v]
        PROVE  ControlInv'
    <2>1. intr[w] \in UserPC \cup {"none"} BY PreemptView, <1>3
    <2>2. intr'[w] # "none" => pc'[w] \in Dispatch /\ intr'[w] \in UserPC BY <1>p, <1>3, <2>1
    <2>3. pc'[w] \notin HandlerPC BY <1>p, <1>3 DEF Dispatch, HandlerPC, GetNextPC
    <2>4. intr'[w] \notin HandlerPC \cup {"paused", "prepare", "dispatch"}
      BY <1>3, <2>1 DEF UserPC, HandlerPC
    <2>5. inhand'[w] # NULL <=> At(w, "prepare")' \/ At(w, "dispatch")' BY <1>p, <1>3, <2>4 DEF At
    <2> QED BY <1>s, <1>1, <1>p, <1>3, <2>2, <2>3, <2>4, <2>5
  <1>4. ASSUME NEW ts, NEW r, sigalrm_enter(w, r, ts), UNCHANGED <<inhand, saved, listener>>,
               pc[w] \notin HandlerPC \cup {"none"}, intr[w] = "none",
               \/ r = pc[w] /\ pc[w] # "paused"
               \/ r = "idle" /\ pc[w] = "paused"
               \/ r = "user" /\ pc[w] = "raise"
        PROVE  ControlInv'
    <2>1. pc'[w] = "sigalrm" /\ intr'[w] = r BY <1>p, <1>i, <1>4 DEF sigalrm_enter
    <2>2. \A v \in Worker : v # w => pc'[v] = pc[v] /\ intr'[v] = intr[v]
      BY <1>p, <1>i, <1>4 DEF sigalrm_enter
    <2>3. inhand'[w] # NULL <=> At(w, "prepare")' \/ At(w, "dispatch")' BY <1>h, <1>4, <2>1 DEF At
    <2>4. intr'[w] \notin HandlerPC \cup {"paused"} BY <1>4, <2>1 DEF HandlerPC
    <2>5. intr'[w] # "none" BY <1>4, <2>1
    <2> QED BY <1>s, <1>1, <1>4, <2>1, <2>2, <2>3, <2>4, <2>5
  <1>5. ASSUME NEW p, Goto(w, p), intr' = [intr EXCEPT ![w] = "none"], UNCHANGED <<inhand, listener>>,
               p \notin HandlerPC, inhand[w] # NULL <=> p \in {"prepare", "dispatch"},
               \A s \in Sandbox : saved'[s] \in UserPC \cup {"start"}
        PROVE  ControlInv'
    <2>1. inhand'[w] # NULL <=> At(w, "prepare")' \/ At(w, "dispatch")' BY <1>p, <1>i, <1>5 DEF At
    <2> QED BY <1>1, <1>p, <1>i, <1>5, <2>1 DEF HandlerPC
  <1>6. CASE edf_peek(w)
    <2>1. inhand[w] = NULL
      BY <1>6, <1>h, PreemptView DEF edf_peek, At, Dispatch, GetNextPC, UserPC
    <2> QED BY <1>3, <1>6, <2>1 DEF edf_peek, sandboxes, Dispatch, GetNextPC
  <1>7. CASE edf_remove_if_earlier(w)
    <2>1. UNCHANGED <<intr, saved, listener>> /\ pc[w] = "pull" /\ pc[w] \in Dispatch
      BY <1>7 DEF edf_remove_if_earlier, sandboxes, Dispatch, GetNextPC
    <2>2. inhand[w] = NULL BY <2>1, <1>h, PreemptView DEF At, UserPC
    <2>3. ASSUME NEW s \in globalq, inhand' = [inhand EXCEPT ![w] = s], Goto(w, "prepare") PROVE ControlInv'
      <3>1. s # NULL BY NamesAssumption DEF IInv, TypeOK
      <3>2. inhand'[w] = s /\ \A v \in Worker : v # w => inhand'[v] = inhand[v] BY <1>t, <2>3
      <3> QED BY <1>3, <2>1, <2>3, <3>1, <3>2 DEF Dispatch, GetNextPC
    <2>4. CASE inhand' = inhand /\ Goto(w, "choose") BY <1>3, <2>1, <2>2, <2>4 DEF Dispatch
    <2> QED BY <1>7, <2>3, <2>4 DEF edf_remove_if_earlier
  <1>8. CASE edf_prepare(w)
    BY <1>3, <1>8, InHandView DEF edf_prepare, Dispatch, GetNextPC
  <1>9. CASE edf_set_as_runnable(w)
    <2>1. inhand'[w] = NULL /\ \A v \in Worker : v # w => inhand'[v] = inhand[v]
      BY <1>t, <1>9 DEF edf_set_as_runnable
    <2> QED BY <1>3, <1>9, <2>1 DEF edf_set_as_runnable, Dispatch, GetNextPC
  <1>10. CASE scheduler_idle_loop(w)
    BY <1>2, <1>10, BaseView DEF scheduler_idle_loop, sandboxes, BasePC, HandlerPC
  <1>11. CASE idle_cleanup(w)
    BY <1>2, <1>11, BaseView DEF idle_cleanup, BasePC, HandlerPC
  <1>12. CASE scheduler_cooperative_sched(w)
    BY <1>2, <1>12, EndView DEF scheduler_cooperative_sched, sandboxes, HandlerPC
  <1>13. CASE cooperative_clear(w)
    BY <1>2, <1>13, EndView DEF cooperative_clear, HandlerPC
  <1>14. CASE cooperative_choose(w)
    BY <1>2, <1>14 DEF cooperative_choose, sandboxes, HandlerPC
  <1>15. CASE cooperative_switch_fast(w)
    <2>1. current[w] \in Sandbox /\ intr[w] = "none" BY <1>15, SwitchView DEF cooperative_switch_fast
    <2>2. saved[current[w]] \in UserPC \cup {"start"} BY <2>1, <1>s
    <2> QED BY <1>2, <1>15, <2>1, <2>2 DEF cooperative_switch_fast, HandlerPC, UserPC
  <1>16. CASE cooperative_switch_slow(w)
    <2>1. UNCHANGED <<inhand, saved, listener>> /\ pc[w] = "switch"
      BY <1>16 DEF cooperative_switch_slow
    <2>2. /\ pc'[w] = "sigusr1" /\ intr'[w] = "switch"
          /\ \A v \in Worker : v # w => pc'[v] = pc[v] /\ intr'[v] = intr[v]
      BY <1>p, <1>i, <1>16 DEF cooperative_switch_slow
    <2>3. intr[w] = "none" BY <2>1, SwitchView
    <2>4. inhand'[w] # NULL <=> At(w, "prepare")' \/ At(w, "dispatch")' BY <1>h, <2>1, <2>2, <2>3 DEF At
    <2> QED BY <1>s, <1>1, <2>1, <2>2, <2>4 DEF HandlerPC
  <1>17. CASE scheduler_switch_to_base_context(w)
    BY <1>2, <1>17, SwitchView DEF scheduler_switch_to_base_context, HandlerPC
  <1>18. CASE sandbox_return(w)
    BY <1>2, <1>18, SysView DEF sandbox_return, SysPC, HandlerPC
  <1>19. CASE deferred_sigalrm_replay(w)
    BY <1>2, <1>19, UserView DEF deferred_sigalrm_replay, sandboxes, UserPC, HandlerPC
  <1>20. CASE deferred_sigalrm_clear(w)
    BY <1>2, <1>20, UserView DEF deferred_sigalrm_clear, sandboxes, UserPC, HandlerPC
  <1>21. ASSUME NEW l \in ModuleDoes, sandbox_syscall(w, l) PROVE ControlInv'
    <2>1. l \notin HandlerPC \cup {"prepare", "dispatch"} BY OptionsAssumption DEF HandlerPC
    <2> QED BY <1>2, <1>21, <2>1, UserView DEF sandbox_syscall, UserPC
  <1>22. CASE sandbox_set_as_returned(w)
    BY <1>2, <1>22, SysView DEF sandbox_set_as_returned, SysPC, HandlerPC
  <1>23. CASE sandbox_exit_success(w)
    BY <1>2, <1>23, EndView DEF sandbox_exit_success, HandlerPC
  <1>24. CASE sandbox_exit_error(w)
    BY <1>2, <1>24, SysView DEF sandbox_exit_error, SysPC, HandlerPC
  <1>25. CASE sigalrm_kernel(w)
    BY <1>4, <1>25, InterruptView DEF sigalrm_kernel
  <1>26. CASE sigalrm_tkill(w)
    BY <1>4, <1>26, InterruptView DEF sigalrm_tkill
  <1>27. CASE sigalrm_raise(w)
    BY <1>4, <1>27, UserView DEF sigalrm_raise, UserPC, HandlerPC
  <1>28. ASSUME NEW v \in Worker, propagate_sigalrm(w, v) PROVE ControlInv'
    BY <1>c, <1>28 DEF propagate_sigalrm, control, sandboxes, listener, ControlInv, At
  <1>29. CASE sigalrm_dispatch(w)
    <2>1. UNCHANGED <<inhand, saved, listener>> /\ pc[w] = "sigalrm"
      BY <1>29 DEF sigalrm_dispatch, sandboxes
    <2>2. intr[w] \notin HandlerPC BY <2>1, AlarmView
    <2>3. inhand[w] # NULL <=> intr[w] \in {"prepare", "dispatch"} BY <1>h, <2>1 DEF At
    <2>4. CASE Goto(w, intr[w]) /\ intr' = [intr EXCEPT ![w] = "none"]
      BY <1>s, <1>5, <2>1, <2>2, <2>3, <2>4
    <2>5. CASE intr' = intr /\ Goto(w, "peek") /\ current[w] # NULL /\ state[current[w]] = "INTERRUPTED"
      <3>1. intr[w] \in UserPC BY <2>1, <2>5, AlarmView
      <3>2. intr[w] \notin HandlerPC \cup {"paused", "prepare", "dispatch", "none"}
        BY <3>1 DEF UserPC, HandlerPC
      <3>3. pc'[w] = "peek" BY <1>p, <2>5
      <3>4. inhand'[w] # NULL <=> At(w, "prepare")' \/ At(w, "dispatch")'
        BY <2>1, <2>3, <2>5, <3>2, <3>3 DEF At
      <3> QED BY <1>s, <1>1, <1>p, <2>1, <2>5, <3>1, <3>2, <3>3, <3>4 DEF Dispatch, GetNextPC
    <2> QED BY <1>29, <2>4, <2>5 DEF sigalrm_dispatch
  <1>30. CASE preemptive_resume(w)
    <2>1. intr[w] \in UserPC /\ pc[w] = "choose" BY <1>30, PreemptView DEF preemptive_resume, Dispatch
    <2>2. inhand[w] = NULL BY <1>h, <2>1 DEF At, UserPC
    <2> QED BY <1>s, <1>5, <1>30, <2>1, <2>2 DEF preemptive_resume, UserPC, HandlerPC
  <1>31. ASSUME NEW n \in Sandbox, preemptive_switch(w, n) PROVE ControlInv'
    <2>1. intr[w] \in UserPC /\ pc[w] = "choose" BY <1>31, PreemptView DEF preemptive_switch, Dispatch
    <2>2. inhand[w] = NULL BY <1>h, <2>1 DEF At, UserPC
    <2>3. saved[n] \in UserPC \cup {"start"} BY <1>s
    <2>4. \A s \in Sandbox : saved'[s] \in UserPC \cup {"start"}
      <3>1. saved' = [saved EXCEPT ![current[w]] = intr[w]] BY <1>31 DEF preemptive_switch
      <3>2. saved \in [Sandbox -> PC] BY DEF IInv, TypeOK
      <3> QED BY <1>s, <2>1, <3>1, <3>2
    <2>5. Goto(w, saved[n]) /\ intr' = [intr EXCEPT ![w] = "none"] /\ UNCHANGED <<inhand, listener>>
      BY <1>31 DEF preemptive_switch
    <2> QED BY <1>5, <2>2, <2>3, <2>4, <2>5 DEF UserPC, HandlerPC
  <1>32. CASE sigusr1(w)
    <2>1. current[w] \in Sandbox /\ pc[w] = "sigusr1" /\ intr[w] = "switch"
      BY <1>32, SwitchView DEF sigusr1
    <2>2. inhand[w] = NULL BY <1>h, <2>1 DEF At
    <2>3. saved[current[w]] \in UserPC \cup {"start"} BY <1>s, <2>1
    <2>4. Goto(w, saved[current[w]]) /\ intr' = [intr EXCEPT ![w] = "none"] /\ UNCHANGED <<inhand, saved, listener>>
      BY <1>32 DEF sigusr1
    <2> QED BY <1>s, <1>5, <2>2, <2>3, <2>4 DEF UserPC, HandlerPC
  <1> QED
    BY <1>6, <1>7, <1>8, <1>9, <1>10, <1>11, <1>12, <1>13, <1>14, <1>15, <1>16, <1>17, <1>18,
       <1>19, <1>20, <1>21, <1>22, <1>23, <1>24, <1>25, <1>26, <1>27, <1>28, <1>29, <1>30, <1>31,
       <1>32
    DEF Step, WorkerStep, UserStep

\* The thread that steps is consistent with its new program point.
LEMMA ThreadOwn ==
    ASSUME IInv, ~Aborted, NEW w \in Worker, Step(w)
    PROVE  Thread(w, Pos(w))'
  <1>t. /\ state \in [Sandbox -> SandboxState]
        /\ pc \in [Worker -> PC] /\ intr \in [Worker -> PC \cup {"none"}]
        /\ exec \in [Worker -> Sandbox \cup {Base}]
        /\ current \in [Worker -> Sandbox \cup {NULL}]
        /\ runq \in [Worker -> SUBSET Sandbox] /\ cleanup \in [Worker -> SUBSET Sandbox]
    BY DEF IInv, TypeOK
  <1>n. Base \notin Sandbox /\ NULL \notin Sandbox BY NamesAssumption
  <1>p. \A p : Goto(w, p) => pc'[w] = p BY <1>t DEF Goto
  <1>c. Thread(w, Pos(w)) BY DEF IInv, ThreadInv
  \* What has to be shown at each kind of program point.
  <1>1. ASSUME Pos(w)' \in BasePC, exec'[w] = Base, current'[w] = NULL PROVE Thread(w, Pos(w))'
    BY <1>1 DEF Thread, BasePC, GetNextPC, UserPC, SysPC, Dispatch
  <1>2. ASSUME Pos(w)' \in Dispatch, exec'[w] = Base \/ OnEndedStack(w)', current'[w] = NULL
        PROVE  Thread(w, Pos(w))'
    BY <1>2 DEF Thread, BasePC, GetNextPC, UserPC, SysPC, Dispatch
  <1>3. ASSUME Pos(w)' = "coop", OnEndedStack(w)', current'[w] = NULL PROVE Thread(w, Pos(w))'
    BY <1>3 DEF Thread, BasePC, GetNextPC, UserPC, SysPC, Dispatch
  <1>4. ASSUME Pos(w)' = "exit", OnEndedStack(w)', current'[w] = exec'[w] PROVE Thread(w, Pos(w))'
    BY <1>4 DEF Thread, BasePC, GetNextPC, UserPC, SysPC, Dispatch
  <1>5. ASSUME Pos(w)' = "returned", exec'[w] \in Sandbox, current'[w] = exec'[w],
               state'[exec'[w]] = "RETURNED"
        PROVE  Thread(w, Pos(w))'
    BY <1>5 DEF Thread, BasePC, GetNextPC, UserPC, SysPC, Dispatch
  <1>6. ASSUME Pos(w)' = "switch", exec'[w] # Base => OnEndedStack(w)' /\ exec'[w] \in cleanup'[w],
               current'[w] = NULL => exec'[w] # Base,
               current'[w] # NULL =>
                   current'[w] \in runq'[w] /\ state'[current'[w]] \in {"RUNNABLE", "PREEMPTED"}
        PROVE  Thread(w, Pos(w))'
    BY <1>6 DEF Thread, BasePC, GetNextPC, UserPC, SysPC, Dispatch
  <1>7. ASSUME Pos(w)' \in UserPC \cup SysPC, current'[w] = exec'[w], current'[w] \in Sandbox,
               current'[w] \in runq'[w],
               Pos(w)' \in UserPC =>
                   state'[current'[w]] = IF intr'[w] = "none" THEN "RUNNING_USER" ELSE "INTERRUPTED",
               Pos(w)' \in SysPC => state'[current'[w]] = "RUNNING_SYS"
        PROVE  Thread(w, Pos(w))'
    BY <1>7 DEF Thread, BasePC, GetNextPC, UserPC, SysPC, Dispatch
  \* Nothing changes that matters to the thread.
  <1>8. ASSUME UNCHANGED <<exec, current, cleanup>>, runq[w] \subseteq runq'[w],
               exec[w] \in Sandbox => state'[exec[w]] = state[exec[w]],
               current[w] \in Sandbox => state'[current[w]] = state[current[w]],
               Pos(w)' = Pos(w), Pos(w) \in UserPC => (intr'[w] = "none" <=> intr[w] = "none")
        PROVE  Thread(w, Pos(w))'
    <2>1. exec'[w] = exec[w] /\ current'[w] = current[w] /\ cleanup'[w] = cleanup[w] BY <1>8
    <2>2. OnEndedStack(w) => OnEndedStack(w)' BY <1>8, <2>1 DEF OnEndedStack
    <2>3. current[w] = NULL \/ current[w] \in Sandbox BY <1>t
    <2>4. state[current[w]] = (IF intr[w] = "none" THEN "RUNNING_USER" ELSE "INTERRUPTED")
            /\ current[w] \in Sandbox /\ Pos(w) \in UserPC
            => state'[current[w]] = (IF intr'[w] = "none" THEN "RUNNING_USER" ELSE "INTERRUPTED")
      BY <1>8
    <2> QED BY <1>c, <1>8, <2>1, <2>2, <2>3, <2>4 DEF Thread
  \* A step of get_next.
  <1>9. ASSUME pc[w] \in Dispatch, pc'[w] \in Dispatch, UNCHANGED <<intr, exec, current, cleanup>>,
               runq[w] \subseteq runq'[w],
               \A s \in Sandbox : state'[s] = state[s] \/ state[s] = "INITIALIZED"
        PROVE  Thread(w, Pos(w))'
    <2>1. CASE intr[w] = "none"
      <3>1. /\ current[w] = NULL
            /\ exec[w] = Base \/ (exec[w] \in Sandbox /\ state[exec[w]] \in Terminal)
        BY <1>9, <2>1, CooperativeView
      <3>2. exec[w] \in Sandbox /\ state[exec[w]] \in Terminal => OnEndedStack(w)'
        BY <1>9 DEF OnEndedStack, Terminal
      <3>3. Pos(w)' \in Dispatch BY <1>9, <2>1 DEF Pos
      <3> QED BY <1>2, <1>9, <3>1, <3>2, <3>3
    <2>2. CASE intr[w] # "none"
      <3>1. /\ current[w] \in Sandbox /\ exec[w] = current[w] /\ state[current[w]] = "INTERRUPTED"
        BY <1>9, <2>2, PreemptView
      <3>2. Pos(w)' = Pos(w) BY <1>9, <2>2 DEF Pos
      <3> QED BY <1>8, <1>9, <3>1, <3>2
    <2> QED BY <2>1, <2>2
  \* The entry of the SIGALRM handler.
  <1>10. ASSUME NEW ts, NEW r, sigalrm_enter(w, r, ts), UNCHANGED <<exec, current, cleanup, runq>>,
               intr[w] = "none",
               \/ r = pc[w] /\ pc[w] # "paused"
               \/ r = "idle" /\ pc[w] = "paused"
               \/ r = "user" /\ pc[w] = "raise"
        PROVE  Thread(w, Pos(w))'
    <2>1. pc[w] \in PC /\ pc[w] # "none" BY <1>10, InterruptView
    <2>2. intr'[w] = r /\ r # "none" BY <1>t, <1>10, <2>1 DEF sigalrm_enter
    <2>3. Pos(w)' = r /\ Pos(w) = pc[w] BY <1>10, <2>2 DEF Pos
    <2>4. CASE pc[w] \in UserPC
      <3>1. /\ current[w] \in Sandbox /\ exec[w] = current[w] /\ current[w] \in runq[w]
            /\ current_sandbox_is_preemptable(w)
        BY <2>4, UserView, <1>n DEF current_sandbox_is_preemptable
      <3>2. state'[current[w]] = "INTERRUPTED" BY <1>t, <1>10, <3>1 DEF sigalrm_enter
      <3>3. r \in UserPC /\ r \notin SysPC BY <1>10, <2>4 DEF UserPC, SysPC
      <3> QED BY <1>7, <1>10, <2>2, <2>3, <3>1, <3>2, <3>3
    <2>5. CASE pc[w] \notin UserPC
      <3>1. state' = state
        BY <1>10, <2>5, InterruptView DEF sigalrm_enter, current_sandbox_is_preemptable
      <3>2. CASE r = pc[w] BY <1>8, <1>10, <2>3, <2>5, <3>1, <3>2
      <3>3. CASE r = "idle" /\ pc[w] = "paused"
        <4>1. exec[w] = Base /\ current[w] = NULL BY <3>3, BaseView DEF BasePC
        <4> QED BY <1>1, <1>10, <2>3, <3>3, <4>1 DEF BasePC
      <3> QED BY <1>10, <2>5, <3>2, <3>3 DEF UserPC
    <2> QED BY <2>4, <2>5
  <1>11. CASE edf_peek(w)
    BY <1>9, <1>p, <1>11 DEF edf_peek, sandboxes, queues, Dispatch, GetNextPC
  <1>12. CASE edf_remove_if_earlier(w)
    BY <1>9, <1>p, <1>12 DEF edf_remove_if_earlier, sandboxes, Dispatch, GetNextPC
  <1>13. CASE edf_prepare(w)
    <2>1. state[inhand[w]] = "INITIALIZED" BY <1>13, InHandView DEF edf_prepare
    <2>2. \A s \in Sandbox : state'[s] = state[s] \/ state[s] = "INITIALIZED"
      BY <1>t, <1>13, <2>1 DEF edf_prepare, SetState
    <2> QED BY <1>9, <1>p, <1>13, <2>2 DEF edf_prepare, queues, Dispatch, GetNextPC
  <1>14. CASE edf_set_as_runnable(w)
    <2>1. \A s \in Sandbox : state'[s] = state[s] \/ state[s] = "INITIALIZED"
      BY <1>t, <1>14 DEF edf_set_as_runnable, SetState
    <2>2. runq[w] \subseteq runq'[w] BY <1>t, <1>14 DEF edf_set_as_runnable, local_runqueue_add
    <2> QED BY <1>9, <1>p, <1>14, <2>1, <2>2 DEF edf_set_as_runnable, Dispatch, GetNextPC
  <1>15. CASE scheduler_idle_loop(w)
    <2>1. UNCHANGED <<intr, exec, current>> /\ pc'[w] = "peek" /\ pc[w] \in BasePC
      BY <1>p, <1>15 DEF scheduler_idle_loop, BasePC
    <2>2. intr[w] = "none" /\ exec[w] = Base /\ current[w] = NULL BY <2>1, BaseView
    <2> QED BY <1>2, <2>1, <2>2 DEF Pos, Dispatch, GetNextPC
  <1>16. CASE idle_cleanup(w)
    <2>1. UNCHANGED <<intr, exec, current>> /\ pc'[w] \in {"idle", "paused"} /\ pc[w] \in BasePC
      BY <1>p, <1>16 DEF idle_cleanup, BasePC
    <2>2. intr[w] = "none" /\ exec[w] = Base /\ current[w] = NULL BY <2>1, BaseView
    <2> QED BY <1>1, <2>1, <2>2 DEF Pos, BasePC
  <1>17. CASE scheduler_cooperative_sched(w)
    <2>1. UNCHANGED <<intr, exec, state>> /\ pc'[w] = "coop" /\ current'[w] = NULL /\ pc[w] = "exit"
      BY <1>t, <1>p, <1>17 DEF scheduler_cooperative_sched, sandboxes
    <2>2. intr[w] = "none" /\ exec[w] \in Sandbox /\ state[exec[w]] \in Terminal BY <2>1, EndView
    <2> QED BY <1>3, <2>1, <2>2 DEF Pos, OnEndedStack
  <1>18. CASE cooperative_clear(w)
    <2>1. /\ UNCHANGED <<intr, exec, current>> /\ pc'[w] = "peek" /\ pc[w] = "coop"
          /\ local_cleanup_queue_free(w)
      BY <1>p, <1>18 DEF cooperative_clear
    <2>2. /\ intr[w] = "none" /\ exec[w] \in Sandbox /\ state[exec[w]] \in Terminal
          /\ current[w] = NULL /\ exec[w] \notin cleanup[w]
      BY <2>1, EndView
    <2>3. state'[exec[w]] = state[exec[w]] BY <2>1, <2>2 DEF local_cleanup_queue_free
    <2> QED BY <1>2, <2>1, <2>2, <2>3 DEF Pos, OnEndedStack, Dispatch, GetNextPC
  <1>19. CASE cooperative_choose(w)
    <2>1. UNCHANGED <<intr, exec, state, runq>> /\ pc[w] = "choose" /\ intr[w] = "none"
      BY <1>19 DEF cooperative_choose, sandboxes
    <2>2. /\ current[w] = NULL
          /\ exec[w] = Base \/ (exec[w] \in Sandbox /\ state[exec[w]] \in Terminal)
      BY <2>1, CooperativeView DEF Dispatch
    <2>3. exec[w] # Base => OnEndedStack(w)' BY <2>1, <2>2 DEF OnEndedStack
    <2>4. exec[w] # Base => exec[w] \in cleanup'[w]
      BY <1>t, <1>19 DEF cooperative_choose, ExitingSandbox
    <2>5. ASSUME NEW n \in runq[w], current' = [current EXCEPT ![w] = n], Goto(w, "switch")
          PROVE  Thread(w, Pos(w))'
      <3>1. current'[w] = n /\ Pos(w)' = "switch" BY <1>t, <1>p, <2>1, <2>5 DEF Pos
      <3>2. n \in Sandbox /\ n # NULL BY <1>t, <1>n
      <3>3. state[n] \in {"RUNNABLE", "PREEMPTED"} BY <2>2, <3>2, WaitingView
      <3> QED BY <1>6, <2>1, <2>3, <2>4, <3>1, <3>2, <3>3
    <2>6. CASE exec[w] = Base /\ current' = current /\ Goto(w, "cleanup")
      BY <1>1, <1>p, <2>1, <2>2, <2>6 DEF Pos, BasePC
    <2>7. CASE exec[w] # Base /\ current' = current /\ Goto(w, "switch")
      BY <1>6, <1>p, <2>1, <2>2, <2>3, <2>4, <2>7 DEF Pos
    <2> QED BY <1>19, <2>5, <2>6, <2>7 DEF cooperative_choose
  <1>20. CASE cooperative_switch_fast(w)
    <2>1. /\ current[w] \in Sandbox /\ current[w] \in runq[w] /\ intr[w] = "none"
          /\ state[current[w]] = "RUNNABLE"
      BY <1>20, SwitchView DEF cooperative_switch_fast
    <2>2. saved[current[w]] = "start" BY <2>1, ReadyView
    <2>3. /\ UNCHANGED <<intr, current, runq>> /\ pc'[w] = "start"
          /\ exec'[w] = current[w] /\ state'[current[w]] = "RUNNING_SYS"
      BY <1>t, <1>p, <1>20, <2>1, <2>2 DEF cooperative_switch_fast, SetState, queues
    <2> QED BY <1>7, <2>1, <2>3 DEF Pos, SysPC, UserPC
  <1>21. CASE cooperative_switch_slow(w)
    <2>1. UNCHANGED <<exec, current, state, cleanup, runq>> /\ intr'[w] = "switch" /\ pc[w] = "switch"
      BY <1>t, <1>21 DEF cooperative_switch_slow, queues
    <2>2. intr[w] = "none" BY <2>1, SwitchView
    <2> QED BY <1>8, <2>1, <2>2 DEF Pos, UserPC
  <1>22. CASE scheduler_switch_to_base_context(w)
    <2>1. /\ UNCHANGED <<intr, current>> /\ pc'[w] = "cleanup" /\ exec'[w] = Base
          /\ current[w] = NULL /\ pc[w] = "switch"
      BY <1>t, <1>p, <1>22 DEF scheduler_switch_to_base_context
    <2>2. intr[w] = "none" BY <2>1, SwitchView
    <2> QED BY <1>1, <2>1, <2>2 DEF Pos, BasePC
  \* On the stack of a sandbox.
  <1>23. ASSUME pc[w] \in UserPC \cup SysPC, NEW p \in UserPC \cup SysPC, Goto(w, p),
               UNCHANGED <<intr, exec, current, runq>>,
               p \in UserPC => SetState(current[w], "RUNNING_USER") \/ (pc[w] \in UserPC /\ state' = state),
               p \in SysPC => SetState(current[w], "RUNNING_SYS")
        PROVE  Thread(w, Pos(w))'
    <2>1. /\ intr[w] = "none" /\ exec[w] = current[w] /\ current[w] \in Sandbox
          /\ current[w] \in runq[w]
      BY <1>23, UserView, SysView
    <2>5. pc[w] \in UserPC => state[current[w]] = "RUNNING_USER" BY UserView
    <2>2. p \in UserPC => state'[current[w]] = "RUNNING_USER" BY <1>t, <1>23, <2>1, <2>5 DEF SetState
    <2>3. p \in SysPC => state'[current[w]] = "RUNNING_SYS" BY <1>t, <1>23, <2>1 DEF SetState
    <2>4. Pos(w)' = p BY <1>p, <1>23, <2>1 DEF Pos
    <2> QED BY <1>7, <1>23, <2>1, <2>2, <2>3, <2>4
  <1>24. CASE sandbox_return(w)
    BY <1>23, <1>24 DEF sandbox_return, queues, UserPC, SysPC
  <1>25. CASE deferred_sigalrm_replay(w) \/ deferred_sigalrm_clear(w)
    BY <1>23, <1>25
    DEF deferred_sigalrm_replay, deferred_sigalrm_clear, sandboxes, queues, UserPC, SysPC
  <1>26. ASSUME NEW l \in ModuleDoes, sandbox_syscall(w, l) PROVE Thread(w, Pos(w))'
    <2>1. l \in SysPC /\ l \notin UserPC BY OptionsAssumption DEF SysPC, UserPC
    <2> QED BY <1>23, <1>26, <2>1 DEF sandbox_syscall, queues, UserPC
  <1>27. CASE sandbox_set_as_returned(w)
    <2>1. UNCHANGED <<intr, exec, current>> /\ pc'[w] = "returned" /\ pc[w] \in SysPC
      BY <1>p, <1>27 DEF sandbox_set_as_returned, SysPC
    <2>2. intr[w] = "none" /\ exec[w] = current[w] /\ current[w] \in Sandbox BY <2>1, SysView
    <2>3. state'[exec[w]] = "RETURNED" BY <1>t, <1>27, <2>2 DEF sandbox_set_as_returned, SetState
    <2> QED BY <1>5, <2>1, <2>2, <2>3 DEF Pos
  <1>28. ASSUME pc[w] \in SysPC \cup {"returned"}, Goto(w, "exit"), UNCHANGED <<intr, exec, current>>,
               NEW x \in Terminal, SetState(current[w], x)
        PROVE  Thread(w, Pos(w))'
    <2>1. intr[w] = "none" /\ exec[w] = current[w] /\ current[w] \in Sandbox BY <1>28, SysView, EndView
    <2>2. state'[exec[w]] = x BY <1>t, <1>28, <2>1 DEF SetState
    <2> QED BY <1>4, <1>p, <1>28, <2>1, <2>2 DEF Pos, OnEndedStack
  <1>29. CASE sandbox_exit_success(w)
    BY <1>28, <1>29 DEF sandbox_exit_success, Terminal
  <1>30. CASE sandbox_exit_error(w)
    BY <1>28, <1>30 DEF sandbox_exit_error, Terminal, SysPC
  <1>31. CASE sigalrm_kernel(w)
    BY <1>10, <1>31 DEF sigalrm_kernel, queues
  <1>32. CASE sigalrm_tkill(w)
    BY <1>10, <1>32 DEF sigalrm_tkill, queues
  <1>33. CASE sigalrm_raise(w)
    BY <1>10, <1>33, UserView DEF sigalrm_raise, queues, UserPC
  <1>34. ASSUME NEW v \in Worker, propagate_sigalrm(w, v) PROVE Thread(w, Pos(w))'
    BY <1>8, <1>34 DEF propagate_sigalrm, control, sandboxes, queues, Pos
  <1>35. CASE sigalrm_dispatch(w)
    <2>1. UNCHANGED <<exec, current, state, cleanup, runq>> /\ pc[w] = "sigalrm"
      BY <1>35 DEF sigalrm_dispatch, sandboxes, queues
    <2>2. /\ intr[w] # "none"
          /\ intr[w] \in UserPC <=> current[w] # NULL /\ state[current[w]] = "INTERRUPTED"
      BY <2>1, AlarmView
    <2>3. \/ intr' = intr
          \/ /\ pc'[w] = intr[w] /\ intr'[w] = "none"
             /\ ~(current[w] # NULL /\ state[current[w]] = "INTERRUPTED")
      BY <1>t, <1>p, <1>35 DEF sigalrm_dispatch
    <2> QED BY <1>8, <2>1, <2>2, <2>3 DEF Pos
  <1>36. ASSUME NEW n \in runq[w], current'[w] = n, exec'[w] = n, runq' = runq, NEW p, Goto(w, p),
               intr' = [intr EXCEPT ![w] = "none"],
               \/ p \in UserPC /\ state'[n] = "RUNNING_USER"
               \/ p = "start" /\ state'[n] = "RUNNING_SYS"
        PROVE  Thread(w, Pos(w))'
    <2>1. intr'[w] = "none" BY <1>t, <1>36
    <2>2. Pos(w)' = p BY <1>p, <1>36, <2>1 DEF Pos
    <2>3. n \in Sandbox BY <1>t
    <2> QED BY <1>7, <1>36, <2>1, <2>2, <2>3 DEF UserPC, SysPC
  <1>37. CASE preemptive_resume(w)
    <2>1. /\ current[w] \in Sandbox /\ current[w] \in runq[w] /\ exec[w] = current[w]
          /\ intr[w] \in UserPC
      BY <1>37, PreemptView DEF preemptive_resume, Dispatch
    <2>2. state'[current[w]] = "RUNNING_USER" BY <1>t, <1>37, <2>1 DEF preemptive_resume, SetState
    <2> QED BY <1>36, <1>37, <2>1, <2>2 DEF preemptive_resume, queues
  <1>38. ASSUME NEW n \in Sandbox, preemptive_switch(w, n) PROVE Thread(w, Pos(w))'
    <2>1. n \in runq[w] /\ n # current[w] BY <1>38 DEF preemptive_switch, IsLocalHead
    <2>2. \/ ctxt[n] = "FAST" /\ saved[n] = "start"
          \/ ctxt[n] = "SLOW" /\ saved[n] \in UserPC
      BY <2>1, WaitingView
    <2>3. \/ ctxt[n] = "FAST" /\ state'[n] = "RUNNING_SYS"
          \/ ctxt[n] = "SLOW" /\ state'[n] = "RUNNING_USER"
      BY <1>t, <1>38 DEF preemptive_switch
    <2>4. current'[w] = n /\ exec'[w] = n BY <1>t, <1>38 DEF preemptive_switch
    <2> QED BY <1>36, <1>38, <2>1, <2>2, <2>3, <2>4 DEF preemptive_switch, queues
  <1>39. CASE sigusr1(w)
    <2>1. /\ current[w] \in Sandbox /\ current[w] \in runq[w] /\ state[current[w]] = "PREEMPTED"
      BY <1>39, SwitchView DEF sigusr1
    <2>2. saved[current[w]] \in UserPC BY <2>1, ReadyView
    <2>3. state'[current[w]] = "RUNNING_USER" /\ exec'[w] = current[w]
      BY <1>t, <1>39, <2>1 DEF sigusr1, SetState
    <2> QED BY <1>36, <1>39, <2>1, <2>2, <2>3 DEF sigusr1, queues
  <1> QED
    BY <1>11, <1>12, <1>13, <1>14, <1>15, <1>16, <1>17, <1>18, <1>19, <1>20, <1>21, <1>22, <1>24,
       <1>25, <1>26, <1>27, <1>29, <1>30, <1>31, <1>32, <1>33, <1>34, <1>35, <1>37, <1>38, <1>39
    DEF Step, WorkerStep, UserStep

\* No SIGALRM is left deferred where the thread that steps would not see it.
LEMMA SignalOwn ==
    ASSUME IInv, ~Aborted, NEW w \in Worker, Step(w)
    PROVE  Signal(w)'
  <1>s. Signal(w) BY DEF IInv, SignalInv
  <1>t. /\ state \in [Sandbox -> SandboxState] /\ deferred \in [Worker -> BOOLEAN]
        /\ pc \in [Worker -> PC] /\ intr \in [Worker -> PC \cup {"none"}]
        /\ current \in [Worker -> Sandbox \cup {NULL}]
    BY DEF IInv, TypeOK
  <1>p. \A p : Goto(w, p) => pc'[w] = p BY <1>t DEF Goto
  <1>d. software_interrupt_deferred_sigalrm_clear(w) => ~deferred'[w]
    BY <1>t DEF software_interrupt_deferred_sigalrm_clear
  \* The forms of change: nothing is deferred, nothing forbids it, the program point stays.
  <1>1. ASSUME ~deferred'[w], pc'[w] # "sigusr1" PROVE Signal(w)'
    BY <1>1 DEF Signal
  <1>2. ASSUME Pos(w)' \notin BasePC \cup Dispatch \cup {"raise", "user"}, pc'[w] # "sigusr1",
               Pos(w)' # "switch" \/ current'[w] # NULL
        PROVE  Signal(w)'
    BY <1>2 DEF Signal
  <1>3. ASSUME UNCHANGED <<deferred, current>>, Pos(w)' = Pos(w), pc'[w] # "sigusr1" PROVE Signal(w)'
    BY <1>s, <1>3 DEF Signal
  <1>4. ASSUME pc[w] \in Dispatch, pc'[w] \in Dispatch, UNCHANGED <<intr, current, deferred>>
        PROVE  Signal(w)'
    <2>1. pc'[w] # "sigusr1" BY <1>4 DEF Dispatch, GetNextPC
    <2>2. CASE intr[w] = "none" BY <1>1, <1>4, <2>1, <2>2, CooperativeView
    <2>3. CASE intr[w] # "none" BY <1>3, <1>4, <2>1, <2>3 DEF Pos
    <2> QED BY <2>2, <2>3
  <1>5. ASSUME NEW p, Goto(w, p), intr[w] = "none", intr' = intr,
               p \notin BasePC \cup Dispatch \cup {"raise", "user", "switch", "sigusr1"}
        PROVE  Signal(w)'
    BY <1>2, <1>p, <1>5 DEF Pos
  <1>6. ASSUME NEW ts, NEW r, sigalrm_enter(w, r, ts), UNCHANGED <<current, deferred>>, intr[w] = "none",
               \/ r = pc[w] /\ pc[w] # "paused"
               \/ r = "idle" /\ pc[w] = "paused"
               \/ r = "user" /\ pc[w] = "raise"
        PROVE  Signal(w)'
    <2>1. pc[w] # "none" BY <1>6, InterruptView
    <2>2. intr'[w] = r /\ r # "none" /\ pc'[w] = "sigalrm" BY <1>t, <1>p, <1>6, <2>1 DEF sigalrm_enter
    <2>3. CASE r = pc[w] BY <1>3, <1>6, <2>2, <2>3 DEF Pos
    <2>4. CASE r # pc[w]
      <3>1. ~deferred[w] BY <1>6, <2>4, BaseView, UserView DEF BasePC, UserPC
      <3> QED BY <1>1, <1>6, <2>2, <3>1
    <2> QED BY <2>3, <2>4
  <1>7. CASE edf_peek(w)
    BY <1>4, <1>p, <1>7 DEF edf_peek, signals, Dispatch, GetNextPC
  <1>8. CASE edf_remove_if_earlier(w)
    BY <1>4, <1>p, <1>8 DEF edf_remove_if_earlier, signals, Dispatch, GetNextPC
  <1>9. CASE edf_prepare(w)
    BY <1>4, <1>p, <1>9 DEF edf_prepare, signals, Dispatch, GetNextPC
  <1>10. CASE edf_set_as_runnable(w)
    BY <1>4, <1>p, <1>10 DEF edf_set_as_runnable, signals, Dispatch, GetNextPC
  <1>11. CASE scheduler_idle_loop(w)
    BY <1>1, <1>p, <1>11, BaseView DEF scheduler_idle_loop, signals, BasePC
  <1>12. CASE idle_cleanup(w)
    BY <1>1, <1>p, <1>12, BaseView DEF idle_cleanup, signals, BasePC
  <1>13. CASE scheduler_cooperative_sched(w)
    BY <1>5, <1>13, EndView DEF scheduler_cooperative_sched, BasePC, Dispatch, GetNextPC
  <1>14. CASE cooperative_clear(w)
    BY <1>1, <1>p, <1>d, <1>14 DEF cooperative_clear
  <1>15. CASE cooperative_choose(w)
    <2>1. ~deferred[w] BY <1>15, CooperativeView DEF cooperative_choose, Dispatch
    <2> QED BY <1>1, <1>p, <1>15, <2>1 DEF cooperative_choose, signals
  <1>16. CASE cooperative_switch_fast(w)
    <2>1. current[w] \in Sandbox /\ intr[w] = "none" BY <1>16, SwitchView DEF cooperative_switch_fast
    <2>2. saved[current[w]] = "start" BY <1>16, <2>1, ReadyView DEF cooperative_switch_fast
    <2> QED BY <1>5, <1>16, <2>1, <2>2 DEF cooperative_switch_fast, BasePC, Dispatch, GetNextPC
  <1>17. CASE cooperative_switch_slow(w)
    <2>1. /\ UNCHANGED <<current, state>> /\ intr'[w] = "switch"
          /\ current[w] # NULL /\ state[current[w]] = "PREEMPTED"
      BY <1>t, <1>17 DEF cooperative_switch_slow
    <2>2. Pos(w)' = "switch" BY <2>1 DEF Pos
    <2> QED BY <2>1, <2>2 DEF Signal, BasePC, Dispatch, GetNextPC
  <1>18. CASE scheduler_switch_to_base_context(w)
    BY <1>1, <1>p, <1>18, SwitchView DEF scheduler_switch_to_base_context, signals
  <1>19. CASE sandbox_return(w)
    BY <1>5, <1>19, SysView DEF sandbox_return, SysPC, BasePC, Dispatch, GetNextPC
  <1>20. CASE deferred_sigalrm_replay(w)
    <2>1. UNCHANGED <<intr, deferred>> /\ pc[w] \in UserPC
      BY <1>20 DEF deferred_sigalrm_replay, signals, UserPC
    <2>2. intr[w] = "none" BY <2>1, UserView
    <2>3. CASE deferred[w]
      BY <1>5, <1>20, <2>1, <2>2, <2>3 DEF deferred_sigalrm_replay, BasePC, Dispatch, GetNextPC
    <2>4. CASE ~deferred[w]
      BY <1>1, <1>p, <1>20, <2>1, <2>4 DEF deferred_sigalrm_replay
    <2> QED BY <2>3, <2>4
  <1>21. CASE deferred_sigalrm_clear(w)
    BY <1>1, <1>p, <1>d, <1>21 DEF deferred_sigalrm_clear
  <1>22. ASSUME NEW l \in ModuleDoes, sandbox_syscall(w, l) PROVE Signal(w)'
    <2>1. l \notin BasePC \cup Dispatch \cup {"raise", "user", "switch", "sigusr1"}
      BY OptionsAssumption DEF BasePC, Dispatch, GetNextPC
    <2> QED BY <1>5, <1>22, <2>1, UserView DEF sandbox_syscall, UserPC
  <1>23. CASE sandbox_set_as_returned(w)
    BY <1>5, <1>23, SysView DEF sandbox_set_as_returned, SysPC, BasePC, Dispatch, GetNextPC
  <1>24. CASE sandbox_exit_success(w)
    BY <1>5, <1>24, EndView DEF sandbox_exit_success, BasePC, Dispatch, GetNextPC
  <1>25. CASE sandbox_exit_error(w)
    BY <1>5, <1>25, SysView DEF sandbox_exit_error, SysPC, BasePC, Dispatch, GetNextPC
  <1>26. CASE sigalrm_kernel(w)
    BY <1>6, <1>26 DEF sigalrm_kernel
  <1>27. CASE sigalrm_tkill(w)
    BY <1>6, <1>27 DEF sigalrm_tkill
  <1>28. CASE sigalrm_raise(w)
    BY <1>6, <1>28, UserView DEF sigalrm_raise, UserPC
  <1>29. ASSUME NEW v \in Worker, propagate_sigalrm(w, v) PROVE Signal(w)'
    BY <1>3, <1>29 DEF propagate_sigalrm, control, Pos
  <1>30. CASE sigalrm_dispatch(w)
    <2>1. current' = current /\ pc[w] = "sigalrm" BY <1>30 DEF sigalrm_dispatch
    <2>2. /\ intr[w] # "none" /\ intr[w] \notin HandlerPC
          /\ current[w] # NULL /\ state[current[w]] # "INTERRUPTED" =>
               intr[w] \notin BasePC \cup Dispatch \cup UserPC
      BY <2>1, AlarmView
    <2>3. \/ /\ deferred' = deferred
             /\ (intr' = intr /\ pc'[w] = "peek") \/ (intr'[w] = "none" /\ pc'[w] = intr[w])
          \/ /\ current[w] # NULL /\ state[current[w]] # "INTERRUPTED"
             /\ intr'[w] = "none" /\ pc'[w] = intr[w]
      BY <1>t, <1>p, <1>30 DEF sigalrm_dispatch
    <2>4. Pos(w)' = Pos(w) /\ Pos(w) = intr[w] /\ pc'[w] # "sigusr1" BY <2>2, <2>3 DEF Pos, HandlerPC
    <2>5. CASE deferred' = deferred BY <1>3, <2>1, <2>4, <2>5
    <2>6. CASE current[w] # NULL /\ state[current[w]] # "INTERRUPTED"
      BY <1>2, <2>1, <2>2, <2>4, <2>6 DEF UserPC
    <2> QED BY <2>3, <2>5, <2>6
  <1>31. CASE preemptive_resume(w)
    <2>1. UNCHANGED <<current, deferred>> /\ intr'[w] = "none" /\ pc'[w] = intr[w] /\ intr[w] # "none"
      BY <1>t, <1>p, <1>31 DEF preemptive_resume, signals
    <2>2. intr[w] \in UserPC BY <1>31, PreemptView DEF preemptive_resume, Dispatch
    <2> QED BY <1>3, <2>1, <2>2 DEF Pos, UserPC
  <1>32. ASSUME NEW n \in Sandbox, preemptive_switch(w, n) PROVE Signal(w)'
    <2>1. n \in runq[w] /\ n # current[w] BY <1>32 DEF preemptive_switch, IsLocalHead
    <2>2. \/ ctxt[n] = "FAST" /\ saved[n] = "start"
          \/ ctxt[n] = "SLOW" /\ saved[n] \in UserPC
      BY <2>1, WaitingView
    <2>3. intr'[w] = "none" /\ pc'[w] = saved[n] BY <1>t, <1>p, <1>32 DEF preemptive_switch
    <2>4. ctxt[n] = "SLOW" => ~deferred'[w] BY <1>d, <1>32 DEF preemptive_switch, replay_masked
    <2>5. CASE saved[n] = "start"
      BY <1>2, <2>3, <2>5 DEF Pos, BasePC, Dispatch, GetNextPC
    <2>6. CASE ctxt[n] = "SLOW" /\ saved[n] \in UserPC
      BY <1>1, <2>3, <2>4, <2>6 DEF UserPC
    <2> QED BY <2>2, <2>5, <2>6
  <1>33. CASE sigusr1(w)
    <2>1. current[w] \in Sandbox /\ state[current[w]] = "PREEMPTED"
      BY <1>33, SwitchView DEF sigusr1
    <2>2. saved[current[w]] \in UserPC BY <2>1, ReadyView
    <2> QED BY <1>1, <1>p, <1>d, <1>33, <2>2 DEF sigusr1, replay_masked, UserPC
  <1> QED
    BY <1>7, <1>8, <1>9, <1>10, <1>11, <1>12, <1>13, <1>14, <1>15, <1>16, <1>17, <1>18,
       <1>19, <1>20, <1>21, <1>22, <1>23, <1>24, <1>25, <1>26, <1>27, <1>28, <1>29, <1>30, <1>31,
       <1>32, <1>33
    DEF Step, WorkerStep, UserStep

-----------------------------------------------------------------------------
(***************************************************************************)
(* What a step of a worker does to the structures that hold the sandboxes: *)
(* each holds sandboxes in the right state, and none is lost.              *)
(***************************************************************************)
\* What the worker that steps holds is in the state its place calls for.
LEMMA PlaceOwn ==
    ASSUME IInv, ~Aborted, NEW w \in Worker, Step(w)
    PROVE  Place(w)'
  <1>a. Place(w) /\ Global BY DEF IInv, PlaceInv
  <1>t. /\ state \in [Sandbox -> SandboxState]
        /\ pc \in [Worker -> PC] /\ intr \in [Worker -> PC \cup {"none"}]
        /\ exec \in [Worker -> Sandbox \cup {Base}]
        /\ current \in [Worker -> Sandbox \cup {NULL}] /\ inhand \in [Worker -> Sandbox \cup {NULL}]
        /\ runq \in [Worker -> SUBSET Sandbox] /\ cleanup \in [Worker -> SUBSET Sandbox]
        /\ globalq \subseteq Sandbox
    BY DEF IInv, TypeOK
  <1>n. Base \notin Sandbox /\ NULL \notin Sandbox BY NamesAssumption
  <1>p. \A p : Goto(w, p) => pc'[w] = p BY <1>t DEF Goto
  <1>h. inhand[w] # NULL => inhand[w] \in Sandbox /\ state[inhand[w]] = "INITIALIZED" BY InHandView
  <1>r. runq[w] \subseteq Sandbox /\ cleanup[w] \subseteq Sandbox BY <1>t
  <1>x. ASSUME pc[w] \in Dispatch \cup UserPC \cup SysPC \cup BasePC \cup {"returned", "exit", "coop"}
        PROVE  exec[w] \notin cleanup[w]
    <2>1. intr[w] \in UserPC \cup {"none"} BY <1>x, PreemptView, UserView, SysView, BaseView, EndView
    <2>2. Pos(w) # "switch"
      BY <1>x, <2>1 DEF Pos, Dispatch, GetNextPC, UserPC, SysPC, BasePC
    <2> QED BY <1>a, <2>2 DEF Place
  \* The forms of change: sandboxes leave the structures of the worker or change their state,
  \* nothing changes, the current sandbox changes its state, the cleanup queue is freed.
  <1>1. ASSUME UNCHANGED <<inhand, globalq, lhand>>,
               runq'[w] \subseteq runq[w], cleanup'[w] \subseteq cleanup[w],
               \A s \in Sandbox :
                   \/ state'[s] = state[s]
                   \/ /\ state[s] \notin Terminal \cup {"INITIALIZED"}
                      /\ s \notin runq'[w] \/ state'[s] \in QueuedStates
                   \/ s \in cleanup[w] /\ s \notin cleanup'[w],
               exec'[w] \in cleanup'[w] => Pos(w)' = "switch"
        PROVE  Place(w)'
    <2>1. \A s \in cleanup[w] : state[s] \in Terminal BY <1>a DEF Place
    <2>2. \A s \in runq[w] : state[s] \in QueuedStates BY <1>a DEF Place
    <2>3. \A s \in Sandbox : state[s] = "INITIALIZED" => state'[s] = "INITIALIZED"
      BY <1>1, <2>1 DEF Terminal
    <2>4. inhand'[w] # NULL => /\ inhand'[w] \notin globalq' /\ inhand'[w] # lhand'
                               /\ state'[inhand'[w]] = "INITIALIZED"
      BY <1>a, <1>h, <1>1, <2>3 DEF Place
    <2>5. \A s \in runq'[w] : state'[s] \in QueuedStates
      BY <1>1, <1>r, <2>1, <2>2 DEF Terminal, QueuedStates
    <2>6. \A s \in cleanup'[w] : state'[s] \in Terminal
      BY <1>1, <1>r, <2>1
    <2> QED BY <1>1, <2>4, <2>5, <2>6 DEF Place
  <1>2. ASSUME UNCHANGED <<inhand, globalq, lhand, runq, cleanup, state>>,
               exec'[w] \in cleanup[w] => Pos(w)' = "switch"
        PROVE  Place(w)'
    BY <1>1, <1>2
  <1>3. ASSUME UNCHANGED <<inhand, globalq, lhand, cleanup>>, NEW n \in Sandbox, NEW x, SetState(n, x),
               state[n] \in QueuedStates \cup {"RETURNED"},
               (runq' = runq /\ (x \in QueuedStates \/ n \notin runq[w])) \/ local_runqueue_delete(w, n),
               exec'[w] = n \/ exec'[w] \notin cleanup[w] \/ Pos(w)' = "switch"
        PROVE  Place(w)'
    <2>1. runq'[w] \subseteq runq[w] /\ (n \notin runq'[w] \/ x \in QueuedStates)
      BY <1>t, <1>3 DEF local_runqueue_delete
    <2>2. state'[n] = x /\ \A s \in Sandbox : s # n => state'[s] = state[s] BY <1>t, <1>3 DEF SetState
    <2>3. state[n] \notin Terminal \cup {"INITIALIZED"} BY <1>3 DEF Terminal, QueuedStates
    <2>4. n \notin cleanup[w] BY <1>a, <2>3 DEF Place
    <2> QED BY <1>1, <1>3, <2>1, <2>2, <2>3, <2>4
  <1>4. ASSUME UNCHANGED <<inhand, globalq, lhand, runq>>, local_cleanup_queue_free(w)
        PROVE  Place(w)'
    <2>1. cleanup'[w] = {} /\ \A s \in Sandbox : s \in cleanup[w] \/ state'[s] = state[s]
      BY <1>t, <1>4 DEF local_cleanup_queue_free
    <2> QED BY <1>1, <1>4, <2>1
  <1>5. ASSUME NEW ts, NEW r, sigalrm_enter(w, r, ts), intr[w] = "none",
               UNCHANGED <<inhand, globalq, lhand, runq, cleanup, exec>>, pc[w] = "switch" => r = "switch"
        PROVE  Place(w)'
    <2>1. intr'[w] = r BY <1>t, <1>5 DEF sigalrm_enter
    <2>2. exec[w] \in cleanup[w] => Pos(w)' = "switch" BY <1>a, <1>5, <2>1 DEF Place, Pos
    <2>3. CASE state' = state BY <1>2, <1>5, <2>2, <2>3
    <2>4. CASE current_sandbox_is_preemptable(w) /\ SetState(current[w], "INTERRUPTED")
      <3>1. current[w] \in Sandbox /\ state[current[w]] = "RUNNING_USER"
        BY <1>5, <2>4, InterruptView DEF current_sandbox_is_preemptable
      <3> QED BY <1>3, <1>5, <2>2, <2>4, <3>1 DEF QueuedStates
    <2> QED BY <1>5, <2>3, <2>4 DEF sigalrm_enter, SetState
  <1>6. CASE edf_peek(w) \/ scheduler_idle_loop(w)
    BY <1>2, <1>x, <1>6 DEF edf_peek, scheduler_idle_loop, sandboxes, queues, listener, Dispatch,
       GetNextPC,
       BasePC
  <1>7. CASE scheduler_cooperative_sched(w) \/ deferred_sigalrm_replay(w) \/ deferred_sigalrm_clear(w)
    BY <1>2, <1>x, <1>7 DEF scheduler_cooperative_sched, deferred_sigalrm_replay,
       deferred_sigalrm_clear,
       sandboxes, queues, listener, UserPC
  <1>8. CASE edf_remove_if_earlier(w)
    <2>1. UNCHANGED <<exec, state, lhand, runq, cleanup>> /\ pc[w] = "pull"
      BY <1>8 DEF edf_remove_if_earlier, sandboxes, listener
    <2>2. exec[w] \notin cleanup[w] BY <1>x, <2>1 DEF Dispatch, GetNextPC
    <2>3. CASE UNCHANGED <<globalq, inhand>> BY <1>2, <2>1, <2>2, <2>3
    <2>4. ASSUME NEW s \in globalq, global_request_scheduler_remove(s), inhand' = [inhand EXCEPT ![w] = s]
          PROVE  Place(w)'
      <3>1. inhand'[w] = s /\ s \notin globalq' BY <1>t, <2>4 DEF global_request_scheduler_remove
      <3>2. s \in Sandbox BY <1>t
      <3>3. s # lhand /\ state[s] = "INITIALIZED" BY <1>a, <1>n, <3>2 DEF Global
      <3> QED BY <1>a, <2>1, <2>2, <3>1, <3>3 DEF Place
    <2> QED BY <1>8, <2>3, <2>4 DEF edf_remove_if_earlier
  <1>9. CASE edf_prepare(w)
    <2>1. UNCHANGED <<exec, inhand, lhand, globalq, runq, cleanup>> /\ pc'[w] = "dispatch" /\ pc[w] = "prepare"
      BY <1>p, <1>9 DEF edf_prepare, queues, listener
    <2>2. inhand[w] \in Sandbox /\ inhand[w] # NULL /\ state[inhand[w]] = "INITIALIZED"
      BY <2>1, InHandView
    <2>3. /\ state'[inhand[w]] \in {"INITIALIZED", "ERROR"}
          /\ \A s \in Sandbox : s # inhand[w] => state'[s] = state[s]
      BY <1>t, <1>9, <2>2 DEF edf_prepare, SetState
    <2>4. exec[w] \notin cleanup[w] BY <1>x, <2>1 DEF Dispatch, GetNextPC
    <2>5. /\ \A s \in runq[w] : s # inhand[w] /\ s \in Sandbox /\ state[s] \in QueuedStates
          /\ \A s \in cleanup[w] : s # inhand[w] /\ s \in Sandbox /\ state[s] \in Terminal
      BY <1>a, <1>r, <2>2 DEF Place, QueuedStates, Terminal
    <2>6. inhand[w] \notin globalq /\ inhand[w] # lhand BY <1>a, <2>2 DEF Place
    <2> QED BY <2>1, <2>3, <2>4, <2>5, <2>6 DEF Place
  <1>10. CASE edf_set_as_runnable(w)
    <2>1. UNCHANGED <<exec, cleanup>> /\ pc[w] = "dispatch" BY <1>10 DEF edf_set_as_runnable
    <2>2. inhand[w] \in Sandbox /\ state[inhand[w]] = "INITIALIZED" BY <2>1, InHandView
    <2>3. /\ state'[inhand[w]] = "RUNNABLE"
          /\ \A s \in Sandbox : s # inhand[w] => state'[s] = state[s]
      BY <1>t, <1>10, <2>2 DEF edf_set_as_runnable, SetState
    <2>4. inhand'[w] = NULL /\ runq'[w] = runq[w] \cup {inhand[w]}
      BY <1>t, <1>10 DEF edf_set_as_runnable, local_runqueue_add
    <2>5. exec[w] \notin cleanup[w] BY <1>x, <2>1 DEF Dispatch, GetNextPC
    <2>6. /\ \A s \in runq[w] : s \in Sandbox /\ state[s] \in QueuedStates
          /\ \A s \in cleanup[w] : s # inhand[w] /\ s \in Sandbox /\ state[s] \in Terminal
      BY <1>a, <1>r, <2>2 DEF Place, Terminal
    <2>7. \A s \in runq'[w] : state'[s] \in QueuedStates BY <2>3, <2>4, <2>6 DEF QueuedStates
    <2> QED BY <2>1, <2>3, <2>4, <2>5, <2>6, <2>7 DEF Place
  <1>11. CASE idle_cleanup(w)
    BY <1>4, <1>11 DEF idle_cleanup, listener
  <1>12. CASE cooperative_clear(w)
    BY <1>4, <1>12 DEF cooperative_clear, listener
  <1>13. CASE cooperative_choose(w)
    <2>1. /\ UNCHANGED <<exec, intr, inhand, globalq, lhand, runq, state>>
          /\ pc[w] = "choose" /\ intr[w] = "none"
      BY <1>13 DEF cooperative_choose, sandboxes, listener
    <2>2. exec[w] = Base \/ state[exec[w]] \in Terminal BY <2>1, CooperativeView DEF Dispatch
    <2>3. cleanup'[w] = cleanup[w] \cup ExitingSandbox(w) BY <1>t, <1>13 DEF cooperative_choose
    <2>4. \A s \in cleanup'[w] : s \in cleanup[w] \/ (s = exec[w] /\ exec[w] # Base)
      BY <2>3 DEF ExitingSandbox
    <2>5. exec[w] # Base => Pos(w)' = "switch" BY <1>p, <1>13, <2>1 DEF cooperative_choose, Pos
    <2>6. exec[w] \notin cleanup[w] BY <1>x, <2>1 DEF Dispatch
    <2>7. \A s \in cleanup'[w] : state'[s] \in Terminal BY <1>a, <2>1, <2>2, <2>4 DEF Place
    <2>8. exec'[w] \in cleanup'[w] => Pos(w)' = "switch" BY <2>1, <2>4, <2>5, <2>6
    <2> QED BY <1>a, <1>h, <2>1, <2>7, <2>8 DEF Place
  <1>14. CASE cooperative_switch_fast(w)
    <2>1. current[w] \in Sandbox /\ state[current[w]] = "RUNNABLE"
      BY <1>14, SwitchView DEF cooperative_switch_fast
    <2>2. exec'[w] = current[w] BY <1>t, <1>14 DEF cooperative_switch_fast
    <2> QED BY <1>3, <1>14, <2>1, <2>2 DEF cooperative_switch_fast, queues, listener, QueuedStates
  <1>15. CASE cooperative_switch_slow(w)
    <2>1. intr'[w] = "switch" BY <1>t, <1>15 DEF cooperative_switch_slow
    <2> QED BY <1>2, <1>15, <2>1 DEF cooperative_switch_slow, queues, listener, Pos
  <1>16. CASE scheduler_switch_to_base_context(w)
    <2>1. exec'[w] = Base BY <1>t, <1>16 DEF scheduler_switch_to_base_context
    <2>2. exec'[w] \notin cleanup[w] BY <1>n, <1>r, <2>1
    <2> QED BY <1>2, <1>16, <2>2 DEF scheduler_switch_to_base_context, queues, listener
  \* On the stack of a sandbox.
  <1>17. ASSUME pc[w] \in UserPC \cup SysPC, NEW x, SetState(current[w], x),
               UNCHANGED <<exec, inhand, globalq, lhand, cleanup>>,
               (runq' = runq /\ x \in QueuedStates) \/ local_runqueue_delete(w, current[w])
        PROVE  Place(w)'
    <2>1. current[w] \in Sandbox /\ state[current[w]] \in QueuedStates
      BY <1>17, UserView, SysView DEF QueuedStates
    <2>2. exec[w] \notin cleanup[w] BY <1>x, <1>17
    <2> QED BY <1>3, <1>17, <2>1, <2>2
  <1>18. CASE sandbox_return(w)
    BY <1>17, <1>18 DEF sandbox_return, queues, listener, SysPC, QueuedStates
  <1>19. ASSUME NEW l \in ModuleDoes, sandbox_syscall(w, l) PROVE Place(w)'
    BY <1>17, <1>19 DEF sandbox_syscall, queues, listener, UserPC, QueuedStates
  <1>20. CASE sandbox_set_as_returned(w)
    BY <1>17, <1>20 DEF sandbox_set_as_returned, listener, SysPC
  <1>21. CASE sandbox_exit_error(w)
    BY <1>17, <1>21 DEF sandbox_exit_error, listener, SysPC
  <1>22. CASE sandbox_exit_success(w)
    <2>1. current[w] \in Sandbox /\ state[current[w]] = "RETURNED"
      BY <1>22, EndView DEF sandbox_exit_success
    <2>2. current[w] \notin runq[w] BY <1>a, <2>1 DEF Place, QueuedStates
    <2>3. exec[w] \notin cleanup[w] BY <1>x, <1>22 DEF sandbox_exit_success
    <2> QED BY <1>3, <1>22, <2>1, <2>2, <2>3 DEF sandbox_exit_success, queues, listener
  <1>23. CASE sigalrm_kernel(w)
    BY <1>5, <1>23 DEF sigalrm_kernel, queues, listener
  <1>24. CASE sigalrm_tkill(w)
    BY <1>5, <1>24 DEF sigalrm_tkill, queues, listener
  <1>25. CASE sigalrm_raise(w)
    BY <1>5, <1>25, UserView DEF sigalrm_raise, queues, listener, UserPC
  <1>26. ASSUME NEW v \in Worker, propagate_sigalrm(w, v) PROVE Place(w)'
    BY <1>a, <1>26 DEF propagate_sigalrm, control, sandboxes, queues, listener, Place, Pos
  <1>27. CASE sigalrm_dispatch(w)
    <2>1. UNCHANGED <<exec, inhand, globalq, lhand, runq, cleanup, state>> /\ pc[w] = "sigalrm"
      BY <1>27 DEF sigalrm_dispatch, sandboxes, queues, listener
    <2>2. intr'[w] = intr[w] \/ (intr'[w] = "none" /\ pc'[w] = intr[w])
      BY <1>t, <1>p, <1>27 DEF sigalrm_dispatch
    <2>3. intr[w] # "none" BY <2>1, AlarmView
    <2>4. intr[w] = "switch" => Pos(w)' = "switch" BY <2>2 DEF Pos
    <2>5. exec[w] \in cleanup[w] => intr[w] = "switch" BY <1>a, <2>3 DEF Place, Pos
    <2> QED BY <1>2, <2>1, <2>4, <2>5
  <1>28. CASE preemptive_resume(w)
    <2>1. current[w] \in Sandbox /\ state[current[w]] = "INTERRUPTED"
      BY <1>28, PreemptView DEF preemptive_resume, Dispatch
    <2>2. exec[w] \notin cleanup[w] BY <1>x, <1>28 DEF preemptive_resume, Dispatch
    <2> QED BY <1>3, <1>28, <2>1, <2>2 DEF preemptive_resume, queues, listener, QueuedStates
  <1>29. ASSUME NEW n \in Sandbox, preemptive_switch(w, n) PROVE Place(w)'
    <2>1. n \in runq[w] /\ n # current[w] BY <1>29 DEF preemptive_switch, IsLocalHead
    <2>2. current[w] \in Sandbox /\ state[current[w]] = "INTERRUPTED"
      BY <1>29, PreemptView DEF preemptive_switch, Dispatch
    <2>3. state[n] \in {"RUNNABLE", "PREEMPTED"} BY <2>1, WaitingView
    <2>4. /\ state'[n] \in QueuedStates /\ state'[current[w]] \in QueuedStates
          /\ \A s \in Sandbox : s \notin {n, current[w]} => state'[s] = state[s]
      BY <1>t, <1>29, <2>2 DEF preemptive_switch, QueuedStates
    <2>5. UNCHANGED <<inhand, lhand, globalq, runq, cleanup>> /\ exec'[w] = n
      BY <1>t, <1>29 DEF preemptive_switch, queues, listener
    <2>6. n \notin cleanup[w] BY <1>a, <2>3 DEF Place, Terminal
    <2>7. \A s \in Sandbox : \/ state'[s] = state[s]
                             \/ /\ state[s] \notin Terminal \cup {"INITIALIZED"}
                                /\ state'[s] \in QueuedStates
      BY <2>2, <2>3, <2>4 DEF Terminal
    <2> QED BY <1>1, <2>5, <2>6, <2>7
  <1>30. CASE sigusr1(w)
    <2>1. current[w] \in Sandbox /\ state[current[w]] = "PREEMPTED"
      BY <1>30, SwitchView DEF sigusr1
    <2>2. exec'[w] = current[w] BY <1>t, <1>30 DEF sigusr1
    <2> QED BY <1>3, <1>30, <2>1, <2>2 DEF sigusr1, queues, listener, QueuedStates
  <1> QED
    BY <1>6, <1>7, <1>8, <1>9, <1>10, <1>11, <1>12, <1>13, <1>14, <1>15, <1>16, <1>18,
       <1>19, <1>20, <1>21, <1>22, <1>23, <1>24, <1>25, <1>26, <1>27, <1>28, <1>29, <1>30
    DEF Step, WorkerStep, UserStep

\* A step of a worker loses no sandbox.
LEMMA CoverOwn ==
    ASSUME IInv, ~Aborted, NEW w \in Worker, Step(w)
    PROVE  CoverInv'
  <1>t. /\ state \in [Sandbox -> SandboxState] /\ inhand \in [Worker -> Sandbox \cup {NULL}]
        /\ exec \in [Worker -> Sandbox \cup {Base}]
        /\ runq \in [Worker -> SUBSET Sandbox] /\ cleanup \in [Worker -> SUBSET Sandbox]
    BY DEF IInv, TypeOK
  \* The forms of change: to none of the structures, between states of the run queue, to
  \* the end of the current sandbox, and the release of what has ended.
  <1>1. CASE UNCHANGED <<state, globalq, lhand, inhand, runq, exec, cleanup>>
    BY <1>1 DEF IInv, CoverInv
  <1>2. ASSUME UNCHANGED <<globalq, lhand, inhand, runq, cleanup>>,
               \A s \in Sandbox : \/ state'[s] = state[s]
                                  \/ state[s] \in QueuedStates /\ state'[s] \in QueuedStates,
               \A v \in Worker : \/ exec'[v] = exec[v] \/ exec[v] = Base \/ exec[v] \in cleanup[v]
                                 \/ state[exec[v]] \in QueuedStates
        PROVE  CoverInv'
    <2> SUFFICES ASSUME NEW s \in Sandbox
                 PROVE  /\ state'[s] = "INITIALIZED" =>
                              s \in globalq \/ s = lhand \/ \E v \in Worker : inhand[v] = s
                        /\ state'[s] \in QueuedStates => \E v \in Worker : s \in runq[v]
                        /\ state'[s] \in {"RETURNED", "COMPLETE", "ERROR"} =>
                              \E v \in Worker : exec'[v] = s \/ s \in cleanup[v] \/ inhand[v] = s
      BY <1>2 DEF CoverInv
    <2>1. CASE state[s] \in QueuedStates /\ state'[s] \in QueuedStates
      BY <2>1 DEF IInv, CoverInv, QueuedStates
    <2>2. CASE state'[s] = state[s] /\ state[s] \in {"RETURNED", "COMPLETE", "ERROR"}
      <3>1. PICK v \in Worker : exec[v] = s \/ s \in cleanup[v] \/ inhand[v] = s
        BY <2>2 DEF IInv, CoverInv
      <3>2. exec[v] = s => exec'[v] = s \/ s \in cleanup[v]
        BY <1>2, <2>2, NamesAssumption DEF QueuedStates
      <3> QED BY <2>2, <3>1, <3>2 DEF QueuedStates
    <2>3. CASE state'[s] = state[s] /\ state[s] \notin {"RETURNED", "COMPLETE", "ERROR"}
      BY <2>3 DEF IInv, CoverInv
    <2> QED BY <1>2, <2>1, <2>2, <2>3
  <1>3. ASSUME NEW n \in Sandbox, NEW x \in QueuedStates, state[n] \in QueuedStates, SetState(n, x)
        PROVE  \A s \in Sandbox : \/ state'[s] = state[s]
                                  \/ state[s] \in QueuedStates /\ state'[s] \in QueuedStates
    BY <1>t, <1>3 DEF SetState
  <1>4. ASSUME NEW n \in Sandbox, exec[w] = n, NEW x \in {"RETURNED", "COMPLETE", "ERROR"},
               SetState(n, x), UNCHANGED <<globalq, lhand, inhand, exec, cleanup>>,
               runq' = runq \/ local_runqueue_delete(w, n)
        PROVE  CoverInv'
    <2>1. state'[n] = x /\ \A s \in Sandbox : s # n => state'[s] = state[s]
      BY <1>t, <1>4 DEF SetState
    <2>2. \A s \in Sandbox, v \in Worker : s # n /\ s \in runq[v] => s \in runq'[v]
      BY <1>t, <1>4 DEF local_runqueue_delete
    <2> SUFFICES ASSUME NEW s \in Sandbox
                 PROVE  /\ state'[s] = "INITIALIZED" =>
                              s \in globalq \/ s = lhand \/ \E v \in Worker : inhand[v] = s
                        /\ state'[s] \in QueuedStates => \E v \in Worker : s \in runq'[v]
                        /\ state'[s] \in {"RETURNED", "COMPLETE", "ERROR"} =>
                              \E v \in Worker : exec[v] = s \/ s \in cleanup[v] \/ inhand[v] = s
      BY <1>4 DEF CoverInv
    <2>3. CASE s = n BY <1>4, <2>1, <2>3 DEF QueuedStates
    <2>4. CASE s # n BY <2>1, <2>2, <2>4 DEF IInv, CoverInv
    <2> QED BY <2>3, <2>4
  <1>5. CASE local_cleanup_queue_free(w) /\ UNCHANGED <<globalq, lhand, inhand, runq, exec>>
    <2>1. \A s \in Sandbox : state'[s] = IF s \in cleanup[w] THEN "FREED" ELSE state[s]
      BY <1>5 DEF local_cleanup_queue_free
    <2>2. \A s \in Sandbox, v \in Worker : s \in cleanup[v] /\ s \notin cleanup[w] => s \in cleanup'[v]
      BY <1>t, <1>5 DEF local_cleanup_queue_free
    <2> SUFFICES ASSUME NEW s \in Sandbox
                 PROVE  /\ state'[s] = "INITIALIZED" =>
                              s \in globalq \/ s = lhand \/ \E v \in Worker : inhand[v] = s
                        /\ state'[s] \in QueuedStates => \E v \in Worker : s \in runq[v]
                        /\ state'[s] \in {"RETURNED", "COMPLETE", "ERROR"} =>
                              \E v \in Worker : exec[v] = s \/ s \in cleanup'[v] \/ inhand[v] = s
      BY <1>5 DEF CoverInv
    <2>3. CASE s \in cleanup[w] BY <2>1, <2>3 DEF QueuedStates
    <2>4. CASE s \notin cleanup[w] BY <2>1, <2>2, <2>4 DEF IInv, CoverInv
    <2> QED BY <2>3, <2>4
  <1>6. ASSUME NEW resume, NEW ts, sigalrm_enter(w, resume, ts),
               UNCHANGED <<globalq, lhand, inhand, runq, exec, cleanup>>
        PROVE  CoverInv'
    <2>1. CASE state' = state BY <1>1, <1>6, <2>1
    <2>2. CASE current_sandbox_is_preemptable(w) /\ SetState(current[w], "INTERRUPTED")
      BY <1>2, <1>3, <1>6, <2>2, CurrentView DEF current_sandbox_is_preemptable, QueuedStates
    <2> QED BY <1>6, <2>1, <2>2 DEF sigalrm_enter, SetState
  <1>7. CASE edf_peek(w) \/ scheduler_idle_loop(w) \/ scheduler_cooperative_sched(w)
               \/ deferred_sigalrm_replay(w) \/ deferred_sigalrm_clear(w) \/ cooperative_switch_slow(w)
               \/ sigalrm_dispatch(w)
    BY <1>1, <1>7 DEF edf_peek, scheduler_idle_loop, scheduler_cooperative_sched,
       deferred_sigalrm_replay, deferred_sigalrm_clear, cooperative_switch_slow, sigalrm_dispatch,
       sandboxes, queues, listener
  <1>8. ASSUME NEW v \in Worker, propagate_sigalrm(w, v) PROVE CoverInv'
    BY <1>1, <1>8 DEF propagate_sigalrm, control, sandboxes, queues, listener
  <1>9. CASE edf_remove_if_earlier(w)
    <2>1. inhand[w] = NULL
      BY <1>9, PreemptView DEF edf_remove_if_earlier, IInv, ControlInv, At, Dispatch, GetNextPC, UserPC
    <2> QED BY <1>t, <1>9, <2>1, NamesAssumption, SMT
            DEF edf_remove_if_earlier, global_request_scheduler_remove, IInv, CoverInv, sandboxes,
               listener
  <1>10. CASE edf_prepare(w)
    <2>1. CASE state' = state BY <1>1, <1>10, <2>1 DEF edf_prepare, queues, listener
    <2>2. CASE SetState(inhand[w], "ERROR")
      BY <1>t, <1>10, <2>2, InHandView, SMT DEF edf_prepare, SetState, queues, listener, IInv,
         CoverInv, QueuedStates
    <2> QED BY <1>10, <2>1, <2>2 DEF edf_prepare
  <1>11. CASE edf_set_as_runnable(w)
    BY <1>t, <1>11, InHandView, SMT
    DEF edf_set_as_runnable, local_runqueue_add, SetState, listener, IInv, CoverInv, QueuedStates
  <1>12. CASE idle_cleanup(w) \/ cooperative_clear(w)
    BY <1>5, <1>12 DEF idle_cleanup, cooperative_clear, listener
  <1>13. CASE cooperative_choose(w)
    <2>1. UNCHANGED <<state, globalq, lhand, inhand, runq, exec>>
      BY <1>13 DEF cooperative_choose, sandboxes, listener
    <2>2. \A v \in Worker : cleanup[v] \subseteq cleanup'[v] BY <1>t, <1>13 DEF cooperative_choose
    <2> QED BY <2>1, <2>2 DEF IInv, CoverInv
  <1>14. CASE cooperative_switch_fast(w)
    <2>1. current[w] \in Sandbox /\ (exec[w] = Base \/ exec[w] \in cleanup[w])
      BY <1>14, SwitchView DEF cooperative_switch_fast
    <2>2. \A v \in Worker : exec'[v] = exec[v] \/ v = w BY <1>t, <1>14 DEF cooperative_switch_fast
    <2> QED BY <1>2, <1>3, <1>14, <2>1, <2>2 DEF cooperative_switch_fast, QueuedStates, queues, listener
  <1>15. CASE scheduler_switch_to_base_context(w)
    <2>1. exec[w] = Base \/ exec[w] \in cleanup[w]
      BY <1>15, SwitchView DEF scheduler_switch_to_base_context
    <2>2. \A v \in Worker : exec'[v] = exec[v] \/ v = w
      BY <1>t, <1>15 DEF scheduler_switch_to_base_context
    <2> QED BY <1>2, <1>15, <2>1, <2>2 DEF scheduler_switch_to_base_context, queues, listener
  <1>16. CASE sandbox_return(w)
    <2>1. current[w] \in Sandbox /\ state[current[w]] = "RUNNING_SYS"
      BY <1>16, SysView DEF sandbox_return, SysPC
    <2> QED BY <1>2, <1>3, <1>16, <2>1 DEF sandbox_return, QueuedStates, queues, listener
  <1>17. ASSUME NEW l \in ModuleDoes, sandbox_syscall(w, l) PROVE CoverInv'
    <2>1. current[w] \in Sandbox /\ state[current[w]] = "RUNNING_USER"
      BY <1>17, UserView DEF sandbox_syscall, UserPC
    <2> QED BY <1>2, <1>3, <1>17, <2>1 DEF sandbox_syscall, QueuedStates, queues, listener
  <1>18. CASE sandbox_set_as_returned(w)
    <2>1. current[w] \in Sandbox /\ exec[w] = current[w]
      BY <1>18, SysView DEF sandbox_set_as_returned, SysPC
    <2> QED BY <1>4, <1>18, <2>1 DEF sandbox_set_as_returned, listener
  <1>19. CASE sandbox_exit_error(w)
    <2>1. current[w] \in Sandbox /\ exec[w] = current[w] BY <1>19, SysView DEF sandbox_exit_error, SysPC
    <2> QED BY <1>4, <1>19, <2>1 DEF sandbox_exit_error, listener
  <1>20. CASE sandbox_exit_success(w)
    <2>1. current[w] \in Sandbox /\ exec[w] = current[w] BY <1>20, EndView DEF sandbox_exit_success
    <2> QED BY <1>4, <1>20, <2>1 DEF sandbox_exit_success, queues, listener
  <1>21. CASE sigalrm_kernel(w)
    BY <1>6, <1>21 DEF sigalrm_kernel, queues, listener
  <1>22. CASE sigalrm_tkill(w) \/ sigalrm_raise(w)
    BY <1>6, <1>22 DEF sigalrm_tkill, sigalrm_raise, queues, listener
  <1>23. CASE preemptive_resume(w)
    <2>1. current[w] \in Sandbox /\ state[current[w]] = "INTERRUPTED"
      BY <1>23, PreemptView DEF preemptive_resume, Dispatch
    <2> QED BY <1>2, <1>3, <1>23, <2>1 DEF preemptive_resume, QueuedStates, queues, listener
  <1>24. ASSUME NEW n \in Sandbox, preemptive_switch(w, n) PROVE CoverInv'
    <2>1. state[n] \in QueuedStates
      BY <1>24, WaitingView DEF preemptive_switch, IsLocalHead, QueuedStates
    <2>2. state[current[w]] \in QueuedStates /\ current[w] \in Sandbox /\ exec[w] = current[w]
      BY <1>24, PreemptView DEF preemptive_switch, Dispatch, QueuedStates
    <2>3. \A s \in Sandbox : \/ state'[s] = state[s]
                             \/ state[s] \in QueuedStates /\ state'[s] \in QueuedStates
      BY <1>t, <1>24, <2>1, <2>2 DEF preemptive_switch, QueuedStates
    <2>4. \A v \in Worker : exec'[v] = exec[v] \/ v = w BY <1>t, <1>24 DEF preemptive_switch
    <2> QED BY <1>2, <1>24, <2>2, <2>3, <2>4 DEF preemptive_switch, queues, listener
  <1>25. CASE sigusr1(w)
    <2>1. current[w] \in Sandbox /\ state[current[w]] = "PREEMPTED" /\ (exec[w] = Base \/ exec[w] \in cleanup[w])
      BY <1>25, SwitchView DEF sigusr1
    <2>2. \A v \in Worker : exec'[v] = exec[v] \/ v = w BY <1>t, <1>25 DEF sigusr1
    <2> QED BY <1>2, <1>3, <1>25, <2>1, <2>2 DEF sigusr1, QueuedStates, queues, listener
  <1> QED
    BY <1>7, <1>8, <1>9, <1>10, <1>11, <1>12, <1>13, <1>14, <1>15, <1>16, <1>17, <1>18, <1>19,
       <1>20, <1>21, <1>22, <1>23, <1>24, <1>25 DEF Step, WorkerStep, UserStep

-----------------------------------------------------------------------------
(***************************************************************************)
(* What a step of a worker does to the sandboxes it holds: their sessions, *)
(* their contexts and their deadlines.  One step per action.               *)
(***************************************************************************)
\* Sessions stay open until they are answered.
LEMMA HttpOwn ==
    ASSUME IInv, ~Aborted, NEW w \in Worker, Step(w)
    PROVE  HttpInv'
  <1>t. /\ state \in [Sandbox -> SandboxState]
        /\ http \in [Sandbox -> {"none", "open", "200", "500"}]
    BY DEF IInv, TypeOK
  \* The forms of change: to no state, to one state that allows the same sessions, with an
  \* answer, and the release of what has ended.
  <1>1. CASE UNCHANGED <<state, http>>
    BY <1>1 DEF IInv, HttpInv, Session
  <1>2. ASSUME NEW n \in Sandbox, NEW x, SetState(n, x), http' = http,
               \/ state[n] \in QueuedStates \cup {"INITIALIZED"} /\ x \in QueuedStates
               \/ state[n] = "RETURNED" /\ x = "COMPLETE"
        PROVE  HttpInv'
    <2>1. state'[n] = x /\ \A s \in Sandbox : s # n => state'[s] = state[s]
      BY <1>t, <1>2 DEF SetState
    <2> SUFFICES ASSUME NEW s \in Sandbox PROVE Session(s)' BY DEF HttpInv
    <2>2. Session(s) BY DEF IInv, HttpInv
    <2>3. CASE s = n BY <1>2, <2>1, <2>2, <2>3 DEF Session, QueuedStates
    <2>4. CASE s # n BY <1>2, <2>1, <2>2, <2>4 DEF Session
    <2> QED BY <2>3, <2>4
  <1>3. ASSUME NEW n \in Sandbox, NEW x \in {"RETURNED", "ERROR"}, NEW code \in {"200", "500"},
               SetState(n, x), http_session_send_response(n, code)
        PROVE  HttpInv'
    <2>1. /\ state'[n] = x /\ http'[n] = code
          /\ \A s \in Sandbox : s # n => state'[s] = state[s] /\ http'[s] = http[s]
      BY <1>t, <1>3 DEF SetState, http_session_send_response
    <2> SUFFICES ASSUME NEW s \in Sandbox PROVE Session(s)' BY DEF HttpInv
    <2>2. Session(s) BY DEF IInv, HttpInv
    <2>3. CASE s = n BY <1>3, <2>1, <2>3 DEF Session, QueuedStates
    <2>4. CASE s # n BY <2>1, <2>2, <2>4 DEF Session
    <2> QED BY <2>3, <2>4
  <1>4. CASE local_cleanup_queue_free(w) /\ http' = http
    <2>1. \A s \in Sandbox : state'[s] = IF s \in cleanup[w] THEN "FREED" ELSE state[s]
      BY <1>4 DEF local_cleanup_queue_free
    <2>2. \A s \in Sandbox : s \in cleanup[w] => state[s] \in Terminal BY DEF IInv, PlaceInv, Place
    <2> SUFFICES ASSUME NEW s \in Sandbox PROVE Session(s)' BY DEF HttpInv
    <2>3. Session(s) BY DEF IInv, HttpInv
    <2>4. CASE s \in cleanup[w]
      BY <1>4, <2>1, <2>2, <2>3, <2>4 DEF Session, QueuedStates, Terminal
    <2>5. CASE s \notin cleanup[w] BY <1>4, <2>1, <2>3, <2>5 DEF Session
    <2> QED BY <2>4, <2>5
  <1>5. ASSUME NEW resume, NEW ts, sigalrm_enter(w, resume, ts), http' = http PROVE HttpInv'
    <2>1. CASE state' = state BY <1>1, <1>5, <2>1
    <2>2. CASE current_sandbox_is_preemptable(w) /\ SetState(current[w], "INTERRUPTED")
      BY <1>2, <1>5, <2>2, CurrentView DEF current_sandbox_is_preemptable, QueuedStates
    <2> QED BY <1>5, <2>1, <2>2 DEF sigalrm_enter, SetState
  <1>6. CASE edf_peek(w) \/ edf_remove_if_earlier(w) \/ scheduler_idle_loop(w)
               \/ scheduler_cooperative_sched(w) \/ cooperative_choose(w)
    BY <1>1, <1>6 DEF edf_peek, edf_remove_if_earlier, scheduler_idle_loop,
       scheduler_cooperative_sched, cooperative_choose, sandboxes
  <1>7. CASE cooperative_switch_slow(w) \/ scheduler_switch_to_base_context(w)
               \/ deferred_sigalrm_replay(w) \/ deferred_sigalrm_clear(w) \/ sigalrm_dispatch(w)
    BY <1>1, <1>7 DEF cooperative_switch_slow, scheduler_switch_to_base_context,
       deferred_sigalrm_replay, deferred_sigalrm_clear, sigalrm_dispatch, sandboxes
  <1>8. ASSUME NEW v \in Worker, propagate_sigalrm(w, v) PROVE HttpInv'
    BY <1>1, <1>8 DEF propagate_sigalrm, sandboxes
  <1>9. CASE edf_prepare(w)
    <2>1. CASE UNCHANGED <<state, http>> BY <1>1, <2>1
    <2>2. CASE SetState(inhand[w], "ERROR") /\ http_session_send_response(inhand[w], "500")
      BY <1>3, <1>9, <2>2, InHandView DEF edf_prepare
    <2> QED BY <1>9, <2>1, <2>2 DEF edf_prepare
  <1>10. CASE edf_set_as_runnable(w)
    BY <1>2, <1>10, InHandView DEF edf_set_as_runnable, QueuedStates
  <1>11. CASE idle_cleanup(w) \/ cooperative_clear(w)
    BY <1>4, <1>11 DEF idle_cleanup, cooperative_clear
  <1>12. CASE cooperative_switch_fast(w)
    BY <1>2, <1>12, SwitchView DEF cooperative_switch_fast, QueuedStates
  <1>13. CASE sandbox_return(w)
    <2>1. current[w] \in Sandbox /\ state[current[w]] = "RUNNING_SYS"
      BY <1>13, SysView DEF sandbox_return, SysPC
    <2> QED BY <1>2, <1>13, <2>1 DEF sandbox_return, QueuedStates
  <1>14. ASSUME NEW l \in ModuleDoes, sandbox_syscall(w, l) PROVE HttpInv'
    <2>1. current[w] \in Sandbox /\ state[current[w]] = "RUNNING_USER"
      BY <1>14, UserView DEF sandbox_syscall, UserPC
    <2> QED BY <1>2, <1>14, <2>1 DEF sandbox_syscall, QueuedStates
  <1>15. CASE sandbox_set_as_returned(w)
    BY <1>3, <1>15, SysView DEF sandbox_set_as_returned, SysPC
  <1>16. CASE sandbox_exit_error(w)
    BY <1>3, <1>16, SysView DEF sandbox_exit_error, SysPC
  <1>17. CASE sandbox_exit_success(w)
    BY <1>2, <1>17, EndView DEF sandbox_exit_success
  <1>18. CASE sigalrm_kernel(w)
    BY <1>5, <1>18 DEF sigalrm_kernel
  <1>19. CASE sigalrm_tkill(w) \/ sigalrm_raise(w)
    BY <1>5, <1>19 DEF sigalrm_tkill, sigalrm_raise
  <1>20. CASE preemptive_resume(w)
    BY <1>2, <1>20, PreemptView DEF preemptive_resume, Dispatch, QueuedStates
  <1>21. ASSUME NEW n \in Sandbox, preemptive_switch(w, n) PROVE HttpInv'
    <2>1. state[n] \in QueuedStates
      BY <1>21, WaitingView DEF preemptive_switch, IsLocalHead, QueuedStates
    <2>2. state[current[w]] \in QueuedStates /\ current[w] \in Sandbox
      BY <1>21, PreemptView DEF preemptive_switch, Dispatch, QueuedStates
    <2>3. \A s \in Sandbox : \/ state'[s] = state[s]
                             \/ state[s] \in QueuedStates /\ state'[s] \in QueuedStates
      BY <1>t, <1>21, <2>1, <2>2 DEF preemptive_switch, QueuedStates
    <2>4. http' = http BY <1>21 DEF preemptive_switch
    <2> QED BY <2>3, <2>4 DEF IInv, HttpInv, Session, QueuedStates
  <1>22. CASE sigusr1(w)
    BY <1>2, <1>22, SwitchView DEF sigusr1, QueuedStates
  <1> QED
    BY <1>6, <1>7, <1>8, <1>9, <1>10, <1>11, <1>12, <1>13, <1>14, <1>15, <1>16, <1>17, <1>18,
       <1>19, <1>20, <1>21, <1>22 DEF Step, WorkerStep, UserStep

\* The context of the thread that steps is the running one.
LEMMA ContextOwn ==
    ASSUME IInv, ~Aborted, NEW w \in Worker, Step(w)
    PROVE  Context(w)'
  <1>c. Context(w) BY DEF IInv, ContextInv
  <1>t. /\ state \in [Sandbox -> SandboxState] /\ ctxt \in [Sandbox -> Variant]
        /\ pc \in [Worker -> PC] /\ intr \in [Worker -> PC \cup {"none"}]
        /\ exec \in [Worker -> Sandbox \cup {Base}]
        /\ current \in [Worker -> Sandbox \cup {NULL}] /\ inhand \in [Worker -> Sandbox \cup {NULL}]
        /\ runq \in [Worker -> SUBSET Sandbox]
    BY DEF IInv, TypeOK
  <1>p. \A p : Goto(w, p) => pc'[w] = p BY <1>t DEF Goto
  \* The forms of change: nothing is prepared, the thread stays on its stack or starts to run
  \* on another, and no sandbox but the current one starts to run.
  <1>1. ASSUME \/ pc'[w] # "dispatch" /\ intr'[w] # "dispatch"
               \/ /\ At(w, "dispatch") /\ inhand'[w] = inhand[w] /\ ctxt' = ctxt
                  /\ state'[inhand[w]] = "INITIALIZED" => state[inhand[w]] = "INITIALIZED",
               \/ exec'[w] = exec[w] /\ ctxt' = ctxt /\ pc[w] # "sigusr1"
               \/ pc'[w] = "sigusr1" \/ exec'[w] = Base \/ ctxt'[exec'[w]] = "RUNNING",
               \A s \in runq'[w] :
                   \/ s = current'[w]
                   \/ s \in runq[w] /\ s # current[w] /\ state'[s] = state[s]
                   \/ state'[s] \notin {"RUNNING_SYS", "RUNNING_USER", "INTERRUPTED"}
        PROVE  Context(w)'
    <2>1. At(w, "dispatch")' /\ state'[inhand'[w]] = "INITIALIZED" => ctxt'[inhand'[w]] = "FAST"
      BY <1>c, <1>1 DEF Context, At
    <2>2. exec'[w] # Base /\ pc'[w] # "sigusr1" => ctxt'[exec'[w]] = "RUNNING"
      BY <1>c, <1>1 DEF Context
    <2>3. \A s \in runq'[w] : state'[s] \in {"RUNNING_SYS", "RUNNING_USER", "INTERRUPTED"}
                                 => current'[w] = s
      BY <1>c, <1>1 DEF Context
    <2> QED BY <2>1, <2>2, <2>3 DEF Context
  <1>2. ASSUME NEW p, p \notin {"dispatch", "sigusr1"}, Goto(w, p), UNCHANGED <<intr, exec, current, inhand, ctxt, state, runq>>,
               pc[w] # "sigusr1"
        PROVE  Context(w)'
    BY <1>c, <1>p, <1>2 DEF Context, At
  <1>3. ASSUME NEW p, p \notin {"dispatch", "sigusr1"}, Goto(w, p),
               UNCHANGED <<exec, current, inhand, ctxt>>,
               intr[w] \in UserPC \cup {"none"}, intr' = intr \/ intr' = [intr EXCEPT ![w] = "none"],
               NEW x, x # "INITIALIZED", SetState(current[w], x),
               runq' = runq \/ local_runqueue_delete(w, current[w]), pc[w] # "sigusr1"
        PROVE  Context(w)'
    <2>1. \A s \in Sandbox : state'[s] = state[s] \/ (s = current[w] /\ state'[s] = x)
      BY <1>t, <1>3 DEF SetState
    <2>2. runq'[w] \subseteq runq[w] /\ runq[w] \subseteq Sandbox
      BY <1>t, <1>3 DEF local_runqueue_delete
    <2>3. \A s \in runq'[w] : s = current'[w] \/ (s \in runq[w] /\ s # current[w] /\ state'[s] = state[s])
      BY <1>3, <2>1, <2>2
    <2>4. pc'[w] # "dispatch" /\ intr'[w] # "dispatch" BY <1>t, <1>p, <1>3 DEF UserPC
    <2> QED BY <1>1, <1>3, <2>3, <2>4
  <1>4. ASSUME local_cleanup_queue_free(w), NEW p, p \notin {"dispatch", "sigusr1"}, Goto(w, p),
               UNCHANGED <<intr, exec, current, inhand, ctxt, runq>>, pc[w] # "sigusr1",
               intr[w] = "none"
        PROVE  Context(w)'
    <2>1. \A s \in Sandbox : state'[s] = state[s] \/ state'[s] = "FREED"
      BY <1>4 DEF local_cleanup_queue_free
    <2>2. runq[w] \subseteq Sandbox BY <1>t
    <2> QED BY <1>1, <1>p, <1>4, <2>1, <2>2
  <1>5. ASSUME NEW ts, pc[w] \notin HandlerPC,
               NEW r, sigalrm_enter(w, r, ts), r \in {pc[w], "idle", "user"},
               UNCHANGED <<exec, current, inhand, ctxt, runq>>
        PROVE  Context(w)'
    <2>1. pc'[w] = "sigalrm" /\ intr'[w] = r BY <1>t, <1>p, <1>5 DEF sigalrm_enter
    <2>2. \A s \in Sandbox : state'[s] = state[s] \/ (s = current[w] /\ state'[s] = "INTERRUPTED")
      BY <1>t, <1>5 DEF sigalrm_enter
    <2>3. runq[w] \subseteq Sandbox BY <1>t
    <2>4. \/ pc'[w] # "dispatch" /\ intr'[w] # "dispatch"
          \/ /\ At(w, "dispatch") /\ inhand'[w] = inhand[w] /\ ctxt' = ctxt
             /\ state'[inhand[w]] = "INITIALIZED" => state[inhand[w]] = "INITIALIZED"
      <3>1. CASE r = "dispatch"
        <4>1. pc[w] = "dispatch" BY <1>5, <3>1
        <4>2. inhand[w] \in Sandbox BY <4>1, InHandView
        <4> QED BY <1>5, <2>2, <4>1, <4>2 DEF At
      <3>2. CASE r # "dispatch" BY <2>1, <3>2
      <3> QED BY <3>1, <3>2
    <2> QED BY <1>1, <1>5, <2>2, <2>3, <2>4 DEF HandlerPC
  <1>6. CASE edf_peek(w) \/ scheduler_idle_loop(w) \/ deferred_sigalrm_replay(w) \/ deferred_sigalrm_clear(w)
    BY <1>2, <1>6 DEF edf_peek, scheduler_idle_loop, deferred_sigalrm_replay, deferred_sigalrm_clear,
       sandboxes, queues
  <1>8. ASSUME NEW v \in Worker, propagate_sigalrm(w, v) PROVE Context(w)'
    BY <1>c, <1>8 DEF propagate_sigalrm, control, sandboxes, queues, Context, At
  <1>9. CASE edf_remove_if_earlier(w)
    <2>1. UNCHANGED <<intr, exec, current, state, ctxt, runq>> /\ pc'[w] \in {"prepare", "choose"}
      BY <1>p, <1>9 DEF edf_remove_if_earlier, sandboxes
    <2>2. intr[w] # "dispatch" /\ pc[w] = "pull"
      BY <1>9, PreemptView DEF edf_remove_if_earlier, Dispatch, GetNextPC, UserPC
    <2> QED BY <1>c, <2>1, <2>2 DEF Context, At
  <1>10. CASE edf_prepare(w)
    <2>1. UNCHANGED <<intr, exec, current, inhand, runq>> /\ pc'[w] = "dispatch" /\ pc[w] = "prepare"
      BY <1>p, <1>10 DEF edf_prepare, queues
    <2>2. inhand[w] \in Sandbox /\ state[inhand[w]] = "INITIALIZED" BY <2>1, InHandView
    <2>3. \A s \in Sandbox : s # inhand[w] => state'[s] = state[s] /\ ctxt'[s] = ctxt[s]
      BY <1>t, <1>10 DEF edf_prepare, SetState
    <2>4. state'[inhand[w]] = "ERROR" \/ (state'[inhand[w]] = "INITIALIZED" /\ ctxt'[inhand[w]] = "FAST")
      BY <1>t, <1>10, <2>2 DEF edf_prepare, SetState
    <2>5. exec[w] # Base => exec[w] # inhand[w] /\ exec[w] \in Sandbox BY <2>2, ExecView
    <2>6. runq[w] \subseteq Sandbox BY <1>t
    <2>7. exec'[w] # Base /\ pc'[w] # "sigusr1" => ctxt'[exec'[w]] = "RUNNING"
      BY <1>c, <2>1, <2>3, <2>5 DEF Context
    <2>8. \A s \in runq'[w] : state'[s] \in {"RUNNING_SYS", "RUNNING_USER", "INTERRUPTED"}
                                 => current'[w] = s
      BY <1>c, <2>1, <2>3, <2>4, <2>6 DEF Context
    <2> QED BY <2>1, <2>4, <2>7, <2>8 DEF Context, At
  <1>11. CASE edf_set_as_runnable(w)
    <2>1. UNCHANGED <<intr, exec, current, ctxt>> /\ pc'[w] = "choose" /\ pc[w] = "dispatch"
      BY <1>p, <1>11 DEF edf_set_as_runnable
    <2>2. inhand[w] \in Sandbox BY <2>1, InHandView
    <2>3. runq'[w] = runq[w] \cup {inhand[w]} /\ runq[w] \subseteq Sandbox
      BY <1>t, <1>11 DEF edf_set_as_runnable, local_runqueue_add
    <2>4. state'[inhand[w]] = "RUNNABLE" /\ \A s \in Sandbox : s # inhand[w] => state'[s] = state[s]
      BY <1>t, <1>11, <2>2 DEF edf_set_as_runnable, SetState
    <2>5. intr[w] # "dispatch"
      BY <2>1, PreemptView DEF Dispatch, GetNextPC, UserPC
    <2>6. \A s \in runq'[w] : state'[s] \in {"RUNNING_SYS", "RUNNING_USER", "INTERRUPTED"}
                                 => current'[w] = s
      BY <1>c, <2>1, <2>3, <2>4 DEF Context
    <2>7. exec'[w] # Base /\ pc'[w] # "sigusr1" => ctxt'[exec'[w]] = "RUNNING" BY <1>c, <2>1 DEF Context
    <2> QED BY <2>1, <2>5, <2>6, <2>7 DEF Context, At
  <1>12. CASE idle_cleanup(w)
    BY <1>4, <1>12, BaseView DEF idle_cleanup, BasePC
  <1>13. CASE scheduler_cooperative_sched(w)
    <2>1. /\ UNCHANGED <<intr, exec, inhand, state, ctxt, runq>> /\ pc'[w] = "coop" /\ pc[w] = "exit"
          /\ current'[w] = NULL
      BY <1>t, <1>p, <1>13 DEF scheduler_cooperative_sched, sandboxes, queues
    <2>2. /\ intr[w] = "none" /\ current[w] = exec[w] /\ exec[w] \in Sandbox
          /\ state[exec[w]] \in Terminal
      BY <2>1, EndView
    <2>3. runq[w] \subseteq Sandbox BY <1>t
    <2>4. \A s \in runq'[w] : state'[s] \in {"RUNNING_SYS", "RUNNING_USER", "INTERRUPTED"}
                                 => current'[w] = s
      BY <1>c, <2>1, <2>2 DEF Context, Terminal
    <2> QED BY <1>c, <2>1, <2>2, <2>4 DEF Context, At
  <1>14. CASE cooperative_clear(w)
    BY <1>4, <1>14, EndView DEF cooperative_clear
  <1>15. CASE cooperative_choose(w)
    <2>1. /\ UNCHANGED <<intr, exec, inhand, state, ctxt, runq>> /\ pc'[w] \in {"switch", "cleanup"}
          /\ intr[w] = "none" /\ pc[w] = "choose"
      BY <1>p, <1>15 DEF cooperative_choose, sandboxes
    <2>2. current[w] = NULL BY <2>1, CooperativeView DEF Dispatch
    <2>3. \A s \in runq[w] : s \in Sandbox /\ s # NULL BY <1>t, NamesAssumption
    <2>4. \A s \in runq'[w] : state'[s] \in {"RUNNING_SYS", "RUNNING_USER", "INTERRUPTED"}
                                 => current'[w] = s
      BY <1>c, <2>1, <2>2, <2>3 DEF Context
    <2> QED BY <1>c, <2>1, <2>4 DEF Context, At
  <1>16. ASSUME NEW n, n = current[w], n \in Sandbox, UNCHANGED <<current, runq>>,
               NEW p, Goto(w, p), p \in UserPC \cup {"start"}, intr[w] \in {"none", "switch"},
               intr' = intr \/ intr' = [intr EXCEPT ![w] = "none"],
               exec' = [exec EXCEPT ![w] = n], NEW x, SetState(n, x), ctxt'[n] = "RUNNING"
        PROVE  Context(w)'
    <2>1. exec'[w] = n /\ pc'[w] # "dispatch" /\ intr'[w] # "dispatch"
      BY <1>t, <1>p, <1>16 DEF UserPC
    <2>2. \A s \in Sandbox : s = n \/ state'[s] = state[s] BY <1>t, <1>16 DEF SetState
    <2>3. runq[w] \subseteq Sandbox BY <1>t
    <2> QED BY <1>1, <1>16, <2>1, <2>2, <2>3
  <1>17. CASE cooperative_switch_fast(w)
    <2>1. current[w] \in Sandbox /\ intr[w] = "none" BY <1>17, SwitchView DEF cooperative_switch_fast
    <2>2. saved[current[w]] = "start" BY <1>17, <2>1, ReadyView DEF cooperative_switch_fast
    <2>3. ctxt'[current[w]] = "RUNNING" BY <1>17, <2>1 DEF cooperative_switch_fast
    <2> QED BY <1>16, <1>17, <2>1, <2>2, <2>3 DEF cooperative_switch_fast, queues
  <1>18. CASE sigusr1(w)
    <2>1. current[w] \in Sandbox /\ intr[w] = "switch" /\ state[current[w]] = "PREEMPTED"
      BY <1>18, SwitchView DEF sigusr1
    <2>2. saved[current[w]] \in UserPC BY <2>1, ReadyView
    <2>3. ctxt'[current[w]] = "RUNNING" BY <1>t, <1>18, <2>1 DEF sigusr1
    <2> QED BY <1>16, <1>18, <2>1, <2>2, <2>3 DEF sigusr1, queues
  <1>19. CASE cooperative_switch_slow(w)
    <2>1. /\ UNCHANGED <<exec, current, inhand, state, runq>> /\ pc'[w] = "sigusr1" /\ intr'[w] = "switch"
      BY <1>t, <1>p, <1>19 DEF cooperative_switch_slow, queues
    <2> QED BY <1>c, <2>1 DEF Context, At
  <1>20. CASE scheduler_switch_to_base_context(w)
    <2>1. /\ UNCHANGED <<intr, current, inhand, state, runq>> /\ pc'[w] = "cleanup" /\ exec'[w] = Base
          /\ pc[w] = "switch"
      BY <1>t, <1>p, <1>20 DEF scheduler_switch_to_base_context, queues
    <2>2. intr[w] = "none" BY <2>1, SwitchView
    <2> QED BY <1>c, <2>1, <2>2 DEF Context, At
  <1>21. CASE sandbox_return(w)
    BY <1>3, <1>21, SysView DEF sandbox_return, queues, SysPC
  <1>22. ASSUME NEW l \in ModuleDoes, sandbox_syscall(w, l) PROVE Context(w)'
    <2>1. l \notin {"dispatch", "sigusr1"} BY OptionsAssumption
    <2> QED BY <1>3, <1>22, <2>1, UserView DEF sandbox_syscall, queues, UserPC
  <1>23. CASE sandbox_set_as_returned(w)
    BY <1>3, <1>23, SysView DEF sandbox_set_as_returned, SysPC
  <1>24. CASE sandbox_exit_success(w)
    BY <1>3, <1>24, EndView DEF sandbox_exit_success, queues
  <1>25. CASE sandbox_exit_error(w)
    BY <1>3, <1>25, SysView DEF sandbox_exit_error, SysPC
  <1>26. CASE sigalrm_kernel(w)
    BY <1>5, <1>26, InterruptView DEF sigalrm_kernel, queues
  <1>27. CASE sigalrm_tkill(w)
    BY <1>5, <1>27, InterruptView DEF sigalrm_tkill, queues
  <1>28. CASE sigalrm_raise(w)
    BY <1>5, <1>28 DEF sigalrm_raise, queues, HandlerPC
  <1>29. CASE sigalrm_dispatch(w)
    <2>1. UNCHANGED <<exec, current, inhand, state, ctxt, runq>> /\ pc[w] = "sigalrm"
      BY <1>29 DEF sigalrm_dispatch, sandboxes, queues
    <2>2. intr[w] \notin HandlerPC BY <2>1, AlarmView
    <2>3. \/ pc'[w] = "peek" /\ intr' = intr
          \/ pc'[w] = intr[w] /\ intr'[w] = "none"
      BY <1>t, <1>p, <1>29 DEF sigalrm_dispatch
    <2> QED BY <1>c, <2>1, <2>2, <2>3 DEF Context, At, HandlerPC
  <1>30. CASE preemptive_resume(w)
    BY <1>3, <1>30, PreemptView DEF preemptive_resume, queues, Dispatch, UserPC
  <1>31. ASSUME NEW n \in Sandbox, preemptive_switch(w, n) PROVE Context(w)'
    <2>1. n \in runq[w] /\ n # current[w] /\ pc[w] = "choose" /\ intr[w] # "none" /\ runq' = runq
      BY <1>31 DEF preemptive_switch, IsLocalHead, queues
    <2>2. saved[n] \in UserPC \cup {"start"} BY <2>1, WaitingView
    <2>3. pc'[w] # "dispatch" /\ intr'[w] # "dispatch"
      BY <1>t, <1>p, <1>31, <2>2 DEF preemptive_switch, UserPC
    <2>4. exec'[w] = n /\ current'[w] = n BY <1>t, <1>31 DEF preemptive_switch
    <2>5. ctxt'[n] = "RUNNING" BY <1>t, <1>31 DEF preemptive_switch
    <2>6. current[w] \in Sandbox BY <2>1, PreemptView DEF Dispatch
    <2>7. \A s \in Sandbox : s = n \/ state'[s] = "PREEMPTED" \/ (s # current[w] /\ state'[s] = state[s])
      BY <1>t, <1>31, <2>6 DEF preemptive_switch
    <2>8. runq[w] \subseteq Sandbox BY <1>t
    <2> QED BY <1>1, <2>1, <2>3, <2>4, <2>5, <2>7, <2>8
  <1> QED
    BY <1>6, <1>8, <1>9, <1>10, <1>11, <1>12, <1>13, <1>14, <1>15, <1>17, <1>18, <1>19, <1>20,
       <1>21, <1>22, <1>23, <1>24, <1>25, <1>26, <1>27, <1>28, <1>29, <1>30, <1>31
    DEF Step, WorkerStep, UserStep

\* Saved contexts fit the state of their sandbox.
LEMMA SavedOwn ==
    ASSUME IInv, ~Aborted, NEW w \in Worker, Step(w)
    PROVE  \A s \in Sandbox : Saved(s)'
  <1>t. /\ state \in [Sandbox -> SandboxState] /\ ctxt \in [Sandbox -> Variant]
        /\ saved \in [Sandbox -> PC]
    BY DEF IInv, TypeOK
  \* The forms of change: no sandbox is left waiting that was not, those that wait keep
  \* their context.
  <1>1. ASSUME saved' = saved,
               \A s \in Sandbox :
                   \/ state'[s] \notin {"UNINITIALIZED", "INITIALIZED", "RUNNABLE", "PREEMPTED"}
                   \/ /\ state'[s] = state[s]
                      /\ ctxt'[s] = ctxt[s] \/ state[s] \notin {"RUNNABLE", "PREEMPTED"}
        PROVE  \A s \in Sandbox : Saved(s)'
    <2> SUFFICES ASSUME NEW s \in Sandbox PROVE Saved(s)' OBVIOUS
    <2>1. Saved(s) BY DEF IInv, ContextInv
    <2>2. CASE state'[s] \notin {"UNINITIALIZED", "INITIALIZED", "RUNNABLE", "PREEMPTED"}
      BY <2>2 DEF Saved
    <2>3. CASE state'[s] = state[s] /\ (ctxt'[s] = ctxt[s] \/ state[s] \notin {"RUNNABLE", "PREEMPTED"})
      BY <1>1, <2>1, <2>3 DEF Saved
    <2> QED BY <1>1, <2>2, <2>3
  <1>2. CASE UNCHANGED <<state, ctxt, saved>>
    BY <1>1, <1>2
  <1>3. ASSUME NEW n, NEW x, SetState(n, x), UNCHANGED <<ctxt, saved>>,
               x \notin {"UNINITIALIZED", "INITIALIZED", "RUNNABLE", "PREEMPTED"}
        PROVE  \A s \in Sandbox : Saved(s)'
    <2>1. \A s \in Sandbox : state'[s] = state[s] \/ state'[s] = x BY <1>t, <1>3 DEF SetState
    <2> QED BY <1>1, <1>3, <2>1
  <1>4. CASE local_cleanup_queue_free(w) /\ UNCHANGED <<ctxt, saved>>
    <2>1. \A s \in Sandbox : state'[s] = state[s] \/ state'[s] = "FREED"
      BY <1>4 DEF local_cleanup_queue_free
    <2> QED BY <1>1, <1>4, <2>1
  <1>5. ASSUME NEW resume, NEW ts, sigalrm_enter(w, resume, ts), UNCHANGED <<ctxt, saved>>
        PROVE  \A s \in Sandbox : Saved(s)'
    <2>1. CASE state' = state BY <1>2, <1>5, <2>1
    <2>2. CASE SetState(current[w], "INTERRUPTED") BY <1>3, <1>5, <2>2
    <2> QED BY <1>5, <2>1, <2>2 DEF sigalrm_enter, SetState
  <1>6. CASE edf_peek(w) \/ edf_remove_if_earlier(w) \/ scheduler_idle_loop(w)
               \/ scheduler_cooperative_sched(w) \/ cooperative_choose(w)
    BY <1>2, <1>6 DEF edf_peek, edf_remove_if_earlier, scheduler_idle_loop,
       scheduler_cooperative_sched, cooperative_choose, sandboxes
  <1>7. CASE deferred_sigalrm_replay(w) \/ deferred_sigalrm_clear(w) \/ sigalrm_dispatch(w)
    BY <1>2, <1>7 DEF deferred_sigalrm_replay, deferred_sigalrm_clear, sigalrm_dispatch, sandboxes
  <1>8. ASSUME NEW v \in Worker, propagate_sigalrm(w, v) PROVE \A s \in Sandbox : Saved(s)'
    BY <1>2, <1>8 DEF propagate_sigalrm, sandboxes
  <1>9. CASE edf_prepare(w)
    <2>1. inhand[w] \in Sandbox /\ state[inhand[w]] = "INITIALIZED" BY <1>9, InHandView DEF edf_prepare
    <2>2. CASE SetState(inhand[w], "ERROR") /\ UNCHANGED ctxt BY <1>3, <1>9, <2>2 DEF edf_prepare
    <2>3. CASE ctxt' = [ctxt EXCEPT ![inhand[w]] = "FAST"] /\ UNCHANGED state
      <3>1. \A s \in Sandbox : ctxt'[s] = ctxt[s] \/ s = inhand[w] BY <1>t, <2>3
      <3> QED BY <1>1, <1>9, <2>1, <2>3, <3>1 DEF edf_prepare
    <2> QED BY <1>9, <2>2, <2>3 DEF edf_prepare
  <1>10. CASE edf_set_as_runnable(w)
    <2>1. Context(w) BY DEF IInv, ContextInv
    <2>2. ctxt[inhand[w]] = "FAST" /\ saved[inhand[w]] = "start" /\ inhand[w] \in Sandbox
      BY <1>10, <2>1, InHandView DEF edf_set_as_runnable, Context, At, IInv, ContextInv, Saved
    <2>3. UNCHANGED <<ctxt, saved>> BY <1>10 DEF edf_set_as_runnable
    <2>4. state'[inhand[w]] = "RUNNABLE" /\ \A s \in Sandbox : s # inhand[w] => state'[s] = state[s]
      BY <1>t, <1>10, <2>2 DEF edf_set_as_runnable, SetState
    <2> QED BY <2>2, <2>3, <2>4 DEF IInv, ContextInv, Saved
  <1>11. CASE idle_cleanup(w) \/ cooperative_clear(w)
    BY <1>4, <1>11 DEF idle_cleanup, cooperative_clear
  <1>12. CASE cooperative_switch_fast(w)
    <2>1. exec[w] # Base => state[exec[w]] \in Terminal BY <1>12, SwitchView DEF cooperative_switch_fast
    <2>2. saved' = saved BY <1>12 DEF cooperative_switch_fast
    <2>3. state'[current[w]] = "RUNNING_SYS" /\ \A s \in Sandbox : s # current[w] => state'[s] = state[s]
      BY <1>t, <1>12, SwitchView DEF cooperative_switch_fast, SetState
    <2>4. \A s \in Sandbox : s # current[w] /\ s # exec[w] => ctxt'[s] = ctxt[s]
      BY <1>12 DEF cooperative_switch_fast
    <2> QED BY <1>1, <2>1, <2>2, <2>3, <2>4, NamesAssumption DEF Terminal
  <1>13. CASE cooperative_switch_slow(w) \/ scheduler_switch_to_base_context(w)
    <2>1. exec[w] # Base => state[exec[w]] \in Terminal
      BY <1>13, SwitchView DEF cooperative_switch_slow, scheduler_switch_to_base_context
    <2>2. UNCHANGED <<state, saved>> /\ \A s \in Sandbox : s # exec[w] => ctxt'[s] = ctxt[s]
      BY <1>13 DEF cooperative_switch_slow, scheduler_switch_to_base_context
    <2> QED BY <1>1, <2>1, <2>2, NamesAssumption DEF Terminal
  <1>14. CASE sandbox_return(w) \/ preemptive_resume(w)
    BY <1>3, <1>14 DEF sandbox_return, preemptive_resume
  <1>15. ASSUME NEW l \in ModuleDoes, sandbox_syscall(w, l) PROVE \A s \in Sandbox : Saved(s)'
    BY <1>3, <1>15 DEF sandbox_syscall
  <1>16. CASE sandbox_set_as_returned(w) \/ sandbox_exit_success(w) \/ sandbox_exit_error(w)
    BY <1>3, <1>16 DEF sandbox_set_as_returned, sandbox_exit_success, sandbox_exit_error
  <1>17. CASE sigalrm_kernel(w)
    BY <1>5, <1>17 DEF sigalrm_kernel
  <1>18. CASE sigalrm_tkill(w) \/ sigalrm_raise(w)
    BY <1>5, <1>18 DEF sigalrm_tkill, sigalrm_raise
  <1>19. ASSUME NEW n \in Sandbox, preemptive_switch(w, n) PROVE \A s \in Sandbox : Saved(s)'
    <2>1. current[w] \in Sandbox /\ n # current[w] /\ intr[w] \in UserPC
      BY <1>19, PreemptView DEF preemptive_switch, Dispatch
    <2>2. state'[current[w]] = "PREEMPTED" /\ ctxt'[current[w]] = "SLOW" /\ saved'[current[w]] = intr[w]
      BY <1>t, <1>19, <2>1 DEF preemptive_switch
    <2>3. state'[n] \in {"RUNNING_SYS", "RUNNING_USER"} BY <1>t, <1>19, <2>1 DEF preemptive_switch
    <2>4. \A s \in Sandbox : s \notin {n, current[w]} =>
            state'[s] = state[s] /\ ctxt'[s] = ctxt[s] /\ saved'[s] = saved[s]
      BY <1>t, <1>19 DEF preemptive_switch
    <2> SUFFICES ASSUME NEW s \in Sandbox PROVE Saved(s)' OBVIOUS
    <2>5. CASE s = current[w] BY <2>1, <2>2, <2>5 DEF Saved
    <2>6. CASE s = n BY <2>3, <2>6 DEF Saved
    <2>7. CASE s \notin {n, current[w]} BY <2>4, <2>7 DEF Saved, IInv, ContextInv
    <2> QED BY <2>5, <2>6, <2>7
  <1>20. CASE sigusr1(w)
    <2>1. current[w] \in Sandbox BY <1>20, SwitchView DEF sigusr1
    <2>2. saved' = saved BY <1>20 DEF sigusr1
    <2>3. /\ state'[current[w]] = "RUNNING_USER"
          /\ \A s \in Sandbox : s # current[w] => state'[s] = state[s] /\ ctxt'[s] = ctxt[s]
      BY <1>t, <1>20, <2>1 DEF sigusr1, SetState
    <2> QED BY <1>1, <2>2, <2>3
  <1> QED
    BY <1>6, <1>7, <1>8, <1>9, <1>10, <1>11, <1>12, <1>13, <1>14, <1>15, <1>16, <1>17, <1>18,
       <1>19, <1>20 DEF Step, WorkerStep, UserStep

\* The head of a run queue is strictly earlier than the rest of it.
LEMMA HeadIsEarliest ==
    ASSUME TypeOK, NEW w \in Worker, Edf(w), NEW n, IsLocalHead(n, w)
    PROVE  \A t \in runq[w] \ {n} : absolute_deadline[n] < absolute_deadline[t]
  <1> SUFFICES ASSUME NEW t \in runq[w], t # n
               PROVE  absolute_deadline[n] < absolute_deadline[t]
    OBVIOUS
  <1>1. n \in Sandbox /\ t \in Sandbox BY DEF TypeOK, IsLocalHead
  <1>2. absolute_deadline[n] \in Nat /\ absolute_deadline[t] \in Nat BY <1>1 DEF TypeOK
  <1>3. absolute_deadline[n] <= absolute_deadline[t] BY DEF IsLocalHead
  <1>4. absolute_deadline[n] # absolute_deadline[t] BY DEF IsLocalHead, Edf
  <1> QED BY <1>2, <1>3, <1>4, SMT

\* The worker that steps runs its earliest deadline.
LEMMA EdfOwn ==
    ASSUME IInv, ~Aborted, NEW w \in Worker, Step(w)
    PROVE  Edf(w)'
  <1>e. Edf(w) /\ TypeOK BY DEF IInv, EdfInv
  <1>t. /\ state \in [Sandbox -> SandboxState] /\ pc \in [Worker -> PC]
        /\ current \in [Worker -> Sandbox \cup {NULL}] /\ inhand \in [Worker -> Sandbox \cup {NULL}]
        /\ runq \in [Worker -> SUBSET Sandbox]
    BY <1>e DEF TypeOK
  \* The forms of change: the run queue only shrinks, and what is current stays so, or
  \* nothing is any more.
  <1>1. ASSUME runq'[w] \subseteq runq[w], UNCHANGED <<absolute_deadline, inhand>>,
               \/ current'[w] = NULL
               \/ /\ current'[w] = current[w]
                  /\ state'[current[w]] = state[current[w]] \/ state[current[w]] # "INTERRUPTED"
                                                           \/ state'[current[w]] = "INTERRUPTED"
        PROVE  Edf(w)'
    BY <1>e, <1>1 DEF Edf
  <1>2. CASE UNCHANGED <<current, inhand, state, absolute_deadline, runq>>
    BY <1>1, <1>2
  <1>3. ASSUME NEW x, SetState(current[w], x), UNCHANGED <<current, inhand, absolute_deadline>>,
               current[w] \in Sandbox, x = "INTERRUPTED" \/ state[current[w]] # "INTERRUPTED",
               runq' = runq \/ local_runqueue_delete(w, current[w])
        PROVE  Edf(w)'
    <2>1. runq'[w] \subseteq runq[w] BY <1>t, <1>3 DEF local_runqueue_delete
    <2>2. state'[current[w]] = x BY <1>t, <1>3 DEF SetState
    <2> QED BY <1>1, <1>3, <2>1, <2>2
  <1>4. CASE local_cleanup_queue_free(w) /\ UNCHANGED <<current, inhand, absolute_deadline, runq>>
               /\ current[w] = NULL
    BY <1>1, <1>4
  <1>5. ASSUME NEW resume, NEW ts, sigalrm_enter(w, resume, ts),
               UNCHANGED <<current, inhand, absolute_deadline, runq>>
        PROVE  Edf(w)'
    <2>1. CASE state' = state BY <1>2, <1>5, <2>1
    <2>2. CASE current_sandbox_is_preemptable(w) /\ SetState(current[w], "INTERRUPTED")
      BY <1>3, <1>5, <2>2, CurrentView DEF current_sandbox_is_preemptable
    <2> QED BY <1>5, <2>1, <2>2 DEF sigalrm_enter, SetState
  <1>6. CASE edf_peek(w) \/ scheduler_idle_loop(w) \/ cooperative_switch_slow(w)
               \/ scheduler_switch_to_base_context(w)
    BY <1>2, <1>6 DEF edf_peek, scheduler_idle_loop, cooperative_switch_slow,
       scheduler_switch_to_base_context, sandboxes, queues
  <1>7. CASE deferred_sigalrm_replay(w) \/ deferred_sigalrm_clear(w) \/ sigalrm_dispatch(w)
    BY <1>2, <1>7 DEF deferred_sigalrm_replay, deferred_sigalrm_clear, sigalrm_dispatch,
       sandboxes, queues
  <1>8. ASSUME NEW v \in Worker, propagate_sigalrm(w, v) PROVE Edf(w)'
    BY <1>2, <1>8 DEF propagate_sigalrm, control, sandboxes, queues
  <1>9. CASE edf_remove_if_earlier(w)
    <2>1. UNCHANGED <<current, state, absolute_deadline, runq>>
      BY <1>9 DEF edf_remove_if_earlier, sandboxes
    <2>2. CASE inhand' = inhand BY <1>2, <2>1, <2>2
    <2>3. ASSUME NEW s \in globalq, EarlierThanLocal(s, w), inhand' = [inhand EXCEPT ![w] = s]
          PROVE  Edf(w)'
      <3>1. inhand'[w] = s BY <1>t, <2>3
      <3> QED BY <1>e, <2>1, <2>3, <3>1 DEF Edf, EarlierThanLocal
    <2> QED BY <1>9, <2>2, <2>3 DEF edf_remove_if_earlier
  <1>10. CASE edf_prepare(w)
    <2>1. UNCHANGED <<current, inhand, absolute_deadline, runq>> BY <1>10 DEF edf_prepare, queues
    <2>2. CASE state' = state BY <1>2, <2>1, <2>2
    <2>3. CASE SetState(inhand[w], "ERROR")
      <3>1. inhand[w] \in Sandbox /\ state[inhand[w]] = "INITIALIZED"
        BY <1>10, InHandView DEF edf_prepare
      <3>2. CASE current[w] = inhand[w] BY <1>1, <2>1, <3>1, <3>2
      <3>3. CASE current[w] # inhand[w] /\ current[w] \in Sandbox
        BY <1>t, <1>1, <2>1, <2>3, <3>3 DEF SetState
      <3>4. CASE current[w] = NULL BY <1>1, <2>1, <3>4
      <3> QED BY <1>t, <3>2, <3>3, <3>4
    <2> QED BY <1>10, <2>2, <2>3 DEF edf_prepare
  <1>11. CASE edf_set_as_runnable(w)
    <2>1. inhand[w] \in Sandbox /\ inhand[w] # NULL BY <1>11, InHandView DEF edf_set_as_runnable
    <2>2. inhand'[w] = NULL /\ runq'[w] = runq[w] \cup {inhand[w]} /\ UNCHANGED <<current, absolute_deadline>>
      BY <1>t, <1>11 DEF edf_set_as_runnable, local_runqueue_add
    <2>3. current[w] = NULL \/ (current[w] \in Sandbox /\ state[current[w]] = "INTERRUPTED")
      BY <1>11, PreemptView, CooperativeView DEF edf_set_as_runnable, Dispatch, GetNextPC
    <2>4. current[w] # NULL => state'[current[w]] = "INTERRUPTED"
      BY <1>t, <1>11, <2>1, <2>3, SMT DEF edf_set_as_runnable, SetState
    <2>5. \A t \in runq[w] : absolute_deadline[inhand[w]] # absolute_deadline[t]
      BY <1>e, <1>t, <2>1, SMT DEF Edf, TypeOK
    <2> QED BY <1>e, <2>2, <2>4, <2>5 DEF Edf
  <1>12. CASE idle_cleanup(w)
    BY <1>4, <1>12, BaseView DEF idle_cleanup, BasePC
  <1>13. CASE scheduler_cooperative_sched(w)
    <2>1. current'[w] = NULL BY <1>t, <1>13 DEF scheduler_cooperative_sched
    <2> QED BY <1>1, <1>13, <2>1 DEF scheduler_cooperative_sched, sandboxes, queues
  <1>14. CASE cooperative_clear(w)
    BY <1>4, <1>14, EndView DEF cooperative_clear
  <1>15. CASE cooperative_choose(w)
    <2>1. UNCHANGED <<runq, inhand, absolute_deadline, state>>
      BY <1>15 DEF cooperative_choose, sandboxes
    <2>2. CASE current' = current BY <1>2, <2>1, <2>2
    <2>3. ASSUME NEW n \in runq[w], IsLocalHead(n, w), current' = [current EXCEPT ![w] = n]
          PROVE  Edf(w)'
      <3>1. current'[w] = n BY <1>t, <2>3
      <3>2. \A t \in runq[w] \ {n} : absolute_deadline[n] < absolute_deadline[t]
        BY <1>e, <2>3, HeadIsEarliest
      <3> QED BY <1>e, <2>1, <3>1, <3>2 DEF Edf
    <2> QED BY <1>15, <2>2, <2>3 DEF cooperative_choose
  <1>16. CASE cooperative_switch_fast(w)
    BY <1>3, <1>16, SwitchView DEF cooperative_switch_fast, queues
  <1>17. CASE sandbox_return(w)
    <2>1. current[w] \in Sandbox /\ state[current[w]] = "RUNNING_SYS"
      BY <1>17, SysView DEF sandbox_return, SysPC
    <2> QED BY <1>3, <1>17, <2>1 DEF sandbox_return, queues
  <1>18. ASSUME NEW l \in ModuleDoes, sandbox_syscall(w, l) PROVE Edf(w)'
    <2>1. current[w] \in Sandbox /\ state[current[w]] = "RUNNING_USER"
      BY <1>18, UserView DEF sandbox_syscall, UserPC
    <2> QED BY <1>3, <1>18, <2>1 DEF sandbox_syscall, queues
  <1>19. CASE sandbox_set_as_returned(w)
    <2>1. current[w] \in Sandbox /\ state[current[w]] = "RUNNING_SYS"
      BY <1>19, SysView DEF sandbox_set_as_returned, SysPC
    <2> QED BY <1>3, <1>19, <2>1 DEF sandbox_set_as_returned
  <1>20. CASE sandbox_exit_error(w)
    <2>1. current[w] \in Sandbox /\ state[current[w]] = "RUNNING_SYS"
      BY <1>20, SysView DEF sandbox_exit_error, SysPC
    <2> QED BY <1>3, <1>20, <2>1 DEF sandbox_exit_error
  <1>21. CASE sandbox_exit_success(w)
    <2>1. current[w] \in Sandbox /\ state[current[w]] = "RETURNED"
      BY <1>21, EndView DEF sandbox_exit_success
    <2> QED BY <1>3, <1>21, <2>1 DEF sandbox_exit_success, queues
  <1>22. CASE sigalrm_kernel(w)
    BY <1>5, <1>22 DEF sigalrm_kernel, queues
  <1>23. CASE sigalrm_tkill(w) \/ sigalrm_raise(w)
    BY <1>5, <1>23 DEF sigalrm_tkill, sigalrm_raise, queues
  <1>24. CASE preemptive_resume(w)
    <2>1. UNCHANGED <<current, runq, inhand, absolute_deadline>> /\ IsLocalHead(current[w], w)
      BY <1>24 DEF preemptive_resume, queues
    <2>2. \A t \in runq[w] \ {current[w]} : absolute_deadline[current[w]] < absolute_deadline[t]
      BY <1>e, <2>1, HeadIsEarliest
    <2> QED BY <1>e, <2>1, <2>2 DEF Edf
  <1>25. ASSUME NEW n \in Sandbox, preemptive_switch(w, n) PROVE Edf(w)'
    <2>1. UNCHANGED <<runq, inhand, absolute_deadline>> /\ IsLocalHead(n, w) /\ current'[w] = n
      BY <1>t, <1>25 DEF preemptive_switch, queues
    <2>2. \A t \in runq[w] \ {n} : absolute_deadline[n] < absolute_deadline[t]
      BY <1>e, <2>1, HeadIsEarliest
    <2> QED BY <1>e, <2>1, <2>2 DEF Edf
  <1>26. CASE sigusr1(w)
    <2>1. current[w] \in Sandbox /\ state[current[w]] = "PREEMPTED" BY <1>26, SwitchView DEF sigusr1
    <2> QED BY <1>3, <1>26, <2>1 DEF sigusr1, queues
  <1> QED
    BY <1>6, <1>7, <1>8, <1>9, <1>10, <1>11, <1>12, <1>13, <1>14, <1>15, <1>16, <1>17, <1>18,
       <1>19, <1>20, <1>21, <1>22, <1>23, <1>24, <1>25, <1>26 DEF Step, WorkerStep, UserStep

-----------------------------------------------------------------------------
(***************************************************************************)
(* The invariant is inductive.                                             *)
(***************************************************************************)
\* A thread that does not move and whose sandboxes are left alone stays consistent.
LEMMA ThreadFrame ==
    ASSUME IInv, NEW v \in Worker,
           pc'[v] = pc[v], intr'[v] = intr[v], exec'[v] = exec[v], current'[v] = current[v],
           inhand'[v] = inhand[v], deferred'[v] = deferred[v],
           runq'[v] = runq[v], cleanup'[v] = cleanup[v],
           \A s \in Sandbox : Holds(v, s) \/ s = current[v] =>
               /\ state'[s] = state[s] /\ ctxt'[s] = ctxt[s]
               /\ absolute_deadline'[s] = absolute_deadline[s]
    PROVE  Thread(v, Pos(v))' /\ Signal(v)' /\ Context(v)' /\ Edf(v)'
  <1>1. Thread(v, Pos(v)) /\ Signal(v) /\ Context(v) /\ Edf(v)
    BY DEF IInv, ThreadInv, SignalInv, ContextInv, EdfInv
  <1>2. current[v] # NULL => current[v] \in Sandbox /\ state'[current[v]] = state[current[v]]
                             /\ absolute_deadline'[current[v]] = absolute_deadline[current[v]]
    BY CurrentView
  <1>3. exec[v] # Base => exec[v] \in Sandbox /\ state'[exec[v]] = state[exec[v]]
                          /\ ctxt'[exec[v]] = ctxt[exec[v]]
    BY ExecView DEF Holds
  <1>4. \A s \in runq[v] : s \in Sandbox /\ state'[s] = state[s]
                           /\ absolute_deadline'[s] = absolute_deadline[s]
    BY DEF Holds, IInv, TypeOK
  <1>5. inhand[v] # NULL => state'[inhand[v]] = state[inhand[v]] /\ ctxt'[inhand[v]] = ctxt[inhand[v]]
                            /\ absolute_deadline'[inhand[v]] = absolute_deadline[inhand[v]]
    BY InHandView DEF Holds
  <1>6. Thread(v, Pos(v))'
    BY <1>1, <1>2, <1>3, NamesAssumption
       DEF Thread, Pos, OnEndedStack, BasePC, Dispatch, GetNextPC, UserPC, SysPC
  <1>7. Signal(v)'
    BY <1>1, <1>2 DEF Signal, Pos, BasePC, Dispatch, GetNextPC
  <1>8. Context(v)'
    <2>1. At(v, "dispatch") => inhand[v] # NULL BY DEF IInv, ControlInv
    <2> QED BY <1>1, <1>3, <1>4, <1>5, <2>1 DEF Context, At
  <1>9. Edf(v)'
    <2>1. \A s, t \in runq'[v] : s # t => absolute_deadline'[s] # absolute_deadline'[t]
      BY <1>1, <1>4 DEF Edf
    <2>2. inhand'[v] # NULL => \A t \in runq'[v] : absolute_deadline'[inhand'[v]] < absolute_deadline'[t]
      BY <1>1, <1>4, <1>5 DEF Edf
    <2>3. current'[v] # NULL => (state'[current'[v]] # "INTERRUPTED" =>
            \A t \in runq'[v] \ {current'[v]} : absolute_deadline'[current'[v]] < absolute_deadline'[t])
      BY <1>1, <1>2, <1>4 DEF Edf
    <2> QED BY <2>1, <2>2, <2>3 DEF Edf
  <1> QED BY <1>6, <1>7, <1>8, <1>9

\* A step of a worker keeps the sandboxes apart.
LEMMA PlaceStep ==
    ASSUME IInv, ~Aborted, NEW w \in Worker, Step(w)
    PROVE  PlaceInv'
  <1> TypeOK /\ TypeOK' BY TypeOwn DEF IInv
  <1> USE NamesAssumption
  <1>1. LocalTo(w) BY Locality
  <1>2. Global'
    <2>1. ASSUME NEW s \in Sandbox, s \in globalq \/ s = lhand
          PROVE  state'[s] = "INITIALIZED"
      BY <1>1, <2>1, Unclaimed DEF LocalTo
    <2>2. lhand # NULL => lhand \in Sandbox /\ lhand \notin globalq
      BY DEF IInv, TypeOK, PlaceInv, Global
    <2>3. globalq \subseteq Sandbox BY DEF TypeOK
    <2> QED BY <1>1, <2>1, <2>2, <2>3 DEF Global, LocalTo
  <1>3. ASSUME NEW v \in Worker, v # w PROVE Place(v)'
    <2>1. Place(v) BY DEF IInv, PlaceInv
    <2>2. \A s \in Sandbox : Holds(v, s) => state'[s] = state[s]
      BY <1>1, <1>3, Frame
    <2>3. inhand[v] # NULL => inhand[v] \in Sandbox BY InHandView
    <2> QED BY <1>1, <1>3, <2>1, <2>2, <2>3, SMT DEF Place, Pos, LocalTo, Holds, TypeOK
  <1>4. ASSUME NEW v \in Worker, v # w, NEW s \in Sandbox PROVE ~(Holds(v, s)' /\ Holds(w, s)')
    <2>1. Holds(v, s)' = Holds(v, s) BY <1>1, <1>4 DEF Holds, LocalTo
    <2>2. Holds(w, s)' => Holds(w, s) \/ s \in globalq BY <1>1 DEF LocalTo
    <2> QED BY <1>4, <2>1, <2>2, Apart, Unclaimed
  <1>5. ASSUME NEW v \in Worker, v # w PROVE Disjoint(v, w)' /\ Disjoint(w, v)'
    <2>1. /\ exec'[v] # Base => exec'[v] \in Sandbox
          /\ exec'[w] # Base => exec'[w] \in Sandbox
          /\ inhand'[v] # NULL => inhand'[v] \in Sandbox
          /\ inhand'[w] # NULL => inhand'[w] \in Sandbox
          /\ cleanup'[v] \subseteq Sandbox /\ cleanup'[w] \subseteq Sandbox
      BY DEF TypeOK
    <2> QED BY <1>4, <1>5, <2>1 DEF Disjoint, Holds
  <1>6. ASSUME NEW u \in Worker, NEW v \in Worker, u # v PROVE Disjoint(u, v)'
    <2>1. CASE u = w \/ v = w BY <1>5, <1>6, <2>1
    <2>2. CASE u # w /\ v # w
      <3>1. Disjoint(u, v) BY <1>6 DEF IInv, PlaceInv
      <3> QED BY <1>1, <2>2, <3>1 DEF Disjoint, LocalTo
    <2> QED BY <2>1, <2>2
  <1> QED BY <1>2, <1>3, <1>6, PlaceOwn DEF PlaceInv

\* A step of a worker preserves the invariant.
LEMMA WorkerPreserves ==
    ASSUME IInv, ~Aborted, NEW w \in Worker, Step(w)
    PROVE  IInv'
  <1>1. LocalTo(w) BY Locality
  <1>2. ASSUME NEW v \in Worker, v # w
        PROVE  Thread(v, Pos(v))' /\ Signal(v)' /\ Context(v)' /\ Edf(v)'
    <2>1. \A s \in Sandbox : Holds(v, s) \/ s = current[v] =>
              state'[s] = state[s] /\ ctxt'[s] = ctxt[s]
      BY <1>1, <1>2, Frame
    <2>2. absolute_deadline' = absolute_deadline BY <1>1 DEF LocalTo
    <2> QED BY <1>1, <1>2, <2>1, <2>2, ThreadFrame DEF LocalTo
  <1>3. ThreadInv' BY <1>2, ThreadOwn DEF ThreadInv
  <1>4. SignalInv' BY <1>2, SignalOwn DEF SignalInv
  <1>5. ContextInv' BY <1>2, ContextOwn, SavedOwn DEF ContextInv
  <1>6. EdfInv' BY <1>2, EdfOwn DEF EdfInv
  <1> QED BY <1>3, <1>4, <1>5, <1>6, TypeOwn, ControlOwn, PlaceStep, CoverOwn, HttpOwn DEF IInv

\* A step of the listener preserves the invariant.
LEMMA ListenerPreserves ==
    ASSUME IInv, ListenerStep
    PROVE  IInv'
  <1> TypeOK /\ ControlInv BY DEF IInv
  <1> USE NamesAssumption, DeadlineAssumption
  <1>1. ASSUME NEW s \in Sandbox, NEW d \in Deadline, sandbox_alloc(s, d) PROVE IInv'
    <2> state[s] = "UNINITIALIZED" BY <1>1 DEF sandbox_alloc
    <2>1. \A v \in Worker : s # current[v] /\ ~Holds(v, s)
      <3> SUFFICES ASSUME NEW v \in Worker PROVE s # current[v] /\ ~Holds(v, s) OBVIOUS
      <3>1. s # exec[v] BY ExecView
      <3>2. s # current[v] BY <3>1, CurrentView
      <3>3. s \notin runq[v] /\ s \notin cleanup[v] /\ s # inhand[v]
        <4>1. Place(v) BY DEF IInv, PlaceInv
        <4>2. s # NULL BY NamesAssumption
        <4> QED BY <4>1, <4>2 DEF Place, QueuedStates, Terminal
      <3> QED BY <3>1, <3>2, <3>3 DEF Holds
    <2>2. s \notin globalq /\ lhand = NULL
      BY <1>1 DEF IInv, PlaceInv, Global, ControlInv, sandbox_alloc
    <2>3. /\ UNCHANGED <<control, signals, queues, ctxt, saved>>
          /\ lpc' = "add" /\ lhand' = s
          /\ state' = [state EXCEPT ![s] = "INITIALIZED"]
          /\ http' = [http EXCEPT ![s] = "open"]
          /\ absolute_deadline' = [absolute_deadline EXCEPT ![s] = d]
      BY <1>1 DEF sandbox_alloc, SetState
    <2>4. TypeOK' BY <2>3 DEF TypeOK, SandboxState, control, signals, queues
    <2>5. ControlInv' BY <2>3 DEF ControlInv, At, control
    <2>6. ASSUME NEW v \in Worker
          PROVE  Thread(v, Pos(v))' /\ Signal(v)' /\ Context(v)' /\ Edf(v)'
      BY <2>1, <2>3, ThreadFrame DEF control, signals, queues, TypeOK
    <2>7. PlaceInv'
      <3>1. ASSUME NEW v \in Worker
            PROVE  Place(v)'
        <4>1. Place(v) /\ s # inhand[v] /\ s \notin runq[v] /\ s \notin cleanup[v]
          BY <2>1 DEF IInv, PlaceInv, Holds
        <4>2. /\ runq' = runq /\ cleanup' = cleanup /\ globalq' = globalq /\ lhand' = s
              /\ inhand' = inhand /\ exec' = exec /\ pc' = pc /\ intr' = intr
          BY <2>3 DEF control, queues
        <4>3. \A x \in Sandbox : x # s => state'[x] = state[x]
          BY <2>3 DEF IInv, TypeOK
        <4>4. inhand[v] \in Sandbox \cup {NULL} /\ runq[v] \subseteq Sandbox /\ cleanup[v] \subseteq Sandbox
          BY DEF IInv, TypeOK
        <4> QED BY <4>1, <4>2, <4>3, <4>4 DEF Place, Pos
      <3>2. Global' BY <2>2, <2>3 DEF IInv, PlaceInv, Global, TypeOK, queues
      <3>3. \A v, w \in Worker : v # w => Disjoint(v, w)'
        BY <2>3 DEF IInv, PlaceInv, Disjoint, control, queues
      <3> QED BY <3>1, <3>2, <3>3 DEF PlaceInv
    <2>8. CoverInv' BY <2>2, <2>3 DEF IInv, CoverInv, QueuedStates, TypeOK, control, queues
    <2>9. HttpInv' BY <2>3 DEF IInv, HttpInv, Session, QueuedStates, TypeOK
    <2>10. \A t \in Sandbox : Saved(t)' BY <2>3 DEF IInv, ContextInv, Saved, TypeOK
    <2> QED BY <2>4, <2>5, <2>6, <2>7, <2>8, <2>9, <2>10
            DEF IInv, ThreadInv, SignalInv, ContextInv, EdfInv
  <1>2. CASE global_request_scheduler_add
    <2>1. UNCHANGED <<control, signals, sandboxes, runq, cleanup>>
      BY <1>2 DEF global_request_scheduler_add
    <2>2. \/ globalq' = globalq \cup {lhand} /\ lpc' = "epoll" /\ lhand' = NULL
          \/ globalq' = globalq /\ lpc' = "free" /\ lhand' = lhand
      BY <1>2 DEF global_request_scheduler_add
    <2>3. lhand \in Sandbox /\ state[lhand] = "INITIALIZED" /\ lhand \notin globalq
      BY <1>2 DEF IInv, PlaceInv, Global, ControlInv, TypeOK, global_request_scheduler_add
    <2>4. TypeOK' BY <2>1, <2>2, <2>3 DEF TypeOK, control, signals, sandboxes
    <2>5. ControlInv' BY <2>1, <2>2, <2>3 DEF ControlInv, At, control, sandboxes
    <2>6. ASSUME NEW v \in Worker
          PROVE  Thread(v, Pos(v))' /\ Signal(v)' /\ Context(v)' /\ Edf(v)'
      BY <2>1, ThreadFrame DEF control, signals, sandboxes
    <2>7. PlaceInv'
      <3>1. \A v \in Worker : Place(v)'
        BY <2>1, <2>2, <2>3 DEF IInv, PlaceInv, Place, Pos, control, sandboxes
      <3>2. Global' BY <2>1, <2>2, <2>3 DEF IInv, PlaceInv, Global, sandboxes
      <3>3. \A v, w \in Worker : v # w => Disjoint(v, w)'
        BY <2>1 DEF IInv, PlaceInv, Disjoint, control
      <3> QED BY <3>1, <3>2, <3>3 DEF PlaceInv
    <2>8. CoverInv' BY <2>1, <2>2 DEF IInv, CoverInv, control, sandboxes
    <2>9. HttpInv' BY <2>1 DEF IInv, HttpInv, Session, sandboxes
    <2>10. \A t \in Sandbox : Saved(t)' BY <2>1 DEF IInv, ContextInv, Saved, sandboxes
    <2> QED BY <2>4, <2>5, <2>6, <2>7, <2>8, <2>9, <2>10
            DEF IInv, ThreadInv, SignalInv, ContextInv, EdfInv
  <1> QED BY <1>1, <1>2 DEF ListenerStep

\* The expiry of the timer, and a stuttering step, leave all the invariant mentions alone
\* but timer itself.
LEMMA TimerPreserves ==
    ASSUME IInv, timer_expires \/ UNCHANGED vars
    PROVE  IInv'
  <1>1. UNCHANGED <<pc, intr, exec, current, inhand, deferred, pending, targets, sandboxes,
                    queues, listener>> /\ timer' \in BOOLEAN
    BY DEF timer_expires, vars, control, signals, IInv, TypeOK
  <1>2. ASSUME NEW v \in Worker
        PROVE  Thread(v, Pos(v))' /\ Signal(v)' /\ Context(v)' /\ Edf(v)'
    BY <1>1, ThreadFrame DEF sandboxes, queues
  <1>3. TypeOK' BY <1>1 DEF IInv, TypeOK, sandboxes, queues, listener
  <1>4. ControlInv' BY <1>1 DEF IInv, ControlInv, At, sandboxes, listener
  <1>5. PlaceInv'
    <2>1. Global' BY <1>1 DEF IInv, PlaceInv, Global, sandboxes, queues, listener
    <2>2. \A w \in Worker : Place(w)'
      BY <1>1 DEF IInv, PlaceInv, Place, Pos, sandboxes, queues, listener
    <2>3. \A v, w \in Worker : v # w => Disjoint(v, w)'
      BY <1>1 DEF IInv, PlaceInv, Disjoint, queues
    <2> QED BY <2>1, <2>2, <2>3 DEF PlaceInv
  <1>6. CoverInv' BY <1>1 DEF IInv, CoverInv, sandboxes, queues, listener
  <1>7. HttpInv' BY <1>1 DEF IInv, HttpInv, Session, sandboxes
  <1>8. \A t \in Sandbox : Saved(t)' BY <1>1 DEF IInv, ContextInv, Saved, sandboxes
  <1> QED BY <1>2, <1>3, <1>4, <1>5, <1>6, <1>7, <1>8
          DEF IInv, ThreadInv, SignalInv, ContextInv, EdfInv

\* Initially every worker idles and nothing is allocated.
LEMMA InitIInv ==
    ASSUME Init
    PROVE  IInv
  <1> USE NamesAssumption DEF Init
  <1>1. TypeOK BY DEF TypeOK, PC, BasePC, SysPC, SandboxState, Variant
  <1>2. ControlInv BY DEF ControlInv, At, HandlerPC
  <1>3. ThreadInv /\ SignalInv
    BY DEF ThreadInv, SignalInv, Thread, Signal, Pos, BasePC, GetNextPC, UserPC, SysPC, Dispatch
  <1>4. PlaceInv BY DEF PlaceInv, Global, Place, Disjoint
  <1>5. CoverInv /\ HttpInv BY DEF CoverInv, HttpInv, Session, QueuedStates
  <1>6. ContextInv BY DEF ContextInv, Saved, Context, At
  <1>7. EdfInv BY DEF EdfInv, Edf
  <1> QED BY <1>1, <1>2, <1>3, <1>4, <1>5, <1>6, <1>7 DEF IInv

-----------------------------------------------------------------------------
(***************************************************************************)
(* The safety invariants.                                                  *)
(***************************************************************************)
\* The inductive invariant holds in every reachable state, whatever the number of workers
\* and sandboxes, the deadlines, the capacity of the queue and the options.
THEOREM Invariance == Spec => []IInv
  <1>1. Init => IInv BY InitIInv
  <1>2. IInv /\ [Next]_vars => IInv'
    <2> SUFFICES ASSUME IInv, [Next]_vars PROVE IInv' OBVIOUS
    <2> QED BY WorkerPreserves, ListenerPreserves, TimerPreserves DEF Next, Step
  <1> QED BY <1>1, <1>2, PTL DEF Spec

\* Every variable keeps its type.
THEOREM TypeCorrectness == Spec => []TypeOK
  BY Invariance, PTL DEF IInv

\* No sandbox is lost or shared on its way from the listener to a run queue and on to
\* the cleanup queue of its worker.
THEOREM HandOver == Spec => []OnePlace
  <1>1. IInv => OnePlace
    <2> SUFFICES ASSUME IInv PROVE OnePlace OBVIOUS
    <2>1. ASSUME NEW s \in Sandbox
          PROVE  /\ state[s] = "INITIALIZED" =>
                      s \in globalq \/ s = lhand \/ \E w \in Worker : inhand[w] = s
                 /\ state[s] \in QueuedStates <=> \E w \in Worker : s \in runq[w]
                 /\ state[s] \in {"RETURNED", "COMPLETE", "ERROR"} =>
                      \E w \in Worker : exec[w] = s \/ s \in cleanup[w] \/ inhand[w] = s
      BY DEF IInv, CoverInv, PlaceInv, Place
    <2>2. \A s \in globalq : state[s] = "INITIALIZED" /\ s # lhand
      BY NamesAssumption DEF IInv, TypeOK, PlaceInv, Global
    <2>3. \A w \in Worker : inhand[w] # NULL => inhand[w] \notin globalq \cup {lhand}
      BY DEF IInv, PlaceInv, Place
    <2>4. ASSUME NEW w \in Worker, NEW v \in Worker \ {w}
          PROVE  /\ runq[w] \cap runq[v] = {} /\ cleanup[w] \cap cleanup[v] = {}
                 /\ inhand[w] # NULL => inhand[w] # inhand[v]
      BY DEF IInv, TypeOK, PlaceInv, Disjoint
    <2> QED BY <2>1, <2>2, <2>3, <2>4, SMT DEF OnePlace
  <1> QED BY <1>1, Invariance, PTL

\* Mutual exclusion of the workers on a sandbox.
THEOREM MutualExclusion == Spec => []RunningIsCurrent
  <1>1. IInv => RunningIsCurrent
    <2> SUFFICES ASSUME IInv PROVE RunningIsCurrent OBVIOUS
    <2>1. ASSUME NEW v \in Worker, NEW w \in Worker, v # w
          PROVE  /\ current[w] # NULL => current[v] # current[w]
                 /\ exec[w] # Base => exec[v] # exec[w]
      BY <2>1, CurrentDistinct DEF IInv, PlaceInv, Disjoint
    <2>2. ASSUME NEW s \in Sandbox, state[s] \in {"RUNNING_SYS", "RUNNING_USER", "INTERRUPTED"}
          PROVE  \E w \in Worker : current[w] = s /\ s \in runq[w]
      BY <2>2 DEF IInv, CoverInv, ContextInv, Context, QueuedStates
    <2> QED BY <2>1, <2>2 DEF RunningIsCurrent
  <1> QED BY <1>1, Invariance, PTL

\* No thread runs on the stack of a freed sandbox.
THEOREM MemorySafety == Spec => []StackAlive
  <1>1. IInv => StackAlive
    <2> SUFFICES ASSUME IInv, NEW w \in Worker
                 PROVE  /\ exec[w] # Base => state[exec[w]] # "FREED"
                        /\ \A s \in runq[w] \cup cleanup[w] : state[s] # "FREED"
      BY DEF StackAlive
    <2>1. exec[w] # Base => state[exec[w]] # "FREED" BY ExecView
    <2> QED BY <2>1 DEF IInv, PlaceInv, Place, QueuedStates, Terminal
  <1> QED BY <1>1, Invariance, PTL

\* The sandbox a worker runs has the earliest deadline of its run queue.
THEOREM EarliestDeadlineFirst == Spec => []RunsEarliest
  <1>1. IInv => RunsEarliest BY DEF IInv, EdfInv, Edf, RunsEarliest
  <1> QED BY <1>1, Invariance, PTL

\* No SIGALRM stays deferred in module code.
THEOREM Deferral == Spec => []NoDeferredInUserCode
  <1>1. IInv => NoDeferredInUserCode
    BY DEF IInv, ControlInv, SignalInv, Signal, Pos, NoDeferredInUserCode, Dispatch, GetNextPC,
           HandlerPC
  <1> QED BY <1>1, Invariance, PTL

\* The assertions of the scheduler, the context switch and the signal handlers hold.
THEOREM Assertions == Spec => []AssertionsHold
  <1>1. IInv => AssertionsHold
    <2> SUFFICES ASSUME IInv, NEW w \in Worker PROVE WorkerAsserts(w)
      BY DEF AssertionsHold
    <2> USE NamesAssumption
    <2>1. pc[w] = "idle" => current[w] = NULL /\ ~deferred[w] BY BaseView DEF BasePC
    <2>2. pc[w] \in {"exit", "returned"} \cup SysPC => current[w] # NULL
      <3>1. pc[w] \in {"exit", "returned"} => current[w] \in Sandbox BY EndView
      <3>2. pc[w] \in SysPC => current[w] \in Sandbox BY SysView
      <3> QED BY <3>1, <3>2
    <2>3. pc[w] \in SysPC => state[current[w]] = "RUNNING_SYS" /\ current[w] \in runq[w] BY SysView
    <2>4. pc[w] = "user" => state[current[w]] = "RUNNING_USER" BY UserView DEF UserPC
    <2>5. pc[w] \in {"cleanup", "coop"} => \A s \in cleanup[w] : MayBeFreed(s) /\ s # current[w]
      <3>1. pc[w] \in {"cleanup", "coop"} => current[w] = NULL BY BaseView, EndView DEF BasePC
      <3>2. \A s \in cleanup[w] : s \in Sandbox /\ state[s] \in {"COMPLETE", "ERROR"}
        BY DEF IInv, TypeOK, PlaceInv, Place, Terminal
      <3>3. \A s \in cleanup[w] : http[s] # "open" BY <3>2 DEF IInv, HttpInv, Session
      <3> QED BY <3>1, <3>2, <3>3 DEF MayBeFreed
    <2>6. pc[w] = "choose" /\ intr[w] # "none" =>
              state[current[w]] = "INTERRUPTED" /\ runq[w] # {} /\ ctxt[current[w]] = "RUNNING"
      <3> SUFFICES ASSUME pc[w] = "choose", intr[w] # "none"
                   PROVE  state[current[w]] = "INTERRUPTED" /\ runq[w] # {} /\ ctxt[current[w]] = "RUNNING"
        OBVIOUS
      <3>1. /\ current[w] \in Sandbox /\ exec[w] = current[w]
            /\ current[w] \in runq[w] /\ state[current[w]] = "INTERRUPTED"
        BY PreemptView DEF Dispatch
      <3>2. Context(w) BY DEF IInv, ContextInv
      <3> QED BY <3>1, <3>2 DEF Context
    <2>7. \A n \in runq[w] : pc[w] = "choose" /\ IsLocalHead(n, w) /\ n # current[w] =>
              \/ state[n] = "RUNNABLE" /\ ctxt[n] = "FAST"
              \/ state[n] = "PREEMPTED" /\ ctxt[n] = "SLOW"
      BY WaitingView
    <2>8. pc[w] = "switch" => exec[w] # current[w] /\ (exec[w] # Base => ctxt[exec[w]] = "RUNNING")
      <3>1. pc[w] = "switch" => exec[w] # current[w] BY SwitchView
      <3>2. Context(w) BY DEF IInv, ContextInv
      <3> QED BY <3>1, <3>2 DEF Context
    <2>9. pc[w] = "sigusr1" =>
              current[w] # NULL /\ state[current[w]] = "PREEMPTED" /\ ctxt[current[w]] = "SLOW"
      BY SwitchView, ReadyView
    <2> QED BY <2>1, <2>2, <2>3, <2>4, <2>5, <2>6, <2>7, <2>8, <2>9 DEF WorkerAsserts
  <1> QED BY <1>1, Invariance, PTL

-----------------------------------------------------------------------------
(***************************************************************************)
(* The action properties.                                                  *)
(***************************************************************************)
\* What a step of worker w does to the states and the sessions of the sandboxes, read off
\* the actions alone: it frees only what is on the cleanup queue, answers only for the
\* sandbox it prepares or has current, and preempts only in preemptive_switch.
Effect(w) ==
    /\ \A s \in Sandbox : state'[s] = "FREED" => state[s] = "FREED" \/ s \in cleanup[w]
    /\ \A s \in Sandbox : http'[s] = http[s] \/ (pc[w] = "prepare" /\ s = inhand[w])
                                             \/ (pc[w] \in {"fini", "trap"} /\ s = current[w])
    /\ \A s \in Sandbox : state'[s] = "PREEMPTED" =>
           state[s] = "PREEMPTED" \/ (s = current[w] /\ \E n \in Sandbox : preemptive_switch(w, n))

\* One step of a worker has such an effect.
LEMMA StepEffect ==
    ASSUME TypeOK, NEW w \in Worker, Step(w)
    PROVE  Effect(w)
  <1> state \in [Sandbox -> SandboxState] /\ http \in [Sandbox -> {"none", "open", "200", "500"}]
    BY DEF TypeOK
  <1>1. CASE UNCHANGED <<state, http>>
    BY <1>1 DEF Effect
  <1>2. ASSUME NEW n, NEW x, x \notin {"FREED", "PREEMPTED"}, SetState(n, x), UNCHANGED http
        PROVE  Effect(w)
    BY <1>2 DEF SetState, Effect
  <1>3. ASSUME NEW n, NEW x, NEW code, x \notin {"FREED", "PREEMPTED"}, SetState(n, x),
               http_session_send_response(n, code),
               \/ pc[w] = "prepare" /\ n = inhand[w]
               \/ pc[w] \in {"fini", "trap"} /\ n = current[w]
        PROVE  Effect(w)
    <2>1. \A s \in Sandbox : s # n => state'[s] = state[s] /\ http'[s] = http[s]
      BY <1>3 DEF SetState, http_session_send_response
    <2>2. n \in Sandbox => state'[n] = x BY <1>3 DEF SetState
    <2> QED BY <1>3, <2>1, <2>2 DEF Effect
  <1>4. CASE local_cleanup_queue_free(w) /\ UNCHANGED http
    BY <1>4 DEF local_cleanup_queue_free, Effect
  <1>5. ASSUME NEW resume, NEW ts, sigalrm_enter(w, resume, ts), UNCHANGED http PROVE Effect(w)
    <2>1. CASE state' = state BY <1>1, <1>5, <2>1
    <2>2. CASE SetState(current[w], "INTERRUPTED") BY <1>2, <1>5, <2>2
    <2> QED BY <1>5, <2>1, <2>2 DEF sigalrm_enter, SetState
  <1>6. CASE edf_peek(w) \/ edf_remove_if_earlier(w) \/ scheduler_idle_loop(w)
               \/ scheduler_cooperative_sched(w) \/ cooperative_choose(w)
    BY <1>1, <1>6 DEF edf_peek, edf_remove_if_earlier, scheduler_idle_loop,
       scheduler_cooperative_sched, cooperative_choose, sandboxes
  <1>7. CASE cooperative_switch_slow(w) \/ scheduler_switch_to_base_context(w)
               \/ deferred_sigalrm_replay(w) \/ deferred_sigalrm_clear(w) \/ sigalrm_dispatch(w)
    BY <1>1, <1>7 DEF cooperative_switch_slow, scheduler_switch_to_base_context,
       deferred_sigalrm_replay, deferred_sigalrm_clear, sigalrm_dispatch, sandboxes
  <1>8. ASSUME NEW v \in Worker, propagate_sigalrm(w, v) PROVE Effect(w)
    BY <1>1, <1>8 DEF propagate_sigalrm, sandboxes
  <1>9. CASE edf_prepare(w)
    <2>1. CASE UNCHANGED <<state, http>> BY <1>1, <2>1
    <2>2. CASE SetState(inhand[w], "ERROR") /\ http_session_send_response(inhand[w], "500")
      BY <1>3, <1>9, <2>2 DEF edf_prepare
    <2> QED BY <1>9, <2>1, <2>2 DEF edf_prepare
  <1>10. CASE edf_set_as_runnable(w)
    BY <1>2, <1>10 DEF edf_set_as_runnable
  <1>11. CASE idle_cleanup(w) \/ cooperative_clear(w)
    BY <1>4, <1>11 DEF idle_cleanup, cooperative_clear
  <1>12. CASE cooperative_switch_fast(w)
    BY <1>2, <1>12 DEF cooperative_switch_fast
  <1>13. CASE sandbox_return(w) \/ preemptive_resume(w)
    BY <1>2, <1>13 DEF sandbox_return, preemptive_resume
  <1>14. ASSUME NEW l \in ModuleDoes, sandbox_syscall(w, l) PROVE Effect(w)
    BY <1>2, <1>14 DEF sandbox_syscall
  <1>15. CASE sandbox_set_as_returned(w)
    BY <1>3, <1>15 DEF sandbox_set_as_returned
  <1>16. CASE sandbox_exit_error(w)
    BY <1>3, <1>16 DEF sandbox_exit_error
  <1>17. CASE sandbox_exit_success(w) \/ sigusr1(w)
    BY <1>2, <1>17 DEF sandbox_exit_success, sigusr1
  <1>18. CASE sigalrm_kernel(w)
    BY <1>5, <1>18 DEF sigalrm_kernel
  <1>19. CASE sigalrm_tkill(w) \/ sigalrm_raise(w)
    BY <1>5, <1>19 DEF sigalrm_tkill, sigalrm_raise
  <1>20. ASSUME NEW n \in Sandbox, preemptive_switch(w, n) PROVE Effect(w)
    <2>1. http' = http BY <1>20 DEF preemptive_switch
    <2>2. \A s \in Sandbox : s \notin {n, current[w]} => state'[s] = state[s]
      BY <1>20 DEF preemptive_switch
    <2>3. n # current[w] /\ state'[n] \in {"RUNNING_SYS", "RUNNING_USER"}
      BY <1>20 DEF preemptive_switch
    <2>4. current[w] \in Sandbox => state'[current[w]] = "PREEMPTED"
      BY <1>20 DEF preemptive_switch
    <2> QED BY <1>20, <2>1, <2>2, <2>3, <2>4 DEF Effect
  <1> QED
    BY <1>6, <1>7, <1>8, <1>9, <1>10, <1>11, <1>12, <1>13, <1>14, <1>15, <1>16, <1>17, <1>18,
       <1>19, <1>20 DEF Step, WorkerStep, UserStep

\* A step keeps the answer of sandbox s, and frees s only when it has one.
Answer(s) == /\ http[s] \in {"200", "500"} => http'[s] = http[s]
             /\ state'[s] = "FREED" => http[s] \in {"200", "500"}

\* A step of a worker changes no answer and frees no sandbox without one.
LEMMA AnswerOwn ==
    ASSUME IInv, ~Aborted, NEW w \in Worker, Step(w)
    PROVE  \A s \in Sandbox : Answer(s)
  <1> SUFFICES ASSUME NEW s \in Sandbox PROVE Answer(s) OBVIOUS
  <1>1. Session(s) /\ TypeOK BY DEF IInv, HttpInv
  <1>2. Effect(w) BY <1>1, StepEffect
  <1>3. s \in cleanup[w] => state[s] \in Terminal BY DEF IInv, PlaceInv, Place
  <1>4. pc[w] = "prepare" /\ s = inhand[w] => state[s] = "INITIALIZED" BY InHandView
  <1>5. pc[w] \in {"fini", "trap"} /\ s = current[w] => state[s] = "RUNNING_SYS"
    BY SysView DEF SysPC
  <1>6. state'[s] = "FREED" => http[s] \in {"200", "500"}
    BY <1>1, <1>2, <1>3 DEF Effect, Session, Terminal
  <1>7. http'[s] = http[s] \/ http[s] = "open"
    BY <1>1, <1>2, <1>4, <1>5 DEF Effect, Session, QueuedStates
  <1> QED BY <1>6, <1>7 DEF Answer

\* A step preempts sandbox s only in favour of an earlier deadline of the same worker.
Preemption(s) ==
    state[s] # "PREEMPTED" /\ state'[s] = "PREEMPTED" =>
        \E w \in Worker : /\ current[w] = s
                          /\ current'[w] # NULL
                          /\ absolute_deadline[current'[w]] < absolute_deadline[s]

\* Only scheduler_preemptive_sched preempts, and it does so for an earlier deadline.
LEMMA PreemptionOwn ==
    ASSUME IInv, ~Aborted, NEW w \in Worker, Step(w)
    PROVE  \A s \in Sandbox : Preemption(s)
  <1> SUFFICES ASSUME NEW s \in Sandbox, state[s] # "PREEMPTED", state'[s] = "PREEMPTED"
               PROVE  /\ current[w] = s /\ current'[w] # NULL
                      /\ absolute_deadline[current'[w]] < absolute_deadline[s]
    BY DEF Preemption
  <1>1. TypeOK /\ Edf(w) BY DEF IInv, EdfInv
  <1>2. Effect(w) BY <1>1, StepEffect
  <1>3. PICK n \in Sandbox : preemptive_switch(w, n) BY <1>2 DEF Effect
  <1>4. s = current[w] BY <1>2 DEF Effect
  <1>5. IsLocalHead(n, w) /\ n # current[w] BY <1>3 DEF preemptive_switch
  <1>6. current'[w] = n /\ n # NULL BY <1>1, <1>3, NamesAssumption DEF preemptive_switch, TypeOK
  <1>7. current[w] \in runq[w] BY <1>3, PreemptView DEF preemptive_switch, Dispatch, GetNextPC
  <1>8. absolute_deadline[n] < absolute_deadline[current[w]] BY <1>1, <1>5, <1>7, HeadIsEarliest
  <1> QED BY <1>4, <1>6, <1>8

\* A client gets one answer, before its sandbox is freed.
THEOREM OneAnswer == Spec => AnsweredOnce
  <1>1. IInv /\ [Next]_vars => [\A s \in Sandbox : Answer(s)]_vars
    <2> SUFFICES ASSUME IInv, Next PROVE \A s \in Sandbox : Answer(s) OBVIOUS
    <2> HttpInv /\ TypeOK BY DEF IInv
    <2>1. ASSUME NEW t \in Sandbox, NEW d \in Deadline, sandbox_alloc(t, d)
          PROVE  \A s \in Sandbox : Answer(s)
      BY <2>1 DEF sandbox_alloc, SetState, Answer, HttpInv, Session, TypeOK
    <2>2. CASE global_request_scheduler_add \/ timer_expires
      BY <2>2 DEF global_request_scheduler_add, timer_expires, sandboxes, Answer, HttpInv, Session
    <2> QED BY <2>1, <2>2, AnswerOwn DEF Next, ListenerStep, Step
  <1> QED BY <1>1, Invariance, PTL DEF Spec, AnsweredOnce, Answer

\* Preemption is for an earlier deadline only.
THEOREM PreemptionIsEdf == Spec => PreemptedByEarlier
  <1>1. IInv /\ [Next]_vars => [\A s \in Sandbox : Preemption(s)]_vars
    <2> SUFFICES ASSUME IInv, Next PROVE \A s \in Sandbox : Preemption(s) OBVIOUS
    <2> TypeOK BY DEF IInv
    <2>1. ASSUME NEW t \in Sandbox, NEW d \in Deadline, sandbox_alloc(t, d)
          PROVE  \A s \in Sandbox : Preemption(s)
      BY <2>1 DEF sandbox_alloc, SetState, Preemption, TypeOK
    <2>2. CASE global_request_scheduler_add \/ timer_expires
      BY <2>2 DEF global_request_scheduler_add, timer_expires, sandboxes, Preemption
    <2> QED BY <2>1, <2>2, PreemptionOwn DEF Next, ListenerStep, Step
  <1> QED BY <1>1, Invariance, PTL DEF Spec, PreemptedByEarlier, Preemption

\* A sandbox never moves from one run queue to another.
THEOREM Stays == Spec => NoMigration
  <1> DEFINE Stay == \A s \in Sandbox, v, w \in Worker : s \in runq[w] /\ v # w => s \notin runq'[v]
  <1>1. IInv /\ [Next]_vars => [Stay]_vars
    <2> SUFFICES ASSUME IInv, Next, NEW s \in Sandbox, NEW v \in Worker, NEW w \in Worker,
                        s \in runq[w], v # w
                 PROVE  s \notin runq'[v]
      OBVIOUS
    <2>1. s \notin runq[v] /\ s \notin globalq
      BY Unclaimed DEF IInv, PlaceInv, Disjoint, Holds
    <2>2. CASE ListenerStep \/ timer_expires
      BY <2>1, <2>2 DEF ListenerStep, sandbox_alloc, global_request_scheduler_add, timer_expires, queues
    <2>3. ASSUME NEW u \in Worker, Step(u) PROVE s \notin runq'[v]
      <3>1. LocalTo(u) /\ ~Aborted BY <2>3, Locality DEF Next
      <3>2. ~Holds(v, s) BY <3>1, Apart DEF Holds
      <3>3. CASE u = v BY <2>1, <3>1, <3>2, <3>3 DEF LocalTo, Holds
      <3>4. CASE u # v BY <2>1, <3>1, <3>4 DEF LocalTo
      <3> QED BY <3>3, <3>4
    <2> QED BY <2>2, <2>3 DEF Next, Step
  <1> QED BY <1>1, Invariance, PTL DEF Spec, NoMigration

-----------------------------------------------------------------------------
(***************************************************************************)
(* The refinement of SandboxLifecycle: every step is a transition of the   *)
(* documented life cycle or changes neither a state nor a run queue.       *)
(***************************************************************************)
Owner == [s \in Sandbox |-> {w \in Worker : s \in runq[w]}]

\* A step that the life cycle allows, or does not see.
Allowed == Lifecycle!Next \/ UNCHANGED <<state, Owner>>

\* A sandbox on a run queue is owned by that worker, and one that is not queued by none.
LEMMA OwnerIs ==
    ASSUME IInv, NEW s \in Sandbox
    PROVE  /\ \A w \in Worker : s \in runq[w] => Owner[s] = {w}
           /\ state[s] \notin QueuedStates => Owner[s] = {}
  <1>1. \A v, w \in Worker : s \in runq[v] /\ s \in runq[w] => v = w
    BY DEF IInv, PlaceInv, Disjoint
  <1>2. \A w \in Worker : s \in runq[w] => state[s] \in QueuedStates
    BY DEF IInv, PlaceInv, Place
  <1>3. Owner[s] = {w \in Worker : s \in runq[w]}
    BY DEF Owner
  <1> QED BY <1>1, <1>2, <1>3

\* A worker whose current sandbox does not run, runs none.
LEMMA WorkerIsFree ==
    ASSUME IInv, NEW w \in Worker,
           current[w] # NULL => state[current[w]] \notin {"RUNNING_SYS", "RUNNING_USER", "INTERRUPTED"}
    PROVE  \A s \in Sandbox : w \in Owner[s] => state[s] \notin {"RUNNING_SYS", "RUNNING_USER", "INTERRUPTED"}
  <1> SUFFICES ASSUME NEW s \in Sandbox, s \in runq[w],
                      state[s] \in {"RUNNING_SYS", "RUNNING_USER", "INTERRUPTED"}
               PROVE  FALSE
    BY DEF Owner
  <1>1. Context(w) /\ s # NULL
    BY NamesAssumption DEF IInv, ContextInv
  <1> QED BY <1>1 DEF Context

\* A step that changes neither a state nor a run queue is one the life cycle does not see.
LEMMA Unseen ==
    ASSUME state' = state, runq' = runq
    PROVE  Allowed
  BY DEF Allowed, Owner

\* A sandbox goes from one state to another and stays on its run queue, if it is on one.
LEMMA Moved ==
    ASSUME runq' = runq, NEW s \in Sandbox, NEW x, SetState(s, x),
           \/ state[s] = "UNINITIALIZED" /\ x = "INITIALIZED"
           \/ state[s] = "INITIALIZED" /\ x = "ERROR"
           \/ state[s] = "RUNNING_USER" /\ x \in {"RUNNING_SYS", "INTERRUPTED"}
           \/ state[s] \in {"RUNNING_SYS", "INTERRUPTED"} /\ x = "RUNNING_USER"
           \/ state[s] = "RETURNED" /\ x = "COMPLETE"
    PROVE  Allowed
  <1>1. Owner' = Owner /\ state' = [state EXCEPT ![s] = x]
    BY DEF Owner, SetState
  <1>2. \/ Lifecycle!Accept(s) \/ Lifecycle!Reject(s) \/ Lifecycle!Syscall(s) \/ Lifecycle!Interrupt(s)
        \/ Lifecycle!Return(s) \/ Lifecycle!InterruptReturn(s) \/ Lifecycle!Complete(s)
    BY <1>1 DEF Owner, Lifecycle!Accept, Lifecycle!Reject, Lifecycle!Syscall, Lifecycle!Interrupt,
       Lifecycle!Return,
       Lifecycle!InterruptReturn, Lifecycle!Complete, Lifecycle!Move
  <1> QED BY <1>2 DEF Allowed, Lifecycle!Next

\* A worker starts or resumes a sandbox of its run queue when it runs none.
LEMMA Dispatched ==
    ASSUME IInv, NEW w \in Worker, runq' = runq, NEW s \in Sandbox, NEW x, SetState(s, x), s \in runq[w],
           current[w] # NULL => state[current[w]] \notin {"RUNNING_SYS", "RUNNING_USER", "INTERRUPTED"},
           \/ state[s] = "RUNNABLE" /\ x = "RUNNING_SYS"
           \/ state[s] = "PREEMPTED" /\ x = "RUNNING_USER"
    PROVE  Allowed
  <1>1. Owner' = Owner /\ state' = [state EXCEPT ![s] = x] /\ Owner[s] = {w}
    BY OwnerIs DEF Owner, SetState
  <1>2. Lifecycle!IsFree(w)
    BY WorkerIsFree DEF Lifecycle!IsFree, Lifecycle!Running, Owner
  <1>3. Lifecycle!Start(s, w) \/ Lifecycle!Resume(s, w)
    BY <1>1, <1>2 DEF Owner, Lifecycle!Start, Lifecycle!Resume, Lifecycle!Move
  <1> QED BY <1>3 DEF Allowed, Lifecycle!Next

\* A sandbox leaves the run queue when it has ended.
LEMMA Finished ==
    ASSUME IInv, NEW w \in Worker, NEW s \in Sandbox, NEW x \in {"RETURNED", "ERROR"}, SetState(s, x),
           state[s] = "RUNNING_SYS", s \in runq[w], local_runqueue_delete(w, s)
    PROVE  Allowed
  <1>1. runq' = [v \in Worker |-> IF v = w THEN runq[w] \ {s} ELSE runq[v]]
    BY DEF local_runqueue_delete, IInv, TypeOK
  <1>2. \A r \in Sandbox : Owner'[r] = IF r = s THEN {} ELSE Owner[r]
    <2>1. \A r \in Sandbox : Owner'[r] = {v \in Worker : r \in runq'[v]} /\ Owner[r] = {v \in Worker : r \in runq[v]}
      BY DEF Owner
    <2>2. \A v \in Worker : v # w => s \notin runq[v]
      BY DEF IInv, PlaceInv, Disjoint
    <2>3. \A v \in Worker : s \notin runq'[v] /\ \A r \in Sandbox : r # s => (r \in runq'[v] <=> r \in runq[v])
      BY <1>1, <2>2
    <2>4. Owner'[s] = {} BY <2>1, <2>3
    <2>5. ASSUME NEW r \in Sandbox, r # s PROVE Owner'[r] = Owner[r]
      BY <2>1, <2>3, <2>5
    <2> QED BY <2>4, <2>5
  <1>3. Owner' = [Owner EXCEPT ![s] = {}]
    <2> DEFINE O == Owner  P == Owner'
    <2>1. /\ O = [r \in Sandbox |-> O[r]] /\ P = [r \in Sandbox |-> P[r]]
      BY DEF Owner
    <2>2. \A r \in Sandbox : P[r] = IF r = s THEN {} ELSE O[r]
      BY <1>2
    <2> HIDE DEF O, P
    <2>3. P = [O EXCEPT ![s] = {}]
      BY <2>1, <2>2
    <2> QED BY <2>3 DEF O, P
  <1>4. Lifecycle!Finish(s)
    BY <1>3 DEF Owner, SetState, Lifecycle!Finish, Lifecycle!Move
  <1> QED BY <1>4 DEF Allowed, Lifecycle!Next

\* A worker claims the sandbox it has in hand.
LEMMA Claimed ==
    ASSUME IInv, NEW w \in Worker, NEW s \in Sandbox, SetState(s, "RUNNABLE"),
           state[s] = "INITIALIZED", local_runqueue_add(w, s)
    PROVE  Allowed
  <1>1. runq' = [v \in Worker |-> IF v = w THEN runq[w] \cup {s} ELSE runq[v]]
    BY DEF local_runqueue_add, IInv, TypeOK
  <1>2. Owner[s] = {}
    BY OwnerIs DEF QueuedStates
  <1>3. \A r \in Sandbox : Owner'[r] = IF r = s THEN {w} ELSE Owner[r]
    <2>1. \A r \in Sandbox : Owner'[r] = {v \in Worker : r \in runq'[v]} /\ Owner[r] = {v \in Worker : r \in runq[v]}
      BY DEF Owner
    <2>2. \A v \in Worker : s \notin runq[v]
      BY <1>2, <2>1
    <2>3. \A v \in Worker : /\ s \in runq'[v] <=> v = w
                            /\ \A r \in Sandbox : r # s => (r \in runq'[v] <=> r \in runq[v])
      BY <1>1, <2>2
    <2>4. Owner'[s] = {w}
      <3>1. \A v \in Worker : s \in runq'[v] <=> v = w BY <2>3
      <3>2. {v \in Worker : s \in runq'[v]} = {w} BY <3>1
      <3> QED BY <2>1, <3>2
    <2>5. ASSUME NEW r \in Sandbox, r # s PROVE Owner'[r] = Owner[r]
      BY <2>1, <2>3, <2>5
    <2> QED BY <2>4, <2>5
  <1>4. Owner' = [Owner EXCEPT ![s] = {w}]
    <2> DEFINE O == Owner  P == Owner'
    <2>1. /\ O = [r \in Sandbox |-> O[r]] /\ P = [r \in Sandbox |-> P[r]]
      BY DEF Owner
    <2>2. \A r \in Sandbox : P[r] = IF r = s THEN {w} ELSE O[r]
      BY <1>3
    <2> HIDE DEF O, P
    <2>3. P = [O EXCEPT ![s] = {w}]
      BY <2>1, <2>2
    <2> QED BY <2>3 DEF O, P
  <1>5. Lifecycle!Claim(s, w)
    BY <1>2, <1>4 DEF Owner, SetState, Lifecycle!Claim, Lifecycle!Move
  <1> QED BY <1>5 DEF Allowed, Lifecycle!Next

\* What is on a cleanup queue has ended and is freed.
LEMMA Freed ==
    ASSUME IInv, NEW w \in Worker, local_cleanup_queue_free(w), runq' = runq
    PROVE  Allowed
  <1>1. cleanup[w] \in SUBSET Sandbox /\ \A s \in cleanup[w] : state[s] \in {"COMPLETE", "ERROR"}
    BY DEF IInv, TypeOK, PlaceInv, Place, Terminal
  <1>2. Lifecycle!Free(cleanup[w])
    BY <1>1 DEF local_cleanup_queue_free, Lifecycle!Free, Lifecycle!Terminal
  <1> QED BY <1>1, <1>2 DEF Allowed, Lifecycle!Next

\* The entry of the SIGALRM handler interrupts the current sandbox, if it is in its module's code.
LEMMA Interrupted ==
    ASSUME IInv, NEW w \in Worker, NEW p, NEW ts, sigalrm_enter(w, p, ts), runq' = runq
    PROVE  Allowed
  <1>1. CASE current_sandbox_is_preemptable(w)
    <2>1. current[w] \in Sandbox /\ state[current[w]] = "RUNNING_USER"
      BY <1>1, CurrentView DEF current_sandbox_is_preemptable
    <2>2. SetState(current[w], "INTERRUPTED")
      BY <1>1 DEF sigalrm_enter, SetState
    <2> QED BY <2>1, <2>2, Moved
  <1>2. CASE ~current_sandbox_is_preemptable(w)
    BY <1>2, Unseen DEF sigalrm_enter
  <1> QED BY <1>1, <1>2

\* The interrupted sandbox gives way to another one of the same run queue.
LEMMA Preempted ==
    ASSUME IInv, NEW w \in Worker, NEW n \in Sandbox, preemptive_switch(w, n)
    PROVE  Allowed
  <1>1. /\ current[w] \in Sandbox /\ current[w] \in runq[w] /\ state[current[w]] = "INTERRUPTED"
        /\ n \in runq[w] /\ n # current[w] /\ runq' = runq
    BY PreemptView DEF preemptive_switch, IsLocalHead, Dispatch, queues
  <1>2. \/ state[n] = "RUNNABLE" /\ ctxt[n] = "FAST"
        \/ state[n] = "PREEMPTED" /\ ctxt[n] = "SLOW"
    BY <1>1, WaitingView
  <1>3. Owner[current[w]] = {w} /\ Owner[n] = {w} /\ Owner' = Owner
    <2>1. \A s \in Sandbox : s \in runq[w] => Owner[s] = {w} BY OwnerIs
    <2>2. Owner' = Owner BY <1>1 DEF Owner
    <2> QED BY <1>1, <2>1, <2>2
  <1>4. \/ /\ state[n] = "RUNNABLE"
           /\ state' = [state EXCEPT ![current[w]] = "PREEMPTED", ![n] = "RUNNING_SYS"]
        \/ /\ state[n] = "PREEMPTED"
           /\ state' = [state EXCEPT ![current[w]] = "PREEMPTED", ![n] = "RUNNING_USER"]
    BY <1>2 DEF preemptive_switch
  <1>5. Lifecycle!Preempt(current[w], n, w)
    BY <1>1, <1>3, <1>4 DEF Owner, Lifecycle!Preempt
  <1> QED BY <1>1, <1>5 DEF Allowed, Lifecycle!Next

\* Every step of a worker is allowed.
LEMMA StepAllowed ==
    ASSUME IInv, ~Aborted, NEW w \in Worker, Step(w)
    PROVE  Allowed
  <1>1. CASE edf_peek(w) \/ edf_remove_if_earlier(w) \/ scheduler_idle_loop(w)
               \/ scheduler_cooperative_sched(w) \/ cooperative_choose(w)
    BY <1>1, Unseen DEF edf_peek, edf_remove_if_earlier, scheduler_idle_loop,
       scheduler_cooperative_sched,
       cooperative_choose, sandboxes, queues
  <1>2. CASE cooperative_switch_slow(w) \/ scheduler_switch_to_base_context(w)
               \/ deferred_sigalrm_replay(w) \/ deferred_sigalrm_clear(w) \/ sigalrm_dispatch(w)
    BY <1>2, Unseen DEF cooperative_switch_slow, scheduler_switch_to_base_context,
       deferred_sigalrm_replay, deferred_sigalrm_clear, sigalrm_dispatch, sandboxes, queues
  <1>3. ASSUME NEW v \in Worker, propagate_sigalrm(w, v) PROVE Allowed
    BY <1>3, Unseen DEF propagate_sigalrm, sandboxes, queues
  <1>4. CASE edf_prepare(w)
    <2>1. pc[w] = "prepare" /\ runq' = runq
      BY <1>4 DEF edf_prepare, queues
    <2>2. inhand[w] \in Sandbox /\ state[inhand[w]] = "INITIALIZED"
      BY <2>1, InHandView
    <2>3. state' = state \/ SetState(inhand[w], "ERROR")
      BY <1>4 DEF edf_prepare
    <2> QED BY <2>1, <2>2, <2>3, Unseen, Moved
  <1>5. CASE edf_set_as_runnable(w)
    <2>1. inhand[w] \in Sandbox
      BY <1>5, InHandView DEF edf_set_as_runnable
    <2> QED BY <1>5, <2>1, Claimed DEF edf_set_as_runnable
  <1>6. CASE idle_cleanup(w) \/ cooperative_clear(w)
    BY <1>6, Freed DEF idle_cleanup, cooperative_clear
  <1>7. CASE cooperative_switch_fast(w)
    <2>1. current[w] \in Sandbox /\ current[w] \in runq[w] /\ state[current[w]] = "RUNNABLE"
      BY <1>7, SwitchView DEF cooperative_switch_fast
    <2>2. SetState(current[w], "RUNNING_SYS") /\ runq' = runq
      BY <1>7 DEF cooperative_switch_fast, queues
    <2> QED BY <2>1, <2>2, Dispatched
  <1>8. CASE sigusr1(w)
    <2>1. current[w] \in Sandbox /\ current[w] \in runq[w] /\ state[current[w]] = "PREEMPTED"
      BY <1>8, SwitchView DEF sigusr1
    <2>2. SetState(current[w], "RUNNING_USER") /\ runq' = runq
      BY <1>8 DEF sigusr1, queues
    <2> QED BY <2>1, <2>2, Dispatched
  <1>9. CASE sandbox_return(w)
    <2>1. current[w] \in Sandbox /\ state[current[w]] = "RUNNING_SYS"
      BY <1>9, SysView DEF sandbox_return, SysPC
    <2> QED BY <1>9, <2>1, Moved DEF sandbox_return, queues
  <1>10. CASE preemptive_resume(w)
    <2>1. current[w] \in Sandbox /\ state[current[w]] = "INTERRUPTED"
      BY <1>10, PreemptView DEF preemptive_resume, Dispatch
    <2> QED BY <1>10, <2>1, Moved DEF preemptive_resume, queues
  <1>11. ASSUME NEW l \in ModuleDoes, sandbox_syscall(w, l) PROVE Allowed
    <2>1. current[w] \in Sandbox /\ state[current[w]] = "RUNNING_USER"
      BY <1>11, UserView DEF sandbox_syscall, UserPC
    <2> QED BY <1>11, <2>1, Moved DEF sandbox_syscall, queues
  <1>12. CASE sandbox_exit_success(w)
    <2>1. current[w] \in Sandbox /\ state[current[w]] = "RETURNED"
      BY <1>12, EndView DEF sandbox_exit_success
    <2> QED BY <1>12, <2>1, Moved DEF sandbox_exit_success, queues
  <1>13. CASE sandbox_set_as_returned(w) \/ sandbox_exit_error(w)
    <2>1. current[w] \in Sandbox /\ state[current[w]] = "RUNNING_SYS" /\ current[w] \in runq[w]
      BY <1>13, SysView DEF sandbox_set_as_returned, sandbox_exit_error, SysPC
    <2> QED BY <1>13, <2>1, Finished DEF sandbox_set_as_returned, sandbox_exit_error
  <1>14. CASE sigalrm_kernel(w) \/ sigalrm_tkill(w) \/ sigalrm_raise(w)
    BY <1>14, Interrupted DEF sigalrm_kernel, sigalrm_tkill, sigalrm_raise, queues
  <1>15. ASSUME NEW n \in Sandbox, preemptive_switch(w, n) PROVE Allowed
    BY <1>15, Preempted
  <1> QED
    BY <1>1, <1>2, <1>3, <1>4, <1>5, <1>6, <1>7, <1>8, <1>9, <1>10, <1>11, <1>12, <1>13, <1>14,
       <1>15 DEF Step, WorkerStep, UserStep

\* The runtime implements the life cycle of a sandbox: states change along the documented
\* transitions only, one worker owns a sandbox from the moment it is runnable until it ends,
\* and a worker that starts or resumes a sandbox runs no other.
THEOREM LifecycleRefinement == Spec => ImplementsLifecycle
  <1>1. Init => Lifecycle!Init
    <2> SUFFICES ASSUME Init PROVE Lifecycle!Init
      OBVIOUS
    <2>1. state = [s \in Sandbox |-> "UNINITIALIZED"] /\ runq = [w \in Worker |-> {}]
      BY DEF Init
    <2>2. \A s \in Sandbox : {w \in Worker : s \in runq[w]} = {}
      BY <2>1
    <2> QED BY <2>1, <2>2 DEF Lifecycle!Init
  <1>2. IInv /\ [Next]_vars => [Lifecycle!Next]_(Lifecycle!vars)
    <2> SUFFICES ASSUME IInv, [Next]_vars PROVE Allowed
      BY DEF Allowed, Owner, Lifecycle!vars
    <2>1. ASSUME NEW s \in Sandbox, NEW d \in Deadline, sandbox_alloc(s, d) PROVE Allowed
      BY <2>1, Moved DEF sandbox_alloc, queues
    <2>2. CASE global_request_scheduler_add \/ timer_expires \/ UNCHANGED vars
      BY <2>2, Unseen DEF global_request_scheduler_add, timer_expires, vars, sandboxes, queues
    <2> QED BY <2>1, <2>2, StepAllowed DEF Next, ListenerStep, Step
  <1> QED BY <1>1, <1>2, Invariance, PTL DEF Spec, ImplementsLifecycle, Lifecycle!Spec

=============================================================================
