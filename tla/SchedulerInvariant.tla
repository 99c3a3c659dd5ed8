------------------------- MODULE SchedulerInvariant -------------------------
(***************************************************************************)
(* The inductive invariant of Scheduler, for any set of workers, sandboxes *)
(* and deadlines.                                                          *)
(*                                                                         *)
(* The safety invariants of Scheduler are not inductive by themselves: they *)
(* say what holds at a program point, not why.  The inductive invariant    *)
(* adds, for every program point, which stack the thread is on, which      *)
(* sandbox is current and in which state, and, for every state of a        *)
(* sandbox, which structure holds it and where it will resume.             *)
(***************************************************************************)
EXTENDS Scheduler

Terminal == {"COMPLETE", "ERROR"}
Dispatch == GetNextPC \cup {"choose"}

\* Where the thread is once a handler that may be running on it is set aside.
Pos(w) == IF intr[w] = "none" THEN pc[w] ELSE intr[w]

\* The thread is at p, or will be when the handler returns.
At(w, p) == pc[w] = p \/ intr[w] = p

\* A step of worker w, its module or a signal delivered to it.
Step(w) == WorkerStep(w) \/ UserStep(w) \/ sigalrm_kernel(w) \/ sigalrm_tkill(w)

\* Which handler may interrupt what, and what the scheduler has in hand.
ControlInv ==
    /\ \A w \in Worker :
        /\ intr[w] = "none" => pc[w] \notin HandlerPC
        /\ intr[w] # "none" => \/ pc[w] = "sigalrm"
                               \/ pc[w] = "sigusr1" /\ intr[w] = "switch"
                               \/ pc[w] \in Dispatch /\ intr[w] \in UserPC
        /\ intr[w] \notin HandlerPC \cup {"paused"}
        /\ inhand[w] # NULL <=> At(w, "prepare") \/ At(w, "dispatch")
    /\ \A s \in Sandbox : saved[s] \in UserPC \cup {"start"}
    /\ lhand = NULL <=> lpc = "epoll"

\* A sandbox has ended but the thread is still on its stack.
OnEndedStack(w) == exec[w] \in Sandbox /\ state[exec[w]] \in Terminal

\* The stack, the current sandbox and its state at each program point of a thread.
Thread(w, p) ==
    /\ p \in BasePC => exec[w] = Base /\ current[w] = NULL
    /\ p \in Dispatch => current[w] = NULL /\ (exec[w] = Base \/ OnEndedStack(w))
    /\ p = "coop" => current[w] = NULL /\ OnEndedStack(w)
    /\ p = "exit" => current[w] = exec[w] /\ OnEndedStack(w)
    /\ p = "returned" =>
        current[w] = exec[w] /\ exec[w] \in Sandbox /\ state[exec[w]] = "RETURNED"
    /\ p = "switch" =>
        /\ exec[w] # Base => OnEndedStack(w) /\ exec[w] \in cleanup[w]
        /\ current[w] = NULL => exec[w] # Base
        /\ current[w] # NULL =>
            current[w] \in runq[w] /\ state[current[w]] \in {"RUNNABLE", "PREEMPTED"}
    /\ p \in UserPC \cup SysPC =>
        current[w] = exec[w] /\ current[w] \in Sandbox /\ current[w] \in runq[w]
    /\ p \in UserPC =>
        state[current[w]] = IF intr[w] = "none" THEN "RUNNING_USER" ELSE "INTERRUPTED"
    /\ p \in SysPC => state[current[w]] = "RUNNING_SYS"

ThreadInv == \A w \in Worker : Thread(w, Pos(w))

\* Where no SIGALRM can be left deferred, and what SIGUSR1 was sent for.
Signal(w) ==
    /\ Pos(w) \in BasePC \cup Dispatch \cup {"raise", "user"} => ~deferred[w]
    /\ Pos(w) = "switch" /\ current[w] = NULL => ~deferred[w]
    /\ pc[w] = "sigusr1" => current[w] # NULL /\ state[current[w]] = "PREEMPTED"

SignalInv == \A w \in Worker : Signal(w)

\* Each structure holds sandboxes in the right state, and no two hold the same one.
Global ==
    /\ \A s \in globalq : state[s] = "INITIALIZED"
    /\ lhand # NULL => state[lhand] = "INITIALIZED" /\ lhand \notin globalq

Place(w) ==
    /\ inhand[w] # NULL =>
        /\ inhand[w] \notin globalq /\ inhand[w] # lhand
        /\ state[inhand[w]] = "INITIALIZED" \/ (pc[w] = "dispatch" /\ state[inhand[w]] = "ERROR")
    /\ \A s \in runq[w] : state[s] \in QueuedStates
    /\ \A s \in cleanup[w] : state[s] \in Terminal
    /\ exec[w] \in cleanup[w] => Pos(w) = "switch"

Disjoint(v, w) ==
    /\ inhand[v] # NULL => inhand[v] # inhand[w]
    /\ exec[v] # Base => exec[v] # exec[w]
    /\ exec[v] \notin cleanup[w]
    /\ \A s \in Sandbox : /\ ~(s \in runq[v] /\ s \in runq[w])
                          /\ ~(s \in cleanup[v] /\ s \in cleanup[w])

PlaceInv == /\ Global
            /\ \A w \in Worker : Place(w)
            /\ \A v, w \in Worker : v # w => Disjoint(v, w)

\* No sandbox is in none of the structures.
CoverInv ==
    \A s \in Sandbox :
        /\ state[s] = "INITIALIZED" =>
               s \in globalq \/ s = lhand \/ \E w \in Worker : inhand[w] = s
        /\ state[s] \in QueuedStates => \E w \in Worker : s \in runq[w]
        /\ state[s] \in {"RETURNED", "COMPLETE", "ERROR"} =>
               \E w \in Worker : exec[w] = s \/ s \in cleanup[w] \/ inhand[w] = s

\* The saved context fits the state, and only the current sandbox is in a running state.
Saved(s) ==
    /\ state[s] \in {"UNINITIALIZED", "INITIALIZED", "RUNNABLE"} => saved[s] = "start"
    /\ state[s] = "RUNNABLE" => ctxt[s] = "FAST"
    /\ state[s] = "PREEMPTED" => ctxt[s] = "SLOW" /\ saved[s] \in UserPC

Context(w) ==
    /\ At(w, "dispatch") /\ state[inhand[w]] = "INITIALIZED" => ctxt[inhand[w]] = "FAST"
    /\ exec[w] # Base /\ pc[w] # "sigusr1" => ctxt[exec[w]] = "RUNNING"
    /\ \A s \in runq[w] : state[s] \in {"RUNNING_SYS", "RUNNING_USER", "INTERRUPTED"}
                              => current[w] = s

ContextInv == (\A s \in Sandbox : Saved(s)) /\ (\A w \in Worker : Context(w))

\* A session is open until the sandbox answers, and answered when it has ended.
Session(s) ==
    /\ state[s] = "UNINITIALIZED" => http[s] = "none"
    /\ state[s] \in QueuedStates \cup {"INITIALIZED"} => http[s] = "open"
    /\ state[s] \in {"RETURNED", "COMPLETE", "ERROR", "FREED"} => http[s] \in {"200", "500"}

HttpInv == \A s \in Sandbox : Session(s)

\* Deadlines on a run queue are distinct, what a worker pulls precedes them all, and a
\* sandbox that is current and not interrupted precedes the others.
Edf(w) ==
    /\ \A s, t \in runq[w] : s # t => absolute_deadline[s] # absolute_deadline[t]
    /\ inhand[w] # NULL =>
        \A t \in runq[w] : absolute_deadline[inhand[w]] < absolute_deadline[t]
    /\ current[w] # NULL =>
        (state[current[w]] # "INTERRUPTED" =>
            \A t \in runq[w] \ {current[w]} : absolute_deadline[current[w]] < absolute_deadline[t])

EdfInv == \A w \in Worker : Edf(w)

IInv == /\ TypeOK /\ ControlInv /\ ThreadInv /\ SignalInv /\ PlaceInv
        /\ CoverInv /\ ContextInv /\ HttpInv /\ EdfInv

=============================================================================
