-------------------------- MODULE SandboxLifecycle --------------------------
(***************************************************************************)
(* What the runtime promises about a sandbox, without queues, contexts,    *)
(* signals or program counters: the states it goes through (the diagram of *)
(* docs/sledge-states), that one worker owns it from the moment it becomes *)
(* runnable until it ends, and that a worker runs one sandbox at a time.   *)
(***************************************************************************)
CONSTANTS Worker, Sandbox

VARIABLES
    state,   \* the state of each sandbox
    owner    \* the workers that have the sandbox on their run queue

vars == <<state, owner>>

Running  == {"RUNNING_SYS", "RUNNING_USER", "INTERRUPTED"}
Terminal == {"COMPLETE", "ERROR"}

Init ==
    /\ state = [s \in Sandbox |-> "UNINITIALIZED"]
    /\ owner = [s \in Sandbox |-> {}]

\* No sandbox of worker w runs.
IsFree(w) == \A s \in Sandbox : w \in owner[s] => state[s] \notin Running

Move(s, from, to) == state[s] = from /\ state' = [state EXCEPT ![s] = to]

Accept(s) == Move(s, "UNINITIALIZED", "INITIALIZED") /\ UNCHANGED owner
Reject(s) == Move(s, "INITIALIZED", "ERROR") /\ UNCHANGED owner

\* A worker takes the sandbox from the global queue, for good.
Claim(s, w) ==
    /\ Move(s, "INITIALIZED", "RUNNABLE")
    /\ owner[s] = {}
    /\ owner' = [owner EXCEPT ![s] = {w}]

\* A worker that runs nothing starts or resumes a sandbox of its own.
Start(s, w)  == owner[s] = {w} /\ IsFree(w) /\ Move(s, "RUNNABLE", "RUNNING_SYS") /\ UNCHANGED owner
Resume(s, w) == owner[s] = {w} /\ IsFree(w) /\ Move(s, "PREEMPTED", "RUNNING_USER") /\ UNCHANGED owner

Syscall(s)         == Move(s, "RUNNING_USER", "RUNNING_SYS") /\ UNCHANGED owner
Return(s)          == Move(s, "RUNNING_SYS", "RUNNING_USER") /\ UNCHANGED owner
Interrupt(s)       == Move(s, "RUNNING_USER", "INTERRUPTED") /\ UNCHANGED owner
InterruptReturn(s) == Move(s, "INTERRUPTED", "RUNNING_USER") /\ UNCHANGED owner

\* The interrupted sandbox gives its worker to another sandbox of that worker.
Preempt(s, n, w) ==
    /\ owner[s] = {w} /\ owner[n] = {w}
    /\ state[s] = "INTERRUPTED"
    /\ \/ /\ state[n] = "RUNNABLE"
          /\ state' = [state EXCEPT ![s] = "PREEMPTED", ![n] = "RUNNING_SYS"]
       \/ /\ state[n] = "PREEMPTED"
          /\ state' = [state EXCEPT ![s] = "PREEMPTED", ![n] = "RUNNING_USER"]
    /\ UNCHANGED owner

\* A sandbox ends in a system call and leaves the run queue.
Finish(s) ==
    /\ Move(s, "RUNNING_SYS", "RETURNED") \/ Move(s, "RUNNING_SYS", "ERROR")
    /\ owner' = [owner EXCEPT ![s] = {}]

Complete(s) == Move(s, "RETURNED", "COMPLETE") /\ UNCHANGED owner

\* A worker frees a batch of sandboxes that have ended.
Free(S) ==
    /\ \A s \in S : state[s] \in Terminal
    /\ state' = [s \in Sandbox |-> IF s \in S THEN "FREED" ELSE state[s]]
    /\ UNCHANGED owner

Next ==
    \/ \E s \in Sandbox :
        \/ Accept(s) \/ Reject(s) \/ Syscall(s) \/ Return(s) \/ Interrupt(s)
        \/ InterruptReturn(s) \/ Finish(s) \/ Complete(s)
        \/ \E w \in Worker : Claim(s, w) \/ Start(s, w) \/ Resume(s, w)
        \/ \E n \in Sandbox, w \in Worker : Preempt(s, n, w)
    \/ \E S \in SUBSET Sandbox : Free(S)

Spec == Init /\ [][Next]_vars

=============================================================================
