----------------------------- MODULE Admissions ------------------------------
(***************************************************************************)
(* Admissions control: the listener admits a request if the fraction of    *)
(* the capacity it is estimated to need is free; the estimate of a route   *)
(* is a percentile of its measured execution times (PerfWindow), which the *)
(* workers update under a lock.  The total is an atomic counter without a  *)
(* lock: the listener loads it, compares, then adds; a worker compares,    *)
(* then subtracts.                                                         *)
(***************************************************************************)
EXTENDS PerfWindow, Functions

CONSTANTS
    Sandbox, Worker,
    Capacity,           \* admissions_control_capacity
    Granularity,        \* ADMISSIONS_CONTROL_GRANULARITY
    RelativeDeadline,   \* of the route, in cycles
    NULL

ASSUME AdmissionsAssumption ==
    /\ Capacity \in Nat \ {0} /\ Granularity \in Nat /\ RelativeDeadline \in Nat \ {0}
    /\ IsFiniteSet(Sandbox) /\ NULL \notin Worker

VARIABLES
    admitted,       \* admissions_control_admitted
    estimate,       \* admissions_info.estimate of the route
    listener,       \* the listener's locals in admissions_control_decide
    work,           \* sandbox.admissions_estimate of the sandboxes in flight, 0 for the others
    unused,         \* what was admitted and then got no sandbox (specification only)
    pc, cur,        \* per worker
    lock,           \* the worker that holds perf_window.lock, or NULL
    fatal

vars == <<window, admitted, estimate, listener, work, unused, pc, cur, lock, fatal>>

admissions_control_calculate_estimate(execution) == (execution * Granularity) \div RelativeDeadline

NotDeciding == [total |-> 0, estimate |-> 0]

\* admissions_info_initialize computes the first estimate from the configuration, and panics if it is 0.
Init ==
    /\ InitWindow
    /\ admitted = 0
    /\ \E e \in Time : estimate = admissions_control_calculate_estimate(e) /\ estimate > 0
    /\ listener = NotDeciding
    /\ work = [s \in Sandbox |-> 0] /\ unused = 0
    /\ pc = [w \in Worker |-> "idle"] /\ cur = [w \in Worker |-> NULL]
    /\ lock = NULL /\ fatal = "none"

-----------------------------------------------------------------------------
\* admissions_control_decide reads the estimate and loads the total.
DecideLoad ==
    /\ listener = NotDeciding /\ \E s \in Sandbox : work[s] = 0
    /\ listener' = [total |-> admitted, estimate |-> estimate]
    /\ UNCHANGED <<window, admitted, estimate, work, unused, pc, cur, lock, fatal>>

\* Mutant: a request that would use up the capacity is admitted.
FillsCapacity == listener.total + listener.estimate > Capacity

Rejects == listener.total + listener.estimate >= Capacity

\* The request is rejected (429), or added and given a sandbox.  Without memory for one it is answered
\* with 500 and stays in the total.
DecideAdd ==
    /\ listener # NotDeciding
    /\ listener' = NotDeciding
    /\ \/ Rejects /\ UNCHANGED <<admitted, work, unused>>
       \/ /\ ~Rejects
          /\ admitted' = admitted + listener.estimate
          /\ \/ \E s \in Sandbox : work[s] = 0 /\ work' = [work EXCEPT ![s] = listener.estimate]
                                   /\ UNCHANGED unused
             \/ unused' = unused + listener.estimate /\ UNCHANGED work
    /\ UNCHANGED <<window, estimate, pc, cur, lock, fatal>>

-----------------------------------------------------------------------------
\* A worker runs the sandbox; it returns (the window is updated first) or fails.
Run(w, s) ==
    /\ pc[w] = "idle" /\ work[s] > 0 /\ \A v \in Worker : cur[v] # s
    /\ cur' = [cur EXCEPT ![w] = s]
    /\ \E p \in {"update", "subtract"} : pc' = [pc EXCEPT ![w] = p]
    /\ UNCHANGED <<window, admitted, estimate, listener, work, unused, lock, fatal>>

\* admissions_info_update locks the window and adds the measured execution time ...
UpdateBegin(w, t) ==
    /\ pc[w] = "update" /\ lock = NULL
    /\ lock' = w
    /\ Fill(t) \/ Replace(t)
    /\ pc' = [pc EXCEPT ![w] = "shift"]
    /\ UNCHANGED <<admitted, estimate, listener, work, unused, cur, fatal>>

UpdateShift(w) ==
    /\ pc[w] = "shift" /\ Shift
    /\ UNCHANGED <<admitted, estimate, listener, work, unused, pc, cur, lock, fatal>>

\* ... then takes the estimate from the percentile and unlocks.  An estimate of 0 is a panic.
UpdateEnd(w) ==
    LET new == admissions_control_calculate_estimate(perf_window_get_percentile) IN
    /\ pc[w] = "shift"
    /\ Done \/ (Idle /\ UNCHANGED window)
    /\ \/ new = 0 /\ fatal' = "estimate_of_0" /\ UNCHANGED <<estimate, pc, lock>>
       \/ new > 0 /\ estimate' = new /\ lock' = NULL /\ pc' = [pc EXCEPT ![w] = "subtract"] /\ UNCHANGED fatal
    /\ UNCHANGED <<admitted, listener, work, unused, cur>>

\* Mutant: the current estimate of the route is given back, not the one that was admitted.
GivesBackCurrent(s) == estimate

\* What a sandbox gives back: its own estimate, fixed when it was admitted.
admissions_estimate(s) == work[s]

\* The comparison of admissions_control_subtract, then its atomic_fetch_sub.
SubtractCompare(w) ==
    /\ pc[w] = "subtract"
    /\ IF admissions_estimate(cur[w]) > admitted
       THEN fatal' = "underflow" /\ UNCHANGED pc
       ELSE pc' = [pc EXCEPT ![w] = "fetch_sub"] /\ UNCHANGED fatal
    /\ UNCHANGED <<window, admitted, estimate, listener, work, unused, cur, lock>>

SubtractFetch(w) ==
    /\ pc[w] = "fetch_sub"
    /\ admitted' = admitted - admissions_estimate(cur[w])
    /\ work' = [work EXCEPT ![cur[w]] = 0]
    /\ cur' = [cur EXCEPT ![w] = NULL] /\ pc' = [pc EXCEPT ![w] = "idle"]
    /\ UNCHANGED <<window, estimate, listener, unused, lock, fatal>>

WorkerStep(w) ==
    \/ \E s \in Sandbox : Run(w, s)
    \/ \E t \in Time : UpdateBegin(w, t)
    \/ UpdateShift(w) \/ UpdateEnd(w)
    \/ SubtractCompare(w) \/ SubtractFetch(w)

Next == fatal = "none" /\ (DecideLoad \/ DecideAdd \/ \E w \in Worker : WorkerStep(w))

Spec == Init /\ [][Next]_vars

-----------------------------------------------------------------------------
\* The variables have their types; the total does not wrap around below 0.
TypeOK ==
    /\ WindowTypeOK
    /\ admitted \in Nat /\ estimate \in Nat \ {0} /\ unused \in Nat
    /\ listener \in [total : Nat, estimate : Nat]
    /\ work \in [Sandbox -> Nat]
    /\ pc \in [Worker -> {"idle", "update", "shift", "subtract", "fetch_sub"}]
    /\ cur \in [Worker -> Sandbox \cup {NULL}] /\ lock \in Worker \cup {NULL}

\* Less than the capacity is ever admitted, although the listener adds to a total it loaded before and
\* workers change it in between.
WithinCapacity == admitted < Capacity

\* The total is the sum of the estimates of the sandboxes in flight, although the estimate of the route
\* changes while they run, and of the requests that were admitted and found no memory.
TotalIsInFlight == admitted = SumFunction(work) + unused

=============================================================================
