----------------------------- MODULE PerfWindow ------------------------------
(***************************************************************************)
(* struct perf_window: the last PERF_WINDOW_CAPACITY execution times of a  *)
(* route, sorted, so that a percentile is one array access.  by_duration   *)
(* is the sorted array; by_termination is a circular buffer of indices     *)
(* into it, oldest first, and each node knows its cell there.  Indices are *)
(* from 0 as in the code.  Every operation holds the lock of the window;   *)
(* a step is one iteration of the loop of perf_window_add.  Admissions      *)
(* extends this module with the threads that call it.                      *)
(***************************************************************************)
EXTENDS Integers, Sequences, FiniteSets

CONSTANTS
    WindowSize,     \* PERF_WINDOW_CAPACITY
    Time,           \* execution times, in cycles
    Percentile,     \* admissions percentile of the route
    MaxCount        \* bound: executions in a behaviour

ASSUME WindowAssumption == WindowSize \in Nat \ {0} /\ Time \subseteq Nat \ {0} /\ MaxCount \in Nat
ASSUME PercentileAssumption == Percentile \in 50..99

VARIABLES
    by_duration,    \* execution_node: time and by_termination_idx
    by_termination,
    count,
    i,              \* the node being shifted, or None
    up,             \* the loop shifts to the right
    recent          \* the execution times added so far, latest last (specification only)

window == <<by_duration, by_termination, count, i, up, recent>>

Index == 0..(WindowSize - 1)
None == -1

Idle == i = None

perf_window_initialize ==
    /\ by_duration = [j \in Index |-> [time |-> 0, by_termination_idx |-> 0]]
    /\ by_termination = [j \in Index |-> 0]
    /\ count = 0

InitWindow == perf_window_initialize /\ i = None /\ up = FALSE /\ recent = <<>>

\* The first execution time fills the window.
perf_window_fill(t) ==
    /\ by_duration' = [j \in Index |-> [time |-> t, by_termination_idx |-> j]]
    /\ by_termination' = [j \in Index |-> j]
    /\ count' = WindowSize

Fill(t) ==
    /\ Idle /\ count = 0
    /\ perf_window_fill(t)
    /\ recent' = Append(recent, t)
    /\ UNCHANGED <<i, up>>

\* Mutant: the newest cell of the circular buffer is replaced.
Newest == (count - 1) % WindowSize

\* The cell of the circular buffer that holds the oldest execution.
Oldest == count % WindowSize

\* A later execution time replaces the oldest one in place.
Replace(t) ==
    LET idx_to_replace == by_termination[Oldest] IN
    /\ Idle /\ count > 0 /\ count < MaxCount
    /\ by_duration' = [by_duration EXCEPT ![idx_to_replace].time = t]
    /\ i' = idx_to_replace
    /\ up' = (t > by_duration[idx_to_replace].time)
    /\ recent' = Append(recent, t)
    /\ UNCHANGED <<by_termination, count>>

perf_window_swap(a, b) ==
    /\ by_termination' = [by_termination EXCEPT ![by_duration[a].by_termination_idx] = b,
                                                ![by_duration[b].by_termination_idx] = a]
    /\ by_duration' = [by_duration EXCEPT ![a] = by_duration[b], ![b] = by_duration[a]]

\* The conditions of the two loops.
MustShift ==
    IF up THEN i + 1 < WindowSize /\ by_duration[i + 1].time < by_duration[i].time
          ELSE i >= 1 /\ by_duration[i - 1].time > by_duration[i].time

Shift ==
    /\ ~Idle /\ MustShift
    /\ IF up THEN perf_window_swap(i, i + 1) /\ i' = i + 1
             ELSE perf_window_swap(i, i - 1) /\ i' = i - 1
    /\ UNCHANGED <<count, up, recent>>

Done ==
    /\ ~Idle /\ ~MustShift
    /\ count' = count + 1 /\ i' = None
    /\ UNCHANGED <<by_duration, by_termination, up, recent>>

\* Mutant: the index is rounded up.
RoundsUp == (WindowSize * Percentile) \div 100 + 1

\* admissions_info.control_index, used for every window that is not empty because the first execution
\* fills it.
control_index == (WindowSize * Percentile) \div 100

perf_window_get_percentile == by_duration[control_index].time

-----------------------------------------------------------------------------
\* The types of the window: no index leaves the arrays.
WindowTypeOK ==
    /\ by_duration \in [Index -> [time : Time \cup {0}, by_termination_idx : Index]]
    /\ by_termination \in [Index -> Index]
    /\ count \in Nat /\ i \in Index \cup {None} /\ up \in BOOLEAN

\* The k-th latest of the executions; the window starts as if the first one had been seen often.
Latest(k) == IF k < Len(recent) THEN recent[Len(recent) - k] ELSE recent[1]

\* The circular buffer leads to the last WindowSize executions in the order in which they ended, however
\* they were sorted in between: the oldest one is the one that is replaced.
SlidingWindow ==
    Idle /\ count > 0 =>
        \A k \in Index : by_duration[by_termination[(count - 1 - k) % WindowSize]].time = Latest(k)

\* The estimate is the percentile it stands for: of the last executions at least Percentile percent are
\* not longer, and no more than Percentile percent are shorter.
PercentileIsRight ==
    Idle /\ count > 0 =>
        /\ Cardinality({k \in Index : Latest(k) <= perf_window_get_percentile}) * 100 >= WindowSize * Percentile
        /\ Cardinality({k \in Index : Latest(k) < perf_window_get_percentile}) * 100 <= WindowSize * Percentile

=============================================================================
