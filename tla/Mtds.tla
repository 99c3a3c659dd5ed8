--------------------------------- MODULE Mtds ---------------------------------
(***************************************************************************)
(* The multi-tenant deferrable server policy (SLEDGE_SCHEDULER=MTDS).  A   *)
(* tenant that pays has a budget of execution time.  Its requests go       *)
(* before those of the others until the budget is used up, which demotes   *)
(* the tenant, in the global queues and in those of each worker.           *)
(*                                                                         *)
(* The heaps hold a handful of entries and are sets with an exact minimum  *)
(* (PriorityQueue is about the heap).  What a lock protects is one step.   *)
(* The clock is a choice of the timeouts that have passed.  Budgets are    *)
(* compared with 0 only, so that what is below 0 counts as 0.              *)
(***************************************************************************)
EXTENDS Integers, FiniteSets, FiniteSetsExt

CONSTANTS
    Worker, Tenant, Sandbox,
    Paid,        \* tenants with a replenishment period
    TenantOf,    \* sandbox->tenant
    Deadline,    \* sandbox->absolute_deadline
    MaxBudget,   \* tenant->max_budget, in units of execution
    Never,       \* UINT64_MAX
    NULL

ASSUME MtdsAssumption ==
    /\ Paid \subseteq Tenant /\ TenantOf \in [Sandbox -> Tenant]
    /\ Deadline \in [Sandbox -> 0 .. Never - 1]
    /\ \A r, s \in Sandbox : Deadline[r] = Deadline[s] => r = s
    /\ MaxBudget \in Nat /\ Never \in Nat /\ NULL \notin Sandbox

VARIABLES
    requests,             \* tgrq->sandbox_requests
    guaranteed, default,  \* global queues of tenants
    mt_class,             \* tgrq->mt_class
    timeouts,             \* global_tenant_timeout_queue
    remaining_budget,
    pc, target, peeked, pulled, current, \* a worker in scheduler_mtds_get_next
    sandboxes,            \* pwt->sandboxes
    lguaranteed, ldefault,\* local queues of tenants
    lclass,               \* pwt->mt_class
    ltimeouts,            \* worker_thread_timeout_queue
    state

global == <<requests, guaranteed, default, mt_class>>
local  == <<sandboxes, lguaranteed, ldefault, lclass, ltimeouts>>
worker == <<pc, target, peeked, pulled, current>>
vars   == <<global, timeouts, remaining_budget, worker, local, state>>

-----------------------------------------------------------------------------
\* The deadline of the head of a tenant's queue; that of an empty one is UINT64_MAX.
Priority(set) == Min({Never} \cup {Deadline[s] : s \in set})

\* priority_queue_peek of a queue of tenants, where q holds the tenants' queues.
Peek(tenants, q) == Min({Never} \cup {Priority(q[t]) : t \in tenants})

IsTop(t, tenants, q) == t \in tenants /\ Priority(q[t]) = Peek(tenants, q)

HeadOf(set) == CHOOSE s \in set : Deadline[s] = Priority(set)

-----------------------------------------------------------------------------
(* The global queues.                                                      *)

\* The tenant's entry moves in the heap only when its priority has changed; it is there already otherwise.
global_request_scheduler_mtds_add(s) ==
    LET t == TenantOf[s]
        tightened == Deadline[s] < Priority(requests[t])
    IN  /\ state[s] = "none"
        /\ state' = [state EXCEPT ![s] = "INITIALIZED"]
        /\ requests' = [requests EXCEPT ![t] = @ \cup {s}]
        /\ guaranteed' = guaranteed \cup {u \in {t} : tightened /\ mt_class[t] = "GUARANTEED"}
        /\ default' = default \cup {u \in {t} : tightened /\ mt_class[t] = "DEFAULT"}
        /\ UNCHANGED <<mt_class, timeouts, remaining_budget, worker, local>>

\* Mutant: the entry moves to the default queue and the tenant keeps its class.
DemotesEntryOnly(t) ==
    /\ guaranteed' = guaranteed \ {t}
    /\ default' = default \cup {t}
    /\ UNCHANGED mt_class

\* With the assignment of mt_class by the caller.
global_request_scheduler_mtds_demote_nolock(t) ==
    /\ guaranteed' = guaranteed \ {t}
    /\ default' = default \cup {t}
    /\ mt_class' = [mt_class EXCEPT ![t] = "DEFAULT"]

\* Mutant: a worker without guaranteed requests never looks at the default ones.
GuaranteedOnly(aim, g, d) ==
    \/ aim.class = "GUARANTEED" /\ g >= aim.deadline
    \/ aim.class = "DEFAULT" /\ g = Never

\* The test for which scheduler_mtds_get_next and remove_with_mt_class leave the global queues alone.
NotEarlier(aim, g, d) ==
    \/ aim.class = "GUARANTEED" /\ g >= aim.deadline
    \/ aim.class = "DEFAULT" /\ g = Never /\ d >= aim.deadline

\* Mutant: a tenant is demoted with budget left.
SpentEarly(t) == remaining_budget[t] <= 1

Spent(t) == remaining_budget[t] <= 0

\* The tenant's entry leaves the queue it was found in with the tenant's last request.
Take(w, t) ==
    LET rest == requests[t] \ {HeadOf(requests[t])}
        gone == {u \in {t} : rest = {}}
    IN  /\ pulled' = [pulled EXCEPT ![w] = HeadOf(requests[t])]
        /\ requests' = [requests EXCEPT ![t] = rest]
        /\ guaranteed' = guaranteed \ gone
        /\ default' = IF guaranteed = {} THEN default \ gone ELSE default

\* A demotion ends the attempt with -ENOENT.
global_request_scheduler_mtds_remove_with_mt_class(w) ==
    LET skip == NotEarlier(target[w], Peek(guaranteed, requests), Peek(default, requests))
        source == IF guaranteed # {} THEN guaranteed ELSE default
    IN  /\ pc[w] = "remove"
        /\ \/ /\ skip
              /\ pc' = [pc EXCEPT ![w] = "choose"]
              /\ UNCHANGED <<global, pulled>>
           \/ /\ ~skip
              /\ \E t \in Tenant :
                    /\ IsTop(t, source, requests)
                    /\ \/ /\ mt_class[t] = "GUARANTEED" /\ Spent(t)
                          /\ global_request_scheduler_mtds_demote_nolock(t)
                          /\ pc' = [pc EXCEPT ![w] = "choose"]
                          /\ UNCHANGED <<requests, pulled>>
                       \/ /\ ~(mt_class[t] = "GUARANTEED" /\ Spent(t))
                          /\ Take(w, t)
                          /\ pc' = [pc EXCEPT ![w] = "runnable"]
                          /\ UNCHANGED mt_class
        /\ UNCHANGED <<timeouts, remaining_budget, target, peeked, current, local, state>>

\* A kernel SIGALRM: the tenants in the queue whose timeout has passed are promoted and get a new
\* budget.  global_timeout_queue_add, which would put a tenant there, is never called.
global_timeout_queue_process_promotions ==
    \E due \in SUBSET timeouts :
        LET moved == {t \in due : mt_class[t] = "DEFAULT" /\ requests[t] # {}}
        IN  /\ mt_class' = [t \in Tenant |-> IF t \in due THEN "GUARANTEED" ELSE mt_class[t]]
            /\ default' = default \ moved
            /\ guaranteed' = guaranteed \cup moved
            /\ remaining_budget' = [t \in Tenant |-> IF t \in due THEN MaxBudget ELSE remaining_budget[t]]
            /\ UNCHANGED <<requests, timeouts>>

-----------------------------------------------------------------------------
(* The queues of a worker.                                                 *)

\* The first sandbox of a tenant brings the tenant into the queue of its class, and a paying one
\* into the timeout queue.
local_runqueue_mtds_add(w, s) ==
    LET t == TenantOf[s]
        first == {u \in {t} : sandboxes[w][t] = {}}
    IN  /\ sandboxes' = [sandboxes EXCEPT ![w][t] = @ \cup {s}]
        /\ lguaranteed' = [lguaranteed EXCEPT ![w] = @ \cup {u \in first : lclass[w][t] = "GUARANTEED"}]
        /\ ldefault' = [ldefault EXCEPT ![w] = @ \cup {u \in first : lclass[w][t] = "DEFAULT"}]
        /\ ltimeouts' = [ltimeouts EXCEPT ![w] = @ \cup (first \cap Paid)]
        /\ UNCHANGED lclass

\* Mutant: the timeout of a tenant without sandboxes stays.
DeletesKeepTimeout(w, s) ==
    LET t == TenantOf[s]
        last == {u \in {t} : sandboxes[w][t] = {s}}
    IN  /\ sandboxes' = [sandboxes EXCEPT ![w][t] = @ \ {s}]
        /\ lguaranteed' = [lguaranteed EXCEPT ![w] = @ \ {u \in last : lclass[w][t] = "GUARANTEED"}]
        /\ ldefault' = [ldefault EXCEPT ![w] = @ \ {u \in last : lclass[w][t] = "DEFAULT"}]
        /\ lclass' = [lclass EXCEPT ![w][t] = IF t \in last \cap Paid THEN "GUARANTEED" ELSE @]
        /\ UNCHANGED ltimeouts

\* The last sandbox takes the tenant with it, and a paying tenant starts as guaranteed again.
local_runqueue_mtds_delete(w, s) ==
    LET t == TenantOf[s]
        last == {u \in {t} : sandboxes[w][t] = {s}}
    IN  /\ sandboxes' = [sandboxes EXCEPT ![w][t] = @ \ {s}]
        /\ lguaranteed' = [lguaranteed EXCEPT ![w] = @ \ {u \in last : lclass[w][t] = "GUARANTEED"}]
        /\ ldefault' = [ldefault EXCEPT ![w] = @ \ {u \in last : lclass[w][t] = "DEFAULT"}]
        /\ lclass' = [lclass EXCEPT ![w][t] = IF t \in last \cap Paid THEN "GUARANTEED" ELSE @]
        /\ ltimeouts' = [ltimeouts EXCEPT ![w] = @ \ last]

\* The loop of local_runqueue_mtds_get_next demotes the tenants that it meets at the head with
\* their budget spent, and stops at the first that has some left.
Demoted(w) ==
    {t \in lguaranteed[w] :
        \A u \in lguaranteed[w] : Priority(sandboxes[w][u]) <= Priority(sandboxes[w][t]) => Spent(u)}

local_runqueue_mtds_demote(w) ==
    /\ lguaranteed' = [lguaranteed EXCEPT ![w] = @ \ Demoted(w)]
    /\ ldefault' = [ldefault EXCEPT ![w] = @ \cup Demoted(w)]
    /\ lclass' = [lclass EXCEPT ![w] = [t \in Tenant |-> IF t \in Demoted(w) THEN "DEFAULT" ELSE @[t]]]

\* What get_next returns after the demotions.
local_runqueue_mtds_get_next(w) ==
    LET g == lguaranteed[w] \ Demoted(w)
        from == IF g # {} THEN g ELSE ldefault[w] \cup Demoted(w)
    IN  IF from = {} THEN NULL
        ELSE HeadOf(sandboxes[w][CHOOSE t \in from : IsTop(t, from, sandboxes[w])])

\* The timeouts of the worker that have passed; the budget is not touched.
local_timeout_queue_process_promotions(w) ==
    \E due \in SUBSET ltimeouts[w] :
        LET moved == {t \in due : lclass[w][t] = "DEFAULT"}
        IN  /\ ldefault' = [ldefault EXCEPT ![w] = @ \ moved]
            /\ lguaranteed' = [lguaranteed EXCEPT ![w] = @ \cup moved]
            /\ lclass' = [lclass EXCEPT ![w] = [t \in Tenant |-> IF t \in moved THEN "GUARANTEED" ELSE @[t]]]
            /\ UNCHANGED <<sandboxes, ltimeouts>>

-----------------------------------------------------------------------------
(* A worker.  It enters get_next with no current sandbox from the idle     *)
(* loop or after an exit, and with the interrupted one from SIGALRM.       *)

\* local_deadline and local_mt_class without a local sandbox.
NoTarget == [deadline |-> Never, class |-> "DEFAULT"]

\* The head of the local queues, and the first of two peeks without the lock.
scheduler_mtds_get_next(w) ==
    LET next == local_runqueue_mtds_get_next(w)
    IN  /\ pc[w] = "get_next"
        /\ local_runqueue_mtds_demote(w)
        /\ target' = [target EXCEPT ![w] =
                         IF next = NULL THEN NoTarget
                         ELSE [deadline |-> Deadline[next], class |-> lclass'[w][TenantOf[next]]]]
        /\ peeked' = [peeked EXCEPT ![w] = Peek(guaranteed, requests)]
        /\ pc' = [pc EXCEPT ![w] = "peek"]
        /\ UNCHANGED <<global, timeouts, remaining_budget, pulled, current, sandboxes, ltimeouts, state>>

global_request_scheduler_mtds_default_peek(w) ==
    /\ pc[w] = "peek"
    /\ pc' = [pc EXCEPT ![w] = IF NotEarlier(target[w], peeked[w], Peek(default, requests))
                               THEN "choose" ELSE "remove"]
    /\ UNCHANGED <<global, timeouts, remaining_budget, target, peeked, pulled, current, local, state>>

\* sandbox_prepare_execution_environment and sandbox_set_as_runnable.
sandbox_set_as_runnable(w) ==
    /\ pc[w] = "runnable"
    /\ local_runqueue_mtds_add(w, pulled[w])
    /\ state' = [state EXCEPT ![pulled[w]] = "RUNNABLE"]
    /\ pulled' = [pulled EXCEPT ![w] = NULL]
    /\ pc' = [pc EXCEPT ![w] = "choose"]
    /\ UNCHANGED <<global, timeouts, remaining_budget, target, peeked, current>>

\* Without a sandbox to run the idle loop tries again.
AfterChoice(next) == IF next = NULL THEN "get_next" ELSE "module"

\* The second call of get_next, whose result is run; an interrupted sandbox that is not it is
\* preempted.  The local variables of get_next are gone.
Switch(w) ==
    LET next == local_runqueue_mtds_get_next(w)
    IN  /\ pc[w] = "choose"
        /\ local_runqueue_mtds_demote(w)
        /\ current' = [current EXCEPT ![w] = next]
        /\ state' = [s \in Sandbox |-> IF s = next THEN "RUNNING"
                                       ELSE IF s = current[w] THEN "PREEMPTED" ELSE state[s]]
        /\ pc' = [pc EXCEPT ![w] = AfterChoice(next)]
        /\ target' = [target EXCEPT ![w] = NoTarget]
        /\ peeked' = [peeked EXCEPT ![w] = Never]
        /\ UNCHANGED <<global, timeouts, remaining_budget, pulled, sandboxes, ltimeouts>>

\* The time since the last state change is charged to a tenant that pays; it may be too short to count.
sandbox_process_scheduler_updates(s) ==
    \E used \in IF TenantOf[s] \in Paid THEN {0, 1} ELSE {0} :
        remaining_budget' = [remaining_budget EXCEPT ![TenantOf[s]] = Max({0, @ - used})]

\* A system call and its return.
sandbox_syscall(w) ==
    /\ pc[w] = "module"
    /\ sandbox_process_scheduler_updates(current[w])
    /\ UNCHANGED <<global, timeouts, worker, local, state>>

\* SIGALRM in the module's code.
scheduler_preemptive_sched(w) ==
    /\ pc[w] = "module"
    /\ sandbox_process_scheduler_updates(current[w])
    /\ local_timeout_queue_process_promotions(w)
    /\ pc' = [pc EXCEPT ![w] = "get_next"]
    /\ UNCHANGED <<global, timeouts, target, peeked, pulled, current, state>>

\* The module returns or traps.
sandbox_set_as_returned(w) ==
    /\ pc[w] = "module"
    /\ local_runqueue_mtds_delete(w, current[w])
    /\ sandbox_process_scheduler_updates(current[w])
    /\ state' = [state EXCEPT ![current[w]] = "COMPLETE"]
    /\ current' = [current EXCEPT ![w] = NULL]
    /\ pc' = [pc EXCEPT ![w] = "get_next"]
    /\ UNCHANGED <<global, timeouts, target, peeked, pulled>>

\* The kernel's alarm on some worker, wherever it is.
sigalrm_kernel ==
    /\ global_timeout_queue_process_promotions
    /\ UNCHANGED <<worker, local, state>>

Schedule(w) ==
    \/ scheduler_mtds_get_next(w)
    \/ global_request_scheduler_mtds_default_peek(w)
    \/ global_request_scheduler_mtds_remove_with_mt_class(w)
    \/ sandbox_set_as_runnable(w)
    \/ Switch(w)

Next ==
    \/ \E s \in Sandbox : global_request_scheduler_mtds_add(s)
    \/ \E w \in Worker : \/ Schedule(w)
                         \/ sandbox_syscall(w)
                         \/ scheduler_preemptive_sched(w)
                         \/ sandbox_set_as_returned(w)
    \/ sigalrm_kernel

\* tenant_policy_specific_init and the initialization of the queues.
Init ==
    LET class == [t \in Tenant |-> IF t \in Paid THEN "GUARANTEED" ELSE "DEFAULT"]
    IN  /\ requests = [t \in Tenant |-> {}]
        /\ guaranteed = {} /\ default = {}
        /\ mt_class = class
        /\ timeouts = {}
        /\ remaining_budget = [t \in Tenant |-> MaxBudget]
        /\ pc = [w \in Worker |-> "get_next"]
        /\ target = [w \in Worker |-> NoTarget]
        /\ peeked = [w \in Worker |-> Never]
        /\ pulled = [w \in Worker |-> NULL]
        /\ current = [w \in Worker |-> NULL]
        /\ sandboxes = [w \in Worker |-> [t \in Tenant |-> {}]]
        /\ lguaranteed = [w \in Worker |-> {}] /\ ldefault = [w \in Worker |-> {}]
        /\ lclass = [w \in Worker |-> class]
        /\ ltimeouts = [w \in Worker |-> {}]
        /\ state = [s \in Sandbox |-> "none"]

Spec == Init /\ [][Next]_vars

(***************************************************************************)
(* Workers are scheduled and the kernel's timer is periodic.  A module     *)
(* that runs ends even if it is interrupted again and again: it makes      *)
(* progress in between.                                                    *)
(***************************************************************************)
FairSpec ==
    /\ Spec
    /\ WF_vars(sigalrm_kernel)
    /\ \A w \in Worker : WF_vars(Schedule(w)) /\ SF_vars(sandbox_set_as_returned(w))

-----------------------------------------------------------------------------
(* Properties.                                                             *)

\* Type invariant of the queues, classes, budgets and workers.
TypeOK ==
    /\ requests \in [Tenant -> SUBSET Sandbox]
    /\ guaranteed \subseteq Tenant /\ default \subseteq Tenant /\ timeouts \subseteq Paid
    /\ mt_class \in [Tenant -> {"GUARANTEED", "DEFAULT"}]
    /\ remaining_budget \in [Tenant -> 0 .. MaxBudget]
    /\ pc \in [Worker -> {"get_next", "peek", "remove", "runnable", "choose", "module"}]
    /\ pulled \in [Worker -> Sandbox \cup {NULL}] /\ current \in [Worker -> Sandbox \cup {NULL}]
    /\ \A w \in Worker : pc[w] = "runnable" <=> pulled[w] # NULL
    /\ \A w \in Worker : pc[w] = "module" => current[w] # NULL
    /\ sandboxes \in [Worker -> [Tenant -> SUBSET Sandbox]]
    /\ lguaranteed \in [Worker -> SUBSET Tenant] /\ ldefault \in [Worker -> SUBSET Tenant]
    /\ lclass \in [Worker -> [Tenant -> {"GUARANTEED", "DEFAULT"}]]
    /\ ltimeouts \in [Worker -> SUBSET Tenant]
    /\ state \in [Sandbox -> {"none", "INITIALIZED", "RUNNABLE", "RUNNING", "PREEMPTED", "COMPLETE"}]

\* A tenant with requests is in the global queue of its class and in no other, whatever the order
\* of adds, removals and demotions: the deletes of remove_with_mt_class and demote_nolock find the
\* tenant and do not panic, and the dequeue from the tenant's queue finds a request.
GlobalAgrees ==
    /\ guaranteed = {t \in Tenant : requests[t] # {} /\ mt_class[t] = "GUARANTEED"}
    /\ default = {t \in Tenant : requests[t] # {} /\ mt_class[t] = "DEFAULT"}

\* The same for each worker, through demotions in get_next and promotions by timeout; and the
\* timeout queue holds the paying tenants that have a sandbox there, so that the assert of
\* local_timeout_queue_process_promotions holds.
LocalAgrees ==
    \A w \in Worker :
        LET present == {t \in Tenant : sandboxes[w][t] # {}}
        IN  /\ lguaranteed[w] = {t \in present : lclass[w][t] = "GUARANTEED"}
            /\ ldefault[w] = {t \in present : lclass[w][t] = "DEFAULT"}
            /\ ltimeouts[w] = present \cap Paid

\* A paying tenant is treated as default, globally or by a worker, only once its budget is spent,
\* although any worker may charge the budget between the test and the demotion.
KeepsGuarantee ==
    \A t \in Paid : remaining_budget[t] = 0 \/ (mt_class[t] = "GUARANTEED" /\ \A w \in Worker : lclass[w][t] = "GUARANTEED")

\* Every request is run to its end, by whichever worker, also those of a demoted tenant and
\* although a demotion makes an attempt to pull a request fail.
EventuallyServed == \A s \in Sandbox : state[s] = "INITIALIZED" ~> state[s] = "COMPLETE"

=============================================================================
