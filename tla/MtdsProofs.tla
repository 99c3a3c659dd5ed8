------------------------------ MODULE MtdsProofs ------------------------------
(***************************************************************************)
(* Proofs about the MTDS policy, for any tenants, workers, requests,       *)
(* deadlines and budgets: the queues of tenants agree with the requests    *)
(* and the classes, a paying tenant keeps its class until its budget is    *)
(* spent, and a request is held in one place and run by one worker.        *)
(*                                                                         *)
(* The agreement of the queues is what makes the other parts hold: a       *)
(* worker that takes the head of a queue of tenants finds a request        *)
(* there.  That Min finds a least deadline is where induction comes in; it *)
(* is the least-element principle for sets of naturals.                    *)
(***************************************************************************)
EXTENDS Mtds, WellFoundedInduction, TLAPS

\* No tenant is in the global timeout queue: global_timeout_queue_add is never called.
NoTimeouts == timeouts = {}

Live == {"RUNNABLE", "RUNNING", "PREEMPTED"}

\* What a tenant's global queue, a worker's local variable and a worker's queues hold is in the state
\* that the place calls for, and is in no other place.
RequestsInv ==
    \A t \in Tenant : \A s \in requests[t] :
        TenantOf[s] = t /\ state[s] = "INITIALIZED" /\ \A w \in Worker : pulled[w] # s

PulledInv ==
    \A w \in Worker : pulled[w] # NULL =>
        state[pulled[w]] = "INITIALIZED" /\ \A v \in Worker \ {w} : pulled[v] # pulled[w]

SandboxesInv ==
    \A w \in Worker, t \in Tenant : \A s \in sandboxes[w][t] :
        TenantOf[s] = t /\ state[s] \in Live /\ \A v \in Worker \ {w} : s \notin sandboxes[v][t]

\* What a worker runs, or has interrupted, is in its queues and is what is RUNNING.
CurrentInv ==
    /\ \A w \in Worker : current[w] # NULL =>
            current[w] \in sandboxes[w][TenantOf[current[w]]] /\ state[current[w]] = "RUNNING"
    /\ \A s \in Sandbox : state[s] = "RUNNING" => \E w \in Worker : current[w] = s

\* No request is lost: one that is not complete is in a queue or in a worker's hand.
CoverInv ==
    \A s \in Sandbox :
        /\ state[s] = "INITIALIZED" => s \in requests[TenantOf[s]] \/ \E w \in Worker : pulled[w] = s
        /\ state[s] \in Live => \E w \in Worker : s \in sandboxes[w][TenantOf[s]]

PlaceInv == RequestsInv /\ PulledInv /\ SandboxesInv /\ CurrentInv /\ CoverInv

IInv == TypeOK /\ NoTimeouts /\ GlobalAgrees /\ LocalAgrees /\ KeepsGuarantee /\ PlaceInv

-----------------------------------------------------------------------------
(***************************************************************************)
(* The heads of the queues.                                                *)
(***************************************************************************)
\* A set of naturals that is not empty has a least element, and Min is it.
LEMMA LeastOf ==
    ASSUME NEW S \in SUBSET Nat, S # {}
    PROVE  Min(S) \in S /\ \A y \in S : Min(S) <= y
  <1>1. PICK x \in S : \A y \in S : ~(<<y, x>> \in OpToRel(<, Nat))
    BY NatLessThanWellFounded, WFMin, Zenon
  <1>2. \A y \in S : ~(y < x)
    BY <1>1, Zenon DEF OpToRel
  <1>3. \E z \in S : \A y \in S : z =< y
    BY <1>2
  <1> DEFINE m == CHOOSE z \in S : \A y \in S : z =< y
  <1>4. m \in S /\ \A y \in S : m =< y
    BY <1>3, Zenon
  <1> QED BY <1>4 DEF Min

\* The budget that is left after a charge.
LEMMA ChargeIs ==
    ASSUME NEW n \in Nat, NEW used \in {0, 1}
    PROVE  Max({0, n - used}) = IF n = 0 THEN 0 ELSE n - used
  <1> DEFINE m == IF n = 0 THEN 0 ELSE n - used
  <1>1. m \in {0, n - used} /\ \A y \in {0, n - used} : m >= y
    OBVIOUS
  <1>2. \A x \in {0, n - used} : (\A y \in {0, n - used} : x >= y) => x = m
    BY <1>1
  <1> QED BY <1>1, <1>2 DEF Max

\* Priority is the least deadline, and below Never unless there is none; HeadOf has it.
LEMMA PriorityIs ==
    ASSUME NEW set \in SUBSET Sandbox
    PROVE  /\ Priority(set) \in 0 .. Never
           /\ \A s \in set : Priority(set) <= Deadline[s]
           /\ set = {} => Priority(set) = Never
           /\ set # {} => /\ Priority(set) < Never
                          /\ HeadOf(set) \in set /\ Deadline[HeadOf(set)] = Priority(set)
  <1> DEFINE D == {Never} \cup {Deadline[s] : s \in set}
  <1>1. /\ D \in SUBSET Nat /\ Never \in D
        /\ \A s \in set : Deadline[s] \in D /\ Deadline[s] \in 0 .. Never - 1
        /\ \A d \in D : d # Never => \E s \in set : Deadline[s] = d
    BY MtdsAssumption
  <1>2. Priority(set) = Min(D)
    BY DEF Priority
  <1> HIDE DEF D
  <1>3. Priority(set) \in D /\ \A y \in D : Priority(set) <= y
    BY <1>1, <1>2, LeastOf
  <1>4. Priority(set) \in 0 .. Never /\ \A s \in set : Priority(set) <= Deadline[s]
    <2>1. Priority(set) \in Nat /\ Priority(set) <= Never
      BY <1>1, <1>3, Zenon
    <2>2. \A s \in set : Priority(set) <= Deadline[s]
      BY <1>1, <1>3, Zenon
    <2> QED BY <2>1, <2>2, MtdsAssumption
  <1>5. ASSUME set # {} PROVE Priority(set) < Never /\ \E s \in set : Deadline[s] = Priority(set)
    <2>1. Priority(set) # Never
      BY <1>1, <1>4, <1>5, MtdsAssumption
    <2> QED BY <1>1, <1>3, <1>4, <2>1, MtdsAssumption
  <1>6. set # {} => HeadOf(set) \in set /\ Deadline[HeadOf(set)] = Priority(set)
    BY <1>5, Zenon DEF HeadOf
  <1>7. set = {} => Priority(set) = Never
    BY <1>1, <1>3, Zenon
  <1> QED BY <1>4, <1>5, <1>6, <1>7

\* Among tenants whose queues are not empty there is one at the head.
LEMMA TopIs ==
    ASSUME NEW q \in [Tenant -> SUBSET Sandbox], NEW from \in SUBSET Tenant, from # {},
           \A t \in from : q[t] # {}
    PROVE  (CHOOSE t \in from : IsTop(t, from, q)) \in from
  <1> DEFINE D == {Never} \cup {Priority(q[t]) : t \in from}
  <1>1. ASSUME NEW t \in from PROVE Priority(q[t]) \in 0 .. Never - 1
    <2>1. q[t] \in SUBSET Sandbox /\ q[t] # {}
      OBVIOUS
    <2> QED BY <2>1, PriorityIs, MtdsAssumption
  <1>2. /\ D \in SUBSET Nat /\ Never \in D
        /\ \A t \in from : Priority(q[t]) \in D
        /\ \A d \in D : d # Never => \E t \in from : Priority(q[t]) = d
    BY <1>1, MtdsAssumption
  <1>3. Peek(from, q) = Min(D)
    BY DEF Peek
  <1> HIDE DEF D
  <1>4. Peek(from, q) \in D /\ \A y \in D : Peek(from, q) <= y
    BY <1>2, <1>3, LeastOf
  <1>5. Peek(from, q) # Never
    BY <1>1, <1>2, <1>4, MtdsAssumption
  <1>6. \E t \in from : IsTop(t, from, q)
    BY <1>2, <1>4, <1>5, Zenon DEF IsTop
  <1> QED BY <1>6, Zenon

-----------------------------------------------------------------------------
(***************************************************************************)
(* The queues of a worker.                                                 *)
(***************************************************************************)
\* LocalAgrees of one tenant on one worker.
AgreesAt(w, t) ==
    /\ t \in lguaranteed[w] <=> sandboxes[w][t] # {} /\ lclass[w][t] = "GUARANTEED"
    /\ t \in ldefault[w] <=> sandboxes[w][t] # {} /\ lclass[w][t] = "DEFAULT"
    /\ t \in ltimeouts[w] <=> sandboxes[w][t] # {} /\ t \in Paid

LocalTypes ==
    /\ sandboxes \in [Worker -> [Tenant -> SUBSET Sandbox]]
    /\ lguaranteed \in [Worker -> SUBSET Tenant] /\ ldefault \in [Worker -> SUBSET Tenant]
    /\ lclass \in [Worker -> [Tenant -> {"GUARANTEED", "DEFAULT"}]]
    /\ ltimeouts \in [Worker -> SUBSET Tenant]

\* The agreement of the queues of the workers, tenant by tenant.
LEMMA LocalPointwise ==
    ASSUME LocalAgrees, NEW w \in Worker, NEW t \in Tenant
    PROVE  AgreesAt(w, t)
  BY DEF LocalAgrees, AgreesAt

\* And back.
LEMMA LocalFromPoints ==
    ASSUME LocalTypes', \A w \in Worker, t \in Tenant : AgreesAt(w, t)'
    PROVE  LocalAgrees'
  <1> SUFFICES ASSUME NEW w \in Worker
               PROVE  LET present == {t \in Tenant : sandboxes'[w][t] # {}}
                      IN  /\ lguaranteed'[w] = {t \in present : lclass'[w][t] = "GUARANTEED"}
                          /\ ldefault'[w] = {t \in present : lclass'[w][t] = "DEFAULT"}
                          /\ ltimeouts'[w] = present \cap Paid
    BY DEF LocalAgrees
  <1>1. lguaranteed'[w] \subseteq Tenant /\ ldefault'[w] \subseteq Tenant /\ ltimeouts'[w] \subseteq Tenant
    BY DEF LocalTypes
  <1>2. \A t \in Tenant : AgreesAt(w, t)'
    OBVIOUS
  <1> QED BY <1>1, <1>2 DEF AgreesAt

\* What is added to a tenant's queue brings the tenant into the queue of its class.
LEMMA LocalAdd ==
    ASSUME LocalTypes, LocalAgrees, NEW w \in Worker, NEW s \in Sandbox, local_runqueue_mtds_add(w, s)
    PROVE  LocalTypes' /\ LocalAgrees'
  <1> USE MtdsAssumption
  <1>1. TenantOf[s] \in Tenant
    OBVIOUS
  <1>2. LocalTypes'
    BY <1>1 DEF local_runqueue_mtds_add, LocalTypes
  <1>3. ASSUME NEW v \in Worker, NEW t \in Tenant PROVE AgreesAt(v, t)'
    <2>1. AgreesAt(v, t)
      BY LocalPointwise
    <2>2. CASE v = w /\ t = TenantOf[s]
      BY <1>1, <2>1, <2>2, ZenonT(60) DEF local_runqueue_mtds_add, LocalTypes, AgreesAt
    <2>3. CASE ~(v = w /\ t = TenantOf[s])
      BY <1>1, <2>1, <2>3 DEF local_runqueue_mtds_add, LocalTypes, AgreesAt
    <2> QED BY <2>2, <2>3
  <1> QED BY <1>2, <1>3, LocalFromPoints

\* The last sandbox of a tenant takes the tenant out of the queues.
LEMMA LocalDelete ==
    ASSUME LocalTypes, LocalAgrees, NEW w \in Worker, NEW s \in Sandbox, local_runqueue_mtds_delete(w, s)
    PROVE  LocalTypes' /\ LocalAgrees'
  <1> USE MtdsAssumption
  <1>1. TenantOf[s] \in Tenant
    OBVIOUS
  <1>2. LocalTypes'
    BY <1>1 DEF local_runqueue_mtds_delete, LocalTypes
  <1>3. ASSUME NEW v \in Worker, NEW t \in Tenant PROVE AgreesAt(v, t)'
    <2>1. AgreesAt(v, t)
      BY LocalPointwise
    <2>2. CASE v = w /\ t = TenantOf[s]
      BY <1>1, <2>1, <2>2 DEF local_runqueue_mtds_delete, LocalTypes, AgreesAt
    <2>3. CASE ~(v = w /\ t = TenantOf[s])
      BY <1>1, <2>1, <2>3 DEF local_runqueue_mtds_delete, LocalTypes, AgreesAt
    <2> QED BY <2>2, <2>3
  <1> QED BY <1>2, <1>3, LocalFromPoints

\* Demotions move tenants between the queues with their class.
LEMMA LocalDemote ==
    ASSUME LocalTypes, LocalAgrees, NEW w \in Worker, local_runqueue_mtds_demote(w), UNCHANGED <<sandboxes, ltimeouts>>
    PROVE  LocalTypes' /\ LocalAgrees'
  <1>1. Demoted(w) \subseteq lguaranteed[w] /\ lguaranteed[w] \subseteq Tenant
    BY DEF Demoted, LocalTypes
  <1>2. LocalTypes'
    BY <1>1 DEF local_runqueue_mtds_demote, LocalTypes
  <1>3. ASSUME NEW v \in Worker, NEW t \in Tenant PROVE AgreesAt(v, t)'
    <2>1. AgreesAt(v, t)
      BY LocalPointwise
    <2> QED BY <1>1, <2>1 DEF local_runqueue_mtds_demote, LocalTypes, AgreesAt
  <1> QED BY <1>2, <1>3, LocalFromPoints

\* So do promotions by timeout.
LEMMA LocalPromote ==
    ASSUME LocalTypes, LocalAgrees, NEW w \in Worker, local_timeout_queue_process_promotions(w)
    PROVE  LocalTypes' /\ LocalAgrees'
  <1>1. PICK due \in SUBSET ltimeouts[w] :
            LET moved == {t \in due : lclass[w][t] = "DEFAULT"}
            IN  /\ ldefault' = [ldefault EXCEPT ![w] = @ \ moved]
                /\ lguaranteed' = [lguaranteed EXCEPT ![w] = @ \cup moved]
                /\ lclass' = [lclass EXCEPT ![w] = [t \in Tenant |-> IF t \in moved THEN "GUARANTEED" ELSE @[t]]]
                /\ UNCHANGED <<sandboxes, ltimeouts>>
    BY ZenonT(60) DEF local_timeout_queue_process_promotions
  <1>2. due \subseteq Tenant
    BY DEF LocalTypes
  <1>3. LocalTypes'
    BY <1>1, <1>2 DEF LocalTypes
  <1>4. ASSUME NEW v \in Worker, NEW t \in Tenant PROVE AgreesAt(v, t)'
    <2>1. AgreesAt(v, t)
      BY LocalPointwise
    <2> QED BY <1>1, <1>2, <2>1 DEF LocalTypes, AgreesAt
  <1> QED BY <1>3, <1>4, LocalFromPoints

\* What get_next returns is in the queues of the worker.
LEMMA NextIs ==
    ASSUME LocalTypes, LocalAgrees, SandboxesInv, NEW w \in Worker, local_runqueue_mtds_get_next(w) # NULL
    PROVE  /\ local_runqueue_mtds_get_next(w) \in Sandbox
           /\ local_runqueue_mtds_get_next(w) \in sandboxes[w][TenantOf[local_runqueue_mtds_get_next(w)]]
  <1> DEFINE g == lguaranteed[w] \ Demoted(w)
             from == IF g # {} THEN g ELSE ldefault[w] \cup Demoted(w)
             top == CHOOSE t \in from : IsTop(t, from, sandboxes[w])
             n == HeadOf(sandboxes[w][top])
  <1>1. from # {} /\ local_runqueue_mtds_get_next(w) = n
    BY DEF local_runqueue_mtds_get_next
  <1>2. from \in SUBSET Tenant /\ from \subseteq lguaranteed[w] \cup ldefault[w]
    BY DEF LocalTypes, Demoted
  <1> HIDE DEF from
  <1>3. \A t \in from : sandboxes[w][t] # {}
    BY <1>2, LocalPointwise DEF AgreesAt
  <1>4. top \in from
    BY <1>1, <1>2, <1>3, TopIs, ZenonT(60) DEF LocalTypes
  <1> HIDE DEF top
  <1>5. sandboxes[w][top] \in SUBSET Sandbox /\ sandboxes[w][top] # {} /\ top \in Tenant
    BY <1>2, <1>3, <1>4 DEF LocalTypes
  <1>6. n \in sandboxes[w][top]
    BY <1>5, PriorityIs
  <1> QED BY <1>1, <1>5, <1>6 DEF SandboxesInv

-----------------------------------------------------------------------------
(***************************************************************************)
(* The global queues.                                                      *)
(***************************************************************************)
\* GlobalAgrees of one tenant.
GlobalAt(t) ==
    /\ t \in guaranteed <=> requests[t] # {} /\ mt_class[t] = "GUARANTEED"
    /\ t \in default <=> requests[t] # {} /\ mt_class[t] = "DEFAULT"

GlobalTypes ==
    /\ requests \in [Tenant -> SUBSET Sandbox]
    /\ guaranteed \subseteq Tenant /\ default \subseteq Tenant
    /\ mt_class \in [Tenant -> {"GUARANTEED", "DEFAULT"}]

\* A new request brings its tenant into the queue of its class, or finds it there.
LEMMA GlobalAdd ==
    ASSUME GlobalTypes, GlobalAgrees, NEW s \in Sandbox, global_request_scheduler_mtds_add(s)
    PROVE  GlobalTypes' /\ GlobalAgrees'
  <1> DEFINE t == TenantOf[s]
             tightened == Deadline[s] < Priority(requests[t])
  <1>1. t \in Tenant /\ requests[t] \in SUBSET Sandbox
    BY MtdsAssumption DEF GlobalTypes
  <1>2. requests[t] = {} => tightened
    BY <1>1, PriorityIs, MtdsAssumption
  <1>3. /\ requests' = [requests EXCEPT ![t] = @ \cup {s}]
        /\ guaranteed' = guaranteed \cup {u \in {t} : tightened /\ mt_class[t] = "GUARANTEED"}
        /\ default' = default \cup {u \in {t} : tightened /\ mt_class[t] = "DEFAULT"}
        /\ mt_class' = mt_class
    BY DEF global_request_scheduler_mtds_add
  <1> HIDE DEF t, tightened
  <1>4. GlobalTypes'
    BY <1>1, <1>3 DEF GlobalTypes
  <1>5. ASSUME NEW u \in Tenant PROVE GlobalAt(u)'
    <2>1. GlobalAt(u)
      BY DEF GlobalAgrees, GlobalAt
    <2>2. CASE u = t
      BY <1>1, <1>2, <1>3, <2>1, <2>2 DEF GlobalTypes, GlobalAt
    <2>3. CASE u # t
      BY <1>1, <1>3, <2>1, <2>3 DEF GlobalTypes, GlobalAt
    <2> QED BY <2>2, <2>3
  <1> QED BY <1>4, <1>5 DEF GlobalAgrees, GlobalAt, GlobalTypes

\* A tenant of the guaranteed queue that is demoted has requests, which the default queue then orders.
LEMMA GlobalDemote ==
    ASSUME GlobalTypes, GlobalAgrees, NEW t \in Tenant, t \in guaranteed \cup default, mt_class[t] = "GUARANTEED",
           global_request_scheduler_mtds_demote_nolock(t), UNCHANGED requests
    PROVE  GlobalTypes' /\ GlobalAgrees'
  <1>1. GlobalTypes'
    BY DEF global_request_scheduler_mtds_demote_nolock, GlobalTypes
  <1>2. ASSUME NEW u \in Tenant PROVE GlobalAt(u)'
    <2>1. GlobalAt(u)
      BY DEF GlobalAgrees, GlobalAt
    <2> QED BY <2>1 DEF global_request_scheduler_mtds_demote_nolock, GlobalTypes, GlobalAt
  <1> QED BY <1>1, <1>2 DEF GlobalAgrees, GlobalAt, GlobalTypes

\* The queue a worker takes a tenant from is the one of its class: the last request takes the
\* tenant's entry with it.
LEMMA GlobalTake ==
    ASSUME GlobalTypes, GlobalAgrees, NEW w \in Worker, NEW t \in Tenant,
           t \in IF guaranteed # {} THEN guaranteed ELSE default, Take(w, t), UNCHANGED mt_class
    PROVE  /\ GlobalTypes' /\ GlobalAgrees'
           /\ HeadOf(requests[t]) \in requests[t]
           /\ requests' = [requests EXCEPT ![t] = @ \ {HeadOf(requests[t])}]
           /\ pulled' = [pulled EXCEPT ![w] = HeadOf(requests[t])]
  <1> DEFINE h == HeadOf(requests[t])
             rest == requests[t] \ {h}
             gone == {u \in {t} : rest = {}}
  <1>1. requests[t] \in SUBSET Sandbox /\ requests[t] # {} /\ GlobalAt(t)
    BY DEF GlobalTypes, GlobalAgrees, GlobalAt
  <1>2. h \in requests[t]
    BY <1>1, PriorityIs
  <1>3. /\ requests' = [requests EXCEPT ![t] = rest]
        /\ guaranteed' = guaranteed \ gone
        /\ default' = IF guaranteed = {} THEN default \ gone ELSE default
        /\ pulled' = [pulled EXCEPT ![w] = h]
    BY DEF Take
  <1>4. rest \in SUBSET Sandbox /\ (\A u : u \in gone <=> u = t /\ rest = {})
    BY <1>1
  <1> HIDE DEF h, rest, gone
  <1>5. GlobalTypes'
    BY <1>3, <1>4 DEF GlobalTypes
  <1>6. ASSUME NEW u \in Tenant PROVE GlobalAt(u)'
    <2>1. GlobalAt(u)
      BY DEF GlobalAgrees, GlobalAt
    <2>2. CASE u = t
      BY <1>1, <1>3, <1>4, <2>2 DEF GlobalTypes, GlobalAt
    <2>3. CASE u # t
      BY <1>3, <1>4, <2>1, <2>3 DEF GlobalTypes, GlobalAt
    <2> QED BY <2>2, <2>3
  <1>7. GlobalAgrees'
    BY <1>5, <1>6 DEF GlobalAgrees, GlobalAt, GlobalTypes
  <1> QED BY <1>2, <1>3, <1>5, <1>7 DEF h, rest

-----------------------------------------------------------------------------
(***************************************************************************)
(* Types and budgets.                                                      *)
(***************************************************************************)
WorkerTypes ==
    /\ timeouts \subseteq Paid
    /\ remaining_budget \in [Tenant -> 0 .. MaxBudget]
    /\ pc \in [Worker -> {"get_next", "peek", "remove", "runnable", "choose", "module"}]
    /\ pulled \in [Worker -> Sandbox \cup {NULL}] /\ current \in [Worker -> Sandbox \cup {NULL}]
    /\ \A w \in Worker : pc[w] = "runnable" <=> pulled[w] # NULL
    /\ \A w \in Worker : pc[w] = "module" => current[w] # NULL
    /\ state \in [Sandbox -> {"none", "INITIALIZED", "RUNNABLE", "RUNNING", "PREEMPTED", "COMPLETE"}]

\* The type invariant by parts.
LEMMA TypeParts ==
    /\ TypeOK <=> GlobalTypes /\ LocalTypes /\ WorkerTypes
    /\ TypeOK' <=> GlobalTypes' /\ LocalTypes' /\ WorkerTypes'
  BY Zenon DEF TypeOK, GlobalTypes, LocalTypes, WorkerTypes

\* A charge gives no budget back.
LEMMA ChargeSpends ==
    ASSUME remaining_budget \in [Tenant -> 0 .. MaxBudget], NEW s \in Sandbox, sandbox_process_scheduler_updates(s)
    PROVE  /\ remaining_budget' \in [Tenant -> 0 .. MaxBudget]
           /\ \A t \in Tenant : remaining_budget[t] = 0 => remaining_budget'[t] = 0
  <1> DEFINE u == TenantOf[s]
  <1>1. u \in Tenant /\ remaining_budget[u] \in Nat /\ remaining_budget[u] <= MaxBudget /\ MaxBudget \in Nat
    BY MtdsAssumption
  <1>2. PICK used \in {0, 1} : remaining_budget' = [remaining_budget EXCEPT ![u] = Max({0, @ - used})]
    BY ZenonT(60) DEF sandbox_process_scheduler_updates
  <1>3. Max({0, remaining_budget[u] - used}) = IF remaining_budget[u] = 0 THEN 0 ELSE remaining_budget[u] - used
    BY <1>1, ChargeIs, ZenonT(60)
  <1>4. remaining_budget' = [remaining_budget EXCEPT ![u] = IF remaining_budget[u] = 0 THEN 0 ELSE remaining_budget[u] - used]
    BY <1>2, <1>3, ZenonT(60)
  <1> HIDE DEF u
  <1> QED BY <1>1, <1>4

\* The tenants that get_next demotes have no budget left.
LEMMA DemotedIsSpent ==
    ASSUME LocalTypes, remaining_budget \in [Tenant -> 0 .. MaxBudget], NEW w \in Worker, NEW t \in Demoted(w)
    PROVE  t \in Tenant /\ remaining_budget[t] = 0
  <1>1. t \in lguaranteed[w] /\ t \in Tenant /\ sandboxes[w][t] \in SUBSET Sandbox
    BY DEF Demoted, LocalTypes
  <1>2. Priority(sandboxes[w][t]) <= Priority(sandboxes[w][t])
    BY <1>1, PriorityIs, MtdsAssumption
  <1>3. Spent(t)
    BY <1>1, <1>2, Zenon DEF Demoted
  <1> QED BY <1>1, <1>3, MtdsAssumption DEF Spent

\* Demotions of a worker keep the guarantee.
LEMMA DemoteKeepsGuarantee ==
    ASSUME LocalTypes, remaining_budget \in [Tenant -> 0 .. MaxBudget], KeepsGuarantee, NEW w \in Worker,
           local_runqueue_mtds_demote(w), UNCHANGED <<mt_class, remaining_budget>>
    PROVE  KeepsGuarantee'
  <1> SUFFICES ASSUME NEW t \in Paid, remaining_budget[t] # 0
               PROVE  mt_class[t] = "GUARANTEED" /\ \A v \in Worker : lclass'[v][t] = "GUARANTEED"
    BY DEF KeepsGuarantee
  <1>1. t \in Tenant /\ t \notin Demoted(w)
    BY DemotedIsSpent, MtdsAssumption
  <1>2. mt_class[t] = "GUARANTEED" /\ \A v \in Worker : lclass[v][t] = "GUARANTEED"
    BY DEF KeepsGuarantee
  <1>3. \A v \in Worker : lclass'[v][t] = lclass[v][t]
    BY <1>1 DEF local_runqueue_mtds_demote, LocalTypes
  <1> QED BY <1>2, <1>3

-----------------------------------------------------------------------------
(***************************************************************************)
(* One lemma per action.                                                   *)
(***************************************************************************)
\* The queues are empty, no request is there and no budget is spent.
LEMMA InitIInv == Init => IInv
  <1> SUFFICES ASSUME Init PROVE IInv
    OBVIOUS
  <1> USE MtdsAssumption DEF Init
  <1>1. TypeOK
    BY DEF TypeOK
  <1>2. NoTimeouts /\ GlobalAgrees /\ LocalAgrees /\ KeepsGuarantee
    BY DEF NoTimeouts, GlobalAgrees, LocalAgrees, KeepsGuarantee
  <1>3. PlaceInv
    BY DEF PlaceInv, RequestsInv, PulledInv, SandboxesInv, CurrentInv, CoverInv, Live
  <1> QED BY <1>1, <1>2, <1>3 DEF IInv

\* A step that leaves the requests where they are and in their states keeps PlaceInv.
LEMMA PlaceFrame ==
    ASSUME PlaceInv, UNCHANGED <<requests, pulled, current, sandboxes, state>>
    PROVE  PlaceInv'
  BY DEF PlaceInv, RequestsInv, PulledInv, SandboxesInv, CurrentInv, CoverInv

\* A new request.
LEMMA AddIInv ==
    ASSUME IInv, NEW s \in Sandbox, global_request_scheduler_mtds_add(s)
    PROVE  IInv'
  <1> USE MtdsAssumption
  <1>1. GlobalTypes /\ LocalTypes /\ WorkerTypes /\ GlobalAgrees /\ LocalAgrees
    BY TypeParts DEF IInv
  <1>2. GlobalTypes' /\ GlobalAgrees'
    BY <1>1, GlobalAdd
  <1>3. /\ state[s] = "none" /\ state' = [state EXCEPT ![s] = "INITIALIZED"]
        /\ requests' = [requests EXCEPT ![TenantOf[s]] = @ \cup {s}]
        /\ UNCHANGED <<mt_class, timeouts, remaining_budget, pc, pulled, current, sandboxes, lguaranteed, ldefault, lclass, ltimeouts>>
    BY DEF global_request_scheduler_mtds_add, worker, local
  <1>4. LocalTypes' /\ LocalAgrees'
    BY <1>1, <1>3 DEF LocalTypes, LocalAgrees
  <1>5. WorkerTypes'
    BY <1>1, <1>3 DEF WorkerTypes
  <1>6. NoTimeouts' /\ KeepsGuarantee'
    BY <1>3 DEF IInv, NoTimeouts, KeepsGuarantee
  <1>7. PlaceInv'
    <2> USE <1>1, <1>3 DEF GlobalTypes, LocalTypes, WorkerTypes
    <2>1. RequestsInv'
      <3> SUFFICES ASSUME NEW t \in Tenant, NEW r \in requests'[t]
                   PROVE  TenantOf[r] = t /\ state'[r] = "INITIALIZED" /\ \A w \in Worker : pulled'[w] # r
        BY DEF RequestsInv
      <3>1. CASE r = s
        <4>1. t = TenantOf[s]
          BY <3>1 DEF IInv, PlaceInv, RequestsInv
        <4>2. \A w \in Worker : pulled'[w] # s
          BY ZenonT(60) DEF IInv, PlaceInv, PulledInv
        <4> QED BY <3>1, <4>1, <4>2
      <3>2. CASE r # s
        <4>1. r \in requests[t]
          BY <3>2
        <4> QED BY <3>2, <4>1 DEF IInv, PlaceInv, RequestsInv
      <3> QED BY <3>1, <3>2
    <2>2. PulledInv'
      BY DEF IInv, PlaceInv, PulledInv
    <2>3. SandboxesInv'
      BY DEF IInv, PlaceInv, SandboxesInv, Live
    <2>4. CurrentInv'
      BY DEF IInv, PlaceInv, CurrentInv
    <2>5. CoverInv'
      BY DEF IInv, PlaceInv, CoverInv, Live
    <2> QED BY <2>1, <2>2, <2>3, <2>4, <2>5 DEF PlaceInv
  <1> QED BY <1>2, <1>4, <1>5, <1>6, <1>7, TypeParts DEF IInv

\* The peeks without the lock change nothing but the worker's own step and its tenants' classes.
LEMMA GetNextIInv ==
    ASSUME IInv, NEW w \in Worker, scheduler_mtds_get_next(w)
    PROVE  IInv'
  <1>1. GlobalTypes /\ LocalTypes /\ WorkerTypes /\ GlobalAgrees /\ LocalAgrees /\ KeepsGuarantee
    BY TypeParts DEF IInv
  <1>2. /\ local_runqueue_mtds_demote(w)
        /\ pc[w] = "get_next" /\ pc' = [pc EXCEPT ![w] = "peek"]
        /\ UNCHANGED <<requests, guaranteed, default, mt_class, timeouts, remaining_budget, pulled, current, sandboxes, ltimeouts, state>>
    BY DEF scheduler_mtds_get_next, global
  <1>3. LocalTypes' /\ LocalAgrees'
    BY <1>1, <1>2, LocalDemote
  <1>4. GlobalTypes' /\ GlobalAgrees'
    BY <1>1, <1>2 DEF GlobalTypes, GlobalAgrees
  <1>5. WorkerTypes' /\ NoTimeouts'
    BY <1>1, <1>2 DEF WorkerTypes, IInv, NoTimeouts
  <1>6. KeepsGuarantee'
    BY <1>1, <1>2, DemoteKeepsGuarantee, ZenonT(60) DEF WorkerTypes
  <1>7. PlaceInv'
    BY <1>2, PlaceFrame, Zenon DEF IInv
  <1> QED BY <1>3, <1>4, <1>5, <1>6, <1>7, TypeParts DEF IInv

\* A worker that goes on without a request in its hand.
LEMMA MoveTypes ==
    ASSUME WorkerTypes, NEW w \in Worker, NEW p \in {"choose", "remove"}, pc[w] \in {"peek", "remove"},
           pc' = [pc EXCEPT ![w] = p], UNCHANGED <<timeouts, remaining_budget, pulled, current, state>>
    PROVE  WorkerTypes'
  BY DEF WorkerTypes

\* What is in the queues stays in place when a step only moves a worker on.
LEMMA MoveIInv ==
    ASSUME IInv, NEW w \in Worker, NEW p \in {"choose", "remove"}, pc[w] \in {"peek", "remove"},
           pc' = [pc EXCEPT ![w] = p], UNCHANGED <<global, timeouts, remaining_budget, pulled, current, local, state>>
    PROVE  IInv'
  <1>1. GlobalTypes /\ LocalTypes /\ WorkerTypes /\ GlobalAgrees /\ LocalAgrees
    BY TypeParts DEF IInv
  <1>2. UNCHANGED <<requests, guaranteed, default, mt_class, timeouts, remaining_budget, pulled, current,
                    sandboxes, lguaranteed, ldefault, lclass, ltimeouts, state>>
    BY DEF global, local
  <1>3. LocalTypes' /\ LocalAgrees' /\ GlobalTypes' /\ GlobalAgrees'
    BY <1>1, <1>2 DEF LocalTypes, LocalAgrees, GlobalTypes, GlobalAgrees
  <1>4. WorkerTypes'
    BY <1>1, <1>2, MoveTypes, Zenon
  <1>5. NoTimeouts' /\ KeepsGuarantee'
    BY <1>2, ZenonT(60) DEF IInv, NoTimeouts, KeepsGuarantee
  <1>6. PlaceInv'
    BY <1>2, PlaceFrame, Zenon DEF IInv
  <1> QED BY <1>3, <1>4, <1>5, <1>6, TypeParts DEF IInv

\* The second peek.
LEMMA PeekIInv ==
    ASSUME IInv, NEW w \in Worker, global_request_scheduler_mtds_default_peek(w)
    PROVE  IInv'
  <1>1. \E p \in {"choose", "remove"} : pc' = [pc EXCEPT ![w] = p]
    BY Zenon DEF global_request_scheduler_mtds_default_peek
  <1> QED BY <1>1, MoveIInv, ZenonT(60) DEF global_request_scheduler_mtds_default_peek

\* The demotion of a tenant in the global queues.
LEMMA RemoveDemotesIInv ==
    ASSUME IInv, NEW w \in Worker, NEW t \in Tenant, t \in guaranteed \cup default, pc[w] = "remove",
           mt_class[t] = "GUARANTEED", Spent(t), global_request_scheduler_mtds_demote_nolock(t),
           pc' = [pc EXCEPT ![w] = "choose"],
           UNCHANGED <<requests, timeouts, remaining_budget, pulled, current, local, state>>
    PROVE  IInv'
  <1>1. GlobalTypes /\ LocalTypes /\ WorkerTypes /\ GlobalAgrees /\ LocalAgrees /\ KeepsGuarantee
    BY TypeParts DEF IInv
  <1>2. UNCHANGED <<sandboxes, lguaranteed, ldefault, lclass, ltimeouts>>
    BY DEF local
  <1>3. GlobalTypes' /\ GlobalAgrees'
    BY <1>1, GlobalDemote
  <1>4. LocalTypes' /\ LocalAgrees'
    BY <1>1, <1>2 DEF LocalTypes, LocalAgrees
  <1>5. WorkerTypes' /\ NoTimeouts'
    BY <1>1, MoveTypes, Zenon DEF IInv, NoTimeouts
  <1>6. KeepsGuarantee'
    <2>1. remaining_budget[t] = 0
      BY <1>1, MtdsAssumption DEF WorkerTypes, Spent
    <2>2. \A u \in Tenant : u # t => mt_class'[u] = mt_class[u]
      BY <1>1, ZenonT(60) DEF GlobalTypes, global_request_scheduler_mtds_demote_nolock
    <2> QED BY <1>1, <1>2, <2>1, <2>2, MtdsAssumption DEF KeepsGuarantee
  <1>7. PlaceInv'
    BY <1>2, PlaceFrame, Zenon DEF IInv
  <1> QED BY <1>3, <1>4, <1>5, <1>6, <1>7, TypeParts DEF IInv

\* A request goes from its tenant's queue into the hand of one worker.
LEMMA RemoveTakesIInv ==
    ASSUME IInv, NEW w \in Worker, NEW t \in Tenant, t \in IF guaranteed # {} THEN guaranteed ELSE default,
           pc[w] = "remove", Take(w, t), pc' = [pc EXCEPT ![w] = "runnable"],
           UNCHANGED <<mt_class, timeouts, remaining_budget, current, local, state>>
    PROVE  IInv'
  <1> DEFINE h == HeadOf(requests[t])
  <1>1. GlobalTypes /\ LocalTypes /\ WorkerTypes /\ GlobalAgrees /\ LocalAgrees
    BY TypeParts DEF IInv
  <1>2. /\ GlobalTypes' /\ GlobalAgrees' /\ h \in requests[t]
        /\ requests' = [requests EXCEPT ![t] = @ \ {h}]
        /\ pulled' = [pulled EXCEPT ![w] = h]
    BY <1>1, GlobalTake
  <1> HIDE DEF h
  <1>3. UNCHANGED <<sandboxes, lguaranteed, ldefault, lclass, ltimeouts>>
    BY DEF local
  <1>4. LocalTypes' /\ LocalAgrees'
    BY <1>1, <1>3 DEF LocalTypes, LocalAgrees
  <1>5. h \in Sandbox /\ h # NULL /\ pulled[w] = NULL
    BY <1>1, <1>2, MtdsAssumption DEF GlobalTypes, WorkerTypes
  <1>6. WorkerTypes' /\ NoTimeouts' /\ KeepsGuarantee'
    BY <1>1, <1>2, <1>3, <1>5, ZenonT(60) DEF WorkerTypes, IInv, NoTimeouts, KeepsGuarantee
  <1>7. TenantOf[h] = t /\ state[h] = "INITIALIZED" /\ \A v \in Worker : pulled[v] # h
    BY <1>2 DEF IInv, PlaceInv, RequestsInv
  <1>8. PlaceInv'
    <2> USE <1>1 DEF GlobalTypes, WorkerTypes
    <2>1. RequestsInv'
      <3> SUFFICES ASSUME NEW u \in Tenant, NEW r \in requests'[u]
                   PROVE  TenantOf[r] = u /\ state'[r] = "INITIALIZED" /\ \A v \in Worker : pulled'[v] # r
        BY DEF RequestsInv
      <3>1. r \in requests[u] /\ TenantOf[r] = u /\ state[r] = "INITIALIZED" /\ \A v \in Worker : pulled[v] # r
        BY <1>2 DEF IInv, PlaceInv, RequestsInv
      <3>2. r # h
        BY <1>2, <1>7, <3>1, ZenonT(60)
      <3> QED BY <1>2, <3>1, <3>2, ZenonT(60)
    <2>2. PulledInv'
      BY <1>2, <1>5, <1>7 DEF IInv, PlaceInv, PulledInv
    <2>3. SandboxesInv' /\ CurrentInv'
      BY <1>3, ZenonT(60) DEF IInv, PlaceInv, SandboxesInv, CurrentInv
    <2>4. CoverInv'
      <3> SUFFICES ASSUME NEW s \in Sandbox
                   PROVE  /\ state[s] = "INITIALIZED" => s \in requests'[TenantOf[s]] \/ \E v \in Worker : pulled'[v] = s
                          /\ state[s] \in Live => \E v \in Worker : s \in sandboxes[v][TenantOf[s]]
        BY <1>3 DEF CoverInv
      <3>1. TenantOf[s] \in Tenant
        BY MtdsAssumption, ZenonT(60)
      <3>2. /\ state[s] = "INITIALIZED" => s \in requests[TenantOf[s]] \/ \E v \in Worker : pulled[v] = s
            /\ state[s] \in Live => \E v \in Worker : s \in sandboxes[v][TenantOf[s]]
        BY DEF IInv, PlaceInv, CoverInv
      <3>3. s = h => pulled'[w] = s
        BY <1>2
      <3>4. s # h /\ s \in requests[TenantOf[s]] => s \in requests'[TenantOf[s]]
        BY <1>2, <3>1
      <3>5. \A v \in Worker : pulled[v] = s => pulled'[v] = s
        BY <1>2, <1>5, MtdsAssumption
      <3> QED BY <3>2, <3>3, <3>4, <3>5, ZenonT(60)
    <2> QED BY <2>1, <2>2, <2>3, <2>4, ZenonT(60) DEF PlaceInv
  <1> QED BY <1>2, <1>4, <1>6, <1>8, TypeParts DEF IInv

\* The attempt to pull a request, with its three outcomes.
LEMMA RemoveIInv ==
    ASSUME IInv, NEW w \in Worker, global_request_scheduler_mtds_remove_with_mt_class(w)
    PROVE  IInv'
  <1> DEFINE source == IF guaranteed # {} THEN guaranteed ELSE default
  <1>1. /\ pc[w] = "remove"
        /\ UNCHANGED <<timeouts, remaining_budget, target, peeked, current, local, state>>
    BY DEF global_request_scheduler_mtds_remove_with_mt_class
  <1>2. \/ pc' = [pc EXCEPT ![w] = "choose"] /\ UNCHANGED <<global, pulled>>
        \/ \E t \in Tenant :
              /\ IsTop(t, source, requests)
              /\ \/ /\ mt_class[t] = "GUARANTEED" /\ Spent(t)
                    /\ global_request_scheduler_mtds_demote_nolock(t)
                    /\ pc' = [pc EXCEPT ![w] = "choose"]
                    /\ UNCHANGED <<requests, pulled>>
                 \/ /\ Take(w, t)
                    /\ pc' = [pc EXCEPT ![w] = "runnable"]
                    /\ UNCHANGED mt_class
    BY Zenon DEF global_request_scheduler_mtds_remove_with_mt_class
  <1>3. CASE pc' = [pc EXCEPT ![w] = "choose"] /\ UNCHANGED <<global, pulled>>
    BY <1>1, <1>3, MoveIInv, ZenonT(60)
  <1>4. ASSUME NEW t \in Tenant, IsTop(t, source, requests), mt_class[t] = "GUARANTEED", Spent(t),
               global_request_scheduler_mtds_demote_nolock(t), pc' = [pc EXCEPT ![w] = "choose"],
               UNCHANGED <<requests, pulled>>
        PROVE  IInv'
    <2>1. t \in guaranteed \cup default
      BY <1>4 DEF IsTop
    <2> QED BY <1>1, <1>4, <2>1, RemoveDemotesIInv, ZenonT(60)
  <1>5. ASSUME NEW t \in Tenant, IsTop(t, source, requests), Take(w, t), pc' = [pc EXCEPT ![w] = "runnable"],
               UNCHANGED mt_class
        PROVE  IInv'
    <2>1. t \in source
      BY <1>5 DEF IsTop
    <2> QED BY <1>1, <1>5, <2>1, RemoveTakesIInv, ZenonT(60)
  <1> QED BY <1>2, <1>3, <1>4, <1>5, Zenon

\* The request in a worker's hand goes into the queues of that worker.
LEMMA RunnableIInv ==
    ASSUME IInv, NEW w \in Worker, sandbox_set_as_runnable(w)
    PROVE  IInv'
  <1> DEFINE s == pulled[w]
             t == TenantOf[s]
  <1>1. GlobalTypes /\ LocalTypes /\ WorkerTypes /\ GlobalAgrees /\ LocalAgrees
    BY TypeParts DEF IInv
  <1>2. /\ pc[w] = "runnable" /\ pc' = [pc EXCEPT ![w] = "choose"] /\ local_runqueue_mtds_add(w, s)
        /\ state' = [state EXCEPT ![s] = "RUNNABLE"] /\ pulled' = [pulled EXCEPT ![w] = NULL]
        /\ UNCHANGED <<requests, guaranteed, default, mt_class, timeouts, remaining_budget, current>>
    BY DEF sandbox_set_as_runnable, global
  <1>3. s \in Sandbox /\ t \in Tenant
    BY <1>1, <1>2, MtdsAssumption, ZenonT(60) DEF WorkerTypes
  <1>4. LocalTypes' /\ LocalAgrees'
    BY <1>1, <1>2, <1>3, LocalAdd
  <1>5. sandboxes' = [sandboxes EXCEPT ![w][t] = @ \cup {s}] /\ UNCHANGED lclass
    BY <1>2, ZenonT(60) DEF local_runqueue_mtds_add
  <1>6. GlobalTypes' /\ GlobalAgrees' /\ NoTimeouts' /\ KeepsGuarantee'
    BY <1>1, <1>2, <1>5, ZenonT(60) DEF GlobalTypes, GlobalAgrees, IInv, NoTimeouts, KeepsGuarantee
  <1>7. WorkerTypes'
    BY <1>1, <1>2, <1>3, ZenonT(60) DEF WorkerTypes
  <1>8. /\ state[s] = "INITIALIZED" /\ \A v \in Worker \ {w} : pulled[v] # s
        /\ \A v \in Worker, u \in Tenant : s \notin sandboxes[v][u]
        /\ \A u \in Tenant : s \notin requests[u]
    <2>1. s # NULL /\ state[s] = "INITIALIZED" /\ \A v \in Worker \ {w} : pulled[v] # s
      BY <1>3, MtdsAssumption DEF IInv, PlaceInv, PulledInv
    <2>2. \A v \in Worker, u \in Tenant : s \notin sandboxes[v][u]
      BY <2>1 DEF IInv, PlaceInv, SandboxesInv, Live
    <2>3. \A u \in Tenant : s \notin requests[u]
      BY DEF IInv, PlaceInv, RequestsInv
    <2> QED BY <2>1, <2>2, <2>3, ZenonT(60)
  <1> HIDE DEF s, t
  <1>9. PlaceInv'
    <2> USE <1>1, <1>2, <1>3, <1>5, <1>8 DEF GlobalTypes, LocalTypes, WorkerTypes
    <2>1. RequestsInv'
      BY MtdsAssumption DEF IInv, PlaceInv, RequestsInv
    <2>2. PulledInv'
      BY MtdsAssumption DEF IInv, PlaceInv, PulledInv
    <2>3. SandboxesInv'
      <3> SUFFICES ASSUME NEW v \in Worker, NEW u \in Tenant, NEW r \in sandboxes'[v][u]
                   PROVE  TenantOf[r] = u /\ state'[r] \in Live /\ \A x \in Worker \ {v} : r \notin sandboxes'[x][u]
        BY ZenonT(60) DEF SandboxesInv
      <3>1. CASE r = s
        BY <3>1, ZenonT(60) DEF Live, t
      <3>2. CASE r # s
        BY <3>2 DEF IInv, PlaceInv, SandboxesInv
      <3> QED BY <3>1, <3>2, ZenonT(60)
    <2>4. CurrentInv'
      BY DEF IInv, PlaceInv, CurrentInv
    <2>5. CoverInv'
      <3> SUFFICES ASSUME NEW r \in Sandbox
                   PROVE  /\ state'[r] = "INITIALIZED" => r \in requests'[TenantOf[r]] \/ \E v \in Worker : pulled'[v] = r
                          /\ state'[r] \in Live => \E v \in Worker : r \in sandboxes'[v][TenantOf[r]]
        BY ZenonT(60) DEF CoverInv
      <3>1. CASE r = s
        BY <3>1, ZenonT(60) DEF t
      <3>2. CASE r # s
        <4>1. state'[r] = state[r] /\ requests'[TenantOf[r]] = requests[TenantOf[r]]
          BY <3>2, ZenonT(60)
        <4>2. \A v \in Worker : pulled[v] = r => pulled'[v] = r
          BY <3>2, ZenonT(60) DEF s
        <4>3. \A v \in Worker : r \in sandboxes[v][TenantOf[r]] => r \in sandboxes'[v][TenantOf[r]]
          BY MtdsAssumption
        <4> QED BY <4>1, <4>2, <4>3, ZenonT(60) DEF IInv, PlaceInv, CoverInv
      <3> QED BY <3>1, <3>2, ZenonT(60)
    <2> QED BY <2>1, <2>2, <2>3, <2>4, <2>5, ZenonT(60) DEF PlaceInv
  <1> QED BY <1>4, <1>6, <1>7, <1>9, TypeParts DEF IInv

\* The sandbox that is run next is one of the worker's own, so that no other worker runs it.
LEMMA SwitchIInv ==
    ASSUME IInv, NEW w \in Worker, Switch(w)
    PROVE  IInv'
  <1> DEFINE n == local_runqueue_mtds_get_next(w)
  <1>1. GlobalTypes /\ LocalTypes /\ WorkerTypes /\ GlobalAgrees /\ LocalAgrees /\ KeepsGuarantee /\ SandboxesInv
    BY TypeParts, ZenonT(60) DEF IInv, PlaceInv
  <1>2. n # NULL => n \in Sandbox /\ n \in sandboxes[w][TenantOf[n]]
    BY <1>1, NextIs
  <1>3. /\ pc[w] = "choose" /\ pc' = [pc EXCEPT ![w] = IF n = NULL THEN "get_next" ELSE "module"]
        /\ local_runqueue_mtds_demote(w)
        /\ current' = [current EXCEPT ![w] = n]
        /\ state' = [s \in Sandbox |-> IF s = n THEN "RUNNING" ELSE IF s = current[w] THEN "PREEMPTED" ELSE state[s]]
        /\ UNCHANGED <<requests, guaranteed, default, mt_class, timeouts, remaining_budget, pulled, sandboxes, ltimeouts>>
    BY Zenon DEF Switch, AfterChoice, global
  <1> HIDE DEF n
  <1>4. LocalTypes' /\ LocalAgrees'
    BY <1>1, <1>3, LocalDemote, ZenonT(60)
  <1>5. GlobalTypes' /\ GlobalAgrees' /\ NoTimeouts'
    BY <1>1, <1>3, ZenonT(60) DEF GlobalTypes, GlobalAgrees, IInv, NoTimeouts
  <1>6. WorkerTypes'
    BY <1>1, <1>2, <1>3, ZenonT(60) DEF WorkerTypes
  <1>7. KeepsGuarantee'
    BY <1>1, <1>3, DemoteKeepsGuarantee, ZenonT(60) DEF WorkerTypes
  <1>8. /\ n # NULL => state[n] \in Live /\ \A v \in Worker \ {w} : n \notin sandboxes[v][TenantOf[n]]
        /\ current[w] # NULL => /\ state[current[w]] = "RUNNING"
                                /\ \A v \in Worker \ {w} : current[w] \notin sandboxes[v][TenantOf[current[w]]]
    <2>1. \A s \in Sandbox : s \in sandboxes[w][TenantOf[s]] =>
              state[s] \in Live /\ \A v \in Worker \ {w} : s \notin sandboxes[v][TenantOf[s]]
      BY <1>1, MtdsAssumption, ZenonT(60) DEF SandboxesInv
    <2>2. current[w] # NULL => /\ current[w] \in Sandbox /\ state[current[w]] = "RUNNING"
                               /\ current[w] \in sandboxes[w][TenantOf[current[w]]]
      BY <1>1 DEF IInv, PlaceInv, CurrentInv, WorkerTypes
    <2> QED BY <1>2, <2>1, <2>2, ZenonT(60)
  <1>9. PlaceInv'
    <2>1. \A s \in Sandbox : /\ state[s] \in Live <=> state'[s] \in Live
                             /\ state[s] = "INITIALIZED" <=> state'[s] = "INITIALIZED"
      BY <1>2, <1>3, <1>8, MtdsAssumption, ZenonT(60) DEF Live
    <2>2. RequestsInv'
      <3>1. \A t \in Tenant : requests[t] \subseteq Sandbox
        BY <1>1 DEF GlobalTypes
      <3>2. requests' = requests /\ pulled' = pulled
        BY <1>3
      <3>3. \A t \in Tenant : \A s \in requests[t] :
                TenantOf[s] = t /\ state[s] = "INITIALIZED" /\ \A v \in Worker : pulled[v] # s
        BY DEF IInv, PlaceInv, RequestsInv
      <3> QED BY <2>1, <3>1, <3>2, <3>3, Zenon DEF RequestsInv
    <2>3. PulledInv'
      BY <1>1, <1>3, <2>1 DEF IInv, PlaceInv, PulledInv, WorkerTypes
    <2>4. SandboxesInv'
      BY <1>1, <1>3, <2>1 DEF SandboxesInv, LocalTypes
    <2>5. CurrentInv'
      <3>1. ASSUME NEW v \in Worker, current'[v] # NULL
            PROVE  current'[v] \in sandboxes[v][TenantOf[current'[v]]] /\ state'[current'[v]] = "RUNNING"
        <4>1. CASE v = w
          BY <1>1, <1>2, <1>3, <3>1, <4>1, ZenonT(60) DEF WorkerTypes
        <4>2. CASE v # w
          <5>1. /\ current'[v] = current[v] /\ current[v] \in Sandbox
                /\ current[v] \in sandboxes[v][TenantOf[current[v]]] /\ state[current[v]] = "RUNNING"
            BY <1>1, <1>3, <3>1, <4>2 DEF IInv, PlaceInv, CurrentInv, WorkerTypes
          <5>2. current[v] # n /\ current[v] # current[w]
            BY <1>8, <4>2, <5>1, MtdsAssumption
          <5> QED BY <1>3, <5>1, <5>2, ZenonT(60)
        <4> QED BY <4>1, <4>2, ZenonT(60)
      <3>2. ASSUME NEW s \in Sandbox, state'[s] = "RUNNING" PROVE \E v \in Worker : current'[v] = s
        <4>1. CASE s = n
          BY <1>1, <1>3, <4>1, ZenonT(60) DEF WorkerTypes
        <4>2. CASE s # n
          <5>1. s # current[w] /\ state[s] = "RUNNING"
            BY <1>3, <3>2, <4>2, ZenonT(60)
          <5>2. PICK v \in Worker : current[v] = s
            BY <5>1, ZenonT(60) DEF IInv, PlaceInv, CurrentInv
          <5> QED BY <1>1, <1>3, <5>1, <5>2, ZenonT(60) DEF WorkerTypes
        <4> QED BY <4>1, <4>2, ZenonT(60)
      <3> QED BY <1>3, <3>1, <3>2 DEF CurrentInv
    <2>6. CoverInv'
      BY <1>3, <2>1 DEF IInv, PlaceInv, CoverInv
    <2> QED BY <2>2, <2>3, <2>4, <2>5, <2>6, ZenonT(60) DEF PlaceInv
  <1> QED BY <1>4, <1>5, <1>6, <1>7, <1>9, TypeParts DEF IInv

\* A system call charges the tenant.
LEMMA SyscallIInv ==
    ASSUME IInv, NEW w \in Worker, sandbox_syscall(w)
    PROVE  IInv'
  <1>1. GlobalTypes /\ LocalTypes /\ WorkerTypes /\ GlobalAgrees /\ LocalAgrees /\ KeepsGuarantee
    BY TypeParts, ZenonT(60) DEF IInv
  <1>2. /\ pc[w] = "module" /\ sandbox_process_scheduler_updates(current[w])
        /\ UNCHANGED <<requests, guaranteed, default, mt_class, timeouts, pc, pulled, current,
                       sandboxes, lguaranteed, ldefault, lclass, ltimeouts, state>>
    BY DEF sandbox_syscall, global, local, worker
  <1>3. current[w] \in Sandbox
    BY <1>1, <1>2, ZenonT(60) DEF WorkerTypes
  <1>4. /\ remaining_budget' \in [Tenant -> 0 .. MaxBudget]
        /\ \A t \in Tenant : remaining_budget[t] = 0 => remaining_budget'[t] = 0
    BY <1>1, <1>2, <1>3, ChargeSpends, ZenonT(60) DEF WorkerTypes
  <1>5. GlobalTypes' /\ GlobalAgrees' /\ LocalTypes' /\ LocalAgrees' /\ NoTimeouts'
    BY <1>1, <1>2, ZenonT(60) DEF GlobalTypes, GlobalAgrees, LocalTypes, LocalAgrees, IInv, NoTimeouts
  <1>6. WorkerTypes'
    BY <1>1, <1>2, <1>4, ZenonT(60) DEF WorkerTypes
  <1>7. KeepsGuarantee'
    BY <1>1, <1>2, <1>4, MtdsAssumption, ZenonT(60) DEF KeepsGuarantee
  <1>8. PlaceInv'
    BY <1>2, PlaceFrame, Zenon DEF IInv
  <1> QED BY <1>5, <1>6, <1>7, <1>8, TypeParts DEF IInv

\* The timer charges the tenant and promotes tenants on the worker.
LEMMA PreemptIInv ==
    ASSUME IInv, NEW w \in Worker, scheduler_preemptive_sched(w)
    PROVE  IInv'
  <1>1. GlobalTypes /\ LocalTypes /\ WorkerTypes /\ GlobalAgrees /\ LocalAgrees /\ KeepsGuarantee
    BY TypeParts DEF IInv
  <1>2. /\ pc[w] = "module" /\ pc' = [pc EXCEPT ![w] = "get_next"]
        /\ sandbox_process_scheduler_updates(current[w]) /\ local_timeout_queue_process_promotions(w)
        /\ UNCHANGED <<requests, guaranteed, default, mt_class, timeouts, pulled, current, state>>
    BY DEF scheduler_preemptive_sched, global
  <1>3. current[w] \in Sandbox
    BY <1>1, <1>2 DEF WorkerTypes
  <1>4. /\ remaining_budget' \in [Tenant -> 0 .. MaxBudget]
        /\ \A t \in Tenant : remaining_budget[t] = 0 => remaining_budget'[t] = 0
    BY <1>1, <1>2, <1>3, ChargeSpends, ZenonT(60) DEF WorkerTypes
  <1>5. GlobalTypes' /\ GlobalAgrees' /\ NoTimeouts'
    BY <1>1, <1>2 DEF GlobalTypes, GlobalAgrees, IInv, NoTimeouts
  <1>6. LocalTypes' /\ LocalAgrees'
    BY <1>1, <1>2, LocalPromote, ZenonT(60)
  <1>7. WorkerTypes'
    BY <1>1, <1>2, <1>4, ZenonT(60) DEF WorkerTypes
  <1>8. /\ UNCHANGED sandboxes
        /\ \A v \in Worker, t \in Tenant : lclass[v][t] = "GUARANTEED" => lclass'[v][t] = "GUARANTEED"
    BY <1>1, <1>2 DEF local_timeout_queue_process_promotions, LocalTypes
  <1>9. KeepsGuarantee'
    BY <1>1, <1>2, <1>4, <1>8, MtdsAssumption, ZenonT(60) DEF KeepsGuarantee
  <1>10. PlaceInv'
    BY <1>2, <1>8, PlaceFrame, Zenon DEF IInv
  <1> QED BY <1>5, <1>6, <1>7, <1>9, <1>10, TypeParts DEF IInv

\* A request that ends leaves the queues of its worker.
LEMMA ReturnIInv ==
    ASSUME IInv, NEW w \in Worker, sandbox_set_as_returned(w)
    PROVE  IInv'
  <1> DEFINE c == current[w]
             t == TenantOf[c]
  <1>1. GlobalTypes /\ LocalTypes /\ WorkerTypes /\ GlobalAgrees /\ LocalAgrees /\ KeepsGuarantee
    BY TypeParts DEF IInv
  <1>2. /\ pc[w] = "module" /\ pc' = [pc EXCEPT ![w] = "get_next"]
        /\ local_runqueue_mtds_delete(w, c) /\ sandbox_process_scheduler_updates(c)
        /\ state' = [state EXCEPT ![c] = "COMPLETE"] /\ current' = [current EXCEPT ![w] = NULL]
        /\ UNCHANGED <<requests, guaranteed, default, mt_class, timeouts, pulled>>
    BY DEF sandbox_set_as_returned, global
  <1>3. c \in Sandbox /\ t \in Tenant /\ c # NULL
    BY <1>1, <1>2, MtdsAssumption, ZenonT(60) DEF WorkerTypes
  <1>4. /\ remaining_budget' \in [Tenant -> 0 .. MaxBudget]
        /\ \A u \in Tenant : remaining_budget[u] = 0 => remaining_budget'[u] = 0
    BY <1>1, <1>2, <1>3, ChargeSpends DEF WorkerTypes
  <1>5. GlobalTypes' /\ GlobalAgrees' /\ NoTimeouts'
    BY <1>1, <1>2, ZenonT(60) DEF GlobalTypes, GlobalAgrees, IInv, NoTimeouts
  <1>6. LocalTypes' /\ LocalAgrees'
    BY <1>1, <1>2, <1>3, LocalDelete, ZenonT(60)
  <1>7. WorkerTypes'
    BY <1>1, <1>2, <1>3, <1>4, ZenonT(60) DEF WorkerTypes
  <1>8. /\ sandboxes' = [sandboxes EXCEPT ![w][t] = @ \ {c}]
        /\ \A v \in Worker, u \in Tenant : lclass[v][u] = "GUARANTEED" => lclass'[v][u] = "GUARANTEED"
    BY <1>1, <1>2, <1>3, ZenonT(60) DEF local_runqueue_mtds_delete, LocalTypes
  <1>9. KeepsGuarantee'
    BY <1>1, <1>2, <1>4, <1>8, MtdsAssumption, ZenonT(60) DEF KeepsGuarantee
  <1>10. /\ state[c] = "RUNNING" /\ c \in sandboxes[w][t]
         /\ \A v \in Worker \ {w} : c \notin sandboxes[v][t]
    BY <1>3, ZenonT(60) DEF IInv, PlaceInv, CurrentInv, SandboxesInv
  <1>11. \A v \in Worker \ {w} : current[v] # c
    BY <1>3, <1>10, ZenonT(60) DEF IInv, PlaceInv, CurrentInv
  <1> HIDE DEF c
  <1>12. PlaceInv'
    <2>1. state'[c] = "COMPLETE" /\ \A r \in Sandbox \ {c} : state'[r] = state[r]
      BY <1>1, <1>2, <1>3 DEF WorkerTypes
    <2>2. /\ \A v \in Worker, u \in Tenant : sandboxes'[v][u] \subseteq sandboxes[v][u]
          /\ \A v \in Worker, u \in Tenant, r \in Sandbox \ {c} : r \in sandboxes[v][u] => r \in sandboxes'[v][u]
          /\ c \notin sandboxes'[w][t]
      BY <1>1, <1>3, <1>8 DEF LocalTypes
    <2>3. current'[w] = NULL /\ \A v \in Worker \ {w} : current'[v] = current[v]
      BY <1>1, <1>2 DEF WorkerTypes
    <2>4. requests' = requests /\ pulled' = pulled
      BY <1>2
    <2>5. /\ \A u \in Tenant : requests[u] \subseteq Sandbox
          /\ \A v \in Worker, u \in Tenant : sandboxes[v][u] \subseteq Sandbox
          /\ \A v \in Worker : pulled[v] # NULL => pulled[v] \in Sandbox
          /\ \A v \in Worker : current[v] # NULL => current[v] \in Sandbox
      BY <1>1 DEF GlobalTypes, LocalTypes, WorkerTypes
    <2>6. RequestsInv'
      BY <1>10, <2>1, <2>4, <2>5 DEF IInv, PlaceInv, RequestsInv
    <2>7. PulledInv'
      <3>1. \A v \in Worker : pulled[v] # NULL =>
                state[pulled[v]] = "INITIALIZED" /\ \A x \in Worker \ {v} : pulled[x] # pulled[v]
        BY DEF IInv, PlaceInv, PulledInv
      <3>2. \A v \in Worker : pulled[v] # NULL => state'[pulled[v]] = "INITIALIZED"
        BY <1>10, <2>1, <2>5, <3>1
      <3> QED BY <2>4, <3>1, <3>2 DEF PulledInv
    <2>8. SandboxesInv'
      <3> SUFFICES ASSUME NEW v \in Worker, NEW u \in Tenant, NEW r \in sandboxes'[v][u]
                   PROVE  TenantOf[r] = u /\ state'[r] \in Live /\ \A x \in Worker \ {v} : r \notin sandboxes'[x][u]
        BY DEF SandboxesInv
      <3>1. r \in sandboxes[v][u] /\ TenantOf[r] = u /\ state[r] \in Live /\ \A x \in Worker \ {v} : r \notin sandboxes[x][u]
        BY <2>2 DEF IInv, PlaceInv, SandboxesInv
      <3>2. r # c
        BY <1>10, <2>2, <3>1
      <3> QED BY <2>1, <2>2, <2>5, <3>1, <3>2
    <2>9. CurrentInv'
      <3>1. ASSUME NEW v \in Worker, current'[v] # NULL
            PROVE  current'[v] \in sandboxes'[v][TenantOf[current'[v]]] /\ state'[current'[v]] = "RUNNING"
        <4>1. v # w /\ current'[v] = current[v] /\ current[v] \in Sandbox \ {c}
          BY <1>11, <2>3, <2>5, <3>1
        <4>2. current[v] \in sandboxes[v][TenantOf[current[v]]] /\ state[current[v]] = "RUNNING"
          BY <3>1, <4>1 DEF IInv, PlaceInv, CurrentInv
        <4>3. TenantOf[current[v]] \in Tenant
          BY <4>1, MtdsAssumption
        <4> QED BY <2>1, <2>2, <4>1, <4>2, <4>3
      <3>2. ASSUME NEW s \in Sandbox, state'[s] = "RUNNING" PROVE \E v \in Worker : current'[v] = s
        <4>1. s # c /\ state[s] = "RUNNING"
          BY <2>1, <3>2
        <4>2. PICK v \in Worker : current[v] = s
          BY <4>1 DEF IInv, PlaceInv, CurrentInv
        <4> QED BY <2>3, <4>1, <4>2 DEF c
      <3> QED BY <3>1, <3>2 DEF CurrentInv
    <2>10. CoverInv'
      <3> SUFFICES ASSUME NEW r \in Sandbox
                   PROVE  /\ state'[r] = "INITIALIZED" => r \in requests'[TenantOf[r]] \/ \E v \in Worker : pulled'[v] = r
                          /\ state'[r] \in Live => \E v \in Worker : r \in sandboxes'[v][TenantOf[r]]
        BY DEF CoverInv
      <3>1. CASE r = c
        BY <2>1, <3>1 DEF Live
      <3>2. CASE r # c
        <4>1. state'[r] = state[r] /\ TenantOf[r] \in Tenant
          BY <2>1, <3>2, MtdsAssumption
        <4> QED BY <2>2, <2>4, <3>2, <4>1 DEF IInv, PlaceInv, CoverInv
      <3> QED BY <3>1, <3>2
    <2> QED BY <2>6, <2>7, <2>8, <2>9, <2>10, Zenon DEF PlaceInv
  <1> QED BY <1>5, <1>6, <1>7, <1>9, <1>12, TypeParts DEF IInv

\* The global timeout queue is empty, so that the kernel's alarm promotes nobody.
LEMMA KernelIInv ==
    ASSUME IInv, sigalrm_kernel
    PROVE  IInv'
  <1>1. GlobalTypes /\ LocalTypes /\ WorkerTypes /\ GlobalAgrees /\ LocalAgrees /\ timeouts = {}
    BY TypeParts DEF IInv, NoTimeouts
  <1>2. UNCHANGED <<pc, pulled, current, sandboxes, lguaranteed, ldefault, lclass, ltimeouts, state>>
    BY ZenonT(60) DEF sigalrm_kernel, worker, local
  <1>3. /\ mt_class' = [t \in Tenant |-> mt_class[t]]
        /\ remaining_budget' = [t \in Tenant |-> remaining_budget[t]]
        /\ UNCHANGED <<requests, guaranteed, default, timeouts>>
    BY <1>1 DEF sigalrm_kernel, global_timeout_queue_process_promotions
  <1>4. mt_class' = mt_class /\ remaining_budget' = remaining_budget
    BY <1>1, <1>3, ZenonT(60) DEF GlobalTypes, WorkerTypes
  <1>5. GlobalTypes' /\ GlobalAgrees' /\ LocalTypes' /\ LocalAgrees'
    BY <1>1, <1>2, <1>3, <1>4 DEF GlobalTypes, GlobalAgrees, LocalTypes, LocalAgrees
  <1>6. WorkerTypes' /\ NoTimeouts' /\ KeepsGuarantee'
    BY <1>1, <1>2, <1>3, <1>4, ZenonT(60) DEF WorkerTypes, IInv, NoTimeouts, KeepsGuarantee
  <1>7. PlaceInv'
    BY <1>2, <1>3, PlaceFrame, Zenon DEF IInv
  <1> QED BY <1>5, <1>6, <1>7, TypeParts DEF IInv

-----------------------------------------------------------------------------
(***************************************************************************)
(* The theorems.                                                           *)
(***************************************************************************)
\* The inductive invariant.
THEOREM MtdsInvariant == Spec => []IInv
  <1>1. IInv /\ UNCHANGED vars => IInv'
    <2> SUFFICES ASSUME IInv, UNCHANGED vars PROVE IInv'
      OBVIOUS
    <2>1. UNCHANGED <<requests, guaranteed, default, mt_class, timeouts, remaining_budget, pc, pulled, current,
                      sandboxes, lguaranteed, ldefault, lclass, ltimeouts, state>>
      BY ZenonT(60) DEF vars, global, worker, local
    <2>2. TypeOK' /\ NoTimeouts' /\ GlobalAgrees' /\ LocalAgrees' /\ KeepsGuarantee'
      BY <2>1, ZenonT(60) DEF IInv, TypeOK, NoTimeouts, GlobalAgrees, LocalAgrees, KeepsGuarantee
    <2>3. PlaceInv'
      BY <2>1, PlaceFrame, Zenon DEF IInv
    <2> QED BY <2>2, <2>3 DEF IInv
  <1>2. IInv /\ Next => IInv'
    <2> SUFFICES ASSUME IInv, Next PROVE IInv'
      OBVIOUS
    <2>1. ASSUME NEW s \in Sandbox, global_request_scheduler_mtds_add(s) PROVE IInv'
      BY <2>1, AddIInv
    <2>2. ASSUME NEW w \in Worker, Schedule(w) PROVE IInv'
      BY <2>2, GetNextIInv, PeekIInv, RemoveIInv, RunnableIInv, SwitchIInv, Zenon DEF Schedule
    <2>3. ASSUME NEW w \in Worker, sandbox_syscall(w) \/ scheduler_preemptive_sched(w) \/ sandbox_set_as_returned(w)
          PROVE  IInv'
      BY <2>3, SyscallIInv, PreemptIInv, ReturnIInv, Zenon
    <2>4. CASE sigalrm_kernel
      BY <2>4, KernelIInv
    <2> QED BY <2>1, <2>2, <2>3, <2>4, Zenon DEF Next
  <1> QED BY InitIInv, <1>1, <1>2, PTL DEF Spec

\* The global queues of tenants agree with the requests and the classes: a delete from the heap of
\* a class finds the tenant, and a worker that is given a tenant finds a request.
THEOREM GlobalQueuesAgree == Spec => []GlobalAgrees
  BY MtdsInvariant, PTL DEF IInv

\* The queues of every worker agree with its sandboxes, the classes and the timeouts, so that the
\* assert of the promotions holds.
THEOREM LocalQueuesAgree == Spec => []LocalAgrees
  BY MtdsInvariant, PTL DEF IInv

\* A paying tenant is treated as default only with its budget spent.
THEOREM GuaranteeKept == Spec => []KeepsGuarantee
  BY MtdsInvariant, PTL DEF IInv

\* Two workers never have the same request as current, in hand or in their queues.
Exclusive ==
    \A w, v \in Worker : w # v =>
        /\ current[w] # NULL => current[w] # current[v]
        /\ pulled[w] # NULL => pulled[w] # pulled[v]
        /\ \A t \in Tenant : sandboxes[w][t] \cap sandboxes[v][t] = {}

\* A request is run by one worker: what scheduler_mtds_get_next pulls, and what Switch runs, is the
\* worker's own, although workers decide on peeks that they made without the lock.
THEOREM RequestsAreExclusive == Spec => []Exclusive
  <1>1. IInv => Exclusive
    <2> SUFFICES ASSUME IInv, NEW w \in Worker, NEW v \in Worker, w # v
                 PROVE  /\ current[w] # NULL => current[w] # current[v]
                        /\ pulled[w] # NULL => pulled[w] # pulled[v]
                        /\ \A t \in Tenant : sandboxes[w][t] \cap sandboxes[v][t] = {}
      BY ZenonT(60) DEF Exclusive
    <2>1. \A t \in Tenant : sandboxes[w][t] \cap sandboxes[v][t] = {}
      BY ZenonT(60) DEF IInv, PlaceInv, SandboxesInv
    <2>2. current[w] # NULL => current[w] # current[v]
      BY <2>1, MtdsAssumption DEF IInv, PlaceInv, CurrentInv, TypeOK
    <2>3. pulled[w] # NULL => pulled[w] # pulled[v]
      BY ZenonT(60) DEF IInv, PlaceInv, PulledInv
    <2> QED BY <2>1, <2>2, <2>3, ZenonT(60)
  <1> QED BY <1>1, MtdsInvariant, PTL

\* No request is lost between the queues: one that was accepted and is not complete is in its
\* tenant's global queue, in a worker's hand or in a worker's queue of its tenant.
THEOREM RequestsAreKept == Spec => []CoverInv
  BY MtdsInvariant, PTL DEF IInv, PlaceInv

=============================================================================
