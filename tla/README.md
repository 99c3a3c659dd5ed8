# SLEdge in TLA+

A verification project for the SLEdge serverless runtime (`src/runtime`): TLA+
modules of its parts, TLC runs on small instances, and TLAPS proofs for every
value of the constants.

## 1. The system

SLEdge is one process. A **listener** thread owns the sockets: it accepts
connections, receives and parses HTTP requests, finds the route, applies
admissions control, allocates a sandbox per request and puts it on the **global
request queue**. A number of **worker** threads, one per core, pull sandboxes
from that queue into their thread-local **run queue**, run the compiled
WebAssembly function on the sandbox's own stack, answer the client and free the
sandbox. An interval timer sends **SIGALRM**; its handler runs on the workers,
may preempt the sandbox in user code, and is deferred while the sandbox is in a
system call. Under the default policy (EDF) the queues are min-heaps ordered by
absolute deadline. Under FIFO the global queue is a lock-free deque; under MTDS
tenants have budgets and the requests of those with budget left go first. A module
works on a thread-local copy of its sandbox's memory descriptor and calls the
runtime through WASI and a scratch storage that the sandboxes of a tenant share.

| Part | Source (under `src/runtime`) | Module |
|---|---|---|
| Worker scheduler, context switches | `include/scheduler.h`, `src/current_sandbox.c`, `src/arch/` | `Scheduler` |
| Software interrupts | `src/software_interrupt.c`, `include/software_interrupt.h` | `Scheduler` |
| Sandbox lifecycle | `src/sandbox.c`, `include/sandbox_set_as_*.h` | `Scheduler`, `SandboxLifecycle` |
| Cleanup queue | `src/local_cleanup_queue.c` | `Scheduler` |
| Heaps of both queues | `include/priority_queue.h`, `src/*_minheap.c` | `PriorityQueue`, `OrderedQueue` |
| Listener and HTTP sessions | `src/listener_thread.c`, `include/http_session.h`, `include/tcp_session.h` | `HttpSession` |
| HTTP parser callbacks | `src/http_parser_settings.c`, `include/http_session.h` | `HttpRequest` |
| Admissions control | `src/admissions_control.c`, `src/admissions_info.c` | `Admissions` |
| Window of execution times | `include/perf_window.h` | `PerfWindow` |
| FIFO policy | `include/deque.h`, `src/local_runqueue_list.c`, `include/scheduler.h` | `Fifo`, `FifoQueue` |
| MTDS policy | `src/global_request_scheduler_mtds.c`, `src/local_runqueue_mtds.c` | `Mtds` |
| Linear memory, globals, stacks, pools, modules | `include/wasm_memory.h`, `include/wasm_globals.h`, `include/pool.h`, `include/module.h` | `Instance` |
| WASI | `src/sledge_abi.c`, `src/libc/wasi_impl_serverless.c`, `include/wasi_serdes.h` | `Wasi` |
| Scratch storage | `src/sledge_abi.c`, `include/map.h` | `Map`, `SledgeAbi` |

`PROJECT.json` lists every part, those that are not modelled included, and maps
each definition to the lines it stands for.

## 2. The modules

**Scheduler.** `pc[w]` is where worker `w` executes; `exec[w]` is the context
whose stack it is on; `intr[w]` remembers the interrupted `pc` while a handler
runs. One action is one step that another thread or a signal can observe:
`scheduler_edf_get_next` is peek, remove under the lock, prepare, set as
runnable, because a signal or another worker may come in between. The heaps are
sets ordered by deadline (justified by `PriorityQueue`). A failed assertion of
the code is `Aborted`: the process stops there. `SandboxLifecycle` is the
abstract state machine of one sandbox; `ImplementsLifecycle` is the refinement.

**PriorityQueue** is the array heap one loop iteration at a time, with
`highest_priority`, the memoized head that other threads read without the lock.
It implements **OrderedQueue**, a set from which the least element is taken.

**HttpSession** is the hand-over of a session between listener and workers:
nonblocking receive and send, registration with epoll when a call would block,
removal when the event arrives. Texts are abstracted to lengths in bytes.

**HttpRequest** is one request as a sequence of tokens that the network cuts into
pieces; the callbacks of http-parser see a token in as many parts as it was cut
into. http-parser itself is external.

**Admissions** is the admitted total as an atomic counter without a lock.
**PerfWindow** is the sliding window a route's estimate is read from; `Admissions`
extends it, because every completed execution updates the window and with it the
estimate later requests are admitted by.

**Fifo** has one step per access to shared memory of `deque_push` and
`deque_steal`, so that every stale read of `top` and `bottom` happens. The rest of
a worker's loop is private to it. A full deque aborts the process, because the
listener frees a sandbox that `sandbox_free` does not accept. It implements
**FifoQueue**, an atomic queue.

**Mtds** has the global and the per-worker queues of tenants in the guaranteed and
the default class. What a lock protects is one step; the peek before it and the
charging of budgets by other workers are steps of their own. The clock is a choice
of the timeouts that have passed, and budgets are compared with 0 only.

**Instance** is what a sandbox executes in: linear memory, stack, globals, and the
thread-local copy (`cache[w]`) that compiled code works on, through preemption,
growth, traps and recycling. A store is not checked against the size of the memory: only
beyond the capacity, the high-water mark of the mapping, does it fault. A page holds who
stored to it last, and whether within or beyond the size at that time. Any runnable sandbox of a worker may be next, so it
covers every policy. Page counts keep the wrap-around of the 32-bit product.

**Wasi** is what a module's calls copy between linear memory and the request or
response, byte by byte over a memory of a few bytes. **SledgeAbi** adds the scratch
storage over **Map**, the chained hash map; a get takes two steps, because it copies
after the bucket is unlocked. `latest` is a history variable: the value last stored
under each hash. `Undefined` stands for any bytes: those of an entry that was deleted or
upserted while a get copies it.

Each module defines a type invariant `TypeOK`. Those of `Scheduler`,
`PriorityQueue`, `Fifo`, `Mtds`, `HttpSession`, `Admissions` and `Instance` are
proved with the inductive invariants; the others state the types for the reader.
None is listed in a configuration.

A component's proofs are in the module of its name with `Proofs` at the end
(`SchedulerProofs`, `PriorityQueueProofs`, `FifoProofs`, `MtdsProofs`,
`HttpSessionProofs`, `AdmissionsProofs`, `InstanceProofs`, `SledgeAbiProofs`);
`SchedulerInvariant` holds the invariant of `Scheduler`, which is the longest. The
modules whose names begin with `MC` give the constants their values for TLC.

Operators whose comment starts with "Mutant" are not used by a specification.
Each is a plausible mistake in the definition after it; substituted for that
definition it breaks the property it is listed with in `PROJECT.json`.

## 3. Runs

| Run | Instance | Shows |
|---|---|---|
| `edf` | 2 workers, 2 sandboxes, broadcast SIGALRM, request queue of 1, preparation may fail | no sandbox is lost or held twice, or freed under the thread on its stack; the assertions outside the two known failures; EDF order; refinement of the lifecycle |
| `live` | 1 worker, 2 sandboxes, triaged SIGALRM, `pause()` | an urgent request is picked up even if no module returns; if modules terminate every request is answered |
| `idle` | 2 workers, 2 sandboxes, triaged SIGALRM, `pause()`, modules that never return | a worker asleep in `pause()` picks up queued work |
| `heap` | 7 elements, priorities equal in pairs | the unlocked peek overlooks no element, refinement of `OrderedQueue` |
| `session` | 2 session addresses, 1 worker, request queue of 1, allocations may fail | one holder per session, fresh events, in-order and whole responses, sessions end |
| `request` | requests at and beyond every limit, with an `&` in the URL, behind it or both, cut in any pieces | values are whole, limits refuse, a request whose header section arrives whole is parsed as sent, but for the last parameters if an `&` follows the URL |
| `admissions` | 3 sandboxes, 2 workers, window of 4, 8 executions | the window holds the latest executions and gives the right percentile; the admitted total equals what is in flight, below the capacity |
| `fifo` | 2 workers, 3 sandboxes, deque of 2 | no sandbox is lost or taken twice, refinement of `FifoQueue`, every sandbox is served unless the full deque aborts the process |
| `mtds` | 2 workers, a paying tenant and another, 3 sandboxes, budget of 1 | tenants are in the queues of their class, none with budget left is treated as default, every request is served |
| `instance` | 2 workers, 2 modules, 2 sandbox addresses, up to 2 pages | a sandbox executes on its own memory and globals, a recycled memory keeps nothing that was stored within its size, pools lose and share nothing, reference counts are exact |
| `abi` | 34 bytes of memory, 2 sandboxes, 3 keys in 1 bucket, 2 of them with one hash | stdin, stdout and arguments arrive whole and in order, no byte outside the buffers changes, a get gives what was last stored under the hash of its key, a call changes one entry |
| `full` | | counterexample, see section 6 |

`RunningIsCurrent`, `NoDeferredInUserCode`, `NoMigration`, `PreemptedByEarlier`,
`AnsweredOnce`, `HeadIsEarliest` and `HoldsOne` are proved for every value of the
constants (section 4) and not repeated in a run.

Bounds. A sandbox is only ever touched by the listener and the one worker that
pulled it, so races need two workers that compete for one head of the queue; two
sandboxes let one run, preempt or be preempted while the other is pulled, and a
queue of one is full while it is used. Two deadlines, which may be
equal, give every comparison both ways; the proofs cover all other sizes. The
two-worker liveness run has modules that stay in their code, which is the case
in which nothing but a signal helps. Seven elements fill three levels of the
heap, so that both children and both directions of percolation occur. Two
session addresses are enough for one to be freed and reused while events of the
same batch are pending; a header of one byte and bodies of up to two make every
write complete, partial or blocked. A window of four cells has both ends and an
inside, and eight executions go round its circular buffer. Three sandboxes and a
deque of two make it full, empty and contended, and the third push meets a `top`
that has moved; `DEQUE_MAX_SZ` bounds the pushes. In `mtds` a budget of one is spent
by the first of two requests of the paying tenant, so that the second one is found
through a demotion while the other tenant competes. In `instance` a module starts
with the largest memory and one grows to it, and two sandbox addresses on two
workers are preempted, freed and reused; `MemoryBound` caps how many memories are
mapped. In `abi` the buffers are split, empty, larger than what is left and out of
bounds, and `Plan` bounds the calls: one sandbox makes four WASI calls alone, two
make three calls each on the storage, or both kinds are mixed. A byte has four
values, so that sizes need several bytes.

Deadlock is checked except where the process may really stop: after an abort
(`edf`, `full`, `session`, `instance`), and at the end of a request, of the executions
counted or of the calls planned (`request`, `admissions`, `abi`).

Fairness. Workers and the listener are threads of the operating system, so their
steps are weakly fair. The interval timer keeps expiring and the kernel delivers
pending signals. A handler run is short against the quantum, so a thread that is
interrupted again and again gets on with the code the signals interrupt (strong
fairness of its steps outside the handler). Nothing is assumed of the modules;
`EveryRequestAnswered` states their termination as its premise
(`ModulesTerminate`). Sessions are claimed to end for clients that do not stall
for ever, which is strong fairness of receiving and sending. In `fifo` the listener
finishes a push it has begun, and workers take steps. In `mtds` workers schedule and
the timer expires (weak fairness), and a module gets on between interrupts and
returns (strong fairness of `sandbox_set_as_returned`), which is the premise of
`EventuallyServed`.

## 4. Proofs

All safety properties of the runs but those of `HttpRequest` and `Wasi` are proved
for every value of the constants. The assumptions are the named `ASSUME`s of the
modules, which the runs evaluate: special values are none of the sets they stand
beside, capacities and sizes are natural numbers, and what the code indexes by is in
range. Where a theorem needs more, the hypothesis is in its statement; two do
(`~AnyDelete` and `NoWrap`, below).

| Component | Properties proved |
|---|---|
| `Scheduler` | `OnePlace`, `StackAlive`, `AssertionsHold`, `RunsEarliest`, `ImplementsLifecycle`; also `RunningIsCurrent`, `NoDeferredInUserCode`, `AnsweredOnce`, `PreemptedByEarlier`, `NoMigration` |
| `PriorityQueue` | `PeekOverlooksNothing`, `ImplementsOrderedQueue`; also `HeadIsEarliest` |
| `Fifo` | `OnePlace`, `IsQueue`; also `HoldsOne` |
| `Mtds` | `GlobalAgrees`, `LocalAgrees`, `KeepsGuarantee`; also that a request is in one place and is never lost |
| `HttpSession` | `OneHolder`, `EventsAreFresh`, `InOrder`, `WholeResponse` |
| `Admissions`, `PerfWindow` | `SlidingWindow`, `PercentileIsRight`, `WithinCapacity`, `TotalIsInFlight`; also that the assert of `admissions_control_subtract` holds |
| `Instance` | `CacheIsCurrent`, `KeepsItsGlobals`, `KeepsItsMemory`, `OneHolder`, `ReferencesAreSandboxes` |
| `SledgeAbi`, `Map` | `GetGivesLatest`, `OneEntryChanges` |

None of these properties is inductive as it stands. What each proof adds, and why:

**Scheduler.** That a sandbox is in one place only holds because `pc`, `inhand`,
`current`, `exec` and `ctxt` agree with the state of the sandbox at each program
point. `IInv` (in `SchedulerInvariant`) says which stack the thread is on at each
point, which sandbox is current and in which state, and for every state of a sandbox
which structure holds it. It is local: an action of worker `w` changes only the part
about `w` and the sandboxes it holds, and the `Frame` lemma covers the others.
`LifecycleRefinement` shows from it that every step of a worker, a handler or the
listener is one transition of one sandbox in `SandboxLifecycle`, or none.

**PriorityQueue.** Every element but the one in motion is not earlier than its
parent. That the root is the earliest follows along the path to the root. The
theorems assume `~AnyDelete`: only the first element is ever deleted. Under EDF that
is so because what runs is strictly earlier than the rest of its run queue
(`RunsEarliest`, proved); for the MTDS policy it is not (section 6).

**Fifo.** What `deque_push` and `deque_steal` have read may be old, but only in one
direction. `bottom` is moved by the listener alone, so a push uses the current one; a
stealer's `top` can only be behind, and then its compare-and-swap fails; an entry
below `bottom` never changes, so the copy that a successful compare-and-swap confirms
is the entry at `top`. The successful compare-and-swaps are then the operations of an
atomic queue and every other step is a stutter (`DequeIsQueue`), and each request is
in exactly one place (`SandboxesHaveOnePlace`).

**Mtds.** The queues of tenants hold a tenant exactly when there are requests of it,
in the queue of its class. That a delete finds its entry, and that the head of a queue
has a request, needs both directions for the global and the local queues together, and
that the global timeout queue is empty, because nothing is ever added to it
(`NoTimeouts`). `PlaceInv` adds where each request is.

**HttpSession.** No lock protects a session: `OneHolder` is what makes a step of one
thread invisible to the others. It holds because the position in the handlers says
which state the session is in (`ThreadAt`), and the state says how far the response is
and whether the session is registered (`SessionAt`); neither is inductive without the
other. The bytes the client has are those up to the two counters, which makes
`InOrder` inductive.

**Admissions.** While the window is being sorted, all nodes but the one being shifted
are in order, the two arrays are inverse to each other, and the circular buffer leads
to the latest executions. The total is a sum over the requests in flight
(`TotalIsInFlight`); since the listener loaded it, workers have only subtracted from
it, which gives `WithinCapacity` and the assert.

**Instance.** The properties are about single fields, and are kept because of who may
touch what. `IInv` says what a sandbox has in each state, that it is in the hands of
one worker, that every linear memory has one holder, what the cache holds of the
current sandbox and what each sandbox finds in its globals. `ContentInv` adds what the
clearing of a recycled memory leaves: only pages beyond the size, and on them only what
was stored there when it was beyond the size. That is so because a size only grows while
a sandbox has the memory, so that what was stored within it is within the size when it
is cleared. It assumes `NoWrap`: the product of a number of pages with the page size does
not wrap (section 6). `ReferenceInv` and `StackInv` add the counters: the references
of a module are its sandboxes, and the stacks that a worker has mapped for a module
are those of the sandboxes in its hands and those in its pool. With them the type
invariant is proved too (`TypesAreRight`): no counter falls below zero.

**SledgeAbi.** No chain has two nodes with one hash, `map_get` finds under a hash the
latest value or nothing, and a pointer that a get is about to copy from leads to what
`map_get` would find, or is `Undefined` (`ScratchInv`). That a hash has one node is what
makes a delete remove all of an entry: an older node behind it would come to light with
an older value. That one call changes one entry is about the first node of a hash in a
chain, before and after the call.

Where a statement needs induction (the root of the heap, least deadlines, sums over
the requests in flight, the first node of a hash) the proofs take a least
counterexample, from the well-foundedness of the natural numbers or of the subsets of
a finite set (`WFMin`).

Only model-checked:
- liveness (`UrgentIsPickedUp`, `EveryRequestAnswered`, `IdleWorkerPicksUp`,
  `SessionsEnd`, and `EventuallyServed` of `Fifo` and `Mtds`), which needs fairness
  and what is enabled;
- `HttpRequest`: what a request cut into pieces is put together to is a recursion over
  the tokens, which is induction over data;
- `Wasi` (`StdinIsBody`, `StdoutInOrder`, `ArgsAsSent`, `NoStrayBytes`): what a call
  copies is a fold over a list of buffers and over the bytes of each, for the same
  reason.

The bounds of section 3 (`MemoryBound`, `Plan`, `MaxCount`, `DEQUE_MAX_SZ`) are
constants of the models, so that the theorems hold for every value of them.

## 5. Not modelled

- The spin lock (`lock.h`): a critical section is one step of the models.
- The MTDBF policy: a stub whose `get_next` returns NULL.
- Configuration, start-up, construction of tenants and routes: they run once, on one
  thread, before the listener and the workers exist.
- Logs and counters (written, never read), and the metrics server, which formats
  them.
- The instructions of `libsledge` other than stores and those that touch memory size
  and globals: arithmetic and loads, without state of their own.
- The save and restore of registers, aarch64, and the applications.
- In `Fifo`: a preparation that fails, and the reordering of plain loads on weakly
  ordered hosts.
- In `HttpRequest` and `Wasi`: a POST or PUT without Content-Length, whose `body_length`
  is -1 (`http_parser_settings.c:206`). A body has a length of at least 0 in both.
- In `Wasi`: a `calloc` that fails inside a call. `check_bounds` (`sledge_abi.c:32`)
  accepts every vector of buffers that is shorter than a page of 64 KiB, as all of the
  model are.

## 6. Findings

The run `full` ends in a counterexample: freeing a sandbox that did not fit the queue
fails the assertions of `sandbox_free`, and no 429 is sent. `PROJECT.json` quotes the
line it contradicts.

The following is part of the models and has no run of its own.

Scheduling:
- `scheduler_edf_get_next` ignores the return code of preparation and then asserts
  that the sandbox is initialized (`scheduler.h:125`): `Scheduler` aborts there.
- Deleting an inner element of the heap percolates its replacement down only
  (`priority_queue.h:415`). With `AnyDelete = TRUE` and eight elements the head is no
  longer the earliest. EDF deletes the first element only; MTDS deletes others, and
  `Mtds` takes its heaps as exact.
- `deque_push` decides that the deque is full with an old `top` (`deque.h:59`), so the
  listener may abort with room in it. `bottom` never wraps, so that the array ends
  after `DEQUE_MAX_SZ` pushes in all (`deque.h:61`).
- Under FIFO a worker holds one sandbox, so "Execute Round Robin Scheduling Logic"
  (`scheduler.h:149`) never rotates.
- `global_timeout_queue_add` (`global_request_scheduler_mtds.c:253`) has no caller:
  the global timeout queue stays empty, a budget is never replenished and a global
  demotion is permanent, although `tenant.h:46` speaks of "cycles left till next
  replenishment". For the same reason the promotions that would take the global lock
  in the signal handler never happen.

Requests and admission:
- A header name that arrives in two pieces is continued in the entry after its own
  (`http_parser_settings.c:132`), and every piece of a URL replaces the one before it
  (line 43): `ParsedAsSent` requires the header section to arrive whole.
- The search for the `&` that ends a parameter goes on behind the URL
  (`http_parser_settings.c:49`): an `&` in a header or in the body, in the same read, is
  taken for a separator. The last parameter of the URL then extends to it and others may
  follow. `ParsedAsSent` says what is right all the same: the parameters that an `&` of
  the URL ends, and where those of the URL start; without such an `&`, all of them.
- Admitted work is not given back when there is no memory for a sandbox
  (`listener_thread.c:246`): `TotalIsInFlight` counts it as `unused`.
- A failed allocation of a session, or of its buffers, is not seen by the caller
  (`listener_thread.c:184`, `http_session.h:101`): the model stops there.

Modules:
- `memory.grow` by a number of pages whose product with the page size wraps to 0
  succeeds without growing. The run `instance` grows by amounts that do not wrap; with
  `PageWrap` in `Grow`, TLC finds a module that was told of memory it does not have.
- Stores between the size and the capacity of a memory are not refused
  (`memory_instructions.c:66`), and the clearing of a recycled memory covers its size only
  (`wasm_memory.h:133`): they are found by the sandbox that gets the memory next.
  `KeepsItsMemory` excepts exactly these.
- `environ_get` frees a pointer it has not initialised when there is no environment.
- A buffer that ends at the last byte of memory fails the strict comparison of
  `get_memory_ptr_for_runtime`.
- `map_set`, `map_delete` and `map_upsert` lock with a node they have not
  initialised; `map_delete` removes the second node of a chain whatever its hash and
  reads through a null pointer in an empty bucket (`map.h:143`); a get copies after
  the lock is released (`sledge_abi.c:1079`).
- `map_get` and the others compare hashes, never keys (`map.h:73`): a get may give the
  value of another key with the same hash. `GetGivesLatest` is about hashes.
- `map_upsert` of an empty value over a present one calls `realloc` with 0, which gives
  the value back, and fails the assertion behind it (`map.h:169`).
