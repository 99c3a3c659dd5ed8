------------------------------ MODULE Instance ------------------------------
(***************************************************************************)
(* What a sandbox executes in: its linear memory, its stack, its globals   *)
(* and the thread-local copy of them that compiled modules work on.        *)
(*                                                                         *)
(* sledge_abi__current_wasm_module_instance (cache[w] here) caches, for    *)
(* the sandbox that is current on worker w, the descriptor of its linear   *)
(* memory, its table, its WASI context and its global 0.  The compiled     *)
(* code reads and writes the cache only; current_sandbox_set fills it,     *)
(* memory.grow and a preemption write it back.  Linear memories and stacks *)
(* are recycled through pools, one per module and worker, without a lock.  *)
(*                                                                         *)
(* Which sandbox a worker runs next is left open: every scheduling policy  *)
(* picks one from its run queue.  Sizes are counted in WebAssembly pages;  *)
(* a product page_count * WASM_PAGE_SIZE is computed in 32 bits.           *)
(***************************************************************************)
EXTENDS Integers, Sequences, FiniteSets, FiniteSetsExt, Functions

CONSTANTS
    Worker,          \* worker threads
    Sandbox,         \* addresses of struct sandbox (reused after sandbox_free)
    Module,          \* the modules the configuration names
    RuntimeGlobals,  \* those compiled with --runtime-globals
    StartingPages,   \* StartingPages[m]: abi.starting_pages
    MaxPages,        \* abi.max_pages
    PageWrap,        \* 2^32 / WASM_PAGE_SIZE
    GlobalsLen,      \* abi.globals_len
    Grow,            \* arguments of memory.grow
    Assigned,        \* the globals that the modules' code assigns
    DatabaseCapacity,\* MODULE_DATABASE_CAPACITY
    MemoryBound,     \* bound on the linear memories that are ever mapped
    NULL

ASSUME InstanceAssumption ==
    /\ IsFiniteSet(Worker) /\ IsFiniteSet(Sandbox) /\ IsFiniteSet(Module)
    /\ NULL \notin Sandbox \cup Module
    /\ RuntimeGlobals \subseteq Module
    /\ MaxPages \in Nat /\ PageWrap \in Nat \ {0} /\ MaxPages <= PageWrap
    /\ StartingPages \in [Module -> 1 .. MaxPages]
    /\ GlobalsLen \in Nat \ {0}
    /\ Grow \subseteq Nat
    /\ Assigned \subseteq 0 .. GlobalsLen - 1

VARIABLES
    loaded,     \* module_database: the modules module_alloc has returned
    references, \* module->reference_count
    state,      \* sandbox->state
    phase,      \* how far current_sandbox_start has come
    module,     \* sandbox->module
    memory,     \* sandbox->memory: a linear memory or 0
    stack,      \* sandbox->stack # NULL
    globals,    \* sandbox->globals
    context,    \* sandbox->wasi_context # NULL
    mems,       \* the struct wasm_memory allocated so far
    stacks,     \* number of struct wasm_stack a worker has allocated so far for a module
    mempool,    \* module->pools[w].memory
    stackpool,  \* module->pools[w].stack, only their number
    cache,      \* sledge_abi__current_wasm_module_instance of each worker
    current,    \* worker_thread_current_sandbox
    exiting,    \* the finished sandbox whose stack the worker is still on
    runq,       \* the local run queue
    cleanup,    \* the local cleanup queue
    truth       \* what the module of a sandbox has stored so far (history)

modules   == <<loaded, references>>
sandboxes == <<state, phase, module, memory, stack, globals, context, truth>>
pools     == <<mems, stacks, mempool, stackpool>>
threads   == <<cache, current, exiting, runq, cleanup>>
vars      == <<modules, sandboxes, pools, threads>>

State == {"NONE", "INITIALIZED", "RUNNABLE", "RUNNING_SYS", "RUNNING_USER", "PREEMPTED",
          "RETURNED", "COMPLETE", "ERROR"}
Phase == {"start", "globals", "user"}

\* A global holds 0, 0xDEADBEEF or what a sandbox has stored in it: its first value or a later
\* one.  A page is all zeros (NULL) or holds data of a sandbox; the data carries a mark (history)
\* that says whether it was stored within the size its memory had then, or beyond it.
Zero   == <<NULL, 0>>
Beef   == <<NULL, 1>>
Value  == {Zero, Beef} \cup (Sandbox \X {1, 2})
Page   == 0 .. MaxPages - 1
Strays == Sandbox \X {"beyond"}
Data   == {NULL} \cup (Sandbox \X {"within"}) \cup Strays
Global == 0 .. GlobalsLen - 1

Blank      == [p \in Page |-> NULL]
Unused     == [type |-> "UNUSED", value |-> Zero]
NoMemory   == [size |-> 0, capacity |-> 0, buffer |-> 0]
NoInstance == [memory |-> NoMemory, table |-> NULL, g0 |-> Zero, context |-> NULL]
Nothing    == [size |-> 0, pages |-> Blank, globals |-> <<>>]

Init ==
    /\ loaded = {}
    /\ references = [m \in Module |-> 0]
    /\ state = [s \in Sandbox |-> "NONE"]
    /\ phase = [s \in Sandbox |-> "start"]
    /\ module = [s \in Sandbox |-> NULL]
    /\ memory = [s \in Sandbox |-> 0]
    /\ stack = [s \in Sandbox |-> FALSE]
    /\ globals = [s \in Sandbox |-> [i \in Global |-> Unused]]
    /\ context = [s \in Sandbox |-> FALSE]
    /\ mems = <<>>
    /\ stacks = [m \in Module |-> [w \in Worker |-> 0]]
    /\ mempool = [m \in Module |-> [w \in Worker |-> <<>>]]
    /\ stackpool = [m \in Module |-> [w \in Worker |-> 0]]
    /\ cache = [w \in Worker |-> [NoInstance EXCEPT !.g0 = Beef]]
    /\ current = [w \in Worker |-> NULL]
    /\ exiting = [w \in Worker |-> NULL]
    /\ runq = [w \in Worker |-> {}]
    /\ cleanup = [w \in Worker |-> {}]
    /\ truth = [s \in Sandbox |-> Nothing]

-----------------------------------------------------------------------------
(***************************************************************************)
(* Modules: loaded by the main thread, counted by the sandboxes.           *)
(***************************************************************************)
\* module_init: no references and empty pools.  The table is filled through the main thread's
\* own instance, whose table is NULL before and after: no worker's cache changes.
module_init(m) ==
    /\ references' = [references EXCEPT ![m] = 0]
    /\ mempool' = [mempool EXCEPT ![m] = [w \in Worker |-> <<>>]]
    /\ stackpool' = [stackpool EXCEPT ![m] = [w \in Worker |-> 0]]

\* A full database is a panic.
module_database_add(m) ==
    /\ Cardinality(loaded) < DatabaseCapacity
    /\ loaded' = loaded \cup {m}

\* A path is loaded once (module_database_find_by_path in tenant_init).
module_alloc(m) ==
    /\ m \notin loaded
    /\ module_init(m)
    /\ module_database_add(m)
    /\ UNCHANGED <<sandboxes, mems, stacks, threads>>

module_acquire(m) == references' = [references EXCEPT ![m] = @ + 1]

\* Mutant: the release of a sandbox that trapped is forgotten.
ReleasesSuccessOnly(S) ==
    references' = [m \in Module |->
        references[m] - Cardinality({s \in S : module[s] = m /\ state[s] = "COMPLETE"})]

\* module_release for each of the sandboxes in S.
module_release(S) ==
    references' = [m \in Module |-> references[m] - Cardinality({s \in S : module[s] = m})]

(***************************************************************************)
(* Linear memories and stacks.  A memory is its descriptor (size and       *)
(* capacity) and the content of its pages.                                 *)
(***************************************************************************)
wasm_memory_init(initial) == [size |-> initial, capacity |-> initial, pages |-> Blank]

\* The 32-bit product page_count * WASM_PAGE_SIZE, in pages.
Bytes32(pages) == pages % PageWrap

\* The capacity is the high-water mark of all executions that used the memory.
wasm_memory_expand(abi, target) == [abi EXCEPT !.size = target, !.capacity = Max({@, target})]

\* Mutant: only the pages the module started with are cleared.
ClearsStartOnly(i, initial) ==
    [mems[i] EXCEPT !.size = initial,
                    !.pages = [p \in Page |-> IF p < initial THEN NULL ELSE @[p]]]

\* memset of the first size bytes; the capacity stays what earlier executions made it.
wasm_memory_reinit(i, initial) ==
    [mems[i] EXCEPT !.size = initial,
                    !.pages = [p \in Page |-> IF p < mems[i].size THEN NULL ELSE @[p]]]

\* The pool a thread uses: pools[worker_thread_idx].
pool_of(w) == w

\* Mutant: the memory is handed out but stays in the pool.
PeeksPool(pool) == pool

\* pool_remove_nolock: the most recently freed object.
pool_remove_nolock(pool) == Tail(pool)

\* pool_add_nolock adds at the head of the list.
pool_add_nolock(pool, i) == <<i>> \o pool

\* From the pool of the worker, or a new mapping of the pages the module starts with.
module_allocate_linear_memory(w, s) ==
    LET m    == module[s]
        v    == pool_of(w)
        pool == mempool[m][v]
    IN  \/ /\ pool # <<>>
           /\ memory' = [memory EXCEPT ![s] = Head(pool)]
           /\ mempool' = [mempool EXCEPT ![m][v] = pool_remove_nolock(pool)]
           /\ UNCHANGED mems
        \/ /\ pool = <<>> /\ Len(mems) < MemoryBound
           /\ memory' = [memory EXCEPT ![s] = Len(mems) + 1]
           /\ mems' = Append(mems, wasm_memory_init(StartingPages[m]))
           /\ UNCHANGED mempool

\* A new mapping with its guard page.
wasm_stack_alloc(m, w) == stacks' = [stacks EXCEPT ![m][w] = @ + 1]

module_allocate_stack(w, s) ==
    LET m == module[s]
        v == pool_of(w)
    IN  /\ stack' = [stack EXCEPT ![s] = TRUE]
        /\ \/ /\ stackpool[m][v] > 0
              /\ stackpool' = [stackpool EXCEPT ![m][v] = @ - 1]
              /\ UNCHANGED stacks
           \/ /\ stackpool[m][v] = 0
              /\ wasm_stack_alloc(m, w)
              /\ UNCHANGED stackpool

\* sandbox_free_linear_memory: back to the pool of the worker the thread is.
sandbox_free_linear_memory(w, s) ==
    LET m == module[s]
    IN  /\ mems' = [mems EXCEPT ![memory[s]] = wasm_memory_reinit(memory[s], Bytes32(StartingPages[m]))]
        /\ mempool' = [mempool EXCEPT ![m][pool_of(w)] = pool_add_nolock(@, memory[s])]
        /\ memory' = [memory EXCEPT ![s] = 0]

(***************************************************************************)
(* The cached module instance.                                             *)
(***************************************************************************)
Descriptor(i) == [size |-> mems[i].size, capacity |-> mems[i].capacity, buffer |-> i]

\* Mutant: the cached global 0 is kept whoever becomes current.
KeepsCached(w, n) == cache[w].g0

\* Global 0 of a sandbox that has never stored one is left as it is in the cache.
wasm_globals_update_if_used(w, n) ==
    IF globals[n][0].type = "UNUSED" THEN cache[w].g0 ELSE globals[n][0].value

\* current_sandbox_set, for a sandbox and for NULL.
current_sandbox_set(w, n) ==
    /\ current' = [current EXCEPT ![w] = n]
    /\ cache' = [cache EXCEPT ![w] =
           IF n = NULL THEN NoInstance
           ELSE [memory  |-> Descriptor(memory[n]),
                 table   |-> module[n],
                 g0      |-> wasm_globals_update_if_used(w, n),
                 context |-> IF context[n] THEN n ELSE NULL]]

\* Mutant: the descriptor is not written back.
NoWriteback(w) == UNCHANGED mems

\* memcpy of the cached descriptor, already changed, over sandbox->memory->abi.
current_sandbox_memory_writeback(w) ==
    LET abi == cache'[w].memory
    IN  mems' = [mems EXCEPT ![memory[current[w]]] =
                    [size |-> abi.size, capacity |-> abi.capacity, pages |-> @.pages]]

\* wasm_globals_set_i64(&s->globals, 0, wasmg_0): what the schedulers do before they leave s.
write_back_global_0(w, s) ==
    globals' = [globals EXCEPT ![s][0] = [type |-> "I64", value |-> cache[w].g0]]

\* Global 0 lives in the cache, the others in the sandbox, behind a call into the runtime.
get_global(w, i) == IF i = 0 THEN cache[w].g0 ELSE globals[current[w]][i].value

set_global(w, i, v) ==
    IF i = 0
    THEN cache' = [cache EXCEPT ![w].g0 = v] /\ UNCHANGED globals
    ELSE globals' = [globals EXCEPT ![current[w]][i] = [type |-> "I32", value |-> v]] /\ UNCHANGED cache

-----------------------------------------------------------------------------
(***************************************************************************)
(* A sandbox is allocated by the listener and prepared by the worker that  *)
(* pulls it: in the idle loop or the cooperative scheduler, when nothing   *)
(* is current, or in the SIGALRM handler, which interrupts user code.      *)
(***************************************************************************)
sandbox_alloc(s, m) ==
    /\ state[s] = "NONE"
    /\ m \in loaded
    /\ state' = [state EXCEPT ![s] = "INITIALIZED"]
    /\ module' = [module EXCEPT ![s] = m]
    /\ module_acquire(m)
    /\ UNCHANGED <<loaded, phase, memory, stack, globals, context, truth, pools, threads>>

sandbox_prepare_execution_environment(w, s) ==
    /\ current[w] # NULL => state[current[w]] = "RUNNING_USER"
    /\ state[s] = "INITIALIZED"
    /\ state' = [state EXCEPT ![s] = "RUNNABLE"]
    /\ globals' = [globals EXCEPT ![s] = [i \in Global |-> Unused]]
    /\ module_allocate_linear_memory(w, s)
    /\ module_allocate_stack(w, s)
    /\ runq' = [runq EXCEPT ![w] = @ \cup {s}]
    /\ truth' = [truth EXCEPT ![s].size = StartingPages[module[s]]]
    /\ UNCHANGED <<modules, phase, module, context, cache, current, exiting, cleanup>>

(***************************************************************************)
(* Switches.                                                               *)
(***************************************************************************)
Dispatched(n) == IF state[n] = "RUNNABLE" THEN "RUNNING_SYS" ELSE "RUNNING_USER"

\* scheduler_preemptive_sched, when the policy picks another sandbox than the interrupted one.
scheduler_preemptive_sched(w, n) ==
    LET s == current[w]
    IN  /\ s # NULL /\ n \in runq[w] \ {s}
        /\ state[s] = "RUNNING_USER"
        /\ write_back_global_0(w, s)
        /\ current_sandbox_set(w, n)
        /\ state' = [state EXCEPT ![s] = "PREEMPTED", ![n] = Dispatched(n)]
        /\ UNCHANGED <<modules, phase, module, memory, stack, context, truth, pools, exiting, runq, cleanup>>

\* What the cooperative scheduler does once next_sandbox is known.
leave_exiting(w) ==
    /\ exiting' = [exiting EXCEPT ![w] = NULL]
    /\ \/ exiting[w] = NULL /\ UNCHANGED <<globals, cleanup>>
       \/ /\ exiting[w] # NULL
          /\ write_back_global_0(w, exiting[w])
          /\ cleanup' = [cleanup EXCEPT ![w] = @ \cup {exiting[w]}]

scheduler_cooperative_switch_to(w, n) ==
    /\ current[w] = NULL
    /\ n \in runq[w]
    /\ leave_exiting(w)
    /\ current_sandbox_set(w, n)
    /\ state' = [state EXCEPT ![n] = Dispatched(n)]
    /\ UNCHANGED <<modules, phase, module, memory, stack, context, truth, pools, runq>>

\* module_free_stack for each of the sandboxes in S.
module_free_stack(w, S) ==
    stackpool' = [m \in Module |-> [stackpool[m] EXCEPT ![pool_of(w)] =
        @ + Cardinality({s \in S : module[s] = m})]]

\* sandbox_free of every sandbox in the cleanup queue.
local_cleanup_queue_free(w) ==
    LET S == cleanup[w]
        Reset(f, x) == [s \in Sandbox |-> IF s \in S THEN x ELSE f[s]]
    IN  /\ module_release(S)
        /\ module_free_stack(w, S)
        /\ stack' = Reset(stack, FALSE)
        /\ globals' = Reset(globals, [i \in Global |-> Unused])
        /\ context' = Reset(context, FALSE)
        /\ module' = Reset(module, NULL)
        /\ phase' = Reset(phase, "start")
        /\ truth' = Reset(truth, Nothing)
        /\ cleanup' = [cleanup EXCEPT ![w] = {}]

\* The idle loop when there is nothing to run: get_next returned NULL.
scheduler_idle_loop(w) ==
    /\ current[w] = NULL /\ exiting[w] = NULL
    /\ runq[w] = {} /\ cleanup[w] # {}
    /\ local_cleanup_queue_free(w)
    /\ state' = [s \in Sandbox |-> IF s \in cleanup[w] THEN "NONE" ELSE state[s]]
    /\ UNCHANGED <<loaded, memory, mems, stacks, mempool, cache, current, exiting, runq>>

scheduler_switch_to_base_context(w) ==
    /\ exiting[w] # NULL /\ runq[w] = {}
    /\ leave_exiting(w)
    /\ UNCHANGED <<modules, state, phase, module, memory, stack, context, truth, pools, cache, current, runq>>

-----------------------------------------------------------------------------
(***************************************************************************)
(* What the sandbox that is current on worker w does.                      *)
(***************************************************************************)
Executes(w, st, ph) == current[w] # NULL /\ state[current[w]] = st /\ phase[current[w]] = ph

\* What sandbox s stores at page p of a memory of this size.
Datum(s, p, size) == <<s, IF p < size THEN "within" ELSE "beyond">>

\* current_sandbox_init up to sandbox_return: the data segment, then the WASI context.
current_sandbox_init(w) ==
    LET s == current[w]
    IN  /\ Executes(w, "RUNNING_SYS", "start")
        /\ mems' = [mems EXCEPT ![cache[w].memory.buffer].pages[0] = Datum(s, 0, cache[w].memory.size)]
        /\ truth' = [truth EXCEPT ![s].pages[0] = Datum(s, 0, cache[w].memory.size)]
        /\ context' = [context EXCEPT ![s] = TRUE]
        /\ cache' = [cache EXCEPT ![w].context = s]
        /\ state' = [state EXCEPT ![s] = "RUNNING_USER"]
        /\ phase' = [phase EXCEPT ![s] = "globals"]
        /\ UNCHANGED <<modules, module, memory, stack, globals, stacks, mempool, stackpool,
                       current, exiting, runq, cleanup>>

\* populate_globals, one global at a time: it runs in user state and can be preempted.
module_initialize_globals(w) ==
    LET s == current[w]
        i == Len(truth[s].globals)
    IN  /\ Executes(w, "RUNNING_USER", "globals")
        /\ \/ /\ module[s] \in RuntimeGlobals /\ i < GlobalsLen
              /\ set_global(w, i, <<s, 1>>)
              /\ truth' = [truth EXCEPT ![s].globals = Append(@, <<s, 1>>)]
              /\ UNCHANGED phase
           \/ /\ module[s] \in RuntimeGlobals => i = GlobalsLen
              /\ phase' = [phase EXCEPT ![s] = "user"]
              /\ UNCHANGED <<cache, globals, truth>>
        /\ UNCHANGED <<modules, state, module, memory, stack, context, pools, current, exiting, runq, cleanup>>

\* global.set in the module's code.
instruction_global_set(w, i) ==
    LET s == current[w]
    IN  /\ Executes(w, "RUNNING_USER", "user")
        /\ module[s] \in RuntimeGlobals
        /\ set_global(w, i, <<s, 2>>)
        /\ truth' = [truth EXCEPT ![s].globals[i + 1] = <<s, 2>>]
        /\ UNCHANGED <<modules, state, phase, module, memory, stack, context, pools,
                       current, exiting, runq, cleanup>>

\* A store has no bounds check: it succeeds up to the capacity, which earlier users of the memory
\* may have made larger than the size.  Beyond that it is a fault: current_sandbox_wasm_trap_handler.
instruction_store(w, p) ==
    LET s == current[w]
    IN  /\ Executes(w, "RUNNING_USER", "user")
        /\ p < cache[w].memory.capacity
        /\ mems' = [mems EXCEPT ![cache[w].memory.buffer].pages[p] = Datum(s, p, cache[w].memory.size)]
        /\ truth' = [truth EXCEPT ![s].pages[p] = Datum(s, p, cache[w].memory.size)]
        /\ UNCHANGED <<modules, state, phase, module, memory, stack, globals, context, stacks, mempool,
                       stackpool, threads>>

\* memory.grow; beyond max it returns -1 and changes nothing.
sledge_abi__wasm_memory_expand(w, pages) ==
    LET s      == current[w]
        target == cache[w].memory.size + Bytes32(pages)
    IN  /\ Executes(w, "RUNNING_USER", "user")
        /\ target <= MaxPages
        /\ cache' = [cache EXCEPT ![w].memory = wasm_memory_expand(@, target)]
        /\ current_sandbox_memory_writeback(w)
        /\ truth' = [truth EXCEPT ![s].size = @ + pages]
        /\ UNCHANGED <<modules, state, phase, module, memory, stack, globals, context, stacks, mempool,
                       stackpool, current, exiting, runq, cleanup>>

\* current_sandbox_fini and current_sandbox_wasm_trap_handler, up to the release of the memory.
finish(w, last) ==
    LET s == current[w]
    IN  /\ Executes(w, "RUNNING_USER", "user")
        /\ state' = [state EXCEPT ![s] = last]
        /\ runq' = [runq EXCEPT ![w] = @ \ {s}]
        /\ sandbox_free_linear_memory(w, s)
        /\ UNCHANGED <<modules, phase, module, stack, globals, context, truth, stacks, stackpool,
                       cache, current, exiting, cleanup>>
current_sandbox_fini(w) == finish(w, "RETURNED")
current_sandbox_wasm_trap_handler(w) == finish(w, "ERROR")

\* The rest of current_sandbox_exit, up to scheduler_get_next.
current_sandbox_exit(w) ==
    LET s == current[w]
    IN  /\ s # NULL /\ state[s] \in {"RETURNED", "ERROR"}
        /\ current_sandbox_set(w, NULL)
        /\ exiting' = [exiting EXCEPT ![w] = s]
        /\ local_cleanup_queue_free(w)
        /\ state' = [t \in Sandbox |-> IF t = s /\ state[s] = "RETURNED" THEN "COMPLETE"
                                       ELSE IF t \in cleanup[w] THEN "NONE" ELSE state[t]]
        /\ UNCHANGED <<loaded, memory, mems, stacks, mempool, runq>>

Next ==
    \/ \E m \in Module : module_alloc(m)
    \/ \E s \in Sandbox, m \in Module : sandbox_alloc(s, m)
    \/ \E w \in Worker :
        \/ \E s \in Sandbox : \/ sandbox_prepare_execution_environment(w, s)
                              \/ scheduler_preemptive_sched(w, s)
                              \/ scheduler_cooperative_switch_to(w, s)
        \/ scheduler_idle_loop(w)
        \/ scheduler_switch_to_base_context(w)
        \/ current_sandbox_init(w)
        \/ module_initialize_globals(w)
        \/ \E i \in Assigned : instruction_global_set(w, i)
        \/ \E p \in Page : instruction_store(w, p)
        \/ \E n \in Grow : sledge_abi__wasm_memory_expand(w, n)
        \/ current_sandbox_fini(w)
        \/ current_sandbox_wasm_trap_handler(w)
        \/ current_sandbox_exit(w)

Spec == Init /\ [][Next]_vars

-----------------------------------------------------------------------------
\* What a linear memory, the cached instance and the history of a sandbox consist of.
LinearMemory == [size : 0 .. MaxPages, capacity : 1 .. MaxPages, pages : [Page -> Data]]
Cached       == [memory : [size : 0 .. MaxPages, capacity : 0 .. MaxPages, buffer : Nat],
                 table : Module \cup {NULL}, g0 : Value, context : Sandbox \cup {NULL}]
History      == [size : Nat, pages : [Page -> Data], globals : Seq(Value)]

\* Every variable has its type.
TypeOK ==
    /\ loaded \subseteq Module
    /\ references \in [Module -> 0 .. Cardinality(Sandbox)]
    /\ state \in [Sandbox -> State]
    /\ phase \in [Sandbox -> Phase]
    /\ module \in [Sandbox -> Module \cup {NULL}]
    /\ mems \in Seq(LinearMemory)
    /\ memory \in [Sandbox -> 0 .. Len(mems)]
    /\ stack \in [Sandbox -> BOOLEAN]
    /\ globals \in [Sandbox -> [Global -> [type : {"UNUSED", "I32", "I64"}, value : Value]]]
    /\ context \in [Sandbox -> BOOLEAN]
    /\ stacks \in [Module -> [Worker -> Nat]]
    /\ mempool \in [Module -> [Worker -> Seq(1 .. Len(mems))]]
    /\ stackpool \in [Module -> [Worker -> Nat]]
    /\ cache \in [Worker -> Cached]
    /\ current \in [Worker -> Sandbox \cup {NULL}]
    /\ exiting \in [Worker -> Sandbox \cup {NULL}]
    /\ runq \in [Worker -> SUBSET Sandbox]
    /\ cleanup \in [Worker -> SUBSET Sandbox]
    /\ truth \in [Sandbox -> History]

\* While a sandbox executes, the copy of its memory descriptor, table and WASI context that
\* the compiled code works on (sledge_abi__current_wasm_module_instance) is its own and up to
\* date, whatever switches, growths and recycled memories came before.
CacheIsCurrent ==
    \A w \in Worker :
        LET s == current[w]
        IN  IF s = NULL THEN [cache[w] EXCEPT !.g0 = Zero] = NoInstance
            ELSE state[s] \in {"RUNNING_SYS", "RUNNING_USER"} =>
                    /\ cache[w].memory = Descriptor(memory[s])
                    /\ cache[w].table = module[s]
                    /\ cache[w].context = IF context[s] THEN s ELSE NULL

\* A sandbox reads back the globals it stored, global 0 included, which is kept in the
\* cache while it runs and must survive any number of preemptions by other sandboxes.
KeepsItsGlobals ==
    \A w \in Worker : \A s \in runq[w] : \A i \in 1 .. Len(truth[s].globals) :
        truth[s].globals[i] = IF current[w] = s THEN get_global(w, i - 1) ELSE globals[s][i - 1].value

\* A sandbox has the number of pages it has grown to, finds what it stored itself as it stored it,
\* and elsewhere zeros, or data that an earlier user of the recycled memory stored beyond the size
\* the memory had then: wasm_memory_reinit clears up to the size, stores reach up to the capacity.
\* What an earlier user stored within its size is never found.  (For growths whose size in bytes
\* does not wrap: a product of sledge_abi__wasm_memory_expand that wraps to 0 succeeds without
\* growing.)
KeepsItsMemory ==
    \A s \in Sandbox : memory[s] # 0 =>
        LET own == truth[s].pages
            now == mems[memory[s]].pages
        IN  /\ mems[memory[s]].size = truth[s].size
            /\ \A p \in Page : now[p] = own[p] \/ (own[p] = NULL /\ now[p] \in Strays)

\* Worker w has sandbox s in its hands.
Owns(w, s) == s \in runq[w] \/ s \in cleanup[w] \/ s = current[w] \/ s = exiting[w]

Pooled(i) == {x \in Module \X Worker : \E k \in DOMAIN mempool[x[1]][x[2]] : mempool[x[1]][x[2]][k] = i}

\* Linear memories and stacks are neither lost nor shared: each memory is held by exactly one
\* sandbox or is once in exactly one pool; and the stacks that a worker has mapped for a module are
\* those of the module's sandboxes in its hands and those in its pool.
OneHolder ==
    /\ \A i \in DOMAIN mems : Cardinality({s \in Sandbox : memory[s] = i}) + Cardinality(Pooled(i)) = 1
    /\ \A m \in Module, w \in Worker : Cardinality(Range(mempool[m][w])) = Len(mempool[m][w])
    /\ \A m \in Module, w \in Worker :
           stacks[m][w] = Cardinality({s \in Sandbox : stack[s] /\ module[s] = m /\ Owns(w, s)})
                            + stackpool[m][w]

\* A module's reference count is the number of sandboxes that have been allocated for it and
\* not freed: it can neither underflow in module_release nor stay positive for ever.
ReferencesAreSandboxes ==
    \A m \in Module : references[m] = Cardinality({s \in Sandbox : module[s] = m})

=============================================================================
