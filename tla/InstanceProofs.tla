--------------------------- MODULE InstanceProofs ---------------------------
(***************************************************************************)
(* Proofs about Instance, for any number of workers, sandboxes, modules,   *)
(* pages and globals.                                                      *)
(*                                                                         *)
(* The properties are about single fields: a cached descriptor, a global,  *)
(* a page.  They are kept because of who may touch what: a sandbox is in   *)
(* the hands of one worker, a linear memory has one holder, and a worker   *)
(* changes only the cache of its own and the sandboxes in its hands.  The  *)
(* inductive invariant IInv says so.  ContentInv adds what the pages hold, *)
(* ReferenceInv and StackInv add the counters of the modules.              *)
(***************************************************************************)
EXTENDS Instance, TLAPS

USE ZenonT(60)

Fresh   == {"NONE", "INITIALIZED"}
Queued  == {"RUNNABLE", "PREEMPTED", "RUNNING_SYS", "RUNNING_USER"}
Running == {"RUNNING_SYS", "RUNNING_USER"}
Ended   == {"COMPLETE", "ERROR"}

\* TypeOK but for the counters, which are the subject of the last part of the module.
Typed ==
    /\ loaded \subseteq Module
    /\ state \in [Sandbox -> State]
    /\ phase \in [Sandbox -> Phase]
    /\ module \in [Sandbox -> Module \cup {NULL}]
    /\ mems \in Seq(LinearMemory)
    /\ memory \in [Sandbox -> 0 .. Len(mems)]
    /\ stack \in [Sandbox -> BOOLEAN]
    /\ globals \in [Sandbox -> [Global -> [type : {"UNUSED", "I32", "I64"}, value : Value]]]
    /\ context \in [Sandbox -> BOOLEAN]
    /\ mempool \in [Module -> [Worker -> Seq(1 .. Len(mems))]]
    /\ cache \in [Worker -> Cached]
    /\ current \in [Worker -> Sandbox \cup {NULL}]
    /\ exiting \in [Worker -> Sandbox \cup {NULL}]
    /\ runq \in [Worker -> SUBSET Sandbox]
    /\ cleanup \in [Worker -> SUBSET Sandbox]
    /\ truth \in [Sandbox -> History]

\* What a sandbox has in each state.
StateInv ==
    \A s \in Sandbox :
        /\ state[s] = "NONE" <=> module[s] = NULL
        /\ module[s] # NULL => module[s] \in loaded
        /\ memory[s] # 0 <=> state[s] \in Queued
        /\ stack[s] <=> state[s] \notin Fresh
        /\ state[s] \in Fresh => truth[s] = Nothing

\* The sandboxes of worker w: the current one, the one that exits and those in its queues.
Thread(w) ==
    /\ current[w] # NULL => \/ current[w] \in runq[w] /\ state[current[w]] \in Running
                            \/ state[current[w]] \in {"RETURNED", "ERROR"}
    /\ exiting[w] # NULL => current[w] = NULL /\ state[exiting[w]] \in Ended
    /\ \A s \in runq[w] : state[s] \in Queued /\ (state[s] \in Running => current[w] = s)
    /\ \A s \in cleanup[w] : state[s] \in Ended /\ s # current[w] /\ s # exiting[w]

\* No sandbox is in the hands of two workers.
ThreadInv ==
    /\ \A w \in Worker : Thread(w)
    /\ \A v, w \in Worker : \A s \in Sandbox : Owns(v, s) /\ Owns(w, s) => v = w

\* CacheIsCurrent for one worker.
CacheAt(w) ==
    LET s == current[w]
    IN  IF s = NULL THEN [cache[w] EXCEPT !.g0 = Zero] = NoInstance
        ELSE state[s] \in Running =>
                /\ cache[w].memory = Descriptor(memory[s])
                /\ cache[w].table = module[s]
                /\ cache[w].context = IF context[s] THEN s ELSE NULL

\* KeepsItsGlobals for one sandbox; and one that has stored a global and is not current has its
\* global 0 in its own globals.
GlobalsOf(w, s) ==
    /\ Len(truth[s].globals) <= GlobalsLen
    /\ current[w] # s /\ Len(truth[s].globals) > 0 => globals[s][0].type # "UNUSED"
    /\ \A i \in 1 .. Len(truth[s].globals) :
           truth[s].globals[i] = IF current[w] = s THEN get_global(w, i - 1) ELSE globals[s][i - 1].value

GlobalsAt(w) == \A s \in runq[w] : GlobalsOf(w, s)

\* Sequence q contains i, and contains nothing twice.
Contains(q, i) == \E j \in DOMAIN q : q[j] = i

Distinct(q) == \A j, l \in DOMAIN q : q[j] = q[l] => j = l

\* Memory i is in the pool of module m and worker w; it is held by that pool or by a sandbox.
InPool(i, m, w) == Contains(mempool[m][w], i)

Held(i, k, x, y) == \/ k = "sandbox" /\ x \in Sandbox /\ y = 0 /\ memory[x] = i
                    \/ k = "pool" /\ x \in Module /\ y \in Worker /\ InPool(i, x, y)

OneHeld(i) ==
    /\ \E k, x, y : Held(i, k, x, y)
    /\ \A k, x, y, l, u, v : Held(i, k, x, y) /\ Held(i, l, u, v) => k = l /\ x = u /\ y = v

\* Every linear memory has one holder, and is in a pool only once.
MemoryInv ==
    /\ \A i \in 1 .. Len(mems) : OneHeld(i)
    /\ \A m \in Module, w \in Worker : Distinct(mempool[m][w])
    /\ \A m \in Module, w \in Worker : m \notin loaded => mempool[m][w] = <<>>

\* The control part of the invariant, on which the others rest.
IInv == /\ Typed /\ StateInv /\ ThreadInv /\ MemoryInv
        /\ (\A w \in Worker : CacheAt(w)) /\ (\A w \in Worker : GlobalsAt(w))

-----------------------------------------------------------------------------
(***************************************************************************)
(* What the data structures do.                                            *)
(***************************************************************************)
\* The larger of two numbers.
LEMMA LargerOfTwo ==
    ASSUME NEW a \in Nat, NEW b \in Nat
    PROVE  Max({a, b}) \in {a, b} /\ Max({a, b}) >= a /\ Max({a, b}) >= b
  <1>1. \E x \in {a, b} : \A y \in {a, b} : x >= y
    BY SMT
  <1>2. Max({a, b}) \in {a, b} /\ \A y \in {a, b} : Max({a, b}) >= y
    BY <1>1 DEF Max
  <1> QED BY <1>2

\* A product that wraps is smaller; a small one does not wrap.
LEMMA Bytes32Is ==
    ASSUME NEW n \in Nat
    PROVE  Bytes32(n) \in Nat /\ Bytes32(n) <= n /\ (n < PageWrap => Bytes32(n) = n)
  BY InstanceAssumption, SMT DEF Bytes32

\* Sequences are functions on an initial segment of the naturals.
LEMMA SeqIs ==
    ASSUME NEW S, NEW q \in Seq(S)
    PROVE  Len(q) \in Nat /\ DOMAIN q = 1 .. Len(q) /\ \A n \in 1 .. Len(q) : q[n] \in S
  BY SMT

\* One sequence behind another.
LEMMA ConcatIs ==
    ASSUME NEW S, NEW q \in Seq(S), NEW p \in Seq(S)
    PROVE  /\ q \o p \in Seq(S) /\ Len(q \o p) = Len(q) + Len(p)
           /\ \A i \in 1 .. Len(q) + Len(p) : (q \o p)[i] = IF i <= Len(q) THEN q[i] ELSE p[i - Len(q)]
  BY SMT

\* A sequence with another value at one place.
LEMMA SeqUpdate ==
    ASSUME NEW S, NEW q \in Seq(S), NEW i \in 1 .. Len(q), NEW r \in S, NEW p, p = [q EXCEPT ![i] = r]
    PROVE  /\ p \in Seq(S) /\ Len(p) = Len(q) /\ p[i] = r
           /\ \A j \in 1 .. Len(q) : j # i => p[j] = q[j]
  BY SMT

-----------------------------------------------------------------------------
(***************************************************************************)
(* The sandbox that executes, and what its steps do to its linear memory.  *)
(***************************************************************************)
\* The sandbox that executes on a worker is in its run queue and has a linear memory, which the
\* cached descriptor describes.
LEMMA CurrentIs ==
    ASSUME IInv, NEW w \in Worker, current[w] # NULL, state[current[w]] \in Running
    PROVE  /\ current[w] \in Sandbox /\ current[w] \in runq[w]
           /\ module[current[w]] \in Module /\ module[current[w]] \in loaded
           /\ memory[current[w]] \in 1 .. Len(mems)
           /\ mems[memory[current[w]]] \in LinearMemory
           /\ cache[w].memory = Descriptor(memory[current[w]])
           /\ cache[w].memory.buffer = memory[current[w]]
           /\ cache[w].memory.size = mems[memory[current[w]]].size
           /\ cache[w].memory.capacity = mems[memory[current[w]]].capacity
           /\ 0 \in Page
  <1>1. current[w] \in Sandbox /\ current[w] \in runq[w]
    BY DEF IInv, Typed, ThreadInv, Thread, Running
  <1>2. module[current[w]] \in Module /\ module[current[w]] \in loaded
    BY <1>1 DEF IInv, Typed, StateInv, Running
  <1>3. memory[current[w]] \in 1 .. Len(mems)
    BY <1>1, SMT DEF IInv, Typed, StateInv, Running, Queued
  <1>4. mems[memory[current[w]]] \in LinearMemory
    BY <1>3, SeqIs DEF IInv, Typed
  <1>5. cache[w].memory = Descriptor(memory[current[w]])
    BY DEF IInv, CacheAt
  <1>6. 0 \in Page
    BY <1>2, InstanceAssumption, SMT DEF Page
  <1>7. cache[w].memory = [size |-> mems[memory[current[w]]].size, capacity |-> mems[memory[current[w]]].capacity,
                           buffer |-> memory[current[w]]]
    BY <1>5 DEF Descriptor
  <1>8. /\ cache[w].memory.buffer = memory[current[w]]
        /\ cache[w].memory.size = mems[memory[current[w]]].size
        /\ cache[w].memory.capacity = mems[memory[current[w]]].capacity
    BY <1>7, SMT
  <1> QED BY <1>1, <1>2, <1>3, <1>4, <1>5, <1>6, <1>8

\* What a sandbox stores is data, and is marked if the page is beyond the size.
LEMMA DatumIs ==
    ASSUME NEW s \in Sandbox, NEW p, NEW n
    PROVE  Datum(s, p, n) \in Data /\ (p < n \/ Datum(s, p, n) \in Strays)
  BY DEF Datum, Data, Strays

\* Zeros are data.
LEMMA BlankIs == NULL \in Data /\ Blank \in [Page -> Data]
  BY DEF Data, Blank

\* The memories after data d has been written to page p of memory i, and that memory.
Stored(q, i, p, d) == [q EXCEPT ![i].pages[p] = d]

Written(z, p, d) == [z EXCEPT !.pages[p] = d]

\* A store changes one page of one memory.
LEMMA StoreEffect ==
    ASSUME mems \in Seq(LinearMemory), NEW i \in 1 .. Len(mems), NEW p \in Page, NEW d \in Data,
           mems' = Stored(mems, i, p, d)
    PROVE  /\ mems' \in Seq(LinearMemory) /\ Len(mems') = Len(mems)
           /\ \A j \in 1 .. Len(mems) : j # i => mems'[j] = mems[j]
           /\ mems'[i] = Written(mems[i], p, d)
  <1> DEFINE r == [mems[i] EXCEPT !.pages[p] = d]
  <1>1. mems[i] \in LinearMemory
    BY SeqIs
  <1>2. r \in LinearMemory
    BY <1>1 DEF LinearMemory
  <1>3. mems' = [mems EXCEPT ![i] = r]
    BY DEF Stored
  <1> HIDE DEF r
  <1>4. /\ mems' \in Seq(LinearMemory) /\ Len(mems') = Len(mems) /\ mems'[i] = r
        /\ \A j \in 1 .. Len(mems) : j # i => mems'[j] = mems[j]
    BY <1>2, <1>3, SeqUpdate, SMT
  <1> QED BY <1>4 DEF r, Written

\* The descriptor of a memory that has grown.
LEMMA ExpandIs ==
    ASSUME NEW a, NEW b, NEW c, NEW n
    PROVE  wasm_memory_expand([size |-> a, capacity |-> c, buffer |-> b], n)
             = [size |-> n, capacity |-> Max({c, n}), buffer |-> b]
  <1> DEFINE r == [size |-> a, capacity |-> c, buffer |-> b]
             x == [size |-> n, capacity |-> c, buffer |-> b]
  <1>1. [r EXCEPT !.size = n] = x /\ x.capacity = c
    BY SMT
  <1>2. ASSUME NEW m
        PROVE  [x EXCEPT !.capacity = m] = [size |-> n, capacity |-> m, buffer |-> b]
    BY SMT
  <1> HIDE DEF x
  <1>3. wasm_memory_expand(r, n) = [x EXCEPT !.capacity = Max({x.capacity, n})]
    BY <1>1 DEF wasm_memory_expand
  <1> QED BY <1>1, <1>2, <1>3

\* memory.grow changes the descriptor of the memory of the sandbox that executes, and the cached one.
LEMMA GrowEffect ==
    ASSUME IInv, NEW w \in Worker, NEW n \in Grow, sledge_abi__wasm_memory_expand(w, n)
    PROVE  LET i == memory[current[w]]
               e == wasm_memory_expand(cache[w].memory, cache[w].memory.size + Bytes32(n))
           IN  /\ mems' \in Seq(LinearMemory) /\ Len(mems') = Len(mems)
               /\ \A j \in 1 .. Len(mems) : j # i => mems'[j] = mems[j]
               /\ mems'[i].pages = mems[i].pages
               /\ mems'[i].size = mems[i].size + Bytes32(n)
               /\ cache' = [cache EXCEPT ![w].memory = e]
               /\ e = Descriptor(i)'
               /\ e \in [size : 0 .. MaxPages, capacity : 0 .. MaxPages, buffer : Nat]
  <1> DEFINE i == memory[current[w]]
             e == wasm_memory_expand(cache[w].memory, cache[w].memory.size + Bytes32(n))
             r == [size |-> e.size, capacity |-> e.capacity, pages |-> mems[i].pages]
  <1>0. current[w] # NULL /\ state[current[w]] \in Running
    BY DEF sledge_abi__wasm_memory_expand, Executes, Running
  <1>1. /\ i \in 1 .. Len(mems) /\ mems[i] \in LinearMemory
        /\ cache[w].memory = [size |-> mems[i].size, capacity |-> mems[i].capacity, buffer |-> i]
        /\ cache[w].memory.size = mems[i].size
        /\ memory'[current'[w]] = i
    BY <1>0, CurrentIs DEF Descriptor, sledge_abi__wasm_memory_expand
  <1>2. Bytes32(n) \in Nat /\ mems[i].size + Bytes32(n) <= MaxPages /\ MaxPages \in Nat
    BY <1>1, Bytes32Is, InstanceAssumption DEF sledge_abi__wasm_memory_expand
  <1>3. mems[i].size \in Nat /\ mems[i].capacity \in 1 .. MaxPages /\ mems[i].pages \in [Page -> Data]
    BY <1>1, <1>2, SMT DEF LinearMemory
  <1>4. /\ Max({mems[i].capacity, mems[i].size + Bytes32(n)}) \in 1 .. MaxPages
        /\ mems[i].size + Bytes32(n) \in 0 .. MaxPages
    <2> DEFINE c == mems[i].capacity
               z == mems[i].size + Bytes32(n)
    <2>1. c \in 1 .. MaxPages /\ z \in 0 .. MaxPages
      BY <1>2, <1>3, SMT
    <2> HIDE DEF c, z
    <2>2. Max({c, z}) \in 1 .. MaxPages
      <3>1. c \in Nat /\ z \in Nat
        BY <1>2, <2>1, SMT
      <3>2. Max({c, z}) = c \/ (Max({c, z}) = z /\ z >= c)
        BY <3>1, LargerOfTwo
      <3> QED BY <1>2, <2>1, <3>2, SMT
    <2> QED BY <2>1, <2>2 DEF c, z
  <1>5. e = [size |-> mems[i].size + Bytes32(n), buffer |-> i,
             capacity |-> Max({mems[i].capacity, mems[i].size + Bytes32(n)})]
    BY <1>1, ExpandIs, SMT
  <1>6. /\ cache' = [cache EXCEPT ![w].memory = e]
        /\ mems' = [mems EXCEPT ![i] = [size |-> cache'[w].memory.size, capacity |-> cache'[w].memory.capacity,
                                        pages |-> mems[i].pages]]
    BY DEF sledge_abi__wasm_memory_expand, current_sandbox_memory_writeback
  <1>7. mems \in Seq(LinearMemory) /\ cache[w] \in Cached /\ cache \in [Worker -> Cached]
    BY DEF IInv, Typed
  <1> HIDE DEF e
  <1>8. cache'[w].memory = e
    BY <1>6, <1>7 DEF Cached
  <1>9. r \in LinearMemory /\ e \in [size : 0 .. MaxPages, capacity : 0 .. MaxPages, buffer : Nat]
    BY <1>1, <1>3, <1>4, <1>5, SMT DEF LinearMemory
  <1>10. mems' = [mems EXCEPT ![i] = r]
    BY <1>6, <1>8
  <1> HIDE DEF i
  <1> HIDE DEF r
  <1>11. /\ mems' \in Seq(LinearMemory) /\ Len(mems') = Len(mems) /\ mems'[i] = r
         /\ \A j \in 1 .. Len(mems) : j # i => mems'[j] = mems[j]
    BY <1>1, <1>9, <1>10, <1>7, SeqUpdate, SMT
  <1>12. mems'[i].pages = mems[i].pages /\ mems'[i].size = e.size /\ mems'[i].capacity = e.capacity
    BY <1>11, SMT DEF r
  <1>13. e.size = mems[i].size + Bytes32(n) /\ e = [size |-> e.size, capacity |-> e.capacity, buffer |-> i]
    BY <1>5
  <1>14. e = [size |-> mems'[i].size, capacity |-> mems'[i].capacity, buffer |-> i]
    BY <1>12, <1>13
  <1>15. e = Descriptor(i)'
    BY <1>14, <1>1 DEF Descriptor, i
  <1> QED BY <1>6, <1>9, <1>11, <1>12, <1>13, <1>15 DEF e, i

\* A memory that goes back to a pool has the size the module starts with, and its pages are cleared up
\* to the size it had.
LEMMA ReinitIs ==
    ASSUME mems \in Seq(LinearMemory), NEW i \in 1 .. Len(mems), NEW n \in 0 .. MaxPages
    PROVE  /\ wasm_memory_reinit(i, n) \in LinearMemory
           /\ wasm_memory_reinit(i, n).size = n
           /\ \A p \in Page : wasm_memory_reinit(i, n).pages[p] = IF p < mems[i].size THEN NULL ELSE mems[i].pages[p]
  <1> DEFINE z == mems[i]
             q == [p \in Page |-> IF p < z.size THEN NULL ELSE z.pages[p]]
             x == [size |-> n, capacity |-> z.capacity, pages |-> z.pages]
  <1>1. /\ z = [size |-> z.size, capacity |-> z.capacity, pages |-> z.pages]
        /\ z.capacity \in 1 .. MaxPages /\ z.pages \in [Page -> Data]
    <2>1. z \in LinearMemory
      BY SeqIs
    <2> HIDE DEF z
    <2> QED BY <2>1 DEF LinearMemory
  <1>2. q \in [Page -> Data]
    BY <1>1, BlankIs
  <1>3. ASSUME NEW a, NEW b, NEW c
        PROVE  [[size |-> a, capacity |-> b, pages |-> c] EXCEPT !.size = n] = [size |-> n, capacity |-> b, pages |-> c]
    BY SMT
  <1>4. ASSUME NEW a, NEW b, NEW c, NEW d
        PROVE  [[size |-> a, capacity |-> b, pages |-> c] EXCEPT !.pages = d] = [size |-> a, capacity |-> b, pages |-> d]
    BY SMT
  <1>5. [z EXCEPT !.size = n] = x /\ x.pages = z.pages
    BY <1>1, <1>3, SMT
  <1>6. wasm_memory_reinit(i, n) = [x EXCEPT !.pages = [p \in Page |-> IF p < z.size THEN NULL ELSE x.pages[p]]]
    BY <1>5 DEF wasm_memory_reinit
  <1> HIDE DEF z
  <1>7. wasm_memory_reinit(i, n) = [size |-> n, capacity |-> z.capacity, pages |-> q]
    BY <1>4, <1>5, <1>6, SMT
  <1> HIDE DEF q
  <1>8. wasm_memory_reinit(i, n) \in LinearMemory /\ wasm_memory_reinit(i, n).size = n /\ wasm_memory_reinit(i, n).pages = q
    BY <1>1, <1>2, <1>7, SMT DEF LinearMemory
  <1> QED BY <1>8 DEF q, z

-----------------------------------------------------------------------------
(***************************************************************************)
(* Who holds a linear memory.                                              *)
(***************************************************************************)
\* A pool with one more memory.
LEMMA PoolAdd ==
    ASSUME NEW S, NEW q \in Seq(S), NEW i \in S
    PROVE  /\ pool_add_nolock(q, i) \in Seq(S)
           /\ \A x : Contains(pool_add_nolock(q, i), x) <=> x = i \/ Contains(q, x)
           /\ Distinct(q) /\ ~Contains(q, i) => Distinct(pool_add_nolock(q, i))
  <1> DEFINE p == pool_add_nolock(q, i)
  <1>1. <<i>> \in Seq(S) /\ Len(<<i>>) = 1 /\ <<i>>[1] = i /\ Len(q) \in Nat /\ DOMAIN q = 1 .. Len(q)
    BY SeqIs, SMT
  <1>2. p \in Seq(S) /\ Len(p) = 1 + Len(q) /\ \A j \in 1 .. 1 + Len(q) : p[j] = IF j <= 1 THEN <<i>>[j] ELSE q[j - 1]
    BY <1>1, ConcatIs DEF pool_add_nolock
  <1>3. DOMAIN p = 1 .. Len(p)
    BY <1>2, SeqIs
  <1> HIDE DEF p
  <1>4. p[1] = i /\ 1 \in DOMAIN p /\ \A j \in DOMAIN q : p[j + 1] = q[j] /\ j + 1 \in DOMAIN p
    BY <1>1, <1>2, <1>3, SMT
  <1>5. \A j \in DOMAIN p : j = 1 \/ (j - 1 \in DOMAIN q /\ p[j] = q[j - 1] /\ j = (j - 1) + 1)
    BY <1>1, <1>2, <1>3, SMT
  <1>6. \A x : Contains(p, x) <=> x = i \/ Contains(q, x)
    BY <1>4, <1>5, SMT DEF Contains
  <1>7. ASSUME Distinct(q), ~Contains(q, i)
        PROVE  Distinct(p)
    BY <1>4, <1>5, <1>7, SMT DEF Distinct, Contains
  <1> QED BY <1>2, <1>6, <1>7 DEF p

\* A pool from which the first memory has been taken.
LEMMA PoolRemove ==
    ASSUME NEW S, NEW q \in Seq(S), q # <<>>, Distinct(q)
    PROVE  /\ Head(q) \in S /\ Contains(q, Head(q))
           /\ pool_remove_nolock(q) \in Seq(S) /\ Distinct(pool_remove_nolock(q))
           /\ \A x : Contains(pool_remove_nolock(q), x) <=> Contains(q, x) /\ x # Head(q)
  <1> DEFINE p == pool_remove_nolock(q)
  <1>1. Len(q) \in Nat /\ DOMAIN q = 1 .. Len(q) /\ Len(q) # 0 /\ q[1] = Head(q)
    BY SeqIs, SMT
  <1>2. Head(q) \in S /\ p \in Seq(S) /\ Len(p) = Len(q) - 1 /\ \A j \in 1 .. Len(p) : p[j] = q[j + 1]
    BY SMT DEF pool_remove_nolock
  <1>3. DOMAIN p = 1 .. Len(p)
    BY <1>2, SeqIs
  <1> HIDE DEF p
  <1>4. 1 \in DOMAIN q /\ \A j \in DOMAIN p : p[j] = q[j + 1] /\ j + 1 \in DOMAIN q /\ j + 1 # 1
    BY <1>1, <1>2, <1>3, SMT
  <1>5. \A j \in DOMAIN q : j = 1 \/ (j - 1 \in DOMAIN p /\ q[j] = p[j - 1])
    BY <1>1, <1>2, <1>3, SMT
  <1>6. \A j, l \in DOMAIN p : j + 1 = l + 1 => j = l
    BY <1>2, <1>3, SMT
  <1>7. \A x : Contains(p, x) <=> Contains(q, x) /\ x # Head(q)
    BY <1>1, <1>4, <1>5, SMT DEF Contains, Distinct
  <1>8. Distinct(p)
    BY <1>4, <1>6 DEF Distinct
  <1> QED BY <1>1, <1>2, <1>4, <1>7, <1>8 DEF p, Contains

\* After the step memory i is held by that holder only, or by those who held it before.
HeldOnlyBy(i, K, X, Y) == \A k, x, y : Held(i, k, x, y)' <=> k = K /\ x = X /\ y = Y

HeldAsBefore(i) == \A k, x, y : Held(i, k, x, y)' <=> Held(i, k, x, y)

\* A memory that comes into being or changes hands has one holder after it, and the others keep theirs.
LEMMA HolderMoves ==
    ASSUME MemoryInv, NEW i, NEW K, NEW X, NEW Y, HeldOnlyBy(i, K, X, Y),
           \A j \in 1 .. Len(mems') : j # i => j \in 1 .. Len(mems) /\ HeldAsBefore(j)
    PROVE  \A j \in 1 .. Len(mems') : OneHeld(j)'
  <1>1. ASSUME NEW j \in 1 .. Len(mems'), j = i
        PROVE  OneHeld(j)'
    <2>1. \A k, x, y : Held(j, k, x, y)' <=> k = K /\ x = X /\ y = Y
      BY <1>1 DEF HeldOnlyBy
    <2>2. Held(j, K, X, Y)'
      BY <2>1
    <2>3. \A k, x, y, l, u, v : Held(j, k, x, y)' /\ Held(j, l, u, v)' => k = l /\ x = u /\ y = v
      BY <2>1, SMT
    <2> QED BY <2>2, <2>3 DEF OneHeld
  <1>2. ASSUME NEW j \in 1 .. Len(mems'), j # i
        PROVE  OneHeld(j)'
    <2>1. OneHeld(j)
      BY <1>2 DEF MemoryInv
    <2>2. \A k, x, y : Held(j, k, x, y)' <=> Held(j, k, x, y)
      BY <1>2 DEF HeldAsBefore
    <2>3. \E k, x, y : Held(j, k, x, y)'
      BY <2>1, <2>2 DEF OneHeld
    <2>4. ASSUME NEW k, NEW x, NEW y, NEW l, NEW u, NEW v, Held(j, k, x, y)', Held(j, l, u, v)'
          PROVE  k = l /\ x = u /\ y = v
      <3>1. Held(j, k, x, y) /\ Held(j, l, u, v)
        BY <2>2, <2>4
      <3> QED BY <2>1, <3>1 DEF OneHeld
    <2> QED BY <2>3, <2>4 DEF OneHeld
  <1> QED BY <1>1, <1>2

\* Two sandboxes do not hold the same memory, and no pool holds it.
LEMMA MemoryOfOne ==
    ASSUME MemoryInv, NEW s \in Sandbox, memory[s] \in 1 .. Len(mems)
    PROVE  /\ \A x \in Sandbox : memory[x] = memory[s] => x = s
           /\ \A m \in Module, w \in Worker : ~InPool(memory[s], m, w)
  <1>1. \A k, x, y, l, u, v : Held(memory[s], k, x, y) /\ Held(memory[s], l, u, v) => k = l /\ x = u /\ y = v
    BY DEF MemoryInv, OneHeld
  <1>2. Held(memory[s], "sandbox", s, 0)
    BY DEF Held
  <1>3. ASSUME NEW x \in Sandbox, memory[x] = memory[s]
        PROVE  x = s
    <2>1. Held(memory[s], "sandbox", x, 0)
      BY <1>3 DEF Held
    <2> QED BY <1>1, <1>2, <2>1
  <1>4. ASSUME NEW m \in Module, NEW w \in Worker, InPool(memory[s], m, w)
        PROVE  FALSE
    <2>1. Held(memory[s], "pool", m, w)
      BY <1>4 DEF Held
    <2>2. "pool" = "sandbox"
      BY <1>1, <1>2, <2>1
    <2> QED BY <2>2
  <1> QED BY <1>3, <1>4

\* A step that leaves the holders alone.
LEMMA HoldersStay ==
    ASSUME MemoryInv, UNCHANGED <<loaded, memory, mempool>>, Len(mems') = Len(mems)
    PROVE  MemoryInv'
  <1>1. \A i, k, x, y : Held(i, k, x, y)' <=> Held(i, k, x, y)
    BY SMT DEF Held, InPool
  <1> QED BY <1>1 DEF MemoryInv, OneHeld

-----------------------------------------------------------------------------
(***************************************************************************)
(* A worker's step disturbs neither the other workers nor their sandboxes. *)
(***************************************************************************)
\* A step leaves sandbox s, with its linear memory, as it is.
Same(s) ==
    /\ state'[s] = state[s] /\ module'[s] = module[s] /\ memory'[s] = memory[s]
    /\ globals'[s] = globals[s] /\ context'[s] = context[s] /\ truth'[s] = truth[s]
    /\ memory[s] # 0 => mems'[memory[s]] = mems[memory[s]]

SameThread(w) ==
    /\ current'[w] = current[w] /\ exiting'[w] = exiting[w] /\ cache'[w] = cache[w]
    /\ runq'[w] = runq[w] /\ cleanup'[w] = cleanup[w]

\* A step of worker w changes its own thread-local state and the sandboxes in its hands; a sandbox
\* comes into its hands only when nobody has it yet.
Local(w) ==
    /\ \A v \in Worker : v # w => SameThread(v)
    /\ \A s \in Sandbox : Owns(w, s)' => Owns(w, s) \/ state[s] = "INITIALIZED"
    /\ \A s \in Sandbox : ~Owns(w, s) /\ state[s] # "INITIALIZED" => Same(s)

\* The sandboxes in a worker's hands have been prepared for execution.
LEMMA OwnedIsPrepared ==
    ASSUME NEW w \in Worker, Typed, Thread(w), NEW s \in Sandbox, Owns(w, s)
    PROVE  state[s] \notin Fresh
  BY InstanceAssumption DEF Thread, Owns, Queued, Running, Ended, Fresh

\* A worker whose thread-local state and sandboxes stay as they are keeps all that is said of it.
LEMMA Undisturbed ==
    ASSUME IInv, NEW w \in Worker, SameThread(w), \A s \in Sandbox : Owns(w, s) => Same(s)
    PROVE  Thread(w)' /\ CacheAt(w)' /\ GlobalsAt(w)'
  <1>1. current[w] \in Sandbox \cup {NULL} /\ exiting[w] \in Sandbox \cup {NULL}
    BY DEF IInv, Typed
  <1>2. runq[w] \subseteq Sandbox /\ cleanup[w] \subseteq Sandbox
    BY DEF IInv, Typed
  <1>3. /\ current[w] # NULL => Same(current[w])
        /\ exiting[w] # NULL => Same(exiting[w])
        /\ \A s \in runq[w] : Same(s)
        /\ \A s \in cleanup[w] : Same(s)
    BY <1>1, <1>2 DEF Owns
  <1>4. Thread(w)'
    <2>1. Thread(w)
      BY DEF IInv, ThreadInv
    <2> QED BY <1>3, <2>1 DEF Thread, SameThread, Same
  <1>5. CacheAt(w)'
    <2>1. CacheAt(w)
      BY DEF IInv
    <2>2. CASE current[w] = NULL
      BY <2>1, <2>2 DEF CacheAt, SameThread
    <2>3. CASE current[w] # NULL
      <3>1. /\ state'[current[w]] = state[current[w]] /\ module'[current[w]] = module[current[w]]
            /\ context'[current[w]] = context[current[w]] /\ memory'[current[w]] = memory[current[w]]
            /\ memory[current[w]] # 0 => mems'[memory[current[w]]] = mems[memory[current[w]]]
        BY <1>3, <2>3 DEF Same
      <3>2. state[current[w]] \in Running => memory[current[w]] # 0
        BY <1>1, <2>3 DEF IInv, StateInv, Running, Queued
      <3>3. state[current[w]] \in Running => Descriptor(memory[current[w]])' = Descriptor(memory[current[w]])
        BY <3>1, <3>2 DEF Descriptor, SameThread
      <3> QED BY <2>1, <2>3, <3>1, <3>3 DEF CacheAt, SameThread
    <2> QED BY <2>2, <2>3
  <1>6. GlobalsAt(w)'
    <2>1. GlobalsAt(w)
      BY DEF IInv
    <2>2. \A s \in runq[w] : truth'[s] = truth[s] /\ globals'[s] = globals[s]
      BY <1>3 DEF Same
    <2>3. ASSUME NEW s \in runq[w]
          PROVE  GlobalsOf(w, s)'
      <3>1. GlobalsOf(w, s) /\ truth'[s] = truth[s] /\ globals'[s] = globals[s]
        BY <2>1, <2>2, <2>3 DEF GlobalsAt
      <3>2. current'[w] = current[w] /\ cache'[w] = cache[w]
        BY DEF SameThread
      <3>3. \A i : current[w] = s => get_global(w, i)' = get_global(w, i)
        BY <3>1, <3>2 DEF get_global
      <3> QED BY <3>1, <3>2, <3>3, SMT DEF GlobalsOf
    <2> QED BY <2>3 DEF GlobalsAt, SameThread
  <1> QED BY <1>4, <1>5, <1>6

\* What remains to be shown of a worker's step.
LEMMA WorkerStep ==
    ASSUME IInv, NEW w \in Worker, Local(w), Typed', StateInv', MemoryInv',
           Thread(w)', CacheAt(w)', GlobalsAt(w)'
    PROVE  IInv'
  <1>1. \A v \in Worker, s \in Sandbox : Owns(v, s) => state[s] \notin Fresh
    BY OwnedIsPrepared DEF IInv, ThreadInv
  <1>2. \A u, v \in Worker : \A s \in Sandbox : Owns(u, s) /\ Owns(v, s) => u = v
    BY DEF IInv, ThreadInv
  <1>3. \A v \in Worker, s \in Sandbox : v # w => (Owns(v, s)' <=> Owns(v, s))
    BY DEF Local, SameThread, Owns
  <1>4. \A s \in Sandbox : Owns(w, s)' => Owns(w, s) \/ state[s] \in Fresh
    BY DEF Local, Fresh
  <1>5. ASSUME NEW u \in Worker, NEW v \in Worker, NEW s \in Sandbox, Owns(u, s)', Owns(v, s)'
        PROVE  u = v
    <2>1. Owns(u, s) \/ (u = w /\ state[s] \in Fresh)
      BY <1>3, <1>4, <1>5
    <2>2. Owns(v, s) \/ (v = w /\ state[s] \in Fresh)
      BY <1>3, <1>4, <1>5
    <2> QED BY <1>1, <1>2, <2>1, <2>2
  <1>6. ASSUME NEW v \in Worker, v # w
        PROVE  Thread(v)' /\ CacheAt(v)' /\ GlobalsAt(v)'
    <2>1. SameThread(v)
      BY <1>6 DEF Local
    <2>2. \A s \in Sandbox : Owns(v, s) => ~Owns(w, s) /\ state[s] # "INITIALIZED"
      BY <1>1, <1>2, <1>6 DEF Fresh
    <2>3. \A s \in Sandbox : Owns(v, s) => Same(s)
      BY <2>2 DEF Local
    <2> QED BY <2>1, <2>3, Undisturbed
  <1>7. \A v \in Worker : Thread(v)' /\ CacheAt(v)' /\ GlobalsAt(v)'
    BY <1>6
  <1> QED BY <1>5, <1>7 DEF IInv, ThreadInv

\* What remains to be shown of a step of the listener or the main thread.
LEMMA OtherStep ==
    ASSUME IInv, Typed', StateInv', MemoryInv',
           UNCHANGED threads, \A s \in Sandbox : state[s] \notin Fresh => Same(s)
    PROVE  IInv'
  <1>1. \A v \in Worker, s \in Sandbox : Owns(v, s) => state[s] \notin Fresh
    BY OwnedIsPrepared DEF IInv, ThreadInv
  <1>2. \A v \in Worker : SameThread(v)
    BY DEF threads, SameThread
  <1>3. \A v \in Worker : Thread(v)' /\ CacheAt(v)' /\ GlobalsAt(v)'
    BY <1>1, <1>2, Undisturbed
  <1>4. \A v \in Worker, s \in Sandbox : Owns(v, s)' <=> Owns(v, s)
    BY DEF threads, Owns
  <1>5. \A u, v \in Worker : \A s \in Sandbox : Owns(u, s) /\ Owns(v, s) => u = v
    BY DEF IInv, ThreadInv
  <1>6. \A u, v \in Worker : \A s \in Sandbox : Owns(u, s)' /\ Owns(v, s)' => u = v
    BY <1>4, <1>5
  <1> QED BY <1>3, <1>6 DEF IInv, ThreadInv

-----------------------------------------------------------------------------
(***************************************************************************)
(* Switches.                                                               *)
(***************************************************************************)
\* What current_sandbox_set does when the next sandbox is in the run queue.
LEMMA SetEffect ==
    ASSUME IInv, NEW w \in Worker, NEW n \in runq[w], current_sandbox_set(w, n)
    PROVE  /\ n \in Sandbox /\ memory[n] \in 1 .. Len(mems) /\ module[n] \in Module
           /\ current' \in [Worker -> Sandbox \cup {NULL}] /\ current'[w] = n
           /\ cache' \in [Worker -> Cached]
           /\ cache'[w].memory = Descriptor(memory[n]) /\ cache'[w].table = module[n]
           /\ cache'[w].context = (IF context[n] THEN n ELSE NULL)
           /\ cache'[w].g0 = wasm_globals_update_if_used(w, n)
           /\ \A v \in Worker : v # w => current'[v] = current[v] /\ cache'[v] = cache[v]
  <1> DEFINE c == [memory  |-> Descriptor(memory[n]),
                   table   |-> module[n],
                   g0      |-> wasm_globals_update_if_used(w, n),
                   context |-> IF context[n] THEN n ELSE NULL]
  <1>1. n \in Sandbox /\ n # NULL
    BY InstanceAssumption DEF IInv, Typed
  <1>2. state[n] \in Queued
    BY DEF IInv, ThreadInv, Thread
  <1>3. memory[n] \in 1 .. Len(mems) /\ module[n] \in Module
    BY <1>1, <1>2, SMT DEF IInv, Typed, StateInv, Queued
  <1>4. mems[memory[n]] \in LinearMemory
    BY <1>3, SeqIs DEF IInv, Typed
  <1>5. Descriptor(memory[n]) \in [size : 0 .. MaxPages, capacity : 0 .. MaxPages, buffer : Nat]
    BY <1>3, <1>4, SMT DEF Descriptor, LinearMemory
  <1>6. wasm_globals_update_if_used(w, n) \in Value
    <2>1. cache[w].g0 \in Value
      BY DEF IInv, Typed, Cached
    <2>2. globals[n] \in [Global -> [type : {"UNUSED", "I32", "I64"}, value : Value]] /\ 0 \in Global
      BY <1>1, InstanceAssumption, SMT DEF IInv, Typed, Global
    <2>3. globals[n][0].value \in Value
      BY <2>2
    <2> QED BY <2>1, <2>3 DEF wasm_globals_update_if_used
  <1>7. cache' = [cache EXCEPT ![w] = c] /\ current' = [current EXCEPT ![w] = n]
    BY <1>1 DEF current_sandbox_set
  <1>8. c \in Cached
    BY <1>1, <1>3, <1>5, <1>6 DEF Cached
  <1>9. /\ c.memory = Descriptor(memory[n]) /\ c.table = module[n]
        /\ c.context = (IF context[n] THEN n ELSE NULL) /\ c.g0 = wasm_globals_update_if_used(w, n)
    OBVIOUS
  <1> HIDE DEF c
  <1>10. cache \in [Worker -> Cached] /\ current \in [Worker -> Sandbox \cup {NULL}]
    BY DEF IInv, Typed
  <1>11. /\ cache' \in [Worker -> Cached] /\ cache'[w] = c
         /\ current' \in [Worker -> Sandbox \cup {NULL}] /\ current'[w] = n
         /\ \A v \in Worker : v # w => current'[v] = current[v] /\ cache'[v] = cache[v]
    BY <1>1, <1>7, <1>8, <1>10
  <1> QED BY <1>1, <1>3, <1>9, <1>11

\* A sandbox that becomes current finds its global 0 in the cache.
LEMMA GlobalsResumed ==
    ASSUME NEW w \in Worker, NEW s, GlobalsOf(w, s), current[w] # s, current'[w] = s,
           cache'[w].g0 = wasm_globals_update_if_used(w, s), truth'[s] = truth[s], globals'[s] = globals[s]
    PROVE  GlobalsOf(w, s)'
  <1>1. ASSUME NEW i \in 1 .. Len(truth[s].globals)
        PROVE  truth[s].globals[i] = get_global(w, i - 1)'
    <2>1. truth[s].globals[i] = globals[s][i - 1].value
      BY DEF GlobalsOf
    <2>2. CASE i = 1
      <3>1. globals[s][0].type # "UNUSED"
        BY <2>2, SMT DEF GlobalsOf
      <3>2. get_global(w, i - 1)' = cache'[w].g0
        BY <2>2, SMT DEF get_global
      <3> QED BY <2>1, <2>2, <3>1, <3>2, SMT DEF wasm_globals_update_if_used
    <2>3. CASE i # 1
      BY <2>1, <2>3, SMT DEF get_global
    <2> QED BY <2>2, <2>3
  <1> QED BY <1>1 DEF GlobalsOf

\* A sandbox that is current neither before nor after a step.
LEMMA GlobalsUnmoved ==
    ASSUME NEW w \in Worker, NEW s, GlobalsOf(w, s), current[w] # s, current'[w] # s,
           truth'[s] = truth[s], globals'[s] = globals[s]
    PROVE  GlobalsOf(w, s)'
  BY DEF GlobalsOf

\* A sandbox that is preempted takes its global 0 out of the cache.
LEMMA GlobalsSaved ==
    ASSUME NEW w \in Worker, NEW s, GlobalsOf(w, s), current[w] = s, current'[w] # s, truth'[s] = truth[s],
           globals[s] \in [Global -> [type : {"UNUSED", "I32", "I64"}, value : Value]],
           globals'[s] = [globals[s] EXCEPT ![0] = [type |-> "I64", value |-> cache[w].g0]]
    PROVE  GlobalsOf(w, s)'
  <1>1. globals'[s][0].type = "I64" /\ globals'[s][0].value = cache[w].g0
    BY InstanceAssumption, SMT DEF Global
  <1>2. ASSUME NEW i \in 1 .. Len(truth[s].globals)
        PROVE  truth[s].globals[i] = globals'[s][i - 1].value
    <2>1. truth[s].globals[i] = get_global(w, i - 1) /\ i - 1 \in Int
      BY SMT DEF GlobalsOf
    <2>2. CASE i - 1 = 0
      BY <1>1, <2>1, <2>2 DEF get_global
    <2>3. CASE i - 1 # 0
      BY <2>1, <2>3, SMT DEF get_global
    <2> QED BY <2>2, <2>3
  <1> QED BY <1>1, <1>2 DEF GlobalsOf

\* The sandboxes that a step neither starts nor ends keep what they have.
LEMMA StatesStay ==
    ASSUME StateInv, UNCHANGED <<loaded, module, memory, stack>>,
           \A s \in Sandbox : \/ state'[s] = state[s]
                              \/ state[s] \in Queued /\ state'[s] \in Queued
                              \/ state[s] = "RETURNED" /\ state'[s] = "COMPLETE",
           \A s \in Sandbox : state[s] \in Fresh => truth'[s] = truth[s]
    PROVE  StateInv'
  <1>1. \A s \in Sandbox : /\ state'[s] = "NONE" <=> state[s] = "NONE"
                           /\ state'[s] \in Queued <=> state[s] \in Queued
                           /\ state'[s] \in Fresh <=> state[s] \in Fresh
    BY DEF Queued, Fresh
  <1> QED BY <1>1 DEF StateInv

\* The signal handler switches from the interrupted sandbox to another one.
LEMMA PreemptiveStep ==
    ASSUME IInv, NEW w \in Worker, NEW n \in Sandbox, scheduler_preemptive_sched(w, n)
    PROVE  IInv'
  <1> DEFINE s == current[w]
  <1>1. s # NULL /\ n \in runq[w] /\ n # s /\ state[s] = "RUNNING_USER"
    BY DEF scheduler_preemptive_sched
  <1>2. s \in Sandbox /\ s \in runq[w]
    BY <1>1, CurrentIs DEF Running
  <1>3. /\ memory[n] \in 1 .. Len(mems) /\ module[n] \in Module
        /\ current' \in [Worker -> Sandbox \cup {NULL}] /\ current'[w] = n
        /\ cache' \in [Worker -> Cached]
        /\ cache'[w].memory = Descriptor(memory[n]) /\ cache'[w].table = module[n]
        /\ cache'[w].context = (IF context[n] THEN n ELSE NULL)
        /\ cache'[w].g0 = wasm_globals_update_if_used(w, n)
        /\ \A v \in Worker : v # w => current'[v] = current[v] /\ cache'[v] = cache[v]
    BY <1>1, SetEffect DEF scheduler_preemptive_sched
  <1>4. /\ UNCHANGED <<loaded, phase, module, memory, stack, context, truth>>
        /\ UNCHANGED <<mems, mempool, exiting, runq, cleanup>>
    BY DEF scheduler_preemptive_sched, modules, pools
  <1>5. /\ state' = [state EXCEPT ![s] = "PREEMPTED", ![n] = Dispatched(n)]
        /\ globals' = [globals EXCEPT ![s][0] = [type |-> "I64", value |-> cache[w].g0]]
    BY DEF scheduler_preemptive_sched, write_back_global_0
  <1>6. Typed
    BY DEF IInv
  <1>7. state[n] \in {"RUNNABLE", "PREEMPTED"}
    BY <1>1, <1>2 DEF IInv, ThreadInv, Thread, Queued, Running
  <1>8. state'[s] = "PREEMPTED" /\ state'[n] \in Running /\ \A x \in Sandbox : x # s /\ x # n => state'[x] = state[x]
    BY <1>1, <1>2, <1>5, <1>6 DEF Typed, Dispatched, Running
  <1>9. /\ globals'[s] = [globals[s] EXCEPT ![0] = [type |-> "I64", value |-> cache[w].g0]]
        /\ \A x \in Sandbox : x # s => globals'[x] = globals[x]
    BY <1>2, <1>5, <1>6 DEF Typed
  <1> HIDE DEF s
  <1>10. Typed'
    <2>1. state' \in [Sandbox -> State]
      BY <1>2, <1>5, <1>6 DEF Typed, Dispatched, State
    <2>2. globals' \in [Sandbox -> [Global -> [type : {"UNUSED", "I32", "I64"}, value : Value]]]
      <3>1. cache[w].g0 \in Value
        BY <1>6 DEF Typed, Cached
      <3>2. [type |-> "I64", value |-> cache[w].g0] \in [type : {"UNUSED", "I32", "I64"}, value : Value]
        BY <3>1
      <3> QED BY <1>2, <1>5, <1>6, <3>2 DEF Typed
    <2> QED BY <1>3, <1>4, <1>6, <2>1, <2>2 DEF Typed
  <1>11. StateInv'
    <2>1. state[s] \in Queued /\ state[n] \in Queued /\ state'[s] \in Queued /\ state'[n] \in Queued
      BY <1>1, <1>7, <1>8 DEF Queued, Running, s
    <2>2. \A x \in Sandbox : state'[x] = state[x] \/ (state[x] \in Queued /\ state'[x] \in Queued)
      BY <1>8, <2>1
    <2> QED BY <1>4, <2>2, StatesStay DEF IInv
  <1>12. MemoryInv'
    BY <1>4, HoldersStay DEF IInv
  <1>13. Thread(w) /\ exiting[w] = NULL
    BY <1>1 DEF IInv, ThreadInv, Thread, s
  <1>14. Thread(w)'
    <2>1. \A x \in runq[w] : x # s /\ x # n => state[x] \in Queued /\ state[x] \notin Running
      BY <1>13 DEF Thread, s
    <2>2. \A x \in runq[w] : state'[x] \in Queued /\ (state'[x] \in Running => x = n)
      BY <1>6, <1>8, <2>1 DEF Queued, Running, Typed
    <2>3. \A x \in cleanup[w] : x \in Sandbox /\ x # s /\ x # n /\ state[x] \in Ended
      BY <1>1, <1>6, <1>7, <1>13 DEF Thread, s, Typed, Ended
    <2> QED BY <1>1, <1>3, <1>4, <1>8, <1>13, <2>2, <2>3, InstanceAssumption DEF Thread
  <1>15. CacheAt(w)'
    <2>1. Descriptor(memory[n])' = Descriptor(memory[n])
      BY <1>4 DEF Descriptor
    <2>2. n # NULL
      BY InstanceAssumption
    <2> QED BY <1>3, <1>4, <2>1, <2>2 DEF CacheAt
  <1>16. GlobalsAt(w)'
    <2>1. ASSUME NEW x \in runq[w]
          PROVE  GlobalsOf(w, x)'
      <3>1. GlobalsOf(w, x) /\ x \in Sandbox
        BY <1>6 DEF IInv, GlobalsAt, Typed
      <3>2. CASE x = n
        BY <1>1, <1>3, <1>4, <1>9, <3>1, <3>2, GlobalsResumed DEF s
      <3>3. CASE x = s
        <4>1. globals[x] \in [Global -> [type : {"UNUSED", "I32", "I64"}, value : Value]]
          BY <1>6, <3>1 DEF Typed
        <4> QED BY <1>1, <1>3, <1>4, <1>9, <3>1, <3>3, <4>1, GlobalsSaved DEF s
      <3>4. CASE x # n /\ x # s
        BY <1>3, <1>4, <1>9, <3>1, <3>4, GlobalsUnmoved DEF s
      <3> QED BY <3>2, <3>3, <3>4
    <2> QED BY <1>4, <2>1 DEF GlobalsAt
  <1>17. Local(w)
    <2>1. \A v \in Worker : v # w => SameThread(v)
      BY <1>3, <1>4 DEF SameThread
    <2>2. \A x \in Sandbox : Owns(w, x)' => Owns(w, x)
      BY <1>1, <1>3, <1>4 DEF Owns
    <2>3. \A x \in Sandbox : ~Owns(w, x) => x # s /\ x # n
      BY <1>1, <1>2 DEF Owns
    <2>4. \A x \in Sandbox : ~Owns(w, x) => Same(x)
      BY <1>4, <1>8, <1>9, <2>3 DEF Same
    <2> QED BY <2>1, <2>2, <2>4 DEF Local
  <1> QED BY <1>10, <1>11, <1>12, <1>14, <1>15, <1>16, <1>17, WorkerStep

\* What the cooperative scheduler does to the sandbox it leaves: it goes to the cleanup queue.
LEMMA LeaveEffect ==
    ASSUME Typed, NEW w \in Worker, leave_exiting(w)
    PROVE  /\ exiting' \in [Worker -> Sandbox \cup {NULL}] /\ exiting'[w] = NULL
           /\ cleanup' \in [Worker -> SUBSET Sandbox]
           /\ \A x : x \in cleanup'[w] <=> x \in cleanup[w] \/ (x = exiting[w] /\ x # NULL)
           /\ \A v \in Worker : v # w => exiting'[v] = exiting[v] /\ cleanup'[v] = cleanup[v]
           /\ globals' \in [Sandbox -> [Global -> [type : {"UNUSED", "I32", "I64"}, value : Value]]]
           /\ \A x \in Sandbox : x # exiting[w] => globals'[x] = globals[x]
  <1>1. exiting' \in [Worker -> Sandbox \cup {NULL}] /\ exiting'[w] = NULL /\ \A v \in Worker : v # w => exiting'[v] = exiting[v]
    BY DEF Typed, leave_exiting
  <1>2. CASE exiting[w] = NULL
    <2>1. UNCHANGED <<globals, cleanup>>
      BY <1>2 DEF leave_exiting
    <2> QED BY <1>1, <1>2, <2>1 DEF Typed
  <1>3. CASE exiting[w] # NULL
    <2>1. /\ globals' = [globals EXCEPT ![exiting[w]][0] = [type |-> "I64", value |-> cache[w].g0]]
          /\ cleanup' = [cleanup EXCEPT ![w] = cleanup[w] \cup {exiting[w]}]
      BY <1>3 DEF leave_exiting, write_back_global_0
    <2>2. exiting[w] \in Sandbox
      BY <1>3 DEF Typed
    <2>3. /\ cleanup' \in [Worker -> SUBSET Sandbox]
          /\ \A x : x \in cleanup'[w] <=> x \in cleanup[w] \/ x = exiting[w]
          /\ \A v \in Worker : v # w => cleanup'[v] = cleanup[v]
      BY <2>1, <2>2 DEF Typed
    <2>4. cache[w].g0 \in Value
      BY DEF Typed, Cached
    <2>5. [type |-> "I64", value |-> cache[w].g0] \in [type : {"UNUSED", "I32", "I64"}, value : Value]
      BY <2>4
    <2>6. globals' \in [Sandbox -> [Global -> [type : {"UNUSED", "I32", "I64"}, value : Value]]]
      BY <2>1, <2>2, <2>5 DEF Typed
    <2>7. \A x \in Sandbox : x # exiting[w] => globals'[x] = globals[x]
      BY <2>1 DEF Typed
    <2> QED BY <1>1, <1>3, <2>3, <2>6, <2>7
  <1> QED BY <1>2, <1>3

\* The cooperative scheduler switches to the next sandbox.
LEMMA CooperativeStep ==
    ASSUME IInv, NEW w \in Worker, NEW n \in Sandbox, scheduler_cooperative_switch_to(w, n)
    PROVE  IInv'
  <1>1. current[w] = NULL /\ n \in runq[w] /\ n # NULL
    BY InstanceAssumption DEF scheduler_cooperative_switch_to
  <1>2. Typed /\ Thread(w)
    BY DEF IInv, ThreadInv
  <1>3. /\ memory[n] \in 1 .. Len(mems) /\ module[n] \in Module
        /\ current' \in [Worker -> Sandbox \cup {NULL}] /\ current'[w] = n
        /\ cache' \in [Worker -> Cached]
        /\ cache'[w].memory = Descriptor(memory[n]) /\ cache'[w].table = module[n]
        /\ cache'[w].context = (IF context[n] THEN n ELSE NULL)
        /\ cache'[w].g0 = wasm_globals_update_if_used(w, n)
        /\ \A v \in Worker : v # w => current'[v] = current[v] /\ cache'[v] = cache[v]
    BY <1>1, SetEffect DEF scheduler_cooperative_switch_to
  <1>4. /\ exiting' \in [Worker -> Sandbox \cup {NULL}] /\ exiting'[w] = NULL
        /\ cleanup' \in [Worker -> SUBSET Sandbox]
        /\ \A x : x \in cleanup'[w] <=> x \in cleanup[w] \/ (x = exiting[w] /\ x # NULL)
        /\ \A v \in Worker : v # w => exiting'[v] = exiting[v] /\ cleanup'[v] = cleanup[v]
        /\ globals' \in [Sandbox -> [Global -> [type : {"UNUSED", "I32", "I64"}, value : Value]]]
        /\ \A x \in Sandbox : x # exiting[w] => globals'[x] = globals[x]
    BY <1>2, LeaveEffect DEF scheduler_cooperative_switch_to
  <1>5. /\ UNCHANGED <<loaded, phase, module, memory, stack, context, truth>>
        /\ UNCHANGED <<mems, mempool, runq>>
        /\ state' = [state EXCEPT ![n] = Dispatched(n)]
    BY DEF scheduler_cooperative_switch_to, modules, pools
  <1>6. /\ \A x \in runq[w] : x \in Sandbox /\ state[x] \in Queued /\ state[x] \notin Running /\ x # exiting[w]
        /\ \A x \in cleanup[w] : x \in Sandbox /\ state[x] \in Ended /\ x # n
        /\ exiting[w] # NULL => exiting[w] \in Sandbox /\ state[exiting[w]] \in Ended /\ exiting[w] # n
    <2>1. \A x \in runq[w] : x \in Sandbox /\ x # NULL /\ state[x] \in Queued /\ state[x] \notin Running
      <3>1. \A x \in Sandbox : x # NULL
        BY InstanceAssumption
      <3> QED BY <1>1, <1>2, <3>1 DEF Typed, Thread
    <2>2. \A x \in cleanup[w] : x \in Sandbox /\ state[x] \in Ended
      BY <1>2 DEF Typed, Thread
    <2>3. exiting[w] # NULL => exiting[w] \in Sandbox /\ state[exiting[w]] \in Ended
      BY <1>2 DEF Typed, Thread
    <2>4. \A x \in Sandbox : ~(state[x] \in Queued /\ state[x] \notin Running /\ state[x] \in Ended)
      BY DEF Queued, Running, Ended
    <2> QED BY <1>1, <2>1, <2>2, <2>3, <2>4
  <1>7. state'[n] \in Running /\ \A x \in Sandbox : x # n => state'[x] = state[x]
    BY <1>2, <1>5 DEF Typed, Dispatched, Running
  <1>8. Typed'
    <2>1. state' \in [Sandbox -> State]
      BY <1>2, <1>5 DEF Typed, Dispatched, State
    <2> QED BY <1>2, <1>3, <1>4, <1>5, <2>1 DEF Typed
  <1>9. StateInv'
    <2>1. \A x \in Sandbox : state'[x] = state[x] \/ (state[x] \in Queued /\ state'[x] \in Queued)
      BY <1>1, <1>6, <1>7 DEF Queued, Running
    <2> QED BY <1>5, <2>1, StatesStay DEF IInv
  <1>10. MemoryInv'
    BY <1>5, HoldersStay DEF IInv
  <1>11. Thread(w)'
    <2>1. \A x \in runq[w] : state'[x] \in Queued /\ (state'[x] \in Running => x = n)
      BY <1>6, <1>7 DEF Queued, Running
    <2>2. \A x \in cleanup'[w] : state'[x] \in Ended /\ x # n /\ x # NULL
      <3>1. \A x \in Sandbox : x # NULL
        BY InstanceAssumption
      <3>2. \A x \in cleanup'[w] : x \in Sandbox /\ state[x] \in Ended /\ x # n
        BY <1>4, <1>6
      <3> QED BY <1>7, <3>1, <3>2
    <2> QED BY <1>1, <1>3, <1>4, <1>5, <1>7, <2>1, <2>2 DEF Thread
  <1>12. CacheAt(w)'
    <2>1. Descriptor(memory[n])' = Descriptor(memory[n])
      BY <1>5 DEF Descriptor
    <2> QED BY <1>1, <1>3, <1>5, <2>1 DEF CacheAt
  <1>13. GlobalsAt(w)'
    <2>1. ASSUME NEW x \in runq[w]
          PROVE  GlobalsOf(w, x)'
      <3>1. GlobalsOf(w, x) /\ x \in Sandbox /\ globals'[x] = globals[x] /\ current[w] # x
        BY <1>1, <1>4, <1>6, InstanceAssumption DEF IInv, GlobalsAt
      <3>2. CASE x = n
        BY <1>3, <1>5, <3>1, <3>2, GlobalsResumed
      <3>3. CASE x # n
        BY <1>3, <1>5, <3>1, <3>3, GlobalsUnmoved
      <3> QED BY <3>2, <3>3
    <2> QED BY <1>5, <2>1 DEF GlobalsAt
  <1>14. Local(w)
    <2>1. \A v \in Worker : v # w => SameThread(v)
      BY <1>3, <1>4, <1>5 DEF SameThread
    <2>2. \A x \in Sandbox : Owns(w, x)' => Owns(w, x)
      BY <1>1, <1>3, <1>4, <1>5, InstanceAssumption DEF Owns
    <2>3. \A x \in Sandbox : ~Owns(w, x) => x # n /\ x # exiting[w]
      BY <1>1 DEF Owns
    <2>4. \A x \in Sandbox : ~Owns(w, x) => Same(x)
      BY <1>4, <1>5, <1>7, <2>3 DEF Same
    <2> QED BY <2>1, <2>2, <2>4 DEF Local
  <1> QED BY <1>8, <1>9, <1>10, <1>11, <1>12, <1>13, <1>14, WorkerStep

\* The worker leaves the last finished sandbox for its base context.
LEMMA BaseContextStep ==
    ASSUME IInv, NEW w \in Worker, scheduler_switch_to_base_context(w)
    PROVE  IInv'
  <1>1. exiting[w] # NULL /\ runq[w] = {}
    BY DEF scheduler_switch_to_base_context
  <1>2. Typed /\ Thread(w) /\ CacheAt(w)
    BY DEF IInv, ThreadInv
  <1>3. /\ exiting' \in [Worker -> Sandbox \cup {NULL}] /\ exiting'[w] = NULL
        /\ cleanup' \in [Worker -> SUBSET Sandbox]
        /\ \A x : x \in cleanup'[w] <=> x \in cleanup[w] \/ (x = exiting[w] /\ x # NULL)
        /\ \A v \in Worker : v # w => exiting'[v] = exiting[v] /\ cleanup'[v] = cleanup[v]
        /\ globals' \in [Sandbox -> [Global -> [type : {"UNUSED", "I32", "I64"}, value : Value]]]
        /\ \A x \in Sandbox : x # exiting[w] => globals'[x] = globals[x]
    BY <1>2, LeaveEffect DEF scheduler_switch_to_base_context
  <1>4. /\ UNCHANGED <<loaded, state, phase, module, memory, stack, context, truth>>
        /\ UNCHANGED <<mems, mempool, cache, current, runq>>
    BY DEF scheduler_switch_to_base_context, modules, pools
  <1>5. current[w] = NULL /\ state[exiting[w]] \in Ended
    BY <1>1, <1>2 DEF Thread
  <1>6. Typed'
    BY <1>2, <1>3, <1>4 DEF Typed
  <1>7. StateInv'
    BY <1>4, StatesStay DEF IInv
  <1>8. MemoryInv'
    BY <1>4, HoldersStay DEF IInv
  <1>9. Thread(w)'
    <2>1. \A x \in cleanup'[w] : state[x] \in Ended /\ x # NULL
      BY <1>2, <1>3, <1>5 DEF Thread
    <2> QED BY <1>1, <1>3, <1>4, <1>5, <2>1 DEF Thread
  <1>10. CacheAt(w)'
    BY <1>2, <1>4, <1>5 DEF CacheAt
  <1>11. GlobalsAt(w)'
    BY <1>1, <1>4 DEF GlobalsAt
  <1>12. Local(w)
    <2>1. \A v \in Worker : v # w => SameThread(v)
      BY <1>3, <1>4 DEF SameThread
    <2>2. \A x \in Sandbox : Owns(w, x)' => Owns(w, x)
      BY <1>3, <1>4, InstanceAssumption DEF Owns
    <2>3. \A x \in Sandbox : ~Owns(w, x) => Same(x)
      BY <1>3, <1>4 DEF Same, Owns
    <2> QED BY <2>1, <2>2, <2>3 DEF Local
  <1> QED BY <1>6, <1>7, <1>8, <1>9, <1>10, <1>11, <1>12, WorkerStep

-----------------------------------------------------------------------------
(***************************************************************************)
(* What the sandbox that executes does.                                    *)
(***************************************************************************)
\* What a step of sandbox s, which executes on worker w, changes: its own state, globals, context and
\* memory and the cached instance, which stays in agreement with them.
ExecutionEffect(w, s) ==
    /\ UNCHANGED <<loaded, module, memory, stack, mempool, current, exiting, runq, cleanup>>
    /\ state'[s] \in Running
    /\ \A v \in Worker : v # w => cache'[v] = cache[v]
    /\ \A x \in Sandbox : x # s => state'[x] = state[x]
    /\ \A x \in Sandbox : x # s => globals'[x] = globals[x]
    /\ \A x \in Sandbox : x # s => context'[x] = context[x]
    /\ \A x \in Sandbox : x # s => truth'[x] = truth[x]
    /\ Len(mems') = Len(mems)
    /\ \A i \in 1 .. Len(mems) : i # memory[s] => mems'[i] = mems[i]
    /\ cache'[w].memory = Descriptor(memory[s])'
    /\ cache'[w].table = cache[w].table
    /\ cache'[w].context = (IF context'[s] THEN s ELSE NULL)

\* What remains to be shown of a step of the sandbox that executes.
LEMMA ExecutionStep ==
    ASSUME IInv, NEW w \in Worker, NEW s, s = current[w], s # NULL, state[s] \in Running,
           ExecutionEffect(w, s), GlobalsOf(w, s)', Typed'
    PROVE  IInv'
  <1> USE DEF ExecutionEffect
  <1>1. s \in Sandbox /\ s \in runq[w] /\ memory[s] \in 1 .. Len(mems)
    BY CurrentIs
  <1>2. Typed /\ Thread(w)
    BY DEF IInv, ThreadInv
  <1>3. StateInv'
    <2>1. state[s] \in Queued /\ state'[s] \in Queued /\ state[s] \notin Fresh
      BY DEF Running, Queued, Fresh
    <2>2. \A x \in Sandbox : state'[x] = state[x] \/ (state[x] \in Queued /\ state'[x] \in Queued)
      BY <2>1
    <2>3. \A x \in Sandbox : state[x] \in Fresh => truth'[x] = truth[x]
      BY <2>1
    <2> QED BY <2>2, <2>3, StatesStay DEF IInv
  <1>4. MemoryInv'
    BY HoldersStay DEF IInv
  <1>5. Thread(w)'
    <2>1. exiting[w] = NULL /\ \A x \in cleanup[w] : x \in Sandbox /\ x # s /\ state[x] \in Ended
      BY <1>2 DEF Thread, Typed
    <2>2. \A x \in runq[w] : x \in Sandbox /\ state[x] \in Queued /\ (state[x] \in Running => x = s)
      BY <1>2 DEF Thread, Typed
    <2>3. \A x \in runq[w] : state'[x] \in Queued /\ (state'[x] \in Running => x = s)
      BY <2>2 DEF Queued, Running
    <2> QED BY <1>1, <1>2, <2>1, <2>3 DEF Thread
  <1>6. CacheAt(w)'
    <2>1. cache[w].table = module[s]
      BY DEF IInv, CacheAt
    <2> QED BY <2>1 DEF CacheAt
  <1>7. GlobalsAt(w)'
    <2>1. ASSUME NEW x \in runq[w]
          PROVE  GlobalsOf(w, x)'
      <3>1. GlobalsOf(w, x) /\ x \in Sandbox
        BY <1>2 DEF IInv, GlobalsAt, Typed
      <3>2. CASE x = s
        BY <3>2
      <3>3. CASE x # s
        BY <3>1, <3>3, GlobalsUnmoved
      <3> QED BY <3>2, <3>3
    <2> QED BY <2>1 DEF GlobalsAt
  <1>8. Local(w)
    <2>1. \A v \in Worker : v # w => SameThread(v)
      BY DEF SameThread
    <2>2. \A x \in Sandbox : Owns(w, x)' => Owns(w, x)
      BY DEF Owns
    <2>3. \A x \in Sandbox : x # s /\ memory[x] # 0 => memory[x] \in 1 .. Len(mems) /\ memory[x] # memory[s]
      BY <1>1, <1>2, MemoryOfOne, SMT DEF Typed, IInv
    <2>4. \A x \in Sandbox : ~Owns(w, x) => x # s
      BY DEF Owns
    <2>5. \A x \in Sandbox : ~Owns(w, x) => Same(x)
      BY <2>3, <2>4 DEF Same
    <2> QED BY <2>1, <2>2, <2>5 DEF Local
  <1> QED BY <1>3, <1>4, <1>5, <1>6, <1>7, <1>8, WorkerStep

\* The data segment is copied into page 0 and the WASI context is set.
LEMMA InitStep ==
    ASSUME IInv, NEW w \in Worker, current_sandbox_init(w)
    PROVE  IInv'
  <1>0. current[w] # NULL /\ state[current[w]] = "RUNNING_SYS"
    BY DEF current_sandbox_init, Executes
  <1> SUFFICES ASSUME NEW s \in Sandbox, s = current[w], NEW i \in 1 .. Len(mems), i = memory[s],
                      NEW d \in Data, d = Datum(s, 0, cache[w].memory.size)
               PROVE  IInv'
    BY <1>0, CurrentIs, DatumIs DEF Running
  <1>1. s # NULL /\ state[s] = "RUNNING_SYS"
    BY <1>0
  <1>2. s \in runq[w] /\ cache[w].memory.buffer = i /\ cache[w].memory = Descriptor(i) /\ 0 \in Page
    BY <1>1, CurrentIs DEF Running
  <1>3. Typed /\ CacheAt(w) /\ GlobalsOf(w, s)
    BY <1>2 DEF IInv, GlobalsAt
  <1>4. /\ mems' = [mems EXCEPT ![i].pages[0] = d]
        /\ truth' = [truth EXCEPT ![s].pages[0] = d]
        /\ context' = [context EXCEPT ![s] = TRUE]
        /\ cache' = [cache EXCEPT ![w].context = s]
        /\ state' = [state EXCEPT ![s] = "RUNNING_USER"]
        /\ phase' = [phase EXCEPT ![s] = "globals"]
        /\ UNCHANGED <<loaded, module, memory, stack, globals, mempool>>
        /\ UNCHANGED <<current, exiting, runq, cleanup>>
    BY <1>2 DEF current_sandbox_init, modules
  <1>5. /\ mems' \in Seq(LinearMemory) /\ Len(mems') = Len(mems)
        /\ \A j \in 1 .. Len(mems) : j # i => mems'[j] = mems[j]
        /\ mems'[i] = Written(mems[i], 0, d)
    <2>1. mems \in Seq(LinearMemory)
      BY <1>3 DEF Typed
    <2>2. mems' = Stored(mems, i, 0, d)
      BY <1>4 DEF Stored
    <2>3. 0 \in Page
      BY <1>2
    <2> QED BY <2>1, <2>2, <2>3, StoreEffect
  <1>6. /\ truth[s] \in History /\ cache[w] \in Cached /\ mems[i] \in LinearMemory
        /\ truth \in [Sandbox -> History] /\ cache \in [Worker -> Cached]
    BY <1>2, <1>3, SeqIs DEF Typed
  <1>7. /\ truth' \in [Sandbox -> History] /\ truth'[s].globals = truth[s].globals
        /\ \A x \in Sandbox : x # s => truth'[x] = truth[x]
    BY <1>2, <1>4, <1>6 DEF History
  <1>8. /\ cache' \in [Worker -> Cached] /\ cache'[w].memory = cache[w].memory /\ cache'[w].table = cache[w].table
        /\ cache'[w].g0 = cache[w].g0 /\ cache'[w].context = s
        /\ \A v \in Worker : v # w => cache'[v] = cache[v]
    BY <1>2, <1>4, <1>6 DEF Cached
  <1>9. Descriptor(memory[s])' = Descriptor(i)
    <2>1. mems'[i].size = mems[i].size /\ mems'[i].capacity = mems[i].capacity
      BY <1>5, <1>6 DEF LinearMemory, Written
    <2>2. memory'[s] = i
      BY <1>4
    <2> QED BY <2>1, <2>2 DEF Descriptor
  <1>10. Typed'
    <2>1. state' \in [Sandbox -> State] /\ phase' \in [Sandbox -> Phase] /\ context' \in [Sandbox -> BOOLEAN]
      <3>1. "RUNNING_USER" \in State /\ "globals" \in Phase
        BY DEF State, Phase
      <3> QED BY <1>2, <1>3, <1>4, <3>1 DEF Typed
    <2> QED BY <1>3, <1>4, <1>5, <1>7, <1>8, <2>1 DEF Typed
  <1>11. GlobalsOf(w, s)'
    <2>1. current'[w] = s /\ current[w] = s
      BY <1>4
    <2>2. \A j : get_global(w, j)' = get_global(w, j)
      BY <1>4, <1>8, <2>1 DEF get_global
    <2> QED BY <1>3, <1>4, <1>7, <2>1, <2>2, SMT DEF GlobalsOf
  <1>12. state'[s] = "RUNNING_USER" /\ context'[s] = TRUE /\ \A x \in Sandbox : x # s => state'[x] = state[x] /\ context'[x] = context[x]
    BY <1>2, <1>3, <1>4 DEF Typed
  <1>13. ExecutionEffect(w, s)
    BY <1>2, <1>4, <1>5, <1>7, <1>8, <1>9, <1>12 DEF ExecutionEffect, Running
  <1> QED BY <1>1, <1>10, <1>11, <1>13, ExecutionStep DEF Running

\* A global is set where it is read from: global 0 in the cache, the others in the sandbox.
LEMMA SetGlobalEffect ==
    ASSUME Typed, NEW w \in Worker, NEW s \in Sandbox, s = current[w], s = current'[w],
           NEW i \in Global, NEW v \in Value, set_global(w, i, v)
    PROVE  /\ cache' \in [Worker -> Cached] /\ \A u \in Worker : u # w => cache'[u] = cache[u]
           /\ cache'[w].memory = cache[w].memory /\ cache'[w].table = cache[w].table
           /\ cache'[w].context = cache[w].context
           /\ globals' \in [Sandbox -> [Global -> [type : {"UNUSED", "I32", "I64"}, value : Value]]]
           /\ \A x \in Sandbox : x # s => globals'[x] = globals[x]
           /\ get_global(w, i)' = v
           /\ \A j \in Global : j # i => get_global(w, j)' = get_global(w, j)
  <1>1. /\ cache \in [Worker -> Cached] /\ cache[w] \in Cached
        /\ globals \in [Sandbox -> [Global -> [type : {"UNUSED", "I32", "I64"}, value : Value]]]
    BY DEF Typed
  <1>2. CASE i = 0
    <2>1. cache' = [cache EXCEPT ![w].g0 = v] /\ UNCHANGED globals
      BY <1>2 DEF set_global
    <2>2. /\ cache' \in [Worker -> Cached] /\ \A u \in Worker : u # w => cache'[u] = cache[u]
          /\ cache'[w].memory = cache[w].memory /\ cache'[w].table = cache[w].table
          /\ cache'[w].context = cache[w].context /\ cache'[w].g0 = v
      BY <1>1, <2>1 DEF Cached
    <2>3. get_global(w, i)' = v /\ \A j \in Global : j # i => get_global(w, j)' = get_global(w, j)
      BY <1>2, <2>1, <2>2 DEF get_global
    <2> QED BY <1>1, <2>1, <2>2, <2>3
  <1>3. CASE i # 0
    <2> DEFINE g == [type |-> "I32", value |-> v]
    <2>1. UNCHANGED cache /\ globals' = [globals EXCEPT ![s][i] = g]
      BY <1>3 DEF set_global
    <2>2. g \in [type : {"UNUSED", "I32", "I64"}, value : Value] /\ g.value = v
      OBVIOUS
    <2> HIDE DEF g
    <2>3. /\ globals' \in [Sandbox -> [Global -> [type : {"UNUSED", "I32", "I64"}, value : Value]]]
          /\ globals'[s][i] = g /\ \A x \in Sandbox : x # s => globals'[x] = globals[x]
          /\ \A j \in Global : j # i => globals'[s][j] = globals[s][j]
      BY <1>1, <2>1, <2>2
    <2>4. get_global(w, i)' = v /\ \A j \in Global : j # i => get_global(w, j)' = get_global(w, j)
      BY <1>3, <2>1, <2>2, <2>3 DEF get_global
    <2> QED BY <1>1, <2>1, <2>3, <2>4
  <1> QED BY <1>2, <1>3

\* populate_globals stores one global, or has stored the last one.
LEMMA InitGlobalsStep ==
    ASSUME IInv, NEW w \in Worker, module_initialize_globals(w)
    PROVE  IInv'
  <1>0. current[w] # NULL /\ state[current[w]] = "RUNNING_USER"
    BY DEF module_initialize_globals, Executes
  <1> SUFFICES ASSUME NEW s \in Sandbox, s = current[w]
               PROVE  IInv'
    BY <1>0, CurrentIs DEF Running
  <1>1. s # NULL /\ state[s] \in Running /\ s \in runq[w] /\ cache[w].memory = Descriptor(memory[s])
    BY <1>0, CurrentIs DEF Running
  <1>2. Typed /\ CacheAt(w) /\ GlobalsOf(w, s)
    BY <1>1 DEF IInv, GlobalsAt
  <1>3. /\ UNCHANGED <<loaded, state, module, memory, stack, context>>
        /\ UNCHANGED <<mems, mempool, current, exiting, runq, cleanup>>
    BY DEF module_initialize_globals, modules, pools
  <1>4. /\ cache[w].context = (IF context[s] THEN s ELSE NULL)
        /\ Descriptor(memory[s])' = Descriptor(memory[s])
    BY <1>1, <1>2, <1>3 DEF CacheAt, Descriptor
  <1>5. truth[s] \in History /\ truth[s].globals \in Seq(Value) /\ Len(truth[s].globals) \in Nat
    BY <1>2, SeqIs DEF Typed, History
  <1>6. CASE phase' = [phase EXCEPT ![s] = "user"] /\ UNCHANGED <<cache, globals, truth>>
    <2>1. phase' \in [Sandbox -> Phase]
      BY <1>2, <1>6 DEF Typed, Phase
    <2>2. Typed'
      BY <1>2, <1>3, <1>6, <2>1 DEF Typed
    <2>3. GlobalsOf(w, s)'
      <3>1. \A j : get_global(w, j)' = get_global(w, j)
        BY <1>3, <1>6 DEF get_global
      <3> QED BY <1>2, <1>3, <1>6, <3>1 DEF GlobalsOf
    <2>4. ExecutionEffect(w, s)
      BY <1>1, <1>3, <1>4, <1>6 DEF ExecutionEffect
    <2> QED BY <1>1, <2>2, <2>3, <2>4, ExecutionStep
  <1>7. ASSUME NEW i, i = Len(truth[s].globals), i < GlobalsLen, set_global(w, i, <<s, 1>>),
               truth' = [truth EXCEPT ![s].globals = Append(truth[s].globals, <<s, 1>>)], UNCHANGED phase
        PROVE  IInv'
    <2> DEFINE v == <<s, 1>>
    <2>1. i \in Global /\ v \in Value
      BY <1>5, <1>7, InstanceAssumption, SMT DEF Global, Value
    <2>2. v = <<s, 1>>
      OBVIOUS
    <2> HIDE DEF v
    <2>3. /\ cache' \in [Worker -> Cached] /\ \A u \in Worker : u # w => cache'[u] = cache[u]
          /\ cache'[w].memory = cache[w].memory /\ cache'[w].table = cache[w].table
          /\ cache'[w].context = cache[w].context
          /\ globals' \in [Sandbox -> [Global -> [type : {"UNUSED", "I32", "I64"}, value : Value]]]
          /\ \A x \in Sandbox : x # s => globals'[x] = globals[x]
          /\ get_global(w, i)' = v
          /\ \A j \in Global : j # i => get_global(w, j)' = get_global(w, j)
      BY <1>2, <1>3, <1>7, <2>1, <2>2, SetGlobalEffect
    <2>4. /\ Append(truth[s].globals, v) \in Seq(Value) /\ Len(Append(truth[s].globals, v)) = i + 1
          /\ Append(truth[s].globals, v)[i + 1] = v
          /\ \A j \in 1 .. i : Append(truth[s].globals, v)[j] = truth[s].globals[j]
      BY <1>5, <1>7, <2>1, SMT
    <2>5. /\ truth' \in [Sandbox -> History] /\ truth'[s].globals = Append(truth[s].globals, v)
          /\ \A x \in Sandbox : x # s => truth'[x] = truth[x]
      <3>1. truth \in [Sandbox -> History] /\ truth' = [truth EXCEPT ![s].globals = Append(truth[s].globals, v)]
        BY <1>2, <1>7, <2>2 DEF Typed
      <3> QED BY <1>5, <2>4, <3>1 DEF History
    <2>6. Typed'
      BY <1>2, <1>3, <1>7, <2>3, <2>5 DEF Typed
    <2>7. GlobalsOf(w, s)'
      <3>1. ASSUME NEW j \in 1 .. Len(truth'[s].globals)
            PROVE  truth'[s].globals[j] = get_global(w, j - 1)'
        <4>0. i \in Nat /\ GlobalsLen \in Nat /\ Len(truth'[s].globals) = i + 1
          BY <1>5, <1>7, <2>4, <2>5, InstanceAssumption
        <4>1. CASE j = i + 1
          <5>1. j - 1 = i
            BY <4>0, <4>1, SMT
          <5> QED BY <2>3, <2>4, <2>5, <4>1, <5>1
        <4>2. CASE j # i + 1
          <5>0. j \in 1 .. i + 1 /\ i < GlobalsLen
            BY <1>7, <4>0
          <5>1. j \in 1 .. i /\ j - 1 \in Global /\ j - 1 # i
            BY <4>0, <4>2, <5>0, SMT DEF Global
          <5>2. truth[s].globals[j] = get_global(w, j - 1)
            BY <1>2, <1>7, <5>1 DEF GlobalsOf
          <5> QED BY <2>3, <2>4, <2>5, <5>1, <5>2
        <4> QED BY <4>1, <4>2
      <3>2. Len(truth'[s].globals) <= GlobalsLen
        BY <1>5, <1>7, <2>4, <2>5, InstanceAssumption, SMT
      <3>3. current'[w] = s
        BY <1>3
      <3> QED BY <3>1, <3>2, <3>3 DEF GlobalsOf
    <2>8. ExecutionEffect(w, s)
      BY <1>1, <1>3, <1>4, <2>3, <2>5 DEF ExecutionEffect
    <2> QED BY <1>1, <2>6, <2>7, <2>8, ExecutionStep
  <1>8. \/ /\ phase' = [phase EXCEPT ![s] = "user"] /\ UNCHANGED <<cache, globals, truth>>
        \/ /\ Len(truth[s].globals) < GlobalsLen /\ set_global(w, Len(truth[s].globals), <<s, 1>>)
           /\ truth' = [truth EXCEPT ![s].globals = Append(truth[s].globals, <<s, 1>>)] /\ UNCHANGED phase
    BY DEF module_initialize_globals
  <1> QED BY <1>6, <1>7, <1>8

\* global.set in the module's code.
LEMMA GlobalSetStep ==
    ASSUME IInv, NEW w \in Worker, NEW i \in Assigned, instruction_global_set(w, i)
    PROVE  IInv'
  <1>0. current[w] # NULL /\ state[current[w]] = "RUNNING_USER"
    BY DEF instruction_global_set, Executes
  <1> SUFFICES ASSUME NEW s \in Sandbox, s = current[w]
               PROVE  IInv'
    BY <1>0, CurrentIs DEF Running
  <1>1. s # NULL /\ state[s] \in Running /\ s \in runq[w] /\ cache[w].memory = Descriptor(memory[s])
    BY <1>0, CurrentIs DEF Running
  <1>2. Typed /\ CacheAt(w) /\ GlobalsOf(w, s)
    BY <1>1 DEF IInv, GlobalsAt
  <1>3. /\ UNCHANGED <<loaded, state, phase, module, memory, stack, context>>
        /\ UNCHANGED <<mems, mempool, current, exiting, runq, cleanup>>
    BY DEF instruction_global_set, modules, pools
  <1>4. /\ cache[w].context = (IF context[s] THEN s ELSE NULL)
        /\ Descriptor(memory[s])' = Descriptor(memory[s])
    BY <1>1, <1>2, <1>3 DEF CacheAt, Descriptor
  <1> DEFINE v == <<s, 2>>
             g == truth[s].globals
  <1>5. truth[s] \in History /\ g \in Seq(Value) /\ Len(g) \in Nat /\ DOMAIN g = 1 .. Len(g)
    BY <1>2, SeqIs DEF Typed, History
  <1>6. i \in Global /\ v \in Value /\ i \in Nat
    BY InstanceAssumption, SMT DEF Global, Value
  <1>7. set_global(w, i, v) /\ truth' = [truth EXCEPT ![s].globals[i + 1] = v]
    BY DEF instruction_global_set
  <1> HIDE DEF v
  <1>8. /\ cache' \in [Worker -> Cached] /\ \A u \in Worker : u # w => cache'[u] = cache[u]
        /\ cache'[w].memory = cache[w].memory /\ cache'[w].table = cache[w].table
        /\ cache'[w].context = cache[w].context
        /\ globals' \in [Sandbox -> [Global -> [type : {"UNUSED", "I32", "I64"}, value : Value]]]
        /\ \A x \in Sandbox : x # s => globals'[x] = globals[x]
        /\ get_global(w, i)' = v
        /\ \A j \in Global : j # i => get_global(w, j)' = get_global(w, j)
    BY <1>2, <1>3, <1>6, <1>7, SetGlobalEffect
  <1> DEFINE h == [g EXCEPT ![i + 1] = v]
  <1>9. h \in Seq(Value) /\ Len(h) = Len(g) /\ \A j \in 1 .. Len(g) : h[j] = IF j = i + 1 THEN v ELSE g[j]
    <2>1. CASE i + 1 \in 1 .. Len(g)
      <3> HIDE DEF g
      <3> QED BY <1>5, <1>6, <2>1, SMT
    <2>2. CASE i + 1 \notin 1 .. Len(g)
      <3> HIDE DEF g
      <3>0. g = [j \in DOMAIN g |-> g[j]]
        BY <1>5, SMT
      <3>1. h = g
        BY <1>5, <2>2, <3>0
      <3> HIDE DEF h
      <3> QED BY <1>5, <2>2, <3>1
    <2> QED BY <2>1, <2>2
  <1>10. /\ truth' \in [Sandbox -> History] /\ truth'[s].globals = h
         /\ \A x \in Sandbox : x # s => truth'[x] = truth[x]
    <2>1. truth \in [Sandbox -> History] /\ truth' = [truth EXCEPT ![s].globals = h]
      BY <1>2, <1>7 DEF Typed
    <2> HIDE DEF h
    <2> QED BY <1>5, <1>9, <2>1 DEF History
  <1> HIDE DEF h
  <1>11. Typed'
    BY <1>2, <1>3, <1>8, <1>10 DEF Typed
  <1>12. GlobalsOf(w, s)'
    <2>1. ASSUME NEW j \in 1 .. Len(g)
          PROVE  h[j] = get_global(w, j - 1)'
      <3>1. CASE j = i + 1
        <4>1. j - 1 = i
          BY <1>6, <3>1, SMT
        <4> QED BY <1>8, <1>9, <3>1, <4>1
      <3>2. CASE j # i + 1
        <4>1. Len(g) <= GlobalsLen
          BY <1>2 DEF GlobalsOf
        <4>2. j - 1 \in Global /\ j - 1 # i
          BY <1>5, <1>6, <3>2, <4>1, InstanceAssumption, SMT DEF Global
        <4>3. g[j] = get_global(w, j - 1)
          BY <1>2 DEF GlobalsOf
        <4> QED BY <1>8, <1>9, <3>2, <4>2, <4>3
      <3> QED BY <3>1, <3>2
    <2>2. Len(g) <= GlobalsLen /\ current'[w] = s
      BY <1>2, <1>3 DEF GlobalsOf
    <2> QED BY <1>9, <1>10, <2>1, <2>2 DEF GlobalsOf
  <1>13. ExecutionEffect(w, s)
    BY <1>1, <1>3, <1>4, <1>8, <1>10 DEF ExecutionEffect
  <1> QED BY <1>1, <1>11, <1>12, <1>13, ExecutionStep

\* A store into the linear memory.
LEMMA StoreStep ==
    ASSUME IInv, NEW w \in Worker, NEW p \in Page, instruction_store(w, p)
    PROVE  IInv'
  <1>0. current[w] # NULL /\ state[current[w]] = "RUNNING_USER"
    BY DEF instruction_store, Executes
  <1> SUFFICES ASSUME NEW s \in Sandbox, s = current[w], NEW i \in 1 .. Len(mems), i = memory[s],
                      NEW d \in Data, d = Datum(s, p, cache[w].memory.size)
               PROVE  IInv'
    BY <1>0, CurrentIs, DatumIs DEF Running
  <1>1. /\ s # NULL /\ state[s] \in Running /\ s \in runq[w]
        /\ cache[w].memory.buffer = i /\ cache[w].memory = Descriptor(i) /\ mems[i] \in LinearMemory
    BY <1>0, CurrentIs DEF Running
  <1>2. Typed /\ CacheAt(w) /\ GlobalsOf(w, s)
    BY <1>1 DEF IInv, GlobalsAt
  <1>3. /\ mems' = Stored(mems, i, p, d)
        /\ truth' = [truth EXCEPT ![s].pages[p] = d]
        /\ UNCHANGED <<loaded, state, phase, module, memory, stack, globals, context>>
        /\ UNCHANGED <<mempool, cache, current, exiting, runq, cleanup>>
    BY <1>1 DEF instruction_store, modules, threads, Stored
  <1>4. mems \in Seq(LinearMemory) /\ truth \in [Sandbox -> History] /\ truth[s] \in History
    BY <1>2 DEF Typed
  <1>5. /\ mems' \in Seq(LinearMemory) /\ Len(mems') = Len(mems)
        /\ \A j \in 1 .. Len(mems) : j # i => mems'[j] = mems[j]
        /\ mems'[i] = Written(mems[i], p, d)
    BY <1>3, <1>4, StoreEffect
  <1>6. /\ truth' \in [Sandbox -> History] /\ truth'[s].globals = truth[s].globals
        /\ \A x \in Sandbox : x # s => truth'[x] = truth[x]
    BY <1>3, <1>4 DEF History
  <1>7. /\ Descriptor(memory[s])' = Descriptor(i)
        /\ cache[w].context = (IF context[s] THEN s ELSE NULL)
    <2>1. mems'[i].size = mems[i].size /\ mems'[i].capacity = mems[i].capacity
      BY <1>1, <1>5 DEF LinearMemory, Written
    <2> QED BY <1>1, <1>2, <1>3, <2>1 DEF Descriptor, CacheAt
  <1>8. Typed'
    BY <1>2, <1>3, <1>5, <1>6 DEF Typed
  <1>9. GlobalsOf(w, s)'
    <2>1. \A j : get_global(w, j)' = get_global(w, j)
      BY <1>3 DEF get_global
    <2> QED BY <1>2, <1>3, <1>6, <2>1, SMT DEF GlobalsOf
  <1>10. ExecutionEffect(w, s)
    BY <1>1, <1>3, <1>5, <1>6, <1>7 DEF ExecutionEffect
  <1> QED BY <1>1, <1>8, <1>9, <1>10, ExecutionStep

\* memory.grow.
LEMMA GrowStep ==
    ASSUME IInv, NEW w \in Worker, NEW n \in Grow, sledge_abi__wasm_memory_expand(w, n)
    PROVE  IInv'
  <1>0. current[w] # NULL /\ state[current[w]] = "RUNNING_USER"
    BY DEF sledge_abi__wasm_memory_expand, Executes
  <1> SUFFICES ASSUME NEW s \in Sandbox, s = current[w], NEW i \in 1 .. Len(mems), i = memory[s]
               PROVE  IInv'
    BY <1>0, CurrentIs DEF Running
  <1>1. s # NULL /\ state[s] \in Running /\ s \in runq[w]
    BY <1>0, CurrentIs DEF Running
  <1>2. Typed /\ CacheAt(w) /\ GlobalsOf(w, s)
    BY <1>1 DEF IInv, GlobalsAt
  <1>3. /\ truth' = [truth EXCEPT ![s].size = truth[s].size + n]
        /\ UNCHANGED <<loaded, state, phase, module, memory, stack, globals, context>>
        /\ UNCHANGED <<mempool, current, exiting, runq, cleanup>>
    BY <1>1 DEF sledge_abi__wasm_memory_expand, modules
  <1> DEFINE e == wasm_memory_expand(cache[w].memory, cache[w].memory.size + Bytes32(n))
  <1>4. /\ mems' \in Seq(LinearMemory) /\ Len(mems') = Len(mems)
        /\ \A j \in 1 .. Len(mems) : j # i => mems'[j] = mems[j]
        /\ cache' = [cache EXCEPT ![w].memory = e]
        /\ e = Descriptor(memory[current[w]])'
        /\ e \in [size : 0 .. MaxPages, capacity : 0 .. MaxPages, buffer : Nat]
    BY GrowEffect
  <1> HIDE DEF e
  <1>5. e = Descriptor(memory[s])'
    BY <1>3, <1>4
  <1>6. /\ truth \in [Sandbox -> History] /\ truth[s] \in History /\ cache \in [Worker -> Cached] /\ cache[w] \in Cached
        /\ truth[s].size + n \in Nat
    <2>1. truth \in [Sandbox -> History] /\ truth[s] \in History /\ cache \in [Worker -> Cached] /\ cache[w] \in Cached
      BY <1>2 DEF Typed
    <2>2. truth[s].size \in Nat /\ n \in Nat
      BY <2>1, InstanceAssumption DEF History
    <2> QED BY <2>1, <2>2, SMT
  <1>7. /\ truth' \in [Sandbox -> History] /\ truth'[s].globals = truth[s].globals
        /\ \A x \in Sandbox : x # s => truth'[x] = truth[x]
    BY <1>3, <1>6 DEF History
  <1>8. /\ cache' \in [Worker -> Cached] /\ cache'[w].memory = e /\ cache'[w].table = cache[w].table
        /\ cache'[w].context = cache[w].context /\ cache'[w].g0 = cache[w].g0
        /\ \A v \in Worker : v # w => cache'[v] = cache[v]
    BY <1>4, <1>6 DEF Cached
  <1>9. cache[w].context = (IF context[s] THEN s ELSE NULL)
    BY <1>1, <1>2 DEF CacheAt
  <1>10. Typed'
    BY <1>2, <1>3, <1>4, <1>7, <1>8 DEF Typed
  <1>11. GlobalsOf(w, s)'
    <2>1. \A j : get_global(w, j)' = get_global(w, j)
      BY <1>3, <1>8 DEF get_global
    <2> QED BY <1>2, <1>3, <1>7, <2>1, SMT DEF GlobalsOf
  <1>12. ExecutionEffect(w, s)
    BY <1>1, <1>3, <1>4, <1>5, <1>7, <1>8, <1>9 DEF ExecutionEffect
  <1> QED BY <1>1, <1>10, <1>11, <1>12, ExecutionStep

-----------------------------------------------------------------------------
(***************************************************************************)
(* Memories change hands: a sandbox ends, or is prepared for execution.    *)
(***************************************************************************)
\* The memory i of sandbox s, which ends on worker w, is cleared and goes to the pool of its module.
Recycled(w, s, i) ==
    /\ s \in Sandbox /\ s \in runq[w] /\ state[s] = "RUNNING_USER"
    /\ i \in 1 .. Len(mems) /\ module[s] \in Module /\ module[s] \in loaded
    /\ mems' \in Seq(LinearMemory) /\ Len(mems') = Len(mems)
    /\ mems'[i] = wasm_memory_reinit(i, Bytes32(StartingPages[module[s]]))
    /\ Bytes32(StartingPages[module[s]]) \in 0 .. MaxPages
    /\ \A j \in 1 .. Len(mems) : j # i => mems'[j] = mems[j]
    /\ memory' = [memory EXCEPT ![s] = 0]
    /\ mempool' \in [Module -> [Worker -> Seq(1 .. Len(mems))]]
    /\ \A m \in Module, v \in Worker : Distinct(mempool'[m][v])
    /\ \A m \in Module, v \in Worker : m \notin loaded => mempool'[m][v] = <<>>
    /\ \A m \in Module, v \in Worker : \A j :
           InPool(j, m, v)' <=> InPool(j, m, v) \/ (j = i /\ m = module[s] /\ v = w)

\* That is what current_sandbox_fini and the trap handler do with it.
LEMMA FinishEffect ==
    ASSUME IInv, NEW w \in Worker, NEW last, finish(w, last), NEW s, s = current[w], NEW i, i = memory[s]
    PROVE  Recycled(w, s, i)
  <1>1. s # NULL /\ state[s] = "RUNNING_USER"
    BY DEF finish, Executes
  <1>2. s \in Sandbox /\ s \in runq[w] /\ i \in 1 .. Len(mems) /\ module[s] \in Module /\ module[s] \in loaded
    BY <1>1, CurrentIs DEF Running
  <1>3. /\ mems \in Seq(LinearMemory) /\ mempool \in [Module -> [Worker -> Seq(1 .. Len(mems))]]
        /\ MemoryInv
    BY DEF IInv, Typed
  <1> DEFINE k == module[s]
             r == wasm_memory_reinit(i, Bytes32(StartingPages[k]))
             p == pool_add_nolock(mempool[k][w], i)
  <1>4. Bytes32(StartingPages[k]) \in 0 .. MaxPages
    <2>1. StartingPages[k] \in 1 .. MaxPages /\ StartingPages[k] \in Nat /\ MaxPages \in Nat
      BY <1>2, InstanceAssumption, SMT
    <2> QED BY <2>1, Bytes32Is, SMT
  <1>5. /\ mems' = [mems EXCEPT ![i] = r]
        /\ mempool' = [mempool EXCEPT ![k][w] = p]
        /\ memory' = [memory EXCEPT ![s] = 0]
    BY <1>2 DEF finish, sandbox_free_linear_memory, pool_of
  <1>6. r \in LinearMemory
    BY <1>2, <1>3, <1>4, ReinitIs
  <1>7. /\ mems' \in Seq(LinearMemory) /\ Len(mems') = Len(mems) /\ mems'[i] = r
        /\ \A j \in 1 .. Len(mems) : j # i => mems'[j] = mems[j]
    <2> HIDE DEF r
    <2> QED BY <1>2, <1>3, <1>5, <1>6, SeqUpdate, SMT
  <1>8. mempool[k][w] \in Seq(1 .. Len(mems)) /\ Distinct(mempool[k][w]) /\ ~Contains(mempool[k][w], i)
    <2>1. ~InPool(i, k, w)
      BY <1>2, <1>3, MemoryOfOne
    <2>2. mempool[k][w] \in Seq(1 .. Len(mems)) /\ Distinct(mempool[k][w])
      <3> HIDE DEF k
      <3> QED BY <1>2, <1>3 DEF MemoryInv, k
    <2> QED BY <2>1, <2>2 DEF InPool
  <1>9. /\ p \in Seq(1 .. Len(mems)) /\ Distinct(p)
        /\ \A j : Contains(p, j) <=> j = i \/ Contains(mempool[k][w], j)
    <2> DEFINE q == mempool[k][w]
               S == 1 .. Len(mems)
    <2>1. q \in Seq(S) /\ i \in S /\ Distinct(q) /\ ~Contains(q, i) /\ p = pool_add_nolock(q, i)
      BY <1>2, <1>8
    <2> HIDE DEF q, p, S
    <2>2. p \in Seq(S) /\ Distinct(p) /\ \A j : Contains(p, j) <=> j = i \/ Contains(q, j)
      BY <2>1, PoolAdd
    <2> QED BY <2>2 DEF q, S
  <1> HIDE DEF p, r
  <1>10. /\ mempool' \in [Module -> [Worker -> Seq(1 .. Len(mems))]]
         /\ mempool'[k][w] = p
         /\ \A m \in Module, v \in Worker : m # k \/ v # w => mempool'[m][v] = mempool[m][v]
    BY <1>2, <1>3, <1>5, <1>9
  <1>11. \A m \in Module, v \in Worker : Distinct(mempool'[m][v])
    BY <1>3, <1>9, <1>10 DEF MemoryInv
  <1>12. \A m \in Module, v \in Worker : m \notin loaded => mempool'[m][v] = <<>>
    BY <1>2, <1>3, <1>10 DEF MemoryInv
  <1>13. ASSUME NEW m \in Module, NEW v \in Worker, NEW j
         PROVE  InPool(j, m, v)' <=> InPool(j, m, v) \/ (j = i /\ m = k /\ v = w)
    <2>1. CASE m = k /\ v = w
      BY <1>9, <1>10, <2>1 DEF InPool
    <2>2. CASE m # k \/ v # w
      BY <1>10, <2>2 DEF InPool
    <2> QED BY <2>1, <2>2
  <1> QED BY <1>1, <1>2, <1>4, <1>5, <1>7, <1>10, <1>11, <1>12, <1>13 DEF r, Recycled

\* A sandbox returns or traps.
LEMMA FinishStep ==
    ASSUME IInv, NEW w \in Worker, NEW last \in {"RETURNED", "ERROR"}, finish(w, last)
    PROVE  IInv'
  <1> SUFFICES ASSUME NEW s, s = current[w], NEW i, i = memory[s]
               PROVE  IInv'
    OBVIOUS
  <1>1. /\ s \in Sandbox /\ s \in runq[w] /\ state[s] = "RUNNING_USER"
        /\ i \in 1 .. Len(mems) /\ module[s] \in Module
        /\ mems' \in Seq(LinearMemory) /\ Len(mems') = Len(mems)
        /\ \A j \in 1 .. Len(mems) : j # i => mems'[j] = mems[j]
        /\ memory' = [memory EXCEPT ![s] = 0]
        /\ mempool' \in [Module -> [Worker -> Seq(1 .. Len(mems))]]
        /\ \A m \in Module, v \in Worker : Distinct(mempool'[m][v])
        /\ \A m \in Module, v \in Worker : m \notin loaded => mempool'[m][v] = <<>>
        /\ \A m \in Module, v \in Worker : \A j :
               InPool(j, m, v)' <=> InPool(j, m, v) \/ (j = i /\ m = module[s] /\ v = w)
    <2>1. Recycled(w, s, i)
      BY FinishEffect
    <2> QED BY <2>1 DEF Recycled
  <1>2. /\ state' = [state EXCEPT ![s] = last]
        /\ runq' = [runq EXCEPT ![w] = runq[w] \ {s}]
        /\ UNCHANGED <<loaded, phase, module, stack, globals, context, truth>>
        /\ UNCHANGED <<cache, current, exiting, cleanup>>
    BY DEF finish, modules
  <1>3. Typed /\ Thread(w) /\ MemoryInv /\ StateInv /\ GlobalsAt(w)
    BY DEF IInv, ThreadInv
  <1>4. /\ state'[s] = last /\ \A x \in Sandbox : x # s => state'[x] = state[x]
        /\ memory'[s] = 0 /\ \A x \in Sandbox : x # s => memory'[x] = memory[x]
        /\ state' \in [Sandbox -> State] /\ memory' \in [Sandbox -> 0 .. Len(mems)]
        /\ runq' \in [Worker -> SUBSET Sandbox] /\ runq'[w] = runq[w] \ {s}
        /\ \A v \in Worker : v # w => runq'[v] = runq[v]
    <2>1. last \in State
      BY DEF State
    <2>2. 0 \in 0 .. Len(mems)
      BY <1>1, SMT
    <2>3. state \in [Sandbox -> State] /\ memory \in [Sandbox -> 0 .. Len(mems)] /\ runq \in [Worker -> SUBSET Sandbox]
      BY <1>3 DEF Typed
    <2>4. state' \in [Sandbox -> State] /\ state'[s] = last /\ \A x \in Sandbox : x # s => state'[x] = state[x]
      BY <1>1, <1>2, <2>1, <2>3
    <2>5. memory' \in [Sandbox -> 0 .. Len(mems)] /\ memory'[s] = 0 /\ \A x \in Sandbox : x # s => memory'[x] = memory[x]
      BY <1>1, <2>2, <2>3
    <2>6. /\ runq' \in [Worker -> SUBSET Sandbox] /\ runq'[w] = runq[w] \ {s}
          /\ \A v \in Worker : v # w => runq'[v] = runq[v]
      BY <1>2, <2>3
    <2> QED BY <2>4, <2>5, <2>6
  <1>5. Typed'
    BY <1>1, <1>2, <1>3, <1>4 DEF Typed
  <1>6. StateInv'
    <2>1. last \notin Queued /\ last \notin Fresh /\ last # "NONE" /\ state[s] # "NONE" /\ state[s] \notin Fresh
      BY <1>1 DEF Queued, Fresh
    <2>2. ASSUME NEW x \in Sandbox, x # s
          PROVE  state'[x] = state[x] /\ memory'[x] = memory[x]
      BY <1>4, <2>2
    <2>3. UNCHANGED <<loaded, module, stack, truth>> /\ memory'[s] = 0 /\ state'[s] = last
      BY <1>2, <1>4
    <2>4. stack[s] /\ module[s] # NULL /\ module[s] \in loaded
      BY <1>1, <1>3, <2>1 DEF StateInv
    <2> QED BY <1>3, <2>1, <2>2, <2>3, <2>4 DEF StateInv
  <1>7. MemoryInv'
    <2>1. /\ \A x \in Sandbox : memory[x] = i => x = s
          /\ \A m \in Module, v \in Worker : ~InPool(i, m, v)
      BY <1>1, <1>3, MemoryOfOne
    <2>2. HeldOnlyBy(i, "pool", module[s], w)
      <3>1. \A z \in Sandbox : memory'[z] # i
        <4>1. i # 0
          BY <1>1, SMT
        <4>2. ASSUME NEW z \in Sandbox, z # s
              PROVE  memory'[z] # i
          BY <1>4, <2>1, <4>2
        <4> QED BY <1>4, <4>1, <4>2
      <3>2. \A m \in Module, v \in Worker : InPool(i, m, v)' <=> m = module[s] /\ v = w
        BY <1>1, <2>1
      <3>3. ASSUME NEW k, NEW x, NEW y
            PROVE  Held(i, k, x, y)' <=> k = "pool" /\ x = module[s] /\ y = w
        <4>1. Held(i, k, x, y)' <=> k = "pool" /\ x \in Module /\ y \in Worker /\ InPool(i, x, y)'
          BY <3>1 DEF Held
        <4>2. module[s] \in Module
          BY <1>1
        <4>3. x \in Module /\ y \in Worker => (InPool(i, x, y)' <=> x = module[s] /\ y = w)
          BY <3>2
        <4> QED BY <4>1, <4>2, <4>3
      <3> QED BY <3>3 DEF HeldOnlyBy
    <2>3. ASSUME NEW j \in 1 .. Len(mems), j # i
          PROVE  HeldAsBefore(j)
      <3>1. j # 0
        BY <1>1, SMT
      <3>2. \A z \in Sandbox : memory'[z] = j <=> memory[z] = j
        BY <1>4, <1>1, <2>3, <3>1
      <3>3. \A m \in Module, v \in Worker : InPool(j, m, v)' <=> InPool(j, m, v)
        BY <1>1, <2>3
      <3> QED BY <3>2, <3>3 DEF Held, HeldAsBefore
    <2>4. \A j \in 1 .. Len(mems') : j # i => j \in 1 .. Len(mems) /\ HeldAsBefore(j)
      BY <1>1, <2>3
    <2>5. \A j \in 1 .. Len(mems') : OneHeld(j)'
      BY <1>3, <2>2, <2>4, HolderMoves
    <2> QED BY <1>1, <1>2, <2>5 DEF MemoryInv
  <1>8. Thread(w)'
    <2>1. exiting[w] = NULL /\ s # NULL /\ \A x \in cleanup[w] : x \in Sandbox /\ x # s /\ state[x] \in Ended
      BY <1>1, <1>3, InstanceAssumption DEF Thread, Typed
    <2>2. \A x \in runq[w] : x # s => x \in Sandbox /\ state[x] \in Queued /\ state[x] \notin Running
      BY <1>3 DEF Thread, Typed
    <2>3. \A x \in runq'[w] : state'[x] \in Queued /\ state'[x] \notin Running
      BY <1>4, <2>2
    <2>4. current'[w] = s /\ state'[s] \in {"RETURNED", "ERROR"} /\ exiting'[w] = NULL /\ cleanup'[w] = cleanup[w]
      BY <1>2, <1>4, <2>1
    <2>5. \A x \in cleanup[w] : state'[x] \in Ended /\ x # s /\ x # NULL
      BY <1>4, <2>1, InstanceAssumption
    <2> QED BY <2>3, <2>4, <2>5 DEF Thread
  <1>9. CacheAt(w)'
    <2>1. state'[s] \notin Running /\ current'[w] = s /\ s # NULL
      BY <1>1, <1>2, <1>4, InstanceAssumption DEF Running
    <2> QED BY <2>1 DEF CacheAt
  <1>10. GlobalsAt(w)'
    <2>1. ASSUME NEW x \in runq[w], x # s
          PROVE  GlobalsOf(w, x)'
      BY <1>2, <1>3, <2>1, GlobalsUnmoved DEF GlobalsAt
    <2> QED BY <1>4, <2>1 DEF GlobalsAt
  <1>11. Local(w)
    <2>1. \A v \in Worker : v # w => SameThread(v)
      BY <1>2, <1>4 DEF SameThread
    <2>2. \A x \in Sandbox : Owns(w, x)' => Owns(w, x)
      BY <1>2, <1>4 DEF Owns
    <2>3. \A x \in Sandbox : x # s /\ memory[x] # 0 => memory[x] \in 1 .. Len(mems) /\ memory[x] # i
      BY <1>1, <1>3, MemoryOfOne, SMT DEF Typed
    <2>4. \A x \in Sandbox : ~Owns(w, x) => x # s
      BY <1>1 DEF Owns
    <2>5. \A x \in Sandbox : ~Owns(w, x) => Same(x)
      BY <1>1, <1>2, <1>4, <2>3, <2>4 DEF Same
    <2> QED BY <2>1, <2>2, <2>5 DEF Local
  <1> QED BY <1>5, <1>6, <1>7, <1>8, <1>9, <1>10, <1>11, WorkerStep

\* Sandbox s gets memory i: one from the pool of its module and worker w, or a new one.
Supplied(w, s, i) ==
    /\ module[s] \in Module /\ memory[s] = 0
    /\ mems' \in Seq(LinearMemory) /\ i \in 1 .. Len(mems')
    /\ \A j \in 1 .. Len(mems) : j \in 1 .. Len(mems') /\ mems'[j] = mems[j]
    /\ \A j \in 1 .. Len(mems') : j # i => j \in 1 .. Len(mems)
    /\ memory' = [memory EXCEPT ![s] = i]
    /\ \A x \in Sandbox : memory[x] # i
    /\ mempool' \in [Module -> [Worker -> Seq(1 .. Len(mems'))]]
    /\ \A m \in Module, v \in Worker : Distinct(mempool'[m][v])
    /\ \A m \in Module, v \in Worker : m \notin loaded => mempool'[m][v] = <<>>
    /\ \A m \in Module, v \in Worker : \A j : InPool(j, m, v)' <=> InPool(j, m, v) /\ j # i
    /\ \/ i \in 1 .. Len(mems) /\ InPool(i, module[s], w)
       \/ mems'[i] = wasm_memory_init(StartingPages[module[s]])

\* The memories in the pools have been mapped.
LEMMA PooledIsMapped ==
    ASSUME Typed, NEW m \in Module, NEW v \in Worker, NEW j, InPool(j, m, v)
    PROVE  j \in 1 .. Len(mems)
  <1>1. mempool[m][v] \in Seq(1 .. Len(mems))
    BY DEF Typed
  <1>2. PICK l \in DOMAIN mempool[m][v] : mempool[m][v][l] = j
    BY DEF InPool, Contains
  <1>3. l \in 1 .. Len(mempool[m][v])
    BY <1>1, SeqIs
  <1> QED BY <1>1, <1>2, <1>3, SeqIs

\* That is what module_allocate_linear_memory does.
LEMMA AllocateEffect ==
    ASSUME IInv, NEW w \in Worker, NEW s \in Sandbox, state[s] = "INITIALIZED", module_allocate_linear_memory(w, s)
    PROVE  \E i : Supplied(w, s, i)
  <1> DEFINE k == module[s]
             q == mempool[k][w]
             S == 1 .. Len(mems)
  <1>1. Typed /\ MemoryInv /\ mems \in Seq(LinearMemory) /\ Len(mems) \in Nat
    BY SeqIs DEF IInv, Typed
  <1>2. k \in Module /\ k \in loaded /\ memory[s] = 0
    BY DEF IInv, Typed, StateInv, Queued
  <1>3. q \in Seq(S) /\ Distinct(q) /\ mempool \in [Module -> [Worker -> Seq(S)]]
    <2> HIDE DEF k
    <2>1. mempool \in [Module -> [Worker -> Seq(S)]]
      BY <1>1 DEF Typed
    <2> HIDE DEF S
    <2> QED BY <1>1, <1>2, <2>1 DEF MemoryInv
  <1>4. CASE q # <<>> /\ memory' = [memory EXCEPT ![s] = Head(q)]
             /\ mempool' = [mempool EXCEPT ![k][w] = pool_remove_nolock(q)] /\ UNCHANGED mems
    <2> DEFINE i == Head(q)
               p == pool_remove_nolock(q)
    <2>1. /\ i \in S /\ Contains(q, i) /\ p \in Seq(S) /\ Distinct(p)
          /\ \A x : Contains(p, x) <=> Contains(q, x) /\ x # i
      <3> HIDE DEF q, S
      <3> QED BY <1>3, <1>4, PoolRemove
    <2>2. Held(i, "pool", k, w) /\ OneHeld(i)
      BY <1>1, <1>2, <2>1 DEF Held, InPool, MemoryInv
    <2> HIDE DEF p, i
    <2>3. \A x \in Sandbox : memory[x] # i
      <3> SUFFICES ASSUME NEW x \in Sandbox, memory[x] = i
                   PROVE  FALSE
        OBVIOUS
      <3>1. Held(i, "sandbox", x, 0)
        BY DEF Held
      <3>2. "sandbox" = "pool"
        BY <2>2, <3>1 DEF OneHeld
      <3> QED BY <3>2
    <2>4. \A m \in Module, v \in Worker : InPool(i, m, v) => m = k /\ v = w
      <3> SUFFICES ASSUME NEW m \in Module, NEW v \in Worker, InPool(i, m, v)
                   PROVE  m = k /\ v = w
        OBVIOUS
      <3>1. Held(i, "pool", m, v)
        BY DEF Held
      <3> QED BY <2>2, <3>1 DEF OneHeld
    <2>5. /\ mempool' \in [Module -> [Worker -> Seq(S)]] /\ mempool'[k][w] = p
          /\ \A m \in Module, v \in Worker : m # k \/ v # w => mempool'[m][v] = mempool[m][v]
      <3>1. mempool' = [mempool EXCEPT ![k][w] = p]
        BY <1>4 DEF p
      <3> HIDE DEF k, S
      <3> QED BY <1>2, <1>3, <2>1, <3>1
    <2>6. \A m \in Module, v \in Worker : Distinct(mempool'[m][v])
      BY <1>1, <2>1, <2>5 DEF MemoryInv
    <2>7. \A m \in Module, v \in Worker : m \notin loaded => mempool'[m][v] = <<>>
      BY <1>1, <1>2, <2>5 DEF MemoryInv
    <2>8. ASSUME NEW m \in Module, NEW v \in Worker, NEW j
          PROVE  InPool(j, m, v)' <=> InPool(j, m, v) /\ j # i
      <3>1. CASE m = k /\ v = w
        BY <2>1, <2>5, <3>1 DEF InPool
      <3>2. CASE m # k \/ v # w
        BY <2>4, <2>5, <3>2 DEF InPool
      <3> QED BY <3>1, <3>2
    <2>9. InPool(i, k, w)
      BY <2>1 DEF InPool
    <2>10. UNCHANGED mems /\ memory' = [memory EXCEPT ![s] = i]
      BY <1>4 DEF i
    <2>11. Supplied(w, s, i)
      BY <1>1, <1>2, <2>1, <2>3, <2>5, <2>6, <2>7, <2>8, <2>9, <2>10 DEF Supplied
    <2> QED BY <2>11
  <1>5. CASE memory' = [memory EXCEPT ![s] = Len(mems) + 1]
             /\ mems' = Append(mems, wasm_memory_init(StartingPages[k])) /\ UNCHANGED mempool
    <2> DEFINE i == Len(mems) + 1
               r == wasm_memory_init(StartingPages[k])
    <2>1. r \in LinearMemory
      BY <1>2, InstanceAssumption, BlankIs, SMT DEF wasm_memory_init, LinearMemory
    <2> HIDE DEF r
    <2>2. /\ mems' \in Seq(LinearMemory) /\ Len(mems') = Len(mems) + 1 /\ mems'[i] = r
          /\ \A j \in 1 .. Len(mems) : mems'[j] = mems[j]
      <3>1. mems' = Append(mems, r)
        BY <1>5 DEF r
      <3> QED BY <1>1, <2>1, <3>1, SMT
    <2>3. /\ i \in 1 .. Len(mems') /\ \A j \in 1 .. Len(mems) : j \in 1 .. Len(mems')
          /\ \A j \in 1 .. Len(mems') : j # i => j \in 1 .. Len(mems)
          /\ i \notin 0 .. Len(mems) /\ i \notin 1 .. Len(mems) /\ S \subseteq 1 .. Len(mems')
      BY <1>1, <2>2, SMT
    <2>4. \A x \in Sandbox : memory[x] # i
      <3>1. memory \in [Sandbox -> 0 .. Len(mems)]
        BY <1>1 DEF Typed
      <3> QED BY <2>3, <3>1
    <2>5. mempool' \in [Module -> [Worker -> Seq(1 .. Len(mems'))]]
      <3> DEFINE T == 1 .. Len(mems')
      <3>1. S \subseteq T
        BY <2>3
      <3> HIDE DEF S, T
      <3>2. \A x \in Seq(S) : x \in Seq(T)
        BY <3>1, SMT
      <3>3. mempool \in [Module -> [Worker -> Seq(T)]]
        BY <1>3, <3>2
      <3> QED BY <1>5, <3>3 DEF T
    <2>6. \A m \in Module, v \in Worker : \A j : InPool(j, m, v)' <=> InPool(j, m, v) /\ j # i
      <3>1. \A m \in Module, v \in Worker : ~InPool(i, m, v)
        BY <1>1, <2>3, PooledIsMapped
      <3> QED BY <1>5, <3>1 DEF InPool
    <2> HIDE DEF i
    <2>7. UNCHANGED mempool /\ memory' = [memory EXCEPT ![s] = i]
      BY <1>5 DEF i
    <2>8. /\ \A m \in Module, v \in Worker : Distinct(mempool'[m][v])
          /\ \A m \in Module, v \in Worker : m \notin loaded => mempool'[m][v] = <<>>
      BY <1>1, <2>7 DEF MemoryInv
    <2>9. mems'[i] = wasm_memory_init(StartingPages[k])
      BY <2>2 DEF r, i
    <2>10. \A j \in 1 .. Len(mems) : j \in 1 .. Len(mems') /\ mems'[j] = mems[j]
      BY <2>2, <2>3
    <2>11. mems' \in Seq(LinearMemory) /\ i \in 1 .. Len(mems') /\ \A j \in 1 .. Len(mems') : j # i => j \in 1 .. Len(mems)
      BY <2>2, <2>3
    <2>12. Supplied(w, s, i)
      BY <1>2, <2>4, <2>5, <2>6, <2>7, <2>8, <2>9, <2>10, <2>11 DEF Supplied
    <2> QED BY <2>12
  <1>6. \/ /\ q # <<>> /\ memory' = [memory EXCEPT ![s] = Head(q)]
           /\ mempool' = [mempool EXCEPT ![k][w] = pool_remove_nolock(q)] /\ UNCHANGED mems
        \/ /\ memory' = [memory EXCEPT ![s] = Len(mems) + 1]
           /\ mems' = Append(mems, wasm_memory_init(StartingPages[k])) /\ UNCHANGED mempool
    BY DEF module_allocate_linear_memory, pool_of
  <1> QED BY <1>4, <1>5, <1>6

\* A sandbox is prepared for execution.
LEMMA PrepareStep ==
    ASSUME IInv, NEW w \in Worker, NEW s \in Sandbox, sandbox_prepare_execution_environment(w, s)
    PROVE  IInv'
  <1>1. state[s] = "INITIALIZED"
    BY DEF sandbox_prepare_execution_environment
  <1>2. PICK i : Supplied(w, s, i)
    BY <1>1, AllocateEffect DEF sandbox_prepare_execution_environment
  <1>3. /\ state' = [state EXCEPT ![s] = "RUNNABLE"]
        /\ globals' = [globals EXCEPT ![s] = [j \in Global |-> Unused]]
        /\ runq' = [runq EXCEPT ![w] = runq[w] \cup {s}]
        /\ truth' = [truth EXCEPT ![s].size = StartingPages[module[s]]]
        /\ stack' = [stack EXCEPT ![s] = TRUE]
        /\ UNCHANGED <<loaded, phase, module, context, cache, current, exiting, cleanup>>
    BY DEF sandbox_prepare_execution_environment, module_allocate_stack, modules
  <1>4. Typed /\ Thread(w) /\ MemoryInv /\ StateInv /\ CacheAt(w) /\ GlobalsAt(w)
    BY DEF IInv, ThreadInv
  <1>5. /\ module[s] \in Module /\ memory[s] = 0
        /\ mems' \in Seq(LinearMemory) /\ i \in 1 .. Len(mems')
        /\ \A j \in 1 .. Len(mems) : j \in 1 .. Len(mems') /\ mems'[j] = mems[j]
        /\ \A j \in 1 .. Len(mems') : j # i => j \in 1 .. Len(mems)
        /\ \A x \in Sandbox : memory[x] # i
    BY <1>2 DEF Supplied
  <1>6. state'[s] = "RUNNABLE" /\ state' \in [Sandbox -> State] /\ \A x \in Sandbox : x # s => state'[x] = state[x]
    <2>1. "RUNNABLE" \in State
      BY DEF State
    <2> QED BY <1>3, <1>4, <2>1 DEF Typed
  <1>7. /\ memory'[s] = i /\ \A x \in Sandbox : x # s => memory'[x] = memory[x]
        /\ memory' \in [Sandbox -> 0 .. Len(mems')]
    <2>1. memory' = [memory EXCEPT ![s] = i] /\ memory \in [Sandbox -> 0 .. Len(mems)]
      BY <1>2, <1>4 DEF Supplied, Typed
    <2>2. i \in 0 .. Len(mems') /\ \A j \in 0 .. Len(mems) : j \in 0 .. Len(mems')
      <3>1. Len(mems) \in Nat /\ Len(mems') \in Nat
        BY <1>4, <1>5, SeqIs DEF Typed
      <3>2. \A j \in 1 .. Len(mems) : j \in 1 .. Len(mems')
        BY <1>5
      <3>3. i \in 1 .. Len(mems')
        BY <1>5
      <3> QED BY <3>1, <3>2, <3>3, SMT
    <2> QED BY <2>1, <2>2
  <1>8. /\ globals' \in [Sandbox -> [Global -> [type : {"UNUSED", "I32", "I64"}, value : Value]]]
        /\ \A x \in Sandbox : x # s => globals'[x] = globals[x]
    <2>1. Unused \in [type : {"UNUSED", "I32", "I64"}, value : Value]
      BY DEF Unused, Value
    <2>2. [j \in Global |-> Unused] \in [Global -> [type : {"UNUSED", "I32", "I64"}, value : Value]]
      BY <2>1
    <2> QED BY <1>3, <1>4, <2>2 DEF Typed
  <1>9. /\ truth' \in [Sandbox -> History] /\ truth'[s].globals = <<>>
        /\ \A x \in Sandbox : x # s => truth'[x] = truth[x]
    <2>1. truth \in [Sandbox -> History] /\ truth[s] \in History /\ truth[s] = Nothing
      BY <1>1, <1>4 DEF Typed, StateInv, Fresh
    <2>2. StartingPages[module[s]] \in Nat /\ truth[s].globals = <<>>
      BY <1>5, <2>1, InstanceAssumption, SMT DEF Nothing
    <2> QED BY <1>3, <2>1, <2>2 DEF History
  <1>10. /\ stack' \in [Sandbox -> BOOLEAN] /\ stack'[s] = TRUE /\ \A x \in Sandbox : x # s => stack'[x] = stack[x]
    BY <1>3, <1>4 DEF Typed
  <1>11. /\ runq' \in [Worker -> SUBSET Sandbox] /\ \A x : x \in runq'[w] <=> x \in runq[w] \/ x = s
         /\ \A v \in Worker : v # w => runq'[v] = runq[v]
    BY <1>3, <1>4 DEF Typed
  <1>12. Typed'
    <2>1. mempool' \in [Module -> [Worker -> Seq(1 .. Len(mems'))]]
      BY <1>2 DEF Supplied
    <2> QED BY <1>3, <1>4, <1>5, <1>6, <1>7, <1>8, <1>9, <1>10, <1>11, <2>1 DEF Typed
  <1>13. StateInv'
    <2>1. "RUNNABLE" \in Queued /\ "RUNNABLE" \notin Fresh /\ "RUNNABLE" # "NONE" /\ state[s] # "NONE" /\ i # 0
      BY <1>1, <1>5 DEF Queued, Fresh
    <2>2. ASSUME NEW x \in Sandbox, x # s
          PROVE  state'[x] = state[x] /\ memory'[x] = memory[x] /\ stack'[x] = stack[x] /\ truth'[x] = truth[x]
      BY <1>6, <1>7, <1>9, <1>10, <2>2
    <2>3. loaded' = loaded /\ module' = module
      BY <1>3
    <2>4. ASSUME NEW x \in Sandbox, x # s
          PROVE  /\ state'[x] = "NONE" <=> module'[x] = NULL
                 /\ module'[x] # NULL => module'[x] \in loaded'
                 /\ memory'[x] # 0 <=> state'[x] \in Queued
                 /\ stack'[x] <=> state'[x] \notin Fresh
                 /\ state'[x] \in Fresh => truth'[x] = Nothing
      BY <1>4, <2>2, <2>3, <2>4 DEF StateInv
    <2>5. /\ state'[s] = "NONE" <=> module'[s] = NULL
          /\ module'[s] # NULL => module'[s] \in loaded'
          /\ memory'[s] # 0 <=> state'[s] \in Queued
          /\ stack'[s] <=> state'[s] \notin Fresh
          /\ state'[s] \in Fresh => truth'[s] = Nothing
      BY <1>4, <1>6, <1>7, <1>10, <2>1, <2>3 DEF StateInv
    <2> QED BY <2>4, <2>5 DEF StateInv
  <1>14. MemoryInv'
    <2>1. /\ \A m \in Module, v \in Worker : Distinct(mempool'[m][v])
          /\ \A m \in Module, v \in Worker : m \notin loaded => mempool'[m][v] = <<>>
          /\ \A m \in Module, v \in Worker : \A j : InPool(j, m, v)' <=> InPool(j, m, v) /\ j # i
      BY <1>2 DEF Supplied
    <2>2. HeldOnlyBy(i, "sandbox", s, 0)
      <3>1. \A z \in Sandbox : memory'[z] = i <=> z = s
        BY <1>5, <1>7
      <3>2. \A m \in Module, v \in Worker : ~InPool(i, m, v)'
        BY <2>1
      <3>3. ASSUME NEW k, NEW x, NEW y
            PROVE  Held(i, k, x, y)' <=> k = "sandbox" /\ x = s /\ y = 0
        <4>1. Held(i, k, x, y)' <=> k = "sandbox" /\ x \in Sandbox /\ y = 0 /\ memory'[x] = i
          BY <3>2 DEF Held
        <4> QED BY <3>1, <4>1
      <3> QED BY <3>3 DEF HeldOnlyBy
    <2>3. ASSUME NEW j \in 1 .. Len(mems'), j # i
          PROVE  HeldAsBefore(j)
      <3>1. j # 0
        BY <1>5, SeqIs, SMT
      <3>2. \A z \in Sandbox : memory'[z] = j <=> memory[z] = j
        BY <1>5, <1>7, <2>3, <3>1
      <3>3. \A m \in Module, v \in Worker : InPool(j, m, v)' <=> InPool(j, m, v)
        BY <2>1, <2>3
      <3> QED BY <3>2, <3>3 DEF Held, HeldAsBefore
    <2>4. \A j \in 1 .. Len(mems') : j # i => j \in 1 .. Len(mems) /\ HeldAsBefore(j)
      BY <1>5, <2>3
    <2>5. \A j \in 1 .. Len(mems') : OneHeld(j)'
      BY <1>4, <2>2, <2>4, HolderMoves
    <2> QED BY <1>3, <2>1, <2>5 DEF MemoryInv
  <1>15. ~Owns(w, s)
    BY <1>1, <1>4, OwnedIsPrepared DEF Fresh
  <1>16. s # current[w] /\ s # exiting[w] /\ s \notin cleanup[w] /\ s \notin runq[w]
    BY <1>15 DEF Owns
  <1>17. \A x \in Sandbox : x # s => Same(x)
    <2>1. \A x \in Sandbox : memory[x] # 0 => mems'[memory[x]] = mems[memory[x]]
      <3>1. \A x \in Sandbox : memory[x] # 0 => memory[x] \in 1 .. Len(mems)
        BY <1>4, SMT DEF Typed
      <3> QED BY <1>5, <3>1
    <2> QED BY <1>3, <1>6, <1>7, <1>8, <1>9, <2>1 DEF Same
  <1>18. Thread(w)'
    <2>1. /\ runq[w] \subseteq Sandbox /\ cleanup[w] \subseteq Sandbox
          /\ current[w] \in Sandbox \cup {NULL} /\ exiting[w] \in Sandbox \cup {NULL}
      BY <1>4 DEF Typed
    <2>2. \A x \in runq'[w] : state'[x] \in Queued /\ (state'[x] \in Running => current[w] = x)
      <3>1. state'[s] \in Queued /\ state'[s] \notin Running
        BY <1>6 DEF Queued, Running
      <3> QED BY <1>4, <1>6, <1>11, <1>16, <2>1, <3>1 DEF Thread
    <2>3. \A x \in cleanup[w] : state'[x] \in Ended /\ x # current[w] /\ x # exiting[w]
      BY <1>4, <1>6, <1>16, <2>1 DEF Thread
    <2>4. current[w] # NULL => state'[current[w]] = state[current[w]]
      BY <1>6, <1>16, <2>1
    <2>5. exiting[w] # NULL => state'[exiting[w]] = state[exiting[w]]
      BY <1>6, <1>16, <2>1
    <2>6. current'[w] = current[w] /\ exiting'[w] = exiting[w] /\ cleanup'[w] = cleanup[w]
      BY <1>3
    <2> QED BY <1>4, <1>11, <2>2, <2>3, <2>4, <2>5, <2>6 DEF Thread
  <1>19. CacheAt(w)'
    <2>1. current'[w] = current[w] /\ cache'[w] = cache[w] /\ module' = module /\ context' = context
      BY <1>3
    <2>2. CASE current[w] = NULL
      BY <1>4, <2>1, <2>2 DEF CacheAt
    <2>3. ASSUME NEW c \in Sandbox, c = current[w], c # NULL
          PROVE  CacheAt(w)'
      <3>1. Same(c)
        BY <1>16, <1>17, <2>3
      <3>2. state[c] \in Running => memory[c] # 0
        BY <1>4 DEF StateInv, Running, Queued
      <3>3. state[c] \in Running => Descriptor(memory[c])' = Descriptor(memory[c])
        BY <3>1, <3>2 DEF Descriptor, Same
      <3>4. state'[c] = state[c]
        BY <3>1 DEF Same
      <3> QED BY <1>4, <2>1, <2>3, <3>3, <3>4 DEF CacheAt
    <2> QED BY <1>4, <2>2, <2>3 DEF Typed
  <1>20. GlobalsAt(w)'
    <2>1. ASSUME NEW x \in runq[w]
          PROVE  GlobalsOf(w, x)'
      <3>1. GlobalsOf(w, x) /\ x \in Sandbox /\ x # s
        BY <1>4, <1>16, <2>1 DEF GlobalsAt, Typed
      <3>2. truth'[x] = truth[x] /\ globals'[x] = globals[x] /\ current'[w] = current[w] /\ cache'[w] = cache[w]
        BY <1>3, <1>8, <1>9, <3>1
      <3>3. \A j : current[w] = x => get_global(w, j)' = get_global(w, j)
        BY <3>2 DEF get_global
      <3> QED BY <3>1, <3>2, <3>3, SMT DEF GlobalsOf
    <2>2. GlobalsOf(w, s)'
      <3>1. Len(truth'[s].globals) = 0
        BY <1>9, SMT
      <3> QED BY <3>1, InstanceAssumption, SMT DEF GlobalsOf
    <2> QED BY <1>11, <2>1, <2>2 DEF GlobalsAt
  <1>21. Local(w)
    <2>1. \A v \in Worker : v # w => SameThread(v)
      BY <1>3, <1>11 DEF SameThread
    <2>2. \A x \in Sandbox : Owns(w, x)' => Owns(w, x) \/ state[x] = "INITIALIZED"
      BY <1>1, <1>3, <1>11 DEF Owns
    <2>3. \A x \in Sandbox : ~Owns(w, x) /\ state[x] # "INITIALIZED" => Same(x)
      BY <1>1, <1>17
    <2> QED BY <2>1, <2>2, <2>3 DEF Local
  <1> QED BY <1>12, <1>13, <1>14, <1>18, <1>19, <1>20, <1>21, WorkerStep

-----------------------------------------------------------------------------
(***************************************************************************)
(* Modules and the sandboxes that refer to them.                           *)
(***************************************************************************)
\* A module is loaded: nobody refers to it, and its pools are empty already.
LEMMA ModuleAllocStep ==
    ASSUME IInv, NEW m \in Module, module_alloc(m)
    PROVE  IInv'
  <1>1. /\ m \notin loaded /\ loaded' = loaded \cup {m}
        /\ mempool' = [mempool EXCEPT ![m] = [w \in Worker |-> <<>>]]
        /\ UNCHANGED <<sandboxes, mems, threads>>
    BY DEF module_alloc, module_init, module_database_add
  <1>2. UNCHANGED <<state, phase, module, memory, stack, globals, context, truth>>
    BY <1>1 DEF sandboxes
  <1>3. UNCHANGED <<cache, current, exiting, runq, cleanup>>
    BY <1>1 DEF threads
  <1>4. Typed /\ StateInv /\ MemoryInv
    BY DEF IInv
  <1>5. mempool' = mempool
    <2>1. mempool \in [Module -> [Worker -> Seq(1 .. Len(mems))]] /\ \A w \in Worker : mempool[m][w] = <<>>
      BY <1>1, <1>4 DEF Typed, MemoryInv
    <2>2. mempool[m] = [w \in Worker |-> <<>>]
      BY <2>1
    <2> QED BY <1>1, <2>1, <2>2
  <1>6. loaded' \subseteq Module /\ loaded \subseteq loaded'
    BY <1>1, <1>4 DEF Typed
  <1>7. Typed'
    BY <1>1, <1>2, <1>3, <1>4, <1>5, <1>6 DEF Typed
  <1>8. StateInv'
    BY <1>2, <1>4, <1>6 DEF StateInv
  <1>9. MemoryInv'
    <2>1. mems' = mems /\ UNCHANGED <<memory, mempool>>
      BY <1>1, <1>2, <1>5
    <2>2. \A i, k, x, y : Held(i, k, x, y)' <=> Held(i, k, x, y)
      BY <2>1, SMT DEF Held, InPool
    <2>3. \A i \in 1 .. Len(mems) : OneHeld(i)'
      BY <1>4, <2>2 DEF MemoryInv, OneHeld
    <2>4. \A k \in Module : k \notin loaded' => k \notin loaded
      BY <1>6
    <2>5. /\ \A k \in Module, w \in Worker : Distinct(mempool[k][w])'
          /\ \A k \in Module, w \in Worker : k \notin loaded' => mempool'[k][w] = <<>>
      BY <1>4, <1>5, <2>4 DEF MemoryInv
    <2> QED BY <2>1, <2>3, <2>5 DEF MemoryInv
  <1>10. \A s \in Sandbox : Same(s)
    BY <1>1, <1>2 DEF Same
  <1> QED BY <1>1, <1>7, <1>8, <1>9, <1>10, OtherStep

\* A sandbox is allocated for a module that is loaded.
LEMMA SandboxAllocStep ==
    ASSUME IInv, NEW s \in Sandbox, NEW m \in Module, sandbox_alloc(s, m)
    PROVE  IInv'
  <1>1. /\ state[s] = "NONE" /\ m \in loaded
        /\ state' = [state EXCEPT ![s] = "INITIALIZED"]
        /\ module' = [module EXCEPT ![s] = m]
        /\ UNCHANGED <<loaded, phase, memory, stack, globals, context, truth, pools, threads>>
    BY DEF sandbox_alloc, module_acquire
  <1>2. UNCHANGED <<mems, mempool>>
    BY <1>1 DEF pools
  <1>3. UNCHANGED <<cache, current, exiting, runq, cleanup>>
    BY <1>1 DEF threads
  <1>4. Typed /\ StateInv /\ MemoryInv
    BY DEF IInv
  <1>5. module \in [Sandbox -> Module \cup {NULL}] /\ state \in [Sandbox -> State] /\ "INITIALIZED" \in State
        /\ module[s] = NULL /\ m # NULL
    BY <1>1, <1>4, InstanceAssumption DEF Typed, StateInv, State
  <1>6. /\ state' \in [Sandbox -> State] /\ state'[s] = "INITIALIZED"
        /\ module' \in [Sandbox -> Module \cup {NULL}] /\ module'[s] = m
        /\ \A x \in Sandbox : x # s => state'[x] = state[x] /\ module'[x] = module[x]
    BY <1>1, <1>5
  <1>7. Typed'
    BY <1>1, <1>2, <1>3, <1>4, <1>6 DEF Typed
  <1>8. StateInv'
    <2>1. UNCHANGED <<memory, stack, truth, loaded>>
      BY <1>1
    <2>2. "INITIALIZED" \in Fresh /\ "INITIALIZED" \notin Queued /\ state[s] \in Fresh /\ state[s] \notin Queued
      BY <1>1 DEF Fresh, Queued
    <2> QED BY <1>1, <1>4, <1>5, <1>6, <2>1, <2>2, SMT DEF StateInv
  <1>9. MemoryInv'
    <2>1. mems' = mems /\ memory' = memory /\ mempool' = mempool /\ loaded' = loaded
      BY <1>1, <1>2
    <2> QED BY <1>4, <2>1, HoldersStay
  <1>10. \A x \in Sandbox : state[x] \notin Fresh => Same(x)
    <2>1. \A x \in Sandbox : state[x] \notin Fresh => x # s
      BY <1>1 DEF Fresh
    <2> QED BY <1>1, <1>2, <1>6, <2>1 DEF Same
  <1> QED BY <1>1, <1>7, <1>8, <1>9, <1>10, OtherStep

-----------------------------------------------------------------------------
(***************************************************************************)
(* The cleanup queue.                                                      *)
(***************************************************************************)
\* The sandboxes in the cleanup queue of w are freed, the others stay as they are.
Freed(w) ==
    /\ \A x \in cleanup[w] : /\ module'[x] = NULL /\ ~stack'[x] /\ truth'[x] = Nothing
    /\ \A x \in Sandbox \ cleanup[w] :
           /\ module'[x] = module[x] /\ stack'[x] = stack[x] /\ truth'[x] = truth[x]
           /\ globals'[x] = globals[x] /\ context'[x] = context[x]
    /\ cleanup'[w] = {} /\ \A v \in Worker : v # w => cleanup'[v] = cleanup[v]

\* What freeing the cleanup queue does to the sandboxes.
LEMMA FreeEffect ==
    ASSUME Typed, NEW w \in Worker, local_cleanup_queue_free(w)
    PROVE  /\ Freed(w)
           /\ stack' \in [Sandbox -> BOOLEAN] /\ context' \in [Sandbox -> BOOLEAN]
           /\ module' \in [Sandbox -> Module \cup {NULL}] /\ phase' \in [Sandbox -> Phase]
           /\ globals' \in [Sandbox -> [Global -> [type : {"UNUSED", "I32", "I64"}, value : Value]]]
           /\ truth' \in [Sandbox -> History] /\ cleanup' \in [Worker -> SUBSET Sandbox]
  <1>1. /\ stack' = [s \in Sandbox |-> IF s \in cleanup[w] THEN FALSE ELSE stack[s]]
        /\ globals' = [s \in Sandbox |-> IF s \in cleanup[w] THEN [i \in Global |-> Unused] ELSE globals[s]]
        /\ context' = [s \in Sandbox |-> IF s \in cleanup[w] THEN FALSE ELSE context[s]]
        /\ module' = [s \in Sandbox |-> IF s \in cleanup[w] THEN NULL ELSE module[s]]
        /\ phase' = [s \in Sandbox |-> IF s \in cleanup[w] THEN "start" ELSE phase[s]]
        /\ truth' = [s \in Sandbox |-> IF s \in cleanup[w] THEN Nothing ELSE truth[s]]
        /\ cleanup' = [cleanup EXCEPT ![w] = {}]
    BY DEF local_cleanup_queue_free
  <1>2. cleanup \in [Worker -> SUBSET Sandbox] /\ cleanup[w] \subseteq Sandbox
    BY DEF Typed
  <1>3. Freed(w)
    BY <1>1, <1>2 DEF Freed
  <1>4. [i \in Global |-> Unused] \in [Global -> [type : {"UNUSED", "I32", "I64"}, value : Value]]
    <2>1. Unused \in [type : {"UNUSED", "I32", "I64"}, value : Value]
      BY DEF Unused, Value
    <2> QED BY <2>1
  <1>5. "start" \in Phase /\ Nothing \in History
    BY BlankIs, SMT DEF Phase, History, Nothing
  <1>6. stack' \in [Sandbox -> BOOLEAN] /\ context' \in [Sandbox -> BOOLEAN]
    BY <1>1 DEF Typed
  <1>7. module' \in [Sandbox -> Module \cup {NULL}] /\ phase' \in [Sandbox -> Phase]
    BY <1>1, <1>5 DEF Typed
  <1>8. globals' \in [Sandbox -> [Global -> [type : {"UNUSED", "I32", "I64"}, value : Value]]]
    BY <1>1, <1>4 DEF Typed
  <1>9. truth' \in [Sandbox -> History] /\ cleanup' \in [Worker -> SUBSET Sandbox]
    BY <1>1, <1>2, <1>5 DEF Typed
  <1> QED BY <1>3, <1>6, <1>7, <1>8, <1>9

\* Worker w frees its cleanup queue, and leaves the finished sandbox s if it has one.
Leaves(w, s) ==
    /\ s # NULL => s \in Sandbox /\ state[s] \in {"RETURNED", "ERROR"}
    /\ state' = [t \in Sandbox |-> IF t = s /\ state[t] = "RETURNED" THEN "COMPLETE"
                                   ELSE IF t \in cleanup[w] THEN "NONE" ELSE state[t]]
    /\ current' = [current EXCEPT ![w] = NULL]
    /\ exiting' = [exiting EXCEPT ![w] = s]
    /\ cache' \in [Worker -> Cached] /\ [cache'[w] EXCEPT !.g0 = Zero] = NoInstance
    /\ \A v \in Worker : v # w => cache'[v] = cache[v]
    /\ UNCHANGED <<loaded, memory, mems, mempool, runq>>

\* What both the idle loop and the exit of a sandbox do.
LEMMA CleanupStep ==
    ASSUME IInv, NEW w \in Worker, NEW s, s = current[w], exiting[w] = NULL,
           local_cleanup_queue_free(w), Leaves(w, s)
    PROVE  IInv'
  <1>1. Typed /\ Thread(w) /\ MemoryInv /\ StateInv /\ GlobalsAt(w)
    BY DEF IInv, ThreadInv
  <1>2. cleanup[w] \subseteq Sandbox /\ runq[w] \subseteq Sandbox /\ NULL \notin Sandbox
    BY <1>1, InstanceAssumption DEF Typed
  <1>3. /\ Freed(w)
        /\ stack' \in [Sandbox -> BOOLEAN] /\ context' \in [Sandbox -> BOOLEAN]
        /\ module' \in [Sandbox -> Module \cup {NULL}] /\ phase' \in [Sandbox -> Phase]
        /\ globals' \in [Sandbox -> [Global -> [type : {"UNUSED", "I32", "I64"}, value : Value]]]
        /\ truth' \in [Sandbox -> History] /\ cleanup' \in [Worker -> SUBSET Sandbox]
    BY <1>1, FreeEffect
  <1>4. /\ s # NULL => s \in Sandbox /\ state[s] \in {"RETURNED", "ERROR"}
        /\ state' = [t \in Sandbox |-> IF t = s /\ state[t] = "RETURNED" THEN "COMPLETE"
                                       ELSE IF t \in cleanup[w] THEN "NONE" ELSE state[t]]
    BY DEF Leaves
  <1>5. UNCHANGED <<loaded, memory, mems, mempool, runq>>
    BY DEF Leaves
  <1>6. /\ current' \in [Worker -> Sandbox \cup {NULL}] /\ current'[w] = NULL
        /\ exiting' \in [Worker -> Sandbox \cup {NULL}] /\ exiting'[w] = s
        /\ \A v \in Worker : v # w => current'[v] = current[v] /\ exiting'[v] = exiting[v]
    BY <1>1, <1>4 DEF Leaves, Typed
  <1>7. s \notin cleanup[w] /\ s \notin runq[w]
    <2>1. s \in Sandbox => state[s] \notin Queued
      <3>1. s \in Sandbox => state[s] \in {"RETURNED", "ERROR"}
        BY <1>2, <1>4
      <3>2. \A x \in {"RETURNED", "ERROR"} : x \notin Queued
        BY DEF Queued
      <3> QED BY <3>1, <3>2
    <2> QED BY <1>1, <1>2, <2>1 DEF Thread
  <1>8. /\ \A x \in cleanup[w] : state'[x] = "NONE" /\ state[x] \in Ended
        /\ \A x \in Sandbox : x \notin cleanup[w] /\ x # s => state'[x] = state[x]
        /\ s # NULL => state'[s] \in Ended
    <2>1. \A x \in cleanup[w] : state[x] \in Ended /\ x # s /\ x \in Sandbox
      BY <1>1, <1>2, <1>7 DEF Thread
    <2>2. s # NULL => state'[s] \in Ended
      <3>1. s # NULL => /\ state[s] \in {"RETURNED", "ERROR"}
                        /\ state'[s] = IF state[s] = "RETURNED" THEN "COMPLETE" ELSE state[s]
        BY <1>4, <1>7
      <3>2. \A x \in {"RETURNED", "ERROR"} : (IF x = "RETURNED" THEN "COMPLETE" ELSE x) \in Ended
        BY DEF Ended
      <3> QED BY <3>1, <3>2
    <2> QED BY <1>4, <2>1, <2>2
  <1>9. state' \in [Sandbox -> State]
    <2>1. "COMPLETE" \in State /\ "NONE" \in State /\ state \in [Sandbox -> State]
      BY <1>1 DEF State, Typed
    <2> QED BY <1>4, <2>1
  <1>10. Typed'
    <2>1. cache' \in [Worker -> Cached]
      BY DEF Leaves
    <2> QED BY <1>1, <1>3, <1>5, <1>6, <1>9, <2>1 DEF Typed
  <1>11. StateInv'
    <2>1. ASSUME NEW x \in Sandbox, x \in cleanup[w]
          PROVE  /\ state'[x] = "NONE" <=> module'[x] = NULL
                 /\ module'[x] # NULL => module'[x] \in loaded'
                 /\ memory'[x] # 0 <=> state'[x] \in Queued
                 /\ stack'[x] <=> state'[x] \notin Fresh
                 /\ state'[x] \in Fresh => truth'[x] = Nothing
      <3>1. memory'[x] = 0
        BY <1>1, <1>5, <1>8, <2>1 DEF StateInv, Ended, Queued
      <3>2. module'[x] = NULL /\ ~stack'[x] /\ truth'[x] = Nothing /\ state'[x] = "NONE"
        BY <1>3, <1>8, <2>1 DEF Freed
      <3> QED BY <3>1, <3>2 DEF Queued, Fresh
    <2>2. ASSUME NEW x \in Sandbox, x \notin cleanup[w]
          PROVE  /\ state'[x] = "NONE" <=> module'[x] = NULL
                 /\ module'[x] # NULL => module'[x] \in loaded'
                 /\ memory'[x] # 0 <=> state'[x] \in Queued
                 /\ stack'[x] <=> state'[x] \notin Fresh
                 /\ state'[x] \in Fresh => truth'[x] = Nothing
      <3>1. module'[x] = module[x] /\ stack'[x] = stack[x] /\ truth'[x] = truth[x] /\ memory'[x] = memory[x]
            /\ loaded' = loaded
        BY <1>3, <1>5, <2>2 DEF Freed
      <3>2. CASE x = s
        <4>1. s # NULL
          BY <1>2, <2>2, <3>2
        <4>2. state'[x] \in Ended /\ state[x] \in {"RETURNED", "ERROR"}
          BY <1>4, <1>8, <3>2, <4>1
        <4>3. \A q \in Ended \cup {"RETURNED", "ERROR"} : q # "NONE" /\ q \notin Queued /\ q \notin Fresh
          BY DEF Ended, Queued, Fresh
        <4>4. /\ state'[x] # "NONE" /\ state'[x] \notin Queued /\ state'[x] \notin Fresh
              /\ state[x] # "NONE" /\ state[x] \notin Queued /\ state[x] \notin Fresh
          BY <4>2, <4>3
        <4> QED BY <1>1, <3>1, <4>4, <2>2 DEF StateInv
      <3>3. CASE x # s
        <4>1. state'[x] = state[x]
          BY <1>8, <2>2, <3>3
        <4> QED BY <1>1, <2>2, <3>1, <4>1 DEF StateInv
      <3> QED BY <3>2, <3>3
    <2> QED BY <2>1, <2>2 DEF StateInv
  <1>12. MemoryInv'
    BY <1>1, <1>5, HoldersStay
  <1>13. Thread(w)'
    <2>1. \A x \in runq[w] : state'[x] \in Queued /\ state'[x] \notin Running
      <3>1. ASSUME NEW x \in runq[w]
            PROVE  state'[x] \in Queued /\ state'[x] \notin Running
        <4>1. x \in Sandbox /\ x # s /\ state[x] \in Queued /\ state[x] \notin Running
          BY <1>1, <1>2, <1>7, <3>1 DEF Thread
        <4>2. x \notin cleanup[w]
          BY <1>8, <4>1 DEF Ended, Queued
        <4> QED BY <1>8, <4>1, <4>2
      <3> QED BY <3>1
    <2>2. cleanup'[w] = {} /\ runq'[w] = runq[w]
      BY <1>3, <1>5 DEF Freed
    <2> QED BY <1>6, <1>8, <2>1, <2>2 DEF Thread
  <1>14. CacheAt(w)'
    <2>1. [cache'[w] EXCEPT !.g0 = Zero] = NoInstance
      BY DEF Leaves
    <2> QED BY <1>6, <2>1 DEF CacheAt
  <1>15. GlobalsAt(w)'
    <2>1. ASSUME NEW x \in runq[w]
          PROVE  GlobalsOf(w, x)'
      <3>1. x \in Sandbox /\ x # s /\ x # NULL /\ state[x] \in Queued /\ GlobalsOf(w, x)
        BY <1>1, <1>2, <1>7, <2>1 DEF Thread, GlobalsAt
      <3>2. x \notin cleanup[w]
        BY <1>8, <3>1 DEF Ended, Queued
      <3>3. truth'[x] = truth[x] /\ globals'[x] = globals[x] /\ current[w] # x /\ current'[w] # x
        BY <1>3, <1>6, <3>1, <3>2 DEF Freed
      <3> QED BY <3>1, <3>3 DEF GlobalsOf
    <2> QED BY <1>5, <2>1 DEF GlobalsAt
  <1>16. Local(w)
    <2>1. \A v \in Worker : v # w => SameThread(v)
      BY <1>3, <1>5, <1>6 DEF SameThread, Leaves, Freed
    <2>2. \A x \in Sandbox : Owns(w, x)' => Owns(w, x)
      <3>1. cleanup'[w] = {} /\ runq'[w] = runq[w]
        BY <1>3, <1>5 DEF Freed
      <3> QED BY <1>2, <1>6, <3>1 DEF Owns
    <2>3. ASSUME NEW x \in Sandbox, ~Owns(w, x)
          PROVE  Same(x)
      <3>1. x \notin cleanup[w] /\ x # s
        BY <2>3 DEF Owns
      <3>2. state'[x] = state[x]
        BY <1>8, <3>1
      <3>3. module'[x] = module[x] /\ globals'[x] = globals[x] /\ context'[x] = context[x] /\ truth'[x] = truth[x]
        BY <1>3, <3>1 DEF Freed
      <3> QED BY <1>5, <3>2, <3>3 DEF Same
    <2> QED BY <2>1, <2>2, <2>3 DEF Local
  <1> QED BY <1>10, <1>11, <1>12, <1>13, <1>14, <1>15, <1>16, WorkerStep

\* The idle loop frees the cleanup queue.
LEMMA IdleStep ==
    ASSUME IInv, NEW w \in Worker, scheduler_idle_loop(w)
    PROVE  IInv'
  <1>1. /\ current[w] = NULL /\ exiting[w] = NULL /\ local_cleanup_queue_free(w)
        /\ state' = [s \in Sandbox |-> IF s \in cleanup[w] THEN "NONE" ELSE state[s]]
        /\ UNCHANGED <<loaded, memory, mems, mempool, cache, current, exiting, runq>>
    BY DEF scheduler_idle_loop
  <1>2. /\ current \in [Worker -> Sandbox \cup {NULL}] /\ exiting \in [Worker -> Sandbox \cup {NULL}]
        /\ cache \in [Worker -> Cached]
    BY DEF IInv, Typed
  <1>3. \A s \in Sandbox : s # NULL
    BY InstanceAssumption
  <1>4. [cache[w] EXCEPT !.g0 = Zero] = NoInstance
    BY <1>1 DEF IInv, CacheAt
  <1>5. state' = [t \in Sandbox |-> IF t = NULL /\ state[t] = "RETURNED" THEN "COMPLETE"
                                    ELSE IF t \in cleanup[w] THEN "NONE" ELSE state[t]]
    BY <1>1, <1>3
  <1>6. current' = [current EXCEPT ![w] = NULL] /\ exiting' = [exiting EXCEPT ![w] = NULL]
    BY <1>1, <1>2
  <1>7. Leaves(w, NULL)
    BY <1>1, <1>2, <1>4, <1>5, <1>6 DEF Leaves
  <1> QED BY <1>1, <1>7, CleanupStep

\* A finished sandbox is left by its worker.
LEMMA ExitStep ==
    ASSUME IInv, NEW w \in Worker, current_sandbox_exit(w)
    PROVE  IInv'
  <1> SUFFICES ASSUME NEW s, s = current[w]
               PROVE  IInv'
    OBVIOUS
  <1>1. /\ s # NULL /\ state[s] \in {"RETURNED", "ERROR"}
        /\ current_sandbox_set(w, NULL)
        /\ exiting' = [exiting EXCEPT ![w] = s]
        /\ local_cleanup_queue_free(w)
        /\ state' = [t \in Sandbox |-> IF t = s /\ state[s] = "RETURNED" THEN "COMPLETE"
                                       ELSE IF t \in cleanup[w] THEN "NONE" ELSE state[t]]
        /\ UNCHANGED <<loaded, memory, mems, mempool, runq>>
    BY DEF current_sandbox_exit
  <1>2. s \in Sandbox /\ exiting[w] = NULL /\ cache \in [Worker -> Cached]
    BY <1>1 DEF IInv, Typed, ThreadInv, Thread
  <1>3. current' = [current EXCEPT ![w] = NULL] /\ cache' = [cache EXCEPT ![w] = NoInstance]
    BY <1>1 DEF current_sandbox_set
  <1>4. NoInstance \in Cached /\ [NoInstance EXCEPT !.g0 = Zero] = NoInstance
    BY InstanceAssumption, SMT DEF NoInstance, Cached, NoMemory, Value
  <1>5. /\ cache' \in [Worker -> Cached] /\ cache'[w] = NoInstance
        /\ \A v \in Worker : v # w => cache'[v] = cache[v]
    BY <1>2, <1>3, <1>4
  <1>6. \A t \in Sandbox : t = s /\ state[s] = "RETURNED" <=> t = s /\ state[t] = "RETURNED"
    OBVIOUS
  <1>7. state' = [t \in Sandbox |-> IF t = s /\ state[t] = "RETURNED" THEN "COMPLETE"
                                    ELSE IF t \in cleanup[w] THEN "NONE" ELSE state[t]]
    BY <1>1, <1>6
  <1>8. [cache'[w] EXCEPT !.g0 = Zero] = NoInstance
    BY <1>4, <1>5
  <1>9. Leaves(w, s)
    BY <1>1, <1>2, <1>3, <1>5, <1>7, <1>8 DEF Leaves
  <1> QED BY <1>1, <1>2, <1>9, CleanupStep

-----------------------------------------------------------------------------
(***************************************************************************)
(* The invariant and what follows from it.                                 *)
(***************************************************************************)
\* At first there are no sandboxes and no memories.
LEMMA InitInv == Init => IInv
  <1> SUFFICES ASSUME Init PROVE IInv
    OBVIOUS
  <1>1. Typed
    <2>1. /\ loaded \subseteq Module /\ state \in [Sandbox -> State] /\ phase \in [Sandbox -> Phase]
          /\ module \in [Sandbox -> Module \cup {NULL}] /\ stack \in [Sandbox -> BOOLEAN]
          /\ context \in [Sandbox -> BOOLEAN]
          /\ current \in [Worker -> Sandbox \cup {NULL}] /\ exiting \in [Worker -> Sandbox \cup {NULL}]
          /\ runq \in [Worker -> SUBSET Sandbox] /\ cleanup \in [Worker -> SUBSET Sandbox]
      BY DEF Init, State, Phase
    <2>2. /\ mems \in Seq(LinearMemory) /\ memory \in [Sandbox -> 0 .. Len(mems)]
          /\ mempool \in [Module -> [Worker -> Seq(1 .. Len(mems))]]
      <3>1. mems = <<>> /\ Len(mems) = 0
        BY DEF Init
      <3>2. 0 \in 0 .. Len(mems)
        BY <3>1, SMT
      <3>3. \A S : <<>> \in Seq(S)
        BY SMT
      <3> QED BY <3>1, <3>2, <3>3 DEF Init
    <2>3. globals \in [Sandbox -> [Global -> [type : {"UNUSED", "I32", "I64"}, value : Value]]]
      <3>1. Unused \in [type : {"UNUSED", "I32", "I64"}, value : Value]
        BY DEF Unused, Value
      <3> QED BY <3>1 DEF Init
    <2>4. cache \in [Worker -> Cached]
      <3>1. [NoInstance EXCEPT !.g0 = Beef] \in Cached
        BY InstanceAssumption, SMT DEF NoInstance, Cached, NoMemory, Value
      <3> QED BY <3>1 DEF Init
    <2>5. truth \in [Sandbox -> History]
      <3>1. Nothing \in History
        BY BlankIs, SMT DEF History, Nothing
      <3> QED BY <3>1 DEF Init
    <2> QED BY <2>1, <2>2, <2>3, <2>4, <2>5 DEF Typed
  <1>2. StateInv
    BY DEF Init, StateInv, Fresh, Queued
  <1>3. \A w \in Worker : current[w] = NULL /\ exiting[w] = NULL /\ runq[w] = {} /\ cleanup[w] = {}
    BY DEF Init
  <1>4. ThreadInv
    <2>1. \A w \in Worker : Thread(w)
      BY <1>3 DEF Thread
    <2>2. \A w \in Worker, s \in Sandbox : ~Owns(w, s)
      BY <1>3, InstanceAssumption DEF Owns
    <2> QED BY <2>1, <2>2 DEF ThreadInv
  <1>5. MemoryInv
    <2>1. mems = <<>> /\ \A m \in Module, w \in Worker : mempool[m][w] = <<>>
      BY DEF Init
    <2>2. 1 .. Len(mems) = {}
      BY <2>1, SMT
    <2>3. Distinct(<<>>)
      BY SMT DEF Distinct
    <2> QED BY <2>1, <2>2, <2>3 DEF MemoryInv
  <1>6. \A w \in Worker : CacheAt(w)
    <2>1. [[NoInstance EXCEPT !.g0 = Beef] EXCEPT !.g0 = Zero] = NoInstance
      <3> DEFINE r == [memory |-> NoMemory, table |-> NULL, g0 |-> Beef, context |-> NULL]
      <3>1. [NoInstance EXCEPT !.g0 = Beef] = r
        BY SMT DEF NoInstance
      <3>2. [r EXCEPT !.g0 = Zero] = NoInstance
        BY SMT DEF NoInstance
      <3> QED BY <3>1, <3>2
    <2>2. \A w \in Worker : cache[w] = [NoInstance EXCEPT !.g0 = Beef]
      BY DEF Init
    <2> QED BY <1>3, <2>1, <2>2 DEF CacheAt
  <1>7. \A w \in Worker : GlobalsAt(w)
    BY <1>3 DEF GlobalsAt
  <1> QED BY <1>1, <1>2, <1>4, <1>5, <1>6, <1>7 DEF IInv

\* Every step of the listener and of a worker keeps the invariant.
LEMMA NextInv == IInv /\ [Next]_vars => IInv'
  <1> SUFFICES ASSUME IInv, [Next]_vars PROVE IInv'
    OBVIOUS
  <1>1. CASE UNCHANGED vars
    <2>1. UNCHANGED <<loaded, state, phase, module, memory, stack, globals, context, truth,
                      mems, mempool>> /\ UNCHANGED threads
      BY <1>1 DEF vars, modules, sandboxes, pools
    <2>2. Typed' /\ StateInv'
      BY <2>1 DEF IInv, Typed, StateInv, threads
    <2>3. MemoryInv'
      BY <2>1, HoldersStay DEF IInv
    <2>4. \A s \in Sandbox : Same(s)
      BY <2>1 DEF Same
    <2> QED BY <2>1, <2>2, <2>3, <2>4, OtherStep
  <1>2. ASSUME NEW m \in Module, module_alloc(m)
        PROVE  IInv'
    BY <1>2, ModuleAllocStep
  <1>3. ASSUME NEW s \in Sandbox, NEW m \in Module, sandbox_alloc(s, m)
        PROVE  IInv'
    BY <1>3, SandboxAllocStep
  <1>4. ASSUME NEW w \in Worker, NEW s \in Sandbox,
               \/ sandbox_prepare_execution_environment(w, s)
               \/ scheduler_preemptive_sched(w, s)
               \/ scheduler_cooperative_switch_to(w, s)
        PROVE  IInv'
    BY <1>4, PrepareStep, PreemptiveStep, CooperativeStep
  <1>5. ASSUME NEW w \in Worker, scheduler_idle_loop(w) \/ scheduler_switch_to_base_context(w)
        PROVE  IInv'
    BY <1>5, IdleStep, BaseContextStep
  <1>6. ASSUME NEW w \in Worker, current_sandbox_init(w) \/ module_initialize_globals(w)
        PROVE  IInv'
    BY <1>6, InitStep, InitGlobalsStep
  <1>7. ASSUME NEW w \in Worker, NEW i \in Assigned, instruction_global_set(w, i)
        PROVE  IInv'
    BY <1>7, GlobalSetStep
  <1>8. ASSUME NEW w \in Worker, NEW p \in Page, instruction_store(w, p)
        PROVE  IInv'
    BY <1>8, StoreStep
  <1>9. ASSUME NEW w \in Worker, NEW n \in Grow, sledge_abi__wasm_memory_expand(w, n)
        PROVE  IInv'
    BY <1>9, GrowStep
  <1>10. ASSUME NEW w \in Worker, current_sandbox_fini(w) \/ current_sandbox_wasm_trap_handler(w)
         PROVE  IInv'
    BY <1>10, FinishStep DEF current_sandbox_fini, current_sandbox_wasm_trap_handler
  <1>11. ASSUME NEW w \in Worker, current_sandbox_exit(w)
         PROVE  IInv'
    BY <1>11, ExitStep
  <1> QED BY <1>1, <1>2, <1>3, <1>4, <1>5, <1>6, <1>7, <1>8, <1>9, <1>10, <1>11 DEF Next

\* The inductive invariant: who holds what, and that the caches and the globals are right.
THEOREM InstanceInvariant == Spec => []IInv
  BY InitInv, NextInv, PTL DEF Spec

\* While a sandbox executes, the cached memory descriptor, table and WASI context the compiled code
\* works on are its own and up to date (current_sandbox_set, memory.grow's write-back).
THEOREM CachesAreCurrent == Spec => []CacheIsCurrent
  <1>1. IInv => CacheIsCurrent
    BY DEF IInv, CacheAt, CacheIsCurrent, Running
  <1> QED BY <1>1, InstanceInvariant, PTL

\* A sandbox reads back the globals it stored, global 0 included, however often it is preempted
\* (wasm_globals_update_if_used and the write-back of global 0 in the schedulers).
THEOREM GlobalsAreKept == Spec => []KeepsItsGlobals
  <1>1. IInv => KeepsItsGlobals
    BY DEF IInv, GlobalsAt, GlobalsOf, KeepsItsGlobals
  <1> QED BY <1>1, InstanceInvariant, PTL

-----------------------------------------------------------------------------
(***************************************************************************)
(* What is in the linear memories.  The clearing of wasm_memory_reinit     *)
(* covers the size of a memory.  What it leaves in a memory that goes to a *)
(* pool is beyond the size, and so was stored beyond the size: sizes only  *)
(* grow while a sandbox has the memory.                                    *)
(***************************************************************************)
\* No product of a number of pages with WASM_PAGE_SIZE wraps.
NoWrap == (\A m \in Module : StartingPages[m] < PageWrap) /\ (\A n \in Grow : n < PageWrap)

\* What clearing may leave: zeros, or data that was stored beyond the size.
Leftover == {NULL} \cup Strays

\* The other data of memory z is within its size, which is not 0.
Within(z) == z.size >= 1 /\ \A p \in Page : p < z.size \/ z.pages[p] \in Leftover

\* Memory z is ready for a sandbox of module m.
IsReady(z, m) == z.size = StartingPages[m] /\ \A p \in Page : z.pages[p] \in Leftover

\* Memory z has the content that history h tells of, and what clearing left.
Matches(z, h) ==
    /\ z.size = h.size
    /\ \A p \in Page : z.pages[p] = h.pages[p] \/ (h.pages[p] = NULL /\ z.pages[p] \in Strays)

ContentInv ==
    /\ \A i \in 1 .. Len(mems) : Within(mems[i])
    /\ \A m \in Module, w \in Worker : \A i : InPool(i, m, w) => IsReady(mems[i], m)
    /\ \A s \in Sandbox : memory[s] # 0 => Matches(mems[memory[s]], truth[s])

\* A step that leaves the memories and who holds them alone.
LEMMA ContentStays ==
    ASSUME ContentInv, UNCHANGED <<mems, memory, mempool>>,
           \A s \in Sandbox : memory[s] # 0 => truth'[s].size = truth[s].size /\ truth'[s].pages = truth[s].pages
    PROVE  ContentInv'
  <1>1. \A i, m, w : InPool(i, m, w)' <=> InPool(i, m, w)
    BY DEF InPool
  <1>2. \A s \in Sandbox : memory[s] # 0 => Matches(mems[memory[s]], truth[s])'
    BY DEF ContentInv, Matches
  <1> QED BY <1>1, <1>2 DEF ContentInv

\* A step that changes the memory i of sandbox s.
LEMMA ContentOfOne ==
    ASSUME IInv, ContentInv, NEW s \in Sandbox, NEW i \in 1 .. Len(mems), i = memory[s],
           Len(mems') = Len(mems), \A j \in 1 .. Len(mems) : j # i => mems'[j] = mems[j],
           UNCHANGED <<memory, mempool>>, \A x \in Sandbox : x # s => truth'[x] = truth[x],
           Within(mems'[i]), Matches(mems'[i], truth'[s])
    PROVE  ContentInv'
  <1>1. MemoryInv /\ Typed
    BY DEF IInv
  <1>2. /\ \A x \in Sandbox : memory[x] = i => x = s
        /\ \A m \in Module, w \in Worker : ~InPool(i, m, w)
    BY <1>1, MemoryOfOne
  <1>3. \A j \in 1 .. Len(mems) : Within(mems'[j])
    BY DEF ContentInv
  <1>4. ASSUME NEW m \in Module, NEW w \in Worker, NEW j, InPool(j, m, w)'
        PROVE  IsReady(mems'[j], m)
    <2>1. InPool(j, m, w)
      BY <1>4 DEF InPool
    <2>2. j # i /\ j \in 1 .. Len(mems)
      BY <1>1, <1>2, <2>1, PooledIsMapped
    <2> QED BY <2>1, <2>2 DEF ContentInv
  <1>5. ASSUME NEW x \in Sandbox, memory'[x] # 0
        PROVE  Matches(mems'[memory'[x]], truth'[x])
    <2>1. memory'[x] = memory[x] /\ memory[x] # 0
      BY <1>5
    <2>2. memory[x] \in 1 .. Len(mems)
      <3>1. memory[x] \in 0 .. Len(mems)
        BY <1>1 DEF Typed
      <3> QED BY <2>1, <3>1, SMT
    <2>3. CASE x = s
      BY <2>1, <2>3
    <2>4. CASE x # s
      <3>1. mems'[memory[x]] = mems[memory[x]] /\ truth'[x] = truth[x]
        BY <1>2, <2>2, <2>4
      <3> QED BY <2>1, <3>1 DEF ContentInv
    <2> QED BY <2>3, <2>4
  <1> QED BY <1>3, <1>4, <1>5 DEF ContentInv

\* A page is stored to, in the memory and in the history.
LEMMA PageStored ==
    ASSUME NEW z \in LinearMemory, NEW h \in History, Matches(z, h), Within(z),
           NEW p \in Page, NEW d \in Data, p < z.size \/ d \in Strays
    PROVE  Within(Written(z, p, d)) /\ Matches(Written(z, p, d), Written(h, p, d))
  <1> DEFINE y == Written(z, p, d)
             g == Written(h, p, d)
  <1>1. y.size = z.size /\ y.pages = [z.pages EXCEPT ![p] = d] /\ z.pages \in [Page -> Data]
    BY DEF Written, LinearMemory
  <1>2. g.size = h.size /\ g.pages = [h.pages EXCEPT ![p] = d] /\ h.pages \in [Page -> Data]
    BY DEF Written, History
  <1> HIDE DEF y, g
  <1>3. /\ \A q \in Page : y.pages[q] = IF q = p THEN d ELSE z.pages[q]
        /\ \A q \in Page : g.pages[q] = IF q = p THEN d ELSE h.pages[q]
    BY <1>1, <1>2
  <1>4. Within(y)
    BY <1>1, <1>3 DEF Within, Leftover
  <1>5. Matches(y, g)
    BY <1>1, <1>2, <1>3 DEF Matches
  <1> QED BY <1>4, <1>5 DEF y, g

\* The data segment and the module's stores.
LEMMA ContentStored ==
    ASSUME IInv, ContentInv, NEW w \in Worker, NEW p \in Page,
           (p = 0 /\ current_sandbox_init(w)) \/ instruction_store(w, p)
    PROVE  ContentInv'
  <1>0. current[w] # NULL /\ state[current[w]] \in Running
    BY DEF current_sandbox_init, instruction_store, Executes, Running
  <1> SUFFICES ASSUME NEW s \in Sandbox, s = current[w], NEW i \in 1 .. Len(mems), i = memory[s],
                      NEW d \in Data, d = Datum(s, p, cache[w].memory.size)
               PROVE  ContentInv'
    BY <1>0, CurrentIs, DatumIs
  <1>1. /\ cache[w].memory.buffer = i /\ mems[i] \in LinearMemory /\ cache[w].memory.size = mems[i].size
        /\ mems \in Seq(LinearMemory) /\ truth \in [Sandbox -> History] /\ truth[s] \in History
    BY <1>0, CurrentIs DEF IInv, Typed
  <1>2. Within(mems[i])
    BY DEF ContentInv
  <1>3. Matches(mems[i], truth[s])
    <2>1. i # 0
      BY SMT
    <2> QED BY <2>1 DEF ContentInv
  <1>4. p < mems[i].size \/ d \in Strays
    BY <1>1, DatumIs
  <1>5. mems' = Stored(mems, i, p, d) /\ truth' = [truth EXCEPT ![s].pages[p] = d] /\ UNCHANGED <<memory, mempool>>
    BY <1>1 DEF current_sandbox_init, instruction_store, Stored
  <1>6. /\ Len(mems') = Len(mems) /\ mems'[i] = Written(mems[i], p, d)
        /\ \A j \in 1 .. Len(mems) : j # i => mems'[j] = mems[j]
    BY <1>1, <1>5, StoreEffect
  <1>7. truth'[s] = Written(truth[s], p, d) /\ \A x \in Sandbox : x # s => truth'[x] = truth[x]
    BY <1>1, <1>5 DEF Written
  <1>8. Within(mems'[i]) /\ Matches(mems'[i], truth'[s])
    <2>1. Within(Written(mems[i], p, d)) /\ Matches(Written(mems[i], p, d), Written(truth[s], p, d))
      BY <1>1, <1>2, <1>3, <1>4, PageStored
    <2> QED BY <1>6, <1>7, <2>1
  <1> QED BY <1>5, <1>6, <1>7, <1>8, ContentOfOne

\* memory.grow: the size in the descriptor and in the history grow by as much.
LEMMA ContentGrown ==
    ASSUME NoWrap, IInv, ContentInv, NEW w \in Worker, NEW n \in Grow, sledge_abi__wasm_memory_expand(w, n)
    PROVE  ContentInv'
  <1>0. current[w] # NULL /\ state[current[w]] \in Running
    BY DEF sledge_abi__wasm_memory_expand, Executes, Running
  <1> SUFFICES ASSUME NEW s \in Sandbox, s = current[w], NEW i \in 1 .. Len(mems), i = memory[s]
               PROVE  ContentInv'
    BY <1>0, CurrentIs
  <1>1. truth' = [truth EXCEPT ![s].size = truth[s].size + n] /\ UNCHANGED <<memory, mempool>>
    BY DEF sledge_abi__wasm_memory_expand
  <1>2. /\ Len(mems') = Len(mems) /\ \A j \in 1 .. Len(mems) : j # i => mems'[j] = mems[j]
        /\ mems'[i].pages = mems[i].pages /\ mems'[i].size = mems[i].size + Bytes32(n)
    BY GrowEffect
  <1>3. truth \in [Sandbox -> History] /\ truth[s] \in History /\ mems[i] \in LinearMemory
    BY <1>0, CurrentIs DEF IInv, Typed
  <1>4. Within(mems[i]) /\ Matches(mems[i], truth[s])
    <2>1. i # 0
      BY SMT
    <2> QED BY <2>1 DEF ContentInv
  <1>5. n \in Nat /\ Bytes32(n) = n
    <2>1. n \in Nat /\ n < PageWrap
      BY InstanceAssumption DEF NoWrap
    <2> QED BY <2>1, Bytes32Is
  <1>6. /\ truth'[s].size = truth[s].size + n /\ truth'[s].pages = truth[s].pages
        /\ \A x \in Sandbox : x # s => truth'[x] = truth[x]
    BY <1>1, <1>3 DEF History
  <1>7. Within(mems'[i])
    <2>1. mems[i].size \in Nat
      BY <1>3, SMT DEF LinearMemory
    <2>2. \A p \in Page : p \in Nat
      BY InstanceAssumption, SMT DEF Page
    <2> DEFINE a == mems[i].size
               b == mems'[i].size
    <2>3. b = a + n
      BY <1>2, <1>5
    <2> HIDE DEF a, b
    <2>4. a \in Nat
      BY <2>1 DEF a
    <2>5. (a >= 1 => b >= 1) /\ \A p \in Page : p < a => p < b
      BY <1>5, <2>2, <2>3, <2>4, SMT
    <2> QED BY <1>2, <1>4, <2>5 DEF Within, a, b
  <1>8. Matches(mems'[i], truth'[s])
    BY <1>2, <1>4, <1>5, <1>6 DEF Matches
  <1> QED BY <1>1, <1>2, <1>6, <1>7, <1>8, ContentOfOne

\* A memory that is given back has been cleared up to its size.
LEMMA ContentRecycled ==
    ASSUME NoWrap, IInv, ContentInv, NEW w \in Worker, NEW last, finish(w, last)
    PROVE  ContentInv'
  <1> SUFFICES ASSUME NEW s, s = current[w], NEW i, i = memory[s]
               PROVE  ContentInv'
    OBVIOUS
  <1>1. Recycled(w, s, i)
    BY FinishEffect
  <1>2. /\ s \in Sandbox /\ i \in 1 .. Len(mems) /\ module[s] \in Module
        /\ mems' \in Seq(LinearMemory) /\ Len(mems') = Len(mems)
        /\ mems'[i] = wasm_memory_reinit(i, Bytes32(StartingPages[module[s]]))
        /\ Bytes32(StartingPages[module[s]]) \in 0 .. MaxPages
        /\ \A j \in 1 .. Len(mems) : j # i => mems'[j] = mems[j]
        /\ memory' = [memory EXCEPT ![s] = 0]
        /\ \A m \in Module, v \in Worker : \A j :
               InPool(j, m, v)' <=> InPool(j, m, v) \/ (j = i /\ m = module[s] /\ v = w)
    BY <1>1 DEF Recycled
  <1>3. Typed /\ MemoryInv /\ mems \in Seq(LinearMemory) /\ memory \in [Sandbox -> 0 .. Len(mems)] /\ truth' = truth
    BY DEF IInv, Typed, finish
  <1>4. StartingPages[module[s]] \in Nat \ {0} /\ Bytes32(StartingPages[module[s]]) = StartingPages[module[s]]
    <2>1. StartingPages[module[s]] \in Nat \ {0} /\ StartingPages[module[s]] < PageWrap
      BY <1>2, InstanceAssumption, SMT DEF NoWrap
    <2> QED BY <2>1, Bytes32Is
  <1>5. IsReady(mems'[i], module[s])
    <2>1. /\ mems'[i] \in LinearMemory /\ mems'[i].size = StartingPages[module[s]]
          /\ \A p \in Page : mems'[i].pages[p] = IF p < mems[i].size THEN NULL ELSE mems[i].pages[p]
      <3>1. ASSUME NEW n \in 0 .. MaxPages
            PROVE  /\ wasm_memory_reinit(i, n) \in LinearMemory
                   /\ wasm_memory_reinit(i, n).size = n
                   /\ \A p \in Page : wasm_memory_reinit(i, n).pages[p]
                                     = IF p < mems[i].size THEN NULL ELSE mems[i].pages[p]
        BY <1>2, <1>3, ReinitIs
      <3>2. StartingPages[module[s]] \in 0 .. MaxPages /\ mems'[i] = wasm_memory_reinit(i, StartingPages[module[s]])
        BY <1>2, <1>4
      <3> DEFINE k == StartingPages[module[s]]
                 z == wasm_memory_reinit(i, k)
      <3> HIDE DEF k
      <3>3. /\ z \in LinearMemory /\ z.size = k
            /\ \A p \in Page : z.pages[p] = IF p < mems[i].size THEN NULL ELSE mems[i].pages[p]
        BY <3>1, <3>2 DEF k
      <3>4. mems'[i] = z /\ k = StartingPages[module[s]]
        BY <3>2 DEF k
      <3> HIDE DEF z
      <3> QED BY <3>3, <3>4
    <2>2. \A p \in Page : p < mems[i].size \/ mems[i].pages[p] \in Leftover
      BY <1>2 DEF ContentInv, Within
    <2>3. NULL \in Leftover
      BY DEF Leftover
    <2>4. \A p \in Page : mems'[i].pages[p] \in Leftover
      BY <2>1, <2>2, <2>3
    <2> QED BY <2>1, <2>4 DEF IsReady
  <1>6. Within(mems'[i])
    <2>1. mems'[i].size = StartingPages[module[s]] /\ \A p \in Page : mems'[i].pages[p] \in Leftover
      BY <1>5 DEF IsReady
    <2>2. StartingPages[module[s]] >= 1
      BY <1>4, SMT
    <2> QED BY <2>1, <2>2 DEF Within
  <1>7. ASSUME NEW m \in Module, NEW v \in Worker, NEW j, InPool(j, m, v)'
        PROVE  IsReady(mems'[j], m)
    <2>1. CASE j = i /\ m = module[s]
      BY <1>5, <2>1
    <2>2. CASE InPool(j, m, v)
      <3>1. ~InPool(i, m, v)
        BY <1>2, <1>3, MemoryOfOne
      <3>2. j \in 1 .. Len(mems) /\ j # i
        BY <1>3, <2>2, <3>1, PooledIsMapped
      <3> QED BY <1>2, <2>2, <3>2 DEF ContentInv
    <2> QED BY <1>2, <1>7, <2>1, <2>2
  <1>8. ASSUME NEW x \in Sandbox, memory'[x] # 0
        PROVE  Matches(mems'[memory'[x]], truth'[x])
    <2>1. x # s /\ memory'[x] = memory[x]
      BY <1>2, <1>3, <1>8
    <2>2. memory[x] # 0 /\ memory[x] \in 1 .. Len(mems)
      BY <1>3, <1>8, <2>1, SMT
    <2>3. memory[x] # i
      BY <1>2, <1>3, <2>1, MemoryOfOne
    <2>4. mems'[memory[x]] = mems[memory[x]]
      BY <1>2, <2>2, <2>3
    <2> QED BY <1>3, <2>1, <2>2, <2>4 DEF ContentInv
  <1>9. \A j \in 1 .. Len(mems') : Within(mems'[j])
    BY <1>2, <1>6 DEF ContentInv
  <1> QED BY <1>7, <1>8, <1>9 DEF ContentInv

\* A sandbox gets a new memory, or one that has been cleared.
LEMMA ContentSupplied ==
    ASSUME IInv, ContentInv, NEW w \in Worker, NEW s \in Sandbox, sandbox_prepare_execution_environment(w, s)
    PROVE  ContentInv'
  <1>1. state[s] = "INITIALIZED" /\ truth' = [truth EXCEPT ![s].size = StartingPages[module[s]]]
    BY DEF sandbox_prepare_execution_environment
  <1>2. PICK i : Supplied(w, s, i)
    BY <1>1, AllocateEffect DEF sandbox_prepare_execution_environment
  <1>3. /\ module[s] \in Module /\ memory[s] = 0
        /\ mems' \in Seq(LinearMemory) /\ i \in 1 .. Len(mems')
        /\ \A j \in 1 .. Len(mems) : j \in 1 .. Len(mems') /\ mems'[j] = mems[j]
        /\ \A j \in 1 .. Len(mems') : j # i => j \in 1 .. Len(mems)
        /\ memory' = [memory EXCEPT ![s] = i]
        /\ \A m \in Module, v \in Worker : \A j : InPool(j, m, v)' <=> InPool(j, m, v) /\ j # i
        /\ \/ i \in 1 .. Len(mems) /\ InPool(i, module[s], w)
           \/ mems'[i] = wasm_memory_init(StartingPages[module[s]])
    BY <1>2 DEF Supplied
  <1>4. Typed /\ memory \in [Sandbox -> 0 .. Len(mems)]
    BY DEF IInv, Typed
  <1>5. /\ truth'[s].size = StartingPages[module[s]] /\ truth'[s].pages = Blank
        /\ \A x \in Sandbox : x # s => truth'[x] = truth[x]
    <2>1. truth \in [Sandbox -> History] /\ truth[s] \in History /\ truth[s] = Nothing
      BY <1>1 DEF IInv, Typed, StateInv, Fresh
    <2>2. truth[s].pages = Blank
      BY <2>1, SMT DEF Nothing
    <2> QED BY <1>1, <2>1, <2>2 DEF History
  <1>6. IsReady(mems'[i], module[s])
    <2>1. CASE i \in 1 .. Len(mems) /\ InPool(i, module[s], w)
      <3>1. IsReady(mems[i], module[s]) /\ mems'[i] = mems[i]
        BY <1>3, <2>1 DEF ContentInv
      <3> QED BY <3>1
    <2>2. CASE mems'[i] = wasm_memory_init(StartingPages[module[s]])
      <3>1. mems'[i].size = StartingPages[module[s]] /\ mems'[i].pages = Blank
        BY <2>2, SMT DEF wasm_memory_init
      <3>2. \A p \in Page : Blank[p] \in Leftover
        BY DEF Blank, Leftover
      <3> QED BY <3>1, <3>2 DEF IsReady
    <2> QED BY <1>3, <2>1, <2>2
  <1>7. Within(mems'[i])
    <2>1. StartingPages[module[s]] >= 1
      BY <1>3, InstanceAssumption, SMT
    <2>2. mems'[i].size >= 1 /\ \A p \in Page : mems'[i].pages[p] \in Leftover
      BY <1>6, <2>1 DEF IsReady
    <2> QED BY <2>2 DEF Within
  <1>8. \A j \in 1 .. Len(mems') : Within(mems'[j])
    BY <1>3, <1>7 DEF ContentInv
  <1>9. ASSUME NEW m \in Module, NEW v \in Worker, NEW j, InPool(j, m, v)'
        PROVE  IsReady(mems'[j], m)
    <2>1. InPool(j, m, v) /\ j # i
      BY <1>3, <1>9
    <2>2. j \in 1 .. Len(mems)
      BY <1>4, <2>1, PooledIsMapped
    <2> QED BY <1>3, <2>1, <2>2 DEF ContentInv
  <1>10. ASSUME NEW x \in Sandbox, memory'[x] # 0
         PROVE  Matches(mems'[memory'[x]], truth'[x])
    <2>1. CASE x = s
      <3>1. memory'[x] = i
        BY <1>3, <1>4, <2>1
      <3>2. \A p \in Page : truth'[s].pages[p] = NULL
        BY <1>5 DEF Blank
      <3>3. mems'[i].size = truth'[s].size /\ \A p \in Page : mems'[i].pages[p] = NULL \/ mems'[i].pages[p] \in Strays
        BY <1>5, <1>6 DEF IsReady, Leftover
      <3> QED BY <2>1, <3>1, <3>2, <3>3 DEF Matches
    <2>2. CASE x # s
      <3>1. memory'[x] = memory[x] /\ truth'[x] = truth[x]
        BY <1>3, <1>4, <1>5, <2>2
      <3>2. memory[x] # 0 /\ memory[x] \in 1 .. Len(mems)
        BY <1>4, <1>10, <3>1, SMT
      <3> QED BY <1>3, <3>1, <3>2 DEF ContentInv
    <2> QED BY <2>1, <2>2
  <1> QED BY <1>8, <1>9, <1>10 DEF ContentInv

\* The other steps leave memories and pools alone, and what is told of the memories that are held.
LEMMA ContentUntouched ==
    ASSUME IInv, ContentInv, NEW w \in Worker,
           \/ \E n \in Sandbox : scheduler_preemptive_sched(w, n) \/ scheduler_cooperative_switch_to(w, n)
           \/ scheduler_switch_to_base_context(w)
           \/ scheduler_idle_loop(w) \/ current_sandbox_exit(w)
           \/ module_initialize_globals(w) \/ \E i \in Assigned : instruction_global_set(w, i)
    PROVE  ContentInv'
  <1>1. CASE \/ \E n \in Sandbox : scheduler_preemptive_sched(w, n) \/ scheduler_cooperative_switch_to(w, n)
             \/ scheduler_switch_to_base_context(w)
    <2>1. UNCHANGED <<mems, memory, mempool>> /\ truth' = truth
      BY <1>1 DEF scheduler_preemptive_sched, scheduler_cooperative_switch_to,
                         scheduler_switch_to_base_context, pools
    <2> QED BY <2>1, ContentStays
  <1>2. CASE scheduler_idle_loop(w) \/ current_sandbox_exit(w)
    <2>1. UNCHANGED <<mems, memory, mempool>> /\ local_cleanup_queue_free(w)
      BY <1>2 DEF scheduler_idle_loop, current_sandbox_exit
    <2>2. Freed(w)
      BY <2>1, FreeEffect DEF IInv
    <2>3. ASSUME NEW x \in Sandbox, memory[x] # 0
          PROVE  truth'[x] = truth[x]
      <3>1. x \notin cleanup[w]
        <4>1. state[x] \in Queued /\ \A y \in cleanup[w] : state[y] \in Ended
          BY <2>3 DEF IInv, StateInv, ThreadInv, Thread
        <4> QED BY <4>1 DEF Queued, Ended
      <3> QED BY <2>2, <3>1 DEF Freed
    <2> QED BY <2>1, <2>3, ContentStays
  <1>3. CASE module_initialize_globals(w) \/ \E i \in Assigned : instruction_global_set(w, i)
    <2>0. current[w] # NULL /\ truth \in [Sandbox -> History] /\ current[w] \in Sandbox
      <3>1. current[w] # NULL /\ state[current[w]] \in Running
        BY <1>3 DEF module_initialize_globals, instruction_global_set, Executes, Running
      <3> QED BY <3>1, CurrentIs DEF IInv, Typed
    <2> SUFFICES ASSUME NEW s \in Sandbox, s = current[w]
                 PROVE  ContentInv'
      BY <2>0
    <2>1. UNCHANGED <<mems, memory, mempool>>
      BY <1>3 DEF module_initialize_globals, instruction_global_set, pools
    <2>2. truth' = truth \/ \E g : truth' = [truth EXCEPT ![s].globals = g]
      BY <1>3 DEF module_initialize_globals, instruction_global_set
    <2>3. \A x \in Sandbox : truth'[x].size = truth[x].size /\ truth'[x].pages = truth[x].pages
      <3>1. ASSUME NEW g, truth' = [truth EXCEPT ![s].globals = g], NEW x \in Sandbox
            PROVE  truth'[x].size = truth[x].size /\ truth'[x].pages = truth[x].pages
        <4>1. truth[s] \in History /\ truth[x] \in History
          BY <2>0
        <4>2. truth'[x] = IF x = s THEN [truth[s] EXCEPT !.globals = g] ELSE truth[x]
          BY <2>0, <3>1
        <4> QED BY <4>1, <4>2 DEF History
      <3> QED BY <2>2, <3>1
    <2> QED BY <2>1, <2>3, ContentStays
  <1> QED BY <1>1, <1>2, <1>3

\* A sandbox or a module is allocated: nothing has a memory yet.
LEMMA ContentAllocated ==
    ASSUME IInv, ContentInv,
           (\E m \in Module : module_alloc(m)) \/ (\E s \in Sandbox, m \in Module : sandbox_alloc(s, m))
    PROVE  ContentInv'
  <1>1. ASSUME NEW m \in Module, module_alloc(m)
        PROVE  ContentInv'
    <2>1. /\ m \notin loaded /\ mempool' = [mempool EXCEPT ![m] = [w \in Worker |-> <<>>]]
          /\ UNCHANGED <<mems, memory, truth>>
      BY <1>1 DEF module_alloc, module_init, sandboxes
    <2>2. mempool \in [Module -> [Worker -> Seq(1 .. Len(mems))]] /\ \A w \in Worker : mempool[m][w] = <<>>
      BY <2>1 DEF IInv, Typed, MemoryInv
    <2>3. mempool[m] = [w \in Worker |-> <<>>]
      BY <2>2
    <2>4. mempool' = mempool
      BY <2>1, <2>2, <2>3
    <2> QED BY <2>1, <2>4, ContentStays
  <1>2. ASSUME NEW s \in Sandbox, NEW m \in Module, sandbox_alloc(s, m)
        PROVE  ContentInv'
    <2>1. UNCHANGED <<mems, memory, mempool, truth>>
      BY <1>2 DEF sandbox_alloc, pools
    <2> QED BY <2>1, ContentStays
  <1> QED BY <1>1, <1>2

\* Every step keeps the content of the memories and of the pools.
LEMMA ContentNext == ASSUME NoWrap PROVE IInv /\ ContentInv /\ [Next]_vars => ContentInv'
  <1> SUFFICES ASSUME IInv, ContentInv, [Next]_vars PROVE ContentInv'
    OBVIOUS
  <1>1. CASE UNCHANGED vars
    <2>1. UNCHANGED <<mems, memory, mempool, truth>>
      BY <1>1 DEF vars, sandboxes, pools
    <2> QED BY <2>1, ContentStays
  <1>2. CASE (\E m \in Module : module_alloc(m)) \/ (\E s \in Sandbox, m \in Module : sandbox_alloc(s, m))
    BY <1>2, ContentAllocated
  <1>3. ASSUME NEW w \in Worker, NEW s \in Sandbox, sandbox_prepare_execution_environment(w, s)
        PROVE  ContentInv'
    BY <1>3, ContentSupplied
  <1>4. ASSUME NEW w \in Worker, current_sandbox_init(w)
        PROVE  ContentInv'
    <2>1. 0 \in Page
      <3>1. current[w] # NULL /\ state[current[w]] \in Running
        BY <1>4 DEF current_sandbox_init, Executes, Running
      <3> QED BY <3>1, CurrentIs
    <2> QED BY <1>4, <2>1, ContentStored
  <1>5. ASSUME NEW w \in Worker, NEW p \in Page, instruction_store(w, p)
        PROVE  ContentInv'
    BY <1>5, ContentStored
  <1>6. ASSUME NEW w \in Worker, NEW n \in Grow, sledge_abi__wasm_memory_expand(w, n)
        PROVE  ContentInv'
    BY <1>6, ContentGrown
  <1>7. ASSUME NEW w \in Worker, current_sandbox_fini(w) \/ current_sandbox_wasm_trap_handler(w)
        PROVE  ContentInv'
    BY <1>7, ContentRecycled DEF current_sandbox_fini, current_sandbox_wasm_trap_handler
  <1>8. ASSUME NEW w \in Worker,
               \/ \E n \in Sandbox : scheduler_preemptive_sched(w, n) \/ scheduler_cooperative_switch_to(w, n)
               \/ scheduler_switch_to_base_context(w)
               \/ scheduler_idle_loop(w) \/ current_sandbox_exit(w)
               \/ module_initialize_globals(w) \/ \E i \in Assigned : instruction_global_set(w, i)
        PROVE  ContentInv'
    BY <1>8, ContentUntouched
  <1> QED BY <1>1, <1>2, <1>3, <1>4, <1>5, <1>6, <1>7, <1>8 DEF Next

\* A sandbox has as many pages as it has grown to, finds what it stored itself, and elsewhere zeros or
\* what an earlier user of the recycled memory stored beyond the size, never what that one stored within
\* it (wasm_memory_reinit clears up to the size, current_sandbox_memory_writeback keeps the size right,
\* and stores are not checked against the size).
THEOREM MemoryIsKept ==
    ASSUME NoWrap
    PROVE  Spec => []KeepsItsMemory
  <1>1. Init => ContentInv
    <2> SUFFICES ASSUME Init PROVE ContentInv
      OBVIOUS
    <2>1. mems = <<>> /\ (\A m \in Module, w \in Worker : mempool[m][w] = <<>>) /\ \A s \in Sandbox : memory[s] = 0
      BY DEF Init
    <2>2. 1 .. Len(mems) = {}
      BY <2>1, SMT
    <2>3. \A i : ~Contains(<<>>, i)
      BY SMT DEF Contains
    <2> QED BY <2>1, <2>2, <2>3 DEF ContentInv, InPool
  <1>2. IInv /\ ContentInv /\ [Next]_vars => ContentInv'
    BY ContentNext
  <1>3. ContentInv => KeepsItsMemory
    BY DEF ContentInv, KeepsItsMemory, Matches
  <1> QED BY <1>1, <1>2, <1>3, InstanceInvariant, PTL DEF Spec

-----------------------------------------------------------------------------
(***************************************************************************)
(* The counters.  A module counts its sandboxes.  A stack stays with the   *)
(* sandbox, and the sandbox in the hands of the worker that has taken the  *)
(* stack from its pool, until that worker gives it back.  What this needs  *)
(* of cardinalities is collected in Counting, and proved at the end.       *)
(***************************************************************************)
Counting ==
    /\ Cardinality({}) = 0
    /\ \A x : Cardinality({x}) = 1
    /\ \A S \in SUBSET Sandbox : Cardinality(S) \in Nat /\ Cardinality(S) <= Cardinality(Sandbox)
    /\ \A S \in SUBSET Sandbox, s \in Sandbox : s \notin S => Cardinality(S \cup {s}) = Cardinality(S) + 1
    /\ \A S, T \in SUBSET Sandbox : T \subseteq S => Cardinality(S \ T) = Cardinality(S) - Cardinality(T)

ReferenceInv == references \in [Module -> 0 .. Cardinality(Sandbox)] /\ ReferencesAreSandboxes

\* Nobody refers to a module that is loaded, and a sandbox that is allocated is one reference more.
LEMMA ReferencesTaken ==
    ASSUME Counting, IInv, ReferenceInv,
           (\E m \in Module : module_alloc(m)) \/ (\E s \in Sandbox, m \in Module : sandbox_alloc(s, m))
    PROVE  ReferenceInv'
  <1>1. Typed /\ StateInv /\ references \in [Module -> 0 .. Cardinality(Sandbox)] /\ ReferencesAreSandboxes
    BY DEF IInv, ReferenceInv
  <1>2. ASSUME NEW m \in Module, module_alloc(m)
        PROVE  ReferenceInv'
    <2>1. m \notin loaded /\ references' = [references EXCEPT ![m] = 0] /\ module' = module
      BY <1>2 DEF module_alloc, module_init, sandboxes
    <2>2. {s \in Sandbox : module[s] = m} = {}
      <3>1. m # NULL
        BY InstanceAssumption
      <3> QED BY <1>1, <2>1, <3>1 DEF StateInv
    <2>3. references[m] = 0
      BY <1>1, <2>2 DEF ReferencesAreSandboxes, Counting
    <2>4. references' = references
      BY <1>1, <2>1, <2>3
    <2> QED BY <1>1, <2>1, <2>4 DEF ReferenceInv, ReferencesAreSandboxes
  <1>3. ASSUME NEW s \in Sandbox, NEW m \in Module, sandbox_alloc(s, m)
        PROVE  ReferenceInv'
    <2>1. /\ state[s] = "NONE" /\ module' = [module EXCEPT ![s] = m]
          /\ references' = [references EXCEPT ![m] = references[m] + 1]
      BY <1>3 DEF sandbox_alloc, module_acquire
    <2>2. module \in [Sandbox -> Module \cup {NULL}] /\ module[s] = NULL /\ NULL \notin Module
      BY <1>1, <2>1, InstanceAssumption DEF Typed, StateInv
    <2>3. module'[s] = m /\ \A x \in Sandbox : x # s => module'[x] = module[x]
      BY <2>1, <2>2
    <2>4. ASSUME NEW k \in Module
          PROVE  /\ references'[k] = Cardinality({x \in Sandbox : module'[x] = k})
                 /\ references'[k] \in 0 .. Cardinality(Sandbox)
      <3> DEFINE A == {x \in Sandbox : module[x] = k}
                 B == {x \in Sandbox : module'[x] = k}
      <3>1. A \in SUBSET Sandbox /\ B \in SUBSET Sandbox
        OBVIOUS
      <3>2. Cardinality(B) \in Nat /\ Cardinality(Sandbox) \in Nat /\ Cardinality(B) <= Cardinality(Sandbox)
        BY <3>1 DEF Counting
      <3>3. references \in [Module -> 0 .. Cardinality(Sandbox)] /\ references[k] = Cardinality(A)
        BY <1>1 DEF ReferencesAreSandboxes
      <3>4. CASE k = m
        <4>1. B = A \cup {s} /\ s \notin A
          BY <2>2, <2>3, <3>4
        <4>2. Cardinality(B) = Cardinality(A) + 1
          BY <3>1, <4>1 DEF Counting
        <4>3. references'[k] = references[k] + 1
          BY <2>1, <3>3, <3>4
        <4> QED BY <3>2, <3>3, <4>2, <4>3, SMT
      <3>5. CASE k # m
        <4>1. \A x \in Sandbox : module'[x] = k <=> module[x] = k
          BY <2>2, <2>3, <3>5
        <4>2. B = A
          BY <4>1
        <4>3. references'[k] = references[k]
          BY <2>1, <3>3, <3>5
        <4> QED BY <3>3, <4>2, <4>3
      <3> QED BY <3>4, <3>5
    <2>5. references' = [k \in Module |-> references'[k]]
      BY <1>1, <2>1
    <2> QED BY <2>4, <2>5 DEF ReferenceInv, ReferencesAreSandboxes
  <1> QED BY <1>2, <1>3

\* Each freed sandbox gives up the one reference it had.
LEMMA ReferencesReleased ==
    ASSUME Counting, Typed, ReferenceInv, NEW w \in Worker, local_cleanup_queue_free(w)
    PROVE  ReferenceInv'
  <1>1. references' = [m \in Module |-> references[m] - Cardinality({s \in cleanup[w] : module[s] = m})]
    BY DEF local_cleanup_queue_free, module_release
  <1>2. cleanup[w] \subseteq Sandbox /\ Freed(w)
    BY FreeEffect DEF Typed
  <1>3. ASSUME NEW m \in Module
        PROVE  /\ references'[m] = Cardinality({s \in Sandbox : module'[s] = m})
               /\ references'[m] \in 0 .. Cardinality(Sandbox)
    <2> DEFINE A == {s \in Sandbox : module[s] = m}
               B == {s \in Sandbox : module'[s] = m}
               C == {s \in cleanup[w] : module[s] = m}
    <2>1. A \in SUBSET Sandbox /\ B \in SUBSET Sandbox /\ C \in SUBSET Sandbox
      BY <1>2
    <2>2. B = A \ C /\ C \subseteq A
      <3>1. m # NULL
        BY InstanceAssumption
      <3>2. \A s \in Sandbox : module'[s] = m <=> module[s] = m /\ s \notin cleanup[w]
        BY <1>2, <3>1 DEF Freed
      <3> QED BY <1>2, <3>2
    <2>3. Cardinality(B) = Cardinality(A) - Cardinality(C)
      <3> HIDE DEF A, B, C
      <3> QED BY <2>1, <2>2 DEF Counting
    <2>4. references'[m] = references[m] - Cardinality(C) /\ references[m] = Cardinality(A)
      BY <1>1 DEF ReferenceInv, ReferencesAreSandboxes
    <2>5. Cardinality(B) \in Nat /\ Cardinality(Sandbox) \in Nat /\ Cardinality(B) <= Cardinality(Sandbox)
      <3> HIDE DEF A, B, C
      <3> QED BY <2>1 DEF Counting
    <2> QED BY <2>3, <2>4, <2>5, SMT
  <1>4. references' = [m \in Module |-> references'[m]]
    BY <1>1
  <1> QED BY <1>3, <1>4 DEF ReferenceInv, ReferencesAreSandboxes

\* Every step keeps the count of the references.
LEMMA ReferenceNext ==
    ASSUME Counting, IInv, ReferenceInv, [Next]_vars
    PROVE  ReferenceInv'
  <1>1. CASE UNCHANGED <<references, module>>
    BY <1>1 DEF ReferenceInv, ReferencesAreSandboxes
  <1>2. CASE UNCHANGED vars
    BY <1>1, <1>2 DEF vars, modules, sandboxes
  <1>3. CASE (\E m \in Module : module_alloc(m)) \/ (\E s \in Sandbox, m \in Module : sandbox_alloc(s, m))
    BY <1>3, ReferencesTaken
  <1>4. ASSUME NEW w \in Worker, scheduler_idle_loop(w) \/ current_sandbox_exit(w)
        PROVE  ReferenceInv'
    BY <1>4, ReferencesReleased DEF IInv, scheduler_idle_loop, current_sandbox_exit
  <1>5. ASSUME NEW w \in Worker,
               \/ \E s \in Sandbox : \/ sandbox_prepare_execution_environment(w, s)
                                     \/ scheduler_preemptive_sched(w, s) \/ scheduler_cooperative_switch_to(w, s)
               \/ scheduler_switch_to_base_context(w)
               \/ current_sandbox_init(w) \/ module_initialize_globals(w)
               \/ \E i \in Assigned : instruction_global_set(w, i)
               \/ \E p \in Page : instruction_store(w, p)
               \/ \E n \in Grow : sledge_abi__wasm_memory_expand(w, n)
               \/ \E last : finish(w, last)
        PROVE  ReferenceInv'
    <2>1. UNCHANGED references /\ UNCHANGED module
      BY <1>5 DEF sandbox_prepare_execution_environment, scheduler_preemptive_sched,
                         scheduler_cooperative_switch_to, scheduler_switch_to_base_context, current_sandbox_init,
                         module_initialize_globals, instruction_global_set, instruction_store,
                         sledge_abi__wasm_memory_expand, finish, modules
    <2> QED BY <1>1, <2>1
  <1> QED BY <1>2, <1>3, <1>4, <1>5 DEF Next, current_sandbox_fini, current_sandbox_wasm_trap_handler

\* The sandboxes of module m whose stacks worker w has taken.
Taken(m, w) == {s \in Sandbox : stack[s] /\ module[s] = m /\ Owns(w, s)}

StackInv ==
    /\ stacks \in [Module -> [Worker -> Nat]] /\ stackpool \in [Module -> [Worker -> Nat]]
    /\ \A m \in Module, w \in Worker :
           /\ stacks[m][w] = Cardinality(Taken(m, w)) + stackpool[m][w]
           /\ m \notin loaded => stackpool[m][w] = 0

\* A stack for sandbox s from the pool of the worker, or a new one.
LEMMA StackTaken ==
    ASSUME StackInv, NEW w \in Worker, NEW s \in Sandbox, module[s] \in Module, module_allocate_stack(w, s)
    PROVE  /\ stacks' \in [Module -> [Worker -> Nat]] /\ stackpool' \in [Module -> [Worker -> Nat]]
           /\ stacks'[module[s]][w] - stackpool'[module[s]][w] = stacks[module[s]][w] - stackpool[module[s]][w] + 1
           /\ \A m \in Module, v \in Worker : m # module[s] \/ v # w =>
                  stacks'[m][v] = stacks[m][v] /\ stackpool'[m][v] = stackpool[m][v]
  <1> DEFINE k == module[s]
             a == stacks[k][w]
             b == stackpool[k][w]
  <1>1. stacks \in [Module -> [Worker -> Nat]] /\ stackpool \in [Module -> [Worker -> Nat]] /\ k \in Module
    BY DEF StackInv
  <1>2. a \in Nat /\ b \in Nat
    BY <1>1
  <1>3. \/ b > 0 /\ stackpool' = [stackpool EXCEPT ![k][w] = b - 1] /\ UNCHANGED stacks
        \/ stacks' = [stacks EXCEPT ![k][w] = a + 1] /\ UNCHANGED stackpool
    BY DEF module_allocate_stack, pool_of, wasm_stack_alloc
  <1> HIDE DEF k, a, b
  <1>4. ASSUME NEW f \in [Module -> [Worker -> Nat]], NEW n \in Nat, NEW g, g = [f EXCEPT ![k][w] = n]
        PROVE  /\ g \in [Module -> [Worker -> Nat]] /\ g[k][w] = n
               /\ \A m \in Module, v \in Worker : m # k \/ v # w => g[m][v] = f[m][v]
    BY <1>1, <1>4
  <1>5. CASE b > 0 /\ stackpool' = [stackpool EXCEPT ![k][w] = b - 1] /\ UNCHANGED stacks
    <2>1. b - 1 \in Nat
      BY <1>2, <1>5, SMT
    <2>2. /\ stackpool' \in [Module -> [Worker -> Nat]] /\ stackpool'[k][w] = b - 1
          /\ \A m \in Module, v \in Worker : m # k \/ v # w => stackpool'[m][v] = stackpool[m][v]
      <3> DEFINE n == b - 1
      <3> HIDE DEF n
      <3>1. n \in Nat /\ stackpool' = [stackpool EXCEPT ![k][w] = n]
        BY <1>5, <2>1 DEF n
      <3>2. /\ stackpool' \in [Module -> [Worker -> Nat]] /\ stackpool'[k][w] = n
            /\ \A m \in Module, v \in Worker : m # k \/ v # w => stackpool'[m][v] = stackpool[m][v]
        BY <1>1, <1>4, <3>1, SMT
      <3> QED BY <3>2 DEF n
    <2>3. stacks'[k][w] = a
      BY <1>5 DEF a
    <2>4. stacks'[k][w] - stackpool'[k][w] = a - b + 1
      BY <1>2, <2>2, <2>3, SMT
    <2> QED BY <1>1, <1>5, <2>2, <2>4 DEF a, b, k
  <1>6. CASE stacks' = [stacks EXCEPT ![k][w] = a + 1] /\ UNCHANGED stackpool
    <2>1. a + 1 \in Nat
      BY <1>2, SMT
    <2>2. /\ stacks' \in [Module -> [Worker -> Nat]] /\ stacks'[k][w] = a + 1
          /\ \A m \in Module, v \in Worker : m # k \/ v # w => stacks'[m][v] = stacks[m][v]
      <3> DEFINE n == a + 1
      <3> HIDE DEF n
      <3>1. n \in Nat /\ stacks' = [stacks EXCEPT ![k][w] = n]
        BY <1>6, <2>1 DEF n
      <3>2. /\ stacks' \in [Module -> [Worker -> Nat]] /\ stacks'[k][w] = n
            /\ \A m \in Module, v \in Worker : m # k \/ v # w => stacks'[m][v] = stacks[m][v]
        BY <1>1, <1>4, <3>1, SMT
      <3> QED BY <3>2 DEF n
    <2>3. stackpool'[k][w] = b
      BY <1>6 DEF b
    <2>4. stacks'[k][w] - stackpool'[k][w] = a - b + 1
      BY <1>2, <2>2, <2>3, SMT
    <2> QED BY <1>1, <1>6, <2>2, <2>4 DEF a, b, k
  <1> QED BY <1>3, <1>5, <1>6

\* The sandboxes whose stacks a worker has taken can be counted.
LEMMA TakenIsCounted ==
    ASSUME Counting, NEW m, NEW w
    PROVE  Taken(m, w) \in SUBSET Sandbox /\ Cardinality(Taken(m, w)) \in Nat
  <1>1. Taken(m, w) \in SUBSET Sandbox
    BY DEF Taken
  <1> QED BY <1>1 DEF Counting

\* A step after which the same sandboxes have stacks, in the same hands.
LEMMA StacksStay ==
    ASSUME StackInv, UNCHANGED <<loaded, stacks, stackpool>>,
           \A m \in Module, w \in Worker : Taken(m, w)' = Taken(m, w)
    PROVE  StackInv'
  BY DEF StackInv

\* A sandbox has a stack and a module as before and is in the same hands.
LEMMA TakenStays ==
    ASSUME UNCHANGED <<stack, module>>, NEW w \in Worker, \A s \in Sandbox : Owns(w, s)' <=> Owns(w, s)
    PROVE  \A m \in Module : Taken(m, w)' = Taken(m, w)
  BY DEF Taken

\* What a worker has in its hands stays so when its queues and current sandbox do.
LEMMA OwnsStays ==
    ASSUME UNCHANGED <<current, exiting, runq, cleanup>>
    PROVE  \A v \in Worker, s \in Sandbox : Owns(v, s)' <=> Owns(v, s)
  BY DEF Owns

\* The steps that leave every sandbox in the hands it is in.
LEMMA StacksUntouched ==
    ASSUME IInv, StackInv, NEW w \in Worker,
           \/ \E n \in Sandbox : scheduler_preemptive_sched(w, n) \/ scheduler_cooperative_switch_to(w, n)
           \/ scheduler_switch_to_base_context(w)
           \/ current_sandbox_init(w) \/ module_initialize_globals(w)
           \/ \E i \in Assigned : instruction_global_set(w, i)
           \/ \E p \in Page : instruction_store(w, p)
           \/ \E n \in Grow : sledge_abi__wasm_memory_expand(w, n)
           \/ \E last : finish(w, last)
    PROVE  StackInv'
  <1>0. /\ runq[w] \subseteq Sandbox /\ Thread(w) /\ NULL \notin Sandbox
        /\ current \in [Worker -> Sandbox \cup {NULL}] /\ exiting \in [Worker -> Sandbox \cup {NULL}]
        /\ runq \in [Worker -> SUBSET Sandbox] /\ cleanup \in [Worker -> SUBSET Sandbox]
    BY InstanceAssumption DEF IInv, Typed, ThreadInv
  <1>1. UNCHANGED <<loaded, stacks, stackpool>> /\ UNCHANGED <<stack, module>>
    BY DEF scheduler_preemptive_sched, scheduler_cooperative_switch_to, scheduler_switch_to_base_context,
                 current_sandbox_init, module_initialize_globals, instruction_global_set, instruction_store,
                 sledge_abi__wasm_memory_expand, finish, pools, modules
  <1>2. \A v \in Worker, s \in Sandbox : Owns(v, s)' <=> Owns(v, s)
    <2>1. CASE \E n \in Sandbox : scheduler_preemptive_sched(w, n)
      <3>1. PICK n \in Sandbox : scheduler_preemptive_sched(w, n)
        BY <2>1
      <3>2. /\ current[w] # NULL /\ n \in runq[w] /\ state[current[w]] = "RUNNING_USER"
            /\ current' = [current EXCEPT ![w] = n] /\ UNCHANGED <<exiting, runq, cleanup>>
        BY <3>1 DEF scheduler_preemptive_sched, current_sandbox_set
      <3>3. current[w] \in runq[w]
        BY <1>0, <3>2 DEF Thread
      <3>4. current'[w] = n /\ \A v \in Worker : v # w => current'[v] = current[v]
        BY <1>0, <3>2
      <3> QED BY <3>2, <3>3, <3>4 DEF Owns
    <2>2. CASE \E n \in Sandbox : scheduler_cooperative_switch_to(w, n)
      <3>1. PICK n \in Sandbox : scheduler_cooperative_switch_to(w, n)
        BY <2>2
      <3>2. /\ current[w] = NULL /\ n \in runq[w] /\ leave_exiting(w)
            /\ current' = [current EXCEPT ![w] = n] /\ runq' = runq
        BY <3>1 DEF scheduler_cooperative_switch_to, current_sandbox_set
      <3>3. current'[w] = n /\ \A v \in Worker : v # w => current'[v] = current[v]
        BY <1>0, <3>2
      <3>4. /\ exiting'[w] = NULL /\ \A x \in Sandbox : x \in cleanup'[w] <=> x \in cleanup[w] \/ x = exiting[w]
            /\ \A v \in Worker : v # w => exiting'[v] = exiting[v] /\ cleanup'[v] = cleanup[v]
        BY <1>0, <3>2 DEF leave_exiting
      <3>5. \A x \in Sandbox : x # NULL
        BY <1>0
      <3> QED BY <3>2, <3>3, <3>4, <3>5 DEF Owns
    <2>3. CASE scheduler_switch_to_base_context(w)
      <3>1. leave_exiting(w) /\ UNCHANGED <<current, runq>>
        BY <2>3 DEF scheduler_switch_to_base_context
      <3>2. /\ exiting'[w] = NULL /\ \A x \in Sandbox : x \in cleanup'[w] <=> x \in cleanup[w] \/ x = exiting[w]
            /\ \A v \in Worker : v # w => exiting'[v] = exiting[v] /\ cleanup'[v] = cleanup[v]
        BY <1>0, <3>1, SMT DEF leave_exiting
      <3>3. \A x \in Sandbox : x # NULL
        BY <1>0
      <3> QED BY <3>1, <3>2, <3>3 DEF Owns
    <2>4. CASE \E last : finish(w, last)
      <3>1. runq' = [runq EXCEPT ![w] = runq[w] \ {current[w]}] /\ UNCHANGED <<current, exiting, cleanup>>
        BY <2>4 DEF finish
      <3>2. /\ \A x : x \in runq'[w] <=> x \in runq[w] /\ x # current[w]
            /\ \A v \in Worker : v # w => runq'[v] = runq[v]
        BY <1>0, <3>1
      <3> QED BY <3>1, <3>2 DEF Owns
    <2>5. CASE \/ current_sandbox_init(w) \/ module_initialize_globals(w)
               \/ \E i \in Assigned : instruction_global_set(w, i)
               \/ \E p \in Page : instruction_store(w, p)
               \/ \E n \in Grow : sledge_abi__wasm_memory_expand(w, n)
      <3>1. UNCHANGED <<current, exiting, runq, cleanup>>
        BY <2>5 DEF current_sandbox_init, module_initialize_globals, instruction_global_set,
                           instruction_store, sledge_abi__wasm_memory_expand, threads
      <3> QED BY <3>1, OwnsStays
    <2> QED BY <2>1, <2>2, <2>3, <2>4, <2>5
  <1>3. \A m \in Module, v \in Worker : Taken(m, v)' = Taken(m, v)
    BY <1>1, <1>2, TakenStays
  <1> QED BY <1>1, <1>3, StacksStay

\* A sandbox that is allocated has no stack yet, and a module that is loaded no pools.
LEMMA StacksAllocated ==
    ASSUME IInv, StackInv,
           (\E m \in Module : module_alloc(m)) \/ (\E s \in Sandbox, m \in Module : sandbox_alloc(s, m))
    PROVE  StackInv'
  <1>1. ASSUME NEW m \in Module, module_alloc(m)
        PROVE  StackInv'
    <2>1. /\ m \notin loaded /\ stackpool' = [stackpool EXCEPT ![m] = [w \in Worker |-> 0]]
          /\ UNCHANGED <<stack, module>> /\ stacks' = stacks /\ UNCHANGED <<current, exiting, runq, cleanup>>
          /\ loaded' = loaded \cup {m}
      BY <1>1 DEF module_alloc, module_init, module_database_add, sandboxes, threads
    <2>2. stackpool \in [Module -> [Worker -> Nat]] /\ \A w \in Worker : stackpool[m][w] = 0
      BY <2>1 DEF StackInv
    <2>3. stackpool[m] = [w \in Worker |-> 0]
      BY <2>2
    <2>4. stackpool' = stackpool
      BY <2>1, <2>2, <2>3
    <2>5. \A k \in Module, w \in Worker : Taken(k, w)' = Taken(k, w)
      BY <2>1, OwnsStays, TakenStays
    <2>6. \A k \in Module : k \notin loaded' => k \notin loaded
      BY <2>1
    <2>7. \A k \in Module, w \in Worker : /\ stacks'[k][w] = Cardinality(Taken(k, w))' + stackpool'[k][w]
                                          /\ k \notin loaded' => stackpool'[k][w] = 0
      <3>1. \A k \in Module, w \in Worker : /\ stacks[k][w] = Cardinality(Taken(k, w)) + stackpool[k][w]
                                            /\ k \notin loaded => stackpool[k][w] = 0
        BY DEF StackInv
      <3>2. stacks' = stacks
        BY <2>1
      <3> QED BY <2>4, <2>5, <2>6, <3>1, <3>2
    <2>8. stacks' \in [Module -> [Worker -> Nat]] /\ stackpool' \in [Module -> [Worker -> Nat]]
      BY <2>1, <2>4 DEF StackInv
    <2> QED BY <2>7, <2>8 DEF StackInv
  <1>2. ASSUME NEW s \in Sandbox, NEW m \in Module, sandbox_alloc(s, m)
        PROVE  StackInv'
    <2>1. /\ state[s] = "NONE" /\ module' = [module EXCEPT ![s] = m]
          /\ UNCHANGED <<loaded, stacks, stackpool>> /\ stack' = stack /\ UNCHANGED <<current, exiting, runq, cleanup>>
      BY <1>2 DEF sandbox_alloc, pools, threads
    <2>2. module \in [Sandbox -> Module \cup {NULL}] /\ ~stack[s]
      BY <2>1 DEF IInv, Typed, StateInv, Fresh
    <2>3. \A x \in Sandbox : x # s => module'[x] = module[x]
      BY <2>1, <2>2
    <2>4. \A v \in Worker, x \in Sandbox : Owns(v, x)' <=> Owns(v, x)
      BY <2>1, OwnsStays
    <2>5. \A k \in Module, w \in Worker : Taken(k, w)' = Taken(k, w)
      BY <2>1, <2>2, <2>3, <2>4 DEF Taken
    <2> QED BY <2>1, <2>5, StacksStay
  <1> QED BY <1>1, <1>2

\* A sandbox that is prepared has taken a stack, from the pool of its worker or a new one.
LEMMA StackPrepared ==
    ASSUME Counting, IInv, StackInv, NEW w \in Worker, NEW s \in Sandbox, sandbox_prepare_execution_environment(w, s)
    PROVE  StackInv'
  <1>1. /\ state[s] = "INITIALIZED" /\ module_allocate_stack(w, s) /\ stack' = [stack EXCEPT ![s] = TRUE]
        /\ runq' = [runq EXCEPT ![w] = runq[w] \cup {s}]
        /\ UNCHANGED <<loaded, module>> /\ UNCHANGED <<current, exiting, cleanup>>
    BY DEF sandbox_prepare_execution_environment, module_allocate_stack, modules
  <1>2. /\ Typed /\ ~stack[s] /\ stack \in [Sandbox -> BOOLEAN] /\ runq \in [Worker -> SUBSET Sandbox]
        /\ module[s] # NULL /\ module[s] \in Module /\ module[s] \in loaded
    BY <1>1 DEF IInv, Typed, StateInv, Fresh
  <1>3. /\ stacks' \in [Module -> [Worker -> Nat]] /\ stackpool' \in [Module -> [Worker -> Nat]]
        /\ stacks'[module[s]][w] - stackpool'[module[s]][w] = stacks[module[s]][w] - stackpool[module[s]][w] + 1
        /\ \A m \in Module, v \in Worker : m # module[s] \/ v # w =>
               stacks'[m][v] = stacks[m][v] /\ stackpool'[m][v] = stackpool[m][v]
    BY <1>1, <1>2, StackTaken
  <1>4. /\ stack'[s] /\ \A x \in Sandbox : x # s => stack'[x] = stack[x]
        /\ \A x : x \in runq'[w] <=> x \in runq[w] \/ x = s
        /\ \A v \in Worker : v # w => runq'[v] = runq[v]
    BY <1>1, <1>2
  <1>5. /\ Owns(w, s)' /\ \A x \in Sandbox : x # s => (Owns(w, x)' <=> Owns(w, x))
        /\ \A v \in Worker, x \in Sandbox : v # w => (Owns(v, x)' <=> Owns(v, x))
    BY <1>1, <1>4 DEF Owns
  <1>6. ~Owns(w, s) /\ \A v \in Worker : ~Owns(v, s)
    <2>1. \A v \in Worker : Thread(v)
      BY DEF IInv, ThreadInv
    <2>2. state[s] \in Fresh
      BY <1>1 DEF Fresh
    <2>3. \A v \in Worker : ~Owns(v, s)
      BY <1>2, <2>1, <2>2, OwnedIsPrepared
    <2> QED BY <2>3
  <1>7. ASSUME NEW m \in Module, NEW v \in Worker, m # module[s] \/ v # w
        PROVE  Taken(m, v)' = Taken(m, v)
    <2>1. ASSUME NEW x \in Sandbox
          PROVE  stack'[x] /\ module'[x] = m /\ Owns(v, x)' <=> stack[x] /\ module[x] = m /\ Owns(v, x)
      <3>1. module'[x] = module[x]
        BY <1>1
      <3>2. CASE x # s
        BY <1>4, <1>5, <3>1, <3>2
      <3>3. CASE x = s
        <4>1. ~stack[x]
          BY <1>2, <3>3
        <4>2. ~(module[x] = m /\ Owns(v, x)')
          BY <1>5, <1>6, <1>7, <3>3
        <4> QED BY <3>1, <4>1, <4>2
      <3> QED BY <3>2, <3>3
    <2> QED BY <2>1 DEF Taken
  <1>8. Cardinality(Taken(module[s], w)') = Cardinality(Taken(module[s], w)) + 1
    <2> DEFINE k == module[s]
    <2>1. k' = k
      BY <1>1
    <2>2. ASSUME NEW x \in Sandbox
          PROVE  stack'[x] /\ module'[x] = k /\ Owns(w, x)' <=> (stack[x] /\ module[x] = k /\ Owns(w, x)) \/ x = s
      <3>1. module'[x] = module[x]
        BY <1>1
      <3> QED BY <1>4, <1>5, <3>1
    <2> SUFFICES ASSUME NEW m, m = k
                 PROVE  Cardinality(Taken(m, w)') = Cardinality(Taken(m, w)) + 1
      BY <2>1 DEF Taken
    <2>3. Taken(m, w)' = Taken(m, w) \cup {s} /\ s \notin Taken(m, w)
      BY <1>2, <2>2 DEF Taken
    <2> QED BY <2>3, TakenIsCounted DEF Counting
  <1>9. ASSUME NEW m \in Module, NEW v \in Worker
        PROVE  /\ stacks'[m][v] = Cardinality(Taken(m, v)') + stackpool'[m][v]
               /\ m \notin loaded' => stackpool'[m][v] = 0
    <2>1. stacks[m][v] = Cardinality(Taken(m, v)) + stackpool[m][v] /\ (m \notin loaded => stackpool[m][v] = 0)
      BY DEF StackInv
    <2>2. CASE m # module[s] \/ v # w
      BY <1>1, <1>3, <1>7, <2>1, <2>2
    <2>3. CASE m = module[s] /\ v = w
      <3>1. Cardinality(Taken(m, v)') = Cardinality(Taken(m, v)) + 1
        <4>1. module' = module
          BY <1>1
        <4>2. Taken(module[s], w)' = Taken(m, v)'
          BY <2>3, <4>1 DEF Taken
        <4> QED BY <1>8, <2>3, <4>2
      <3>2. stacks'[m][v] \in Nat /\ stackpool'[m][v] \in Nat /\ stacks[m][v] \in Nat /\ stackpool[m][v] \in Nat
        <4>1. stacks \in [Module -> [Worker -> Nat]] /\ stackpool \in [Module -> [Worker -> Nat]]
          BY DEF StackInv
        <4>2. stacks' \in [Module -> [Worker -> Nat]] /\ stackpool' \in [Module -> [Worker -> Nat]]
          BY <1>3
        <4> QED BY <4>1, <4>2
      <3>3. stacks'[m][v] - stackpool'[m][v] = stacks[m][v] - stackpool[m][v] + 1
        BY <1>3, <2>3
      <3>4. Cardinality(Taken(m, v)) \in Nat
        BY TakenIsCounted
      <3>5. stacks'[m][v] = Cardinality(Taken(m, v)') + stackpool'[m][v]
        BY <2>1, <3>1, <3>2, <3>3, <3>4, SMT
      <3> QED BY <1>1, <1>2, <2>3, <3>5
    <2> QED BY <2>2, <2>3
  <1> QED BY <1>3, <1>9 DEF StackInv

\* The stacks of the freed sandboxes go to the pools of the worker.
LEMMA FreeStackEffect ==
    ASSUME Counting, Typed, StackInv, NEW w \in Worker, local_cleanup_queue_free(w)
    PROVE  stackpool' \in [Module -> [Worker -> Nat]]
  <1>1. ASSUME NEW m \in Module
        PROVE  [stackpool[m] EXCEPT ![w] = stackpool[m][w] + Cardinality({s \in cleanup[w] : module[s] = m})]
                 \in [Worker -> Nat]
    <2>1. stackpool[m] \in [Worker -> Nat] /\ stackpool[m][w] \in Nat
      BY DEF StackInv
    <2>2. Cardinality({s \in cleanup[w] : module[s] = m}) \in Nat
      <3>1. {s \in cleanup[w] : module[s] = m} \in SUBSET Sandbox
        BY DEF Typed
      <3> QED BY <3>1 DEF Counting
    <2>3. stackpool[m][w] + Cardinality({s \in cleanup[w] : module[s] = m}) \in Nat
      BY <2>1, <2>2, SMT
    <2> QED BY <2>1, <2>3
  <1>2. stackpool' = [m \in Module |->
            [stackpool[m] EXCEPT ![w] = stackpool[m][w] + Cardinality({s \in cleanup[w] : module[s] = m})]]
    BY DEF local_cleanup_queue_free, module_free_stack, pool_of
  <1> QED BY <1>1, <1>2

\* The sandboxes in the cleanup queue of a worker give their stacks back to the pools of that worker.
LEMMA StacksFreed ==
    ASSUME Counting, IInv, StackInv, NEW w \in Worker, scheduler_idle_loop(w) \/ current_sandbox_exit(w)
    PROVE  StackInv'
  <1>1. local_cleanup_queue_free(w) /\ UNCHANGED <<loaded, stacks, runq>>
    BY DEF scheduler_idle_loop, current_sandbox_exit
  <1>2. /\ Typed /\ StateInv /\ Thread(w) /\ cleanup[w] \subseteq Sandbox /\ NULL \notin Sandbox
        /\ current \in [Worker -> Sandbox \cup {NULL}] /\ exiting \in [Worker -> Sandbox \cup {NULL}]
    BY InstanceAssumption DEF IInv, ThreadInv, Typed
  <1>3. Freed(w)
    BY <1>1, <1>2, FreeEffect
  <1>4. /\ \A x \in Sandbox : x = current'[w] \/ x = exiting'[w] <=> x = current[w] \/ x = exiting[w]
        /\ \A v \in Worker : v # w => current'[v] = current[v] /\ exiting'[v] = exiting[v]
    <2>1. CASE scheduler_idle_loop(w)
      BY <2>1 DEF scheduler_idle_loop
    <2>2. CASE current_sandbox_exit(w)
      <3>1. /\ current[w] # NULL /\ exiting' = [exiting EXCEPT ![w] = current[w]]
            /\ current' = [current EXCEPT ![w] = NULL]
        BY <2>2 DEF current_sandbox_exit, current_sandbox_set
      <3>2. exiting[w] = NULL
        BY <1>2, <3>1 DEF Thread
      <3>3. \A x \in Sandbox : x # NULL
        BY <1>2
      <3> QED BY <1>2, <3>1, <3>2, <3>3
    <2> QED BY <2>1, <2>2
  <1>5. \A x \in cleanup[w] : x \in Sandbox /\ stack[x] /\ x \notin runq[w] /\ x # current[w] /\ x # exiting[w]
    <2>1. ASSUME NEW x \in cleanup[w]
          PROVE  x \in Sandbox /\ stack[x] /\ x \notin runq[w] /\ x # current[w] /\ x # exiting[w]
      <3>1. x \in Sandbox /\ state[x] \in Ended /\ x # current[w] /\ x # exiting[w]
        BY <1>2, <2>1 DEF Thread
      <3>2. state[x] \notin Fresh /\ state[x] \notin Queued
        BY <3>1 DEF Ended, Fresh, Queued
      <3>3. stack[x] /\ x \notin runq[w]
        BY <1>2, <3>1, <3>2 DEF StateInv, Thread
      <3> QED BY <3>1, <3>3
    <2> QED BY <2>1
  <1>6. \A x \in Sandbox : Owns(w, x)' <=> Owns(w, x) /\ x \notin cleanup[w]
    <2>1. cleanup'[w] = {} /\ runq'[w] = runq[w]
      BY <1>1, <1>3 DEF Freed
    <2> QED BY <1>4, <1>5, <2>1 DEF Owns
  <1>7. \A v \in Worker, x \in Sandbox : v # w => (Owns(v, x)' <=> Owns(v, x))
    BY <1>1, <1>3, <1>4 DEF Owns, Freed
  <1>8. \A x \in Sandbox \ cleanup[w] : module'[x] = module[x] /\ stack'[x] = stack[x]
    BY <1>3 DEF Freed
  <1>9. \A m \in Module, v \in Worker : v # w => Taken(m, v)' = Taken(m, v)
    <2>1. \A v \in Worker, x \in cleanup[w] : v # w => ~Owns(v, x)
      <3>1. \A x \in cleanup[w] : Owns(w, x) /\ x \in Sandbox
        BY <1>5 DEF Owns
      <3> QED BY <3>1 DEF IInv, ThreadInv
    <2>2. ASSUME NEW m \in Module, NEW v \in Worker, v # w, NEW x \in Sandbox
          PROVE  stack'[x] /\ module'[x] = m /\ Owns(v, x)' <=> stack[x] /\ module[x] = m /\ Owns(v, x)
      <3>1. CASE x \in cleanup[w]
        BY <1>7, <2>1, <2>2, <3>1
      <3>2. CASE x \notin cleanup[w]
        BY <1>7, <1>8, <2>2, <3>2
      <3> QED BY <3>1, <3>2
    <2> QED BY <2>2 DEF Taken
  <1>10. ASSUME NEW m \in Module
         PROVE  Cardinality(Taken(m, w)') = Cardinality(Taken(m, w)) - Cardinality({s \in cleanup[w] : module[s] = m})
    <2> DEFINE A == Taken(m, w)
               C == {s \in cleanup[w] : module[s] = m}
    <2>1. ASSUME NEW x \in Sandbox
          PROVE  stack'[x] /\ module'[x] = m /\ Owns(w, x)'
                   <=> (stack[x] /\ module[x] = m /\ Owns(w, x)) /\ x \notin cleanup[w]
      BY <1>6, <1>8
    <2>2. Taken(m, w)' = A \ C
      BY <2>1 DEF Taken
    <2>3. C \subseteq A
      <3>1. \A x \in cleanup[w] : x \in Sandbox /\ stack[x] /\ Owns(w, x)
        BY <1>5 DEF Owns
      <3> QED BY <3>1 DEF Taken
    <2>4. A \in SUBSET Sandbox /\ C \in SUBSET Sandbox
      BY <1>2, TakenIsCounted
    <2> HIDE DEF A, C
    <2>5. Cardinality(A \ C) = Cardinality(A) - Cardinality(C)
      BY <2>3, <2>4 DEF Counting
    <2> QED BY <2>2, <2>5 DEF A, C
  <1>11. stackpool' = [m \in Module |->
            [stackpool[m] EXCEPT ![w] = stackpool[m][w] + Cardinality({s \in cleanup[w] : module[s] = m})]]
    BY <1>1 DEF local_cleanup_queue_free, module_free_stack, pool_of
  <1>12. ASSUME NEW m \in Module, NEW v \in Worker
         PROVE  /\ stacks'[m][v] = Cardinality(Taken(m, v)') + stackpool'[m][v]
                /\ m \notin loaded' => stackpool'[m][v] = 0
    <2>1. stacks[m][v] = Cardinality(Taken(m, v)) + stackpool[m][v] /\ (m \notin loaded => stackpool[m][v] = 0)
      BY DEF StackInv
    <2>2. stackpool \in [Module -> [Worker -> Nat]] /\ stackpool[m] \in [Worker -> Nat] /\ stackpool[m][v] \in Nat
      <3>1. stackpool \in [Module -> [Worker -> Nat]]
        BY DEF StackInv
      <3> QED BY <3>1
    <2>3. CASE v # w
      <3>1. stackpool'[m][v] = stackpool[m][v]
        BY <1>11, <2>2, <2>3
      <3> QED BY <1>1, <1>9, <2>1, <2>3, <3>1
    <2>4. CASE v = w
      <3> DEFINE C == {s \in cleanup[w] : module[s] = m}
      <3>1. stackpool'[m][v] = stackpool[m][v] + Cardinality(C)
        BY <1>11, <2>2, <2>4
      <3>2. Cardinality(C) \in Nat
        <4>1. C \in SUBSET Sandbox
          BY <1>2
        <4> HIDE DEF C
        <4> QED BY <4>1 DEF Counting
      <3>3. Cardinality(Taken(m, v)') = Cardinality(Taken(m, v)) - Cardinality(C)
        BY <1>10, <2>4
      <3>4. Cardinality(Taken(m, v)) \in Nat
        BY TakenIsCounted
      <3>5. m \notin loaded => C = {}
        <4>1. \A x \in Sandbox : module[x] # NULL => module[x] \in loaded
          BY <1>2 DEF StateInv
        <4>2. m # NULL
          BY InstanceAssumption
        <4> QED BY <1>2, <4>1, <4>2
      <3> HIDE DEF C
      <3>6. m \notin loaded => Cardinality(C) = 0
        BY <3>5 DEF Counting
      <3>7. stacks' = stacks /\ loaded' = loaded
        BY <1>1
      <3>8. stacks'[m][v] = stacks[m][v] /\ (m \notin loaded' => stackpool[m][v] = 0 /\ Cardinality(C) = 0)
        BY <2>1, <3>6, <3>7
      <3> QED BY <2>1, <2>2, <3>1, <3>2, <3>3, <3>4, <3>8, SMT
    <2> QED BY <2>3, <2>4
  <1>13. stacks' \in [Module -> [Worker -> Nat]] /\ stackpool' \in [Module -> [Worker -> Nat]]
    BY <1>1, <1>2, FreeStackEffect DEF StackInv
  <1> QED BY <1>12, <1>13 DEF StackInv

\* Every step keeps the count of the stacks.
LEMMA StackNext ==
    ASSUME Counting, IInv, StackInv, [Next]_vars
    PROVE  StackInv'
  <1>1. CASE UNCHANGED vars
    <2>1. UNCHANGED <<loaded, stacks, stackpool>> /\ UNCHANGED <<stack, module>>
          /\ UNCHANGED <<current, exiting, runq, cleanup>>
      BY <1>1 DEF vars, modules, sandboxes, pools, threads
    <2>2. \A m \in Module, w \in Worker : Taken(m, w)' = Taken(m, w)
      BY <2>1, OwnsStays, TakenStays
    <2> QED BY <2>1, <2>2, StacksStay
  <1>2. CASE (\E m \in Module : module_alloc(m)) \/ (\E s \in Sandbox, m \in Module : sandbox_alloc(s, m))
    BY <1>2, StacksAllocated
  <1>3. ASSUME NEW w \in Worker, NEW s \in Sandbox, sandbox_prepare_execution_environment(w, s)
        PROVE  StackInv'
    BY <1>3, StackPrepared
  <1>4. ASSUME NEW w \in Worker, scheduler_idle_loop(w) \/ current_sandbox_exit(w)
        PROVE  StackInv'
    BY <1>4, StacksFreed
  <1>5. ASSUME NEW w \in Worker,
               \/ \E n \in Sandbox : scheduler_preemptive_sched(w, n) \/ scheduler_cooperative_switch_to(w, n)
               \/ scheduler_switch_to_base_context(w)
               \/ current_sandbox_init(w) \/ module_initialize_globals(w)
               \/ \E i \in Assigned : instruction_global_set(w, i)
               \/ \E p \in Page : instruction_store(w, p)
               \/ \E n \in Grow : sledge_abi__wasm_memory_expand(w, n)
               \/ current_sandbox_fini(w) \/ current_sandbox_wasm_trap_handler(w)
        PROVE  StackInv'
    BY <1>5, StacksUntouched DEF current_sandbox_fini, current_sandbox_wasm_trap_handler
  <1> QED BY <1>1, <1>2, <1>3, <1>4, <1>5 DEF Next

\* A memory that a sandbox or a pool holds alone is counted once.
LEMMA CountedOnce ==
    ASSUME Counting, NEW i, OneHeld(i)
    PROVE  Cardinality({s \in Sandbox : memory[s] = i}) + Cardinality(Pooled(i)) = 1
  <1> DEFINE S == {s \in Sandbox : memory[s] = i}
  <1>1. /\ \E k, x, y : Held(i, k, x, y)
        /\ \A k, x, y, l, u, v : Held(i, k, x, y) /\ Held(i, l, u, v) => k = l /\ x = u /\ y = v
    BY DEF OneHeld
  <1>2. \A s \in Sandbox : memory[s] = i => Held(i, "sandbox", s, 0)
    BY DEF Held
  <1>3. \A m \in Module, w \in Worker : InPool(i, m, w) => Held(i, "pool", m, w)
    BY DEF Held
  <1>4. \A x : x \in Pooled(i) <=> \E m \in Module, w \in Worker : x = <<m, w>> /\ InPool(i, m, w)
    BY SMT DEF Pooled, InPool, Contains
  <1>5. "sandbox" # "pool"
    OBVIOUS
  <1>6. ASSUME NEW s \in Sandbox, memory[s] = i
        PROVE  Cardinality(S) + Cardinality(Pooled(i)) = 1
    <2>1. Held(i, "sandbox", s, 0)
      BY <1>2, <1>6
    <2>2. \A x \in S : x = s
      BY <1>1, <1>2, <2>1
    <2>3. S = {s}
      BY <1>6, <2>2
    <2>4. \A m \in Module, w \in Worker : ~InPool(i, m, w)
      BY <1>1, <1>3, <1>5, <2>1
    <2>5. Pooled(i) = {}
      BY <1>4, <2>4
    <2> HIDE DEF S
    <2>6. Cardinality(S) = 1 /\ Cardinality(Pooled(i)) = 0
      BY <2>3, <2>5 DEF Counting
    <2> QED BY <2>6, SMT
  <1>7. ASSUME NEW m \in Module, NEW w \in Worker, InPool(i, m, w)
        PROVE  Cardinality(S) + Cardinality(Pooled(i)) = 1
    <2>1. Held(i, "pool", m, w)
      BY <1>3, <1>7
    <2>2. \A k \in Module, v \in Worker : InPool(i, k, v) => k = m /\ v = w
      BY <1>1, <1>3, <2>1
    <2>3. \A x : x \in Pooled(i) <=> x = <<m, w>>
      <3>1. <<m, w>> \in Pooled(i)
        BY <1>4, <1>7
      <3>2. ASSUME NEW x \in Pooled(i)
            PROVE  x = <<m, w>>
        <4>1. PICK k \in Module, v \in Worker : x = <<k, v>> /\ InPool(i, k, v)
          BY <1>4
        <4>2. k = m /\ v = w
          BY <2>2, <4>1
        <4> QED BY <4>1, <4>2
      <3> QED BY <3>1, <3>2
    <2>4. Pooled(i) = {<<m, w>>}
      BY <2>3
    <2>5. S = {}
      BY <1>1, <1>2, <1>5, <2>1
    <2> HIDE DEF S
    <2>6. Cardinality(S) = 0 /\ Cardinality(Pooled(i)) = 1
      BY <2>4, <2>5 DEF Counting
    <2> QED BY <2>6, SMT
  <1> QED BY <1>1, <1>6, <1>7 DEF Held

INSTANCE FiniteSetTheorems

\* There are finitely many sandboxes.
LEMMA CountingHolds == Counting
  <1>1. Cardinality({}) = 0 /\ \A x : Cardinality({x}) = 1
    BY FS_EmptySet, FS_Singleton
  <1>2. ASSUME NEW S \in SUBSET Sandbox
        PROVE  IsFiniteSet(S) /\ Cardinality(S) \in Nat /\ Cardinality(S) <= Cardinality(Sandbox)
    <2>1. IsFiniteSet(S) /\ Cardinality(S) <= Cardinality(Sandbox)
      BY InstanceAssumption, FS_Subset
    <2> QED BY <2>1, FS_CardinalityType
  <1>3. \A S \in SUBSET Sandbox, s \in Sandbox : s \notin S => Cardinality(S \cup {s}) = Cardinality(S) + 1
    BY <1>2, FS_AddElement
  <1>4. ASSUME NEW S \in SUBSET Sandbox, NEW T \in SUBSET Sandbox, T \subseteq S
        PROVE  Cardinality(S \ T) = Cardinality(S) - Cardinality(T)
    <2>1. S \cap T = T
      BY <1>4
    <2>2. Cardinality(S \ T) = Cardinality(S) - Cardinality(S \cap T)
      BY <1>2, FS_Difference
    <2> QED BY <2>1, <2>2
  <1> QED BY <1>1, <1>2, <1>3, <1>4 DEF Counting

\* A pool without repetitions has as many members as places.
LEMMA DistinctMembers ==
    ASSUME NEW S, NEW q \in Seq(S), Distinct(q)
    PROVE  Cardinality(Range(q)) = Len(q)
  <1>1. Len(q) \in Nat /\ DOMAIN q = 1 .. Len(q)
    BY SeqIs
  <1>2. q \in Bijection(1 .. Len(q), Range(q))
    <2>1. q \in [1 .. Len(q) -> Range(q)]
      BY <1>1, SMT DEF Range
    <2>2. \A i, j \in 1 .. Len(q) : q[i] = q[j] => i = j
      BY <1>1 DEF Distinct
    <2>3. \A y \in Range(q) : \E i \in 1 .. Len(q) : q[i] = y
      BY <1>1 DEF Range
    <2> QED BY <2>1, <2>2, <2>3 DEF Bijection, Injection, Surjection, IsInjective
  <1>3. ExistsBijection(1 .. Len(q), Range(q))
    BY <1>2 DEF ExistsBijection
  <1> QED BY <1>1, <1>3, FS_CountingElements

\* The count of the references is an invariant.
THEOREM ReferenceInvariant == Spec => []ReferenceInv
  <1>1. Init => ReferenceInv
    <2> SUFFICES ASSUME Init PROVE ReferenceInv
      OBVIOUS
    <2>1. \A m \in Module : {s \in Sandbox : module[s] = m} = {}
      BY InstanceAssumption DEF Init
    <2>2. Cardinality({}) = 0
      BY CountingHolds DEF Counting
    <2>3. 0 \in 0 .. Cardinality(Sandbox)
      <3>1. Cardinality(Sandbox) \in Nat
        BY CountingHolds DEF Counting
      <3> QED BY <3>1, SMT
    <2>4. references = [m \in Module |-> 0]
      BY DEF Init
    <2> QED BY <2>1, <2>2, <2>3, <2>4 DEF ReferenceInv, ReferencesAreSandboxes
  <1>2. IInv /\ ReferenceInv /\ [Next]_vars => ReferenceInv'
    BY CountingHolds, ReferenceNext
  <1> QED BY <1>1, <1>2, InstanceInvariant, PTL DEF Spec

\* The reference count of a module is the number of its sandboxes: module_release never takes it
\* below zero, and a module nobody uses has none.
THEOREM ReferencesAreExact == Spec => []ReferencesAreSandboxes
  <1>1. ReferenceInv => ReferencesAreSandboxes
    BY DEF ReferenceInv
  <1> QED BY <1>1, ReferenceInvariant, PTL

\* The count of the stacks is an invariant.
THEOREM StackInvariant == Spec => []StackInv
  <1>1. Init => StackInv
    <2> SUFFICES ASSUME Init PROVE StackInv
      OBVIOUS
    <2>1. /\ stacks = [m \in Module |-> [w \in Worker |-> 0]] /\ stackpool = [m \in Module |-> [w \in Worker |-> 0]]
          /\ \A s \in Sandbox : stack[s] = FALSE
      BY DEF Init
    <2>2. \A m \in Module, w \in Worker : Taken(m, w) = {}
      BY <2>1 DEF Taken
    <2>3. \A m \in Module, w \in Worker : Cardinality(Taken(m, w)) = 0
      BY <2>2, CountingHolds DEF Counting
    <2>4. stacks \in [Module -> [Worker -> Nat]] /\ stackpool \in [Module -> [Worker -> Nat]]
      BY <2>1
    <2>5. \A m \in Module, w \in Worker : stacks[m][w] = Cardinality(Taken(m, w)) + stackpool[m][w] /\ stackpool[m][w] = 0
      <3>1. \A m \in Module, w \in Worker : stacks[m][w] = 0 /\ stackpool[m][w] = 0
        BY <2>1
      <3>2. 0 = 0 + 0
        BY SMT
      <3> QED BY <2>3, <3>1, <3>2
    <2> QED BY <2>4, <2>5 DEF StackInv
  <1>2. IInv /\ StackInv /\ [Next]_vars => StackInv'
    BY CountingHolds, StackNext
  <1> QED BY <1>1, <1>2, InstanceInvariant, PTL DEF Spec

\* Linear memories and stacks are neither lost nor shared: each memory is held by exactly one sandbox
\* or is once in exactly one pool (module_allocate_linear_memory, sandbox_free_linear_memory), and a
\* stack goes back to the pool of the worker that took it (module_allocate_stack, module_free_stack).
THEOREM EachHasOneHolder == Spec => []OneHolder
  <1>1. IInv /\ StackInv => OneHolder
    <2> SUFFICES ASSUME IInv, StackInv PROVE OneHolder
      OBVIOUS
    <2>1. MemoryInv /\ mems \in Seq(LinearMemory) /\ mempool \in [Module -> [Worker -> Seq(1 .. Len(mems))]]
      BY DEF IInv, Typed
    <2>2. DOMAIN mems = 1 .. Len(mems)
      BY <2>1, SeqIs
    <2>3. \A i \in DOMAIN mems : Cardinality({s \in Sandbox : memory[s] = i}) + Cardinality(Pooled(i)) = 1
      BY <2>1, <2>2, CountingHolds, CountedOnce DEF MemoryInv
    <2>4. \A m \in Module, w \in Worker : Cardinality(Range(mempool[m][w])) = Len(mempool[m][w])
      <3>1. ASSUME NEW m \in Module, NEW w \in Worker
            PROVE  Cardinality(Range(mempool[m][w])) = Len(mempool[m][w])
        <4>1. mempool[m][w] \in Seq(1 .. Len(mems)) /\ Distinct(mempool[m][w])
          BY <2>1 DEF MemoryInv
        <4> QED BY <4>1, DistinctMembers
      <3> QED BY <3>1
    <2>5. \A m \in Module, w \in Worker :
             stacks[m][w] = Cardinality({s \in Sandbox : stack[s] /\ module[s] = m /\ Owns(w, s)}) + stackpool[m][w]
      BY DEF StackInv, Taken
    <2> QED BY <2>3, <2>4, <2>5 DEF OneHolder
  <1> QED BY <1>1, InstanceInvariant, StackInvariant, PTL

\* The fields of the sandboxes, modules and workers stay in their ranges: the memory of a sandbox is a
\* mapped one, and no reference count and no pool falls below zero.
THEOREM TypesAreRight == Spec => []TypeOK
  <1>1. IInv /\ ReferenceInv /\ StackInv => TypeOK
    BY DEF IInv, Typed, ReferenceInv, StackInv, TypeOK
  <1> QED BY <1>1, InstanceInvariant, ReferenceInvariant, StackInvariant, PTL

=============================================================================
