------------------------------ MODULE SledgeAbi ------------------------------
(***************************************************************************)
(* The calls that sandboxes make into the runtime (sledge_abi.c): the WASI *)
(* calls of module Wasi and the scratch storage, a map that the sandboxes  *)
(* of one tenant share and that they use from different worker threads.    *)
(*                                                                         *)
(* A get takes two steps: map_get returns a pointer to the value and gives *)
(* the bucket's lock back, and memcpy reads through that pointer.          *)
(***************************************************************************)
EXTENDS Wasi, Map

CONSTANTS
    Key,          \* keys of the scratch storage
    HashOf,       \* MAP_HASH: the hash of each key
    BucketCount,  \* MAP_BUCKET_COUNT
    ValueOf,      \* the values (sequences of bytes) that modules store under a key
    BufLen        \* the lengths of the buffers that modules pass to get

VARIABLES
    buckets,      \* sandbox->tenant->scratch_storage
    copying,      \* per sandbox, the pointer it is about to memcpy from: a set of one, or empty
    got,          \* per sandbox, the result of its last get or get_size (history)
    latest        \* per hash, the value that was last stored under it: a set of one, or empty (history)

scratch == <<buckets, copying, got, latest>>
vars == <<wasi_vars, scratch>>

ASSUME AbiAssumption ==
    /\ BucketCount \in Nat \ {0}
    /\ HashOf \in [Key -> Nat]
    /\ DOMAIN ValueOf = Key

b(k) == HashOf[k] % BucketCount
Undefined == <<-1>>  \* any bytes: memory that was given back, or is changed while it is read
NoResult == [key |-> {}, rc |-> 0, size |-> 0, value |-> {}]

-----------------------------------------------------------------------------
\* A call on the scratch storage that returns in one step.
ScratchCall(s) == Makes(s, "scratch") /\ copying[s] = {} /\ UNCHANGED <<state, host, seen>>

(***************************************************************************)
(* The chain of k's bucket becomes chain.  A pointer returned earlier by   *)
(* map_get leads nowhere once its node has left the chain, or once realloc *)
(* and memcpy have been at its value: they may move or overwrite the bytes *)
(* while they are copied.                                                  *)
(***************************************************************************)
Store(k, chain, realloced) ==
    /\ buckets' = [buckets EXCEPT ![b(k)] = chain]
    /\ copying' = [t \in Sandbox |->
                     {IF \/ HashOf[p.key] \in realloced
                         \/ b(p.key) = b(k) /\ map_get(chain, HashOf[p.key]) = {}
                      THEN [p EXCEPT !.value = Undefined] ELSE p : p \in copying[t]}]

\* A failed assertion, or a read through a null pointer, ends the process.
Aborts == aborted' = TRUE /\ UNCHANGED scratch

(***************************************************************************)
(* set, delete and upsert pass lock_lock a lock node they have not         *)
(* initialised, and it asserts that the node's time_locked is zero.        *)
(***************************************************************************)
LockAsserts == Aborts

scratch_storage_get_size(s, k) ==
    /\ ScratchCall(s)
    /\ got' = [got EXCEPT ![s] = [NoResult EXCEPT !.key = {k},
                                    !.size = Max({0} \cup {Len(v) : v \in map_get(buckets[b(k)], HashOf[k])})]]
    /\ UNCHANGED <<aborted, buckets, copying, latest>>

\* map_get, and the answer when there is nothing to copy.
scratch_storage_get(s, k, buf_len) ==
    LET found == map_get(buckets[b(k)], HashOf[k])
    IN  /\ ScratchCall(s)
        /\ \/ /\ found = {}
              /\ got' = [got EXCEPT ![s] = [NoResult EXCEPT !.key = {k}, !.rc = 1]]
              /\ UNCHANGED copying
           \/ /\ \E v \in found : Len(v) > buf_len
              /\ got' = [got EXCEPT ![s] = [NoResult EXCEPT !.key = {k}, !.rc = 2]]
              /\ UNCHANGED copying
           \/ /\ \E v \in found : /\ Len(v) <= buf_len
                                  /\ copying' = [copying EXCEPT ![s] = {[key |-> k, value |-> v]}]
              /\ UNCHANGED got
        /\ UNCHANGED <<aborted, buckets, latest>>

\* memcpy out of the value, and the return.
scratch_storage_copy(s) ==
    /\ ~aborted
    /\ \E p \in copying[s] : got' = [got EXCEPT ![s] = [NoResult EXCEPT !.key = {p.key}, !.value = {p.value}]]
    /\ copying' = [copying EXCEPT ![s] = {}]
    /\ UNCHANGED <<wasi_vars, buckets, latest>>

\* A present hash keeps its value.
scratch_storage_set(s, k, v) ==
    /\ ScratchCall(s)
    /\ \/ /\ Store(k, map_set(buckets[b(k)], HashOf[k], v), {})
          /\ latest' = [latest EXCEPT ![HashOf[k]] = IF At(buckets[b(k)], HashOf[k]) = {} THEN {v} ELSE @]
          /\ UNCHANGED <<aborted, got>>
       \/ LockAsserts

\* On an empty bucket map_delete reads prev->next of a null pointer.
scratch_storage_delete(s, k) ==
    /\ ScratchCall(s)
    /\ \/ /\ CanDelete(buckets[b(k)])
          /\ Store(k, map_delete(buckets[b(k)], HashOf[k]), {})
          /\ UNCHANGED <<aborted, got, latest>>
       \/ ~CanDelete(buckets[b(k)]) /\ Aborts
       \/ LockAsserts

scratch_storage_upsert(s, k, v) ==
    /\ ScratchCall(s)
    /\ \/ /\ CanUpsert(buckets[b(k)], HashOf[k], v)
          /\ Store(k, map_upsert(buckets[b(k)], HashOf[k], v), {HashOf[k]})
          /\ latest' = [latest EXCEPT ![HashOf[k]] = {v}]
          /\ UNCHANGED <<aborted, got>>
       \/ ~CanUpsert(buckets[b(k)], HashOf[k], v) /\ Aborts
       \/ LockAsserts

-----------------------------------------------------------------------------
Init ==
    /\ wasi_init
    /\ buckets = [i \in 0 .. BucketCount - 1 |-> <<>>]
    /\ copying = [s \in Sandbox |-> {}]
    /\ got = [s \in Sandbox |-> NoResult]
    /\ latest = [h \in {HashOf[k] : k \in Key} |-> {}]

Next ==
    \E s \in Sandbox :
        \/ copying[s] = {} /\ wasi_call(s) /\ UNCHANGED scratch
        \/ \E k \in Key : scratch_storage_get_size(s, k)
        \/ \E k \in Key, buf_len \in BufLen : scratch_storage_get(s, k, buf_len)
        \/ scratch_storage_copy(s)
        \/ \E k \in Key : \E v \in ValueOf[k] : scratch_storage_set(s, k, v)
        \/ \E k \in Key : scratch_storage_delete(s, k)
        \/ \E k \in Key : \E v \in ValueOf[k] : scratch_storage_upsert(s, k, v)

Spec == Init /\ [][Next]_vars

-----------------------------------------------------------------------------
(***************************************************************************)
(* Properties.                                                             *)
(***************************************************************************)
Values == UNION {ValueOf[k] : k \in Key}
Node == [hash : {HashOf[k] : k \in Key}, value : Values]

\* Type invariant of the sandboxes' calls and of the scratch storage: a cursor stays within
\* the body (fd_read), and a node is in the bucket of its hash.
TypeOK ==
    /\ state \in [Sandbox -> {"RUNNING_USER", "RETURNED"}]
    /\ cursor \in [Sandbox -> 0 .. BodyLen]
    /\ \A s \in Sandbox : response[s] \in Seq(Nat)
    /\ has_udev \in BOOLEAN /\ aborted \in BOOLEAN
    /\ left \in [Sandbox -> [wasi : Nat, scratch : Nat]]
    /\ \A s \in Sandbox : seen[s].rc \in STRING
    /\ \A i \in DOMAIN buckets : \A n \in Range(buckets[i]) : n \in Node /\ n.hash % BucketCount = i
    /\ \A s \in Sandbox : \A p \in copying[s] : p.key \in Key /\ p.value \in Values \cup {Undefined}
    /\ \A s \in Sandbox : got[s].rc \in 0 .. 2 /\ got[s].key \in SUBSET Key
    /\ latest \in [{HashOf[k] : k \in Key} -> SUBSET Values]

\* What a module has read from stdin is the request's body up to the cursor, in order and
\* without a gap, however its reads were split over buffers, whatever their sizes and
\* whichever of its calls failed in between (fd_read, its backing, wasi_serdes_readv_iovec_t).
StdinIsBody ==
    \A s \in Sandbox : seen[s].stdin = [k \in 1 .. cursor[s] |-> BodyByte(k)]

\* The response's body holds what the module wrote to stdout and stderr in the order it
\* wrote it and nothing twice; as long as no write has failed it is all of it, and the
\* counts reported to the module add up to its length (fd_write and its backing).
StdoutInOrder ==
    \A s \in Sandbox :
        /\ \A i, j \in DOMAIN response[s] : i < j => response[s][i] < response[s][j]
        /\ ~seen[s].failed => /\ response[s] = [k \in 1 .. seen[s].asked |-> OutByte(k)]
                              /\ seen[s].written = Len(response[s])
        /\ seen[s].written <= Len(response[s])

\* A module that asks for the sizes of its arguments, allocates that much and asks for the
\* arguments finds each of them, complete, behind its pointer, wherever it put the two
\* buffers (wasi_context_init, args_sizes_get, args_get and the conversion of the pointers).
ArgsAsSent ==
    \A s \in Sandbox :
        seen[s].argv # <<>> =>
            seen[s].argv = [i \in DOMAIN ArgLens |-> [k \in 1 .. ArgLens[i] |-> ArgByte(i, k)]]

\* A call changes no byte of linear memory but those of the buffers and results that the
\* module passed to it (fd_read, fd_write, args_get, args_sizes_get).
NoStrayBytes ==
    \A s \in Sandbox : seen[s].stray = {}

\* A get gives the caller the value that the latest set to take effect, or the latest upsert,
\* stored under the hash of its key: not that of another hash of the bucket, not an earlier
\* one, and not one that has been deleted.  That value may be another key's with the same hash
\* (map_get compares hashes only), and nothing is promised of the bytes when the entry was
\* deleted or upserted between map_get, which unlocks the bucket, and the memcpy.
GetGivesLatest ==
    [][\A s \in Sandbox :
          copying[s] # {} /\ copying'[s] = {} =>
              \A k \in got'[s].key : got'[s].value \subseteq {Undefined} \cup latest[HashOf[k]]]_vars

\* One call changes, adds or removes the entry of at most one hash (map_set, map_upsert and
\* map_delete).  Whose entry it is, is not said: map_delete may remove that of another key of
\* the bucket and leave its own.
OneEntryChanges ==
    [][\A j, k \in Key :
          /\ map_get(buckets'[b(j)], HashOf[j]) # map_get(buckets[b(j)], HashOf[j])
          /\ map_get(buckets'[b(k)], HashOf[k]) # map_get(buckets[b(k)], HashOf[k])
          => HashOf[j] = HashOf[k]]_vars
=============================================================================
