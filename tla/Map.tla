--------------------------------- MODULE Map ---------------------------------
(***************************************************************************)
(* The key-value store of map.h, behind a tenant's scratch storage.  A     *)
(* bucket is the chain of its nodes, head first.  Each operation holds the *)
(* lock of one bucket from beginning to end, so it is a function of that   *)
(* bucket.  A node is found by its 32-bit hash alone: keys are not         *)
(* compared.                                                               *)
(***************************************************************************)
EXTENDS Integers, SequencesExt

\* The positions of nodes with this hash.
At(bucket, hash) == {i \in DOMAIN bucket : bucket[i].hash = hash}

\* Mutant: the head is taken for the node looked for.
GetHead(bucket, hash) == {bucket[i].value : i \in DOMAIN bucket \cap {1}}

\* The value that map_get returns a pointer to: a set of one, or of no value.
map_get(bucket, hash) == IF At(bucket, hash) = {} THEN {} ELSE {bucket[Min(At(bucket, hash))].value}

\* Mutant: the new node does not take the chain over.
SetDropsChain(bucket, hash, value) ==
    IF At(bucket, hash) # {} THEN bucket ELSE <<[hash |-> hash, value |-> value]>>

\* A present hash is left alone; otherwise a new head.
map_set(bucket, hash, value) ==
    IF At(bucket, hash) # {} THEN bucket ELSE <<[hash |-> hash, value |-> value]>> \o bucket

(***************************************************************************)
(* The head is removed when its hash is the one asked for.  Otherwise the  *)
(* loop removes the second node without looking at its hash.  On an empty  *)
(* bucket prev is NULL and prev->next is a fault: see CanDelete.           *)
(***************************************************************************)
map_delete(bucket, hash) ==
    IF Head(bucket).hash = hash THEN Tail(bucket)
    ELSE IF Len(bucket) > 1 THEN RemoveAt(bucket, 2) ELSE bucket

CanDelete(bucket) == bucket # <<>>

\* To no bytes, realloc gives the value back and returns NULL, which the assertion refuses.
CanUpsert(bucket, hash, value) == At(bucket, hash) = {} \/ value # <<>>

\* The value of a present hash is replaced in place.
map_upsert(bucket, hash, value) ==
    IF At(bucket, hash) # {}
    THEN [bucket EXCEPT ![Min(At(bucket, hash))].value = value]
    ELSE <<[hash |-> hash, value |-> value]>> \o bucket
=============================================================================
