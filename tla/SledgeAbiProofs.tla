--------------------------- MODULE SledgeAbiProofs ---------------------------
(***************************************************************************)
(* Proofs about the scratch storage of a tenant, for any sandboxes, keys,  *)
(* hashes, values and number of buckets: a get whose entry is left alone   *)
(* between map_get and memcpy answers with the value that was last stored  *)
(* under the hash of its key, and one call changes the entry of one hash.  *)
(*                                                                         *)
(* The invariant says that a chain has one node for a hash, that map_get   *)
(* finds nothing but the latest value of a hash, and that a pointer which  *)
(* a sandbox is about to copy from, and which nobody has invalidated,      *)
(* leads to what map_get would find now.  One node for a hash is needed    *)
(* for delete: a second node would bring an earlier value back.            *)
(***************************************************************************)
EXTENDS SledgeAbi, WellFoundedInduction, TLAPS

\* A node that set or upsert may have made, and a pointer that get may hold.
Entry == [hash : Nat, value : Values]

Pointer == [key : Key, value : Values \cup {Undefined}]

\* A chain has at most one node for a hash.
Unique(q) == \A i, j \in DOMAIN q : q[i].hash = q[j].hash => i = j

Chain == {q \in Seq(Entry) : Unique(q)}

Hashes == {HashOf[k] : k \in Key}

\* What map_get finds for key k when the buckets are B.
Found(B, k) == map_get(B[b(k)], HashOf[k])

BucketsInv == buckets \in [0 .. BucketCount - 1 -> Chain] /\ DOMAIN got = Sandbox

LatestInv ==
    /\ latest \in [Hashes -> SUBSET Values]
    /\ \A k \in Key : Found(buckets, k) \subseteq latest[HashOf[k]]

PointersInv ==
    /\ copying \in [Sandbox -> SUBSET Pointer]
    /\ \A s \in Sandbox : \A p \in copying[s] : p.value = Undefined \/ Found(buckets, p.key) = {p.value}

ScratchInv == BucketsInv /\ LatestInv /\ PointersInv

-----------------------------------------------------------------------------
(***************************************************************************)
(* Chains.                                                                 *)
(***************************************************************************)
\* Sequences are functions on an initial segment of the naturals.
LEMMA SeqIs ==
    ASSUME NEW S, NEW q \in Seq(S)
    PROVE  Len(q) \in Nat /\ DOMAIN q = 1 .. Len(q) /\ \A n \in DOMAIN q : q[n] \in S
  OBVIOUS

\* One sequence behind another.
LEMMA ConcatIs ==
    ASSUME NEW S, NEW q \in Seq(S), NEW p \in Seq(S)
    PROVE  /\ q \o p \in Seq(S) /\ Len(q \o p) = Len(q) + Len(p)
           /\ \A i \in 1 .. Len(q) + Len(p) : (q \o p)[i] = IF i <= Len(q) THEN q[i] ELSE p[i - Len(q)]
  OBVIOUS

\* A set of naturals that is not empty has a least element, and Min is it.
LEMMA LeastOf ==
    ASSUME NEW S \in SUBSET Nat, NEW x \in S
    PROVE  Min(S) \in S /\ \A y \in S : Min(S) <= y
  <1>1. PICK m \in S : \A y \in S : ~(<<y, m>> \in OpToRel(<, Nat))
    BY NatLessThanWellFounded, WFMin, Zenon
  <1>2. \A y \in S : ~(y < m)
    BY <1>1, Zenon DEF OpToRel
  <1>3. \E z \in S : \A y \in S : z <= y
    BY <1>2
  <1> QED BY <1>3, Zenon DEF Min

\* The position of the node that map_get finds.
LEMMA FirstAt ==
    ASSUME NEW S, NEW q \in Seq(S), NEW h, NEW x \in At(q, h)
    PROVE  /\ Min(At(q, h)) \in At(q, h) /\ \A y \in At(q, h) : Min(At(q, h)) <= y
           /\ map_get(q, h) = {q[Min(At(q, h))].value}
  <1>1. At(q, h) \in SUBSET Nat
    BY SeqIs DEF At
  <1>2. Min(At(q, h)) \in At(q, h) /\ \A y \in At(q, h) : Min(At(q, h)) <= y
    BY <1>1, LeastOf, Zenon
  <1> QED BY <1>2, Zenon DEF map_get

\* What map_get finds is one of the values.
LEMMA GetIs ==
    ASSUME NEW q \in Seq(Entry), NEW h, NEW v \in map_get(q, h)
    PROVE  v \in Values /\ map_get(q, h) = {v}
  <1>1. At(q, h) # {}
    BY Zenon DEF map_get
  <1>2. PICK i \in At(q, h) : v = q[i].value /\ map_get(q, h) = {v}
    BY <1>1, FirstAt, Zenon
  <1>3. q[i] \in Entry
    BY <1>2, SeqIs DEF At
  <1> QED BY <1>2, <1>3 DEF Entry

\* The nodes of a hash in chain q are those in chain p, in the same order: f is where they are.
Moved(q, p, h, f) ==
    /\ \A i \in At(q, h) : f[i] \in At(p, h) /\ p[f[i]] = q[i]
    /\ \A i, j \in At(q, h) : i <= j => f[i] <= f[j]
    /\ \A j \in At(p, h) : \E i \in At(q, h) : f[i] = j

\* Then map_get finds the same in both.
LEMMA SameFound ==
    ASSUME NEW S, NEW q \in Seq(S), NEW p \in Seq(S), NEW h, NEW f, Moved(q, p, h, f)
    PROVE  map_get(p, h) = map_get(q, h)
  <1>1. CASE At(q, h) = {}
    <2>1. At(p, h) = {}
      BY <1>1, Zenon DEF Moved
    <2> QED BY <1>1, <2>1, Zenon DEF map_get
  <1>2. CASE At(q, h) # {}
    <2>1. PICK i \in At(q, h) : (\A y \in At(q, h) : i <= y) /\ map_get(q, h) = {q[i].value}
      BY <1>2, FirstAt, Zenon
    <2>2. f[i] \in At(p, h) /\ p[f[i]] = q[i] /\ \A y \in At(p, h) : f[i] <= y
      BY <2>1 DEF Moved
    <2>3. PICK j \in At(p, h) : (\A y \in At(p, h) : j <= y) /\ map_get(p, h) = {p[j].value}
      BY <2>2, FirstAt, Zenon
    <2>4. f[i] \in Nat /\ j \in Nat
      BY <2>2, SeqIs DEF At
    <2>5. f[i] = j
      BY <2>2, <2>3, <2>4
    <2> QED BY <2>1, <2>2, <2>3, <2>5, Zenon
  <1> QED BY <1>1, <1>2

\* A new head with another hash.
LEMMA FoundBehind ==
    ASSUME NEW S, NEW q \in Seq(S), NEW n \in S, NEW h, n.hash # h
    PROVE  map_get(<<n>> \o q, h) = map_get(q, h)
  <1> DEFINE p == <<n>> \o q
             f == [i \in DOMAIN q |-> i + 1]
  <1>1. p \in Seq(S) /\ Len(p) = Len(q) + 1 /\ p[1] = n /\ \A i \in 1 .. Len(q) : p[i + 1] = q[i]
    OBVIOUS
  <1>2. DOMAIN q = 1 .. Len(q) /\ DOMAIN p = 1 .. Len(p) /\ Len(q) \in Nat
    BY <1>1, SeqIs
  <1>3. \A i \in At(q, h) : i \in DOMAIN q /\ f[i] = i + 1
    BY DEF At
  <1>4. \A i \in At(q, h) : f[i] \in At(p, h) /\ p[f[i]] = q[i]
    BY <1>1, <1>2, <1>3 DEF At
  <1>5. \A i, j \in At(q, h) : i <= j => f[i] <= f[j]
    BY <1>2, <1>3
  <1>6. \A j \in At(p, h) : \E i \in At(q, h) : f[i] = j
    <2> SUFFICES ASSUME NEW j \in At(p, h) PROVE j - 1 \in At(q, h) /\ f[j - 1] = j
      BY Zenon
    <2>1. j \in 1 .. Len(p) /\ p[j].hash = h /\ j # 1
      BY <1>1, <1>2 DEF At
    <2>2. j - 1 \in DOMAIN q /\ (j - 1) + 1 = j /\ p[j] = q[j - 1]
      BY <1>1, <1>2, <2>1
    <2> QED BY <2>1, <2>2 DEF At
  <1>7. Moved(q, p, h, f)
    BY <1>4, <1>5, <1>6, Zenon DEF Moved
  <1>8. p \in Seq(S)
    BY <1>1, Zenon
  <1> HIDE DEF f, p
  <1>9. map_get(p, h) = map_get(q, h)
    BY <1>7, <1>8, SameFound, Zenon
  <1> QED BY <1>9, Zenon DEF p

\* Chain p is chain q without its k-th node.
Without(q, k, p) == Len(p) = Len(q) - 1 /\ \A i \in 1 .. Len(p) : p[i] = IF i < k THEN q[i] ELSE q[i + 1]

\* A chain without a node that had another hash.
LEMMA FoundWithout ==
    ASSUME NEW S, NEW q \in Seq(S), NEW p \in Seq(S), NEW k \in 1 .. Len(q), NEW h, q[k].hash # h,
           Without(q, k, p)
    PROVE  map_get(p, h) = map_get(q, h)
  <1> DEFINE f == [i \in DOMAIN q |-> IF i < k THEN i ELSE i - 1]
  <1>1. Len(q) \in Nat /\ DOMAIN q = 1 .. Len(q)
    BY SeqIs
  <1>2. \A i \in 1 .. Len(p) : p[i] = IF i < k THEN q[i] ELSE q[i + 1]
    BY Zenon DEF Without
  <1>3. DOMAIN p = 1 .. Len(p) /\ Len(p) \in Nat
    BY SeqIs, Zenon
  <1>4. Len(p) + 1 = Len(q) /\ \A i \in 1 .. Len(q) : f[i] = IF i < k THEN i ELSE i - 1
    <2>1. Len(p) = Len(q) - 1
      BY Zenon DEF Without
    <2>2. \A i \in 1 .. Len(q) : f[i] = IF i < k THEN i ELSE i - 1
      BY <1>1, Zenon
    <2> QED BY <1>1, <1>3, <2>1, <2>2
  <1> HIDE DEF f
  <1>5. \A i \in At(q, h) : f[i] \in At(p, h) /\ p[f[i]] = q[i]
    <2> SUFFICES ASSUME NEW i \in At(q, h) PROVE f[i] \in At(p, h) /\ p[f[i]] = q[i]
      BY Zenon
    <2>1. i \in 1 .. Len(q) /\ i # k /\ q[i].hash = h
      BY <1>1, Zenon DEF At
    <2>2. /\ f[i] \in 1 .. Len(p)
          /\ \/ f[i] = i /\ f[i] < k
             \/ f[i] + 1 = i /\ ~(f[i] < k)
      <3>1. f[i] = IF i < k THEN i ELSE i - 1
        BY <1>4, <2>1, Zenon
      <3>2. Len(p) \in Nat /\ Len(p) + 1 = Len(q)
        BY <1>3, <1>4, Zenon
      <3> QED BY <2>1, <3>1, <3>2
    <2>3. p[f[i]] = q[i]
      BY <1>2, <2>2, Zenon
    <2> QED BY <1>3, <2>1, <2>2, <2>3, Zenon DEF At
  <1>6. \A i, j \in At(q, h) : i <= j => f[i] <= f[j]
    <2>1. \A i \in At(q, h) : i \in 1 .. Len(q) /\ i # k
      BY <1>1, Zenon DEF At
    <2> QED BY <1>1, <1>4, <2>1
  <1>7. \A j \in At(p, h) : \E i \in At(q, h) : f[i] = j
    <2> SUFFICES ASSUME NEW j \in At(p, h) PROVE \E i \in At(q, h) : f[i] = j
      OBVIOUS
    <2>1. j \in 1 .. Len(p) /\ p[j].hash = h
      BY <1>3, Zenon DEF At
    <2>2. CASE j < k
      <3>1. j \in 1 .. Len(q) /\ f[j] = j
        BY <1>1, <1>3, <1>4, <2>1, <2>2
      <3>2. q[j].hash = h
        BY <1>2, <2>1, <2>2, Zenon
      <3> QED BY <1>1, <3>1, <3>2, Zenon DEF At
    <2>3. CASE ~(j < k)
      <3>1. j + 1 \in 1 .. Len(q) /\ f[j + 1] = j
        BY <1>1, <1>3, <1>4, <2>1, <2>3
      <3>2. q[j + 1].hash = h
        BY <1>2, <2>1, <2>3, Zenon
      <3> QED BY <1>1, <3>1, <3>2, Zenon DEF At
    <2> QED BY <2>2, <2>3, Zenon
  <1>8. Moved(q, p, h, f)
    BY <1>5, <1>6, <1>7, Zenon DEF Moved
  <1> QED BY <1>8, SameFound, Zenon

\* A chain with a new head, of a hash that it did not have.
LEMMA ChainBehind ==
    ASSUME NEW q \in Chain, NEW n \in Entry, At(q, n.hash) = {}
    PROVE  <<n>> \o q \in Chain /\ map_get(<<n>> \o q, n.hash) = {n.value}
  <1> DEFINE p == <<n>> \o q
             h == n.hash
  <1>0. q \in Seq(Entry) /\ Unique(q)
    BY Zenon DEF Chain
  <1>1. p \in Seq(Entry) /\ Len(p) = Len(q) + 1 /\ p[1] = n /\ \A i \in 1 .. Len(q) : p[i + 1] = q[i]
    BY <1>0
  <1>2. DOMAIN q = 1 .. Len(q) /\ DOMAIN p = 1 .. Len(p) /\ Len(q) \in Nat
    BY <1>0, <1>1, SeqIs
  <1> HIDE DEF p
  <1>3. \A i \in DOMAIN p : i # 1 => i - 1 \in DOMAIN q /\ p[i] = q[i - 1] /\ q[i - 1].hash # h
    <2> SUFFICES ASSUME NEW i \in DOMAIN p, i # 1 PROVE i - 1 \in DOMAIN q /\ p[i] = q[i - 1] /\ q[i - 1].hash # h
      BY Zenon
    <2>1. i - 1 \in DOMAIN q /\ (i - 1) + 1 = i
      BY <1>1, <1>2
    <2>2. p[i] = q[i - 1]
      BY <1>1, <1>2, <2>1, Zenon
    <2> QED BY <2>1, <2>2, Zenon DEF At
  <1>4. Unique(p)
    <2> SUFFICES ASSUME NEW i \in DOMAIN p, NEW j \in DOMAIN p, p[i].hash = p[j].hash PROVE i = j
      BY Zenon DEF Unique
    <2>1. CASE i = 1 \/ j = 1
      BY <1>1, <1>3, <2>1, Zenon
    <2>2. CASE i # 1 /\ j # 1
      <3>1. i - 1 = j - 1
        BY <1>0, <1>3, <2>2, Zenon DEF Unique
      <3> QED BY <1>2, <3>1
    <2> QED BY <2>1, <2>2, Zenon
  <1>5. At(p, h) = {1}
    <2>1. 1 \in DOMAIN p
      BY <1>1, <1>2
    <2> QED BY <1>1, <1>3, <2>1, Zenon DEF At
  <1>6. map_get(p, h) = {n.value}
    <2>1. 1 \in At(p, h) /\ \A y \in At(p, h) : y = 1
      BY <1>5, Zenon
    <2> QED BY <1>1, <2>1, FirstAt, Zenon
  <1> QED BY <1>1, <1>4, <1>6, Zenon DEF p, Chain

\* A chain without one of its nodes: nothing is left of that node's hash.
LEMMA ChainWithout ==
    ASSUME NEW q \in Chain, NEW p \in Seq(Entry), NEW k \in 1 .. Len(q), Without(q, k, p)
    PROVE  p \in Chain /\ map_get(p, q[k].hash) = {}
  <1> DEFINE at(i) == IF i < k THEN i ELSE i + 1
  <1>0. q \in Seq(Entry) /\ Unique(q)
    BY Zenon DEF Chain
  <1>1. DOMAIN q = 1 .. Len(q) /\ DOMAIN p = 1 .. Len(p) /\ Len(q) \in Nat /\ Len(p) \in Nat
    BY <1>0, SeqIs
  <1>2. \A i \in DOMAIN p : at(i) \in DOMAIN q /\ at(i) # k
    <2>1. Len(p) = Len(q) - 1
      BY Zenon DEF Without
    <2> QED BY <1>1, <2>1
  <1>3. \A i \in DOMAIN p : p[i] = q[at(i)]
    BY <1>1, Zenon DEF Without
  <1>4. \A i, j \in DOMAIN p : at(i) = at(j) => i = j
    BY <1>1
  <1> HIDE DEF at
  <1>5. Unique(p)
    BY <1>0, <1>2, <1>3, <1>4, Zenon DEF Unique
  <1>6. At(p, q[k].hash) = {}
    <2>1. \A i \in DOMAIN p : q[at(i)].hash # q[k].hash
      BY <1>0, <1>1, <1>2, Zenon DEF Unique
    <2> QED BY <1>3, <2>1, Zenon DEF At
  <1> QED BY <1>5, <1>6, Zenon DEF Chain, map_get

-----------------------------------------------------------------------------
(***************************************************************************)
(* What the operations of map.h do to a chain.                             *)
(***************************************************************************)
\* In two chains map_get finds the same, but perhaps for one hash.
OneHash(p, q) == \E x : \A g : g # x => map_get(p, g) = map_get(q, g)

\* A node made for a key and a value of its own.
LEMMA NewEntry ==
    ASSUME NEW k \in Key, NEW v \in ValueOf[k]
    PROVE  /\ [hash |-> HashOf[k], value |-> v] \in Entry /\ v \in Values
           /\ HashOf[k] \in Nat /\ b(k) \in 0 .. BucketCount - 1
  <1>1. HashOf[k] \in Nat /\ b(k) \in 0 .. BucketCount - 1
    BY AbiAssumption DEF b
  <1>2. v \in Values
    BY Zenon DEF Values
  <1> QED BY <1>1, <1>2 DEF Entry

\* A new head changes what is found for its hash, and for no other.
LEMMA HeadIs ==
    ASSUME NEW q \in Chain, NEW n \in Entry, At(q, n.hash) = {}
    PROVE  /\ <<n>> \o q \in Chain /\ map_get(<<n>> \o q, n.hash) = {n.value}
           /\ \A g : g # n.hash => map_get(<<n>> \o q, g) = map_get(q, g)
  <1>1. q \in Seq(Entry)
    BY Zenon DEF Chain
  <1>2. ASSUME NEW g, g # n.hash
        PROVE  map_get(<<n>> \o q, g) = map_get(q, g)
    BY <1>1, <1>2, FoundBehind, Zenon
  <1> QED BY <1>2, ChainBehind, Zenon

\* map_set adds a node of its hash, or changes nothing.
LEMMA SetIs ==
    ASSUME NEW q \in Chain, NEW h, NEW v, [hash |-> h, value |-> v] \in Entry
    PROVE  LET p == map_set(q, h, v)
           IN  /\ p \in Chain /\ \A g : g # h => map_get(p, g) = map_get(q, g)
               /\ map_get(p, h) = IF At(q, h) = {} THEN {v} ELSE map_get(q, h)
  <1>1. CASE At(q, h) # {}
    BY <1>1, Zenon DEF map_set
  <1>2. CASE At(q, h) = {}
    <2> DEFINE n == [hash |-> h, value |-> v]
    <2>1. map_set(q, h, v) = <<n>> \o q
      BY <1>2, Zenon DEF map_set
    <2>2. n \in Entry /\ n.hash = h /\ n.value = v
      OBVIOUS
    <2> HIDE DEF n
    <2>3. At(q, n.hash) = {}
      BY <1>2, <2>2, Zenon
    <2>4. /\ <<n>> \o q \in Chain /\ map_get(<<n>> \o q, n.hash) = {n.value}
          /\ \A g : g # n.hash => map_get(<<n>> \o q, g) = map_get(q, g)
      BY <2>2, <2>3, HeadIs, Zenon
    <2> QED BY <1>2, <2>1, <2>2, <2>4, Zenon
  <1> QED BY <1>1, <1>2, Zenon

\* map_upsert adds a node of its hash, or changes the value of the one there is.
LEMMA UpsertIs ==
    ASSUME NEW q \in Chain, NEW h, NEW v, [hash |-> h, value |-> v] \in Entry
    PROVE  LET p == map_upsert(q, h, v)
           IN  /\ p \in Chain /\ \A g : g # h => map_get(p, g) = map_get(q, g)
               /\ map_get(p, h) = {v}
  <1> DEFINE n == [hash |-> h, value |-> v]
             i == Min(At(q, h))
             p == [q EXCEPT ![i].value = v]
  <1>0. q \in Seq(Entry) /\ Unique(q)
    BY Zenon DEF Chain
  <1>1. CASE At(q, h) = {}
    <2>1. map_upsert(q, h, v) = <<n>> \o q
      BY <1>1, Zenon DEF map_upsert
    <2>2. n \in Entry /\ n.hash = h /\ n.value = v
      OBVIOUS
    <2> HIDE DEF n
    <2>3. At(q, n.hash) = {}
      BY <1>1, <2>2, Zenon
    <2>4. /\ <<n>> \o q \in Chain /\ map_get(<<n>> \o q, n.hash) = {n.value}
          /\ \A g : g # n.hash => map_get(<<n>> \o q, g) = map_get(q, g)
      BY <2>2, <2>3, HeadIs, Zenon
    <2> QED BY <1>1, <2>1, <2>2, <2>4, Zenon
  <1>2. CASE At(q, h) # {}
    <2>1. map_upsert(q, h, v) = p
      BY <1>2, Zenon DEF map_upsert
    <2>2. i \in At(q, h)
      BY <1>0, <1>2, FirstAt, Zenon
    <2>3. i \in 1 .. Len(q) /\ q[i].hash = h /\ q[i] \in Entry /\ DOMAIN q = 1 .. Len(q)
      BY <1>0, <2>2, SeqIs, Zenon DEF At
    <2> HIDE DEF i
    <2>4. [q[i] EXCEPT !.value = v] = n
      BY <2>3 DEF Entry
    <2>5. p = [q EXCEPT ![i] = n]
      BY <2>4, Zenon
    <2>6. n \in Entry /\ n.hash = h /\ n.value = v
      OBVIOUS
    <2> HIDE DEF p, n
    <2>7. p \in Seq(Entry) /\ DOMAIN p = 1 .. Len(q) /\ p[i] = n /\ \A j \in 1 .. Len(q) : j # i => p[j] = q[j]
      BY <1>0, <2>3, <2>5, <2>6
    <2>8. \A j \in 1 .. Len(q) : p[j].hash = q[j].hash
      BY <2>3, <2>6, <2>7, Zenon
    <2>9. Unique(p) /\ \A g : At(p, g) = At(q, g)
      BY <1>0, <2>3, <2>7, <2>8, Zenon DEF Unique, At
    <2>10. ASSUME NEW g, g # h
           PROVE  map_get(p, g) = map_get(q, g)
      <3>1. At(p, g) = At(q, g) /\ \A j \in At(q, g) : p[j] = q[j]
        BY <2>3, <2>7, <2>9, <2>10, Zenon DEF At
      <3>2. CASE At(q, g) = {}
        BY <3>1, <3>2, Zenon DEF map_get
      <3>3. CASE At(q, g) # {}
        BY <1>0, <3>1, <3>3, FirstAt, Zenon DEF map_get
      <3> QED BY <3>2, <3>3, Zenon
    <2>11. map_get(p, h) = {v}
      BY <1>2, <2>6, <2>7, <2>9, Zenon DEF map_get, i
    <2> QED BY <2>1, <2>7, <2>9, <2>10, <2>11, Zenon DEF Chain
  <1> QED BY <1>1, <1>2, Zenon

\* map_delete removes one node, if any, whatever its hash.
LEMMA DeleteIs ==
    ASSUME NEW q \in Chain, CanDelete(q), NEW h
    PROVE  LET p == map_delete(q, h)
           IN  p \in Chain /\ OneHash(p, q) /\ \A g : map_get(p, g) \in {{}, map_get(q, g)}
  <1> DEFINE p == map_delete(q, h)
             S == Entry
  <1>1. q \in Seq(S)
    BY Zenon DEF Chain
  <1> HIDE DEF S
  <1>2. ASSUME NEW r \in Seq(S), NEW i \in 1 .. Len(q), Without(q, i, r)
        PROVE  r \in Chain /\ OneHash(r, q) /\ \A g : map_get(r, g) \in {{}, map_get(q, g)}
    <2>1. \A g : g # q[i].hash => map_get(r, g) = map_get(q, g)
      BY <1>1, <1>2, FoundWithout, Zenon
    <2>2. r \in Chain /\ map_get(r, q[i].hash) = {}
      BY <1>2, ChainWithout, Zenon DEF S
    <2> QED BY <2>1, <2>2, Zenon DEF OneHash
  <1>3. Len(q) \in Nat /\ DOMAIN q = 1 .. Len(q) /\ Len(q) >= 1
    BY <1>1 DEF CanDelete
  <1>4. CASE p = q
    BY <1>4, Zenon DEF OneHash
  <1>5. CASE p = Tail(q)
    <2>1. Tail(q) \in Seq(S) /\ Len(Tail(q)) = Len(q) - 1 /\ \A i \in 1 .. Len(Tail(q)) : Tail(q)[i] = q[i + 1]
      BY <1>1, <1>3 DEF CanDelete
    <2>2. Without(q, 1, Tail(q)) /\ 1 \in 1 .. Len(q)
      BY <1>3, <2>1 DEF Without
    <2> QED BY <1>2, <1>5, <2>1, <2>2, Zenon
  <1>6. CASE Len(q) > 1 /\ p = RemoveAt(q, 2)
    <2> DEFINE a == SubSeq(q, 1, 1)
               c == SubSeq(q, 3, Len(q))
               r == RemoveAt(q, 2)
    <2>1. r = a \o c
      BY DEF RemoveAt
    <2>2. /\ a \in Seq(S) /\ Len(a) = 1 /\ a[1] = q[1] /\ c \in Seq(S) /\ Len(c) = Len(q) - 2
          /\ \A i \in 1 .. Len(q) - 2 : c[i] = q[i + 2]
      BY <1>1, <1>3, <1>6
    <2> HIDE DEF r, a, c
    <2>3. r \in Seq(S) /\ Len(r) = Len(q) - 1 /\ \A i \in 1 .. Len(r) : r[i] = IF i < 2 THEN q[i] ELSE q[i + 1]
      <3>1. r \in Seq(S) /\ Len(r) = Len(a) + Len(c)
        BY <2>1, <2>2, ConcatIs, Zenon
      <3>2. \A i \in 1 .. Len(a) + Len(c) : r[i] = IF i <= Len(a) THEN a[i] ELSE c[i - Len(a)]
        BY <2>1, <2>2, ConcatIs, Zenon
      <3>3. Len(r) = Len(q) - 1
        BY <1>3, <2>2, <3>1
      <3>4. ASSUME NEW i \in 1 .. Len(r)
            PROVE  r[i] = IF i < 2 THEN q[i] ELSE q[i + 1]
        <4>1. CASE i = 1
          BY <1>3, <1>6, <2>2, <3>1, <3>2, <4>1
        <4>2. CASE i # 1
          <5>1. i - 1 \in 1 .. Len(q) - 2 /\ (i - 1) + 2 = i + 1 /\ ~(i < 2) /\ ~(i <= 1)
            BY <1>3, <3>3, <4>2
          <5>2. r[i] = c[i - 1]
            BY <2>2, <3>1, <3>2, <5>1, Zenon
          <5>3. c[i - 1] = q[i + 1]
            BY <2>2, <5>1, Zenon
          <5> QED BY <5>1, <5>2, <5>3, Zenon
        <4> QED BY <4>1, <4>2
      <3> QED BY <3>1, <3>3, <3>4, Zenon
    <2>4. Without(q, 2, r) /\ 2 \in 1 .. Len(q)
      BY <1>3, <1>6, <2>3 DEF Without
    <2> QED BY <1>2, <1>6, <2>3, <2>4, Zenon DEF r
  <1> QED BY <1>4, <1>5, <1>6, Zenon DEF map_delete

-----------------------------------------------------------------------------
(***************************************************************************)
(* The steps.                                                              *)
(***************************************************************************)
\* A step that leaves the buckets, their history and the pointers alone.
LEMMA ScratchStays ==
    ASSUME ScratchInv, UNCHANGED <<buckets, latest, copying>>, DOMAIN got' = Sandbox
    PROVE  ScratchInv'
  BY Zenon DEF ScratchInv, BucketsInv, LatestInv, PointersInv, Found, b

\* A step that changes no more than the pointer of sandbox s.
LEMMA PointerStep ==
    ASSUME ScratchInv, NEW s \in Sandbox, NEW P \in SUBSET Pointer,
           \A p \in P : p.value = Undefined \/ Found(buckets, p.key) = {p.value},
           copying' = [copying EXCEPT ![s] = P], UNCHANGED <<buckets, latest>>, DOMAIN got' = Sandbox
    PROVE  ScratchInv'
  <1>1. copying \in [Sandbox -> SUBSET Pointer]
    BY Zenon DEF ScratchInv, PointersInv
  <1>2. copying' \in [Sandbox -> SUBSET Pointer] /\ \A t \in Sandbox : copying'[t] = IF t = s THEN P ELSE copying[t]
    BY <1>1
  <1>3. \A t \in Sandbox : \A p \in copying'[t] : p.value = Undefined \/ Found(buckets, p.key) = {p.value}
    BY <1>2, Zenon DEF ScratchInv, PointersInv
  <1> QED BY <1>2, <1>3, Zenon DEF ScratchInv, BucketsInv, LatestInv, PointersInv, Found, b

\* A new chain for the bucket of key k, in which an entry that was there and whose hash is not in R is as it
\* was or gone, and every entry is the latest, or is as it was and so is the history.
Follows(k, chain, R) ==
    LET q == buckets[b(k)]
    IN  /\ latest' \in [Hashes -> SUBSET Values]
        /\ \A j \in Key : b(j) # b(k) => latest'[HashOf[j]] = latest[HashOf[j]]
        /\ \A h \in Hashes : \/ map_get(chain, h) \subseteq latest'[h]
                             \/ map_get(chain, h) \subseteq map_get(q, h) /\ latest'[h] = latest[h]
        /\ \A h \in Hashes : h \in R \/ map_get(q, h) = {} \/ map_get(chain, h) \in {{}, map_get(q, h)}

\* A call that gives a bucket such a chain: a pointer that has not become undefined leads to what map_get
\* would find.
LEMMA StoreStep ==
    ASSUME ScratchInv, NEW k \in Key, NEW chain \in Chain, NEW R, Store(k, chain, R), Follows(k, chain, R),
           UNCHANGED got
    PROVE  ScratchInv'
  <1>1. \A j \in Key : b(j) \in 0 .. BucketCount - 1 /\ HashOf[j] \in Hashes
    BY AbiAssumption DEF b, Hashes
  <1>2. /\ buckets' \in [0 .. BucketCount - 1 -> Chain] /\ buckets'[b(k)] = chain
        /\ \A i \in 0 .. BucketCount - 1 : i # b(k) => buckets'[i] = buckets[i]
    BY <1>1, Zenon DEF ScratchInv, BucketsInv, Store
  <1>3. \A j \in Key : IF b(j) = b(k) THEN Found(buckets', j) = map_get(chain, HashOf[j])
                       ELSE Found(buckets', j) = Found(buckets, j)
    BY <1>1, <1>2, Zenon DEF Found
  <1>4. \A j \in Key : Found(buckets', j) \subseteq latest'[HashOf[j]]
    <2> SUFFICES ASSUME NEW j \in Key PROVE Found(buckets', j) \subseteq latest'[HashOf[j]]
      BY Zenon
    <2>1. Found(buckets, j) \subseteq latest[HashOf[j]]
      BY Zenon DEF ScratchInv, LatestInv
    <2>2. CASE b(j) = b(k)
      <3>1. HashOf[j] \in Hashes /\ map_get(buckets[b(k)], HashOf[j]) \subseteq latest[HashOf[j]]
        BY <1>1, <2>1, <2>2, Zenon DEF Found
      <3>2. map_get(chain, HashOf[j]) \subseteq latest'[HashOf[j]]
        BY <3>1, Zenon DEF Follows
      <3> QED BY <1>3, <2>2, <3>2, Zenon
    <2>3. CASE b(j) # b(k)
      <3>1. latest'[HashOf[j]] = latest[HashOf[j]]
        BY <2>3, Zenon DEF Follows
      <3> QED BY <1>3, <2>1, <2>3, <3>1, Zenon
    <2> QED BY <2>2, <2>3, Zenon
  <1>5. /\ copying' \in [Sandbox -> SUBSET Pointer]
        /\ \A t \in Sandbox : \A p \in copying'[t] : p.value = Undefined \/ Found(buckets', p.key) = {p.value}
    <2> DEFINE Lost(p) == \/ HashOf[p.key] \in R
                          \/ b(p.key) = b(k) /\ map_get(chain, HashOf[p.key]) = {}
               Moves(p) == IF Lost(p) THEN [p EXCEPT !.value = Undefined] ELSE p
    <2>1. \A p \in Pointer : [p EXCEPT !.value = Undefined] \in Pointer /\ [p EXCEPT !.value = Undefined].value = Undefined
      BY DEF Pointer
    <2>2. /\ copying \in [Sandbox -> SUBSET Pointer] /\ copying' = [t \in Sandbox |-> {Moves(p) : p \in copying[t]}]
          /\ \A t \in Sandbox : \A p \in copying[t] : p.value = Undefined \/ Found(buckets, p.key) = {p.value}
      BY Zenon DEF ScratchInv, PointersInv, Store
    <2>3. ASSUME NEW t \in Sandbox, NEW p \in copying[t]
          PROVE  Moves(p) \in Pointer /\ (Moves(p).value = Undefined \/ Found(buckets', Moves(p).key) = {Moves(p).value})
      <3>1. p \in Pointer /\ p.key \in Key
        BY <2>2, <2>3 DEF Pointer
      <3>2. CASE Lost(p)
        BY <2>1, <3>1, <3>2, Zenon
      <3>3. CASE ~Lost(p) /\ p.value # Undefined
        <4>1. Found(buckets, p.key) = {p.value}
          BY <2>2, <2>3, <3>3, Zenon
        <4>2. CASE b(p.key) # b(k)
          BY <1>3, <3>1, <3>3, <4>1, <4>2, Zenon
        <4>3. CASE b(p.key) = b(k)
          <5>1. map_get(buckets[b(k)], HashOf[p.key]) = {p.value} /\ HashOf[p.key] \notin R /\ map_get(chain, HashOf[p.key]) # {}
            BY <3>3, <4>1, <4>3, Zenon DEF Found
          <5>2. map_get(chain, HashOf[p.key]) = {p.value}
            BY <1>1, <3>1, <5>1, Zenon DEF Follows
          <5> QED BY <1>3, <3>1, <3>3, <4>3, <5>2, Zenon
        <4> QED BY <4>2, <4>3, Zenon
      <3>4. CASE ~Lost(p) /\ p.value = Undefined
        BY <3>1, <3>4, Zenon
      <3> QED BY <3>2, <3>3, <3>4, Zenon
    <2> HIDE DEF Moves, Lost
    <2>4. \A t \in Sandbox : {Moves(p) : p \in copying[t]} \in SUBSET Pointer
      BY <2>3, Zenon
    <2>5. copying' \in [Sandbox -> SUBSET Pointer]
      BY <2>2, <2>4, Zenon
    <2>6. ASSUME NEW t \in Sandbox, NEW x \in copying'[t]
          PROVE  x.value = Undefined \/ Found(buckets', x.key) = {x.value}
      <3>1. PICK p \in copying[t] : x = Moves(p)
        BY <2>2, <2>6, Zenon
      <3> QED BY <2>3, <3>1, Zenon
    <2> QED BY <2>5, <2>6, Zenon
  <1>6. BucketsInv'
    BY <1>2, Zenon DEF ScratchInv, BucketsInv
  <1>7. LatestInv' /\ PointersInv'
    BY <1>4, <1>5, Zenon DEF LatestInv, PointersInv, Found, Follows, b
  <1> QED BY <1>6, <1>7, Zenon DEF ScratchInv

\* In an empty map nothing is stored, and nobody reads.
LEMMA ScratchInit == Init => ScratchInv
  <1> SUFFICES ASSUME Init PROVE ScratchInv
    OBVIOUS
  <1>1. <<>> \in Chain
    BY DEF Chain, Unique
  <1>2. buckets = [i \in 0 .. BucketCount - 1 |-> <<>>] /\ \A k \in Key : b(k) \in 0 .. BucketCount - 1
    BY AbiAssumption DEF Init, b
  <1>3. BucketsInv
    BY <1>1, <1>2, Zenon DEF Init, BucketsInv
  <1>4. \A h : map_get(<<>>, h) = {}
    <2>1. \A h : At(<<>>, h) = {}
      BY DEF At
    <2> QED BY <2>1, Zenon DEF map_get
  <1>5. \A k \in Key : Found(buckets, k) = {}
    BY <1>2, <1>4, Zenon DEF Found
  <1>6. LatestInv
    BY <1>5, Zenon DEF Init, LatestInv, Hashes
  <1>7. PointersInv
    BY Zenon DEF Init, PointersInv
  <1> QED BY <1>3, <1>6, <1>7, Zenon DEF ScratchInv

\* The operations that give a bucket a new chain.
LEMMA ChainStep ==
    ASSUME ScratchInv, NEW s \in Sandbox, NEW k \in Key,
           \/ \E v \in ValueOf[k] : scratch_storage_set(s, k, v) \/ scratch_storage_upsert(s, k, v)
           \/ scratch_storage_delete(s, k)
    PROVE  /\ ScratchInv' /\ UNCHANGED got
           /\ \/ UNCHANGED buckets
              \/ /\ \A j \in 0 .. BucketCount - 1 : j # b(k) => buckets'[j] = buckets[j]
                 /\ OneHash(buckets'[b(k)], buckets[b(k)])
  <1> DEFINE q == buckets[b(k)]
             h == HashOf[k]
             Result == /\ ScratchInv' /\ UNCHANGED got
                       /\ \A j \in 0 .. BucketCount - 1 : j # b(k) => buckets'[j] = buckets[j]
                       /\ OneHash(buckets'[b(k)], buckets[b(k)])
  <1>1. CASE UNCHANGED scratch
    <2>1. ScratchInv'
      BY <1>1, ScratchStays, Zenon DEF ScratchInv, BucketsInv, scratch
    <2> QED BY <1>1, <2>1, Zenon DEF scratch
  <1>2. b(k) \in 0 .. BucketCount - 1 /\ h \in Hashes
    BY AbiAssumption DEF b, Hashes
  <1>3. q \in Chain /\ latest \in [Hashes -> SUBSET Values] /\ map_get(q, h) \subseteq latest[h]
    BY <1>2, Zenon DEF ScratchInv, BucketsInv, LatestInv, Found
  <1>4. ASSUME NEW chain \in Chain, NEW R, Store(k, chain, R), UNCHANGED got, ScratchInv', OneHash(chain, q)
        PROVE  Result
    <2>1. buckets \in [0 .. BucketCount - 1 -> Chain] /\ buckets' = [buckets EXCEPT ![b(k)] = chain]
      BY <1>4, Zenon DEF Store, ScratchInv, BucketsInv
    <2>2. buckets'[b(k)] = chain /\ \A j \in 0 .. BucketCount - 1 : j # b(k) => buckets'[j] = buckets[j]
      BY <1>2, <2>1, Zenon
    <2> QED BY <1>4, <2>2, Zenon
  <1>5. ASSUME NEW v \in ValueOf[k]
        PROVE  /\ [hash |-> h, value |-> v] \in Entry
               /\ LET l == [latest EXCEPT ![h] = {v}]
                  IN  l \in [Hashes -> SUBSET Values] /\ l[h] = {v} /\ \A g \in Hashes : g # h => l[g] = latest[g]
    <2>1. v \in Values /\ [hash |-> h, value |-> v] \in Entry
      BY <1>5, NewEntry, Zenon
    <2> QED BY <1>2, <1>3, <2>1
  <1>6. \A j \in Key : HashOf[j] \in Hashes /\ (b(j) # b(k) => HashOf[j] # h)
    BY Zenon DEF Hashes, b
  <1> HIDE DEF h, q
  <1>7. ASSUME NEW v \in ValueOf[k], scratch_storage_set(s, k, v), ~UNCHANGED scratch
        PROVE  Result
    <2> DEFINE chain == map_set(q, h, v)
    <2>1. /\ Store(k, chain, {}) /\ UNCHANGED got
          /\ latest' = [latest EXCEPT ![h] = IF At(q, h) = {} THEN {v} ELSE latest[h]]
      BY <1>7, Zenon DEF scratch_storage_set, LockAsserts, Aborts, h, q
    <2>2. /\ chain \in Chain /\ \A g : g # h => map_get(chain, g) = map_get(q, g)
          /\ map_get(chain, h) = IF At(q, h) = {} THEN {v} ELSE map_get(q, h)
      <3>1. [hash |-> h, value |-> v] \in Entry
        BY <1>5, Zenon
      <3>2. q \in Chain
        BY <1>3, Zenon
      <3> QED BY <3>1, <3>2, SetIs, Zenon
    <2>3. At(q, h) = {} => map_get(q, h) = {}
      BY Zenon DEF map_get
    <2> HIDE DEF chain
    <2>4. IF At(q, h) = {} THEN latest' = [latest EXCEPT ![h] = {v}] ELSE latest' = latest
      <3>1. [latest EXCEPT ![h] = latest[h]] = latest
        BY <1>3
      <3> QED BY <2>1, <3>1, Zenon
    <2>5. /\ latest' \in [Hashes -> SUBSET Values] /\ \A g \in Hashes : g # h => latest'[g] = latest[g]
          /\ IF At(q, h) = {} THEN latest'[h] = {v} ELSE latest'[h] = latest[h]
      BY <1>3, <1>5, <2>4, Zenon
    <2>6. \A g \in Hashes : \/ map_get(chain, g) \subseteq latest'[g]
                            \/ map_get(chain, g) \subseteq map_get(q, g) /\ latest'[g] = latest[g]
      BY <2>2, <2>5, Zenon
    <2>7. \A g \in Hashes : g \in {} \/ map_get(q, g) = {} \/ map_get(chain, g) \in {{}, map_get(q, g)}
      BY <2>2, <2>3, Zenon
    <2>8. \A j \in Key : b(j) # b(k) => latest'[HashOf[j]] = latest[HashOf[j]]
      BY <1>6, <2>5, Zenon
    <2>9. ScratchInv'
      <3>1. Follows(k, chain, {})
        BY <2>5, <2>6, <2>7, <2>8, Zenon DEF Follows, q
      <3> QED BY <2>1, <2>2, <3>1, StoreStep, Zenon
    <2>10. OneHash(chain, q)
      BY <2>2, Zenon DEF OneHash
    <2> QED BY <1>4, <2>1, <2>2, <2>9, <2>10, Zenon
  <1>8. ASSUME NEW v \in ValueOf[k], scratch_storage_upsert(s, k, v), ~UNCHANGED scratch
        PROVE  Result
    <2> DEFINE chain == map_upsert(q, h, v)
    <2>1. Store(k, chain, {h}) /\ UNCHANGED got /\ latest' = [latest EXCEPT ![h] = {v}]
      BY <1>8, Zenon DEF scratch_storage_upsert, LockAsserts, Aborts, h, q
    <2>2. /\ chain \in Chain /\ \A g : g # h => map_get(chain, g) = map_get(q, g)
          /\ map_get(chain, h) = {v}
      <3>1. [hash |-> h, value |-> v] \in Entry
        BY <1>5, Zenon
      <3>2. q \in Chain
        BY <1>3, Zenon
      <3> QED BY <3>1, <3>2, UpsertIs, ZenonT(60)
    <2> HIDE DEF chain
    <2>3. latest' \in [Hashes -> SUBSET Values] /\ latest'[h] = {v} /\ \A g \in Hashes : g # h => latest'[g] = latest[g]
      BY <1>5, <2>1, Zenon
    <2>4. \A g \in Hashes : \/ map_get(chain, g) \subseteq latest'[g]
                            \/ map_get(chain, g) \subseteq map_get(q, g) /\ latest'[g] = latest[g]
      BY <2>2, <2>3, Zenon
    <2>5. \A g \in Hashes : g \in {h} \/ map_get(q, g) = {} \/ map_get(chain, g) \in {{}, map_get(q, g)}
      BY <2>2, Zenon
    <2>6. \A j \in Key : b(j) # b(k) => latest'[HashOf[j]] = latest[HashOf[j]]
      BY <1>6, <2>3, Zenon
    <2>7. ScratchInv'
      <3>1. Follows(k, chain, {h})
        BY <2>3, <2>4, <2>5, <2>6, Zenon DEF Follows, q
      <3> QED BY <2>1, <2>2, <3>1, StoreStep, Zenon
    <2>8. OneHash(chain, q)
      BY <2>2, Zenon DEF OneHash
    <2> QED BY <1>4, <2>1, <2>2, <2>7, <2>8, Zenon
  <1>9. ASSUME scratch_storage_delete(s, k), ~UNCHANGED scratch
        PROVE  Result
    <2> DEFINE chain == map_delete(q, h)
    <2>1. Store(k, chain, {}) /\ UNCHANGED <<got, latest>> /\ CanDelete(q)
      BY <1>9, Zenon DEF scratch_storage_delete, LockAsserts, Aborts, h, q
    <2>2. chain \in Chain /\ OneHash(chain, q) /\ \A g : map_get(chain, g) \in {{}, map_get(q, g)}
      BY <1>3, <2>1, DeleteIs, Zenon
    <2> HIDE DEF chain
    <2>3. latest' \in [Hashes -> SUBSET Values] /\ \A g : latest'[g] = latest[g]
      BY <1>3, <2>1, Zenon
    <2>4. \A g \in Hashes : \/ map_get(chain, g) \subseteq latest'[g]
                            \/ map_get(chain, g) \subseteq map_get(q, g) /\ latest'[g] = latest[g]
      BY <2>2, <2>3, Zenon
    <2>5. \A g \in Hashes : g \in {} \/ map_get(q, g) = {} \/ map_get(chain, g) \in {{}, map_get(q, g)}
      BY <2>2, Zenon
    <2>6. ScratchInv'
      <3>1. Follows(k, chain, {})
        BY <2>3, <2>4, <2>5, Zenon DEF Follows, q
      <3> QED BY <2>1, <2>2, <3>1, StoreStep, Zenon
    <2> QED BY <1>4, <2>1, <2>2, <2>6, Zenon
  <1> QED BY <1>1, <1>7, <1>8, <1>9, Zenon

\* Every call keeps the latest values, and the pointers to them.
LEMMA ScratchNext == ScratchInv /\ [Next]_vars => ScratchInv'
  <1> SUFFICES ASSUME ScratchInv, [Next]_vars PROVE ScratchInv'
    OBVIOUS
  <1>0. DOMAIN got = Sandbox /\ \A s : \A r : DOMAIN [got EXCEPT ![s] = r] = Sandbox
    BY Zenon DEF ScratchInv, BucketsInv
  <1>1. CASE UNCHANGED scratch
    BY <1>0, <1>1, ScratchStays, Zenon DEF scratch
  <1>2. ASSUME NEW s \in Sandbox, NEW k \in Key, scratch_storage_get_size(s, k)
        PROVE  ScratchInv'
    BY <1>0, <1>2, ScratchStays, Zenon DEF scratch_storage_get_size
  <1>3. ASSUME NEW s \in Sandbox, NEW k \in Key, NEW buf_len \in BufLen, scratch_storage_get(s, k, buf_len)
        PROVE  ScratchInv'
    <2> DEFINE found == map_get(buckets[b(k)], HashOf[k])
    <2>1. /\ DOMAIN got' = Sandbox /\ UNCHANGED <<buckets, latest>>
          /\ \/ UNCHANGED copying
             \/ \E v \in found : copying' = [copying EXCEPT ![s] = {[key |-> k, value |-> v]}]
      BY <1>0, <1>3, Zenon DEF scratch_storage_get
    <2>2. ASSUME NEW v \in found, copying' = [copying EXCEPT ![s] = {[key |-> k, value |-> v]}]
          PROVE  ScratchInv'
      <3> DEFINE p == [key |-> k, value |-> v]
      <3>1. b(k) \in 0 .. BucketCount - 1
        BY AbiAssumption DEF b
      <3>2. v \in Values /\ found = {v}
        BY <2>2, <3>1, GetIs, Zenon DEF ScratchInv, BucketsInv, Chain
      <3>3. p \in Pointer /\ p.key = k /\ p.value = v
        BY <3>2 DEF Pointer
      <3>4. copying' = [copying EXCEPT ![s] = {p}]
        BY <2>2, Zenon
      <3> HIDE DEF p
      <3>5. {p} \in SUBSET Pointer /\ \A x \in {p} : x.value = Undefined \/ Found(buckets, x.key) = {x.value}
        BY <3>2, <3>3, Zenon DEF Found
      <3> QED BY <2>1, <3>4, <3>5, PointerStep, Zenon
    <2> QED BY <2>1, <2>2, ScratchStays, Zenon
  <1>4. ASSUME NEW s \in Sandbox, scratch_storage_copy(s)
        PROVE  ScratchInv'
    <2>1. copying' = [copying EXCEPT ![s] = {}] /\ UNCHANGED <<buckets, latest>> /\ DOMAIN got' = Sandbox
      BY <1>0, <1>4, Zenon DEF scratch_storage_copy
    <2> QED BY <2>1, PointerStep, Zenon
  <1>5. ASSUME NEW s \in Sandbox, NEW k \in Key,
               \/ \E v \in ValueOf[k] : scratch_storage_set(s, k, v) \/ scratch_storage_upsert(s, k, v)
               \/ scratch_storage_delete(s, k)
        PROVE  ScratchInv'
    BY <1>5, ChainStep, Zenon
  <1> QED BY <1>1, <1>2, <1>3, <1>4, <1>5, Zenon DEF Next, vars, scratch

\* The invariant of the scratch storage (scratch_storage_get, _set, _delete and _upsert with map.h): a chain has
\* one node for a hash, map_get finds the latest value of a hash or nothing, and a pointer being copied from
\* leads to what map_get would find, or was invalidated.
THEOREM ScratchInvariant == Spec => []ScratchInv
  <1> QED BY ScratchInit, ScratchNext, PTL DEF Spec

\* What scratch_storage_get copies to its caller is the value that was last stored under the hash of the key it
\* asked for, unless the entry was deleted or upserted between map_get and memcpy.
THEOREM GetsAreLatest == Spec => GetGivesLatest
  <1> DEFINE Gives(s) == \A k \in got'[s].key : got'[s].value \subseteq {Undefined} \cup latest[HashOf[k]]
             Good == \A s \in Sandbox : copying[s] # {} /\ copying'[s] = {} => Gives(s)
  <1>1. ScratchInv /\ [Next]_vars => Good
    <2> SUFFICES ASSUME ScratchInv, [Next]_vars, NEW s \in Sandbox, copying[s] # {}, copying'[s] = {}
                 PROVE  Gives(s)
      BY Zenon
    <2>0. copying \in [Sandbox -> SUBSET Pointer] /\ DOMAIN got = Sandbox
      BY Zenon DEF ScratchInv, BucketsInv, PointersInv
    <2>1. ASSUME NEW t \in Sandbox, scratch_storage_copy(t)
          PROVE  Gives(s)
      <3>1. t = s
        <4>1. copying' = [copying EXCEPT ![t] = {}]
          BY <2>1, Zenon DEF scratch_storage_copy
        <4> QED BY <2>0, <4>1, Zenon
      <3>2. PICK p \in copying[s] : got' = [got EXCEPT ![s] = [NoResult EXCEPT !.key = {p.key}, !.value = {p.value}]]
        BY <2>1, <3>1, Zenon DEF scratch_storage_copy
      <3>3. got'[s] = [NoResult EXCEPT !.key = {p.key}, !.value = {p.value}]
        BY <2>0, <3>2, Zenon
      <3>4. got'[s].key = {p.key} /\ got'[s].value = {p.value}
        BY <3>3 DEF NoResult
      <3>5. p.key \in Key
        BY <2>0, <3>2 DEF Pointer
      <3>6. p.value = Undefined \/ Found(buckets, p.key) = {p.value}
        BY <3>2, Zenon DEF ScratchInv, PointersInv
      <3>7. Found(buckets, p.key) \subseteq latest[HashOf[p.key]]
        BY <3>5, Zenon DEF ScratchInv, LatestInv
      <3> QED BY <3>4, <3>6, <3>7, Zenon
    <2>2. ASSUME NEW t \in Sandbox, NEW k \in Key, NEW buf_len \in BufLen, scratch_storage_get(t, k, buf_len)
          PROVE  FALSE
      <3>1. \/ UNCHANGED copying
            \/ \E v : copying' = [copying EXCEPT ![t] = {[key |-> k, value |-> v]}]
        BY <2>2, Zenon DEF scratch_storage_get
      <3> QED BY <2>0, <3>1, Zenon
    <2>3. ASSUME NEW k \in Key, NEW chain, NEW R, Store(k, chain, R)
          PROVE  FALSE
      <3>1. PICK p : p \in copying[s]
        BY Zenon
      <3> QED BY <2>3, <3>1, Zenon DEF Store
    <2>4. ~UNCHANGED copying
      BY Zenon
    <2>5. ASSUME NEW t \in Sandbox, NEW k \in Key,
                 \/ \E v \in ValueOf[k] : scratch_storage_set(t, k, v) \/ scratch_storage_upsert(t, k, v)
                 \/ scratch_storage_delete(t, k)
          PROVE  FALSE
      BY <2>3, <2>4, <2>5, Zenon DEF scratch_storage_set, scratch_storage_upsert, scratch_storage_delete,
                                     LockAsserts, Aborts, scratch
    <2> QED BY <2>1, <2>2, <2>4, <2>5, Zenon DEF Next, vars, scratch, scratch_storage_get_size
  <1> QED BY <1>1, ScratchInvariant, PTL DEF Spec, GetGivesLatest

\* One call to map_set, map_delete or map_upsert changes, adds or removes the entry of one hash at most.
THEOREM CallsChangeOneEntry == Spec => OneEntryChanges
  <1> DEFINE OfKey(k) == map_get(buckets[b(k)], HashOf[k])
             One == \A j, k \in Key : OfKey(j)' # OfKey(j) /\ OfKey(k)' # OfKey(k) => HashOf[j] = HashOf[k]
  <1>1. ScratchInv /\ [Next]_vars => One
    <2> SUFFICES ASSUME ScratchInv, [Next]_vars PROVE One
      OBVIOUS
    <2>1. CASE UNCHANGED buckets
      BY <2>1, Zenon DEF b
    <2>2. ASSUME NEW s \in Sandbox, NEW k \in Key,
                 \/ \E v \in ValueOf[k] : scratch_storage_set(s, k, v) \/ scratch_storage_upsert(s, k, v)
                 \/ scratch_storage_delete(s, k),
                 ~UNCHANGED buckets
          PROVE  One
      <3>1. /\ \A i \in 0 .. BucketCount - 1 : i # b(k) => buckets'[i] = buckets[i]
            /\ OneHash(buckets'[b(k)], buckets[b(k)])
        BY <2>2, ChainStep, Zenon
      <3>2. \A j \in Key : b(j) \in 0 .. BucketCount - 1
        BY AbiAssumption DEF b
      <3>3. PICK x : \A g : g # x => map_get(buckets'[b(k)], g) = map_get(buckets[b(k)], g)
        BY <3>1, Zenon DEF OneHash
      <3>4. ASSUME NEW j \in Key, HashOf[j] # x
            PROVE  map_get(buckets'[b(j)], HashOf[j]) = map_get(buckets[b(j)], HashOf[j])
        <4>1. CASE b(j) = b(k)
          BY <3>3, <3>4, <4>1, Zenon
        <4>2. CASE b(j) # b(k)
          BY <3>1, <3>2, <4>2, Zenon
        <4> QED BY <4>1, <4>2, Zenon
      <3>5. \A j \in Key : OfKey(j)' = map_get(buckets'[b(j)], HashOf[j])
        BY Zenon DEF b
      <3> QED BY <3>4, <3>5, Zenon
    <2> QED BY <2>1, <2>2, Zenon DEF Next, vars, scratch, scratch_storage_get_size, scratch_storage_get,
                                     scratch_storage_copy
  <1>2. One <=> \A j, k \in Key : /\ map_get(buckets'[b(j)], HashOf[j]) # map_get(buckets[b(j)], HashOf[j])
                                  /\ map_get(buckets'[b(k)], HashOf[k]) # map_get(buckets[b(k)], HashOf[k])
                                  => HashOf[j] = HashOf[k]
    BY Zenon DEF b
  <1> QED BY <1>1, <1>2, ScratchInvariant, PTL DEF Spec, OneEntryChanges
====
