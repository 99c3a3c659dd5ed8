----------------------------- MODULE MCSledgeAbi -----------------------------
(***************************************************************************)
(* Instance of SledgeAbi for TLC.  A byte has four values, so an offset of *)
(* the 34-byte memory takes three.  The vectors of lengths have one and    *)
(* two buffers, an empty one, more room than the body, and one that does   *)
(* not fit in memory.  The second argument is empty.  The keys share one   *)
(* bucket; the first and the last have the same hash.  No value is stored  *)
(* under two keys; one is empty.                                           *)
(***************************************************************************)
EXTENDS SledgeAbi

MCArgLens == <<1, 0, 2>>
MCReadLens == {<<1, 2>>, <<0, 3>>, <<1, 40>>}
MCWriteLens == {<<1, 2>>, <<40>>}
\* One sandbox makes WASI calls alone, two share the scratch storage, or one does both.
MCPlan ==
    {[s \in Sandbox |-> IF s = "s1" THEN [wasi |-> p[1], scratch |-> p[2]] ELSE [wasi |-> 0, scratch |-> p[3]]] :
        p \in {<<4, 0, 0>>, <<0, 3, 3>>, <<1, 1, 1>>}}
MCHashOf == [k \in Key |-> CASE k = "k2" -> 2 [] OTHER -> 1]
MCValueOf == [k \in Key |-> CASE k = "k1" -> {<<1>>} [] k = "k2" -> {<<>>} [] OTHER -> {<<3, 3>>}]
=============================================================================
