----------------------------- MODULE MC_Datalayer -----------------------------
(* Model-checking instance of Datalayer: the RegionStore instance of      *)
(* MC_RegionStore (two keys, two threads, two attributes of which one is  *)
(* indexed, two values), 3-bit ids, the store's region 1 acking for its   *)
(* own point leader, and an earlier ack of point leader 3, whose keys sort *)
(* after point leader 1's.                                                  *)
EXTENDS Datalayer, TLC

CONSTANTS k1, k2, a1, a2, v1, v2, t1, t2

MC_Keys == {k1, k2}
MC_Attrs == {a1, a2}
MC_IndexedAttrs == {a1}
MC_Vals == {v1, v2}
MC_Threads == {t1, t2}
MC_Regions == {1, 3}
MC_Leaders == {1}
\* encode_acked(1, 3, UINT64_MAX - 1)
MC_PriorAcks == {<<1, 3, 6>>}

\* Threads, keys and values are interchangeable for the invariants checked.
MC_Symmetry ==
    Permutations(MC_Threads) \cup Permutations(MC_Keys) \cup Permutations(MC_Vals)

=============================================================================
