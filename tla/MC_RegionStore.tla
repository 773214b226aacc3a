--------------------------- MODULE MC_RegionStore ---------------------------
(* Model-checking instance of RegionStore: two keys written by two        *)
(* threads, two attributes of which one is indexed, two values.           *)
EXTENDS RegionStore

CONSTANTS k1, k2, a1, a2, v1, v2, t1, t2

MC_Keys == {k1, k2}
MC_Attrs == {a1, a2}
MC_IndexedAttrs == {a1}
MC_Vals == {v1, v2}
MC_Threads == {t1, t2}

=============================================================================
