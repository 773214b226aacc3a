------------------------------- MODULE MC_Search -------------------------------
EXTENDS Search

CONSTANTS a1, t1

MC_Keys == {1, 2}
MC_Attrs == {a1}
\* A region whose subspace indexes the attribute.
MC_IndexedAttrs == {a1}
\* A region whose subspace does not index it.
MC_Unindexed == {}
MC_Vals == {1, 2}
MC_Threads == {t1}
MC_OtherObjs == {<<0, 1>>, <<2, 1>>}
=============================================================================
