-------------------------------- MODULE Search --------------------------------
(***************************************************************************)
(* A range search of datalayer (src/daemon/datalayer.cc): make_snapshot,  *)
(* snapshot::valid and snapshot::next, running against the concurrent     *)
(* writers of RegionStore.                                                 *)
(*                                                                         *)
(* make_snapshot takes a leveldb snapshot and opens an iterator on it over *)
(* the planned range: the index range of the searched attribute, or the   *)
(* region's object range.  valid() walks that iterator and fetches every  *)
(* candidate with a point Get, whose ReadOptions carry no snapshot: the   *)
(* Get reads the live store.  The plan is a free choice among the ranges  *)
(* the planner may pick (the choice rests on GetApproximateSizes, an      *)
(* estimate, and any range may be estimated the smallest).                *)
(*                                                                         *)
(* A search is a conjunction of checks lo <= attr <= hi, at most one per  *)
(* attribute, the key attribute (attr 0) included.  Keys and values are  *)
(* numbers so that iterator order is key order.                          *)
(*                                                                         *)
(* The same reading thread may instead walk a region_iterator over a raw  *)
(* snapshot (make_raw_snapshot, make_region_iterator), as state transfer  *)
(* does.  The store's region is Region; OtherObjs are object keys          *)
(* <<region, key>> of neighbouring regions, which share the 'o' family and *)
(* sort around it by their big-endian region id.                          *)
(***************************************************************************)
EXTENDS Naturals, FiniteSets, FiniteSetsExt

CONSTANTS Keys, Attrs, IndexedAttrs, Vals, Threads, MaxSeq, Absent,
          KeyAttr,      \* attribute 0, the object key
          BadAttr,      \* an attribute id past the schema's attrs_sz
          MaxChecks,    \* checks of one search (bound)
          MaxSearches,  \* searches and region scans started (bound)
          Region,       \* the region id of the store
          OtherObjs     \* <<region, key>> objects of other regions

VARIABLES
    objs, index, tlog, count, pc, batch,   \* the store, see RegionStore
    spc,       \* the reading thread: "none", "valid", "yielded", "done",
               \* or "scan", "scanned" for a region iterator
    query,     \* the search's checks, a set of [attr, lo, hi]
    plan,      \* "objects" or the attribute whose index drives the iterator
    sobjs,     \* the objects as of the snapshot (for the properties)
    todo,      \* iterator keys not yet passed: <<order key, object key>>
    serr,      \* make_snapshot's return code, then m_error
    results,   \* <<key, value>> pairs valid() returned true on (ghost)
    written,   \* keys a Write changed since the snapshot (ghost)
    searches,  \* searches and scans started
    ritems,    \* the region iterator's snapshot items not yet passed
    rout       \* <<region, key, value>> items the region scan unpacked

\* The state transfer consumer plays no part in a search: it stays at its
\* initial state.
RS == INSTANCE RegionStore WITH next <- 1, replica <- [k \in Keys |-> Absent]

storeVars == <<objs, index, tlog, count, pc, batch>>
svars == <<spc, query, plan, sobjs, todo, serr, results, written, searches,
          ritems, rout>>
vars == <<storeVars, svars>>

ASSUME Keys \subseteq Nat /\ KeyAttr \notin Attrs /\ BadAttr \notin Attrs \cup {KeyAttr}

\* The checks a caller may pass: a range on the key or on an attribute.
Checks == {c \in [attr : {KeyAttr} \cup Attrs, lo : Vals, hi : Vals] : c.lo <= c.hi}
\* Conjunctions of at most MaxChecks checks, one per attribute.
Queries ==
    {q \in SUBSET Checks :
        /\ q # {} /\ Cardinality(q) <= MaxChecks
        /\ \A c, d \in q : c.attr = d.attr => c = d}
\* A check on an attribute the schema does not have.
BadQuery == {[attr |-> BadAttr, lo |-> Min(Vals), hi |-> Min(Vals)]}
NoQuery == {}

TypeOK ==
    /\ spc \in {"none", "valid", "yielded", "done", "scan", "scanned"}
    /\ query \in Queries \cup {NoQuery, BadQuery}
    /\ todo \subseteq ({0} \cup Vals) \X Keys
    /\ serr \in {"SUCCESS", "CORRUPTION", "BAD_SEARCH", "IO_ERROR", "LEVELDB_ERROR"}
    /\ results \subseteq Keys \X RS!Value
    /\ written \subseteq Keys

-----------------------------------------------------------------------------
(* make_snapshot.                                                          *)

\* The checks loop of valid(): passes_attribute_check of every check, on
\* the key for attribute 0 and on the fetched value otherwise.
Passes(q, k, o) ==
    \A c \in q : LET x == IF c.attr = KeyAttr THEN k ELSE o[c.attr]
                 IN c.lo <= x /\ x <= c.hi

\* Mutant: a key check is given an index range like any other.
PlansWithKey(q) == {"objects"} \cup {c.attr : c \in q}

\* The ranges make_snapshot may drive the search with: the object range
\* always, and the index range of every check but a key check (attr 0 is
\* skipped).  Whether the region's subspace indexes the attribute is not
\* consulted: the planner's choice rests on GetApproximateSizes alone.
Plans(q) == {"objects"} \cup {c.attr : c \in {c \in q : c.attr # KeyAttr}}

\* The check of q on attribute a.
CheckOn(q, a) == CHOOSE c \in q : c.attr = a

\* Mutant: the limit is encode_index(end) without bump_index, excluding end.
IndexRangeNoBump(c) == {v \in Vals : c.lo <= v /\ v < c.hi}

\* [encode_index(start), bump_index(encode_index(end))): the values the
\* index iterator passes before reaching m_range.limit.
IndexRange(c) == {v \in Vals : c.lo <= v /\ v <= c.hi}

\* The keys of the snapshot in m_range, as <<order, key>> in key order
\* (object keys sort by key; index keys by value, then key) after m_parse.
RangeKeys(q, p) ==
    IF p = "objects" THEN {<<0, k>> : k \in {k \in Keys : objs[k] # Absent}}
    ELSE {<<e[2], e[3]>> : e \in {e \in index : e[1] = p /\ e[2] \in IndexRange(CheckOn(q, p))}}

\* make_snapshot: the snapshot is taken, then the checks' ranges are built
\* and the iterator is opened on the planned range.
MakeSnapshot(q, p) ==
    /\ spc \in {"none", "done", "scanned"} /\ searches < MaxSearches
    /\ query' = q /\ plan' = p
    /\ sobjs' = objs
    /\ todo' = RangeKeys(q, p)
    /\ serr' = "SUCCESS" /\ results' = {} /\ written' = {}
    /\ spc' = "valid" /\ searches' = searches + 1
    /\ UNCHANGED <<storeVars, ritems, rout>>

\* A check's attribute is past attrs_sz: make_snapshot returns BAD_SEARCH
\* before any iterator exists, and valid() returns false (!m_iter).
MakeSnapshotBad ==
    /\ spc \in {"none", "done", "scanned"} /\ searches < MaxSearches
    /\ query' = BadQuery /\ plan' = "objects"
    /\ sobjs' = objs /\ todo' = {}
    /\ serr' = "BAD_SEARCH" /\ results' = {} /\ written' = {}
    /\ spc' = "done" /\ searches' = searches + 1
    /\ UNCHANGED <<storeVars, ritems, rout>>

-----------------------------------------------------------------------------
(* snapshot::valid, one iteration of its loop per step, and next().       *)

Less(a, b) == a[1] < b[1] \/ (a[1] = b[1] /\ a[2] < b[2])
\* The iterator's current key.
Current == CHOOSE x \in todo : \A y \in todo : ~Less(y, x)

\* m_iter->Next().
Advance(t) == t \ {CHOOSE x \in t : \A y \in t : ~Less(y, x)}

\* The live Get of the current candidate (no opts.snapshot).
Fetched == objs[Current[2]]

\* Get returns NotFound: m_error = CORRUPTION, valid() returns false.
GetNotFound ==
    /\ spc = "valid" /\ todo # {} /\ Fetched = Absent
    /\ serr' = "CORRUPTION" /\ spc' = "done"
    /\ UNCHANGED <<storeVars, query, plan, sobjs, todo, results, written, searches, ritems, rout>>

\* Get fails in the engine (IsIOError, or a status valid() does not know):
\* m_error = IO_ERROR or LEVELDB_ERROR, valid() returns false.  The model's
\* store is never corrupt, so IsCorruption and decode failures do not occur.
GetFails ==
    /\ spc = "valid" /\ todo # {}
    /\ serr' \in {"IO_ERROR", "LEVELDB_ERROR"} /\ spc' = "done"
    /\ UNCHANGED <<storeVars, query, plan, sobjs, todo, results, written, searches, ritems, rout>>

\* The fetched object passes every check: valid() returns true.
Yield ==
    /\ spc = "valid" /\ todo # {} /\ Fetched # Absent
    /\ Passes(query, Current[2], Fetched)
    /\ results' = results \cup {<<Current[2], Fetched>>}
    /\ spc' = "yielded"
    /\ UNCHANGED <<storeVars, query, plan, sobjs, todo, serr, written, searches, ritems, rout>>

\* The fetched object fails a check: m_iter->Next() and loop.
Skip ==
    /\ spc = "valid" /\ todo # {} /\ Fetched # Absent
    /\ ~Passes(query, Current[2], Fetched)
    /\ todo' = Advance(todo)
    /\ UNCHANGED <<storeVars, spc, query, plan, sobjs, serr, results, written, searches, ritems, rout>>

\* The iterator is exhausted (or past m_range.limit): valid() returns false.
Exhausted ==
    /\ spc = "valid" /\ todo = {}
    /\ spc' = "done"
    /\ UNCHANGED <<storeVars, query, plan, sobjs, todo, serr, results, written, searches, ritems, rout>>

\* snapshot::next() after a result: m_iter->Next(), then valid() again.
NextCall ==
    /\ spc = "yielded"
    /\ todo' = Advance(todo) /\ spc' = "valid"
    /\ UNCHANGED <<storeVars, query, plan, sobjs, serr, results, written, searches, ritems, rout>>

ValidStep == GetNotFound \/ Yield \/ Skip \/ Exhausted

\* valid() as it runs on a disk that may fail.
ValidStepOrFault == ValidStep \/ GetFails

\* A writer step of RegionStore; the ghost records the keys it changes.
WriterStep ==
    /\ RS!Next
    /\ written' = written \cup {k \in Keys : objs'[k] # objs[k]}
    /\ UNCHANGED <<spc, query, plan, sobjs, todo, serr, results, searches, ritems, rout>>

-----------------------------------------------------------------------------
(* make_raw_snapshot, make_region_iterator and region_iterator.           *)

\* The value of every object of another region (not changed by writers).
OtherVal == CHOOSE v \in RS!Value : TRUE

\* The snapshot's 'o' family from the seek key 'o' + big-endian(region) on,
\* as <<region, key, value>> in key order.
ObjectItemsFrom(r) ==
    {<<Region, k, objs[k]>> : k \in {k \in Keys : objs[k] # Absent}}
    \cup {<<o[1], o[2], OtherVal>> : o \in {o \in OtherObjs : o[1] >= r}}

\* make_raw_snapshot() and make_region_iterator(riter, snap, ri): an
\* iterator bound to the snapshot, sought to the region's first key.
MakeRegionIterator ==
    /\ spc \in {"none", "done", "scanned"} /\ searches < MaxSearches
    /\ sobjs' = objs
    /\ ritems' = ObjectItemsFrom(Region)
    /\ rout' = {}
    /\ spc' = "scan" /\ searches' = searches + 1
    /\ UNCHANGED <<storeVars, query, plan, todo, serr, results, written>>

\* The item at the iterator.
RCurrent == CHOOSE x \in ritems : \A y \in ritems : ~Less(y, x)

\* Mutant: valid() checks the family byte and not the region id.
InRegionAnyRegion(x) == TRUE

\* valid(): b == 'o' && ri == m_region.
InRegion(x) == x[1] = Region

\* valid() is true: the caller unpacks key and value from the iterator
\* (both read through the snapshot) and calls next().
RegionYield ==
    /\ spc = "scan" /\ ritems # {} /\ InRegion(RCurrent)
    /\ rout' = rout \cup {RCurrent}
    /\ ritems' = ritems \ {RCurrent}
    /\ UNCHANGED <<storeVars, spc, query, plan, sobjs, todo, serr, results,
                   written, searches>>

\* valid() is false: the iterator is exhausted or left the region.
RegionEnd ==
    /\ spc = "scan" /\ (ritems = {} \/ ~InRegion(RCurrent))
    /\ spc' = "scanned"
    /\ UNCHANGED <<storeVars, query, plan, sobjs, todo, serr, results, written,
                   searches, ritems, rout>>

RegionStep == RegionYield \/ RegionEnd

-----------------------------------------------------------------------------
Init ==
    /\ RS!Init
    /\ spc = "none" /\ query = NoQuery /\ plan = "objects"
    /\ sobjs = objs /\ todo = {} /\ serr = "SUCCESS"
    /\ results = {} /\ written = {} /\ searches = 0
    /\ ritems = {} /\ rout = {}

Next ==
    \/ WriterStep
    \/ \E q \in Queries : \E p \in Plans(q) : MakeSnapshot(q, p)
    \/ MakeSnapshotBad
    \/ ValidStepOrFault
    \/ NextCall
    \/ MakeRegionIterator \/ RegionStep

\* Only safety is checked of a search, so no fairness is assumed.
Spec == Init /\ [][Next]_vars

-----------------------------------------------------------------------------
(* Properties.                                                             *)

\* A search that ends without error returned every object of the snapshot
\* that satisfies the predicate and that no writer changed meanwhile: the
\* planned range (index range bounds with bump_index, or the object range)
\* covers every match, whichever plan make_snapshot picked.
SearchComplete ==
    spc = "done" /\ serr = "SUCCESS" =>
        \A k \in Keys \ written :
            sobjs[k] # Absent /\ Passes(query, k, sobjs[k]) =>
                \E r \in results : r[1] = k

\* A search reports CORRUPTION only for a store that is corrupt; the model's
\* store never is (spec 4.4 and 6: callers treat CORRUPTION as node-fatal).
NoSpuriousCorruption == serr # "CORRUPTION"

\* A region scan yields exactly the region's objects as of the snapshot,
\* whatever writers commit while it runs, and nothing of the neighbouring
\* region that follows it in the 'o' family.
RegionScanExact ==
    spc = "scanned" =>
        rout = {<<Region, k, sobjs[k]>> : k \in {k \in Keys : sobjs[k] # Absent}}

=============================================================================
