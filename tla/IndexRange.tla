------------------------------ MODULE IndexRange ------------------------------
(***************************************************************************)
(* The index range make_snapshot (src/daemon/datalayer.cc) builds for a   *)
(* range predicate on a string attribute, and the index entries that fall *)
(* inside it.                                                              *)
(*                                                                         *)
(* Keys are byte strings over 0..MaxByte compared byte-wise, as leveldb   *)
(* does.  encode_index and bump_index are declared in                     *)
(* datalayer_encodings.h and implemented outside src/; their layout is    *)
(* the one of spec 3 and 6: an index entry is the index prefix of         *)
(* (region, attribute) followed by the raw value bytes and then the       *)
(* object key, with no terminator between them; bump_index increments    *)
(* the last byte, carrying into the bytes before it.  The index prefix is *)
(* one byte, Attr, so that a carry out of the value reaches it.           *)
(*                                                                         *)
(* The state is the input: the predicate's bounds and one index entry     *)
(* (value, key); every combination up to MaxLen bytes is an initial state *)
(* and no step changes it.                                                 *)
(***************************************************************************)
EXTENDS Naturals, Sequences, SequencesExt

CONSTANTS
    MaxByte,   \* largest byte value (0xff in the code)
    MaxLen,    \* longest value and key, in bytes
    Attr,      \* the index prefix byte of the searched attribute
    NoBound    \* has_start or has_end is false

ASSUME Attr < MaxByte

Bytes == 0..MaxByte
Strings == BoundedSeq(Bytes, MaxLen)

VARIABLES
    lo, hi,   \* ranges[i].start and ranges[i].end, or NoBound
    v, k      \* an index entry: its attribute value and object key

vars == <<lo, hi, v, k>>

\* Byte-wise comparison of two keys (leveldb's default comparator).
ByteLess(s, t) ==
    \/ IsStrictPrefix(s, t)
    \/ \E i \in 1..Len(s) :
          /\ i <= Len(t)
          /\ SubSeq(s, 1, i - 1) = SubSeq(t, 1, i - 1)
          /\ s[i] < t[i]

-----------------------------------------------------------------------------
\* encode_index(ri, attr): the floor key of the attribute's entries.
IndexFloor(a) == <<a>>

\* encode_index(ri, attr, STRING, value): the raw bytes of the value.
IndexValue(a, val) == <<a>> \o val

\* encode_index(ri, attr, STRING, value, key): value, then key.
IndexEntry(a, val, key) == <<a>> \o val \o key

\* bump_index: add one to the key as a big-endian number, dropping the
\* trailing bytes that carry.
RECURSIVE BumpIndex(_)
BumpIndex(s) ==
    IF s[Len(s)] < MaxByte THEN [s EXCEPT ![Len(s)] = @ + 1]
    ELSE BumpIndex(SubSeq(s, 1, Len(s) - 1))

\* The range's start: encode_index of start, or the attribute's floor.
RangeStart ==
    IF lo = NoBound THEN IndexFloor(Attr) ELSE IndexValue(Attr, lo)

\* The range's limit: bump_index(encode_index(end)) (new_end is the whole
\* end value), or the floor of the next attribute.
RangeLimit ==
    IF hi = NoBound THEN IndexFloor(Attr + 1)
    ELSE BumpIndex(IndexValue(Attr, hi))

\* The index iterator visits the entry: start <= entry < limit.
Visited(val, key) ==
    LET e == IndexEntry(Attr, val, key)
    IN ~ByteLess(e, RangeStart) /\ ByteLess(e, RangeLimit)

-----------------------------------------------------------------------------
Init ==
    /\ lo \in Strings \cup {NoBound} /\ hi \in Strings \cup {NoBound}
    /\ lo # NoBound /\ hi # NoBound => ~ByteLess(hi, lo)
    /\ v \in Strings /\ k \in Strings

Next == UNCHANGED vars

Spec == Init /\ [][Next]_vars

-----------------------------------------------------------------------------
(* Properties.                                                             *)

\* The value satisfies start <= value <= end in byte order.
Matches(val) ==
    /\ lo = NoBound \/ ~ByteLess(val, lo)
    /\ hi = NoBound \/ ~ByteLess(hi, val)

\* Every index entry whose value satisfies the predicate lies inside the
\* range make_snapshot iterates (spec 4.4 step 2: the upper bound is the
\* end value "bumped to its successor"; spec 3: string index keys need no
\* terminator "because string index keys are bounded by the following
\* primary-key field").
StringRangeComplete == Matches(v) => Visited(v, k)

=============================================================================
