------------------------------- MODULE AckedLog -------------------------------
(***************************************************************************)
(* The acked family of datalayer (src/daemon/datalayer.cc): mark_acked,   *)
(* the acked record of put/del/overput, check_acked, max_seq_id and       *)
(* clear_acked.                                                            *)
(*                                                                         *)
(* An acked key is encode_acked(ri, reg_id, x) = prefix + ri + reg_id + x *)
(* (spec 6), compared byte-wise, i.e. as the tuple <<ri, reg_id, x>>, and *)
(* writers store x = UINT64_MAX - seq_id.  Region ids and sequence ids    *)
(* keep their unsigned wrap-around at a reduced width: both range over    *)
(* 0..2^Width - 1.                                                         *)
(***************************************************************************)
EXTENDS Naturals, FiniteSets, FiniteSetsExt

CONSTANTS
    Width,     \* bits of a region id and of a sequence id
    Regions,   \* region ids in play
    Seqs       \* sequence ids callers ack

U64Max == 2^Width - 1
U64 == 0..U64Max
\* region_id(reg_id.get() + 1): unsigned addition.
RegionSucc(r) == (r + 1) % (U64Max + 1)

ASSUME Regions \subseteq U64 /\ Seqs \subseteq U64 /\ Width \in Nat \ {0}

AKey == U64 \X U64 \X U64

VARIABLES
    acked,   \* acked keys present in leveldb
    last     \* the last operation and its arguments (for the properties)

vars == <<acked, last>>

None == [op |-> "none"]
TypeOK ==
    /\ acked \subseteq AKey
    /\ last \in {None}
                \cup [op : {"mark"}, ri : Regions, reg : Regions, seq : Seqs]
                \cup [op : {"clear"}, reg : Regions, seq : Seqs]

KeyLess(a, b) ==
    \/ a[1] < b[1]
    \/ a[1] = b[1] /\ a[2] < b[2]
    \/ a[1] = b[1] /\ a[2] = b[2] /\ a[3] < b[3]

\* it->Seek(k) on the acked keys: the first at or after k, if any.
SeekFrom(k) ==
    {x \in acked : /\ ~KeyLess(x, k)
                   /\ \A y \in acked : ~KeyLess(y, k) => ~KeyLess(y, x)}

-----------------------------------------------------------------------------
\* seq_id = UINT64_MAX - seq_id; encode_acked(ri, reg_id, seq_id, ...)
AckKey(ri, reg, seq) == <<ri, reg, U64Max - seq>>

\* mark_acked(ri, reg_id, seq_id), and the acked record put/del/overput add
\* to their batch when seq_id != 0.
MarkAcked(ri, reg, seq) ==
    /\ acked' = acked \cup {AckKey(ri, reg, seq)}
    /\ last' = [op |-> "mark", ri |-> ri, reg |-> reg, seq |-> seq]

\* check_acked(ri, reg_id, seq_id): a point Get of the inverted key.
CheckAcked(ri, reg, seq) == <<ri, reg, U64Max - seq>> \in acked

\* Mutant: max_seq_id returns the stored seq id without re-inverting it.
DecodedSeqRaw(x) == x

\* *seq_id = UINT64_MAX - tmp_seq_id: undo the inversion of the stored key.
DecodedSeq(x) == U64Max - x

\* max_seq_id(reg_id): Seek to encode_acked(reg_id, reg_id, 0) and decode
\* the first key found; 0 if there is none or it belongs to another pair.
MaxSeqId(reg) ==
    LET found == SeekFrom(<<reg, reg, 0>>)
    IN IF found = {} THEN 0
       ELSE LET k == CHOOSE x \in found : TRUE
            IN IF k[1] # reg \/ k[2] # reg THEN 0 ELSE DecodedSeq(k[3])

\* tmp_seq_id < seq_id, on the decoded (re-inverted) seq id.
Below(x, seq) == U64Max - x < seq

\* clear_acked(reg_id, seq_id): iterate from encode_acked(0, reg_id, 0) up to
\* (excluding) encode_acked(0, reg_id + 1, 0), deleting every key whose
\* reg_id matches and whose seq id is below seq_id.
ClearAcked(reg, seq) ==
    LET lo == <<0, reg, 0>>
        hi == <<0, RegionSucc(reg), 0>>
        scanned == {x \in acked : ~KeyLess(x, lo) /\ KeyLess(x, hi)}
    IN /\ acked' = acked \ {x \in scanned : x[2] = reg /\ Below(x[3], seq)}
       /\ last' = [op |-> "clear", reg |-> reg, seq |-> seq]

-----------------------------------------------------------------------------
Init == acked = {} /\ last = None

Next ==
    \/ \E ri, reg \in Regions, seq \in Seqs : MarkAcked(ri, reg, seq)
    \/ \E reg \in Regions, seq \in Seqs : ClearAcked(reg, seq)

Spec == Init /\ [][Next]_vars

-----------------------------------------------------------------------------
(* Properties.                                                             *)

\* The sequence ids acked for the pair (ri, reg_id).
AckedSeqs(ri, reg) == {s \in U64 : CheckAcked(ri, reg, s)}

\* max_seq_id(r) is the highest sequence id acked for (r, r), or 0: the
\* single Seek relies on the inverted encoding sorting the newest first.
MaxSeqIdIsHighest ==
    \A r \in Regions : MaxSeqId(r) = Max(AckedSeqs(r, r) \cup {0})

\* After clear_acked(reg_id, s) no ack of point-leader region reg_id below s
\* remains (spec 4.3: "deletes all acked markers for a region below a
\* threshold").
ClearRemovesAllBelow ==
    last.op = "clear" =>
        \A x \in acked : x[2] = last.reg => U64Max - x[3] >= last.seq

=============================================================================
