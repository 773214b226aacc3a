----------------------------- MODULE RegionStore -----------------------------
(***************************************************************************)
(* The write path of datalayer (src/daemon/datalayer.cc): put, del,       *)
(* overput, uncertain_put and uncertain_del on one region under capture.  *)
(*                                                                         *)
(* Each operation builds a leveldb::WriteBatch (object, index delta from  *)
(* create_index_changes, transfer record numbered by m_counters.lookup)   *)
(* and then submits it with m_db->Write.  Building and writing are two    *)
(* steps, so batches of concurrent threads reach the store in any order,  *)
(* and a Write may fail after the counter was consumed.                    *)
(*                                                                         *)
(* The caller (the replication layer) serialises the operations on one    *)
(* key and passes the stored old value to overput and del; different keys *)
(* are written concurrently.  Versions, sequence ids (the acked record,   *)
(* see AckedLog) and byte encodings are abstracted away.                  *)
(***************************************************************************)
EXTENDS Naturals, FiniteSets, FiniteSetsExt

CONSTANTS
    Keys,          \* object keys of the region
    Attrs,         \* non-key attributes of the schema
    IndexedAttrs,  \* attributes the region's subspace indexes
    Vals,          \* attribute values
    Threads,       \* foreground threads
    MaxSeq,        \* transfer sequence numbers handed out (bound)
    Absent         \* no object / a tombstone transfer record

ASSUME IndexedAttrs \subseteq Attrs /\ MaxSeq \in Nat /\ Absent \notin [Attrs -> Vals]

Value == [Attrs -> Vals]
ObjOrAbsent == Value \cup {Absent}
IndexEntry == IndexedAttrs \X Vals \X Keys
\* The payload of a transfer record: encode_key_value(key, value-or-NULL).
TRec == [seq : 1..MaxSeq, key : Keys, val : ObjOrAbsent]
\* A batch built and not yet written.
Batch == [key : Keys, obj : ObjOrAbsent, idel : SUBSET IndexEntry,
          iadd : SUBSET IndexEntry, trec : TRec]

VARIABLES
    objs,    \* object family: key -> stored value
    index,   \* index family: the set of <<attr, value, key>> entries
    tlog,    \* transfer family of the region's capture
    count,   \* m_counters entry of the region: next sequence number
    pc,      \* per thread: "idle" or "built" (batch waiting for Write)
    batch,   \* per thread: the batch it built
    next,    \* the state transfer consumer: next seq_no to get_transfer
    replica  \* the consumer's copy: key -> value replayed so far

consumerVars == <<next, replica>>
vars == <<objs, index, tlog, count, pc, batch, consumerVars>>

TypeOK ==
    /\ objs \in [Keys -> ObjOrAbsent]
    /\ index \subseteq IndexEntry
    /\ tlog \subseteq TRec
    /\ count \in 1..(MaxSeq + 1)
    /\ pc \in [Threads -> {"idle", "built"}]
    /\ \A t \in Threads : pc[t] = "built" => batch[t] \in Batch
    /\ next \in 1..(MaxSeq + 1)
    /\ replica \in [Keys -> ObjOrAbsent]

-----------------------------------------------------------------------------
(* create_index_changes (declared in datalayer_encodings.h).              *)

\* Index entries of an object for the indexed attributes.
Entries(k, o) ==
    IF o = Absent THEN {} ELSE {<<a, o[a], k>> : a \in IndexedAttrs}

\* Mutant: an overwrite deletes nothing (old entries only on pure delete).
IndexDeletesOnlyOnDel(k, old, new) ==
    IF new = Absent THEN Entries(k, old) ELSE {}

\* The deletes: the old value of every indexed attribute that changed.
IndexDeletes(k, old, new) ==
    {e \in Entries(k, old) : new = Absent \/ new[e[1]] # e[2]}

\* The inserts: the new value of every indexed attribute that changed.
IndexInserts(k, old, new) ==
    {e \in Entries(k, new) : old = Absent \/ old[e[1]] # e[2]}

-----------------------------------------------------------------------------
(* Building a batch (put, del, overput) and writing it.                    *)

\* Mutant: del logs the old value instead of a tombstone.
DelRecordWithOld(k, old) == old

\* encode_key_value(key, NULL, 0) in del: a tombstone.
DelRecord(k, old) == Absent

\* The batch of an operation on key k taking old to new and logging the
\* transfer payload logged; the capture's counter is consumed by
\* m_counters.lookup while building.
Build(t, k, old, new, logged) ==
    /\ count <= MaxSeq
    /\ batch' = [batch EXCEPT ![t] =
                   [key |-> k, obj |-> new,
                    idel |-> IndexDeletes(k, old, new),
                    iadd |-> IndexInserts(k, old, new),
                    trec |-> [seq |-> count, key |-> k, val |-> logged]]]
    /\ count' = count + 1
    /\ pc' = [pc EXCEPT ![t] = "built"]
    /\ UNCHANGED <<objs, index, tlog, consumerVars>>

\* A thread may start an operation on a key no other thread is writing.
Free(t, k) ==
    /\ pc[t] = "idle"
    /\ \A u \in Threads : pc[u] = "built" => batch[u].key # k

\* datalayer::put: insert of a key the caller knows to be absent.
Put(t, k, v) == Free(t, k) /\ objs[k] = Absent /\ Build(t, k, Absent, v, v)

\* datalayer::overput: replace the stored old value.
Overput(t, k, v) ==
    Free(t, k) /\ objs[k] # Absent /\ Build(t, k, objs[k], v, v)

\* datalayer::del: delete the stored old value, logging a tombstone.
Del(t, k) ==
    /\ Free(t, k) /\ objs[k] # Absent
    /\ Build(t, k, objs[k], Absent, DelRecord(k, objs[k]))

\* datalayer::uncertain_put: Get the key, then overput the value read, or
\* put when the Get returned NotFound.
UncertainPut(t, k, v) ==
    /\ Free(t, k)
    /\ Build(t, k, objs[k], v, v)

\* datalayer::uncertain_del: del of the value read; SUCCESS without a
\* batch when the key is absent.
UncertainDel(t, k) ==
    /\ Free(t, k)
    /\ \/ objs[k] # Absent /\ Del(t, k)
       \/ objs[k] = Absent /\ UNCHANGED vars

\* m_db->Write(opts, &updates) succeeds: the whole batch becomes visible.
Write(t) ==
    /\ pc[t] = "built"
    /\ LET b == batch[t] IN
       /\ objs' = [objs EXCEPT ![b.key] = b.obj]
       /\ index' = (index \ b.idel) \cup b.iadd
       /\ tlog' = {r \in tlog : r.seq # b.trec.seq} \cup {b.trec}
    /\ pc' = [pc EXCEPT ![t] = "idle"]
    /\ UNCHANGED <<count, batch, consumerVars>>

\* m_db->Write fails (IO_ERROR, CORRUPTION, ...): nothing is applied, but
\* the sequence number taken while building is gone.
WriteFails(t) ==
    /\ pc[t] = "built"
    /\ pc' = [pc EXCEPT ![t] = "idle"]
    /\ UNCHANGED <<objs, index, tlog, count, batch, consumerVars>>

-----------------------------------------------------------------------------
(* The consumer of state transfer (outside src/) reads the capture's log  *)
(* with get_transfer(ri, 1), get_transfer(ri, 2), ... and applies each     *)
(* record to its copy: a put for a record with a value, a delete for a     *)
(* tombstone.  On NOT_FOUND, or an error, get_transfer changes nothing and *)
(* the consumer asks for the same seq_no again later.                      *)

\* datalayer::get_transfer(ri, next) finds the record encode_transfer(cid,
\* next) and decode_key_value yields (key, has_value, value).
GetTransfer ==
    /\ next <= MaxSeq
    /\ \E r \in tlog :
          /\ r.seq = next
          /\ replica' = [replica EXCEPT ![r.key] = r.val]
          /\ next' = next + 1
    /\ UNCHANGED <<objs, index, tlog, count, pc, batch>>

\* Once the counter bound is reached every thread drains and the store
\* stops changing: the final states stutter.
Finished ==
    /\ count > MaxSeq /\ \A t \in Threads : pc[t] = "idle"
    /\ UNCHANGED vars

-----------------------------------------------------------------------------
Init ==
    /\ objs = [k \in Keys |-> Absent]
    /\ index = {}
    /\ tlog = {}
    /\ count = 1
    /\ pc = [t \in Threads |-> "idle"]
    /\ batch = [t \in Threads |-> Absent]
    /\ next = 1
    /\ replica = [k \in Keys |-> Absent]

Next ==
    \E t \in Threads :
        \/ \E k \in Keys :
              \/ Del(t, k) \/ UncertainDel(t, k)
              \/ \E v \in Value : Put(t, k, v) \/ Overput(t, k, v)
                                             \/ UncertainPut(t, k, v)
        \/ Write(t) \/ WriteFails(t)
    \/ GetTransfer
    \/ Finished

Spec == Init /\ [][Next]_vars

-----------------------------------------------------------------------------
(* Properties.                                                             *)

\* An index entry exists for value v of attribute a on key k iff the live
\* object of k has a = v (spec 3), whatever order concurrent batches of
\* put/overput/del/uncertain_* reach the store in.
IndexConsistent ==
    index = UNION {Entries(k, objs[k]) : k \in Keys}

\* The state transfer consumer's copy of a key equals the store once the
\* consumer has replayed, in seq_no order, every record of the key and no
\* put/overput/del/uncertain_* of the key is between building its batch and
\* its Write: the transfer log alone reproduces the region, whatever order
\* batches of other keys landed in and whichever Writes failed.
TransferReplayMatches ==
    \A k \in Keys :
        /\ \A r \in tlog : r.key = k => r.seq < next
        /\ \A t \in Threads : pc[t] = "built" => batch[t].key # k
        => replica[k] = objs[k]

\* Transfer records are never skipped on write (spec 3): the sequence
\* numbers present form 1..n, so a consumer reading get_transfer(1),
\* get_transfer(2), ... until NOT_FOUND sees every record.
TransferLogGapless ==
    \A r \in tlog : \A s \in 1..r.seq : \E q \in tlog : q.seq = s

=============================================================================
