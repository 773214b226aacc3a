------------------------------ MODULE Datalayer ------------------------------
(***************************************************************************)
(* The write path of RegionStore composed with the acked family of        *)
(* AckedLog (src/daemon/datalayer.cc): put, overput and del called with a *)
(* non-zero seq_id put the acked record encode_acked(ri, reg_id,          *)
(* UINT64_MAX - seq_id) into the same WriteBatch as the object, its index *)
(* delta and its transfer record; uncertain_put and uncertain_del pass    *)
(* seq_id 0 and ack nothing.  max_seq_id is read while batches of         *)
(* concurrent threads land in any order or fail.                          *)
(*                                                                         *)
(* The sequence ids the caller passes are unique and increase in the     *)
(* order the operations are issued; the model uses the operation's        *)
(* position in that order, the number m_counters hands it.                *)
(***************************************************************************)
EXTENDS RegionStore

CONSTANTS
    Width,        \* bits of a region id and of a sequence id
    Regions,      \* region ids in play
    Leaders,      \* point-leader regions of the operations written here
    StoreRegion,  \* ri, the region the store holds
    PriorAcks     \* acked keys already in the store at the start

VARIABLES
    acked,    \* the acked family in leveldb
    ack       \* per thread: the acked key of its built batch, or NoAck

AL == INSTANCE AckedLog WITH Seqs <- 1..MaxSeq, last <- [op |-> "none"]

NoAck == <<>>
dvars == <<acked, ack>>
allVars == <<vars, dvars>>

ASSUME /\ StoreRegion \in Regions /\ Leaders \subseteq Regions
       /\ MaxSeq <= AL!U64Max /\ PriorAcks \subseteq AL!AKey

-----------------------------------------------------------------------------
\* put/overput/del with seq_id != 0: encode_acked(ri, reg_id,
\* UINT64_MAX - seq_id) is added to the batch.
AckInBatch(t, reg) ==
    /\ ack' = [ack EXCEPT ![t] = AL!AckKey(StoreRegion, reg, count)]
    /\ UNCHANGED acked

\* seq_id == 0: the batch carries no acked record.
NoAckInBatch(t) ==
    /\ ack' = [ack EXCEPT ![t] = NoAck]
    /\ UNCHANGED acked

\* The batch's records of the acked family.
AckRecords(t) == IF ack[t] = NoAck THEN {} ELSE {ack[t]}

\* m_db->Write of the whole batch: object, index, transfer and acked
\* records become visible together.
WriteBatch(t) ==
    /\ Write(t)
    /\ acked' = acked \cup AckRecords(t)
    /\ ack' = [ack EXCEPT ![t] = NoAck]

\* A failed Write applies none of them.
WriteBatchFails(t) ==
    /\ WriteFails(t)
    /\ ack' = [ack EXCEPT ![t] = NoAck]
    /\ UNCHANGED acked

-----------------------------------------------------------------------------
DInit ==
    /\ Init
    /\ acked = PriorAcks
    /\ ack = [t \in Threads |-> NoAck]

DNext ==
    \/ \E t \in Threads :
          \/ \E k \in Keys :
                \/ \E reg \in Leaders :
                      \/ Del(t, k) /\ AckInBatch(t, reg)
                      \/ \E v \in Value :
                            (Put(t, k, v) \/ Overput(t, k, v)) /\ AckInBatch(t, reg)
                \/ UncertainDel(t, k) /\ NoAckInBatch(t)
                \/ \E v \in Value : UncertainPut(t, k, v) /\ NoAckInBatch(t)
          \/ WriteBatch(t) \/ WriteBatchFails(t)
    \/ GetTransfer /\ UNCHANGED dvars
    \/ Finished /\ UNCHANGED dvars

DSpec == DInit /\ [][DNext]_allVars

-----------------------------------------------------------------------------
(* Properties.                                                             *)

\* max_seq_id(reg_id) is the highest sequence id acked for (reg_id,
\* reg_id) by the batches that have landed, in whatever order concurrent
\* put/overput/del batches reached leveldb and whichever of them failed:
\* the single Seek finds the newest ack because of the inverted encoding.
AckedMaxIsHighest == AL!MaxSeqIdIsHighest

=============================================================================
