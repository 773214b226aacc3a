# TLA+ models of the HyperDex datalayer

This directory holds TLA+ models of the storage layer in
`src/daemon/datalayer.cc`, together with the TLC configurations that check them.
The datalayer maps HyperDex objects, secondary indices, acked-operation markers
and the state-transfer log onto one LevelDB key space. Each model is written from
the code. Where the code calls helpers that are not under `src/`
(`datalayer_encodings.cc`, `counter_map`), the model follows `spec.md`, and
`PROJECT.json` marks those definitions `spec_modelled`.

## 1. Inventory

| Component | Source | State it keeps | Operations |
|---|---|---|---|
| Key-space encoder/decoder | `datalayer_encodings.h` (declarations only) | none | `encode_key/value`, `encode_acked`, `encode_transfer`, `encode_index`, `bump_index`, parsers |
| Index maintainer | `create_index_changes` (declared in `datalayer_encodings.h`) | none: it appends to a batch | index delta from the old and new values |
| Region store | `datalayer.cc:441-859, 1086-1131` | object, index and transfer families in LevelDB; `m_counters` (the next transfer number of each captured region) | `get`, `put`, `del`, `overput`, `uncertain_put`, `uncertain_del`, `get_transfer` |
| Acked log | `datalayer.cc:1133-1307` | acked family | `check_acked`, `mark_acked`, `max_seq_id`, `clear_acked`; the acked record of `put`/`del`/`overput` |
| Snapshot planner/iterator | `datalayer.cc:861-1058, 1579-1746` | a snapshot, the chosen range, an iterator and `m_error` | `make_snapshot`, `snapshot::valid/next/unpack` |
| Region iterator | `datalayer.cc:1060-1084, 1499-1577` | a snapshot and an iterator | `make_region_iterator`, `valid/next/unpack/key` |
| Cleaner and pause handshake | `datalayer.cc:391-439, 1309-1463` | `m_need_cleaning`, `m_shutdown`, `m_need_pause`, `m_paused`, `m_state_transfer_captures`, under `m_block_cleaner` with two condition variables | `pause`, `unpause`, `reconfigure`, `request_wipe`, `cleaner` (a thread), `shutdown` |
| Process metadata | `datalayer.cc:89-389` | the `hyperdex`, `dirty` and `state` keys (written with sync) | `setup`, `initialize`, `save_state`, `clear_dirty`, `teardown` |
| Client description | `src/client/description.h` | reference count and messages | declaration only |
| Benchmark report | `src/scripts/gen_data.cpp` | none | reads a log and prints percentages |

**How the components interact.**

- Foreground threads call the region store. Each write builds one
  `leveldb::WriteBatch`, which holds:
  - the object;
  - the index delta, computed by `create_index_changes`;
  - the acked record, when `seq_id != 0`;
  - the transfer record, when `m_counters.lookup` says the region is captured.

  The thread then calls `Write`. Building and writing are separate steps, and
  nothing is locked between them.
- Searches take a LevelDB snapshot. They iterate an index range or the region's
  object range inside that snapshot, and fetch each object with a point `Get`.
- The cleaner thread shares five flags and sets with the threads that call
  `pause`, `unpause`, `reconfigure`, `request_wipe` and `shutdown`. All of this
  shared state is behind one mutex.
- Reconfiguration follows a fixed order:
  1. `pause()`;
  2. `reconfigure()` waits until the cleaner reports `m_paused`;
  3. the new configuration is installed (outside `src/`);
  4. `unpause()` sets `m_need_cleaning`.
- The cleaner reads the configuration (`is_captured_region`) during a sweep. It
  reports wiped captures to the state-transfer manager through `report_wiped`.

**Hard behaviours.** These are listed under `hazards` in `PROJECT.json`, each at
the line where it bites:

- the condition-variable handshake between the cleaner and reconfiguration:
  lost wake-ups, and sweeping during a reconfiguration;
- the cleaner's single-pass classification: `cached_cid` and the
  `report_wiped` calls;
- transfer sequence numbers taken before the batch is written, with concurrent
  writers and failed writes;
- the `UINT64_MAX - seq` encoding and the `reg_id + 1` wrap in the acked family;
- `snapshot::valid` reading the live database instead of its snapshot;
- synchronous metadata writes that a crash can interrupt.

**What makes each component correct:**

- **Cleaner:**
  - no sweep runs while a configuration is installed;
  - only records of obsolete or wipe-requested captures are deleted;
  - every wipe request is reported once;
  - obsolete records are eventually deleted;
  - reconfiguration and shutdown always complete.
- **Region store:**
  - indices match the objects exactly;
  - the transfer log replays to the objects;
  - transfer numbers have no holes and are never reordered.
- **Acked log:**
  - `max_seq_id` returns the highest ack;
  - `clear_acked` removes exactly the older acks of the region.
- **Snapshot:**
  - a search returns exactly the snapshot's matching objects;
  - it never reports `CORRUPTION` on a consistent store.
- **Metadata:**
  - a restart after a clean shutdown always succeeds;
  - a crashed run is noticed on restart.

## 2. Plan

1. **Cleaner** (done): the cleaner thread and the pause, reconfigure,
   request-wipe and shutdown handshake. The state-transfer log is the most
   concurrent part of the code.
2. **RegionStore** (done): the write path with concurrent threads, failed
   writes and the transfer counter.
3. **AckedLog** (done): the acked key order at a reduced integer width.
4. **Snapshot** (done):
   - `snapshot::valid` iterating a frozen copy of `objs`/`index` while
     RegionStore writers run. It shows that the point `Get` ignores the
     snapshot.
5. **Composition** (done, `Datalayer`): RegionStore's concurrent writers with
   the acked record each `put`/`del`/`overput` batch carries, checked against
   `max_seq_id`. The cleaner composes with the writers through the abstraction of
   `AppendTransfer` (see "Not modelled").
6. **Metadata** (done): `setup` / `initialize` / `save_state` / `clear_dirty` across
   crashes at every synchronous write.
7. **Refinement** (done, `TransferGC`): the abstract transfer-log collector,
   implemented by `Cleaner` under a refinement mapping and checked as a PROPERTY.
8. **Region iterator** (done, in `Search`): `make_region_iterator` and
   `region_iterator`, with neighbouring regions' objects in the same family.
9. **String index ranges** (done, `IndexRange`): the byte-level bounds of a
   string predicate's index range.

## 3. Modules and runs

### Cleaner (`Cleaner.tla`, `MC_Cleaner.tla`)

**State.** The four flags and `stcs` (`m_state_transfer_captures`) are the
mutex-protected members. The model also keeps:

- `cleaner`: the cleaner's program counter;
- `local`, `cached`, `it` and `snap`: the sweep's local set, `cached_cid`,
  the iterator and its implicit snapshot;
- `tlog`: the live transfer keys `<<cid, seq>>`;
- `count`: `m_counters`;
- `captured` and `retired`: the configuration;
- `recon`: the reconfiguring thread's program counter;
- `taken` and `reports`: ghost variables for the properties.

**Actions.** Every locked section is one action:

- `CleanerCheck` is one pass of the wait loop. It either waits (setting
  `m_paused` and signalling the reconfigurer), exits on shutdown, or swaps
  in the wipe requests and starts a sweep.
- The sweep is split into `ScanDelete`, `ScanCross` (report the cached capture,
  then classify the new one) and `ScanEnd`.
- `ScanDeleteFails` is the fault branch of the same step (`datalayer.cc:1391-1412`).
  `m_db->Delete` returns corruption, an I/O error or another error, the cleaner
  logs it and calls `it->Next()`, and the record stays in the log. A ghost
  variable, `failed`, records the captures for which this sweep hit such an error.
  Any delete may fail. The number of sweeps is already bounded by the
  reconfigurations and wipe requests, so the faults need no separate bound.
- `ReportRemaining` is the final loop over the wipe requests the sweep did not
  meet.
- `Pause`, `ReconfigureCheck`, `Reconfigure` and `Unpause` are the
  reconfiguring thread.
- `RequestWipe`, `AppendTransfer` and `Shutdown` are the environment.

A broadcast moves a cleaner in `"waiting"` to `"woken"`. It still holds
`m_paused = TRUE` until it re-acquires the mutex. This matters: a
reconfigurer can pass its check in that window.

**Fairness.** Weak fairness applies to the cleaner's steps (the OS schedules
the thread) and to a reconfiguration already begun (it runs to `unpause`).
Writers, wipe requests and shutdown are not required to happen.

**Bounds.** Three capture ids: two in the initial configuration, plus one that a
reconfiguration can add. Up to 2 records per capture, 2 reconfigurations and
1 wipe request. With a second wipe request the safety properties alone take
about 1.0M states. Together with the liveness check that comes close to the time
limit. A single wipe request still reaches every report path, because
`request_wipe` may name a capture with records or one without.
These bounds reach the following cases:

- a wiped capture followed by live captures;
- a wipe request met mid-scan, or not met at all;
- an append during a sweep;
- a capture removed while records remain;
- a pause requested while the cleaner is sweeping, waiting, or woken but not
  yet running.

| Run | Checks | Result |
|---|---|---|
| `cleaner` | `GCSpec` (Cleaner implements `TransferGC`, see below), `ReconfigurationCompletes`, `ObsoleteTransfersCleaned` (a retired capture's records are eventually all deleted unless shutdown comes first or one of its deletes failed in the last sweep), `CleanerExits` | pass, about 415K distinct states, 2 minutes |
| `cleaner_wipe_report` | `WipeReportedEachSweep` | **violation**: a wipe-requested capture whose records are last in the log is never reported (`datalayer.cc:1427`) |
| `cleaner_duplicate_report` | `ReportedOncePerSweep` | **violation**: `report_wiped(cached_cid)` repeats at every crossing into a live capture (`datalayer.cc:1416`) |

With the fault in the model, the unconditional form of `ObsoleteTransfersCleaned`
("every record of a retired capture is eventually deleted", spec 8) does not hold.
TLC finds a trace where a retired capture's record outlives its last sweep.
The record was the target of a failed `Delete`, and no later `unpause()` or
`request_wipe` happens. Spec 7 accepts this ("recoverable on a later pass").
The checked property therefore excuses a capture in `failed`. It still requires a
sweep after every retirement and a delete of every record the sweep meets.
Retirement is permanent, so the leads-to re-obliges every later state. A later
sweep, from a wipe request or another `unpause()`, must therefore retry the
record. The property also catches the failure path going wrong. With
`ScanDeleteFails` ending the sweep (`break` instead of `continue`), TLC finds it
violated in 41 seconds, through the records of a later capture that the cut-short
sweep never reaches.

### TransferGC (`TransferGC.tla`): the abstract collector and the refinement

`TransferGC` states what the cleaner and the pause handshake promise, without
threads or locks. `owner` says who may read or change the capture set: a sweep,
a configuration install, or nobody. The actions are:

- `Append(r)`: a record of a capture in the configuration;
- `RequestWipe(c)`;
- `BeginSweep`: it takes every pending request and clears them;
- `Delete(r)`: only during a sweep, only an obsolete record (the capture left
  the configuration, or its wipe was taken);
- `EndSweep`;
- `BeginConfig`, `Install` and `EndConfig`.

Sweeps and installs exclude each other because both need `owner = "none"`.

`Cleaner` ends with the refinement mapping
`GC == INSTANCE TransferGC WITH owner <- GCOwner, requests <- stcs`. Here
`GCOwner` is `"sweep"` while the cleaner scans or reports, `"config"` from the
moment `reconfigure()` stops waiting until `unpause()`, and `"none"` otherwise.
The other variables keep their names. The `cleaner` run checks `GCSpec == GC!Spec`
as a PROPERTY, including the abstract weak fairness of `EndSweep` and
`EndConfig`. This subsumes the earlier invariant `ReconfigureExcludesSweep`, which
remains defined in `Cleaner.tla`. The refinement fails when:

- a sweep overlaps an install;
- a request is taken but not cleared (the mutant keeps
  `m_state_transfer_captures` after the swap);
- a record is deleted that is not obsolete;
- a sweep or an install never ends.

### RegionStore (`RegionStore.tla`, `MC_RegionStore.tla`)

**State.** The model keeps one captured region:

- `objs`: key → value or `Absent`;
- `index`: `<<attr, value, key>>` entries;
- `tlog`: transfer records `[seq, key, val]`;
- `count`: the region's counter;
- a program counter and the built batch for each thread;
- the state-transfer consumer: `next`, the `seq_no` it asks `get_transfer` for
  next, and `replica`, its copy of the region.

**Actions.** `Put`, `Overput`, `Del`, `UncertainPut` and `UncertainDel` build a
batch and consume a counter value. `Write` applies a batch atomically, and a
later Put overwrites a record with the same transfer key. `WriteFails` applies
nothing. `GetTransfer` is `get_transfer(ri, next)` (`datalayer.cc:1085-1132`)
finding the record. The consumer applies the record to `replica` and moves to
`next + 1`. A `NOT_FOUND`, or an error, changes no state. The consumer then asks
for the same number again; this retry policy lies outside `src/` and is taken
from spec 4.3.

**Caller assumptions.** The caller (the replication layer, outside `src/`)
serialises operations on one key. It calls `put` only for absent keys and passes
the stored old value to `overput`/`del`; `Free` and the guards encode this.

**Bounds.** Two keys, two threads, two attributes (one indexed), two values, and
4 transfer numbers. These are enough for:

- two batches in flight at once, in either order;
- a failed write between two successful ones;
- an overwrite that changes only the unindexed attribute.

| Run | Checks | Result |
|---|---|---|
| `transfer_gapless` | `TransferLogGapless` | **violation**: the sequence number is taken at `datalayer.cc:611` and the batch is written at `:626`. A second writer's record appears first, and a failed write leaves a hole. |

### AckedLog (`AckedLog.tla`, `MC_AckedLog.tla`)

**Keys.** Acked keys are `<<ri, reg_id, UINT64_MAX - seq>>`, ordered as tuples,
which is the byte order of the layout in spec §6. The width is reduced to 2 bits
so that the largest region id (3) wraps in `reg_id + 1`.

**Operators.**

- `MarkAcked` is an action.
- `CheckAcked` and `MaxSeqId` are operators. `MaxSeqId` models the `Seek`, the
  decode and the pair check.
- `ClearAcked` is one atomic action. Its range is
  `[<<0, reg, 0>>, <<0, reg+1, 0>>)`, and it keeps the decode condition.

| Run | Checks | Result |
|---|---|---|
| `acked_clear` | `ClearRemovesAllBelow` | **violation**: the range covers only acking region 0 (`datalayer.cc:1262`) |

`MaxSeqIdIsHighest` is checked through the composition `Datalayer`, below.

### Datalayer (`Datalayer.tla`, `MC_Datalayer.tla`): the write path with acks

**Composition.** `Datalayer` extends `RegionStore` and instantiates `AckedLog`
(`AL`). The acked family in leveldb is `acked`, and `ack[t]` is the acked key in
thread `t`'s built batch.

- Each `put`, `overput` and `del` (`seq_id != 0`) is the RegionStore action
  conjoined with `AckInBatch`, which puts
  `encode_acked(ri, reg_id, UINT64_MAX - seq_id)` into the batch.
- `uncertain_put` and `uncertain_del` pass `seq_id = 0` and ack nothing.
- `WriteBatch` makes the object, the index delta, the transfer record and the
  acked record visible together. `WriteBatchFails` applies none of them.
- The caller's sequence ids are unique and increase in issue order. The model
  uses the counter value the operation takes.

**Bounds and symmetry.**

- The RegionStore bounds, with 4 transfer numbers and a 3-bit width.
- Regions `{1, 3}`. The store holds region 1, and the point leader is region 1.
- An ack of leader 3 (`<<1, 3, 6>>`) is present from the start, so `max_seq_id`
  scans past a neighbouring leader's record.
- Threads, keys and values are interchangeable, so the run declares them a
  SYMMETRY. The checked properties are invariants, for which symmetry is sound.

| Run | Checks | Result |
|---|---|---|
| `datalayer_safety` | `IndexConsistent`, `TransferReplayMatches` (once the consumer has replayed every record of a key and no batch of that key is in flight, its copy equals the store), `AckedMaxIsHighest` (`max_seq_id` returns the newest ack of the landed batches, whatever order they landed in and whichever failed) | pass, about 1.57M distinct states, 2 minutes |

### Search (`Search.tla`, `MC_Search.tla`)

**Composition.** `Search` instantiates `RegionStore`, with the state-transfer
consumer held at its initial state (`next <- 1`, an empty `replica`), so
`GetTransfer` is disabled there. Every writer step (`WriterStep`) is an
`RS!Next` step, and it records the keys it changes in the ghost `written`.

**Actions.**

- `MakeSnapshot(q, p)` is `make_snapshot`. The query `q` is a conjunction of
  at most `MaxChecks` checks `lo <= attr <= hi`, one per attribute, and it may
  include a check on the key (`KeyAttr`, attribute 0). The action freezes the
  store and computes the iterator's keys in the planned range:
  - the index range of the driving check is
    `[encode_index(lo), bump_index(encode_index(hi)))`;
  - the object range is `[o+ri, bump(o+ri))`.

  The plan `p` is any range the planner may choose, because its choice rests on
  size estimates. The loop at `datalayer.cc:1016-1047` drives the search with
  the smallest range whenever that range is under a quarter of the object range.
  Ranges accepted after the first change nothing; the code has no bloom-filter
  step. The estimates can make any range the smallest, so every choice is
  reachable. A separate model of the loop was dropped: any property of it only
  restated line 1044 and the loop's first test. `Plans(q)` offers the
  object range and the index range of every non-key check. The code skips a key
  check (`attr == 0`). It does not ask whether the region's subspace indexes
  the attribute, so the model does not ask either.
- `MakeSnapshotBad` is the `BAD_SEARCH` return for a check on an attribute
  past `attrs_sz`. No iterator is opened.
- One iteration of `valid()`'s loop is one step: `GetNotFound`, `Yield`,
  `Skip` or `Exhausted`. The point `Get` is `Fetched`, which reads the live
  `objs`, because the code's `ReadOptions` carry no snapshot. `Passes` is the
  checks loop: every check is tested, the key check against the key and the
  others against the fetched value.
- `GetFails` is the `Get` failing with `IO_ERROR` or `LEVELDB_ERROR`. The
  search ends with that code. `SearchComplete` asks nothing of a search that
  ended in an error.
- `NextCall` is `snapshot::next()`.
- `MakeRegionIterator` is `make_raw_snapshot` plus `make_region_iterator`. It
  binds an iterator to a snapshot and seeks it to `'o' + region`. The objects of
  other regions (`OtherObjs`: regions 0 and 2) share the `'o'` family.
- `RegionYield` and `RegionEnd` are `region_iterator::valid`. Valid means the
  iterator is not exhausted and `b == 'o' && ri == m_region`. Key and value come
  from the snapshot.

**Fairness.** None. The search properties are invariants. That `valid()`
returns is not checked: it is a loop over a finite iterator that calls `Next()`
on every rejected key (`datalayer.cc:1701`).

**Bounds.** The model has:

- two keys, 1 and 2, which the key check compares;
- one non-key attribute `a1`, indexed in `search_complete`;
- values {1, 2};
- one writer thread, with 3 transfer numbers;
- one search or region scan, over every query of one or two checks.

The key check is the second conjunct, so a search driven by `a1`'s index still
filters by another check. A second non-key attribute, or a third value,
multiplies the queries. Either one brings the run to between 2.5 and 7
minutes.

These bounds reach searches through either range, and an overput or del landing
between the snapshot and the `Get` of the same key. The same live `Get`
also returns an object that was overwritten after the snapshot. The
`search_spurious_corruption` finding records this, because both effects come
from one line.

| Run | Checks | Result |
|---|---|---|
| `search_complete` | `SearchComplete` (a successful search returns every snapshot match no writer touched, for every conjunction of checks), `RegionScanExact` (a region scan yields exactly the region's snapshot objects, despite concurrent writes and the next region's keys) | pass, about 126K distinct states |
| `search_spurious_corruption` | `NoSpuriousCorruption` | **violation**: a del after `make_snapshot` ends the search with `CORRUPTION` (`datalayer.cc:1632`, `:1650`), an error spec §6 calls node-fatal |
| `search_unindexed` | `SearchComplete`, in a region whose subspace does not index `a1` | **violation**: the plan may drive the search with `a1`'s index range (`datalayer.cc:907-956`). That range is empty and estimated at 0 bytes, so a search for `a1 = 1` returns nothing over a store holding such an object. Spec §8 says an unindexable predicate set falls back to a full scan. |

### IndexRange (`IndexRange.tla`, `MC_IndexRange.tla`)

`make_snapshot` builds the index range of a string predicate from
`encode_index` and `bump_index` (`datalayer.cc:926-959`). The model represents
keys as byte sequences, compared byte-wise as leveldb does. The layout follows
spec §3 and §6, because those encoders are not under `src/`:

- an index prefix byte;
- the raw value bytes;
- the object key, with no terminator between value and key.

`BumpIndex` is RECURSIVE: it carries `0xff` bytes. Every pair of bounds and every
entry up to 2 bytes, over bytes `0..2`, is an initial state. With these bounds
both the carry case and the prefix case occur.

| Run | Checks | Result |
|---|---|---|
| `index_string_range` | `StringRangeComplete` | **violation**: take `end = <0>` and an entry with value `<>` and key `<1>`. The entry encodes to `A,1`, which equals the exclusive limit (`A,0` bumped to `A,1`). The iterator never visits it, although `"" <= end`. Spec §3 says "no escaping is required because string index keys are bounded by the following primary-key field". |

### Metadata (`Metadata.tla`, `MC_Metadata.tla`)

**State.** The three synchronous keys: `hyperdex` (a version or absent), and
`state` and `dirty` (present or absent). The model also keeps the daemon's
program counter and a ghost recording how the previous run ended (`lastExit`).

**Actions.**

- `SetupRefused` and `SetupOk` are `setup`'s decision table over the two
  `Get`s (`SetupFails`).
- `Initialize` is `initialize`.
- `SaveDirty` and `SaveState` are the two `Put`s of `save_state`.
- `ClearDirty` is `clear_dirty`, and `Teardown` is `teardown`.
- `Crash` can happen between any two of these steps. It also stands for a
  failed `Put`, after which the daemon exits.

**Caller order.** The daemon calls setup, then initialize and save_state, runs,
then calls clear_dirty and teardown. This order lies outside `src/`, so it is
modelled from the spec.

**Bounds.** Four starts, and versions {current, rc1, rc2, foreign}. The
initial store is fresh, or a store a version left after a clean exit.

| Run | Checks | Result |
|---|---|---|
| `metadata_restart` | `RefusedOnlyAfterCrash` | pass |
| `metadata_dirty` | `CrashNotAccepted` (`setup` does not accept a store whose `dirty` marker is set) | **violation** (spec gap): two starts, the first crashing while serving |

`setup` never reads `dirty` (`datalayer.cc:159`). A crash after `save_state`
therefore restarts with `saved = true`, as if the last exit was clean. That run's
`clear_dirty` then erases the marker, the only trace of the crash. Spec §5 names
the key a dirty-shutdown marker for crash recovery. Nothing in `src/` reads it.

A crash between `initialize` and the `state` `Put` of the first run makes
every later `setup` refuse ("execution crashed; run the recovery program").
`RefusedOnlyAfterCrash` allows this, because it is the code's documented
behaviour.

Each passing property has a mutant in `PROJECT.json`. A mutant is a plausible
bug in the mapped code, such as:

- a wait loop that ignores the pause;
- a missing signal;
- `unpause` without `need_cleaning`;
- a missing shutdown check;
- an index delta that never deletes on overwrite;
- `del` logging the old value;
- `max_seq_id` returning the stored seq id without re-inverting it;
- an index limit without `bump_index`;
- a key check given an index range like any other check;
- a region iterator that checks the family byte and not the region id;
- a cleaner that copies the wipe requests without clearing them (breaks the
  refinement);
- `clear_dirty` deleting `state` instead of `dirty`.

TLC finds each of these mutants.

Each module also defines `TypeOK`, which documents the state space. No run
checks it. Every action keeps its variables in type by construction, and no
plausible bug in the mapped code could break it, so a run would show nothing.

## 4. Not modelled (yet), and why

- Byte-level encodings and their round trips. The implementation is not under
  `src/`, and unit tests cover them better. Only the key orders the code
  relies on are modelled.
- `get` and `check_acked` return results without changing state. They appear
  only as the state the properties read. `get_transfer` is modelled, because
  its consumer's progress is state.
- A writer whose batch spans a reconfiguration. `put` reads `m_counters` and
  `capture_for` and then calls `Write` without holding a lock
  (`datalayer.cc:611-626`). The Cleaner models this as one step,
  `AppendTransfer`, guarded by the capture being in the configuration. This
  relies on the daemon quiescing its worker threads around
  pause/reconfigure/unpause, which happens outside `src/`.
  `ObsoleteTransfersCleaned` and `GCSpec` hold under that premise.
- A `pause()` after `shutdown()`. If the cleaner has exited, `reconfigure()`
  would wait forever (`datalayer.cc:420`). The model stops reconfiguring once
  shutdown begins, because the teardown order is the daemon's, so
  `ReconfigurationCompletes` is checked under that assumption.
- Object versions, and `BAD_ENCODING` from a wrong attribute count. The model's
  values always have the schema's arity.
- `IsCorruption` and `decode_value` failures of a search's `Get`
  (`datalayer.cc:1636-1659`). Both need a corrupt store, and the model's store
  never is one. IO and unknown engine errors are modelled (`GetFails`).
- Read errors of the metadata `Get`s, and a malformed `state` value.
- `src/client/description.h` (a declaration) and `src/scripts/gen_data.cpp` (a
  report generator): no concurrent or stateful behaviour to check.
- The spec's open question (§9) says `uncertain_put`/`uncertain_del` skip the
  transfer log. In the code, they call `overput`/`put`/`del` with `seq_id = 0`.
  This skips only the acked record: the transfer record is still written. The
  model follows the code.
