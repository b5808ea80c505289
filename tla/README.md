# Verification of the resident path of gpudb

gpudb is a DuckDB extension with a Python wrapper that keeps copies of table
columns on a GPU and answers aggregate statements from them. The hard part of
the program is not the arithmetic on the device: it is keeping those copies
consistent with tables that change, while uploads take seconds, statements run
on several threads, and device and host memory are short. This directory holds
TLA+ models of that part, the TLC instances that check them, and proofs checked
by TLAPS.

All paths below are relative to the repository root.

## 1. Inventory

| Component | Source | State it keeps | Operations |
|---|---|---|---|
| Resident-set registry | `src/extension/gpu_resident.cpp` 505-820, 1133-1197, 2475-3485; `gpu_resident.hpp` | `registry` name -> set, `stores` table -> lanes, `sessions`, `inval_seq`, `invals` | `gpu_invalidate`, operator lookups, `gpu_prepare_resident`, `gpu_join_materialize`, `gpu_upload_begin/finish/abort/status`, publications, `gpu_drop_resident`, `gpu_drop_column`, `gpu_assert_rows`, `gpu_note_rows` |
| Upload buffers and host pool | `gpu_resident.cpp` 280-478, 838-1330, 1380-2190 | per-state buffers, their charges, the process-wide byte count | update, combine, finalize and destroy of five upload aggregates, `session_append` |
| Lane placement | `gpu_resident.cpp` 2190-2522 | none kept | orders the chunks of a column upload by row id, or ranks every row |
| Residency manager | `python/gpudb/_residency.py` | a state per wanted set, refusals, the memory room sequence, the worker thread | `note_candidate`, `invalidate`, `upload_now`, `_worker`, `_session`, `note_execution_refusal`, `note_use`, `close` |
| Eviction plan | `_residency.py` 787-1120 | none kept beyond the manager's | `_snapshot`, `_plan`, `_evict`, `_make_room` |
| Segment sizing | `_residency.py` 1751-2089 | yield, measured rate, quiet window | `_post_step`, `_wait_quiet`, `_session` |
| Connection | `python/gpudb/connection.py` | transaction state, sightings, snapshot of foreign writes | `execute`, `_route_body`, `_invalidate_all`, `_on_stale`, `_on_rewrite_error`, `_foreign_write_seen` |
| Rewriters | `python/gpudb/_rewrite.py`, `_join.py`, `_exprs.py`, ...; `src/extension/gpu_rewrite.cpp` | none | statement tree to statement tree |
| Resident GROUP BY, top-k | `src/extension/gpu_groupby_extension.cpp` | bind and scan state of one call | read a set handed out by `acquire` |
| Streaming aggregates, join | `src/extension/gpu_sum_extension.cpp`, `gpu_join_extension.cpp` | per-query accumulators | update, combine, finalize |
| Planner and factory | `src/backends/hybrid_planner.cpp`, `backend_factory.cpp` | last decision | choose a backend |
| Filters, masks, fan-out | `src/backends/groupby_filter.hpp`, `predicate_mask.hpp`, `multi_fanout.hpp` | none | pure functions |
| Backends | `src/backends/cpu`, `cuda`, `metal` | device buffers | numeric kernels |
| Thresholds, shell | `python/gpudb/_thresholds.py`, `_shell.py` | tables; terminal | - |

### How they interact

The connection parses a statement, asks the residency manager whether the sets
it needs are ready, and rewrites it to call operators of the extension. The
manager's worker (or the statement itself, eagerly) uploads a missing set as a
session: `gpu_upload_begin`, one short aggregate statement per row-id segment,
`gpu_upload_finish`. A write that passes through the connection calls
`gpu_invalidate` for the table and tells the manager; a rewritten statement
carries `gpu_assert_rows` as a last check. Inside the extension everything
shared sits in one `ResidentContext` per database under `registry_mu`, which is
never held across device work: `acquire` sorts, `gpu_join_materialize` joins
and an upload transfers between two critical sections. The host pool is
process-wide and counts bytes with relaxed atomics.

### What is hard here

* Everything that is decided in one critical section and used in another: an
  upload is checked against the invalidations that happened while it ran, a
  view is registered before it is sorted, a joined set depends on sets that may
  be replaced under the same name.
* The order of snapshot, sequence number, invalidation and publication.
* Sessions that are replaced, invalidated, aborted or finished while segment
  statements are still running.
* Bounded structures: the invalidation log, the pool, the device budget.
* Byte accounting over error paths: a buffer has to be given back exactly once
  whether its statement lands, fails or is overtaken.
* The manager's worker against eager uploads, invalidations and refusals.

Each is listed under "hazards" in `PROJECT.json` with its line and the
properties that watch it.

### What makes each component correct

* Registry: nothing that an invalidation overtook is published or served; a
  store never mixes lanes of two row counts; a joined set is served only while
  its sources are current; a stale mark sticks.
* Upload buffers: the pool's count is the sum of what is held; it returns to
  zero; two names never end up in one column.
* Lane placement: every row of a session lands once, at its row id, in every
  lane.
* Resident operators: the rows a call returns are the rows native SQL gives over
  the table its set was made from, whichever backend holds the lanes and at
  whatever width; the planner never leaves a set with lanes on two sides.
* Residency manager: a set is ready only if the extension holds it for the data
  of the current epoch; a refusal holds only for the data and the room it was
  given for; an interrupted upload resumes.
* Connection: no statement after a write of the same database is answered from
  data before it.

## 2. Plan

| Module | Component | State |
|---|---|---|
| `ResidentRegistry` + `ResidentRegistryProofs` | registry, stores, sessions, views, joins | done |
| `FreshCache` | what a store promises; `ResidentRegistry` implements it | done |
| `UploadPool` + `UploadPoolProofs` | buffers and the byte count of the pool | done |
| `ResidencyManager` | the set states, the worker, interrupts, refusals, eviction, and one connection with its write path; liveness of an interrupted upload | done |
| `ResidentCall` | the steps of a call: bind, acquire, device lock, run, copy the decision, emit | done |
| `ExactValues` | words, 128-bit sums, doubles, predicates, HAVING and top-k | done |
| `CpuOperators`, `CudaOperators` | the resident operators of the two backends | done |
| `HybridPlanner`, `SqlFunctions`, `ColumnUpload` | where an upload and an operator go; what each SQL function checks and returns; row order of a column upload | done |
| `NativeSql` | what native SQL answers, the reference for all of them | done |
| `ResidentCallProofs` | `DecisionTrue`, `RowsOnce` for any callers and functions | done |
| `CallSetProofs` | `ExactOneSide` for `ResidentCall` with the functions of `SqlFunctions` | done |
| `OperatorProofs` | what the steps of the operators compute: sums, parts, narrow lanes, doubles, WHERE, top-k | done |
| `AggregateProofs` | folds over any number of rows: the aggregates, the GROUP BY and the list join of both backends are native's | done |
| `AnswerProofs` | `LanesInRowOrder`, `GlobalIsNative`, `GroupsAreNative`, `PayloadsAligned`, `TopKIsARanking`, `ListJoinIsNative` for any programs, tables and callers | done |
| `ResidencyManagerProofs` | `TypeOK`, `ReadyIsHeld`, `MemoryRefusalStands`, `SegmentsOnce` for any sets and workloads; `ServedCurrent` for tables of more than one segment | done |

What is left: a model of several cursors with eager uploads (`upload_now`); the
resident joins and the operators before the exact path as theorems (`JoinsAreNative`,
`JoinedAreNative`, `WidthIsStorage`), on the lemmas `AggregateProofs` has about
the groups of a set of rows.

Composition: `ResidentRegistry` implements `FreshCache`. `ResidencyManager`
takes the extension as what `ResidentRegistry` shows of it: sessions, sets and
an invalidation that empties them. `SqlFunctions` is composed of
`HybridPlanner` (over both backends), `ColumnUpload` and `NativeSql`, and
`ResidentCall` runs its operators, which `MCCalls` hands it as constants.

## 3. `ResidentRegistry`: the registry, the stores and the sessions

### State

| Variable | Code |
|---|---|
| `registry`, `sets` | `ResidentContext::registry`; the `ResidentSet` objects live on while a call holds a `shared_ptr`, so they are kept by id |
| `stores` | `ResidentContext::stores`: the `TableStore` of a table: its row count and its columns |
| `sessions` | `ResidentContext::sessions` |
| `seq`, `log` | `inval_seq` and `invals` |
| `threads` | what each thread is doing between two critical sections |
| `gen` | numbers publications, so that a replaced column differs from its successor (a pointer in the code) |
| `last`, `revived` | history: the last invalidation of each table, and the sets whose `Stale` mark was overwritten |

The rows of a column are abstracted to two stamps: `since`, the sequence number
its upload is checked against (`seq_at_start`), and `asOf`, the sequence number
in force when the oldest scan behind it took its snapshot. Row counts matter
only where the code compares them (`rows_seen` of a store), so a segment stands
for one row.

`TableOf` is the prefix of an identity tag `gpu_invalidate` is called with. The
code matches by string prefix; the model has one prefix per table and every
name belongs to one.

### Actions

`Invalidate` is one critical section. `acquire` is cut where the code drops the
lock: `Lookup` (find or synthesise the view), `Prepare` (sort, then store
`Ready`), `Check` (stale?), `CheckDeps` (sources current? under the lock again).
`gpu_join_materialize` is `JoinBegin` (sequence number, probe side),
`JoinBuild`, `JoinPublish`. An upload statement is `Scan` (snapshot),
`FirstRow` (`set_buf_name` reads the sequence number), then `SessionAppend` or
`Finalize` and one of `PublishOwn`, `PublishColumns`. `Begin`, `Abort`,
`Finish`, `DropResident` and `DropColumn` are one critical section each;
`Finish` takes the session away and the thread goes on to the device. Every
device step may fail (`StatementFails`).

Left out: `gpu_note_rows` (a set without columns), counters of hits and
recency, and the statistics.

### What the runs show

| Run | Instance | Shows |
|---|---|---|
| `MCRegistryViews` | 1 table, 1 view, 2 threads, 2 invalidations, 2 publications, 2 set objects | the inductive invariant, `PublishedFresh`, `ServedFresh`, `OpenSessionCurrent`, `StaleSticks` |
| `MCRegistryLanes` | 1 table, 2 lanes, 2 views that share one, 1 thread, sessions of 2 segments | stores with replaced, kept and restarted lanes implement `FreshCache`; lanes of two row counts never meet |
| `MCRegistryJoins` | sets of 2 tables, their join, and a join with that join as its source; 1 thread, 1 invalidation, 4 set objects | `ServedFresh` through the sources of a join, `JoinsFlat`, and staleness after the intermediate is gone or replaced |
| `MCStaleRefused` | as Views | finding: a stale mark is overwritten |
| `MCSegmentsFresh` | as Views | finding: a segment joins a session younger than its snapshot |

### Bounds

`MaxSeq` (invalidations) is 2 where an upload must be overtaken twice, 1
elsewhere: every check compares one stamp with one recorded number. `MaxSets`
bounds the set objects ever created, `MaxGen` the publications into stores: two
let a lane or a view be replaced while the old one is still held. `MaxSegments`
bounds a session. Deadlock is not checked because the bounds stop the model,
never the code. The passing runs use the view `ReachableView`: it hides set
objects nothing can reach any more and the stamp `asOf`, which no guard reads
and no property of those runs mentions.

### Findings

* **A stale mark is overwritten** (`MCStaleRefused`). `acquire` stores `Ready`
  after sorting a freshly synthesised view, whatever happened meanwhile; an
  invalidation in between is lost for that view. `ServedFresh` is therefore
  stated for sets outside `revived`, and `StaleSticks` says this step is the
  only one that does it.
* **A segment older than its session** (`MCSegmentsFresh`): `session_append`
  looks only for an open session of the name.

Three further differences between the code and its comments are visible in the
module, and no run is spent on them. A statement that uploads without a session
reads the sequence number on its first row, after its snapshot (`Scan`,
`FirstRow`), so the discard of KNOWN_ISSUES does not cover the time between. A
lane that is uploaded again stays registered through an older view when
`gpu_drop_column` drops it (`DropColumn` compares column objects). And the log
forgets: with more invalidated prefixes than its 1024 records, an upload that
should be discarded is published; the theorems below assume `LogHasRoom`.

## 4. `FreshCache`: what the stores promise

A cache of table lanes emptied by an invalidation in one step and filled, in
one step, only with lanes whose upload started after the last one. Of the lanes
it held, a fill keeps exactly those it does not bring and that were read from as
many rows. No sessions, no threads, no log. `StoresAreACache` says that the
registry implements it, with `cached` mapped to the lanes and stamps of each
store and to the store's row count; the number of the fill (`gen`) is part of an
entry, so that a lane kept under another row count cannot pass for a new one.
It speaks of stores: a view made earlier may still hold a column the store has
replaced, which no property bounds.

## 5. `UploadPool`: buffers and the byte count

### State

| Variable | Code |
|---|---|
| `bytes` | `Pool::bytes`, the process-wide atomic |
| `buf` | the `UploadBuf` of each aggregate state: name, `seq_at_start`, lanes, `charged`, and the texts of its dictionaries |
| `sessions`, `seq` | the registry's, as far as they hold a charge |
| `op` | what a callback has loaded but not added (`pool_reserve` is a load and an add), or reserved but not used; for a finishing thread the charge of the session it took (`held`) and its `PoolCharge` (`temp`) |
| `phase` | per statement: DuckDB is filling, is finalizing, or has seen an error |
| `lock` | who holds `registry_mu` between the two steps of `session_append` |
| `leaked` | history: reservations nobody will release |
| `from`, `oldest` (in `buf`) | history: the names of the rows held, the smallest number one of them was named at |

A byte is abstracted to a row, a string lane to one text with its hash. Lane
layouts are abstracted to the function that fills the buffer (`plain`, `exact`,
`strings`): a session refuses segments of another. `Hash` is a constant, so an
instance decides which texts collide.

### Actions

`Update`, `UpdateAdd`, `Fill` are an update callback (load, add, rows stored and
the rest given back). `Combine` and `CombineAdd` are `upload_combine` with the
reservation between. `FindSession` and `AppendSegment` are `session_append`,
`Upload` the statement's own device work, `Borrow`, `BorrowAdd`, `Give` the
temporaries of the placed path, `Device` its end or its exception. `Begin`,
`Abort`, `Invalidate` and `Finish` are the session calls. External to the code,
and an assumption of the module, is what DuckDB promises: one callback at a
time on a state, no use of a state while it is combined into another, finalize
after the input. A statement whose callback set an error may or may not destroy
its states (the code's own comment at 905 measured both).

An update may touch several states at once (one reservation for the chunk);
the model gives each state its own reservation. Memory ordering is sequential,
which the code's relaxed operations on one atomic do not weaken.

### What the runs show

| Run | Instance | Shows |
|---|---|---|
| `MCPoolMerge` | one column upload on 2 states, 2 names, 1 text, 1 finishing thread, 1 invalidation, caps 3 | `PoolInv`, `PoolBalanced`, `OneName`, `SeqIsOldest` |
| `MCPoolSessions` | a column and a plain upload with one state each, 2 texts with one hash, one session name, 1 finishing thread, a general cap of 4 and an exact one of 3 (`GPUDB_EXACT_UPLOAD_POOL_MAX_MB` below the general cap) | `SessionKeepsKind`, `PoolBalanced` over refused segments, collisions and borrowing, `OvershootBounded` with three reservations in flight, where a plain upload goes further than any exact one |
| `MCPoolLeak` | two column uploads, 2 texts with one hash | finding: a reservation nobody releases |
| `MCPoolOldest` | one column upload on 2 states, 1 invalidation | finding: the younger number survives a merge |

### Bounds

The caps bound the rows: a cap of 3 or 4 lets two buffers, a session and a
temporary each hold something at once, and every refusal happens. `MaxChunk` is
1 where names and numbers matter, more where the unused part of a chunk does.
`MaxSeq` is 1 where the order of naming and invalidating matters: two buffers
can then differ in their number. Deadlock is not checked because a failed
statement whose states are destroyed is a legal end, and because `MaxSeq` stops
the model.

### Findings

* **A leaked reservation** (`MCPoolLeak`): `session_append` throws on a
  collision after it has reserved. `PoolBalanced` therefore counts `leaked`,
  and holds on every other path.
* **The younger number wins** (`MCPoolOldest`) when the source of a combine has
  string lanes; the same branch skips the comparison of the names. `OneName` and
  `SeqIsOldest` are therefore stated for buffers without texts.

KNOWN_ISSUES says that two threads can overshoot the cap by a chunk each. Combine,
`session_append` and the placed path reserve whole buffers with the same
unlocked check, so the bound that holds is `OvershootBounded`: the larger of the
two caps times the number of states and finishing threads. The larger is by
default the exact cap; a configured one is returned as it is (416-421), and may
lie below the general cap. The run has the second order, in which both functions
can be at their own cap; the theorem covers any two caps.

A sum over buffers, sessions or callbacks is written as the number of rows
counted (`Rows` has one element per row of each of them, `Total` counts it):
that is the same number, and it can be reasoned about without an induction.

## 6. `ResidencyManager`: the worker, the sets and the connection

### State

| Variable | Code |
|---|---|
| `st`, `att`, `cool` | `SetState.state`, `attempts`, and whether `resume_at` lies ahead |
| `refusal` | whether a remembered refusal exists and whether the epoch or the room it was taken against has moved |
| `held` | the recipe of the last sighting has nothing to upload |
| `w`, `phase`, `cur`, `victim`, `done`, `moved`, `cut`, `scan` | the worker: where in its round, in which statement of the session, over which set; segments landed; its captured epoch is old; an interrupt is on its way; the snapshot of the running segment |
| `inFlight` | `_in_flight` |
| `u`, `stmt`, `answer` | the connection: where in `execute`, its statement, what a rewritten one was answered from |
| `ext`, `sess` | what the extension holds of each set, and its open session (external; `ResidentRegistry` has its code) |
| `data`, `snap` | committed writes, and the `_write_snapshot` of the files |
| `oom` | history: sets an operator ran out of memory over |

A segment read by the worker carries the version of the tables it was read at;
that is all the properties need of the rows.

### Actions

The worker: `Pick`, `SourceFailed` (`_pick`), `Room`, `NoRoom`, `Evict`,
`Evicted` (`_make_room`, `_evict`, cut where the lock is given up), `Holds`,
`Open`, `Go`, `Stop`, `Start`, `SegmentEnds`, `SegmentCut`, `SegmentFails`,
`Check`, `Finish`, `Post` (`_session`, `_wait_idle`, `_post_step`), `Step`
(`_session_derived`), each ending in `Settle`, `Fail` or `Failed` (`_worker`).
`Go` and `Start` are two steps because the code leaves the lock between them. The
connection: `Select`, `Write` and `Drop`, `Begin`, `Native`, `Answer`,
`OutOfMemory` and `RewriteFails` (`_on_rewrite_error` over the device's memory
and over anything else), `OnStale` and `Requeue`, `End`. The world: `Foreign` and
`Tick`.

Every statement of a session may fail. The bounds and `gpu_upload_begin` may
(`Open`; an empty table is such a failure), and so may a segment, the finish and
the sort cache: `Failed` is `_purge` and `_note_refusal_locked`, or a set that
landed on the host and is refused by `_placed_on_device`, whose drop of the lanes
moves the population other refusals are held against (`OnHost`). A status that
five interrupts keep from the worker reads as a closed session (`Check`), and
when `_extension_ready` gets no answer after an interrupted finish the set goes
back to the queue although it may have been published (`Finish`). After
`POST_MAX_ATTEMPTS` interrupted tries `_post_step` calls the set ready without
having looked at the extension again (`Post`).

### What the runs show

`MCManager` checks three workloads: a table of two segments, one write through
the connection or by another; a join over a table with room for two sets and
one write; and two tables with room for one, no write, so that they evict each
other.

* `ServedCurrent`: a rewritten statement is answered from the version that was
  current when the files were compared before it.
* `SegmentsOnce`: a finished session has every segment once and in order.
* `ReadyIsHeld`: what the manager calls ready is in the extension, outside the
  two steps of an eviction and of a stale answer.
* `MemoryRefusalStands`: a set refused over device memory is not queued again
  before something changed.
* `Lands`: once the connection stays idle, a queued set whose sources are on
  their way too does not wait for ever.

### Fairness

`WF` of the worker's steps (a thread of its own), of a statement once it has
begun (the caller's thread runs it to the end), and of each `Tick` (clocks
advance). Nothing makes the caller issue statements, and no fairness is asked
of `Write`, `Foreign` or `Select`. `Lands` is conditional on the connection
falling idle, because the code promises no more: `_wait_idle` waits for
`_in_flight = 0`.

### Bounds

Two segments tell a part from a whole and a landed segment from the next;
`MaxAttempts` 2 lets a set be tried again and given up; one write is before,
during or after every step of an upload; `budget` 1 makes every second set
evict. The connection is one cursor.

### Findings

* **A segment without its session** (`MCOneSegment`): for a table of one segment
  the guard over the count of rows cannot notice. With two segments it does,
  which is why `ServedCurrent` holds in `MCManager`. The theorem about it carries
  the difference as a hypothesis, `SeveralSegments`.
* `attempts` counts every session, successful ones too, and only a lapsed
  refusal resets it. After `max_attempts` uploads a set is not queued again,
  although `docs/TRANSPARENT_DESIGN.md:1876` says "`max_attempts` is a rate
  limit under that rule, not a cliff". No run is spent on it.
* A segment that fails because a write overtook it is remembered as a refusal
  against the epoch after that write.

## 7. The resident operators: `ResidentCall` and what it runs

`ResidentCall` is the protocol of a call and knows nothing of values: its
constants `BindFn`, `InitFn`, `StoreFn`, `RejectFn`, `DecideFn` and `RunFn`
are the pure parts, defined in `SqlFunctions` and below. Every
caller has a program of statements.

| Variable | Code |
|---|---|
| `sets` | the published sets, whole (`ResidentRegistry` has their life) |
| `lock` | `resident_device_lock` and the mutex of `gpu_inner_join` |
| `last` | the planner's process-wide last decision |
| `pc`, `todo`, `held`, `res`, `noted`, `sent` | per caller: where it is, what is left, the sets acquired, the backend's answer, the decision copied, the rows handed to DuckDB |

`Bind`, `Acquire`, `Enter`, `Upload` or `Run`, `Leave`, `Emit` (one chunk at a
time), `Finish`. Deadlock is checked: `Done` is the only stutter. An operator
runs under its mutex; an upload takes none (`Locks`), as `finish_upload` does
its device work outside every lock, so uploads overlap each other and the calls.

The bind and init functions of `SqlFunctions` refuse what the code refuses: more
than eight payloads or one that is neither `v` nor `i<n>`, a negative k
(`BindOk`), a pair that is not exact, a lane the WHERE program names and the set
has not (`where_ok`), keys and payloads that are not BIGINT (`gx_ok`, `gm_ok`).
One filter record stands for the parsed filters: a `topk` of 0 is no top-k, so
that the code's `k >= 1` is `topk >= 0` here.

### Values and operators

A selection from a sequence is written by the positions it keeps (`Selected`)
and a total as a fold (`Total`), because `SelectSeq` is recursive and the proofs
of section 8 need both. `ExactValues` keeps widths: a word is 8 bytes of `ByteBits` bits, a 128-bit sum
is two limbs with a carry, a double is a bit pattern with a sign, so overflow,
NaN, -0.0 and NULL happen with small numbers. `CpuOperators` follows
`cpu_aggregator.cpp`: the indexed GROUP BY, the chunks of a parallel aggregate
and how they combine, the fan-out of several payloads, the joins, top-k.
`CudaOperators` follows the host code and what its kernels compute: narrow
lanes and the bitmap, the cache of sorted keys, the direct reduce with private
replicas against the sorted one, the NULL group, the groups a mask emptied, the
join's probe and positions, the radix selection of the top groups, and the
hash table of `gpu_inner_join`, its rows inserted in an order that is not theirs. CUB's sorts and
scans are external: their contracts are used. `HybridPlanner` places uploads
and chooses sides. `ColumnUpload` has the row numbers each state of a scan was
handed, the order flag, the merge and the ranks. `NativeSql` is written from
SQL, not from the code, and no operator uses it: it defines NULL, grouping,
aggregates, HAVING, ranking and joins over the rows of a table.

### What `MCCalls` shows

| Property | Says |
|---|---|
| `GroupsAreNative` | the exact GROUP BY, WHERE, HAVING and top-k return native's rows in order |
| `PayloadsAligned` | several payloads in one call stand in the row of their group |
| `JoinedAreNative` | both over the set a join left, whose lanes stand in the order of its pairs |
| `GlobalIsNative` | the aggregate without GROUP BY is native's |
| `ListJoinIsNative` | a join of two lists pairs each probe row that has a match with the first build row of its key, once |
| `JoinsAreNative` | row pairs and sums of a resident join are native's |
| `WidthIsStorage` | the operators before the exact path give native's sums modulo a word at every width of the keys |
| `TopKIsARanking` | no row left out of a top-k ranks before one in it |
| `DecisionTrue` | a statement reports its own dispatch |
| `RowsOnce` | the rows handed to DuckDB are the beginning of the operator's answer, whatever the chunks and the other callers |
| `ExactOneSide` | an exact set lives on one side, and a refused upload leaves none |
| `LanesInRowOrder` | lanes hold the table in row-id order whatever order threads delivered it in |

The instance runs programs of up to eleven statements over every table of three rows of
five kinds, chosen tables of up to three, joins with a NULL in the build side,
lists with repeated and colliding keys, wider tables for the selection, and
interleaved callers that share names and a failing device. Rows are few
because the operators treat rows alike: two make a group, a run or a repeated
key, a third a second group. `DirectMax` 1 and `SelectShare` 2 put both sides
of each threshold within reach of three groups. Symmetry and views are not
used.

### Limits found, for which no run is spent

* `check_i64` (`cuda_aggregator.cpp:2017`) looks at the type and not at the
  stored width, and `reduce_i64_resident`, `groupby_common` and the join payload
  read a narrow lane of an exact set as 8-byte words; only `ensure_sort_cache`
  refuses one. `docs/RESIDENT_COLUMNS_DESIGN.md:56` says "Width is a storage
  detail. The interface stays `I64` / `F64`; a backend may store a lane narrower
  when its values fit and widens on load." It is reached by
  `gpu_sum_resident` and by the plain GROUP BY over an exact set.
  `WidthIsStorage` leaves these calls out by name (`Misread`); `Narrow` is what
  the read may then find.
* `topk_resident` ranks a NULL of an exact column as 0: `TopKIsARanking` is
  stated for columns without NULLs, and the instance asks it only of them.
* Above `kMaxCap` distinct build keys the hash table of the list join loses
  rows without an error. The instance stays below its `MaxCap`, and so do the
  theorems (`Pairings`).
* With a filter, the passes of the payloads that are not the primary are capped
  on all their groups, though `gpu_backend.hpp:238` says that `max_groups` bounds
  the rows returned: such a call fails where it need not.

## 8. What is proved

`ResidentRegistryProofs` (TLAPS) proves for every value of the constants, under
`NamesAssumption`, `BoundsAssumption` and `LogHasRoom` (finitely many tables,
no more of them than the log has records):

* `Inductive`: `Spec => []RegistryInv`. `RegistryInv` has one part per
  structure: the log equals the history of invalidations (`LogExact`), a store
  holds one column per lane, none older than the table's last invalidation
  (`StoresSound`), set objects are well formed and joins are flat
  (`SetsSound`), what is registered and not stale is fresh (`RegistrySound`),
  only views are revived (`RevivedSound`), a thread holds nothing older than
  its call (`ThreadsSound`), and an open session is current (`SessionsSound`).
  None of the properties is inductive alone: `ServedFresh` needs to know what a
  thread held two steps before, `PublishedFresh` that the log has the record.
* `TypeCorrect`, `PublishedIsFresh`, `ServedIsFresh`, `JoinsAreFlat`,
  `OpenSessionsAreCurrent` follow from it.
* `StaleStays`: the action property `StaleSticks`.
* `StoresImplementCache`: every step of the registry is a step of `FreshCache`
  or leaves its variables alone.

The proof describes a step by what it may do to set objects (`Grows`), to names
(`Registers`) and to one thread, has one lemma per structure, and one step per
action in the theorem.

`UploadPoolProofs` proves, under `PoolAssumption`, for any number of
statements, states, names, texts and caps:

* `PoolSound`: `Spec => []PoolInv`. `PoolInv` says of a buffer that its rows come
  with the name set first (`RowsSound`), that a named buffer without rows is
  about to receive some or failed (`NamedEmpty`), of a combine between its two
  steps that the source stands still and fits (`CombineSound`), of an append
  that `registry_mu` is held and the session still takes the segment
  (`SegmentSound`), and of a session what its segments fixed (`SessionSound`).
  `OneName` and `SeqIsOldest` alone are not inductive: the second step of a
  combine relies on what the first compared.
* `NamesStayApart`, `OldestSurvives` and `KindStays` follow.

Most callbacks work on one state; the lemma `StateStep` says that such a step
keeps the invariant if its own state is sound again, and every action has one
lemma.

The second half of the module proves, from `PoolInv` and under the same
assumption, which orders the two caps in no way:

* `PoolBalances`: `Spec => []PoolBalanced`, `OvershootIsBounded`:
  `Spec => []OvershootBounded`, and `NeverBelowZero`: the unsigned count never
  wraps. The strengthening is `PoolCounted`: a callback that neither borrows nor
  finishes holds nothing beside its buffer, and a buffer that is gone holds
  nothing (`Settled`, without which a path that gives back twice balances);
  only finitely many rows are charged to sessions, however many names there
  are; and each reservation in flight is below the cap by itself, which is what
  the unlocked check still guarantees.

A step changes the sums at one buffer, one session and one callback at most;
`TotalChanges` gives the new sum for a change at one index, and every action
comes down to the arithmetic of a few summands.

`ResidentCallProofs` proves, under `CallAssumption`, for any number of callers
and whatever the pure functions answer:

* `CallSound`: `Spec => []CallInv`. A caller inside an operator holds the mutex
  its operator takes (`InsideLocked`); when its backend has run and its call
  reports a decision, the planner's process-wide last decision is still the one
  it was placed by (`RanIsLast`). The argument: whoever writes the last decision
  holds the device lock, the one operator that runs under another mutex, the
  list join, does not write it, and neither do the uploads, which hold none.
* `DecisionsAreTrue` follows. `DecisionTrue` alone is not inductive: it says
  nothing of the time between a run and the copy.
* `AnswerSound`: `Spec => []AnswerInv`. From the operator's
  return to the last chunk `res` is what the operator answers over the sets the
  statement acquired, although the lock was released and other callers publish
  and run (`AnswerStays`); before that nothing was handed out, and an answer that
  is a sequence of rows is handed out from its beginning.
* `WholeAnswers`: when the rows are through, a caller holds one whole answer over
  the device and those sets. `RowsAreOnce`: every row once and in order. Both are
  about answers that are sequences: the operators are constants here, so
  `RowsAreOnce` has that as its hypothesis `RowsAnswered` (the C++ calls fill
  vectors). The theorems of `AnswerProofs` discharge it for their operators.

`CallSetProofs` proves, for `ResidentCall` with the functions of `SqlFunctions`
(`Instantiated`: the substitutions of `MCCalls.cfg`), for every scenario,
caller, table, type and outcome of the device:

* `SidesSound`: `Spec => []SideInv`. Sets published, acquired by a join or about
  to be published have their lanes on the planner's side. The argument: an exact
  upload returns lanes of the planner's side or an error (`ExactUpload`), a join
  leaves its lanes where its probe key lives (`JoinedOn`), and no other function
  publishes a set.
* `ExactSetsOnOneSide` follows. Of the programs it asks `ProgramAssumption`: the
  statements are those of the SQL functions and a join names its probe. TLC
  evaluates it for the programs of the instance.

`OperatorProofs` proves, for every width of a byte (`ValuesAssumption`), what the
steps of the operators compute:

* 128-bit sums (`SumsCommute`, `SumsAssociate`, `SumsAreExact`, `WordsAreExact`,
  `LimbsAreOrdered`): two limbs with a carry are the number they stand for as long
  as it fits, may be added in any order and grouping even when it does not, and
  compare as numbers.
* Partial aggregates (`PartsCommute`, `PartsAssociate`, `NothingAddsNothing`,
  `RowsAreParts`): what chunks, halves of a reduction, replicas and idle workers
  leave may be combined in any order and grouping, and adding a row is combining
  with the aggregate of that row.
* `LanesReadBack`: a lane packed at the narrowest width reads back cell by cell.
* `DoublesAreOrdered`: the sort key of a bit pattern orders as the number does.
* `HostWhereIsNative`, `DeviceWhereIsNative`: a WHERE program keeps native's rows,
  over host columns and over packed lanes. Its hypotheses: cells are words or
  NULL, lanes are read without an index, and terms are those the binder lets
  through (a known comparison with numbers).
* `TopKRanks`, `DeviceTopKRanks`: both top-k's are rankings. A sort is modelled
  by its contract (`InOrder`: the element of each rank), and the lemma
  `RanksEnumerate` shows that for a strict total order this lists every element
  once, ascending; the comparison of the CPU and the keys of the device are
  both such orders. The device's key (`F64OrderKey`) is finer than the CPU's: it
  puts -0.0 before 0.0, which the CPU leaves to the row number. `DeviceKeyIs`
  has the one value on which they differ, and the ranking is native's with
  either.

`AggregateProofs` proves what the folds over rows compute, for any number of
rows:

* `DeviceReducesAsHost`: the halves of a range, combined, give the accumulator
  the host builds row by row.
* `HostGlobalIsNative`, `DeviceGlobalIsNative`: for any columns that show a table
  of words and NULLs, any WHERE program and any way of cutting the rows into
  chunks, the aggregates of the CPU and of the device are native's count, sum,
  minimum and maximum of the rows kept; the device may refuse a lane instead.

* `HostGroupsAreNative`, `DeviceGroupsAreNative`: GROUP BY with a WHERE program,
  HAVING or top-k gives native's groups, on the CPU and over lanes packed at any
  width, or the call is refused.
* `HostListJoin`, `HashTableJoins`: the join of two lists of any length pairs each
  probe row that has a match with the first build row of its key, once. For the
  device the order its threads insert rows in, and the one they look them up in,
  are any permutations; the hash is the model's, a key modulo the slots.

The library's induction theorems take a predicate as a parameter, which the
provers cannot instantiate. Here a predicate is the set of the numbers, or of the
sequences, that satisfy it (`CountUp`), which says the same to first order. A
`FoldLeft` is a recursive function on the subsets of the positions; its
existence and its step are proved first, and from them that a fold of
`Combined` over the parts is the accumulator of the rows they were made from.
A table has at most `W` rows (`IsTable`), so a sum of words fits its two limbs.

The argument for GROUP BY has three parts. Both backends list one row for each
key of the rows kept, ascending and NULL last (`ListsGroups`): the host because
it takes the positions of a key together, the device because the sort cache
orders the rows by key, so that a run of equal keys is all the rows of one, and
because the direct reduction has one slot per key in reach. Whatever replicas
and halves did, a row is the accumulator of its key's rows (`Pictures`). HAVING
keeps the survivors and top-k the first of them in an order that puts NULL last
and breaks ties by key (`FilterIs`); `Survives` and `Ahead` of native say the
same of the group a row stands for (`ChosenIsAnswer`).

The argument for the hash table is the invariant `TableInv` of its loop, after any
of the build rows in any order: an occupied slot has the least row of its key so
far (`LeastRows`), no key has two slots (`OneSlot`), and on the chain of a key
that is in, no empty slot comes before it (`ReachedBy`). Fewer rows than slots leave
one free (`SlotIsFree`), so the next row finds its key or a place for it, and the
probe stops. That is why a full table is excluded: in the code, too, it loses
rows.

`AnswerProofs` proves, for `ResidentCall` with the functions of `SqlFunctions`
(`Instantiated`) and under `ProgramAssumption` and `TableAssumption`, which TLC
evaluates for the programs of the instance:

* `UploadsShowTheirTable`: an upload that succeeds leaves lanes that hold its
  table cell by cell. The argument for a column upload: the rows buffered over
  all states and calls are those of the scan (`Merge` and `Updated` lose none),
  laying the chunks end to end by their first row id is in order exactly when
  `MustPlace` finds nothing, and otherwise the rank of a row id is its place.
* `SetsAreShown`: the inductive invariant `ShownInv`. A set published under a
  name that no join writes shows the table it was uploaded from, and so does
  every set a statement holds and every one about to be published.
* `UploadsInRowOrder`: `Spec => []LanesInRowOrder`.
* `GlobalsAreNative`: `Spec => []GlobalIsNative`, from
  `SetsAreShown`, `SidesSound`, `WholeAnswers` and the two theorems about the
  aggregates. It assumes of the markers of the model that no column is
  `NoLane` (`Apart`) and that `Unread` is no limb, and that a call over sets of
  two sides is rejected (`RejectFn` is `TwoSided`).
* `GroupingsAreNative`: `Spec => []GroupsAreNative`, in the same way from the two
  theorems about GROUP BY, with the invariant `HeldInv`: from their acquisition
  to the last chunk the sets of a statement are on the planner's side, so that
  one of the three ways to run an operator applies. A backend that fills only
  what it was asked for leaves `Unread` in the other columns (`Leaves`);
  `RowIsNative` shows that what DuckDB projects was asked for, the counts that
  make a sum NULL included.
* `PayloadsAreAligned`: `Spec => []PayloadsAligned`. Every pass gives native's
  groups for its own payload. The passes without a filter list all the groups by
  key, and two ascending lists of the same keys are one (`SameKeys`); with a
  filter a row of the primary pass finds its group in a full pass by its key
  (`AlignedShows`). The columns shown are in what each pass was asked for
  (`WantedIs`), and the rows the table function makes are as many as the
  primary pass has.
* `TopKsAreRankings`: `Spec => []TopKIsARanking`, from `TopKRanks` and
  `DeviceTopKRanks`, with `BoundInv`: a call that runs passed its bind checks, so
  its `k` is not negative.
* `ListJoinsAreNative`: `Spec => []ListJoinIsNative`, from `HostListJoin`,
  `HashTableJoins` and `WholeAnswers`. Its lists come with the call, so nothing
  has to be known of the sets.

What a statement may ask is in `Programs`: tables of words or NULLs, scans that
deliver every row of the table and no other, lanes that exist, terms the binder
lets through, of the statements bind takes the filters the SQL functions parse
(`IsFilter`), a key among the
columns of a GROUP BY, and aggregates over uploaded sets. The last is a limit of
the theorems and not of the code: lanes a join wrote are in the order of its
pairs, so GROUP BY over them is a property of its own (`JoinedAreNative`).

`ResidencyManagerProofs` proves, under `ManagerAssumption` (derived sets are one
level deep), for any sets, sources, budgets, segments, writes and attempts:

* `ManagerSound`: `Spec => []ManagerInv`. A set is ready or uploading only over
  ready sources (`SourcesReady`); only the worker's set is uploading
  (`OneUpload`) and it is never ready meanwhile (`WorkNotReady`); nothing is
  ready, uploading or queued while a write drops the stores (`DropClean`); the
  victim of an eviction is not a source of the set being loaded and is gone
  already (`EvictSound`); a ready set the extension does not hold is the one
  about to be marked (`HeldOrMarked`); a set an operator ran out of memory over
  stays refused (`RefusalStands`). These are `SetsInv`; the last conjunct is
  `PostHeld`: while the worker sorts, its set's lanes are there, or the epoch has
  moved, or a stale answer is between its drop and its marking. Without it the
  set called ready after the last interrupted try of `_post_step`, which nobody
  looks at again, could be one the extension lost.
* `ReadySetsAreHeld` and `MemoryRefusalsStand` follow. Alone neither is
  inductive: publishing a source drops what is derived from it, which is sound
  only because a set derived from a source that is not ready is not ready
  itself, and that in turn needs every step that demotes a source to demote what
  is derived from it.
* `SessionSound`: `Spec => []SessionInv`, the worker's count of segments against
  what the session holds: equal, except that an interrupted segment may have
  landed uncounted until `Check` looks (`SessionCounted`).
* `SegmentsAreOnce` follows.
* `TypesSound`: `Spec => []TypeInv`, and `TypesHold`, the type invariant. The
  type of `inFlight` needs to know when the connection counts as in flight, and
  that of `done` that the worker stops at the last segment.

The second half of the module proves, from the invariants above and under
`SeveralSegments` (where a write may come, tables have more than one segment):

* `VersionSound`: `Spec => []VersionInv`. What is held in full was read no earlier
  than the snapshot the files are compared with (`StoresCurrent`), and so was
  what the open session collected and the segment now running
  (`SessionCurrent`), except while a write or a foreign change is dropping
  it; from the drop to the end of a write nothing is queued or built but for one
  segment that an overtaken upload publishes by itself (`WriteClean`); a set in
  use is not built again before its statement is answered (`InUse`); an evicted
  source has no derived set left (`EvictAlone`).
* `ServedIsCurrent` follows. Without the hypothesis it is false: `MCOneSegment`
  is the counterexample, in which the one segment of `WriteClean` is a whole
  table.

An outcome of the worker's round (`Settle`, `Fail`, `OnHost`) has one lemma over all the
steps that end a round, and `Proceeds`, `Answers` and `Stutters` do the same for
steps that move only the worker, only the connection or neither.

Only model-checked: the violation runs, and of `MCCalls` `TypeOK`,
`JoinsAreNative`, `JoinedAreNative` and `WidthIsStorage`. The pairs and sums of a
resident join and the bytes of the radix selection each need an induction of
their own, and a GROUP BY over joined lanes that native's groups do not depend
on the order of the rows. `TypeOK` is the type of the instance's values.
Liveness (`Lands`) is out of the prover's reach and stays with TLC; the registry has no
obligation to make progress of its own, and its specification states no
fairness.

## 9. Not modelled

* The rewriters (`_rewrite.py` and its siblings, `gpu_rewrite.cpp`): pure
  functions whose correctness is SQL equivalence.
* Sums of doubles (rounding and order), `native_avg`'s rounding, `join_index`,
  and of the Metal backend everything but its habit of filling only the vectors
  asked for.
* The planner of the benchmarks' GROUP BY, the probing of devices, measured
  thresholds, the sizes of segments and the length of waits.
* `upload_now` (eager uploads) and `mark_ready`, several cursors of a
  connection, transactions and classification of statements.
* Device allocations within an operator: it fails as a whole.
* Hash maps of the host, string formats of tags, JSON of the status calls,
  timing and statistics.
* Memory ordering weaker than sequential consistency: the code's relaxed
  counters are modelled as atomic reads and writes.
