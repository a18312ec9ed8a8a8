# Verification of dr-strange

dr-strange is an embedded property-graph database with vector and keyword indexes, a command line, a web
server, an MCP server and a replication feed. This directory holds TLA+ models of the parts of it where
interleavings, crashes and message loss decide whether it is correct, the TLC configurations that check
them on small instances, and theorems about them that TLAPS checks for every value of the constants.

Paths below are relative to the repository; `core` is `crates/dr-strange-core/src`, `native` is
`core/storage/native`. Every definition that models code is tied to its lines under `map` in
`PROJECT.json`; definitions whose comment begins with "Slip:" are plausible mistakes in the definition
that follows them, used only to see that a property notices them (`mutants` in `PROJECT.json`).

## 1. The system

| component | state | operations | correct when |
|---|---|---|---|
| writer gate (`native/mod.rs` `WriteGate`) | a flag under a mutex, a condition variable, the timeout | acquire with or without a limit, drop | one writer at a time, no waiter left asleep beside a free slot, a bounded wait ends, Timeout only when the slot is taken |
| LSM reads and version collection (`native/mod.rs`, `native/sst.rs`) | none | point read, range overlay, merge, collection under a floor | both kinds of read agree; collection changes no read that may still be made |
| native engine (`native/mod.rs`) | memtable, runs, committed sequence, reader registry, retention window | begin_read, begin_read_at, begin_write, commit, commit_at_least, apply_replicated, flush, compaction, set_retention | snapshot isolation, atomic batches, time travel inside the window, bounded memory and fan-out |
| log, files, recovery (`native/mod.rs`, `native/sst.rs`) | the log's bytes, the directory, both as of their last fsync | append, fsync, rename, sync_dir, cut, unlink, replay, open, upgrade_runs | nothing committed is lost, nothing deleted returns, no sequence or file number used twice |
| SST format (`native/sst.rs`) | blocks, index, Bloom filter, checksums | write, get, scan | a file answers as the set of its entries |
| memory and redb engines (`core/storage/memory.rs`, `redb_backend.rs`) | a copy-on-write map; a redb file | the same trait | same promise as the native engine |
| graph storage (`core/storage/graph`, `WriteTxn` in `core/api/mod.rs`) | node and edge records, two adjacency tables, label and key lookups, the dictionaries of names, id counters, planes, summary counters | create, update, delete, bulk load, upsert, drop and create planes, restore | every derived table mirrors the records, counters count, ids are never reused, a restored store is the source's |
| graph cache (`core/api/cache`) | entries stamped with a commit sequence and shared by all snapshots, a generation | get, put, invalidate_all | an entry served is what the reader's snapshot holds |
| index registries and sidecars (`core/api/mod.rs`, `core/index.rs`, `core/api/snapshot.rs`) | the in-memory indexes, the diverged flag, files stamped with a commit sequence | mirror events after commit, declare, save, load, dump | the index is an index of the data, a stamp that matches is valid |
| database API (`core/api/mod.rs`) | change buffer of a transaction, query history | change sets, as-of by sequence or time | a change set tells what the commit did or that it cannot, as-of finds the snapshot that was current |
| vector and keyword indexes (`core/storage/hnsw.rs`, `core/keyword.rs`) | HNSW layers, postings | upsert, remove, search | links stay inside the graph, removed items are not found |
| compute (`core/compute`) | per query | query execution, graph algorithms | equal to their definitions |
| instances and attachments (`core/instance.rs`, `core/attach.rs`) | open databases of a process; attachments in a plane's properties | mount, unmount, attach | one handle per directory, an attachment survives what is done to the plane's contents |
| replication (`web/src/follow.rs`, `web/src/server.rs`, the CLI's follow loop) | broadcast receiver, socket, backlog, tail, cutover, the replica | subscribe, pull, restore, drain, apply, resync | nothing missed, nothing twice, in order, eventually caught up |
| synchronisation (`llm/src/preprocess`, `llm/src/vectorize.rs`) | a plane of parser-owned nodes, its properties (commit, plugins, mark of a rebuild), vectors | fold a tree, rebuild, embed | a fold converges on the tree's facts and leaves what is not the parser's; a plane is what it says it is |
| watch loop (`cli/src/commands.rs`), rebuild tool (`mcp/src/lib.rs`) | the commit folded last, the one recorded | poll, fold, record, catch up, rebuild | a restart folds the gap, HEAD is reached |
| web server, other MCP tools | sessions, limiter, relay | RPC, tool calls | requests are authorised and end |
| language-model pipeline | staged digests | digest, ask, refine | an interrupted pass can be repeated |
| parser, utilities, logging, network, Python bindings | none of their own | conversions and I/O | |

**How they interact.** The API layer opens read and write transactions of the engine. A write transaction
holds the writer gate from `begin_write` to the end of the engine's commit, maintenance included. The
engine's commit appends to the log, fsyncs, calls the WAL observer (which feeds replication), publishes to
the memtable, and then flushes and compacts when due. After the engine's commit has returned, and with the
gate free again, the API applies the transaction's events to the in-memory registries under their locks. A
snapshot takes the registries' locks first and a read transaction under them. A replica restores a master's
snapshot into an empty store and applies raw batches at the master's own sequences; each landed batch is
mirrored into its indexes and clears its cache after it has become visible. Queries read through a cache that
all snapshots share. Above all this, the watch loop routes a repository through the plugins and folds the
result into a plane, beside digests and users that write the same plane, an embedder that fills in vectors,
and a tool that may rebuild the plane under it.

**What is hard.** Readers that pick a snapshot while a compaction computes what it may drop; power failures
between a rename, a directory fsync and the cut of the log; commits whose side effects happen in another
order than the commits; a bootstrap that splices a snapshot to a live stream across two processes; bounded
queues that fill; errors half way through multi-step maintenance; plans made on a snapshot and carried out in
a later transaction; properties read in one transaction and written back in another; a cache shared by
readers of different ages. The `hazards` list of `PROJECT.json` has
them line by line with the properties that would notice.

## 2. The modules

| module | models | extends or uses |
|---|---|---|
| `WriteGate` | the writer slot | |
| `LsmOps` | reads, merge and collection as operators on sets of entries | |
| `SnapshotStore` | what an engine promises: one map, whole batches, readers that keep the map they opened | `LsmOps` |
| `NativeEngine` | the running engine, one step per lock region | `LsmOps`; refines `SnapshotStore` |
| `NativeRecovery` | the engine's files, crashes, I/O errors, reopening, upgrade | `LsmOps` |
| `Replication` | master, socket, follower | |
| `IndexMirror` | the registries beside the data, dropped planes, sidecars, snapshots and their restore, crashes, the replica's mirroring | |
| `GraphStore` | the graph's tables, the write transaction, planes, change sets, restore | |
| `GraphCache` | the shared cache, readers of all ages, as-of, foreign commits | |
| `PlaneFold` | a fold, the embedding pass and other writers on one plane | |
| `WatchLoop` | the watch loop, the rebuild tool, the plane's properties, crashes | |
| `Hnsw` | the vector index: insert, upsert, remove, search, the parallel build; beside it the exact index | |
| `LsmOpsProofs`, `NativeEngineProofs` (with `WriteGate`'s), `NativeRecoveryProofs`, `ReplicationProofs`, `IndexMirrorProofs`, `GraphProofs` (`GraphStore` and `GraphCache`), `PlaneFoldProofs`, `WatchLoopProofs` | theorems | the module they are about; the engine's and the recovery's use `LsmOpsProofs` |
| `MC*` | constants for TLC | the module they instantiate |

**WriteGate.** `held` is the mutex-protected flag, `pc[t]` says whether thread `t` is idle, parked on the
condition variable, awake but not yet back under the mutex, or holding. A mutex region is one step.
`notify_one` moves one parked thread to awake; a spurious return and a timeout do the same on their own.
The deadline is a flag that time sets at any moment after a bounded acquire began.

**LsmOps.** An entry is a key, a sequence and an operation. A run and the memtable are sets of entries; the
table number and key bytes are one model key. `CommittedGet` goes from the newest source to the oldest and
stops at the first hit, `CommittedValues` overlays from the oldest: the two ways the code reads. `Merge` and
`GcVersions` are what `MergeIter` and `GcIter` yield. The streaming itself is abstracted to its result.

**NativeEngine.** The gate's owner is the only writer, so the writer is one program counter whose values are
the points between two lock regions of `durable_commit`, `maybe_flush` and `maybe_compact`. Opening a reader
takes two steps, choosing the snapshot and registering it, with the store's read lock held in between:
publishing and swapping wait for it, computing `min_snapshot` does not. The compaction's floor is put
together in two steps because the readers' mutex is released before the retention window is read. `log` (all
that was ever committed) and `gcFloor` are history variables for the properties.

**NativeRecovery.** The log is a sequence of records, of which `walSafe` is fsynced; the directory is a set of
files, of which `dirSafe` is fsynced and `dirOps` are the renames and unlinks since. After a crash, of the
unsynced log records any prefix survives, the last one possibly torn; of the directory operations any prefix
does, since the code relies on an ordered journal (`native/mod.rs`, the comment over compaction's unlinks).
An I/O error may hit every step; the code's reaction (commit's `Err`, a maintenance pass that ends, an
upgrade that stops) is an action of its own. `Exposed` names three windows in which stopping the process
costs data (section 5). The passing run keeps out of them; `Windows` says which of them a run may enter. A store
may be found with runs on it: `Whole` says what earlier processes leave (`StoresAssumption`).

**Replication.** The data is, per key, the sequence of its last write, so no two states are confused. The
socket's buffers and the raw queue are one bounded stream. A snapshot is one step, since it is one read
transaction. The master keeps two sequences as the code does: the engine's (every batch) and the graph's
(not moved by recorded queries); the snapshot carries the latter and batches the former. The history variable
`past` has the published data after each batch. `Races` names the two subscription windows of section 5.

**IndexMirror.** A behaviour follows one declared index; `kind` says whether it is a vector or a keyword index.
Entries of the registries are kept one by one and in the same steps, so one index is enough, but the two kinds
part where something fails. The flag `indexes_diverged` is set by a vector event that fails after a commit (the
keyword events of that commit are applied all the same) and by an error in mirroring a replicated batch, which
takes both registries node by node in one pass: what is left of this index then is one of `Interrupted`. Only
the vector registry is withheld from a sidecar or rebuilt for a snapshot when the flag is set (`Suspect`).
`BatchFaults` says which kinds a failed batch may leave behind; with "keyword" among them the properties are
false (section 5). The gate, the commit, the mirroring under the registry's
lock, declaration (a commit, a read, a build), saving (a stamp, then the contents) and snapshots (locks, then
the read) are steps of their own. `Overlap` says which of them the schedule lets overlap with writers.
`drop_plane` is its transaction and then the registries; a restore is the empty check and the transaction that
lands the source's sequence, then the live registry, then the file, and a crash may fall between any two. The
source is any database that could have been dumped, with or without a usable index frame. Nobody else writes
during a restore: the command line holds the database alone and a follower restores into a directory it has
just made. `Leftovers` says what an empty target may still hold.
Where a store starts as a replica its writers are silent and batches of raw rows arrive instead: landing and
mirroring are two steps, and what is re-indexed is derived from the keys the batch touched and from the
declarations it carries (`mirror_replicated`), not from a transaction's events.

**GraphStore.** A store is a record with one field per table; `db` is the last commit, `tx` what the open
transaction sees; `ids`, `delta` and `changes` are its identifier batches, counter deltas and change buffer. Keys of the tables are the
tuples that `keys.rs` encodes. The label dictionary is kept, so that a name, its identifier and the lookups by
identifier can come apart; edge types, made by the same code, appear under their names. Each method of
`WriteTxn` is an action with everything it does to the tables, the counters and the change buffer; an abort
drops the staged tables and with them the identifiers reserved there. `Shipped` are snapshots of other stores: a restore replays the
records, overwrites the counters and recounts.

**GraphCache.** `hist[e]` is what a read at the engine's sequence `e` sees, with the graph's own sequence: a
recorded query adds a snapshot and no sequence, a restore may lift both. An insert into the cache is two steps,
its check of the generation and its store; a foreign commit is three, its landing, the bump of the generation
and the clear. `mode` is fixed in the initial state: in "fresh" everything interleaves and a restore lands above
all sequences, in "quiet" a restore may reuse a sequence while readers pause.

**PlaneFold.** A fold is four steps: routing the tree, reading the nodes, reading the edges, and the
transaction, which is refused or carried out as a whole. What it decides (`Deleted`, `Replaced`, `Patched`,
`Creates`, `EdgeCreates`, `EdgeDeletes`, `Saved`) are operators on what it *read*; what it does (`FoldedNodes`,
`FoldedEdges`) applies them to what is *there*. The embedding pass reads texts in one step and writes vectors in
another; `vec` and `from` keep apart the text a vector was made of and the text whose hash was written. Other
writers create, link and delete at any time.

**WatchLoop.** A tree's facts are a version number, and a fold makes the plane that version in one step
(`PlaneFold` is about that step). The loop's program counter goes through the transactions of `watch_loop`,
`poll_commits`, `fold_one_move`, `resync` and `record_sync_point`; the tool shares the steps of `resync`. All
properties of a plane are read and written back as one map, as the code does. `Windows` names five
interleavings the passing run leaves out (section 5).

**Hnsw.** Vectors are places on a line, or one of another dimension, which is infinitely far. Insert, upsert and
remove are whole actions (the registry's lock is held); search is an operator that the property calls. A search
of a layer is a state of candidates, seen and kept nodes and one turn of its loop, which the sequential search
folds and a building thread takes step by step, one per lock: an entry's snapshot, a candidate's list read, its
own links, one neighbour's links and pruning, its own pruning, the entry. `exact` is the brute-force index that
the code's tests measure against. Levels are arbitrary. Ties of distance, which the code leaves to the order
inside a heap, go to the older node. The candidate list kept at layer 0 is never cut (`M0`, `EfSearch` above the
number of nodes): with cuts the index is approximate by design, and recall is no property of every state.

## 3. The runs

Passing runs:

| run | checks | size |
|---|---|---|
| `write_gate` | `MutualExclusion`, `NoLostWakeup`, `TimeoutOnlyWhenHeld`; liveness `BoundedWaitEnds`, `SlotIsTaken` | 3 threads, 2 160 states |
| `engine` | `ReaderStable`, `AsOfFaithful`, `WriterReadsLatest`, `RangeAgreesWithGet`, `SequencesAdvance` | 1 key, 2 readers, 4 commits, 460 000 states |
| `engine_refines` | `ImplementsSnapshotStore` | 2 keys, 1 reader, 3 commits, changing window, 490 000 states |
| `recovery` | `NothingLost`, `HistoryKept`, `SequenceStands`, `RunsOnDisk` | 2 keys, 3 commits, 2 crashes, 1 error, 1 800 000 states |
| `replication` | `NothingMissed`, `PrefixConsistent`, `InOrder`; liveness `EventuallyCaughtUp` | 2 keys, 4 batches after the bootstrap, 2 losses, 124 000 states |
| `index_mirror` | `Coherent`, `StampValid`, `ImageCoherent` | 2 nodes, either kind of index, 2 writers or a replica's batches, 1 fault, 1 crash, 690 000 states |
| `graph_store` | `AdjacencyExact`, `LookupsExact`, `CountersExact`, `RestoreFaithful`, `FeedComplete`; action property `IdsNeverReused` | 2 keys, 2 labels, 2 types, 2 planes, 4 operations in any transactions, 467 000 states |
| `graph_cache` | `ReadsExact`, `AsOfExact` | 1 record, 2 readers, 4 snapshots, 2 images, 1 130 000 states |
| `plane_fold` | `WellFormed`, `SkippedAreCurrent`, `Converges`; action property `LeftStanding` | 18 trees over 2 symbols, 2 folds, 2 writes of others, 1 430 000 states |
| `watch` | `MarkerHonest`, `AttachmentsKept`, `InSync`; liveness `CatchesUp` | 3 commits, 2 plugin sets, 4 planes, 1 failure, 1 crash, 1 300 000 states |
| `hnsw` | `GraphWalkable`, `AgreesWithExact` | 3 ids, 2 layers, 4 changes or a batch of 3 by 2 threads and one change, 90 000 states |

One run ends in a counterexample that contradicts a sentence of the repository (section 5): `recovery_unlink`.

**Why the bounds are enough to be interesting.**

- *write_gate*: three threads are an owner, the waiter that is notified and one that overtakes it or times
  out; spurious wakes and expiry are unbounded.
- *engine*: with a flush threshold and a compaction trigger of one, a few commits go through several flushes
  and compactions, each with two readers of any age. Versions of one key are what collection distinguishes;
  two keys matter for atomic batches and are in `engine_refines`.
- *recovery*: threshold two and trigger one let records stay in the log across a flush; two crashes cover a
  crash during what the first one left; the store may start with two runs in the v1 format.
- *replication*: every queue has capacity one, the feed two, so each of them fills and the receiver lags;
  two losses cover a loss during the recovery from one.
- *index_mirror*: one crash and one fault with up to four commits cover a sidecar of any age and a
  divergence before and after it was written; a replica may restart between two batches; a restore lands any
  sequence up to five, on a new store or on one whose plane was dropped.
- *graph_store*: identifier batches of two and a change cap of two are used up by three operations; four
  operations are a node, its neighbour, the edge between them and what happens to them, in one transaction or
  several, with aborts, or a batch that merges into what is there; self-loops and parallel edges are included.
- *graph_cache*: one record is enough since entries do not interact; two readers are one that inserts and one
  that is served; four snapshots let a restore land on a used sequence, with commits before and after it.
- *plane_fold*: two symbols that change, move to another label, vanish and come back, a call between them whose
  content changes, and a third node that is not the parser's; the second fold meets what the first one, the
  embedder and two foreign writes left.
- *watch*: three commits, of which some change nothing, with checkouts between them; one failure and one
  crash anywhere, and a rebuild before, between or after.
- *hnsw*: three nodes on two layers with one neighbour allowed above the base, so the upper layer prunes;
  four changes are enough for the entry point to be upserted or removed and its successor after it; two
  threads with a seed and two nodes let one find the other's half-linked node, and its own.

`CHECK_DEADLOCK FALSE` is set where a bound stops the system (all runs but `write_gate` and the engine's, which
check for deadlock) and, in `watch`, where a server that has died need not be started again. Symmetry is used
where only safety is checked and the values are interchangeable: readers in `engine` and `graph_cache`, keys in
`engine_refines`, whose property is a step-wise refinement with no fairness.

**Fairness.** `WriteGate`: time passes, a runnable thread runs, a guard is dropped on every path out of a
transaction (RAII), so `Expire`, `TimeoutWake`, `Resume` and `Release` are weakly fair; nothing is assumed of
`Acquire` or `SpuriousWake`. `Replication`: each task of the two processes that can run does, so the steps of
the pipeline and of publication are weakly fair; graph writes, losses and failures are not. Weak fairness of
`Connect` is the reconnect loop of the CLI; `exited` is the one way out that the code has (a failed pull or
restore ends `serve`). The master rests because its sequence is bounded: the property is about what happens
after the last write. `WatchLoop`: the loop's thread and the tool's run, so `Loop` and `Tool` are weakly fair;
commits, checkouts, failures, crashes and starting anything are not. `CatchesUp` allows for what the code
says of itself: a failed fold is not retried before a restart, a plane without a recorded commit has no gap to
fold, and a rebuild that died leaves its mark.

## 4. What is proved

TLAPS checks 15 595 obligations. The assumptions on constants are the ones named in the modules: `Del`, `None`
and their like are no values, readers and a tree's facts are finite, windows, thresholds and bounds are
naturals, queues have room for one. The bounds (`MaxSeq` and its like) are arbitrary in the proofs. Some theorems
have a hypothesis of their own, a definition in the proof module, which the passing run satisfies. All but
`SourcesAsserted` say which of the races of section 5 are left out, each of which violates a property of its row.

| theorem | property | under |
|---|---|---|
| `WritersExclude`, `NotifyOneSuffices`, `TimeoutIsHonest` | `MutualExclusion`, `NoLostWakeup`, `TimeoutOnlyWhenHeld` | |
| `GetReadsTheUnion`, `GcKeepsReadsAboveFloor`, `RangeIsGet` | of the operators | |
| `TypeCorrect`, `SnapshotIsolation`, `WriterSeesLatest`, `SequencesOnlyAdvance` | `TypeOK`, `ReaderStable`, `WriterReadsLatest`, `SequencesAdvance` | |
| `EngineRefinesStore`, `RangeAgrees` | `ImplementsSnapshotStore`, `RangeAgreesWithGet` | |
| `TimeTravelFaithful` | `AsOfFaithful` | `FixedWindow`: the retention window is not changed |
| `LiveFilesAreKept` | `RunsOnDisk` | |
| `CommitsAreDurable`, `SnapshotsSurvive`, `SequencesAreNotReused` | `NothingLost`, `HistoryKept`, `SequenceStands` | `NoWindow`: the process does not stop in a window of `Exposed` |
| `BatchesInOrder` | `InOrder` | |
| `NoBatchMissed`, `ReplicaIsAPrefix` | `NothingMissed`, `PrefixConsistent` | `NoRace`: neither subscription window |
| `RegistriesCoherent`, `StampsValid` | `Coherent`, `StampValid` | `NoRace`: at most snapshots overlap with writers, an empty target has nothing left over, a failed batch leaves no keyword index behind |
| `ImagesCoherent` | `ImageCoherent` | `NoRace`, and snapshots do not overlap either |
| `AdjacencyIsExact`, `LookupsAreExact`, `SnapshotsRestore`, `IdentifiersAreFresh` | `AdjacencyExact`, `LookupsExact`, `RestoreFaithful`, `IdsNeverReused` | `OwnSnapshots`: restores are of this store's snapshots, into a new store |
| `CachedReadsExact`, `ResolvedAsOfIsExact` | `ReadsExact`, `AsOfExact` | `NoRace`: not the mode "racing" |
| `PlaneWellFormed`, `SkippedNodesCurrent`, `FoldsConverge` | `WellFormed`, `SkippedAreCurrent`, `Converges` | |
| `FoldLeavesStanding` | `LeftStanding` | `SourcesAsserted`: a tree that asserts an edge asserts the node it starts from |
| `MarkTellsTheTruth`, `RebuildsKeepAttachments`, `RecordedIsInSync` | `MarkerHonest`, `AttachmentsKept`, `InSync` | `NoWindow`: none of the five windows |

- **WriteGate** (proved in `NativeEngineProofs`), any set of threads. `WritersExclude` and `NotifyOneSuffices`
  follow from the inductive `GateInv` = type, exclusion and `NoLostWakeup`: a release wakes a parked thread if there is one, and a thread
  that gives up does so only while the slot is taken, so the owner's release is still to come.
  `TimeoutIsHonest` is the action property.
- **LsmOpsProofs**, any entries. `GetReadsTheUnion`: if every source is older than those read before it, the
  read that stops at the first hit is the read of the union. `GcKeepsReadsAboveFloor`: collecting under a
  floor changes no read at or above it. `MergeIsUnion`: merging runs that never hold two entries of one key and
  sequence gives their union. `RangeIsGet`: the overlay of any number of sources is the point read of each key.
  The overlay is a recursive function; a closed form is shown to solve its equation and, by a least
  counterexample, to be the only solution on the indices that are read.
- **NativeEngineProofs**, any keys, values, readers, thresholds and windows, the window changing at any time.
  `ReaderStable` is not inductive: it says nothing about a compaction under way.
  `Inv` adds
  - `Sources`: what is stored is part of what was committed, one version per key and sequence, in layers by
    age;
  - `Faithful`: no read at or above the highest floor ever applied has changed;
  - `WriterInv`: what the writer holds at each point (the runs it took are still the runs, the merged run is
    their collection);
  - `ReaderInv`: a live reader's snapshot is at or above every floor applied *and the one computed but not yet
    applied*, and a reader not yet registered holds the lock that keeps its snapshot the latest one.

  The last part is why the order in the code is right: `min_snapshot` can miss a reader that has picked its
  snapshot and not registered it, but then that snapshot is the latest commit, which no floor exceeds.

  `EngineRefinesStore` maps publishing to the store's commit, the moment a reader picks its snapshot to its begin
  and its drop to its end; a flush and a compaction map to stutters because `Faithful` holds at the latest
  commit and at every reader's snapshot, so no read the mapping makes is changed by them. `TimeTravelFaithful`
  adds `AsOfInv`: with one window, what `begin_read_at` accepts is above any floor that a compaction has applied
  or computed, since the readers are counted before the window is looked at and the window moves up only with
  commits, which wait for the pinned reader. With two windows the step from one to the other breaks it.
- **NativeRecoveryProofs**, any keys, values, thresholds and windows, any number of commits, crashes and I/O
  errors, any stores that are `Whole`.
  - `DirInv` alone gives `RunsOnDisk`, wherever the process stops: an operation that is not synced links the next
    number or unlinks one that no run has, so whatever prefix of the operations survives, the runs are there.
    `AfterOps` says of a whole sequence of operations what is left, so that no fold is needed.
  - `LogInv`: with three positions `a`, `bw` and `bs`, the memtable is what was committed after `a`, the log as
    written goes back to `bw`, the log as synced to `bs`, and a log that was cut has a run at least that new.
    `bw` and `bs` differ while a cut is not synced.
  - `FilesInv`: files and memtable together answer every read from the floor up as the history does (`Faithful`),
    and reading the file of the higher `max_seq` first is right (`Ordered`, `Covers`: where it has an older version
    of a key than another file, it has that file's version too, or one newer than that and not above the floor).
    While nothing was reclaimed this is so of the files already compacted as well, which a crash may leave.
  - `WriterInv`: what the writer holds at each phase, as in the engine's proof.
  - `DownInv`: what a crash leaves, that is any prefix of the unsynced directory operations with any prefix of the
    unsynced log, the last record of it torn or not, opens to the same history. The commit in flight is there as a
    whole or not at all, and `Open` adds it to the history when its record survived.

  `NoWindow` is used in one place, where a crash or a close establishes `DownInv`.
- **ReplicationProofs**, any keys, capacities, losses and restarts. `Inv` says that there are a position `lo`
  and a position `at` with which
  - `Base`, `History`: the master's data after each batch is on record, and a key holds the number of the last
    batch that wrote it;
  - `Stream`: tail, backlog, socket and broadcast, one after the other, are the batches after `lo` without a
    gap, and where the receiver is subscribed they go up to the last one;
  - `Cutover`: the snapshot, and later the replica, is at `at`, which is not before `lo`, except where a
    subscription came too late.

  `InOrder` needs `Stream` only and so holds in the races too. The other two need that applying a batch again
  or skipping one that the snapshot covers gives the master's data at the next position, which is why a key's
  value is its last batch. Where `aligned` fails, `at` is the engine's position and the cutover compares with
  another: batches are applied again, the end is right, and the states on the way are not claimed.
- **IndexMirrorProofs**, any nodes, values, writers, faults and crashes. `Apart` says who may be between two
  steps beside whom; `WriterKnows`, `BatchKnows` and `AdminKnows` say of a writer that has committed, of a
  replicated batch that has landed and of a declaration, save, drop or restore under way that what they still
  have to apply turns the registry into what a rebuild would give, or that it is a vector index and `diverged` is
  set. `Complete` says the same with nothing under way; for a keyword index it is more than `Coherent`, since the
  flag may be set by a vector event that failed beside it, and is what makes saving it right in that case.
  `StampsBehind`: no file has a sequence above the store's, so a commit makes every stamp stale at once.
- **GraphProofs**, the tables: any keys, names, planes, nodes, edges, label lists and upsert batches, batches of
  identifiers of any size. `Inv` says that `db` and `tx` are both `Good`, that is
  - `NodesOK`: the records, `nodePlane`, `labelIdx` and `extKeys` say the same, every id in use is below the
    counter, and every label id in use has a name in a dictionary that is a bijection below its own counter
    (`DictOK`);
  - `EdgesOK`: the adjacency tables are the edge records in both directions and no edge dangles;
  - `PlanesOK`: the plane rows and their names say the same;

  and that the transaction's identifiers are its own (`TxnOK`): what is left of a batch in hand lies at or above the
  counter of the last commit and below the transaction's, and no record is written under it yet, which is why an
  insert is always under a free id. For each of the functions that write tables (`InsertNodes`, `SetNodeLabels`,
  `InsertEdges`, `DeleteEdges`, `RetypeEdge`, `ForgetNode`, `DropPlaneRows`) a lemma says what it does to each table
  and another that a good store stays good; the actions follow from these. Deleting a node is right because what it
  finds in the two adjacency tables is every edge that names the node. `SnapshotsRestore` compares the store that
  `Replay` builds with one written by the same functions into a new store, and needs that the names in the frames
  are no more than the source's dictionary held, so that the counter taken from the source is above every id that
  the new dictionary gave. Where the target's dictionary is not empty this fails (section 5), hence `OwnSnapshots`.
- **GraphProofs**, the cache: any keys, values, readers and images. `Ordered`: from some snapshot on (the first in
  "fresh", the last foreign commit in "quiet") sequences do not fall and equal sequences mean equal data.
  `CacheFits` and `ReaderFits`: an entry, and what a reader that has passed its check is about to store, is what
  every snapshot of its sequence holds from there on. `ResolvedAsOfIsExact` is about a recursive function on
  pairs: the closed form ("the last position in the interval whose probe is not above the target") solves the
  equation of the halving, the interval shrinks in each call, and the least interval where they differ gives a
  contradiction.
- **PlaneFoldProofs**, any trees, keys, kinds, contents and foreign writes. `Fresh` and `StillSo`: ids are not
  reused, so a node that was read and is there has the key, label and owner it was read with. `UniqueKeys` of the
  plane and of what was read and `LiveEnds` give `WellFormed`: a transaction that would create a key that has
  come to be held is refused. `VectorsFrom` (`vec` and `from` are of one text) gives `SkippedAreCurrent`.
  `Undisturbed` (what was read is what is there until somebody else writes) is what `Converges` needs;
  `LeftStanding` is shown without it. `SourcesAsserted` is what parsers give and the fold does not check: without
  it an edge from a node that somebody else has the key of may be neither loaded nor attached again.
- **WatchLoopProofs**, any commits, plugins, rebuilds, failures and crashes. `Turns`: outside the windows one of
  the loop and the tool at most holds properties that it has read. `Named`: a plane that names a commit with the
  files of the present one holds these files or bears the mark. `Process`: at each program counter, what the
  process holds is what it read, the properties it will write back included. `Looping` compares the commit the
  loop has folded with the one that is recorded. `Carried`: where there is no plane, a rebuild
  has its attachments in hand. The plane's mark is what makes `Named` survive a crash at any of the rebuild's steps.

**How the invariants were found.** Each inductive invariant was first an invariant of a TLC run on the bounds of
section 3, then proved.

**Only model-checked.**
- Liveness (`BoundedWaitEnds`, `SlotIsTaken`, `EventuallyCaughtUp`, `CatchesUp`): fairness is out of the
  prover's reach.
- `Hnsw`: searches fold over lists of candidates and `AgreesWithExact` is about what the fold returns, which is
  induction over data.
- `GraphStore`: `CountersExact` and `FeedComplete` compare the tables with sums over a plane and with what a fold
  over a batch has pushed, which is induction over data as well.

## 5. Where the code and its documentation disagree

The first is a run whose trace TLC prints.

- **recovery_unlink.** Compaction unlinks newest run first (`native/mod.rs:713`). A crash in between leaves an
  older run's put without the newer run's tombstone; the merged run has dropped both. `arch/01-storage.md:248`
  says this order prevents exactly that.

The same modules show more under other constants, not kept as runs. Each is checked outside its window by a
passing run, and the window is a named constant or a named condition of the property.

- `Hnsw`, without the condition `~stranded` of `AgreesWithExact`: `insert` of an id that is there tombstones the old
  node (`core/storage/hnsw.rs:756`) and, unlike `remove`, hands on no role. Two inserts of one id into an empty
  index are enough: the entry is a tombstone, the search for neighbours keeps no tombstone, and the new node gets
  no link, as does every later one, until one is taller than `top_layer`. None of them is found by a search, and
  the graph passes `is_wellformed`, so a sidecar carries it over a restart. `arch/01-storage.md:197` says "`entry`
  and `top_layer` always agree with a live node".
- `GraphStore`, `Shipped <- NewStoreShipped`, `LookupsExact`: a restore takes place in a store that holds no node
  (`core/api/snapshot.rs:276`), but the dictionary of such a store may hold names, and the restore overwrites its
  counters by the source's (`core/storage/graph/meta.rs:164`). A store whose only node was deleted, restored from
  a snapshot of a store that has just been created, interns its next label under an identifier that another
  label has. The comment above says that a restored database allocates "past everything it just loaded".
- `NativeEngine`, several `Retentions`, `AsOfFaithful`: `begin_read_at` compares with a floor computed from the
  window of now (`native/mod.rs:548`; the comment at `:536` promises a snapshot that is still whole). After
  `set_retention` widened it, snapshots are accepted whose versions are gone.
- `NativeRecovery`, `Windows = {"upgrade"}`, a v1 run below a v2 run: the rewrite gets the next number
  (`native/mod.rs:627`; `:605`) and runs are ordered by number on open, so an old run comes back on top.
- `NativeRecovery`, `Windows = {"log"}`, a torn append: a half-written record stays in the log with the cursor
  behind it (`native/mod.rs:1274`; `arch/01-storage.md:227`); later commits return `Ok` and are behind the point
  where replay stops.
- `Replication`, `Races = {"lateSubscribe"}`: the subscription is made by a spawned task (`web/src/server.rs:1202`;
  `web/src/follow.rs:93`), after the follower may have pulled its snapshot; a commit in between is in neither.
- `IndexMirror`, `Kinds = {"keyword"}`, `BatchFaults = {"keyword"}`: an error while a replicated batch is mirrored may
  leave the keyword registry behind as well as the vector registry (`core/api/mod.rs:610`, one pass over both), and
  sets `indexes_diverged`, which is heeded for the vector registry only.
  - `StampValid`, `Coherent`: `save_sidecars` withholds the `.hnsw` file and writes the stale registry to the `.bm25`
    file with the current stamp (`:519`). The next open finds the stamp right, loads the file and starts with the
    flag clear (a batch with a declaration, its failed mirroring, a save, the end of the process and an open are
    enough). `:593` says that the registries "have diverged from the KV and will be rebuilt on the next open",
    `:488` that "the stamp is always valid", `:416` that the keyword indexes are "Managed exactly like `indexes`".
  - `ImageCoherent`: `snapshot` rebuilds the vector registry and ships the live keyword registry
    (`core/api/snapshot.rs:124`, `:216`). The comment at `:120` says that a registry that diverged "must not be
    embedded — a restore would load it verbatim", and `arch/04-api.md:111` that `restore` "always leaves the live
    vector and keyword registries matching the restored data".

  On a master the keyword registry is not put behind: its events cannot fail, and they are applied when a vector
  event of the same commit has failed. This is checked and proved.
- `IndexMirror`, `Overlap = {"writers"}`: commits release the gate before their events are mirrored
  (`core/api/mod.rs:2302`; `:487`), so two can be mirrored in the opposite order.

- `NativeRecovery`, `Windows = {"upgrade"}`, two v1 runs and one crash: stopping between two rewrites of the
  upgrade reorders the runs (`native/mod.rs:610`, "safe to interrupt").
- `NativeRecovery`, `Windows = {"log"}`, a failed fsync: `commit` returns `Err`, and the record is replayed on the
  next open (`native/mod.rs:1276`; `arch/01-storage.md:236`, "`Err` meaning nothing landed").
- `NativeRecovery`, `Windows = {"unlink"}`, an unlink that fails without a crash: the leftover file is read at
  the next open with the same effect as `recovery_unlink`.
- `Replication`, `Races = {"midCommit"}`: a subscription that falls between a commit's notification and its
  publication (`native/mod.rs:1310`), with the snapshot too, misses the commit.
- `Replication`, without the condition `aligned` in `PrefixConsistent`: a snapshot carries the graph's sequence
  (`core/api/snapshot.rs:130`) and the cutover compares it with the engine's; after recorded queries, batches
  that the snapshot covers are applied again, and a replica can step back before it catches up.
- `IndexMirror`, `Overlap` = `{"declare"}`, `{"save"}` or `{"snapshot"}`: an index declared, a sidecar stamped or
  a snapshot taken while a writer is between its commit and its events (`core/api/mod.rs:1461`, `:487`;
  `core/api/snapshot.rs:116`).
- `IndexMirror`, `Leftovers = {"declaration"}`: `refuse_non_empty` looks for planes and nodes only
  (`core/api/snapshot.rs:276`), so a target may have declared an index; its row stays, and the shipped registry that
  replaces the live one does not have the index, nor does the sidecar then written (`:295`, "The live registries are
  what every search reads").
- `IndexMirror`, `Leftovers = {"sidecar"}`: a target emptied of its nodes may keep a sidecar with the sequence that
  the restore lands, or a later one; if the new file is not written, it is loaded when its stamp comes up, where the
  comment says that the next open rebuilds (`core/api/snapshot.rs:347`).
- `GraphCache`, `Modes = {"racing"}`, `ReadsExact`: an insert that passed its check (`core/api/cache/store.rs:113`)
  can store after `invalidate_all` has cleared, and with a restore on a used sequence a later reader is served
  the old record; the comment at `store.rs:124` says such an insert is refused or wiped. Every mode,
  `StraddlersExact`: a reader that was open when a restore landed on its own sequence is kept from inserting,
  not from being served what others insert. A restore on a lower sequence also leaves AS OF with a history in
  which sequences go back, over which halving finds a snapshot of either side.
- `PlaneFold`, `RebornEdgesConverge`: when a node is replaced, its edges go with it, and those that the facts
  assert with unchanged content are not created again (`llm/src/preprocess/sync.rs:451`); the next fold creates
  them. `sync.rs:11` says a fold converges "by construction".
- `WatchLoop`, one window at a time:

  | window | violates | because |
  |---|---|---|
  | `commit` | `InSync`, `CatchesUp` | the sync point is HEAD as read after the fold (`cli/src/commands.rs:1904`), the fold's facts are of the tree before |
  | `empty` | `MarkerHonest`, `InSync`, `CatchesUp` | after a failed fold, a move that touches no file records HEAD, and the restart that "retries exactly the gap that failed" (`commands.rs:2401`) finds no gap |
  | `checkout` | `MarkerHonest`, `InSync`, `CatchesUp` | the same by way of a move back |
  | `rebuild` | all four | the loop's fold and the tool's rebuild write each other's plane and properties, and clear each other's mark |
  | `attach` | `AttachmentsKept` | `properties` and `set_properties` are two transactions (`core/api/mod.rs:1302`), and an attachment made between them is overwritten |

- `NativeEngine`, several `Retentions`: an as-of reader pinned but not registered while the readers' floor is
  computed, and a window narrowed before the retention floor is, lose versions to the compaction.

Met while translating, and visible in the modules without a property of their own:

- A thread of `build_parallel` can find its own node, when another has linked to it by way of an upper layer
  (`core/storage/hnsw.rs:714`): the node is then its own nearest neighbour, twice, and these links take places of
  its list that pruning never frees.
- After an upsert of the entry, `remove` of the last vector leaves `entry` at the tombstone
  (`core/storage/hnsw.rs:845` compares with the live node), and the index is not empty to the next insert.
- A crash between `drop_plane` and `create_plane` of a rebuild loses the plane's properties, attachments included:
  they are in memory only (`sync.rs:652`; action `Crash` of `WatchLoop`).
- `resync`'s comment says that the carried-over sync point is rewritten before the mark is cleared
  (`sync.rs:667`); it is rewritten by the caller after `resync` returned.
- `rebuild_logic`'s comment says that a rebuild takes the sync point with it (`mcp/src/lib.rs`, before the record);
  `resync` keeps it.
- Comments of the ledger and of the fold say that a fold applies new plugins only to the files it touched; it
  routes the whole tree (`sync.rs:182`).
- A fold re-creates, each time, an asserted edge to a key that a node outside the parser's holds; treats a link
  that someone made between two parser nodes as an unasserted fact and deletes it; and keeps one of parallel
  edges (`sync.rs:427`, `:500`). A link into a replaced node that was made after the fold's reads goes with the
  node.
- The change set of a transaction that makes an edge and then deletes its node reports the edge as created,
  without a record (`core/api/mod.rs:338`): the cascade pushes no change. An upsert of a key that the same
  transaction had deleted cancels with the deletion.
- A handle to a plane that was dropped still writes: its rows are beside any plane.
- A change set is built from a read opened after the gate was released; it can show later values.
- AS OF by time assumes that commit times do not go back; the wall clock may.

## 6. Not modelled

Encodings (record bytes, checksums, blocks, the Bloom filter, the wire format), logging, authentication and
rendering; the network, Python and argument-handling layers, which keep no state of their own; the arithmetic
of distances. redb is third-party code. In `NativeEngine` a batch is one transaction's final map from keys to
operations: reads of a transaction's own staged writes are modelled in `GraphStore`, not there, and neither is
the in-process directory lock beyond the assumption that one process has the directory open. Several followers
share only the master and are one. `GraphStore` leaves out properties (which only the records hold) and the interning of
edge types (the same code as labels). `PlaneFold` embeds in one batch. `WatchLoop` leaves out edits of the
working tree that are not committed, the `_git` and `_ops` planes, and a recorded commit that the repository no
longer knows.

Steps that are coarser than the code's:

- `Replication.Send`: a batch that fails to encode is skipped by the feed (`web/src/server.rs:1208`) and a message
  that does not decode is dropped by the follower (`web/src/follow.rs:114`). Both ends run the same encoding on
  in-memory values; neither error has a cause in the model.
- `GraphCache.ResolveAsOf` takes the floor of retained snapshots as fixed and its probes as successful; in the code
  (`core/api/mod.rs:948`) the floor may move during the search, and a probe below it is then an error to the caller.
- `GraphCache.RestoreImage` and `IndexMirror.RestoreKv` take the empty check together with the transaction
  (`core/api/snapshot.rs:226`, `:238`): nobody else has the target open.
- `PlaneFold.ReadNodes` and `ReadEdges` are one snapshot each, where the code opens a read transaction per scan and
  per lookup (`sync.rs:355`, `:397`, `:510`, `:537`). A foreign write between two of them leaves the plan a
  mixture of two states; the model has such a mixture only between nodes and edges.
- `WatchLoop.DropPlane` takes the reading of the plane's properties together with the drop (`sync.rs:657`). An
  attachment made between the two is lost; this is the window `attach` of section 5 at one more place.
- `NativeRecovery.UpgradeUn` takes the unlink of an old run together with the fsync of the directory; a crash between
  the two leaves the old run beside its copy, as a crash before the unlink does.

Most of the repository's lines are text handling: the source-language plugins, rendering of answers
(`core/compact.rs`), the query language, the tools of `mcp/src/lib.rs`, the methods of the web server, the
subcommands of `cli/src/commands.rs`. They are single calls into the parts modelled here, with parsing before and
formatting after, and have no state or interleaving of their own; a model of them would be a transliteration.

## 7. Plan

Done: the storage engine and its files; replication; the indexes beside the data, on a master and on a replica;
the graph's tables; the cache and time travel; folds and the watch loop; the vector index. Left, in order of what would hurt most:

1. `GraphStore` over `SnapshotStore`: the tables as keys of the engine, so that a reader of the graph is a reader
   of the engine; the composition of `Replication` with `IndexMirror` and `GraphCache` on one replica.
2. `MemoryEngine` as a second implementation of `SnapshotStore`.
3. `MergeIter`, `GcIter` and the block search of `sst.rs` as algorithms checked against `LsmOps`.
4. Mounting and unmounting of instances; staged digests; the MCP relay; the request limiter; graph algorithms
   against their definitions.

Proofs: what is left to TLC is in section 4. Next would be `CountersExact` without the counts per label, which
needs cardinalities only, and `GraphWalkable` of `Hnsw`, as far as it does not depend on what a search returns.
