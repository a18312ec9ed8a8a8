----------------------------- MODULE NativeEngine -----------------------------
(****************************************************************************)
(* The running LSM engine (storage/native/mod.rs): one writer at a time     *)
(* commits, flushes the memtable and compacts the runs while readers open,  *)
(* read and close at pinned snapshots.                                      *)
(*                                                                          *)
(* The writer is the thread that owns the WriteGate, so there is one writer *)
(* program counter.  A step is what happens between two points where        *)
(* another thread may run: the store's RwLock, the readers mutex and the    *)
(* retention atomic are taken and released one after the other, and a       *)
(* reader being opened holds the store read lock from the moment it picks   *)
(* its snapshot until it is registered ("pinning"), which keeps the writer  *)
(* out of the store write lock but not out of min_snapshot.                 *)
(*                                                                          *)
(* The log on disk, crashes and reopening are in NativeRecovery.            *)
(****************************************************************************)
EXTENDS LsmOps, FiniteSets

CONSTANTS
    Readers,             \* read transactions that may be open at once
    Retentions,          \* the windows set_retention is called with; 0 = unbounded
    Floors,              \* sequences a restore or a replicated batch asks for
    FlushThreshold,      \* DEFAULT_FLUSH_THRESHOLD, in entries
    CompactionTrigger,   \* COMPACTION_TRIGGER
    MaxSeq,              \* bound on the sequences explored
    Closed               \* no view: the abstract state of a closed reader

ASSUME EngineAssumption ==
    /\ IsFiniteSet(Readers)
    /\ Retentions \subseteq Nat /\ Retentions # {}
    /\ Floors \subseteq Nat
    /\ FlushThreshold \in Nat /\ CompactionTrigger \in Nat
    /\ MaxSeq \in Nat
    /\ Closed \notin [Keys -> Ops]

VARIABLES
    mem,        \* Store.mem
    ssts,       \* Store.ssts, oldest first: the entries of each run
    committed,  \* Store.committed_seq
    retain,     \* retain_commits
    registry,   \* readers: snapshot -> number of registered readers
    rpc,        \* rpc[r]: "closed", "pinning" (holds the read lock), "open"
    snap,       \* snap[r]: NativeReadTxn.snapshot
    asof,       \* asof[r]: opened by begin_read_at
    wpc,        \* where the writer is inside its write transaction
    wbatch,     \* the ops being committed
    wseq,       \* the sequence they are committed at
    run,        \* the run just written by a flush or a compaction
    cruns,      \* the runs the compaction took under the read lock
    cfloor,     \* its min_snapshot, as far as it is computed
    maintErr,   \* last_maintenance_error is Some
    log,        \* history variable: every entry ever committed
    gcFloor     \* history variable: the highest floor a compaction applied

storeVars == <<mem, ssts, committed>>
readerVars == <<registry, rpc, snap, asof>>
writerVars == <<wpc, wbatch, wseq, run, cruns, cfloor, maintErr>>
ghostVars == <<log, gcFloor>>
vars == <<storeVars, retain, readerVars, writerVars, ghostVars>>

Seqs == 0..MaxSeq

NoBatch == <<>>

Init ==
    /\ mem = {}
    /\ ssts = <<>>
    /\ committed = 0
    /\ retain \in Retentions      \* a host sets it right after opening
    /\ registry = [s \in Seqs |-> 0]
    /\ rpc = [r \in Readers |-> "closed"]
    /\ snap = [r \in Readers |-> 0]
    /\ asof = [r \in Readers |-> FALSE]
    /\ wpc = "idle"
    /\ wbatch = NoBatch
    /\ wseq = 0
    /\ run = {}
    /\ cruns = <<>>
    /\ cfloor = 0
    /\ maintErr = FALSE
    /\ log = {}
    /\ gcFloor = 0

-------------------------------------------------------------------------------
(* Snapshots and retention.                                                  *)

Lesser(a, b) == IF a < b THEN a ELSE b
Greater(a, b) == IF a > b THEN a ELSE b

(* retention_floor                                                           *)
RetentionFloor(c) ==
    IF retain = 0 \/ retain > c THEN 0 ELSE c - retain

Registered == {s \in Seqs : registry[s] > 0}

Least(S) == CHOOSE i \in S : \A j \in S : i <= j

(* Slip: only readers beyond the first are counted.                          *)
ReaderFloorIgnoringOne(c) ==
    LET shared == {s \in Seqs : registry[s] > 1}
    IN  IF shared = {} THEN c ELSE Lesser(Least(shared), c)

(* The oldest registered snapshot, or the newest commit if there is none.    *)
ReaderFloor(c) ==
    IF Registered = {} THEN c ELSE Lesser(Least(Registered), c)

(* A thread that wants the store write lock waits for the pinning readers.   *)
StoreUnlocked == \A r \in Readers : rpc[r] # "pinning"

(* set_retention                                                             *)
SetRetention(n) ==
    /\ retain' = n
    /\ UNCHANGED <<storeVars, readerVars, writerVars, ghostVars>>

-------------------------------------------------------------------------------
(* Readers.                                                                  *)

Pin(r, s, past) ==
    /\ rpc[r] = "closed"
    /\ rpc' = [rpc EXCEPT ![r] = "pinning"]
    /\ snap' = [snap EXCEPT ![r] = s]
    /\ asof' = [asof EXCEPT ![r] = past]
    /\ UNCHANGED <<storeVars, retain, registry, writerVars, ghostVars>>

(* begin_read: the latest committed sequence, under the store read lock.     *)
BeginRead(r) == Pin(r, committed, FALSE)

(* Slip: the oldest accepted snapshot is one below the window.               *)
BeginReadAtOneBelow(r, s) ==
    /\ s <= committed
    /\ s + 1 >= RetentionFloor(committed)
    /\ Pin(r, s, TRUE)

(* begin_read_at: refused beyond the latest commit or below the window.      *)
BeginReadAt(r, s) ==
    /\ s <= committed
    /\ s >= RetentionFloor(committed)
    /\ Pin(r, s, TRUE)

(* ... then the registration, still under the read lock.                     *)
Register(r) ==
    /\ rpc[r] = "pinning"
    /\ rpc' = [rpc EXCEPT ![r] = "open"]
    /\ registry' = [registry EXCEPT ![snap[r]] = @ + 1]
    /\ UNCHANGED <<storeVars, retain, snap, asof, writerVars, ghostVars>>

(* NativeReadTxn::drop                                                       *)
EndRead(r) ==
    /\ rpc[r] = "open"
    /\ rpc' = [rpc EXCEPT ![r] = "closed"]
    /\ registry' = [registry EXCEPT ![snap[r]] = @ - 1]
    /\ snap' = [snap EXCEPT ![r] = 0]
    /\ asof' = [asof EXCEPT ![r] = FALSE]
    /\ UNCHANGED <<storeVars, retain, writerVars, ghostVars>>

-------------------------------------------------------------------------------
(* The write transaction.                                                    *)

(* begin_write: the gate is taken and the latest commit is the snapshot the  *)
(* transaction reads at.  It is not registered as a reader.                  *)
BeginWrite ==
    /\ wpc = "idle"
    /\ wpc' = "writing"
    /\ UNCHANGED <<storeVars, retain, readerVars, ghostVars,
                   wbatch, wseq, run, cruns, cfloor, maintErr>>

(* Dropped, committed with nothing staged, or refused by the log (Err).      *)
Abort ==
    /\ wpc = "writing"
    /\ wpc' = "idle"
    /\ UNCHANGED <<storeVars, retain, readerVars, ghostVars,
                   wbatch, wseq, run, cruns, cfloor, maintErr>>

(* durable_commit, up to the log's fsync and the observer's call.            *)
Log(batch, s) ==
    /\ s <= MaxSeq
    /\ wpc' = "logged"
    /\ wbatch' = batch
    /\ wseq' = s
    /\ UNCHANGED <<storeVars, retain, readerVars, ghostVars,
                   run, cruns, cfloor, maintErr>>

(* Slip: the sequence of the snapshot itself, not the next one.              *)
CommitReusesSeq(batch) ==
    /\ wpc = "writing"
    /\ Log(batch, committed)

(* NativeWriteTxn::commit, and commit_at_least, whose floor can only lift    *)
(* the sequence.                                                             *)
Commit(batch) ==
    /\ wpc = "writing"
    /\ Log(batch, committed + 1)

CommitAtLeast(batch, floor) ==
    /\ wpc = "writing"
    /\ Log(batch, Greater(committed + 1, floor))

(* Slip: a replayed batch is let through.                                    *)
ApplyReplicatedAnySeq(batch, s) ==
    /\ wpc = "idle"
    /\ Log(batch, s)

(* apply_replicated: the master's own sequence, refused unless it advances.  *)
ApplyReplicated(batch, s) ==
    /\ wpc = "idle"
    /\ s > committed
    /\ Log(batch, s)

(* The batch enters the memtable under the store write lock.                 *)
Publish ==
    /\ wpc = "logged"
    /\ StoreUnlocked
    /\ mem' = mem \cup Stamp(wbatch, wseq)
    /\ log' = log \cup Stamp(wbatch, wseq)
    /\ committed' = wseq
    /\ wpc' = "published"
    /\ wbatch' = NoBatch
    /\ wseq' = 0
    /\ UNCHANGED <<ssts, retain, readerVars, run, cruns, cfloor, maintErr, gcFloor>>

-------------------------------------------------------------------------------
(* Maintenance: still inside the commit, under the gate.                     *)

(* record_maintenance: the pass is over, its locals go out of scope and the  *)
(* commit returns Ok either way.                                             *)
MaintenanceEnds(failed) ==
    /\ wpc' = "idle"
    /\ maintErr' = failed
    /\ run' = {}
    /\ cruns' = <<>>
    /\ cfloor' = 0
    /\ UNCHANGED <<wbatch, wseq>>

(* Any I/O of the pass may fail; what it has done so far stays.              *)
MaintenanceFails ==
    /\ wpc \in {"published", "flushed", "swapped", "merging", "merged", "unlinking"}
    /\ wpc = "published" => Cardinality(mem) >= FlushThreshold
    /\ MaintenanceEnds(TRUE)
    /\ UNCHANGED <<storeVars, retain, readerVars, ghostVars>>

(* Below the threshold there is nothing to flush.                            *)
FlushNotDue ==
    /\ wpc = "published"
    /\ Cardinality(mem) < FlushThreshold \/ mem = {}
    /\ wpc' = "compact"
    /\ UNCHANGED <<storeVars, retain, readerVars, ghostVars,
                   wbatch, wseq, run, cruns, cfloor, maintErr>>

(* sst::write under the store read lock: a copy of the memtable.             *)
FlushWrite ==
    /\ wpc = "published"
    /\ Cardinality(mem) >= FlushThreshold /\ mem # {}
    /\ run' = mem
    /\ wpc' = "flushed"
    /\ UNCHANGED <<storeVars, retain, readerVars, ghostVars,
                   wbatch, wseq, cruns, cfloor, maintErr>>

(* Slip: the new run is put where the oldest one belongs.                    *)
FlushSwapPrepends ==
    /\ wpc = "flushed"
    /\ StoreUnlocked
    /\ ssts' = <<run>> \o ssts
    /\ mem' = {}
    /\ run' = {}
    /\ wpc' = "swapped"
    /\ UNCHANGED <<committed, retain, readerVars, ghostVars,
                   wbatch, wseq, cruns, cfloor, maintErr>>

(* Run in, memtable out, in one hold of the write lock.                      *)
FlushSwap ==
    /\ wpc = "flushed"
    /\ StoreUnlocked
    /\ ssts' = Append(ssts, run)
    /\ mem' = {}
    /\ run' = {}
    /\ wpc' = "swapped"
    /\ UNCHANGED <<committed, retain, readerVars, ghostVars,
                   wbatch, wseq, cruns, cfloor, maintErr>>

(* The log is cut; see NativeRecovery.                                       *)
TruncateLog ==
    /\ wpc = "swapped"
    /\ wpc' = "compact"
    /\ UNCHANGED <<storeVars, retain, readerVars, ghostVars,
                   wbatch, wseq, run, cruns, cfloor, maintErr>>

CompactNotDue ==
    /\ wpc = "compact"
    /\ Len(ssts) <= CompactionTrigger
    /\ MaintenanceEnds(FALSE)
    /\ UNCHANGED <<storeVars, retain, readerVars, ghostVars>>

(* maybe_compact: the runs and the committed sequence under the read lock.   *)
(* The gate is held, so neither changes before the swap.                     *)
CompactBegin ==
    /\ wpc = "compact"
    /\ Len(ssts) > CompactionTrigger
    /\ cruns' = ssts
    /\ wpc' = "readerFloor"
    /\ UNCHANGED <<storeVars, retain, readerVars, ghostVars,
                   wbatch, wseq, run, cfloor, maintErr>>

(* min_snapshot, under the readers mutex only ...                            *)
CompactReaderFloor ==
    /\ wpc = "readerFloor"
    /\ cfloor' = ReaderFloor(committed)
    /\ wpc' = "retentionFloor"
    /\ UNCHANGED <<storeVars, retain, readerVars, ghostVars,
                   wbatch, wseq, run, cruns, maintErr>>

(* ... then, with the mutex released, the retention window.                  *)
CompactRetentionFloor ==
    /\ wpc = "retentionFloor"
    /\ cfloor' = Lesser(cfloor, RetentionFloor(committed))
    /\ wpc' = "merging"
    /\ UNCHANGED <<storeVars, retain, readerVars, ghostVars,
                   wbatch, wseq, run, cruns, maintErr>>

(* The merged run is written while readers go on.                            *)
CompactWrite ==
    /\ wpc = "merging"
    /\ run' = GcVersions(Merge(cruns), cfloor)
    /\ wpc' = "merged"
    /\ UNCHANGED <<storeVars, retain, readerVars, ghostVars,
                   wbatch, wseq, cruns, cfloor, maintErr>>

(* The merged run takes the place of the runs it was made from.              *)
CompactSwap ==
    /\ wpc = "merged"
    /\ StoreUnlocked
    /\ ssts' = <<run>> \o SubSeq(ssts, Len(cruns) + 1, Len(ssts))
    /\ gcFloor' = Greater(gcFloor, cfloor)
    /\ wpc' = "unlinking"
    /\ UNCHANGED <<mem, committed, retain, readerVars, log,
                   wbatch, wseq, run, cruns, cfloor, maintErr>>

(* The old files go, the pass succeeded; see NativeRecovery.                 *)
CompactUnlink ==
    /\ wpc = "unlinking"
    /\ MaintenanceEnds(FALSE)
    /\ UNCHANGED <<storeVars, retain, readerVars, ghostVars>>

-------------------------------------------------------------------------------
Write ==
    \/ BeginWrite \/ Abort
    \/ \E batch \in Batches :
          \/ Commit(batch)
          \/ \E f \in Floors : CommitAtLeast(batch, f) \/ ApplyReplicated(batch, f)
    \/ Publish

Maintain ==
    \/ MaintenanceFails
    \/ FlushNotDue \/ FlushWrite \/ FlushSwap \/ TruncateLog
    \/ CompactNotDue \/ CompactBegin
    \/ CompactReaderFloor \/ CompactRetentionFloor
    \/ CompactWrite \/ CompactSwap \/ CompactUnlink

Read(r) ==
    \/ BeginRead(r)
    \/ \E s \in Seqs : BeginReadAt(r, s)
    \/ Register(r)
    \/ EndRead(r)

Next ==
    \/ Write
    \/ Maintain
    \/ \E r \in Readers : Read(r)
    \/ \E n \in Retentions : SetRetention(n)

Spec == Init /\ [][Next]_vars

-------------------------------------------------------------------------------
(* Properties.                                                               *)

Get(k, s) == CommittedGet(mem, ssts, k, s)

Phases ==
    {"idle", "writing", "logged", "published", "flushed", "swapped", "compact",
     "readerFloor", "retentionFloor", "merging", "merged", "unlinking"}

(* Every variable has its type; the registry counts the open readers of each *)
(* snapshot exactly (NativeEngine.readers).                                  *)
TypeOK ==
    /\ mem \subseteq Entry /\ run \subseteq Entry /\ log \subseteq Entry
    /\ ssts \in Seq(SUBSET Entry) /\ cruns \in Seq(SUBSET Entry)
    /\ committed \in Seqs /\ wseq \in Seqs /\ cfloor \in Seqs /\ gcFloor \in Seqs
    /\ retain \in Retentions
    /\ rpc \in [Readers -> {"closed", "pinning", "open"}]
    /\ snap \in [Readers -> Seqs]
    /\ asof \in [Readers -> BOOLEAN]
    /\ wpc \in Phases
    /\ wbatch \in Batches \cup {NoBatch}
    /\ maintErr \in BOOLEAN
    /\ registry \in [Seqs -> Nat]
    /\ \A s \in Seqs :
          registry[s] = Cardinality({r \in Readers : rpc[r] = "open" /\ snap[r] = s})

(* MVCC: a reader opened by begin_read finds, for as long as it is open,     *)
(* exactly what had been committed when it was opened, through every commit, *)
(* flush and compaction, and whatever set_retention is called with meanwhile.*)
ReaderStable ==
    \A r \in Readers : \A k \in Keys :
        rpc[r] # "closed" /\ ~asof[r] => Get(k, snap[r]) = Resolve(log, k, snap[r])

(* Time travel: begin_read_at "errors if `snapshot` is ... older than the    *)
(* retained history", so one that it accepts reads the state as of that      *)
(* commit, nothing missing and nothing back from the dead.                   *)
AsOfFaithful ==
    \A r \in Readers : \A k \in Keys :
        rpc[r] # "closed" /\ asof[r] => Get(k, snap[r]) = Resolve(log, k, snap[r])

(* The write transaction is no registered reader: what it reads at its       *)
(* snapshot is the latest committed state only because the gate keeps        *)
(* compaction out while it is open.                                          *)
WriterReadsLatest ==
    wpc \in {"idle", "writing", "logged"} =>
        \A k \in Keys : Get(k, committed) = Resolve(log, k, committed)

(* get stops at the first source from the newest; range lays all sources     *)
(* over each other from the oldest: they agree at every snapshot.            *)
RangeAgreesWithGet ==
    \A s \in Seqs : CommittedValues(mem, ssts, s) = [k \in Keys |-> Get(k, s)]

(* Sequences only advance, and what is committed at a sequence is never      *)
(* rewritten.                                                                *)
SequencesAdvance ==
    [][/\ committed' >= committed
       /\ \A e \in log' \ log : e.seq = committed' /\ e.seq > committed]_vars

-------------------------------------------------------------------------------
(* The engine implements the snapshot store: its map is what a read at the   *)
(* latest commit finds, and an open reader's view is what it finds at its    *)
(* snapshot.                                                                 *)
Contents(s) == [k \in Keys |-> Get(k, s)]

Abstract == INSTANCE SnapshotStore WITH
    db <- Contents(committed),
    view <- [r \in Readers |->
                IF rpc[r] = "closed" \/ asof[r] THEN Closed ELSE Contents(snap[r])]

ImplementsSnapshotStore == Abstract!Spec
===============================================================================
