---------------------------- MODULE NativeRecovery ----------------------------
(****************************************************************************)
(* The native engine's files (storage/native/mod.rs, native/sst.rs): the    *)
(* write-ahead log, the directory of runs, what of them survives a crash,   *)
(* and what the next open makes of it.                                      *)
(*                                                                          *)
(* A step ends wherever a crash, or an I/O error, would leave something     *)
(* different behind.  Bytes written but not fsynced may or may not be there *)
(* after a crash; directory changes not yet followed by sync_dir survive in *)
(* order (the journal the compaction's comment relies on), so some prefix   *)
(* of them does.  Readers and their snapshots are in NativeEngine; here     *)
(* only one process at a time has the directory open (lock_directory).      *)
(****************************************************************************)
EXTENDS LsmOps, FiniteSets, SequencesExt

CONSTANTS
    FlushThreshold,      \* DEFAULT_FLUSH_THRESHOLD, in entries
    CompactionTrigger,   \* COMPACTION_TRIGGER
    Retentions,          \* windows a host may open the store with; 0 = unbounded
    InitialStores,       \* the runs a store may hold when it is first opened
    Windows,             \* the windows of Exposed in which the process may stop
    MaxSeq, MaxCrashes,  \* bounds on the commits and the crashes explored
    MaxLog,              \* bound on the records in the log, failed ones included
    MaxErrors            \* bound on the I/O errors explored

ASSUME RecoveryAssumption ==
    /\ Windows \subseteq {"unlink", "upgrade", "log"}
    /\ {FlushThreshold, CompactionTrigger, MaxSeq, MaxCrashes, MaxLog, MaxErrors} \subseteq Nat
    /\ Retentions \subseteq Nat /\ Retentions # {}

VARIABLES
    phase,      \* where the one writer is, or "down"
    mem,        \* Store.mem
    runs,       \* Store.ssts, oldest first
    committed,  \* Store.committed_seq
    nextSst,    \* Store.next_sst
    retain,     \* retain_commits
    wal,        \* the log as the process wrote it, unsynced bytes included
    walSafe,    \* the log as of its last fsync
    dirSafe,    \* the directory as of its last fsync: a set of runs
    dirOps,     \* the renames and unlinks since, in order
    batch,      \* the batch of the commit in flight
    run,        \* the run just renamed into place
    victims,    \* files compaction or the upgrade still has to unlink
    crashes,    \* how many crashes so far
    errors,     \* how many I/O errors so far
    log,        \* history variable: the entries of every commit that counts
    reclaimed   \* history variable: the highest floor of a compaction

memVars == <<mem, runs, committed, nextSst, retain>>
diskVars == <<wal, walSafe, dirSafe, dirOps>>
bounds == <<crashes, errors>>
ghosts == <<log, reclaimed>>
vars == <<phase, memVars, diskVars, batch, run, victims, bounds, ghosts>>

-------------------------------------------------------------------------------
(* Files.                                                                    *)

(* A run: its file number, its entries, the footer's max_seq, and whether it *)
(* is still in the v1 format.                                                *)
File(n, entries, maxSeq, legacy) ==
    [num |-> n, entries |-> entries, maxSeq |-> maxSeq, legacy |-> legacy]

Files == [num : Nat, entries : SUBSET Entry, maxSeq : Nat, legacy : BOOLEAN]

NoRun == File(0, {}, 0, FALSE)
NoBatch == <<>>
Torn == [seq |-> 0, ops |-> {}]      \* bytes that replay cannot read past

Link(f) == [op |-> "link", file |-> f]
Unlink(f) == [op |-> "unlink", file |-> f]

(* The directory d after the operations: of each file number the last one    *)
(* decides (a rename replaces a file of the same name).                      *)
AfterOps(d, ops) ==
    LET last == {i \in DOMAIN ops :
                    \A j \in DOMAIN ops : j > i => ops[j].file.num # ops[i].file.num}
    IN  {f \in d : \A i \in DOMAIN ops : ops[i].file.num # f.num}
        \cup {ops[i].file : i \in {i \in last : ops[i].op = "link"}}

Dir == AfterOps(dirSafe, dirOps)

Entries(files) == UNION {f.entries : f \in files}

GreatestOf(S) == CHOOSE n \in S : \A m \in S : m <= n

(* sst::list: every file once, by file number (there is one such listing);   *)
(* next_number is one past the highest.                                      *)
Listings(d) ==
    {s \in [1..Cardinality(d) -> d] :
        /\ \A f \in d : \E i \in DOMAIN s : s[i] = f
        /\ \A i, j \in DOMAIN s : i < j => s[i].num < s[j].num}
NextNumber(d) == GreatestOf({0} \cup {f.num : f \in d}) + 1

RunEntries == [i \in DOMAIN runs |-> runs[i].entries]

Record(b, s) == [seq |-> s, ops |-> Stamp(b, s)]

(* replay stops at the first record that is short or fails its checksum.     *)
Intact(w) == LET bad == {i \in DOMAIN w : w[i] = Torn}
             IN  IF bad = {} THEN w
                 ELSE SubSeq(w, 1, (CHOOSE i \in bad : \A j \in bad : i <= j) - 1)

(* Of two replayed entries with one key and sequence the later is kept       *)
(* (BTreeMap::insert).                                                       *)
Replayed(w) == Merge([i \in DOMAIN w |-> w[i].ops])

RetentionFloor == IF retain = 0 \/ retain > committed THEN 0 ELSE committed - retain

(* A store that no compaction has dropped a version from: the runs hold what *)
(* was committed, in order of age, and each footer's max_seq is the sequence *)
(* of its newest entry.                                                      *)
Whole(store) ==
    LET all == UNION {store[i].entries : i \in DOMAIN store}
    IN  /\ store \in Seq(Files)
        /\ \A i \in DOMAIN store :
              /\ \A e \in store[i].entries : e.seq > 0 /\ e.seq <= store[i].maxSeq
              /\ \E e \in store[i].entries : e.seq = store[i].maxSeq
        /\ \A i, j \in DOMAIN store : i < j =>
              /\ store[i].num < store[j].num
              /\ \A e \in store[i].entries, f \in store[j].entries : e.seq < f.seq
        /\ \A e, f \in all : e.key = f.key /\ e.seq = f.seq => e = f

ASSUME StoresAssumption == \A store \in InitialStores : Whole(store)

-------------------------------------------------------------------------------
Init ==
    /\ phase = "idle"
    /\ mem = {}
    /\ runs \in InitialStores
    /\ dirSafe = {runs[i] : i \in DOMAIN runs}
    /\ log = Entries(dirSafe)
    /\ committed = GreatestOf({0} \cup {f.maxSeq : f \in dirSafe})
    /\ nextSst = NextNumber(dirSafe)
    /\ retain \in Retentions
    /\ wal = <<>> /\ walSafe = <<>>
    /\ dirOps = <<>>
    /\ batch = NoBatch
    /\ run = NoRun
    /\ victims = <<>>
    /\ crashes = 0 /\ errors = 0
    /\ reclaimed = 0

-------------------------------------------------------------------------------
(* Commit.                                                                   *)

(* Any I/O may fail.                                                         *)
IOError ==
    /\ errors < MaxErrors
    /\ errors' = errors + 1
    /\ UNCHANGED crashes

(* append_batch and the flush of the BufWriter.                              *)
Append_(b) ==
    /\ phase = "idle"
    /\ committed < MaxSeq
    /\ Len(wal) < MaxLog
    /\ wal' = Append(wal, Record(b, committed + 1))
    /\ batch' = b
    /\ phase' = "appended"
    /\ UNCHANGED <<memVars, walSafe, dirSafe, dirOps, run, victims, bounds, ghosts>>

(* The write stops half way (a full disk): commit returns Err.               *)
AppendTears ==
    /\ phase = "idle"
    /\ IOError
    /\ committed < MaxSeq
    /\ Len(wal) < MaxLog
    /\ wal' = Append(wal, Torn)
    /\ UNCHANGED <<phase, memVars, walSafe, dirSafe, dirOps, batch, run, victims, ghosts>>

(* The fsync fails: commit returns Err, the record stays where it was put.   *)
SyncFails ==
    /\ phase = "appended"
    /\ IOError
    /\ phase' = "idle"
    /\ batch' = NoBatch
    /\ UNCHANGED <<memVars, diskVars, run, victims, ghosts>>

(* Slip: the batch is published without waiting for the fsync.               *)
SyncWalSkipped ==
    /\ phase = "appended"
    /\ phase' = "synced"
    /\ UNCHANGED <<memVars, diskVars, batch, run, victims, bounds, ghosts>>

SyncWal ==
    /\ phase = "appended"
    /\ walSafe' = wal
    /\ phase' = "synced"
    /\ UNCHANGED <<memVars, wal, dirSafe, dirOps, batch, run, victims, bounds, ghosts>>

(* The batch becomes visible: from here on commit returns Ok.                *)
Publish ==
    /\ phase = "synced"
    /\ mem' = mem \cup Stamp(batch, committed + 1)
    /\ log' = log \cup Stamp(batch, committed + 1)
    /\ committed' = committed + 1
    /\ batch' = NoBatch
    /\ phase' = "published"
    /\ UNCHANGED <<runs, nextSst, retain, diskVars, run, victims, bounds, reclaimed>>

-------------------------------------------------------------------------------
(* Flush.                                                                    *)

FlushDue == Cardinality(mem) >= FlushThreshold /\ mem # {}

FlushNotDue ==
    /\ phase = "published"
    /\ ~FlushDue
    /\ phase' = "compact"
    /\ UNCHANGED <<memVars, diskVars, batch, run, victims, bounds, ghosts>>

(* write_sorted: the file is complete and fsynced before the rename, the     *)
(* rename is in the directory but sync_dir has still to come.                *)
WriteRun(f, next) ==
    /\ run' = f
    /\ dirOps' = Append(dirOps, Link(f))
    /\ phase' = next
    /\ UNCHANGED <<memVars, wal, walSafe, dirSafe, batch, victims, bounds, log>>

(* Slip: the log is cut as soon as the run is renamed, before sync_dir.      *)
FlushWriteCutsLog ==
    /\ phase = "published"
    /\ FlushDue
    /\ run' = File(nextSst, mem, committed, FALSE)
    /\ dirOps' = Append(dirOps, Link(run'))
    /\ wal' = <<>> /\ walSafe' = <<>>
    /\ phase' = "flushed"
    /\ UNCHANGED <<memVars, dirSafe, batch, victims, bounds, ghosts>>

FlushWrite ==
    /\ phase = "published"
    /\ FlushDue
    /\ WriteRun(File(nextSst, mem, committed, FALSE), "flushed")
    /\ UNCHANGED reclaimed

SyncDir ==
    /\ dirSafe' = Dir
    /\ dirOps' = <<>>

FlushSwap ==
    /\ phase = "flushed"
    /\ SyncDir
    /\ runs' = Append(runs, run)
    /\ nextSst' = nextSst + 1
    /\ mem' = {}
    /\ run' = NoRun
    /\ phase' = "swapped"
    /\ UNCHANGED <<committed, retain, wal, walSafe, batch, victims, bounds, ghosts>>

(* set_len(0) and the cursor back to the start ...                           *)
CutLog ==
    /\ phase = "swapped"
    /\ wal' = <<>>
    /\ phase' = "cut"
    /\ UNCHANGED <<memVars, walSafe, dirSafe, dirOps, batch, run, victims, bounds, ghosts>>

(* ... then its fsync and the directory's.                                   *)
CutSync ==
    /\ phase = "cut"
    /\ walSafe' = wal
    /\ SyncDir
    /\ phase' = "compact"
    /\ UNCHANGED <<memVars, wal, batch, run, victims, bounds, ghosts>>

-------------------------------------------------------------------------------
(* Compaction.                                                               *)

CompactNotDue ==
    /\ phase = "compact"
    /\ Len(runs) <= CompactionTrigger
    /\ phase' = "idle"
    /\ UNCHANGED <<memVars, diskVars, batch, run, victims, bounds, ghosts>>

(* The merged run carries the newest sequence of its inputs, dead or alive.  *)
CompactWrite ==
    /\ phase = "compact"
    /\ Len(runs) > CompactionTrigger
    /\ WriteRun(File(nextSst,
                     GcVersions(Merge(RunEntries), RetentionFloor),
                     GreatestOf({runs[i].maxSeq : i \in DOMAIN runs}),
                     FALSE), "merged")
    /\ reclaimed' = GreatestOf({reclaimed, RetentionFloor})

(* Slip: the number is taken only when the compaction is over.               *)
CompactSwapKeepsNumber ==
    /\ phase = "merged"
    /\ SyncDir
    /\ runs' = <<run>>
    /\ victims' = Reverse(runs)
    /\ run' = NoRun
    /\ phase' = "unlinking"
    /\ UNCHANGED <<mem, committed, nextSst, retain, wal, walSafe, batch, bounds, ghosts>>

(* Swapped in; the files it replaces are unlinked newest run first.          *)
CompactSwap ==
    /\ phase = "merged"
    /\ SyncDir
    /\ runs' = <<run>>
    /\ nextSst' = nextSst + 1
    /\ victims' = Reverse(runs)
    /\ run' = NoRun
    /\ phase' = "unlinking"
    /\ UNCHANGED <<mem, committed, retain, wal, walSafe, batch, bounds, ghosts>>

UnlinkOne ==
    /\ phase = "unlinking"
    /\ victims # <<>>
    /\ dirOps' = Append(dirOps, Unlink(Head(victims)))
    /\ victims' = Tail(victims)
    /\ UNCHANGED <<phase, memVars, wal, walSafe, dirSafe, batch, run, bounds, ghosts>>

UnlinkDone ==
    /\ phase = "unlinking"
    /\ victims = <<>>
    /\ SyncDir
    /\ phase' = "idle"
    /\ UNCHANGED <<memVars, wal, walSafe, batch, run, victims, bounds, ghosts>>

(* An error of the maintenance pass ends it; the commit is Ok all the same.  *)
MaintenanceFails ==
    /\ \/ phase \in {"flushed", "swapped", "cut", "merged", "unlinking"}
       \/ phase = "published" /\ FlushDue
       \/ phase = "compact" /\ Len(runs) > CompactionTrigger
    /\ IOError
    /\ phase' = "idle"
    /\ run' = NoRun
    /\ victims' = <<>>
    /\ UNCHANGED <<memVars, diskVars, batch, ghosts>>

-------------------------------------------------------------------------------
(* upgrade_runs: every v1 run is rewritten, one at a time, oldest first.     *)

Legacy == {i \in DOMAIN runs : runs[i].legacy}

UpgradeBegin ==
    /\ phase = "idle"
    /\ Legacy # {}
    /\ phase' = "upgrading"
    /\ UNCHANGED <<memVars, diskVars, batch, run, victims, bounds, ghosts>>

UpgradeWrite ==
    /\ phase = "upgrading"
    /\ Legacy # {}
    /\ LET old == runs[CHOOSE i \in Legacy : \A j \in Legacy : i <= j]
       IN  WriteRun(File(nextSst, old.entries, old.maxSeq, FALSE), "rewritten")
    /\ UNCHANGED reclaimed

(* The rewrite takes the old run's place in the vector, and a new number.    *)
UpgradeSwap ==
    /\ phase = "rewritten"
    /\ SyncDir
    /\ LET i == CHOOSE i \in Legacy : \A j \in Legacy : i <= j
       IN  /\ runs' = [runs EXCEPT ![i] = run]
           /\ victims' = <<runs[i]>>
    /\ nextSst' = nextSst + 1
    /\ run' = NoRun
    /\ phase' = "replaced"
    /\ UNCHANGED <<mem, committed, retain, wal, walSafe, batch, bounds, ghosts>>

UpgradeUnlink ==
    /\ phase = "replaced"
    /\ dirSafe' = AfterOps(dirSafe, Append(dirOps, Unlink(Head(victims))))
    /\ dirOps' = <<>>
    /\ victims' = <<>>
    /\ phase' = "upgrading"
    /\ UNCHANGED <<memVars, wal, walSafe, batch, run, bounds, ghosts>>

(* upgrade_runs returns Err: what it has done so far stays.                  *)
UpgradeFails ==
    /\ phase \in {"upgrading", "rewritten", "replaced"}
    /\ Legacy # {} \/ phase # "upgrading"
    /\ IOError
    /\ phase' = "idle"
    /\ run' = NoRun
    /\ victims' = <<>>
    /\ UNCHANGED <<memVars, diskVars, batch, ghosts>>

UpgradeEnd ==
    /\ phase = "upgrading"
    /\ Legacy = {}
    /\ phase' = "idle"
    /\ UNCHANGED <<memVars, diskVars, batch, run, victims, bounds, ghosts>>

-------------------------------------------------------------------------------
(* Crash and reopen.                                                         *)

(* What may be left of the log: the synced bytes if they were not cut yet,   *)
(* then any number of the records behind them, the last one possibly torn.   *)
Survivors ==
    LET kept == IF IsPrefix(walSafe, wal) THEN Len(walSafe) ELSE 0
    IN  {walSafe}
        \cup {SubSeq(wal, 1, n) : n \in kept..Len(wal)}
        \cup {Append(SubSeq(wal, 1, n), Torn) : n \in kept..(Len(wal) - 1)}

(* What may be left of the directory: the journal keeps the order.           *)
SurvivingDirs == {AfterOps(dirSafe, SubSeq(dirOps, 1, n)) : n \in 0..Len(dirOps)}

(* Three windows in which stopping is known to cost data (README, findings). *)
(* A run explores the ones it names; the process may stop anywhere else.     *)
(*   unlink:  files that a compaction replaced are still there, and the run  *)
(*            that replaced them has dropped versions;                       *)
(*   upgrade: a rewritten run has a higher number than a run newer than it;  *)
(*   log:     the log holds a record of a commit that returned Err, or one   *)
(*            behind a record that was cut short.                            *)
Exposed(window) ==
    CASE window = "unlink" ->
            /\ reclaimed > 0
            /\ \E d \in SurvivingDirs : \E f \in d :
                  f.num < nextSst /\ \A i \in DOMAIN runs : runs[i].num # f.num
      [] window = "upgrade" ->
            \E d \in SurvivingDirs : \E f, g \in d :
                f.num < g.num /\ f.maxSeq > g.maxSeq
      [] window = "log" ->
            \E w \in {wal, walSafe} : \E i \in DOMAIN w :
                \/ w[i] = Torn /\ i < Len(w)
                \/ w[i] # Record(batch, committed + 1) /\ ~(w[i].ops \subseteq log)

MayStop == \A window \in {"unlink", "upgrade", "log"} \ Windows : ~Exposed(window)

(* The process dies: memory is gone, the disk settles on what survives.      *)
Crash ==
    /\ phase # "down"
    /\ MayStop
    /\ crashes < MaxCrashes
    /\ crashes' = crashes + 1
    /\ dirSafe' \in SurvivingDirs
    /\ \E w \in Survivors : wal' = w /\ walSafe' = w
    /\ dirOps' = <<>>
    /\ phase' = "down"
    /\ mem' = {} /\ runs' = <<>> /\ nextSst' = 0 /\ run' = NoRun /\ victims' = <<>>
    /\ UNCHANGED <<committed, retain, batch, errors, ghosts>>

(* A clean exit: the BufWriter is flushed on drop and the kernel keeps what  *)
(* the process wrote.                                                        *)
Close ==
    /\ phase = "idle"
    /\ MayStop
    /\ dirSafe' = Dir
    /\ dirOps' = <<>>
    /\ walSafe' = wal
    /\ phase' = "down"
    /\ mem' = {} /\ runs' = <<>> /\ nextSst' = 0
    /\ UNCHANGED <<committed, retain, wal, batch, run, victims, bounds, ghosts>>

(* Slip: the runs' sequences are not counted, only the log's.                *)
OpenSeqOfLog(d, w) == GreatestOf({0} \cup {w[i].seq : i \in DOMAIN w})

OpenSeq(d, w) ==
    GreatestOf({0} \cup {f.maxSeq : f \in d} \cup {w[i].seq : i \in DOMAIN w})

(* open_with_options: the runs in file order, then the log's intact records  *)
(* into the memtable.  A commit in flight at the crash counts if its record  *)
(* made it to the log: commit had not returned.                              *)
Open ==
    /\ phase = "down"
    /\ LET w == Intact(wal)
       IN  /\ runs' \in Listings(dirSafe)
           /\ nextSst' = NextNumber(dirSafe)
           /\ mem' = Replayed(w)
           /\ committed' = OpenSeq(dirSafe, w)
           /\ wal' = w /\ walSafe' = w
           /\ log' = log \cup
                {e \in Stamp(batch, committed + 1) :
                    \E i \in DOMAIN w : w[i] = Record(batch, committed + 1)}
    /\ retain' \in Retentions
    /\ batch' = NoBatch
    /\ phase' = "idle"
    /\ UNCHANGED <<dirSafe, dirOps, run, victims, bounds, reclaimed>>

-------------------------------------------------------------------------------
CommitStep == (\E b \in Batches : Append_(b)) \/ AppendTears \/ SyncFails \/ SyncWal \/ Publish
FlushStep == FlushNotDue \/ FlushWrite \/ FlushSwap \/ CutLog \/ CutSync
CompactStep == CompactNotDue \/ CompactWrite \/ CompactSwap \/ UnlinkOne \/ UnlinkDone
UpgradeStep == UpgradeBegin \/ UpgradeWrite \/ UpgradeSwap \/ UpgradeUnlink
               \/ UpgradeFails \/ UpgradeEnd

Next ==
    \/ CommitStep \/ FlushStep \/ CompactStep \/ UpgradeStep
    \/ MaintenanceFails \/ Crash \/ Close \/ Open

Spec == Init /\ [][Next]_vars

-------------------------------------------------------------------------------
(* Properties.                                                               *)

Get(k, s) == CommittedGet(mem, RunEntries, k, s)

(* Durability and atomicity: whatever was committed, and nothing else, is    *)
(* what a read finds, while the process runs and after every crash.          *)
NothingLost ==
    phase # "down" =>
        \A k \in Keys : Get(k, committed) = Resolve(log, k, committed)

(* The same holds of every earlier commit that no compaction has reclaimed:  *)
(* crashes and rewrites leave time travel intact.                            *)
HistoryKept ==
    phase # "down" =>
        \A k \in Keys : \A s \in reclaimed..committed : Get(k, s) = Resolve(log, k, s)

(* Reopening puts the store back at the sequence of its last commit, so no   *)
(* sequence is ever given to two commits.                                    *)
SequenceStands ==
    phase # "down" => committed = GreatestOf({0} \cup {e.seq : e \in log})

(* Every run the engine reads from is a file of its own in the directory:    *)
(* no rewrite lands on a live file and no unlink removes one.                *)
RunsOnDisk ==
    phase # "down" =>
        /\ \A i \in DOMAIN runs : runs[i] \in Dir /\ runs[i].num < nextSst
        /\ \A i, j \in DOMAIN runs : i # j => runs[i].num # runs[j].num
===============================================================================
