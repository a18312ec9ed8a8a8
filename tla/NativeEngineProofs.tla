-------------------------- MODULE NativeEngineProofs --------------------------
(****************************************************************************)
(* Snapshot isolation of the native engine, for any set of keys, values,    *)
(* readers, thresholds and retention windows; and, at the end, the writer   *)
(* slot that gives the engine its one writer, for any set of threads.       *)
(****************************************************************************)
EXTENDS NativeEngine, WriteGate, LsmOpsProofs, FiniteSetTheorems, SequenceTheorems

Stored == mem \cup Runs(ssts)

(* What is stored is part of what was committed, in layers by age.           *)
Sources ==
    /\ Stored \subseteq log
    /\ Unique(log)
    /\ \A e \in log : e.seq <= committed
    /\ Layered(mem, ssts)

(* No read at or above the highest floor a compaction used has changed.      *)
Faithful ==
    \A k \in Keys, s \in Seqs :
        s >= gcFloor => Resolve(Stored, k, s) = Resolve(log, k, s)

Compacting == {"readerFloor", "retentionFloor", "merging", "merged"}
Floored == {"retentionFloor", "merging", "merged"}

(* What the writer holds at each point of its commit.                        *)
WriterInv ==
    /\ wpc = "logged" => wbatch \in Batches /\ wseq > committed
    /\ wpc = "flushed" => run = mem
    /\ wpc \in Compacting => cruns = ssts
    /\ wpc = "merged" => run = GcVersions(Merge(cruns), cfloor)
    /\ cfloor <= committed /\ gcFloor <= committed

(* A live reader's snapshot is above every floor, also above the one a       *)
(* compaction has computed but not yet applied; one that is still being      *)
(* registered holds the lock that keeps its snapshot the latest.             *)
ReaderInv ==
    \A r \in Readers : rpc[r] # "closed" /\ ~asof[r] =>
        /\ gcFloor <= snap[r]
        /\ rpc[r] = "pinning" => snap[r] = committed
        /\ wpc \in Floored => cfloor <= snap[r]

Inv == TypeOK /\ Sources /\ Faithful /\ WriterInv /\ ReaderInv
-------------------------------------------------------------------------------
OpenAt(s) == {r \in Readers : rpc[r] = "open" /\ snap[r] = s}

LEMMA SeqsAreNat == Seqs \subseteq Nat
  BY EngineAssumption DEF Seqs

LEMMA OpenAtFinite ==
  ASSUME NEW s
  PROVE  IsFiniteSet(OpenAt(s)) /\ Cardinality(OpenAt(s)) \in Nat
  BY EngineAssumption, FS_Subset, FS_CardinalityType DEF OpenAt

LEMMA InitInv == Init => Inv
<1> SUFFICES ASSUME Init PROVE Inv
  OBVIOUS
<1> USE DEF Init
<1>1. TypeOK
  <2>1. 0 \in Seqs
    BY EngineAssumption DEF Seqs
  <2>2. \A s \in Seqs : {r \in Readers : rpc[r] = "open" /\ snap[r] = s} = {}
    OBVIOUS
  <2>3. \A s \in Seqs : registry[s] = Cardinality({r \in Readers : rpc[r] = "open" /\ snap[r] = s})
    BY <2>2, FS_EmptySet
  <2>4. /\ mem \subseteq Entry /\ run \subseteq Entry /\ log \subseteq Entry
        /\ ssts \in Seq(SUBSET Entry) /\ cruns \in Seq(SUBSET Entry)
    OBVIOUS
  <2>5. /\ rpc \in [Readers -> {"closed", "pinning", "open"}]
        /\ snap \in [Readers -> Seqs] /\ asof \in [Readers -> BOOLEAN]
        /\ registry \in [Seqs -> Nat]
    BY <2>1
  <2>6. wpc \in Phases /\ wbatch \in Batches \cup {NoBatch}
    BY DEF Phases
  <2> QED
    BY <2>1, <2>3, <2>4, <2>5, <2>6 DEF TypeOK
<1>2. Runs(ssts) = {} /\ Stored = {}
  BY DEF Runs, Stored
<1>3. Sources /\ Faithful
  BY <1>2 DEF Sources, Faithful, Unique, Layered, Above
<1>4. WriterInv /\ ReaderInv
  BY DEF WriterInv, ReaderInv, Compacting
<1> QED
  BY <1>1, <1>3, <1>4 DEF Inv

-------------------------------------------------------------------------------
(* The registry counts the open readers of each snapshot exactly.            *)
LEMMA RegistryStep ==
  ASSUME TypeOK, [Next]_vars
  PROVE  /\ registry' \in [Seqs -> Nat]
         /\ \A s \in Seqs : registry'[s] = Cardinality(OpenAt(s)')
<1>0. /\ registry \in [Seqs -> Nat] /\ rpc \in [Readers -> {"closed", "pinning", "open"}]
      /\ snap \in [Readers -> Seqs]
      /\ \A s \in Seqs : registry[s] = Cardinality(OpenAt(s))
  BY DEF TypeOK, OpenAt
<1>1. ASSUME NEW r \in Readers, Register(r)
      PROVE  /\ registry' \in [Seqs -> Nat]
             /\ \A s \in Seqs : registry'[s] = Cardinality(OpenAt(s)')
  <2>1. registry' \in [Seqs -> Nat]
    BY <1>0, <1>1 DEF Register
  <2>2. ASSUME NEW s \in Seqs
        PROVE  registry'[s] = Cardinality(OpenAt(s)')
    <3>1. CASE s = snap[r]
      <4>1. OpenAt(s)' = OpenAt(s) \cup {r} /\ r \notin OpenAt(s)
        BY <1>0, <1>1, <3>1 DEF Register, OpenAt
      <4>2. Cardinality(OpenAt(s)') = Cardinality(OpenAt(s)) + 1
        BY <4>1, OpenAtFinite, FS_AddElement
      <4> QED
        BY <1>0, <1>1, <3>1, <4>2 DEF Register
    <3>2. CASE s # snap[r]
      <4>1. OpenAt(s)' = OpenAt(s)
        BY <1>0, <1>1, <3>2 DEF Register, OpenAt
      <4> QED
        BY <1>0, <1>1, <3>2, <4>1 DEF Register
    <3> QED
      BY <3>1, <3>2
  <2> QED
    BY <2>1, <2>2
<1>2. ASSUME NEW r \in Readers, EndRead(r)
      PROVE  /\ registry' \in [Seqs -> Nat]
             /\ \A s \in Seqs : registry'[s] = Cardinality(OpenAt(s)')
  <2>1. r \in OpenAt(snap[r]) /\ snap[r] \in Seqs
    BY <1>0, <1>2 DEF EndRead, OpenAt
  <2>2. /\ Cardinality(OpenAt(snap[r]) \ {r}) = Cardinality(OpenAt(snap[r])) - 1
        /\ Cardinality(OpenAt(snap[r]) \ {r}) \in Nat
    BY <2>1, OpenAtFinite, FS_RemoveElement, FS_CardinalityType
  <2>3. registry' \in [Seqs -> Nat]
    BY <1>0, <1>2, <2>1, <2>2 DEF EndRead
  <2>4. ASSUME NEW s \in Seqs
        PROVE  registry'[s] = Cardinality(OpenAt(s)')
    <3>1. CASE s = snap[r]
      <4>1. OpenAt(s)' = OpenAt(s) \ {r}
        BY <1>0, <1>2, <3>1 DEF EndRead, OpenAt
      <4> QED
        BY <1>0, <1>2, <2>2, <3>1, <4>1 DEF EndRead
    <3>2. CASE s # snap[r]
      <4>1. OpenAt(s)' = OpenAt(s)
        BY <1>0, <1>2, <3>2 DEF EndRead, OpenAt
      <4> QED
        BY <1>0, <1>2, <3>2, <4>1 DEF EndRead
    <3> QED
      BY <3>1, <3>2
  <2> QED
    BY <2>3, <2>4
<1>3. ASSUME NEW r \in Readers, NEW t, NEW b, Pin(r, t, b)
      PROVE  /\ registry' \in [Seqs -> Nat]
             /\ \A s \in Seqs : registry'[s] = Cardinality(OpenAt(s)')
  <2>1. \A s \in Seqs : OpenAt(s)' = OpenAt(s)
    BY <1>0, <1>3 DEF Pin, OpenAt
  <2> QED
    BY <1>0, <1>3, <2>1 DEF Pin
<1>4. CASE UNCHANGED <<registry, rpc, snap>>
  <2>1. \A s \in Seqs : OpenAt(s)' = OpenAt(s)
    BY <1>4 DEF OpenAt
  <2> QED
    BY <1>0, <1>4, <2>1
<1>5. CASE Write
  BY <1>4, <1>5 DEF Write, BeginWrite, Abort, Commit, CommitAtLeast, ApplyReplicated, Log,
                    Publish, readerVars
<1>6. CASE Maintain
  BY <1>4, <1>6 DEF Maintain, MaintenanceFails, FlushNotDue, FlushWrite, FlushSwap,
                    TruncateLog, CompactNotDue, CompactBegin, CompactReaderFloor,
                    CompactRetentionFloor, CompactWrite, CompactSwap, CompactUnlink,
                    readerVars
<1>7. ASSUME NEW r \in Readers, Read(r)
      PROVE  /\ registry' \in [Seqs -> Nat]
             /\ \A s \in Seqs : registry'[s] = Cardinality(OpenAt(s)')
  <2>1. CASE BeginRead(r)
    BY <1>3, <2>1 DEF BeginRead
  <2>2. ASSUME NEW t \in Seqs, BeginReadAt(r, t)
        PROVE  Pin(r, t, TRUE)
    BY <2>2 DEF BeginReadAt
  <2> QED
    BY <1>1, <1>2, <1>3, <1>7, <2>1, <2>2 DEF Read
<1>8. ASSUME NEW n \in Retentions, SetRetention(n)
      PROVE  UNCHANGED <<registry, rpc, snap>>
  BY <1>8 DEF SetRetention, readerVars
<1>9. CASE UNCHANGED vars
  BY <1>4, <1>9 DEF vars, readerVars
<1> QED
  BY <1>4, <1>5, <1>6, <1>7, <1>8, <1>9 DEF Next
-------------------------------------------------------------------------------
LEMMA StampIsEntries ==
  ASSUME NEW b \in Batches, NEW s \in Nat
  PROVE  Stamp(b, s) \in SUBSET Entry
  BY DEF Batches, Stamp, Entry

LEMMA GcIsSubset ==
  ASSUME NEW M, NEW f
  PROVE  GcVersions(M, f) \subseteq M
  BY DEF GcVersions, KeptVersions

LEMMA LeastIsLeast ==
  ASSUME NEW S \in SUBSET Nat, S # {}
  PROVE  Least(S) \in S /\ \A x \in S : Least(S) <= x
  BY LeastExists DEF Least

LEMMA ReaderFloorIn ==
  ASSUME NEW c \in Seqs
  PROVE  ReaderFloor(c) \in Seqs /\ ReaderFloor(c) <= c
<1>1. Registered \in SUBSET Nat /\ Registered \subseteq Seqs
  BY SeqsAreNat DEF Registered
<1>2. CASE Registered = {}
  BY <1>2, SeqsAreNat DEF ReaderFloor
<1>3. CASE Registered # {}
  <2> DEFINE l == Least(Registered)
  <2>1. l \in Seqs
    BY <1>1, <1>3, LeastIsLeast
  <2>2. ReaderFloor(c) = IF l < c THEN l ELSE c
    BY <1>3 DEF ReaderFloor, Lesser
  <2> HIDE DEF l
  <2> QED
    BY <2>1, <2>2, SeqsAreNat
<1> QED
  BY <1>2, <1>3

LEMMA RetentionFloorIn ==
  ASSUME NEW c \in Seqs, retain \in Retentions
  PROVE  RetentionFloor(c) \in Seqs /\ RetentionFloor(c) <= c
  BY EngineAssumption DEF RetentionFloor, Seqs

(* The runs after a compaction: the merged one, nothing beside it.           *)
LEMMA SwappedRuns ==
  ASSUME TypeOK, WriterInv, CompactSwap
  PROVE  ssts' = <<run>>
<1>1. cruns = ssts /\ ssts \in Seq(SUBSET Entry) /\ Len(ssts) \in Nat
  BY DEF CompactSwap, WriterInv, Compacting, TypeOK
<1>2. SubSeq(ssts, Len(cruns) + 1, Len(ssts)) = <<>>
  BY <1>1, SubSeqEmpty
<1>3. <<run>> \in Seq(SUBSET Entry)
  BY DEF TypeOK
<1>4. <<run>> \o <<>> = <<run>>
  BY <1>3, ConcatEmptySeq
<1> QED
  BY <1>2, <1>4 DEF CompactSwap

LEMMA TypeStep ==
  ASSUME Inv, [Next]_vars
  PROVE  TypeOK'
<1>0. TypeOK /\ WriterInv
  BY DEF Inv
<1>r. /\ registry' \in [Seqs -> Nat]
      /\ \A s \in Seqs :
            registry'[s] = Cardinality({r \in Readers : rpc'[r] = "open" /\ snap'[r] = s})
  BY <1>0, RegistryStep DEF OpenAt
<1> DEFINE Rest ==
    /\ mem \subseteq Entry /\ run \subseteq Entry /\ log \subseteq Entry
    /\ ssts \in Seq(SUBSET Entry) /\ cruns \in Seq(SUBSET Entry)
    /\ committed \in Seqs /\ wseq \in Seqs /\ cfloor \in Seqs /\ gcFloor \in Seqs
    /\ retain \in Retentions
    /\ rpc \in [Readers -> {"closed", "pinning", "open"}]
    /\ snap \in [Readers -> Seqs]
    /\ asof \in [Readers -> BOOLEAN]
    /\ wpc \in Phases
    /\ wbatch \in Batches \cup {NoBatch}
    /\ maintErr \in BOOLEAN
<1>1. Rest
  BY <1>0 DEF TypeOK
<1>2. 0 \in Seqs /\ {} \subseteq Entry /\ <<>> \in Seq(SUBSET Entry)
  BY EngineAssumption DEF Seqs
<1> SUFFICES Rest'
  BY <1>r DEF TypeOK
<1> USE <1>1, <1>2
<1>3. ASSUME NEW batch \in Batches, NEW s \in Nat, Log(batch, s)
      PROVE  Rest'
  BY <1>3, EngineAssumption DEF Log, storeVars, readerVars, ghostVars, Phases, Seqs
<1>4. CASE Write
  <2>1. CASE BeginWrite \/ Abort
    BY <2>1 DEF BeginWrite, Abort, storeVars, readerVars, ghostVars, Phases
  <2>2. ASSUME NEW batch \in Batches, Commit(batch)
        PROVE  Rest'
    BY <1>3, <2>2, SeqsAreNat DEF Commit
  <2>3. ASSUME NEW batch \in Batches, NEW f \in Floors, CommitAtLeast(batch, f)
        PROVE  Rest'
    <3>1. f \in Nat /\ committed + 1 \in Nat
      BY EngineAssumption, SeqsAreNat
    <3>2. Greater(committed + 1, f) \in Nat
      BY <3>1 DEF Greater
    <3> QED
      BY <1>3, <2>3, <3>2 DEF CommitAtLeast
  <2>4. ASSUME NEW batch \in Batches, NEW f \in Floors, ApplyReplicated(batch, f)
        PROVE  Rest'
    BY <1>3, <2>4, EngineAssumption DEF ApplyReplicated
  <2>5. CASE Publish
    <3>1. wbatch \in Batches /\ wseq \in Nat
      BY <1>0, <2>5, SeqsAreNat DEF Publish, WriterInv
    <3>2. Stamp(wbatch, wseq) \subseteq Entry
      BY <3>1, StampIsEntries
    <3> QED
      BY <2>5, <3>2 DEF Publish, readerVars, Phases, NoBatch
  <2> QED
    BY <1>4, <2>1, <2>2, <2>3, <2>4, <2>5 DEF Write
<1>5. CASE Maintain
  <2> USE DEF storeVars, readerVars, ghostVars, Phases
  <2>1. CASE MaintenanceFails
    BY <2>1 DEF MaintenanceFails, MaintenanceEnds
  <2>2. CASE FlushNotDue \/ FlushWrite \/ TruncateLog \/ CompactBegin
    BY <2>2 DEF FlushNotDue, FlushWrite, TruncateLog, CompactBegin
  <2>3. CASE FlushSwap
    <3>1. Append(ssts, run) \in Seq(SUBSET Entry)
      OBVIOUS
    <3> QED
      BY <2>3, <3>1 DEF FlushSwap
  <2>4. CASE CompactNotDue \/ CompactUnlink
    BY <2>4 DEF CompactNotDue, CompactUnlink, MaintenanceEnds
  <2>5. CASE CompactReaderFloor
    <3>1. ReaderFloor(committed) \in Seqs
      BY ReaderFloorIn
    <3> QED
      BY <2>5, <3>1 DEF CompactReaderFloor
  <2>6. CASE CompactRetentionFloor
    <3>1. RetentionFloor(committed) \in Seqs
      BY RetentionFloorIn
    <3>2. Lesser(cfloor, RetentionFloor(committed)) \in Seqs
      BY <3>1 DEF Lesser
    <3> QED
      BY <2>6, <3>2 DEF CompactRetentionFloor
  <2>7. CASE CompactWrite
    <3>1. Merge(cruns) \subseteq Entry
      BY DEF Merge
    <3>2. GcVersions(Merge(cruns), cfloor) \subseteq Entry
      BY <3>1, GcIsSubset
    <3> QED
      BY <2>7, <3>2 DEF CompactWrite
  <2>8. CASE CompactSwap
    <3>1. ssts' = <<run>>
      BY <1>0, <2>8, SwappedRuns
    <3>2. ssts' \in Seq(SUBSET Entry)
      BY <3>1
    <3>3. gcFloor' \in Seqs
      BY <2>8 DEF CompactSwap, Greater
    <3> QED
      BY <2>8, <3>2, <3>3 DEF CompactSwap
  <2> QED
    BY <1>5, <2>1, <2>2, <2>3, <2>4, <2>5, <2>6, <2>7, <2>8 DEF Maintain
<1>6. ASSUME NEW r \in Readers, Read(r)
      PROVE  Rest'
  <2> USE DEF storeVars, writerVars, ghostVars
  <2>1. CASE BeginRead(r)
    BY <2>1 DEF BeginRead, Pin
  <2>2. ASSUME NEW s \in Seqs, BeginReadAt(r, s)
        PROVE  Rest'
    BY <2>2 DEF BeginReadAt, Pin
  <2>3. CASE Register(r)
    BY <2>3 DEF Register
  <2>4. CASE EndRead(r)
    BY <2>4 DEF EndRead
  <2> QED
    BY <1>6, <2>1, <2>2, <2>3, <2>4 DEF Read
<1>7. ASSUME NEW n \in Retentions, SetRetention(n)
      PROVE  Rest'
  BY <1>7 DEF SetRetention, storeVars, readerVars, writerVars, ghostVars
<1>8. CASE UNCHANGED vars
  BY <1>8 DEF vars, storeVars, readerVars, writerVars, ghostVars
<1> QED
  BY <1>4, <1>5, <1>6, <1>7, <1>8 DEF Next
-------------------------------------------------------------------------------
(* Only three steps touch what is stored.                                    *)
LEMMA StoreFrame ==
  ASSUME [Next]_vars
  PROVE  \/ Publish \/ FlushSwap \/ CompactSwap
         \/ UNCHANGED <<mem, ssts, committed, log, gcFloor>>
<1> USE DEF storeVars, ghostVars
<1>1. CASE Write
  BY <1>1 DEF Write, BeginWrite, Abort, Commit, CommitAtLeast, ApplyReplicated, Log
<1>2. CASE Maintain
  BY <1>2 DEF Maintain, MaintenanceFails, FlushNotDue, FlushWrite, TruncateLog,
              CompactNotDue, CompactBegin, CompactReaderFloor, CompactRetentionFloor,
              CompactWrite, CompactUnlink
<1>3. ASSUME NEW r \in Readers, Read(r)
      PROVE  UNCHANGED <<mem, ssts, committed, log, gcFloor>>
  BY <1>3 DEF Read, BeginRead, BeginReadAt, Pin, Register, EndRead
<1>4. ASSUME NEW n \in Retentions, SetRetention(n)
      PROVE  UNCHANGED <<mem, ssts, committed, log, gcFloor>>
  BY <1>4 DEF SetRetention
<1>5. CASE UNCHANGED vars
  BY <1>5 DEF vars
<1> QED
  BY <1>1, <1>2, <1>3, <1>4, <1>5 DEF Next

(* A published batch lies above everything committed before it.              *)
LEMMA PublishAdds ==
  ASSUME Inv, Publish
  PROVE  LET P == Stamp(wbatch, wseq) IN
         /\ P \in SUBSET Entry /\ Unique(P)
         /\ Above(P, log)
         /\ \A e \in P : e.seq = wseq
         /\ mem' = mem \cup P /\ log' = log \cup P /\ ssts' = ssts
         /\ Stored' = Stored \cup P
         /\ committed' = wseq /\ committed < wseq /\ gcFloor' = gcFloor
         /\ wseq \in Nat /\ committed \in Nat
<1> DEFINE P == Stamp(wbatch, wseq)
<1>1. wbatch \in Batches /\ wseq > committed /\ wseq \in Nat /\ committed \in Nat
  BY SeqsAreNat DEF Inv, WriterInv, TypeOK, Publish
<1>2. P \in SUBSET Entry
  BY <1>1, StampIsEntries
<1>3. \A e \in P : e.seq = wseq /\ e.op = wbatch[e.key]
  BY DEF Stamp
<1>4. Unique(P)
  BY <1>2, <1>3 DEF Unique, Entry
<1>5. Above(P, log)
  <2>1. ASSUME NEW e \in P, NEW f \in log
        PROVE  f.seq < e.seq
    <3>1. f.seq <= committed /\ f.seq \in Nat /\ e.seq = wseq
      BY <1>3 DEF Inv, Sources, TypeOK, Entry
    <3> QED
      BY <1>1, <3>1
  <2> QED
    BY <2>1 DEF Above
<1>6. mem' = mem \cup P /\ log' = log \cup P /\ ssts' = ssts /\ committed' = wseq
      /\ gcFloor' = gcFloor
  BY DEF Publish
<1>7. Stored' = Stored \cup P
  BY <1>6 DEF Stored, Runs
<1> QED
  BY <1>1, <1>2, <1>3, <1>4, <1>5, <1>6, <1>7

LEMMA FlushMoves ==
  ASSUME Inv, FlushSwap
  PROVE  /\ mem' = {} /\ ssts' = Append(ssts, mem) /\ Stored' = Stored
         /\ UNCHANGED <<committed, log, gcFloor>>
<1>1. run = mem /\ ssts \in Seq(SUBSET Entry) /\ mem \in SUBSET Entry
  BY DEF Inv, WriterInv, TypeOK, FlushSwap
<1>2. mem' = {} /\ ssts' = Append(ssts, mem) /\ UNCHANGED <<committed, log, gcFloor>>
  BY <1>1 DEF FlushSwap, ghostVars
<1>3. /\ DOMAIN Append(ssts, mem) = DOMAIN ssts \cup {Len(ssts) + 1}
      /\ \A i \in DOMAIN ssts : Append(ssts, mem)[i] = ssts[i]
      /\ Append(ssts, mem)[Len(ssts) + 1] = mem
  BY <1>1
<1>4. Runs(Append(ssts, mem)) = Runs(ssts) \cup mem
  BY <1>3 DEF Runs
<1>5. Stored' = Runs(ssts)' \cup mem'
  BY DEF Stored
<1>6. Runs(ssts)' = Runs(Append(ssts, mem))
  BY <1>2 DEF Runs
<1> QED
  BY <1>2, <1>4, <1>5, <1>6 DEF Stored

LEMMA CompactMoves ==
  ASSUME Inv, CompactSwap
  PROVE  LET G == GcVersions(Runs(ssts), cfloor) IN
         /\ ssts' = <<G>> /\ mem' = mem
         /\ Stored' = mem \cup G
         /\ UNCHANGED <<committed, log>>
         /\ gcFloor' = Greater(gcFloor, cfloor)
<1>1. Unique(Runs(ssts))
  BY DEF Inv, Sources, Stored, Unique
<1>2. cruns = ssts /\ run = GcVersions(Merge(cruns), cfloor)
  BY DEF Inv, WriterInv, CompactSwap, Compacting
<1>3. run = GcVersions(Runs(ssts), cfloor)
  BY <1>1, <1>2, MergeIsUnion
<1>4. ssts' = <<run>>
  BY SwappedRuns DEF Inv
<1>5. mem' = mem /\ UNCHANGED <<committed, log>> /\ gcFloor' = Greater(gcFloor, cfloor)
  BY DEF CompactSwap
<1>6. Runs(<<run>>) = run
  BY DEF Runs
<1>7. Stored' = mem' \cup Runs(ssts')
  BY DEF Stored, Runs
<1> QED
  BY <1>3, <1>4, <1>5, <1>6, <1>7

LEMMA SourcesStep ==
  ASSUME Inv, [Next]_vars
  PROVE  Sources'
<1>0. /\ Stored \subseteq log /\ Unique(log) /\ \A e \in log : e.seq <= committed
      /\ Layered(mem, ssts)
      /\ log \subseteq Entry /\ mem \subseteq Entry /\ ssts \in Seq(SUBSET Entry)
      /\ committed \in Nat
  BY SeqsAreNat DEF Inv, Sources, TypeOK
<1>1. CASE Publish
  <2> DEFINE P == Stamp(wbatch, wseq)
  <2>1. /\ P \in SUBSET Entry /\ Unique(P) /\ Above(P, log)
        /\ \A e \in P : e.seq = wseq
        /\ mem' = mem \cup P /\ log' = log \cup P /\ ssts' = ssts
        /\ Stored' = Stored \cup P
        /\ committed' = wseq /\ committed < wseq
        /\ wseq \in Nat
    BY <1>1, PublishAdds
  <2> HIDE DEF P
  <2>2. Stored' \subseteq log'
    BY <1>0, <2>1
  <2>3. Unique(log')
    <3>1. ASSUME NEW e \in log', NEW f \in log', e.key = f.key, e.seq = f.seq
          PROVE  e = f
      <4>1. e.seq \in Nat /\ f.seq \in Nat
        BY <1>0, <2>1 DEF Entry
      <4>2. CASE e \in P /\ f \in P
        BY <2>1, <3>1, <4>2 DEF Unique
      <4>3. CASE e \in log /\ f \in log
        BY <1>0, <3>1, <4>3 DEF Unique
      <4>4. ~ (e \in P /\ f \in log) /\ ~ (e \in log /\ f \in P)
        BY <2>1, <3>1, <4>1 DEF Above
      <4> QED
        BY <2>1, <4>2, <4>3, <4>4
    <3> QED
      BY <3>1 DEF Unique
  <2>4. \A e \in log' : e.seq <= committed'
    BY <1>0, <2>1 DEF Entry
  <2>5. Layered(mem', ssts')
    <3>1. ASSUME NEW i \in DOMAIN ssts, NEW e \in mem', NEW f \in ssts[i]
          PROVE  f.seq < e.seq
      <4>1. f \in log
        BY <1>0 DEF Stored, Runs
      <4> QED
        BY <1>0, <2>1, <4>1 DEF Layered, Above
    <3> QED
      BY <1>0, <2>1, <3>1 DEF Layered, Above
  <2> QED
    BY <2>2, <2>3, <2>4, <2>5 DEF Sources, Layered, Unique
<1>2. CASE FlushSwap
  <2>1. /\ mem' = {} /\ ssts' = Append(ssts, mem) /\ Stored' = Stored
        /\ UNCHANGED <<committed, log, gcFloor>>
    BY <1>2, FlushMoves
  <2>2. /\ DOMAIN Append(ssts, mem) = 1..(Len(ssts) + 1)
        /\ DOMAIN ssts = 1..Len(ssts) /\ Len(ssts) \in Nat
        /\ \A i \in DOMAIN ssts : Append(ssts, mem)[i] = ssts[i]
        /\ Append(ssts, mem)[Len(ssts) + 1] = mem
    BY <1>0
  <2>3. ASSUME NEW i \in DOMAIN ssts', NEW j \in DOMAIN ssts', i < j
        PROVE  Above(ssts'[j], ssts'[i])
    <3>1. i \in DOMAIN ssts /\ ssts'[i] = ssts[i]
      BY <2>1, <2>2, <2>3
    <3>2. CASE j \in DOMAIN ssts
      BY <1>0, <2>1, <2>2, <2>3, <3>1, <3>2 DEF Layered
    <3>3. CASE j = Len(ssts) + 1
      BY <1>0, <2>1, <2>2, <3>1, <3>3 DEF Layered
    <3> QED
      BY <2>1, <2>2, <3>2, <3>3
  <2>4. Layered(mem', ssts')
    BY <2>1, <2>3 DEF Layered, Above
  <2> QED
    BY <1>0, <2>1, <2>4 DEF Sources, Layered, Unique
<1>3. CASE CompactSwap
  <2> DEFINE G == GcVersions(Runs(ssts), cfloor)
  <2>1. /\ ssts' = <<G>> /\ mem' = mem /\ Stored' = mem \cup G
        /\ UNCHANGED <<committed, log>>
    BY <1>3, CompactMoves
  <2>2. G \subseteq Runs(ssts)
    BY GcIsSubset
  <2> HIDE DEF G
  <2>3. Stored' \subseteq log'
    BY <1>0, <2>1, <2>2 DEF Stored
  <2>4. DOMAIN ssts' = {1} /\ ssts'[1] = G
    BY <2>1
  <2>5. Above(mem, G)
    BY <1>0, <2>2 DEF Layered, Above, Runs
  <2>6. Layered(mem', ssts')
    BY <2>1, <2>4, <2>5 DEF Layered
  <2> QED
    BY <1>0, <2>1, <2>3, <2>6 DEF Sources, Layered, Unique
<1>4. CASE UNCHANGED <<mem, ssts, committed, log, gcFloor>>
  <2>1. Stored' = Stored
    BY <1>4 DEF Stored, Runs
  <2> QED
    BY <1>0, <1>4, <2>1 DEF Sources, Layered, Unique
<1> QED
  BY <1>1, <1>2, <1>3, <1>4, StoreFrame

LEMMA FaithfulStep ==
  ASSUME Inv, [Next]_vars
  PROVE  Faithful'
<1>0. /\ Stored \subseteq log /\ Unique(log) /\ Layered(mem, ssts)
      /\ log \in SUBSET Entry /\ mem \in SUBSET Entry /\ Stored \in SUBSET Entry
      /\ Faithful /\ gcFloor \in Nat /\ cfloor \in Nat
  BY SeqsAreNat DEF Inv, Sources, TypeOK
<1>1. CASE Publish
  <2> DEFINE P == Stamp(wbatch, wseq)
  <2>1. /\ P \in SUBSET Entry /\ Unique(P) /\ Above(P, log)
        /\ log' = log \cup P /\ Stored' = Stored \cup P /\ gcFloor' = gcFloor
    BY <1>1, PublishAdds
  <2>2. Unique(log')
    BY SourcesStep DEF Sources, Unique
  <2> HIDE DEF P
  <2>3. /\ log' \in SUBSET Entry /\ Stored' \in SUBSET Entry
        /\ Unique(Stored')
        /\ P \subseteq log' /\ P \subseteq Stored'
        /\ \A e \in P, f \in log' : f \in P \/ f.seq < e.seq
        /\ \A e \in P, f \in Stored' : f \in P \/ f.seq < e.seq
    BY <1>0, <2>1, <2>2 DEF Unique, Above
  <2>4. ASSUME NEW k \in Keys, NEW s \in Seqs, s >= gcFloor
        PROVE  Resolve(Stored', k, s) = Resolve(log', k, s)
    <3>1. s \in Nat
      BY SeqsAreNat
    <3>2. CASE Visible(P, k, s) # {}
      <4>1. Resolve(log', k, s) = Resolve(P, k, s)
        BY <2>1, <2>2, <2>3, <3>1, <3>2, ResolveHidden
      <4>2. Resolve(Stored', k, s) = Resolve(P, k, s)
        BY <2>1, <2>3, <3>1, <3>2, ResolveHidden
      <4> QED
        BY <4>1, <4>2
    <3>3. CASE Visible(P, k, s) = {}
      <4>1. Resolve(P \cup log, k, s) = Resolve(log, k, s)
        BY <3>3, ResolveBeneath
      <4>2. Resolve(P \cup Stored, k, s) = Resolve(Stored, k, s)
        BY <3>3, ResolveBeneath
      <4>3. Resolve(Stored, k, s) = Resolve(log, k, s)
        BY <1>0, <2>4 DEF Faithful
      <4>4. log' = P \cup log /\ Stored' = P \cup Stored
        BY <2>1
      <4> QED
        BY <4>1, <4>2, <4>3, <4>4
    <3> QED
      BY <3>2, <3>3
  <2> QED
    BY <2>1, <2>4 DEF Faithful
<1>2. CASE FlushSwap
  <2>1. Stored' = Stored /\ UNCHANGED <<log, gcFloor>>
    BY <1>2, FlushMoves
  <2> QED
    BY <1>0, <2>1 DEF Faithful
<1>3. CASE CompactSwap
  <2> DEFINE M == Runs(ssts)
             G == GcVersions(M, cfloor)
  <2>1. Stored' = mem \cup G /\ log' = log /\ gcFloor' = Greater(gcFloor, cfloor)
    BY <1>3, CompactMoves
  <2>2. G \subseteq M
    BY GcIsSubset
  <2>3. Stored = mem \cup M
    BY DEF Stored
  <2>4. /\ M \in SUBSET Entry /\ Unique(M) /\ Unique(Stored)
        /\ \A e \in mem, f \in M : f.seq < e.seq
    <3>1. \A e \in mem, f \in M : f.seq < e.seq
      BY <1>0 DEF Layered, Above, Runs
    <3> HIDE DEF M
    <3> QED
      BY <1>0, <2>3, <3>1 DEF Unique
  <2>5. ASSUME NEW k \in Keys, NEW s \in Seqs, s >= gcFloor'
        PROVE  Resolve(mem \cup G, k, s) = Resolve(Stored, k, s)
    <3>1. s \in Nat /\ cfloor <= s
      BY <1>0, <2>1, <2>5, SeqsAreNat DEF Greater
    <3>2. Resolve(G, k, s) = Resolve(M, k, s)
      BY <1>0, <2>4, <3>1, GcKeepsReadsAboveFloor
    <3> HIDE DEF M, G
    <3>3. CASE Visible(mem, k, s) # {}
      <4> DEFINE C == mem \cup G
      <4>1. /\ C \in SUBSET Entry /\ Unique(C) /\ mem \subseteq C
            /\ \A e \in mem, f \in C : f \in mem \/ f.seq < e.seq
        BY <1>0, <2>2, <2>3, <2>4 DEF Unique
      <4>2. /\ mem \subseteq Stored
            /\ \A e \in mem, f \in Stored : f \in mem \/ f.seq < e.seq
        BY <2>3, <2>4
      <4> HIDE DEF C
      <4>3. Resolve(C, k, s) = Resolve(mem, k, s)
        BY <1>0, <3>1, <3>3, <4>1, ResolveHidden
      <4>4. Resolve(Stored, k, s) = Resolve(mem, k, s)
        BY <1>0, <2>4, <3>1, <3>3, <4>2, ResolveHidden
      <4> QED
        BY <4>3, <4>4 DEF C
    <3>4. CASE Visible(mem, k, s) = {}
      <4>1. Resolve(mem \cup G, k, s) = Resolve(G, k, s)
        BY <3>4, ResolveBeneath
      <4>2. Resolve(mem \cup M, k, s) = Resolve(M, k, s)
        BY <3>4, ResolveBeneath
      <4> QED
        BY <2>3, <3>2, <4>1, <4>2
    <3> QED
      BY <3>3, <3>4
  <2>6. ASSUME NEW s \in Seqs, s >= gcFloor'
        PROVE  s >= gcFloor
    BY <1>0, <2>1, <2>6, SeqsAreNat DEF Greater
  <2> QED
    BY <1>0, <2>1, <2>5, <2>6 DEF Faithful
<1>4. CASE UNCHANGED <<mem, ssts, committed, log, gcFloor>>
  <2>1. Stored' = Stored
    BY <1>4 DEF Stored, Runs
  <2> QED
    BY <1>0, <1>4, <2>1 DEF Faithful
<1> QED
  BY <1>1, <1>2, <1>3, <1>4, StoreFrame

-------------------------------------------------------------------------------
LEMMA WriterStep ==
  ASSUME Inv, [Next]_vars
  PROVE  WriterInv'
<1>0. WriterInv /\ committed \in Nat /\ cfloor \in Nat /\ gcFloor \in Nat /\ wseq \in Nat
      /\ committed \in Seqs /\ retain \in Retentions
  BY SeqsAreNat DEF Inv, TypeOK
<1> USE <1>0
<1>1. ASSUME NEW batch \in Batches, NEW s \in Nat, Log(batch, s), s > committed
      PROVE  WriterInv'
  BY <1>1 DEF WriterInv, Log, storeVars, ghostVars, Compacting
<1>2. CASE Write
  <2>1. CASE BeginWrite \/ Abort
    BY <2>1 DEF BeginWrite, Abort, storeVars, ghostVars, WriterInv, Compacting
  <2>2. ASSUME NEW batch \in Batches, Commit(batch)
        PROVE  WriterInv'
    BY <1>1, <2>2 DEF Commit
  <2>3. ASSUME NEW batch \in Batches, NEW f \in Floors, CommitAtLeast(batch, f)
        PROVE  WriterInv'
    <3>1. f \in Nat
      BY EngineAssumption
    <3>2. Greater(committed + 1, f) \in Nat /\ Greater(committed + 1, f) > committed
      BY <3>1 DEF Greater
    <3> QED
      BY <1>1, <2>3, <3>2 DEF CommitAtLeast
  <2>4. ASSUME NEW batch \in Batches, NEW f \in Floors, ApplyReplicated(batch, f)
        PROVE  WriterInv'
    BY <1>1, <2>4, EngineAssumption DEF ApplyReplicated
  <2>5. CASE Publish
    BY <2>5 DEF Publish, WriterInv, Compacting
  <2> QED
    BY <1>2, <2>1, <2>2, <2>3, <2>4, <2>5 DEF Write
<1>3. CASE Maintain
  <2> USE DEF storeVars, ghostVars, WriterInv, Compacting
  <2>1. CASE MaintenanceFails \/ CompactNotDue \/ CompactUnlink
    BY <2>1 DEF MaintenanceFails, CompactNotDue, CompactUnlink, MaintenanceEnds
  <2>2. CASE FlushNotDue \/ FlushWrite \/ FlushSwap \/ TruncateLog
    BY <2>2 DEF FlushNotDue, FlushWrite, FlushSwap, TruncateLog
  <2>3. CASE CompactBegin
    BY <2>3 DEF CompactBegin
  <2>4. CASE CompactReaderFloor
    <3>1. ReaderFloor(committed) <= committed
      BY ReaderFloorIn
    <3> QED
      BY <2>4, <3>1 DEF CompactReaderFloor
  <2>5. CASE CompactRetentionFloor
    <3>1. RetentionFloor(committed) \in Nat /\ RetentionFloor(committed) <= committed
      BY RetentionFloorIn, SeqsAreNat
    <3>2. Lesser(cfloor, RetentionFloor(committed)) <= committed
      BY <3>1 DEF Lesser
    <3> QED
      BY <2>5, <3>2 DEF CompactRetentionFloor
  <2>6. CASE CompactWrite
    BY <2>6 DEF CompactWrite
  <2>7. CASE CompactSwap
    BY <2>7 DEF CompactSwap, Greater
  <2> QED
    BY <1>3, <2>1, <2>2, <2>3, <2>4, <2>5, <2>6, <2>7 DEF Maintain
<1>4. CASE UNCHANGED <<storeVars, writerVars, ghostVars>>
  BY <1>4 DEF WriterInv, Compacting, storeVars, writerVars, ghostVars
<1>5. ASSUME NEW r \in Readers, Read(r)
      PROVE  UNCHANGED <<storeVars, writerVars, ghostVars>>
  BY <1>5 DEF Read, BeginRead, BeginReadAt, Pin, Register, EndRead
<1>6. ASSUME NEW n \in Retentions, SetRetention(n)
      PROVE  UNCHANGED <<storeVars, writerVars, ghostVars>>
  BY <1>6 DEF SetRetention
<1>7. CASE UNCHANGED vars
  BY <1>4, <1>7 DEF vars
<1> QED
  BY <1>2, <1>3, <1>4, <1>5, <1>6, <1>7 DEF Next

(* An open reader is counted, so min_snapshot does not pass it.              *)
LEMMA ReaderFloorBelow ==
  ASSUME TypeOK, NEW r \in Readers, rpc[r] = "open"
  PROVE  ReaderFloor(committed) <= snap[r]
<1>1. snap[r] \in Seqs /\ committed \in Nat /\ snap[r] \in Nat
  BY SeqsAreNat DEF TypeOK
<1>2. registry[snap[r]] = Cardinality(OpenAt(snap[r]))
  BY <1>1 DEF TypeOK, OpenAt
<1>3. r \in OpenAt(snap[r])
  BY DEF OpenAt
<1>4. Cardinality(OpenAt(snap[r])) # 0 /\ Cardinality(OpenAt(snap[r])) \in Nat
  BY <1>3, OpenAtFinite, FS_EmptySet
<1>5. snap[r] \in Registered
  BY <1>1, <1>2, <1>4 DEF Registered
<1>6. Registered \in SUBSET Nat
  BY SeqsAreNat DEF Registered
<1>7. Least(Registered) <= snap[r] /\ Least(Registered) \in Nat
  BY <1>5, <1>6, LeastIsLeast
<1>8. ReaderFloor(committed) = Lesser(Least(Registered), committed)
  BY <1>5 DEF ReaderFloor
<1> HIDE DEF Registered
<1> QED
  BY <1>1, <1>7, <1>8 DEF Lesser

LEMMA ReaderStep ==
  ASSUME Inv, [Next]_vars
  PROVE  ReaderInv'
<1>0. /\ TypeOK /\ WriterInv /\ ReaderInv
      /\ committed \in Nat /\ cfloor \in Nat /\ gcFloor \in Nat
      /\ committed \in Seqs /\ retain \in Retentions
      /\ rpc \in [Readers -> {"closed", "pinning", "open"}]
      /\ snap \in [Readers -> Seqs] /\ asof \in [Readers -> BOOLEAN]
      /\ \A r \in Readers : snap[r] \in Nat
  BY SeqsAreNat DEF Inv, TypeOK
<1>1. CASE Write \/ Maintain
  <2>0. UNCHANGED <<rpc, snap, asof>>
    BY <1>1 DEF Write, BeginWrite, Abort, Commit, CommitAtLeast, ApplyReplicated, Log, Publish,
                Maintain, MaintenanceFails, FlushNotDue, FlushWrite, FlushSwap, TruncateLog,
                CompactNotDue, CompactBegin, CompactReaderFloor, CompactRetentionFloor,
                CompactWrite, CompactSwap, CompactUnlink, readerVars
  <2> SUFFICES ASSUME NEW r \in Readers, rpc[r] # "closed", ~asof[r]
               PROVE  /\ gcFloor' <= snap[r]
                      /\ rpc[r] = "pinning" => snap[r] = committed'
                      /\ wpc' \in Floored => cfloor' <= snap[r]
    BY <2>0 DEF ReaderInv
  <2>1. /\ gcFloor <= snap[r]
        /\ rpc[r] = "pinning" => snap[r] = committed
        /\ wpc \in Floored => cfloor <= snap[r]
        /\ snap[r] \in Nat
    BY <1>0 DEF ReaderInv
  <2>2. CASE Publish
    BY <2>1, <2>2 DEF Publish, StoreUnlocked, Floored
  <2>3. CASE CompactSwap
    BY <1>0, <2>1, <2>3 DEF CompactSwap, StoreUnlocked, Floored, Greater
  <2>4. CASE CompactReaderFloor
    <3>1. ReaderFloor(committed) <= snap[r]
      <4>1. CASE rpc[r] = "open"
        BY <1>0, <4>1, ReaderFloorBelow
      <4>2. CASE rpc[r] = "pinning"
        BY <1>0, <2>1, <4>2, ReaderFloorIn
      <4> QED
        BY <1>0, <4>1, <4>2
    <3> QED
      BY <2>1, <2>4, <3>1 DEF CompactReaderFloor, storeVars, ghostVars
  <2>5. CASE CompactRetentionFloor
    <3>1. RetentionFloor(committed) \in Nat
      BY <1>0, RetentionFloorIn, SeqsAreNat
    <3>2. Lesser(cfloor, RetentionFloor(committed)) <= snap[r]
      BY <1>0, <2>1, <2>5, <3>1 DEF CompactRetentionFloor, Floored, Lesser
    <3> QED
      BY <2>1, <2>5, <3>2 DEF CompactRetentionFloor, storeVars, ghostVars
  <2>6. CASE CompactWrite
    BY <2>1, <2>6 DEF CompactWrite, storeVars, ghostVars, Floored
  <2>7. CASE Write /\ ~Publish
    BY <2>1, <2>7 DEF Write, BeginWrite, Abort, Commit, CommitAtLeast, ApplyReplicated, Log,
                      storeVars, ghostVars, Floored
  <2>8. CASE MaintenanceFails \/ CompactNotDue \/ CompactUnlink
    BY <2>1, <2>8 DEF MaintenanceFails, CompactNotDue, CompactUnlink, MaintenanceEnds,
                      storeVars, ghostVars, Floored
  <2>9. CASE FlushNotDue \/ FlushWrite \/ FlushSwap \/ TruncateLog \/ CompactBegin
    BY <2>1, <2>9 DEF FlushNotDue, FlushWrite, FlushSwap, TruncateLog, CompactBegin,
                      storeVars, ghostVars, Floored
  <2> QED
    BY <1>1, <2>2, <2>3, <2>4, <2>5, <2>6, <2>7, <2>8, <2>9 DEF Maintain
<1>2. ASSUME NEW q \in Readers, Read(q)
      PROVE  ReaderInv'
  <2>0. UNCHANGED <<wpc, cfloor, gcFloor, committed>>
    BY <1>2 DEF Read, BeginRead, BeginReadAt, Pin, Register, EndRead,
                storeVars, writerVars, ghostVars
  <2>1. CASE BeginRead(q)
    BY <1>0, <2>0, <2>1 DEF BeginRead, Pin, ReaderInv, WriterInv
  <2>2. ASSUME NEW s \in Seqs, BeginReadAt(q, s)
        PROVE  ReaderInv'
    BY <1>0, <2>0, <2>2 DEF BeginReadAt, Pin, ReaderInv
  <2>3. CASE Register(q)
    BY <1>0, <2>0, <2>3 DEF Register, ReaderInv
  <2>4. CASE EndRead(q)
    BY <1>0, <2>0, <2>4 DEF EndRead, ReaderInv
  <2> QED
    BY <1>2, <2>1, <2>2, <2>3, <2>4 DEF Read
<1>3. CASE UNCHANGED <<storeVars, readerVars, writerVars, ghostVars>>
  BY <1>0, <1>3 DEF ReaderInv, storeVars, readerVars, writerVars, ghostVars
<1>4. ASSUME NEW n \in Retentions, SetRetention(n)
      PROVE  UNCHANGED <<storeVars, readerVars, writerVars, ghostVars>>
  BY <1>4 DEF SetRetention
<1>5. CASE UNCHANGED vars
  BY <1>3, <1>5 DEF vars
<1> QED
  BY <1>1, <1>2, <1>3, <1>4, <1>5 DEF Next

LEMMA InvInductive == Spec => []Inv
<1>1. Inv /\ [Next]_vars => Inv'
  BY TypeStep, SourcesStep, FaithfulStep, WriterStep, ReaderStep DEF Inv
<1> QED
  BY InitInv, <1>1, PTL DEF Spec

-------------------------------------------------------------------------------
(* Above every floor a read of the store finds what was committed.           *)
LEMMA GetIsCommitted ==
  ASSUME Inv, NEW k \in Keys, NEW s \in Seqs, s >= gcFloor
  PROVE  Get(k, s) = Resolve(log, k, s)
<1>1. /\ mem \in SUBSET Entry /\ ssts \in Seq(SUBSET Entry) /\ Layered(mem, ssts)
      /\ Unique(mem \cup Runs(ssts)) /\ s \in Nat
  BY SeqsAreNat DEF Inv, TypeOK, Sources, Stored, Unique
<1>2. CommittedGet(mem, ssts, k, s) = Resolve(mem \cup Runs(ssts), k, s)
  BY <1>1, GetReadsTheUnion
<1>3. Resolve(Stored, k, s) = Resolve(log, k, s)
  BY DEF Inv, Faithful
<1> QED
  BY <1>2, <1>3 DEF Get, Stored

(* Type correctness, with the reader registry (NativeEngine.readers) exact:  *)
(* no interleaving of begin_read, drop and the writer makes it drift.        *)
THEOREM TypeCorrect == Spec => []TypeOK
<1>1. Inv => TypeOK
  BY DEF Inv
<1> QED
  BY InvInductive, <1>1, PTL

(* Snapshot isolation: a reader opened by begin_read reads the state         *)
(* committed when it was opened until it is dropped, whatever is committed,  *)
(* flushed, compacted or retained meanwhile.                                 *)
THEOREM SnapshotIsolation == Spec => []ReaderStable
<1>1. Inv => ReaderStable
  <2> SUFFICES ASSUME Inv, NEW r \in Readers, NEW k \in Keys,
                      rpc[r] # "closed", ~asof[r]
               PROVE  Get(k, snap[r]) = Resolve(log, k, snap[r])
    BY DEF ReaderStable
  <2>1. snap[r] \in Seqs /\ gcFloor <= snap[r] /\ gcFloor \in Nat /\ snap[r] \in Nat
    BY SeqsAreNat DEF Inv, TypeOK, ReaderInv
  <2> QED
    BY <2>1, GetIsCommitted
<1> QED
  BY InvInductive, <1>1, PTL

(* begin_write's transaction reads the latest committed state although it is *)
(* not registered as a reader.                                               *)
THEOREM WriterSeesLatest == Spec => []WriterReadsLatest
<1>1. Inv => WriterReadsLatest
  <2> SUFFICES ASSUME Inv, NEW k \in Keys
               PROVE  Get(k, committed) = Resolve(log, k, committed)
    BY DEF WriterReadsLatest
  <2>1. committed \in Seqs /\ gcFloor <= committed /\ gcFloor \in Nat /\ committed \in Nat
    BY SeqsAreNat DEF Inv, TypeOK, WriterInv
  <2> QED
    BY <2>1, GetIsCommitted
<1> QED
  BY InvInductive, <1>1, PTL

(* committed_seq never goes back and no sequence is written to twice, also   *)
(* when commit_at_least and apply_replicated choose it.                      *)
THEOREM SequencesOnlyAdvance == Spec => SequencesAdvance
<1>1. ASSUME Inv, [Next]_vars
      PROVE  /\ committed' >= committed
             /\ \A e \in log' \ log : e.seq = committed' /\ e.seq > committed
  <2>1. CASE Publish
    BY <1>1, <2>1, PublishAdds
  <2>2. CASE FlushSwap \/ CompactSwap \/ UNCHANGED <<mem, ssts, committed, log, gcFloor>>
    <3>1. committed' = committed /\ log' = log
      BY <2>2 DEF FlushSwap, CompactSwap, ghostVars
    <3>2. committed \in Nat
      BY <1>1, SeqsAreNat DEF Inv, TypeOK
    <3> QED
      BY <3>1, <3>2
  <2> QED
    BY <1>1, <2>1, <2>2, StoreFrame
<1> QED
  BY InvInductive, <1>1, PTL DEF Spec, SequencesAdvance

-------------------------------------------------------------------------------
(* The engine implements the snapshot store.  Under Inv the abstract state   *)
(* is a matter of the history alone, so that a flush and a compaction are    *)
(* stuttering steps: only Publish commits.                                   *)

History(s) == [k \in Keys |-> Resolve(log, k, s)]
Db == Contents(committed)
View == [r \in Readers |-> IF rpc[r] = "closed" \/ asof[r] THEN Closed ELSE Contents(snap[r])]

SnapsBelow == \A r \in Readers : snap[r] <= committed

LEMMA SnapsStayBelow == Spec => []SnapsBelow
<1>1. Init => SnapsBelow
  BY DEF Init, SnapsBelow
<1>2. Inv /\ SnapsBelow /\ [Next]_vars => SnapsBelow'
  <2> SUFFICES ASSUME Inv, SnapsBelow, [Next]_vars
               PROVE  SnapsBelow'
    OBVIOUS
  <2>1. /\ committed \in Nat /\ snap \in [Readers -> Seqs]
        /\ \A r \in Readers : snap[r] \in Nat /\ snap[r] <= committed
    BY SeqsAreNat DEF Inv, TypeOK, SnapsBelow
  <2>2. CASE Publish
    <3>1. committed' \in Nat /\ committed < committed' /\ snap' = snap
      BY <2>2, PublishAdds DEF Publish, readerVars
    <3> QED
      BY <2>1, <3>1 DEF SnapsBelow
  <2>3. CASE FlushSwap \/ CompactSwap
    BY <2>1, <2>3 DEF FlushSwap, CompactSwap, readerVars, SnapsBelow
  <2>4. CASE UNCHANGED <<mem, ssts, committed, log, gcFloor>>
    <3>1. ASSUME NEW r \in Readers, Read(r)
          PROVE  SnapsBelow'
      <4>1. \/ snap' = snap
            \/ snap' = [snap EXCEPT ![r] = 0]
            \/ \E s \in Seqs : s <= committed /\ snap' = [snap EXCEPT ![r] = s]
        BY <2>1, <3>1 DEF Read, BeginRead, BeginReadAt, Pin, Register, EndRead, Inv, TypeOK
      <4> QED
        BY <2>1, <2>4, <4>1 DEF SnapsBelow
    <3>2. CASE snap' = snap
      BY <2>1, <2>4, <3>2 DEF SnapsBelow
    <3>3. ASSUME NEW n \in Retentions, SetRetention(n)
          PROVE  snap' = snap
      BY <3>3 DEF SetRetention, readerVars
    <3>4. CASE Write \/ Maintain \/ UNCHANGED vars
      <4>1. snap' = snap
        BY <3>4 DEF Write, BeginWrite, Abort, Commit, CommitAtLeast, ApplyReplicated, Log, Publish,
                    Maintain, MaintenanceFails, FlushNotDue, FlushWrite, FlushSwap, TruncateLog,
                    CompactNotDue, CompactBegin, CompactReaderFloor, CompactRetentionFloor,
                    CompactWrite, CompactSwap, CompactUnlink, readerVars, vars
      <4> QED
        BY <3>2, <4>1
    <3> QED
      BY <3>1, <3>2, <3>3, <3>4 DEF Next
  <2> QED
    BY <2>2, <2>3, <2>4, StoreFrame
<1> QED
  BY <1>1, <1>2, InvInductive, PTL DEF Spec

(* The abstract state, read off the history.                                 *)
LEMMA AbstractIs ==
  Inv => /\ Db = History(committed)
         /\ View = [r \in Readers |-> IF rpc[r] = "closed" \/ asof[r] THEN Closed
                                      ELSE History(snap[r])]
<1> SUFFICES ASSUME Inv
             PROVE  /\ Db = History(committed)
                    /\ \A r \in Readers : rpc[r] # "closed" /\ ~ asof[r] =>
                          Contents(snap[r]) = History(snap[r])
  BY DEF View
<1>1. committed \in Seqs /\ gcFloor <= committed /\ gcFloor \in Nat /\ committed \in Nat
  BY SeqsAreNat DEF Inv, TypeOK, WriterInv
<1>2. Db = History(committed)
  BY <1>1, GetIsCommitted DEF Db, Contents, History
<1>3. ASSUME NEW r \in Readers, rpc[r] # "closed", ~ asof[r]
      PROVE  Contents(snap[r]) = History(snap[r])
  <2>1. snap[r] \in Seqs /\ gcFloor <= snap[r] /\ snap[r] \in Nat
    BY <1>3, SeqsAreNat DEF Inv, TypeOK, ReaderInv
  <2> QED
    BY <1>1, <2>1, GetIsCommitted DEF Contents, History
<1> QED
  BY <1>2, <1>3

(* What a published batch does to the history: nothing below it, and above   *)
(* it the batch lies over what was there.                                    *)
LEMMA PublishedHistory ==
  ASSUME Inv, Publish, Unique(log')
  PROVE  /\ wbatch \in Batches
         /\ \A k \in Keys, s \in Nat : s <= committed => Resolve(log', k, s) = Resolve(log, k, s)
         /\ \A k \in Keys : Resolve(log', k, committed') =
               IF k \in DOMAIN wbatch THEN wbatch[k] ELSE Resolve(log, k, committed)
<1> DEFINE P == Stamp(wbatch, wseq)
<1>1. /\ P \in SUBSET Entry /\ Unique(P) /\ Above(P, log)
      /\ \A e \in P : e.seq = wseq
      /\ log' = P \cup log /\ committed' = wseq /\ committed < wseq
      /\ wseq \in Nat /\ committed \in Nat
  BY PublishAdds
<1>2. wbatch \in Batches /\ log \in SUBSET Entry /\ \A e \in log : e.seq <= committed
  BY DEF Inv, WriterInv, TypeOK, Sources, Publish
<1>3. \A k \in DOMAIN wbatch : [key |-> k, seq |-> wseq, op |-> wbatch[k]] \in P
  BY DEF Stamp
<1>4. \A e \in P : e.key \in DOMAIN wbatch
  BY DEF Stamp
<1> HIDE DEF P
<1>5. ASSUME NEW k \in Keys, NEW s \in Nat, s <= committed
      PROVE  Resolve(log', k, s) = Resolve(log, k, s)
  <2>1. Visible(P, k, s) = {}
    BY <1>1, <1>5 DEF Visible
  <2> QED
    BY <1>1, <2>1, ResolveBeneath
<1>6. ASSUME NEW k \in Keys, k \in DOMAIN wbatch
      PROVE  Resolve(log', k, wseq) = wbatch[k]
  <2> DEFINE e == [key |-> k, seq |-> wseq, op |-> wbatch[k]]
  <2>1. e \in P /\ e.key = k /\ e.seq = wseq /\ e.op = wbatch[k]
    BY <1>3, <1>6
  <2> HIDE DEF e
  <2>2. IsNewest(log', k, wseq, e)
    <3>1. e \in Visible(log', k, wseq)
      BY <1>1, <2>1 DEF Visible
    <3>2. \A f \in Visible(log', k, wseq) : f.seq <= e.seq
      BY <2>1 DEF Visible
    <3> QED
      BY <3>1, <3>2 DEF IsNewest
  <2>3. log' \in SUBSET Entry
    BY <1>1, <1>2
  <2> QED
    BY <1>1, <2>1, <2>2, <2>3, ResolveIs
<1>7. ASSUME NEW k \in Keys, k \notin DOMAIN wbatch
      PROVE  Resolve(log', k, wseq) = Resolve(log, k, committed)
  <2>1. Visible(P, k, wseq) = {}
    BY <1>4, <1>7 DEF Visible
  <2>2. Resolve(log', k, wseq) = Resolve(log, k, wseq)
    BY <1>1, <2>1, ResolveBeneath
  <2>3. Visible(log, k, wseq) = Visible(log, k, committed)
    <3>1. \A e \in log : e.seq \in Nat /\ e.seq <= wseq
      BY <1>1, <1>2 DEF Entry
    <3> QED
      BY <1>2, <3>1 DEF Visible
  <2> QED
    BY <2>2, <2>3 DEF Resolve
<1> QED
  BY <1>1, <1>2, <1>5, <1>6, <1>7

(* Every step of the engine is a step of the snapshot store or stutters.     *)
LEMMA StepRefines ==
  ASSUME Inv, SnapsBelow, [Next]_vars,
         Db = History(committed), Db' = History(committed)', Unique(log'),
         View = [r \in Readers |-> IF rpc[r] = "closed" \/ asof[r] THEN Closed
                                   ELSE History(snap[r])],
         View' = [r \in Readers |-> IF rpc'[r] = "closed" \/ asof'[r] THEN Closed
                                    ELSE [k \in Keys |-> Resolve(log', k, snap'[r])]]
  PROVE  \/ /\ \E batch \in Batches :
                  Db' = [k \in Keys |-> IF k \in DOMAIN batch THEN batch[k] ELSE Db[k]]
            /\ View' = View
         \/ \E r \in Readers : View[r] = Closed /\ View' = [View EXCEPT ![r] = Db] /\ Db' = Db
         \/ \E r \in Readers : View[r] # Closed /\ View' = [View EXCEPT ![r] = Closed] /\ Db' = Db
         \/ Db' = Db /\ View' = View
<1>1. /\ committed \in Nat
      /\ rpc \in [Readers -> {"closed", "pinning", "open"}]
      /\ snap \in [Readers -> Seqs] /\ asof \in [Readers -> BOOLEAN]
      /\ \A r \in Readers : snap[r] \in Nat /\ snap[r] <= committed
  BY SeqsAreNat DEF Inv, TypeOK, SnapsBelow
<1>2. Db' = [k \in Keys |-> Resolve(log', k, committed')]
  BY DEF History
<1>3. CASE Publish
  <2>1. UNCHANGED <<rpc, snap, asof>>
    BY <1>3 DEF Publish, readerVars
  <2>2. /\ wbatch \in Batches
        /\ \A k \in Keys, s \in Nat : s <= committed => Resolve(log', k, s) = Resolve(log, k, s)
        /\ \A k \in Keys : Resolve(log', k, committed') =
              IF k \in DOMAIN wbatch THEN wbatch[k] ELSE Resolve(log, k, committed)
    BY <1>3, PublishedHistory
  <2>3. \A r \in Readers : [k \in Keys |-> Resolve(log', k, snap[r])] = History(snap[r])
    BY <1>1, <2>2 DEF History
  <2>4. View' = View
    BY <2>1, <2>3
  <2>5. \A k \in Keys : Db[k] = Resolve(log, k, committed)
    BY DEF History
  <2>6. Db' = [k \in Keys |-> IF k \in DOMAIN wbatch THEN wbatch[k] ELSE Db[k]]
    BY <1>2, <2>2, <2>5
  <2> QED
    BY <2>2, <2>4, <2>6
<1>4. ASSUME UNCHANGED <<committed, log>>
      PROVE  /\ Db' = Db
             /\ View' = [r \in Readers |-> IF rpc'[r] = "closed" \/ asof'[r] THEN Closed
                                           ELSE History(snap'[r])]
  BY <1>2, <1>4 DEF History
<1>5. CASE UNCHANGED <<committed, log, rpc, snap, asof>>
  BY <1>4, <1>5
<1>6. ASSUME NEW r \in Readers, Read(r), UNCHANGED <<committed, log>>
      PROVE  \/ View[r] = Closed /\ View' = [View EXCEPT ![r] = Db] /\ Db' = Db
             \/ View[r] # Closed /\ View' = [View EXCEPT ![r] = Closed] /\ Db' = Db
             \/ Db' = Db /\ View' = View
  <2>1. CASE BeginRead(r)
    <3>1. /\ rpc[r] = "closed"
          /\ rpc' = [rpc EXCEPT ![r] = "pinning"]
          /\ snap' = [snap EXCEPT ![r] = committed]
          /\ asof' = [asof EXCEPT ![r] = FALSE]
      BY <2>1 DEF BeginRead, Pin
    <3>2. ~ asof'[r] /\ rpc'[r] = "pinning" /\ snap'[r] = committed
      BY <1>1, <3>1, Zenon
    <3>3. \A q \in Readers : q # r => rpc'[q] = rpc[q] /\ snap'[q] = snap[q] /\ asof'[q] = asof[q]
      BY <1>1, <3>1
    <3>4. View[r] = Closed
      BY <3>1, Zenon
    <3>5. View' = [View EXCEPT ![r] = History(committed)]
      BY <1>4, <1>6, <3>2, <3>3
    <3> QED
      BY <1>4, <1>6, <3>4, <3>5
  <2>2. ASSUME NEW s \in Seqs, BeginReadAt(r, s)
        PROVE  Db' = Db /\ View' = View
    <3>1. /\ rpc[r] = "closed"
          /\ rpc' = [rpc EXCEPT ![r] = "pinning"]
          /\ snap' = [snap EXCEPT ![r] = s]
          /\ asof' = [asof EXCEPT ![r] = TRUE]
      BY <2>2 DEF BeginReadAt, Pin
    <3>2. asof'[r]
      BY <1>1, <3>1, Zenon
    <3>3. \A q \in Readers : q # r => rpc'[q] = rpc[q] /\ snap'[q] = snap[q] /\ asof'[q] = asof[q]
      BY <1>1, <3>1
    <3>4. rpc[r] = "closed"
      BY <3>1, Zenon
    <3> QED
      BY <1>4, <1>6, <3>2, <3>3, <3>4
  <2>3. CASE Register(r)
    <3>1. /\ rpc[r] = "pinning" /\ rpc' = [rpc EXCEPT ![r] = "open"]
          /\ UNCHANGED <<snap, asof>>
      BY <2>3 DEF Register
    <3>2. \A q \in Readers : rpc'[q] = "closed" <=> rpc[q] = "closed"
      BY <1>1, <3>1
    <3> QED
      BY <1>4, <1>6, <3>1, <3>2
  <2>4. CASE EndRead(r)
    <3>1. /\ rpc[r] = "open"
          /\ rpc' = [rpc EXCEPT ![r] = "closed"]
          /\ snap' = [snap EXCEPT ![r] = 0]
          /\ asof' = [asof EXCEPT ![r] = FALSE]
      BY <2>4 DEF EndRead
    <3>2. rpc'[r] = "closed"
      BY <1>1, <3>1
    <3>3. \A q \in Readers : q # r => rpc'[q] = rpc[q] /\ snap'[q] = snap[q] /\ asof'[q] = asof[q]
      BY <1>1, <3>1
    <3>4. View' = [View EXCEPT ![r] = Closed]
      BY <1>4, <1>6, <3>2, <3>3
    <3>5. View[r] = Closed => View' = View
      BY <3>4
    <3> QED
      BY <1>4, <1>6, <3>4, <3>5
  <2> QED
    BY <1>6, <2>1, <2>2, <2>3, <2>4 DEF Read
<1>7. CASE Write /\ ~ Publish
  <2>1. UNCHANGED <<committed, log, rpc, snap, asof>>
    BY <1>7 DEF Write, BeginWrite, Abort, Commit, CommitAtLeast, ApplyReplicated, Log,
                storeVars, readerVars, ghostVars
  <2> QED
    BY <1>5, <2>1
<1>8. CASE Maintain
  <2>1. UNCHANGED <<committed, log, rpc, snap, asof>>
    BY <1>8 DEF Maintain, MaintenanceFails, FlushNotDue, FlushWrite, FlushSwap, TruncateLog,
                CompactNotDue, CompactBegin, CompactReaderFloor, CompactRetentionFloor,
                CompactWrite, CompactSwap, CompactUnlink, storeVars, readerVars, ghostVars
  <2> QED
    BY <1>5, <2>1
<1>9. ASSUME NEW n \in Retentions, SetRetention(n)
      PROVE  UNCHANGED <<committed, log, rpc, snap, asof>>
  BY <1>9 DEF SetRetention, storeVars, readerVars, ghostVars
<1>10. CASE UNCHANGED vars
  BY <1>5, <1>10 DEF vars, storeVars, readerVars, ghostVars
<1>11. ASSUME NEW r \in Readers, Read(r)
       PROVE  UNCHANGED <<committed, log>>
  BY <1>11 DEF Read, BeginRead, BeginReadAt, Pin, Register, EndRead, storeVars, ghostVars
<1> QED
  BY <1>3, <1>5, <1>6, <1>7, <1>8, <1>9, <1>10, <1>11 DEF Next

(* The engine keeps the promise of storage/engine.rs: to its callers it is   *)
(* one map that changes by whole batches, and an open reader's map does not  *)
(* change at all.                                                            *)
THEOREM EngineRefinesStore == Spec => ImplementsSnapshotStore
<1>1. Init => Abstract!Init
  <2> SUFFICES ASSUME Init
               PROVE  Abstract!Init
    OBVIOUS
  <2>1. \A k \in Keys : Get(k, committed) = Del
    BY DEF Init, Get, CommittedGet, Visible
  <2>2. \A r \in Readers : rpc[r] = "closed"
    BY DEF Init
  <2> QED
    BY <2>1, <2>2 DEF Abstract!Init, Contents
<1>2. Inv /\ Inv' /\ SnapsBelow /\ [Next]_vars => [Abstract!Next]_(Abstract!vars)
  <2> SUFFICES ASSUME Inv, Inv', SnapsBelow, [Next]_vars
               PROVE  [Abstract!Next]_(Abstract!vars)
    OBVIOUS
  <2>1. /\ Db = History(committed)
        /\ View = [r \in Readers |-> IF rpc[r] = "closed" \/ asof[r] THEN Closed
                                     ELSE History(snap[r])]
    BY AbstractIs
  <2>2. (Inv => /\ Db = History(committed)
                /\ View = [r \in Readers |-> IF rpc[r] = "closed" \/ asof[r] THEN Closed
                                             ELSE History(snap[r])])'
    BY AbstractIs, PTL
  <2>3. /\ Db' = History(committed)'
        /\ View' = [r \in Readers |-> IF rpc'[r] = "closed" \/ asof'[r] THEN Closed
                                      ELSE [k \in Keys |-> Resolve(log', k, snap'[r])]]
    BY <2>2 DEF History
  <2>4. Unique(log')
    BY DEF Inv, Sources, Unique
  <2>5. \/ /\ \E batch \in Batches :
                 Db' = [k \in Keys |-> IF k \in DOMAIN batch THEN batch[k] ELSE Db[k]]
           /\ View' = View
        \/ \E r \in Readers : View[r] = Closed /\ View' = [View EXCEPT ![r] = Db] /\ Db' = Db
        \/ \E r \in Readers : View[r] # Closed /\ View' = [View EXCEPT ![r] = Closed] /\ Db' = Db
        \/ Db' = Db /\ View' = View
    BY <2>1, <2>3, <2>4, StepRefines
  <2>6. Abstract!Batches = Batches
    BY DEF Abstract!Batches, Batches, Abstract!Ops, Ops
  <2> QED
    BY <2>5, <2>6 DEF Abstract!Next, Abstract!Commit, Abstract!Begin, Abstract!End, Abstract!vars,
                      Db, View
<1> QED
  BY <1>1, <1>2, InvInductive, SnapsStayBelow, PTL DEF Spec, ImplementsSnapshotStore, Abstract!Spec

-------------------------------------------------------------------------------
(* Time travel.  As long as the window is not changed, what begin_read_at    *)
(* accepts is above what a compaction may use as its floor: a reader that    *)
(* min_snapshot has not counted lies in the window, which is looked at       *)
(* later, and a window only moves up with the commits that wait for it.      *)

FixedWindow == \A m, n \in Retentions : m = n

Settling == {"merging", "merged"}

AsOfInv ==
    /\ gcFloor <= RetentionFloor(committed)
    /\ wpc \in Settling => cfloor <= RetentionFloor(committed)
    /\ \A r \in Readers : rpc[r] # "closed" /\ asof[r] =>
          /\ gcFloor <= snap[r]
          /\ rpc[r] = "pinning" => RetentionFloor(committed) <= snap[r]
          /\ wpc = "retentionFloor" => cfloor <= snap[r] \/ RetentionFloor(committed) <= snap[r]
          /\ wpc \in Settling => cfloor <= snap[r]

WindowFloor(n, c) == IF n = 0 \/ n > c THEN 0 ELSE c - n

LEMMA FloorGrows ==
  ASSUME NEW n \in Nat, NEW c \in Nat, NEW d \in Nat, c < d
  PROVE  WindowFloor(n, c) <= WindowFloor(n, d) /\ WindowFloor(n, d) \in Nat
  BY DEF WindowFloor

LEMMA AsOfStep ==
  ASSUME FixedWindow, Inv, Inv', AsOfInv, [Next]_vars
  PROVE  AsOfInv'
<1> DEFINE F == RetentionFloor(committed)
<1>0. /\ TypeOK
      /\ committed \in Nat /\ cfloor \in Nat /\ gcFloor \in Nat /\ F \in Nat
      /\ rpc \in [Readers -> {"closed", "pinning", "open"}]
      /\ snap \in [Readers -> Seqs] /\ asof \in [Readers -> BOOLEAN]
      /\ \A r \in Readers : snap[r] \in Nat
      /\ retain \in Nat
  BY SeqsAreNat, RetentionFloorIn, EngineAssumption DEF Inv, TypeOK
<1>1. retain' = retain
  BY DEF FixedWindow, Inv, TypeOK
<1>2. /\ gcFloor <= F /\ (wpc \in Settling => cfloor <= F)
      /\ \A r \in Readers : rpc[r] # "closed" /\ asof[r] =>
            /\ gcFloor <= snap[r]
            /\ rpc[r] = "pinning" => F <= snap[r]
            /\ wpc = "retentionFloor" => cfloor <= snap[r] \/ F <= snap[r]
            /\ wpc \in Settling => cfloor <= snap[r]
  BY DEF AsOfInv
<1>3. committed' = committed => RetentionFloor(committed)' = F
  BY <1>1 DEF RetentionFloor
<1>4. ASSUME Write \/ Maintain \/ UNCHANGED <<storeVars, readerVars, writerVars, ghostVars>>
      PROVE  UNCHANGED <<rpc, snap, asof>>
  BY <1>4 DEF Write, BeginWrite, Abort, Commit, CommitAtLeast, ApplyReplicated, Log, Publish,
              Maintain, MaintenanceFails, FlushNotDue, FlushWrite, FlushSwap, TruncateLog,
              CompactNotDue, CompactBegin, CompactReaderFloor, CompactRetentionFloor,
              CompactWrite, CompactSwap, CompactUnlink, readerVars
<1> HIDE DEF F
<1>5. CASE Publish
  <2>1. committed < committed' /\ committed' \in Nat /\ gcFloor' = gcFloor
    BY <1>5, PublishAdds
  <2>2. F <= RetentionFloor(committed)' /\ RetentionFloor(committed)' \in Nat
    <3>1. F = WindowFloor(retain, committed)
      BY DEF F, RetentionFloor, WindowFloor
    <3>2. RetentionFloor(committed)' = WindowFloor(retain, committed')
      BY <1>1 DEF RetentionFloor, WindowFloor
    <3> QED
      BY <1>0, <2>1, <3>1, <3>2, FloorGrows
  <2>3. wpc' = "published" /\ UNCHANGED <<rpc, snap, asof>> /\ \A r \in Readers : rpc[r] # "pinning"
    BY <1>5 DEF Publish, StoreUnlocked, readerVars
  <2> QED
    BY <1>0, <1>2, <2>1, <2>2, <2>3 DEF AsOfInv, Settling
<1>6. CASE CompactSwap
  <2>1. /\ wpc = "merged" /\ wpc' = "unlinking" /\ UNCHANGED <<committed, rpc, snap, asof>>
        /\ gcFloor' = Greater(gcFloor, cfloor)
    BY <1>6 DEF CompactSwap, readerVars
  <2>2. cfloor <= F /\ gcFloor' \in {gcFloor, cfloor}
    BY <1>2, <2>1 DEF Greater, Settling
  <2> QED
    BY <1>0, <1>2, <1>3, <2>1, <2>2 DEF AsOfInv, Settling
<1>7. CASE CompactReaderFloor
  <2>1. /\ wpc' = "retentionFloor" /\ cfloor' = ReaderFloor(committed)
        /\ UNCHANGED <<committed, rpc, snap, asof, gcFloor>>
    BY <1>7 DEF CompactReaderFloor, storeVars, readerVars, ghostVars
  <2>2. \A r \in Readers : rpc[r] = "open" => ReaderFloor(committed) <= snap[r]
    BY <1>0, ReaderFloorBelow
  <2> QED
    BY <1>0, <1>2, <1>3, <2>1, <2>2 DEF AsOfInv, Settling
<1>8. CASE CompactRetentionFloor
  <2>1. /\ wpc = "retentionFloor" /\ wpc' = "merging" /\ cfloor' = Lesser(cfloor, F)
        /\ UNCHANGED <<committed, rpc, snap, asof, gcFloor>>
    BY <1>8 DEF CompactRetentionFloor, storeVars, readerVars, ghostVars, F
  <2>2. cfloor' \in Nat /\ cfloor' <= F /\ cfloor' <= cfloor
    BY <1>0, <2>1 DEF Lesser
  <2> QED
    BY <1>0, <1>2, <1>3, <2>1, <2>2 DEF AsOfInv, Settling
<1>9. CASE CompactWrite
  <2>1. /\ wpc = "merging" /\ wpc' = "merged"
        /\ UNCHANGED <<committed, rpc, snap, asof, gcFloor, cfloor>>
    BY <1>9 DEF CompactWrite, storeVars, readerVars, ghostVars
  <2> QED
    BY <1>0, <1>2, <1>3, <2>1 DEF AsOfInv, Settling
<1>10. ASSUME UNCHANGED <<committed, rpc, snap, asof, gcFloor>>,
              wpc' \notin Settling \cup {"retentionFloor"}
       PROVE  AsOfInv'
  BY <1>2, <1>3, <1>10 DEF AsOfInv, Settling
<1>11. CASE Write /\ ~ Publish
  <2>1. UNCHANGED <<committed, gcFloor>> /\ wpc' \notin Settling \cup {"retentionFloor"}
    BY <1>11 DEF Write, BeginWrite, Abort, Commit, CommitAtLeast, ApplyReplicated, Log,
                 storeVars, ghostVars, Settling
  <2> QED
    BY <1>4, <1>10, <1>11, <2>1
<1>12. CASE MaintenanceFails \/ CompactNotDue \/ CompactUnlink \/ FlushNotDue \/ FlushWrite
            \/ FlushSwap \/ TruncateLog \/ CompactBegin
  <2>1. UNCHANGED <<committed, gcFloor, rpc, snap, asof>>
    BY <1>12 DEF MaintenanceFails, CompactNotDue, CompactUnlink, FlushNotDue, FlushWrite,
                 FlushSwap, TruncateLog, CompactBegin, storeVars, readerVars, ghostVars
  <2>2. wpc' \notin Settling \cup {"retentionFloor"}
    BY <1>12 DEF MaintenanceFails, CompactNotDue, CompactUnlink, FlushNotDue, FlushWrite,
                 FlushSwap, TruncateLog, CompactBegin, MaintenanceEnds, Settling
  <2> QED
    BY <1>10, <2>1, <2>2
<1>13. ASSUME NEW q \in Readers, Read(q)
       PROVE  AsOfInv'
  <2>1. UNCHANGED <<wpc, cfloor, gcFloor, committed>>
    BY <1>13 DEF Read, BeginRead, BeginReadAt, Pin, Register, EndRead,
                 storeVars, writerVars, ghostVars
  <2> SUFFICES ASSUME NEW r \in Readers, rpc'[r] # "closed", asof'[r]
               PROVE  /\ gcFloor <= snap'[r]
                      /\ rpc'[r] = "pinning" => F <= snap'[r]
                      /\ wpc = "retentionFloor" => cfloor <= snap'[r] \/ F <= snap'[r]
                      /\ wpc \in Settling => cfloor <= snap'[r]
    BY <1>2, <1>3, <2>1 DEF AsOfInv
  <2>2. CASE BeginRead(q)
    <3>1. r # q
      <4>1. asof' = [asof EXCEPT ![q] = FALSE]
        BY <2>2 DEF BeginRead, Pin
      <4> QED
        BY <1>0, <4>1, Zenon
    <3>2. rpc'[r] = rpc[r] /\ snap'[r] = snap[r] /\ asof'[r] = asof[r]
      BY <1>0, <2>2, <3>1 DEF BeginRead, Pin
    <3> QED
      BY <1>2, <3>2
  <2>3. ASSUME NEW s \in Seqs, BeginReadAt(q, s)
        PROVE  /\ gcFloor <= snap'[r]
               /\ rpc'[r] = "pinning" => F <= snap'[r]
               /\ wpc = "retentionFloor" => cfloor <= snap'[r] \/ F <= snap'[r]
               /\ wpc \in Settling => cfloor <= snap'[r]
    <3>1. F <= s /\ s \in Nat
      BY <2>3, SeqsAreNat DEF BeginReadAt, F
    <3>2. CASE r = q
      <4>1. snap'[r] = s
        BY <1>0, <2>3, <3>2 DEF BeginReadAt, Pin
      <4> QED
        BY <1>0, <1>2, <3>1, <4>1
    <3>3. CASE r # q
      <4>1. rpc'[r] = rpc[r] /\ snap'[r] = snap[r] /\ asof'[r] = asof[r]
        BY <1>0, <2>3, <3>3 DEF BeginReadAt, Pin
      <4> QED
        BY <1>2, <4>1
    <3> QED
      BY <3>2, <3>3
  <2>4. CASE Register(q)
    <3>1. /\ rpc[q] = "pinning" /\ rpc' = [rpc EXCEPT ![q] = "open"] /\ snap' = snap /\ asof' = asof
      BY <2>4 DEF Register
    <3>2. rpc[r] # "closed" /\ (rpc'[r] = "pinning" => rpc[r] = "pinning")
      BY <1>0, <3>1
    <3> QED
      BY <1>2, <3>1, <3>2
  <2>5. CASE EndRead(q)
    <3>1. r # q
      BY <1>0, <2>5 DEF EndRead
    <3>2. rpc'[r] = rpc[r] /\ snap'[r] = snap[r] /\ asof'[r] = asof[r]
      BY <1>0, <2>5, <3>1 DEF EndRead
    <3> QED
      BY <1>2, <3>2
  <2> QED
    BY <1>13, <2>2, <2>3, <2>4, <2>5 DEF Read
<1>14. CASE UNCHANGED <<storeVars, readerVars, writerVars, ghostVars>>
  BY <1>2, <1>3, <1>14 DEF AsOfInv, storeVars, readerVars, writerVars, ghostVars
<1>15. ASSUME NEW n \in Retentions, SetRetention(n)
       PROVE  UNCHANGED <<storeVars, readerVars, writerVars, ghostVars>>
  BY <1>15 DEF SetRetention
<1>16. CASE UNCHANGED vars
  BY <1>14, <1>16 DEF vars
<1> QED
  BY <1>5, <1>6, <1>7, <1>8, <1>9, <1>11, <1>12, <1>13, <1>14, <1>15, <1>16 DEF Next, Maintain

(* begin_read_at: a past snapshot that is accepted is read as it was         *)
(* committed, until the reader is dropped, also where compaction has looked  *)
(* at the readers before this one registered; under a window that is not     *)
(* changed.                                                                  *)
THEOREM TimeTravelFaithful ==
  ASSUME FixedWindow
  PROVE  Spec => []AsOfFaithful
<1>1. Init => AsOfInv
  <2> SUFFICES ASSUME Init
               PROVE  AsOfInv
    OBVIOUS
  <2>1. gcFloor = 0 /\ committed = 0 /\ wpc = "idle" /\ \A r \in Readers : rpc[r] = "closed"
    BY DEF Init
  <2>2. RetentionFloor(0) = 0
    BY EngineAssumption DEF Init, RetentionFloor
  <2> QED
    BY <2>1, <2>2 DEF AsOfInv, Settling
<1>2. Inv /\ Inv' /\ AsOfInv /\ [Next]_vars => AsOfInv'
  BY AsOfStep
<1>3. Inv /\ AsOfInv => AsOfFaithful
  <2> SUFFICES ASSUME Inv, AsOfInv, NEW r \in Readers, NEW k \in Keys,
                      rpc[r] # "closed", asof[r]
               PROVE  Get(k, snap[r]) = Resolve(log, k, snap[r])
    BY DEF AsOfFaithful
  <2>1. snap[r] \in Seqs /\ gcFloor <= snap[r] /\ gcFloor \in Nat /\ snap[r] \in Nat
    BY SeqsAreNat DEF Inv, TypeOK, AsOfInv
  <2> QED
    BY <2>1, GetIsCommitted
<1> QED
  BY <1>1, <1>2, <1>3, InvInductive, PTL DEF Spec

-------------------------------------------------------------------------------
(* A range read and a point read agree at every snapshot, also below a       *)
(* compaction's floor: both prefer the newest source that holds a version.   *)
THEOREM RangeAgrees == Spec => []RangeAgreesWithGet
<1>1. Inv => RangeAgreesWithGet
  <2> SUFFICES ASSUME Inv, NEW s \in Seqs
               PROVE  CommittedValues(mem, ssts, s) = [k \in Keys |-> Get(k, s)]
    BY DEF RangeAgreesWithGet
  <2>1. ssts \in Seq(SUBSET Entry)
    BY DEF Inv, TypeOK
  <2> QED
    BY <2>1, RangeIsGet DEF Get
<1> QED
  BY InvInductive, <1>1, PTL

-------------------------------------------------------------------------------
(* The writer slot is exclusive and its single notification is enough, for   *)
(* any set of threads, however deadlines, spurious wake-ups and newcomers    *)
(* interleave.                                                               *)
GateInv == GateTypeOK /\ MutualExclusion /\ NoLostWakeup

LEMMA GateInitInv == GateInit => GateInv
  BY DEF GateInit, GateInv, GateTypeOK, MutualExclusion, NoLostWakeup, PcStates, Waiting, Parked

LEMMA GateTypeStep ==
  ASSUME GateInv, [GateNext]_gateVars
  PROVE  GateTypeOK'
<1> USE DEF GateInv, GateTypeOK, PcStates, Waiting
<1>1. CASE SetWriteTimeout
  BY <1>1 DEF SetWriteTimeout
<1>2. ASSUME NEW t \in Threads, Acquire(t)
      PROVE  GateTypeOK'
  BY <1>2 DEF Acquire
<1>3. ASSUME NEW t \in Threads, Expire(t)
      PROVE  GateTypeOK'
  BY <1>3 DEF Expire
<1>4. ASSUME NEW t \in Threads, TimeoutWake(t) \/ SpuriousWake(t)
      PROVE  GateTypeOK'
  BY <1>4 DEF TimeoutWake, SpuriousWake
<1>5. ASSUME NEW t \in Threads, Resume(t)
      PROVE  GateTypeOK'
  BY <1>5 DEF Resume
<1>6. ASSUME NEW t \in Threads, Release(t)
      PROVE  GateTypeOK'
  BY <1>6 DEF Release, Parked
<1>7. CASE UNCHANGED gateVars
  BY <1>7 DEF gateVars
<1> QED
  BY <1>1, <1>2, <1>3, <1>4, <1>5, <1>6, <1>7 DEF GateNext

(* The flag changes only with the thread that owns it, so it stays true of   *)
(* exactly one thread or of none.                                            *)
LEMMA ExclusionStep ==
  ASSUME GateInv, [GateNext]_gateVars
  PROVE  MutualExclusion'
<1> USE DEF GateInv, GateTypeOK, MutualExclusion, PcStates, Waiting
<1>1. CASE SetWriteTimeout
  BY <1>1 DEF SetWriteTimeout
<1>2. ASSUME NEW t \in Threads, Acquire(t)
      PROVE  MutualExclusion'
  BY <1>2 DEF Acquire
<1>3. ASSUME NEW t \in Threads, Expire(t)
      PROVE  MutualExclusion'
  BY <1>3 DEF Expire
<1>4. ASSUME NEW t \in Threads, TimeoutWake(t) \/ SpuriousWake(t)
      PROVE  MutualExclusion'
  BY <1>4 DEF TimeoutWake, SpuriousWake
<1>5. ASSUME NEW t \in Threads, Resume(t)
      PROVE  MutualExclusion'
  BY <1>5 DEF Resume
<1>6. ASSUME NEW t \in Threads, Release(t)
      PROVE  MutualExclusion'
  BY <1>6 DEF Release, Parked
<1>7. CASE UNCHANGED gateVars
  BY <1>7 DEF gateVars
<1> QED
  BY <1>1, <1>2, <1>3, <1>4, <1>5, <1>6, <1>7 DEF GateNext

(* A step that frees the slot wakes a parked thread; a step that puts a      *)
(* thread to sleep leaves the slot taken.                                    *)
LEMMA WakeupStep ==
  ASSUME GateInv, [GateNext]_gateVars
  PROVE  NoLostWakeup'
<1> USE DEF GateInv, GateTypeOK, MutualExclusion, NoLostWakeup, PcStates, Waiting,
            Parked, Awake
<1>1. CASE SetWriteTimeout
  BY <1>1 DEF SetWriteTimeout
<1>2. ASSUME NEW t \in Threads, Acquire(t)
      PROVE  NoLostWakeup'
  BY <1>2 DEF Acquire
<1>3. ASSUME NEW t \in Threads, Expire(t)
      PROVE  NoLostWakeup'
  BY <1>3 DEF Expire
<1>4. ASSUME NEW t \in Threads, TimeoutWake(t) \/ SpuriousWake(t)
      PROVE  NoLostWakeup'
  BY <1>4 DEF TimeoutWake, SpuriousWake
<1>5. ASSUME NEW t \in Threads, Resume(t)
      PROVE  NoLostWakeup'
  BY <1>5 DEF Resume
<1>6. ASSUME NEW t \in Threads, Release(t)
      PROVE  NoLostWakeup'
  BY <1>6 DEF Release
<1>7. CASE UNCHANGED gateVars
  BY <1>7 DEF gateVars
<1> QED
  BY <1>1, <1>2, <1>3, <1>4, <1>5, <1>6, <1>7 DEF GateNext

LEMMA GateInvariant == GateSpec => []GateInv
<1>1. GateInv /\ [GateNext]_gateVars => GateInv'
  BY GateTypeStep, ExclusionStep, WakeupStep DEF GateInv
<1> QED
  BY GateInitInv, <1>1, PTL DEF GateSpec

(* Writers are serialized: acquire hands the slot to one thread at a time,    *)
(* and WriteGate.held says so, for any number of threads.                    *)
THEOREM WritersExclude == GateSpec => []MutualExclusion
  BY GateInvariant, PTL DEF GateInv

(* notify_one suffices: no parked writer is left behind a free slot with no  *)
(* thread on its way to re-check it.                                         *)
THEOREM NotifyOneSuffices == GateSpec => []NoLostWakeup
  BY GateInvariant, PTL DEF GateInv

(* Only a thread that finds the slot taken when it last looks returns        *)
(* Error::Timeout from WriteGate::acquire.                                   *)
THEOREM TimeoutIsHonest == GateSpec => TimeoutOnlyWhenHeld
<1> DEFINE A == \A t \in Threads :
                  (pc[t] \in Waiting /\ pc'[t] = "idle") => held /\ expired[t]
<1>1. GateInv /\ [GateNext]_gateVars => [A]_gateVars
  <2> SUFFICES ASSUME GateInv, GateNext, NEW t \in Threads,
                      pc[t] \in Waiting, pc'[t] = "idle"
               PROVE  held /\ expired[t]
    BY DEF gateVars
  <2> USE DEF GateInv, GateTypeOK, Waiting, PcStates
  <2>1. CASE SetWriteTimeout
    BY <2>1 DEF SetWriteTimeout
  <2>2. ASSUME NEW u \in Threads,
               Acquire(u) \/ Expire(u) \/ TimeoutWake(u) \/ SpuriousWake(u)
        PROVE  held /\ expired[t]
    BY <2>2 DEF Acquire, Expire, TimeoutWake, SpuriousWake
  <2>3. ASSUME NEW u \in Threads, Resume(u)
        PROVE  held /\ expired[t]
    BY <2>3 DEF Resume
  <2>4. ASSUME NEW u \in Threads, Release(u)
        PROVE  held /\ expired[t]
    BY <2>4 DEF Release, Parked
  <2> QED
    BY <2>1, <2>2, <2>3, <2>4 DEF GateNext
<1> QED
  BY GateInvariant, <1>1, PTL DEF GateSpec, TimeoutOnlyWhenHeld
===============================================================================
