------------------------- MODULE NativeRecoveryProofs -------------------------
(****************************************************************************)
(* What the native engine's files promise, for any keys, values, thresholds *)
(* and retention windows, any number of commits, crashes and I/O errors.    *)
(*                                                                          *)
(* First the file numbers: wherever the process stops, no rewrite lands on  *)
(* a live run and no unlink removes one.  Then, where the process does not  *)
(* stop in a window of Exposed, what the files say: the log still holds     *)
(* every commit that is in no run, and files read newest max_seq first read *)
(* like their union.                                                        *)
(****************************************************************************)
EXTENDS NativeRecovery, LsmOpsProofs, FiniteSetTheorems, SequenceTheorems

(* The process stops only outside the windows of Exposed.                    *)
NoWindow == Windows = {}

Phases == {"idle", "appended", "synced", "published", "flushed", "swapped", "cut",
           "compact", "merged", "unlinking", "upgrading", "rewritten", "replaced",
           "down"}

Records == {Torn} \cup {Record(b, s) : b \in Batches, s \in Nat \ {0}}
DirOp == [op : {"link", "unlink"}, file : Files]

Up == phase # "down"
Live == {runs[i] : i \in DOMAIN runs}

(* Types, and what bounds the sequences found on disk.                       *)
Typed ==
    /\ phase \in Phases
    /\ mem \in SUBSET Entry
    /\ runs \in Seq(Files)
    /\ committed \in Nat /\ nextSst \in Nat /\ retain \in Nat /\ reclaimed \in Nat
    /\ wal \in Seq(Records) /\ walSafe \in Seq(Records)
    /\ dirSafe \in SUBSET Files
    /\ dirOps \in Seq(DirOp)
    /\ batch \in Batches \cup {NoBatch}
    /\ run \in Files
    /\ victims \in Seq(Files)
    /\ log \in SUBSET Entry
    /\ \A f \in dirSafe : f.maxSeq <= committed
    /\ \A i \in DOMAIN dirOps : dirOps[i].file.maxSeq <= committed
    /\ \A i \in DOMAIN wal : wal[i].seq <= committed + 1
    /\ \A i \in DOMAIN walSafe : walSafe[i].seq <= committed + 1

DistinctNumbers(D) == \A f, g \in D : f.num = g.num => f = g

Dead(n) == n < nextSst /\ \A i \in DOMAIN runs : runs[i].num # n

(* The numbers: runs are files of the directory, an operation not yet synced *)
(* links the next number or unlinks a dead one.                              *)
Numbered ==
    /\ DistinctNumbers(dirSafe)
    /\ \E n \in Nat : \A f \in dirSafe : f.num < n
    /\ Up =>
        /\ \A f \in dirSafe : f.num < nextSst
        /\ \A i \in DOMAIN runs : runs[i] \in dirSafe
        /\ \A i, j \in DOMAIN runs : i # j => runs[i].num # runs[j].num
        /\ \A i \in DOMAIN dirOps :
              \/ dirOps[i].op = "link" /\ dirOps[i].file.num = nextSst
              \/ dirOps[i].op = "unlink" /\ Dead(dirOps[i].file.num)
    /\ ~Up => dirOps = <<>> /\ runs = <<>>

(* Where the writer is, as far as the directory is concerned.                *)
Linking ==
    /\ phase \in {"flushed", "merged", "rewritten"} =>
          /\ dirOps # <<>>
          /\ dirOps[Len(dirOps)] = Link(run)
          /\ run.num = nextSst /\ run.maxSeq <= committed
    /\ phase \in {"swapped", "cut", "unlinking", "replaced"} =>
          \A i \in DOMAIN dirOps : dirOps[i].op = "unlink"
    /\ phase \in {"unlinking", "replaced"} =>
          \A i \in DOMAIN victims :
              Dead(victims[i].num) /\ victims[i].maxSeq <= committed
    /\ phase = "replaced" => victims # <<>>
    /\ phase = "rewritten" => Legacy # {}
    /\ phase \in {"appended", "synced"} => batch \in Batches
    /\ phase \notin {"appended", "synced", "down"} => batch = NoBatch

DirInv == Typed /\ Numbered /\ Linking

-------------------------------------------------------------------------------
OpsOf(w) == UNION {w[i].ops : i \in DOMAIN w}

(* What was committed after b.                                               *)
Since(b) == {e \in log : e.seq > b}

(* A log that goes back to b.                                                *)
BackTo(w, b) == \A i \in DOMAIN w : w[i] = Torn \/ w[i].seq > b

(* Reading T before S is right for every snapshot from the floor up.         *)
Covers(T, S, floor) ==
    \A e \in S, f \in T : e.key = f.key /\ f.seq < e.seq =>
        \/ e \in T
        \/ \E g \in T : g.key = e.key /\ e.seq < g.seq /\ g.seq <= floor

Ordered(D, floor) ==
    \A f, g \in D : f.maxSeq <= g.maxSeq => Covers(g.entries, f.entries, floor)

(* X answers every read from the floor up as L does.                         *)
Faithful(X, L, floor) ==
    \A k \in Keys, s \in Nat : s >= floor => Resolve(X, k, s) = Resolve(L, k, s)

LiveEntries == Entries(Live)

(* The files that a crash may leave: while nothing was reclaimed the         *)
(* compacted ones may still be among them.                                   *)
Kept == IF reclaimed = 0 THEN dirSafe ELSE Live

History ==
    /\ Unique(log)
    /\ reclaimed <= committed
    /\ \A e \in log : e.seq > 0 /\ e.seq <= committed
    /\ committed > 0 => \E e \in log : e.seq = committed

(* The memtable is what was committed after a, the log goes back to bw, and  *)
(* what is synced of it to bs; a log cut at b has a run that new.            *)
Logged(a, bw, bs) ==
    /\ bw <= a /\ bs <= a
    /\ mem = Since(a)
    /\ BackTo(wal, bw) /\ BackTo(walSafe, bs)
    /\ Since(bs) \subseteq OpsOf(walSafe)
    /\ Since(bw) = {} \/ (IsPrefix(walSafe, wal) /\ Since(bw) \subseteq OpsOf(walSafe))
    /\ \A b \in {bw, bs} : b > 0 => \E f \in Live : b <= f.maxSeq

LogInv ==
    /\ \E a, bw, bs \in 0..committed : Logged(a, bw, bs)
    /\ phase \in {"appended", "synced"} =>
          wal # <<>> /\ wal[Len(wal)] = Record(batch, committed + 1)
    /\ phase = "synced" => walSafe = wal

FilesInv ==
    /\ \A f \in dirSafe : f.entries \subseteq log
    /\ Ordered(Kept, reclaimed)
    /\ \A i, j \in DOMAIN runs : i < j => runs[i].maxSeq <= runs[j].maxSeq
    /\ reclaimed = 0 => \A f \in dirSafe : f.entries \subseteq LiveEntries
    /\ \A f \in dirSafe : \E g \in Live : f.maxSeq <= g.maxSeq
    /\ Faithful(LiveEntries \cup mem, log, reclaimed)
    /\ \A i \in DOMAIN dirOps : dirOps[i].op = "link" =>
          /\ dirOps[i].file.entries \subseteq LiveEntries \cup mem
          /\ Ordered(Kept \cup {dirOps[i].file}, reclaimed)

WriterInv ==
    /\ phase = "published" => \A f \in dirSafe : f.maxSeq < committed
    /\ phase = "flushed" => run.entries = mem /\ run.maxSeq = committed
    /\ phase = "swapped" => mem = {} /\ \E f \in Live : f.maxSeq = committed
    /\ phase = "merged" =>
          /\ \A f \in Live : f.maxSeq <= run.maxSeq
          /\ Faithful(run.entries \cup mem, log, reclaimed)
          /\ reclaimed = 0 => LiveEntries \subseteq run.entries
    /\ phase = "rewritten" =>
          \E i \in Legacy :
             /\ \A j \in Legacy : i <= j
             /\ run.entries = runs[i].entries /\ run.maxSeq = runs[i].maxSeq

(* What the next open finds.                                                 *)
Recoverable(b) ==
    /\ BackTo(wal, b)
    /\ Since(b) \subseteq OpsOf(wal)
    /\ \A i \in DOMAIN wal :
          \/ wal[i] = Torn /\ i = Len(wal)
          \/ wal[i] # Torn /\ (wal[i] = Record(batch, committed + 1) \/ wal[i].ops \subseteq log)
    /\ b > 0 => \E f \in dirSafe : b <= f.maxSeq
    /\ Faithful(Entries(dirSafe) \cup Since(b), log, reclaimed)

DownInv ==
    /\ \A f \in dirSafe : f.entries \subseteq log
    /\ Ordered(dirSafe, reclaimed)
    /\ \A f, g \in dirSafe : f.num < g.num => f.maxSeq <= g.maxSeq
    /\ \E b \in 0..committed : Recoverable(b)

Inv ==
    /\ DirInv
    /\ History
    /\ Up => LogInv /\ FilesInv /\ WriterInv
    /\ ~Up => DownInv

-------------------------------------------------------------------------------
(* Operators.                                                                *)

LEMMA GreatestIs ==
  ASSUME NEW S \in SUBSET Nat, S # {}, NEW n \in Nat, \A x \in S : x <= n
  PROVE  /\ GreatestOf(S) \in S /\ GreatestOf(S) \in Nat
         /\ \A x \in S : x <= GreatestOf(S)
<1>1. \E x \in S : \A y \in S : y <= x
  BY GreatestExists
<1> QED
  BY <1>1 DEF GreatestOf

LEMMA GreatestOfTwo ==
  ASSUME NEW m \in Nat, NEW n \in Nat
  PROVE  /\ GreatestOf({m, n}) \in {m, n}
         /\ m <= GreatestOf({m, n}) /\ n <= GreatestOf({m, n})
<1>1. \E x \in {m, n} : \A y \in {m, n} : y <= x
  OBVIOUS
<1> QED
  BY <1>1 DEF GreatestOf

LEMMA StampIsEntries ==
  ASSUME NEW b \in Batches \cup {NoBatch}, NEW s \in Nat
  PROVE  /\ Stamp(b, s) \in SUBSET Entry
         /\ \A e \in Stamp(b, s) : e.seq = s
         /\ b \in Batches => Stamp(b, s) # {}
<1>1. CASE b \in Batches
  <2>1. PICK D \in (SUBSET Keys) \ {{}} : b \in [D -> Ops]
    BY <1>1 DEF Batches
  <2>2. DOMAIN b = D /\ D # {} /\ \A k \in D : k \in Keys /\ b[k] \in Ops
    BY <2>1
  <2>3. \A k \in D : [key |-> k, seq |-> s, op |-> b[k]] \in Entry
    BY <2>2 DEF Entry
  <2>4. Stamp(b, s) = {[key |-> k, seq |-> s, op |-> b[k]] : k \in D}
    BY <2>2 DEF Stamp
  <2>5. Stamp(b, s) \in SUBSET Entry
    BY <2>3, <2>4
  <2>6. ASSUME NEW e \in Stamp(b, s) PROVE e.seq = s
    <3>1. PICK k \in D : e = [key |-> k, seq |-> s, op |-> b[k]]
      BY <2>4
    <3> QED
      BY <3>1
  <2>7. PICK k : k \in D
    BY <2>2
  <2>8. [key |-> k, seq |-> s, op |-> b[k]] \in Stamp(b, s)
    BY <2>4, <2>7
  <2> QED
    BY <2>5, <2>6, <2>8
<1>2. CASE b = NoBatch
  <2>1. DOMAIN b = {}
    BY <1>2 DEF NoBatch
  <2>2. Stamp(b, s) = {}
    BY <2>1 DEF Stamp
  <2>3. b \notin Batches
    <3> SUFFICES ASSUME b \in Batches PROVE FALSE
      OBVIOUS
    <3>1. PICK D \in (SUBSET Keys) \ {{}} : b \in [D -> Ops]
      BY DEF Batches
    <3> QED
      BY <2>1, <3>1
  <2> QED
    BY <2>2, <2>3
<1> QED
  BY <1>1, <1>2

LEMMA RecordParts ==
  ASSUME NEW b \in Batches, NEW s \in Nat \ {0}
  PROVE  /\ Record(b, s) \in Records /\ Record(b, s) # Torn
         /\ Record(b, s).seq = s /\ Record(b, s).ops = Stamp(b, s)
<1>1. Record(b, s).seq = s /\ Record(b, s).ops = Stamp(b, s)
  BY DEF Record
<1>2. Torn.seq = 0
  BY DEF Torn
<1> QED
  BY <1>1, <1>2 DEF Records

LEMMA RecordType ==
  ASSUME NEW r \in Records
  PROVE  /\ r.seq \in Nat /\ r.ops \in SUBSET Entry
         /\ \A e \in r.ops : e.seq = r.seq
         /\ r # Torn => r.ops # {} /\ r.seq > 0
         /\ r = Torn => r.seq = 0 /\ r.ops = {}
<1>1. CASE r = Torn
  BY <1>1 DEF Torn
<1>2. ASSUME NEW b \in Batches, NEW s \in Nat \ {0}, r = Record(b, s)
      PROVE  /\ r.seq \in Nat /\ r.ops \in SUBSET Entry
             /\ \A e \in r.ops : e.seq = r.seq
             /\ r.ops # {} /\ r.seq > 0 /\ r # Torn
  BY <1>2, RecordParts, StampIsEntries
<1> QED
  BY <1>1, <1>2 DEF Records

LEMMA FileParts ==
  ASSUME NEW n \in Nat, NEW E \in SUBSET Entry, NEW m \in Nat
  PROVE  /\ File(n, E, m, FALSE) \in Files
         /\ File(n, E, m, FALSE).num = n /\ File(n, E, m, FALSE).entries = E
         /\ File(n, E, m, FALSE).maxSeq = m
  BY DEF File, Files

LEMMA FileType ==
  ASSUME NEW f \in Files
  PROVE  f.num \in Nat /\ f.entries \in SUBSET Entry /\ f.maxSeq \in Nat
  BY DEF Files

LEMMA OpParts ==
  ASSUME NEW f \in Files
  PROVE  /\ Link(f) \in DirOp /\ Link(f).op = "link" /\ Link(f).file = f
         /\ Unlink(f) \in DirOp /\ Unlink(f).op = "unlink" /\ Unlink(f).file = f
  BY DEF Link, Unlink, DirOp

LEMMA LegacyLeast ==
  ASSUME Typed, Legacy # {}
  PROVE  LET i == CHOOSE i \in Legacy : \A j \in Legacy : i <= j
         IN  /\ i \in Legacy /\ i \in DOMAIN runs /\ \A j \in Legacy : i <= j
             /\ \A m \in Legacy : (\A j \in Legacy : m <= j) => m = i
<1> DEFINE i == CHOOSE i \in Legacy : \A j \in Legacy : i <= j
<1>1. runs \in Seq(Files)
  BY DEF Typed
<1>2. \A m \in Legacy : m \in DOMAIN runs /\ m \in Nat
  BY <1>1 DEF Legacy
<1>3. \E m \in Legacy : \A j \in Legacy : m <= j
  BY <1>2, LeastExists
<1>4. i \in Legacy /\ \A j \in Legacy : i <= j
  BY <1>3
<1> HIDE DEF i
<1>5. ASSUME NEW m \in Legacy, \A j \in Legacy : m <= j
      PROVE  m = i
  BY <1>2, <1>4, <1>5
<1> QED
  BY <1>2, <1>4, <1>5 DEF i

LEMMA NoRunIsFile == NoRun \in Files
<1>1. {} \in SUBSET Entry
  OBVIOUS
<1> QED
  BY <1>1, FileParts DEF NoRun

(* A file of the resulting directory was there and untouched, or is the last *)
(* linked under its number.                                                  *)
LEMMA AfterOpsIs ==
  ASSUME NEW d \in SUBSET Files, NEW ops \in Seq(DirOp)
  PROVE  /\ AfterOps(d, ops) \in SUBSET Files
         /\ \A f \in AfterOps(d, ops) :
               \/ f \in d /\ \A i \in DOMAIN ops : ops[i].file.num # f.num
               \/ \E i \in DOMAIN ops : ops[i].op = "link" /\ ops[i].file = f
         /\ \A f \in d : (\A i \in DOMAIN ops : ops[i].file.num # f.num)
                            => f \in AfterOps(d, ops)
         /\ ops # <<>> /\ ops[Len(ops)].op = "link" => ops[Len(ops)].file \in AfterOps(d, ops)
         /\ DistinctNumbers(d) => DistinctNumbers(AfterOps(d, ops))
<1> DEFINE last == {i \in DOMAIN ops :
                    \A j \in DOMAIN ops : j > i => ops[j].file.num # ops[i].file.num}
           A == {f \in d : \A i \in DOMAIN ops : ops[i].file.num # f.num}
           B == {ops[i].file : i \in {i \in last : ops[i].op = "link"}}
<1>1. AfterOps(d, ops) = A \cup B
  BY DEF AfterOps
<1>2. \A i \in DOMAIN ops : ops[i] \in DirOp /\ ops[i].file \in Files /\ i \in Nat
  <2> SUFFICES ASSUME NEW i \in DOMAIN ops PROVE ops[i] \in DirOp /\ i \in Nat
    BY DEF DirOp
  <2> QED
    OBVIOUS
<1>3. AfterOps(d, ops) \in SUBSET Files
  BY <1>1, <1>2
<1>4. ASSUME NEW f \in AfterOps(d, ops)
      PROVE  \/ f \in d /\ \A i \in DOMAIN ops : ops[i].file.num # f.num
             \/ \E i \in DOMAIN ops : ops[i].op = "link" /\ ops[i].file = f
  BY <1>1
<1>5. ASSUME ops # <<>>, ops[Len(ops)].op = "link"
      PROVE  ops[Len(ops)].file \in AfterOps(d, ops)
  <2>1. Len(ops) \in DOMAIN ops /\ \A j \in DOMAIN ops : ~(j > Len(ops))
    BY <1>5
  <2>2. Len(ops) \in last
    BY <2>1
  <2> QED
    BY <1>1, <1>5, <2>2
<1>6. ASSUME DistinctNumbers(d), NEW f \in AfterOps(d, ops), NEW g \in AfterOps(d, ops),
             f.num = g.num
      PROVE  f = g
  <2>1. CASE f \in A /\ g \in A
    BY <1>6, <2>1 DEF DistinctNumbers
  <2>2. CASE f \in A /\ g \in B
    BY <1>6, <2>2
  <2>3. CASE f \in B /\ g \in A
    BY <1>6, <2>3
  <2>4. CASE f \in B /\ g \in B
    <3>1. PICK i \in last : f = ops[i].file
      BY <2>4
    <3>2. PICK j \in last : g = ops[j].file
      BY <2>4
    <3>3. ~(i < j) /\ ~(j < i)
      BY <1>6, <3>1, <3>2, <1>2
    <3>4. i = j
      BY <3>3, <1>2
    <3> QED
      BY <3>1, <3>2, <3>4
  <2> QED
    BY <1>1, <2>1, <2>2, <2>3, <2>4
<1> QED
  BY <1>1, <1>3, <1>4, <1>5, <1>6 DEF DistinctNumbers

LEMMA PrefixIs ==
  ASSUME NEW S, NEW s \in Seq(S), NEW n \in 0..Len(s)
  PROVE  /\ SubSeq(s, 1, n) \in Seq(S) /\ Len(SubSeq(s, 1, n)) = n
         /\ \A i \in 1..n : i \in DOMAIN s /\ SubSeq(s, 1, n)[i] = s[i]
<1>1. n \in Int /\ 1 \in Int /\ \A i \in 1..n : i \in DOMAIN s /\ s[i] \in S
  OBVIOUS
<1> QED
  BY <1>1, SubSeqProperties

(* What replay reads of the log.                                             *)
LEMMA IntactIs ==
  ASSUME NEW w \in Seq(Records)
  PROVE  \E n \in 0..Len(w) :
            /\ Intact(w) = SubSeq(w, 1, n)
            /\ \A i \in 1..n : w[i] # Torn
            /\ n < Len(w) => w[n + 1] = Torn
<1> DEFINE bad == {i \in DOMAIN w : w[i] = Torn}
<1>1. CASE bad = {}
  <2>1. Intact(w) = w
    BY <1>1 DEF Intact
  <2>2. w = SubSeq(w, 1, Len(w))
    OBVIOUS
  <2> WITNESS Len(w) \in 0..Len(w)
  <2> QED
    BY <1>1, <2>1, <2>2
<1>2. CASE bad # {}
  <2> DEFINE f == CHOOSE i \in bad : \A j \in bad : i <= j
  <2>1. bad \in SUBSET Nat
    OBVIOUS
  <2>2. \E i \in bad : \A j \in bad : i <= j
    BY <1>2, <2>1, LeastExists
  <2>3. f \in bad /\ \A j \in bad : f <= j
    BY <2>2
  <2>4. Intact(w) = SubSeq(w, 1, f - 1)
    BY <1>2 DEF Intact
  <2>5. f \in 1..Len(w) /\ w[f] = Torn
    BY <2>3
  <2> HIDE DEF f
  <2>6. \A i \in 1..(f - 1) : w[i] # Torn
    BY <2>3, <2>5
  <2>7. f - 1 \in 0..Len(w) /\ (f - 1) + 1 = f
    BY <2>5
  <2> QED
    BY <2>4, <2>5, <2>6, <2>7
<1> QED
  BY <1>1, <1>2

(* What a crash leaves of the log.                                           *)
LEMMA SurvivorIs ==
  ASSUME Typed, NEW w \in Survivors
  PROVE  /\ w \in Seq(Records)
         /\ \A i \in DOMAIN w : w[i].seq <= committed + 1
         /\ \/ w = walSafe
            \/ \E n \in 0..Len(wal) :
                  /\ IsPrefix(walSafe, wal) => Len(walSafe) <= n
                  /\ \A i \in 1..n : i \in DOMAIN w /\ w[i] = wal[i]
                  /\ Len(w) = n \/ (n < Len(wal) /\ Len(w) = n + 1 /\ w[n + 1] = Torn)
<1> DEFINE kept == IF IsPrefix(walSafe, wal) THEN Len(walSafe) ELSE 0
<1> USE DEF Typed
<1>1. kept \in Nat
  OBVIOUS
<1>2. CASE w = walSafe
  BY <1>2
<1>3. ASSUME NEW n \in kept..Len(wal), w = SubSeq(wal, 1, n)
      PROVE  /\ w \in Seq(Records) /\ n \in 0..Len(wal) /\ Len(w) = n
             /\ IsPrefix(walSafe, wal) => Len(walSafe) <= n
             /\ \A i \in 1..n : i \in DOMAIN w /\ w[i] = wal[i]
             /\ \A i \in DOMAIN w : w[i].seq <= committed + 1
  <2>1. n \in 0..Len(wal) /\ (IsPrefix(walSafe, wal) => Len(walSafe) <= n)
    BY <1>1
  <2>2. w \in Seq(Records) /\ Len(w) = n /\ \A i \in 1..n : i \in DOMAIN wal /\ w[i] = wal[i]
    BY <1>3, <2>1, PrefixIs
  <2>3. DOMAIN w = 1..n
    BY <2>2
  <2> QED
    BY <2>1, <2>2, <2>3
<1>4. ASSUME NEW n \in kept..(Len(wal) - 1), w = Append(SubSeq(wal, 1, n), Torn)
      PROVE  /\ w \in Seq(Records) /\ n \in 0..Len(wal) /\ n < Len(wal) /\ Len(w) = n + 1
             /\ w[n + 1] = Torn
             /\ IsPrefix(walSafe, wal) => Len(walSafe) <= n
             /\ \A i \in 1..n : i \in DOMAIN w /\ w[i] = wal[i]
             /\ \A i \in DOMAIN w : w[i].seq <= committed + 1
  <2> DEFINE p == SubSeq(wal, 1, n)
  <2>1. n \in 0..Len(wal) /\ n < Len(wal) /\ (IsPrefix(walSafe, wal) => Len(walSafe) <= n)
    BY <1>1
  <2>2. p \in Seq(Records) /\ Len(p) = n /\ \A i \in 1..n : i \in DOMAIN wal /\ p[i] = wal[i]
    BY <2>1, PrefixIs
  <2>3. Torn \in Records /\ Torn.seq = 0
    BY DEF Records, Torn
  <2> HIDE DEF p
  <2>4. w = Append(p, Torn)
    BY <1>4 DEF p
  <2>5. w \in Seq(Records) /\ Len(w) = n + 1 /\ w[n + 1] = Torn
        /\ \A i \in 1..n : w[i] = p[i]
    BY <2>2, <2>3, <2>4, AppendProperties
  <2>6. DOMAIN w = 1..(n + 1)
    BY <2>5
  <2>7. ASSUME NEW i \in DOMAIN w PROVE w[i].seq <= committed + 1
    <3>1. CASE i = n + 1
      BY <3>1, <2>3, <2>5
    <3>2. CASE i \in 1..n
      BY <3>2, <2>5, <2>2
    <3> QED
      BY <3>1, <3>2, <2>6
  <2> QED
    BY <2>1, <2>2, <2>5, <2>6, <2>7
<1>5. \/ w = walSafe
      \/ \E n \in kept..Len(wal) : w = SubSeq(wal, 1, n)
      \/ \E n \in kept..(Len(wal) - 1) : w = Append(SubSeq(wal, 1, n), Torn)
  BY DEF Survivors
<1> HIDE DEF kept
<1>6. ASSUME NEW n \in kept..Len(wal), w = SubSeq(wal, 1, n)
      PROVE  \E m \in 0..Len(wal) :
                  /\ IsPrefix(walSafe, wal) => Len(walSafe) <= m
                  /\ \A i \in 1..m : i \in DOMAIN w /\ w[i] = wal[i]
                  /\ Len(w) = m \/ (m < Len(wal) /\ Len(w) = m + 1 /\ w[m + 1] = Torn)
  <2>1. n \in 0..Len(wal)
    BY <1>3, <1>6
  <2> WITNESS n \in 0..Len(wal)
  <2> QED
    BY <1>3, <1>6
<1>7. ASSUME NEW n \in kept..(Len(wal) - 1), w = Append(SubSeq(wal, 1, n), Torn)
      PROVE  \E m \in 0..Len(wal) :
                  /\ IsPrefix(walSafe, wal) => Len(walSafe) <= m
                  /\ \A i \in 1..m : i \in DOMAIN w /\ w[i] = wal[i]
                  /\ Len(w) = m \/ (m < Len(wal) /\ Len(w) = m + 1 /\ w[m + 1] = Torn)
  <2>1. n \in 0..Len(wal)
    BY <1>4, <1>7
  <2> WITNESS n \in 0..Len(wal)
  <2> QED
    BY <1>4, <1>7
<1>8. w \in Seq(Records) /\ \A i \in DOMAIN w : w[i].seq <= committed + 1
  BY <1>2, <1>3, <1>4, <1>5
<1> QED
  BY <1>5, <1>6, <1>7, <1>8

(* What a crash leaves of the directory.                                     *)
LEMMA PrefixOps ==
  ASSUME NEW d \in SUBSET Files, NEW ops \in Seq(DirOp), NEW n \in 0..Len(ops)
  PROVE  LET D == AfterOps(d, SubSeq(ops, 1, n)) IN
         /\ D \in SUBSET Files
         /\ \A f \in D :
               \/ f \in d
               \/ \E i \in DOMAIN ops : ops[i].op = "link" /\ ops[i].file = f
         /\ \A f \in d : (\A i \in DOMAIN ops : ops[i].file.num # f.num) => f \in D
         /\ DistinctNumbers(d) => DistinctNumbers(D)
<1> DEFINE p == SubSeq(ops, 1, n)
<1>1. p \in Seq(DirOp) /\ Len(p) = n /\ \A i \in 1..n : i \in DOMAIN ops /\ p[i] = ops[i]
  BY PrefixIs
<1>2. DOMAIN p = 1..n
  BY <1>1
<1> HIDE DEF p
<1>3. \A i \in DOMAIN p : i \in DOMAIN ops /\ p[i] = ops[i]
  BY <1>1, <1>2
<1>4. /\ AfterOps(d, p) \in SUBSET Files
      /\ \A f \in AfterOps(d, p) :
            \/ f \in d /\ \A i \in DOMAIN p : p[i].file.num # f.num
            \/ \E i \in DOMAIN p : p[i].op = "link" /\ p[i].file = f
      /\ \A f \in d : (\A i \in DOMAIN p : p[i].file.num # f.num) => f \in AfterOps(d, p)
      /\ DistinctNumbers(d) => DistinctNumbers(AfterOps(d, p))
  BY <1>1, AfterOpsIs
<1> QED
  BY <1>3, <1>4 DEF p

(* What the next open lists: every file, by number.                          *)
LEMMA ListingIs ==
  ASSUME NEW d \in SUBSET Files, DistinctNumbers(d),
         NEW n \in Nat, \A f \in d : f.num < n, NEW s \in Listings(d)
  PROVE  /\ s \in Seq(Files)
         /\ \A i \in DOMAIN s : s[i] \in d
         /\ \A f \in d : \E i \in DOMAIN s : s[i] = f
         /\ \A i, j \in DOMAIN s : i < j => s[i].num < s[j].num
         /\ \A i, j \in DOMAIN s : i # j => s[i].num # s[j].num
<1> DEFINE F == [f \in d |-> f.num]
<1>1. F \in [d -> 0..n]
  BY FileType
<1>2. IsInjective(F)
  BY DEF IsInjective, DistinctNumbers
<1>3. F \in Injection(d, 0..n)
  BY <1>1, <1>2 DEF Injection
<1>4. IsFiniteSet(0..n)
  BY FS_Interval
<1>5. IsFiniteSet(d)
  BY <1>3, <1>4, FS_Injection
<1>6. Cardinality(d) \in Nat
  BY <1>5, FS_CardinalityType
<1>7. /\ s \in [1..Cardinality(d) -> d]
      /\ \A f \in d : \E i \in DOMAIN s : s[i] = f
      /\ \A i, j \in DOMAIN s : i < j => s[i].num < s[j].num
  BY DEF Listings
<1>8. s \in Seq(Files)
  BY <1>6, <1>7
<1>9. \A i \in DOMAIN s : s[i] \in d /\ i \in Nat /\ s[i].num \in Nat
  BY <1>6, <1>7, FileType
<1>10. ASSUME NEW i \in DOMAIN s, NEW j \in DOMAIN s, i # j
       PROVE  s[i].num # s[j].num
  <2>1. i < j \/ j < i
    BY <1>9, <1>10
  <2> QED
    BY <1>7, <1>9, <2>1
<1> QED
  BY <1>7, <1>8, <1>9, <1>10

LEMMA NextNumberIs ==
  ASSUME NEW d \in SUBSET Files, NEW n \in Nat, \A f \in d : f.num < n
  PROVE  NextNumber(d) \in Nat /\ \A f \in d : f.num < NextNumber(d)
<1> DEFINE S == {0} \cup {f.num : f \in d}
<1>1. S \in SUBSET Nat /\ S # {} /\ \A x \in S : x <= n
  BY FileType
<1>2. GreatestOf(S) \in Nat /\ \A x \in S : x <= GreatestOf(S)
  BY <1>1, GreatestIs
<1>3. NextNumber(d) = GreatestOf(S) + 1
  BY DEF NextNumber
<1> HIDE DEF S
<1>4. \A f \in d : f.num \in S /\ f.num \in Nat
  BY FileType DEF S
<1> QED
  BY <1>2, <1>3, <1>4

(* The sequence the next open starts from.                                   *)
LEMMA OpenSeqIs ==
  ASSUME NEW d \in SUBSET Files, NEW w \in Seq(Records), NEW n \in Nat,
         \A f \in d : f.maxSeq <= n, \A i \in DOMAIN w : w[i].seq <= n
  PROVE  /\ OpenSeq(d, w) \in Nat
         /\ \A f \in d : f.maxSeq <= OpenSeq(d, w)
         /\ \A i \in DOMAIN w : w[i].seq <= OpenSeq(d, w)
         /\ \/ OpenSeq(d, w) = 0
            \/ \E f \in d : f.maxSeq = OpenSeq(d, w)
            \/ \E i \in DOMAIN w : w[i].seq = OpenSeq(d, w)
<1> DEFINE S == {0} \cup {f.maxSeq : f \in d} \cup {w[i].seq : i \in DOMAIN w}
<1>1. \A i \in DOMAIN w : w[i] \in Records
  OBVIOUS
<1>2. \A i \in DOMAIN w : w[i].seq \in Nat
  BY <1>1, RecordType
<1>3. \A f \in d : f.maxSeq \in Nat
  BY FileType
<1>4. S \in SUBSET Nat /\ S # {} /\ \A x \in S : x <= n
  BY <1>2, <1>3
<1>5. GreatestOf(S) \in S /\ GreatestOf(S) \in Nat /\ \A x \in S : x <= GreatestOf(S)
  BY <1>4, GreatestIs
<1>6. OpenSeq(d, w) = GreatestOf(S)
  BY DEF OpenSeq
<1> QED
  BY <1>5, <1>6

LEMMA CompactedIsSubset ==
  ASSUME NEW X, NEW fl
  PROVE  /\ GcVersions(X, fl) \subseteq X
         /\ \A ssts : Merge(ssts) \subseteq UNION {ssts[i] : i \in DOMAIN ssts}
  BY DEF GcVersions, KeptVersions, Merge

LEMMA FloorIs ==
  ASSUME Typed
  PROVE  RetentionFloor \in Nat /\ RetentionFloor <= committed
  BY DEF Typed, RetentionFloor

(* The run a compaction writes.                                              *)
LEMMA MergedRun ==
  ASSUME Typed, Numbered, Up, Len(runs) > CompactionTrigger
  PROVE  LET M == GcVersions(Merge(RunEntries), RetentionFloor)
             m == GreatestOf({runs[i].maxSeq : i \in DOMAIN runs})
         IN  /\ M \in SUBSET Entry
             /\ M \subseteq LiveEntries
             /\ m \in Nat /\ m <= committed
             /\ \A f \in Live : f.maxSeq <= m
             /\ \E f \in Live : f.maxSeq = m
<1> DEFINE M == GcVersions(Merge(RunEntries), RetentionFloor)
           S == {runs[i].maxSeq : i \in DOMAIN runs}
<1>1. \A i \in DOMAIN runs : runs[i] \in Files /\ runs[i] \in dirSafe
  BY DEF Typed, Numbered
<1>2. \A i \in DOMAIN runs : runs[i].entries \in SUBSET Entry /\ runs[i].maxSeq \in Nat
  BY <1>1, FileType
<1>3. M \subseteq UNION {RunEntries[i] : i \in DOMAIN RunEntries}
  BY CompactedIsSubset
<1>4. UNION {RunEntries[i] : i \in DOMAIN RunEntries} = LiveEntries
  BY DEF RunEntries, LiveEntries, Entries, Live
<1>5. LiveEntries \in SUBSET Entry
  BY <1>2 DEF LiveEntries, Entries, Live
<1>6. DOMAIN runs # {}
  <2>1. CompactionTrigger \in Nat
    BY RecoveryAssumption
  <2>2. runs \in Seq(Files) /\ Len(runs) > 0
    BY <2>1 DEF Typed
  <2>3. 1 \in DOMAIN runs
    BY <2>2
  <2> QED
    BY <2>3
<1>7. S \in SUBSET Nat /\ S # {} /\ committed \in Nat /\ \A x \in S : x <= committed
  BY <1>1, <1>2, <1>6 DEF Typed
<1>8. GreatestOf(S) \in S /\ GreatestOf(S) \in Nat /\ \A x \in S : x <= GreatestOf(S)
  BY <1>7, GreatestIs
<1> HIDE DEF M
<1>9. M \in SUBSET Entry /\ M \subseteq LiveEntries
  BY <1>3, <1>4, <1>5
<1>10. GreatestOf(S) <= committed
  BY <1>7, <1>8
<1>11. \A f \in Live : f.maxSeq \in S
  BY DEF Live
<1>12. \E f \in Live : f.maxSeq = GreatestOf(S)
  BY <1>8 DEF Live
<1> QED
  BY <1>8, <1>9, <1>10, <1>11, <1>12 DEF M

-------------------------------------------------------------------------------
(* The directory: nothing is assumed of where the process stops.             *)

Quiet == UNCHANGED <<runs, nextSst, dirSafe, dirOps>>

(* The steps that leave the directory and the runs alone.                    *)
LEMMA QuietSteps ==
  ASSUME Next
  PROVE  \/ Quiet /\ Up /\ Up'
         \/ FlushWrite \/ CompactWrite \/ UpgradeWrite
         \/ FlushSwap \/ CompactSwap \/ UpgradeSwap
         \/ CutSync \/ UnlinkDone \/ UnlinkOne \/ UpgradeUnlink
         \/ Crash \/ Close \/ Open
<1> USE DEF Quiet, Up, memVars, diskVars
<1>1. CASE CommitStep
  BY <1>1 DEF CommitStep, Append_, AppendTears, SyncFails, SyncWal, Publish
<1>2. CASE FlushStep
  BY <1>2 DEF FlushStep, FlushNotDue, CutLog
<1>3. CASE CompactStep
  BY <1>3 DEF CompactStep, CompactNotDue
<1>4. CASE UpgradeStep
  BY <1>4 DEF UpgradeStep, UpgradeBegin, UpgradeFails, UpgradeEnd
<1>5. CASE MaintenanceFails
  BY <1>5 DEF MaintenanceFails
<1> QED
  BY <1>1, <1>2, <1>3, <1>4, <1>5 DEF Next

(* A synced directory holds files that were there or were linked.            *)
LEMMA SyncedDir ==
  ASSUME Typed, DistinctNumbers(dirSafe)
  PROVE  /\ Dir \in SUBSET Files
         /\ \A f \in Dir : f.maxSeq <= committed
         /\ \A f \in Dir :
               \/ f \in dirSafe /\ \A i \in DOMAIN dirOps : dirOps[i].file.num # f.num
               \/ \E i \in DOMAIN dirOps : dirOps[i].op = "link" /\ dirOps[i].file = f
         /\ \A f \in dirSafe : (\A i \in DOMAIN dirOps : dirOps[i].file.num # f.num)
                                  => f \in Dir
         /\ dirOps # <<>> /\ dirOps[Len(dirOps)].op = "link"
               => dirOps[Len(dirOps)].file \in Dir
         /\ DistinctNumbers(Dir)
<1>1. dirSafe \in SUBSET Files /\ dirOps \in Seq(DirOp)
  BY DEF Typed
<1>2. /\ Dir \in SUBSET Files
      /\ \A f \in Dir :
            \/ f \in dirSafe /\ \A i \in DOMAIN dirOps : dirOps[i].file.num # f.num
            \/ \E i \in DOMAIN dirOps : dirOps[i].op = "link" /\ dirOps[i].file = f
      /\ \A f \in dirSafe : (\A i \in DOMAIN dirOps : dirOps[i].file.num # f.num)
                               => f \in Dir
      /\ dirOps # <<>> /\ dirOps[Len(dirOps)].op = "link"
            => dirOps[Len(dirOps)].file \in Dir
      /\ DistinctNumbers(Dir)
  BY <1>1, AfterOpsIs DEF Dir
<1> QED
  BY <1>2 DEF Typed

(* One after a crash.                                                        *)
LEMMA CrashedDir ==
  ASSUME Typed, DistinctNumbers(dirSafe), NEW d \in SurvivingDirs
  PROVE  /\ d \in SUBSET Files
         /\ \A f \in d : f.maxSeq <= committed
         /\ \A f \in d :
               \/ f \in dirSafe
               \/ \E i \in DOMAIN dirOps : dirOps[i].op = "link" /\ dirOps[i].file = f
         /\ \A f \in dirSafe : (\A i \in DOMAIN dirOps : dirOps[i].file.num # f.num)
                                  => f \in d
         /\ DistinctNumbers(d)
<1>1. dirSafe \in SUBSET Files /\ dirOps \in Seq(DirOp)
  BY DEF Typed
<1>2. PICK n \in 0..Len(dirOps) : d = AfterOps(dirSafe, SubSeq(dirOps, 1, n))
  BY DEF SurvivingDirs
<1>3. /\ d \in SUBSET Files
      /\ \A f \in d :
            \/ f \in dirSafe
            \/ \E i \in DOMAIN dirOps : dirOps[i].op = "link" /\ dirOps[i].file = f
      /\ \A f \in dirSafe : (\A i \in DOMAIN dirOps : dirOps[i].file.num # f.num)
                               => f \in d
      /\ DistinctNumbers(d)
  BY <1>1, <1>2, PrefixOps
<1> QED
  BY <1>3 DEF Typed

(* The directory as it is may be what a crash leaves.                        *)
LEMMA DirSurvives ==
  ASSUME Typed
  PROVE  Dir \in SurvivingDirs
<1>1. dirOps \in Seq(DirOp)
  BY DEF Typed
<1>2. SubSeq(dirOps, 1, Len(dirOps)) = dirOps /\ Len(dirOps) \in 0..Len(dirOps)
  BY <1>1
<1>3. Dir = AfterOps(dirSafe, SubSeq(dirOps, 1, Len(dirOps)))
  BY <1>2 DEF Dir
<1> QED
  BY <1>2, <1>3 DEF SurvivingDirs

(* Types.                                                                    *)
LEMMA TypedStep ==
  ASSUME DirInv, [Next]_vars
  PROVE  Typed'
<1> USE DEF DirInv, memVars, diskVars, bounds, ghosts
<1>t. Typed
  OBVIOUS
<1>d. DistinctNumbers(dirSafe)
  BY DEF Numbered
<1>e. <<>> \in Seq(Records) /\ <<>> \in Seq(DirOp) /\ <<>> \in Seq(Files)
  OBVIOUS
<1>1. ASSUME NEW b \in Batches, Append_(b)
      PROVE  Typed'
  <2>1. committed \in Nat /\ committed + 1 \in Nat \ {0} /\ wal \in Seq(Records)
    BY DEF Typed
  <2> DEFINE r == Record(b, committed + 1)
  <2>2. r \in Records /\ r.seq = committed + 1
    BY <2>1, RecordParts
  <2> HIDE DEF r
  <2>3. wal' = Append(wal, r)
    BY <1>1 DEF Append_, r
  <2>4. wal' \in Seq(Records) /\ \A i \in DOMAIN wal' : wal'[i].seq <= committed + 1
    BY <2>1, <2>2, <2>3 DEF Typed
  <2> QED
    BY <1>1, <2>4 DEF Append_, Typed, Phases
<1>2. CASE AppendTears
  <2>1. committed \in Nat /\ wal \in Seq(Records) /\ Torn \in Records /\ Torn.seq = 0
    BY DEF Typed, Records, Torn
  <2>2. wal' = Append(wal, Torn)
    BY <1>2 DEF AppendTears
  <2>3. wal' \in Seq(Records) /\ \A i \in DOMAIN wal' : wal'[i].seq <= committed + 1
    BY <2>1, <2>2 DEF Typed
  <2> QED
    BY <1>2, <2>3 DEF AppendTears, Typed
<1>3. CASE SyncFails \/ SyncWal
  BY <1>3 DEF SyncFails, SyncWal, Typed, Phases
<1>4. CASE Publish
  <2>1. committed \in Nat /\ batch \in Batches \cup {NoBatch}
    BY DEF Typed
  <2>2. Stamp(batch, committed + 1) \in SUBSET Entry
    BY <2>1, StampIsEntries
  <2>3. mem' \in SUBSET Entry /\ log' \in SUBSET Entry /\ committed' = committed + 1
    BY <1>4, <2>2 DEF Publish, Typed
  <2>4. /\ \A f \in dirSafe : f.maxSeq <= committed'
        /\ \A i \in DOMAIN dirOps : dirOps[i].file.maxSeq <= committed'
    <3>1. \A f \in dirSafe : f.maxSeq \in Nat
      BY FileType DEF Typed
    <3>2. \A i \in DOMAIN dirOps : dirOps[i] \in DirOp
      BY DEF Typed
    <3>3. \A i \in DOMAIN dirOps : dirOps[i].file.maxSeq \in Nat
      BY <3>2, FileType DEF DirOp
    <3> QED
      BY <2>1, <2>3, <3>1, <3>3 DEF Typed
  <2>5. \A w \in {wal, walSafe} : \A i \in DOMAIN w : w[i].seq <= committed' + 1
    <3>1. \A w \in {wal, walSafe} : \A i \in DOMAIN w : w[i] \in Records
      BY DEF Typed
    <3>2. \A w \in {wal, walSafe} : \A i \in DOMAIN w : w[i].seq \in Nat
      BY <3>1, RecordType
    <3> QED
      BY <2>1, <2>3, <3>2 DEF Typed
  <2> QED
    BY <1>4, <2>1, <2>3, <2>4, <2>5 DEF Publish, Typed, Phases
<1>5. CASE FlushNotDue \/ CompactNotDue \/ UpgradeBegin \/ UpgradeEnd
  BY <1>5 DEF FlushNotDue, CompactNotDue, UpgradeBegin, UpgradeEnd, Typed, Phases
<1>6. ASSUME NEW f \in Files, f.maxSeq <= committed, NEW n \in Phases, WriteRun(f, n),
             reclaimed' \in Nat
      PROVE  Typed'
  <2>1. dirOps \in Seq(DirOp) /\ Link(f) \in DirOp /\ Link(f).file = f
    BY OpParts DEF Typed
  <2>2. dirOps' = Append(dirOps, Link(f))
    BY <1>6 DEF WriteRun
  <2>3. dirOps' \in Seq(DirOp)
        /\ \A i \in DOMAIN dirOps' : dirOps'[i].file.maxSeq <= committed
    BY <1>6, <2>1, <2>2 DEF Typed
  <2> QED
    BY <1>6, <2>3 DEF WriteRun, Typed
<1>7. CASE FlushWrite
  <2> DEFINE f == File(nextSst, mem, committed, FALSE)
  <2>1. f \in Files /\ f.maxSeq = committed /\ committed \in Nat
    BY DEF Typed, File, Files
  <2> HIDE DEF f
  <2>2. WriteRun(f, "flushed") /\ reclaimed' = reclaimed
    BY <1>7 DEF FlushWrite, f
  <2>3. reclaimed' \in Nat /\ f.maxSeq <= committed /\ "flushed" \in Phases
    BY <2>1, <2>2 DEF Typed, Phases
  <2> QED
    BY <1>6, <2>1, <2>2, <2>3
<1>8. CASE CompactWrite
  <2> DEFINE M == GcVersions(Merge(RunEntries), RetentionFloor)
             m == GreatestOf({runs[i].maxSeq : i \in DOMAIN runs})
             f == File(nextSst, M, m, FALSE)
  <2>1. Len(runs) > CompactionTrigger /\ Up
    BY <1>8 DEF CompactWrite, Up
  <2>2. M \in SUBSET Entry /\ m \in Nat /\ m <= committed
    BY <1>t, <2>1, MergedRun
  <2>3. WriteRun(f, "merged") /\ reclaimed' = GreatestOf({reclaimed, RetentionFloor})
    BY <1>8 DEF CompactWrite
  <2> HIDE DEF M, m
  <2>4. f \in Files /\ f.maxSeq <= committed
    BY <2>2 DEF Typed, File, Files
  <2>5. reclaimed' \in Nat /\ "merged" \in Phases
    BY <1>t, <2>3, FloorIs, GreatestOfTwo DEF Typed, Phases
  <2> HIDE DEF f
  <2> QED
    BY <1>6, <2>3, <2>4, <2>5
<1>9. CASE UpgradeWrite
  <2> DEFINE i == CHOOSE i \in Legacy : \A j \in Legacy : i <= j
             old == runs[i]
             f == File(nextSst, old.entries, old.maxSeq, FALSE)
  <2>1. Legacy # {}
    BY <1>9 DEF UpgradeWrite
  <2>2. i \in Legacy
    BY <1>t, <2>1, LegacyLeast
  <2>3. old \in Files /\ old \in dirSafe
    BY <1>9, <2>2 DEF Legacy, Typed, Numbered, Up, UpgradeWrite
  <2>4. WriteRun(f, "rewritten") /\ reclaimed' = reclaimed
    BY <1>9 DEF UpgradeWrite
  <2> HIDE DEF i, old
  <2>5. old.entries \in SUBSET Entry /\ old.maxSeq \in Nat /\ nextSst \in Nat
        /\ old.maxSeq <= committed
    BY <2>3, FileType DEF Typed
  <2>6. f \in Files /\ f.maxSeq <= committed
    BY <2>5 DEF File, Files
  <2>7. reclaimed' \in Nat /\ "rewritten" \in Phases
    BY <2>4 DEF Typed, Phases
  <2> HIDE DEF f
  <2> QED
    BY <1>6, <2>4, <2>6, <2>7
<1>10. ASSUME SyncDir
       PROVE  /\ dirSafe' \in SUBSET Files /\ \A f \in dirSafe' : f.maxSeq <= committed
              /\ dirOps' \in Seq(DirOp) /\ DOMAIN dirOps' = {}
  BY <1>t, <1>d, <1>10, SyncedDir DEF SyncDir
<1>11. CASE FlushSwap
  <2>1. runs' \in Seq(Files) /\ run' \in Files /\ nextSst' \in Nat /\ mem' \in SUBSET Entry
    BY <1>11, NoRunIsFile DEF FlushSwap, Typed
  <2> QED
    BY <1>10, <1>11, <2>1 DEF FlushSwap, Typed, Phases
<1>12. CASE CompactSwap
  <2>1. runs' \in Seq(Files) /\ run' \in Files /\ nextSst' \in Nat
    BY <1>12, NoRunIsFile DEF CompactSwap, Typed
  <2>2. victims' \in Seq(Files)
    BY <1>12 DEF CompactSwap, Typed, Reverse
  <2> QED
    BY <1>10, <1>12, <2>1, <2>2 DEF CompactSwap, Typed, Phases
<1>13. CASE UpgradeSwap
  <2> DEFINE i == CHOOSE i \in Legacy : \A j \in Legacy : i <= j
  <2>1. Legacy # {}
    BY <1>13 DEF UpgradeSwap, Linking
  <2>2. i \in DOMAIN runs
    BY <1>t, <2>1, LegacyLeast
  <2>3. runs' = [runs EXCEPT ![i] = run] /\ victims' = <<runs[i]>>
    BY <1>13 DEF UpgradeSwap
  <2> HIDE DEF i
  <2>4. runs[i] \in Files /\ runs' \in Seq(Files)
    BY <2>2, <2>3, ExceptSeq DEF Typed
  <2>5. victims' \in Seq(Files) /\ run' \in Files /\ nextSst' \in Nat
    BY <1>13, <2>3, <2>4, NoRunIsFile DEF UpgradeSwap, Typed
  <2> QED
    BY <1>10, <1>13, <2>4, <2>5 DEF UpgradeSwap, Typed, Phases
<1>14. CASE CutLog
  BY <1>14, <1>e DEF CutLog, Typed, Phases
<1>15. CASE CutSync
  BY <1>10, <1>15 DEF CutSync, Typed, Phases
<1>16. CASE UnlinkOne
  <2>1. victims \in Seq(Files) /\ victims # <<>>
    BY <1>16 DEF UnlinkOne, Typed
  <2> DEFINE v == Head(victims)
  <2>2. v \in Files /\ Tail(victims) \in Seq(Files) /\ v = victims[1] /\ 1 \in DOMAIN victims
    BY <2>1
  <2> HIDE DEF v
  <2>3. Unlink(v) \in DirOp /\ Unlink(v).file = v
    BY <2>2, OpParts
  <2>4. dirOps' = Append(dirOps, Unlink(v)) /\ victims' = Tail(victims)
    BY <1>16 DEF UnlinkOne, v
  <2>5. v.maxSeq <= committed
    BY <1>16, <2>2 DEF UnlinkOne, Linking
  <2>6. dirOps' \in Seq(DirOp)
        /\ \A i \in DOMAIN dirOps' : dirOps'[i].file.maxSeq <= committed
    BY <2>3, <2>4, <2>5 DEF Typed
  <2> QED
    BY <1>16, <2>2, <2>4, <2>6 DEF UnlinkOne, Typed
<1>17. CASE UnlinkDone
  BY <1>10, <1>17 DEF UnlinkDone, Typed, Phases
<1>18. CASE MaintenanceFails \/ UpgradeFails
  BY <1>18, <1>e, NoRunIsFile DEF MaintenanceFails, UpgradeFails, Typed, Phases
<1>19. CASE UpgradeUnlink
  <2>1. victims \in Seq(Files) /\ victims # <<>>
    BY <1>19 DEF UpgradeUnlink, Typed, Linking
  <2> DEFINE v == Head(victims)
             ops == Append(dirOps, Unlink(v))
  <2>2. v \in Files
    BY <2>1
  <2> HIDE DEF v
  <2>3. Unlink(v) \in DirOp /\ Unlink(v).file = v /\ Unlink(v).op = "unlink"
    BY <2>2, OpParts
  <2>4. ops \in Seq(DirOp) /\ \A i \in DOMAIN ops : ops[i].op = "link" =>
            i \in DOMAIN dirOps /\ ops[i] = dirOps[i]
    BY <2>3 DEF Typed
  <2>5. dirSafe' = AfterOps(dirSafe, ops) /\ dirOps' = <<>> /\ victims' = <<>>
    BY <1>19 DEF UpgradeUnlink, v
  <2> HIDE DEF ops
  <2>6. dirSafe' \in SUBSET Files /\ \A f \in dirSafe' :
               \/ f \in dirSafe
               \/ \E i \in DOMAIN ops : ops[i].op = "link" /\ ops[i].file = f
    BY <2>4, <2>5, AfterOpsIs DEF Typed
  <2>7. \A f \in dirSafe' : f.maxSeq <= committed
    BY <2>4, <2>6 DEF Typed
  <2> QED
    BY <1>19, <1>e, <2>5, <2>6, <2>7 DEF UpgradeUnlink, Typed, Phases
<1>20. CASE Crash
  <2>1. dirSafe' \in SUBSET Files /\ \A f \in dirSafe' : f.maxSeq <= committed
    BY <1>t, <1>d, <1>20, CrashedDir DEF Crash
  <2>2. PICK w \in Survivors : wal' = w /\ walSafe' = w
    BY <1>20 DEF Crash
  <2>3. w \in Seq(Records) /\ \A i \in DOMAIN w : w[i].seq <= committed + 1
    BY <1>t, SurvivorIs
  <2>4. mem' \in SUBSET Entry /\ runs' \in Seq(Files) /\ victims' \in Seq(Files)
        /\ dirOps' \in Seq(DirOp) /\ run' \in Files /\ nextSst' \in Nat /\ DOMAIN dirOps' = {}
    BY <1>20, <1>e, NoRunIsFile DEF Crash
  <2> QED
    BY <1>20, <2>1, <2>2, <2>3, <2>4 DEF Crash, Typed, Phases
<1>21. CASE Close
  <2>1. dirSafe' \in SUBSET Files /\ \A f \in dirSafe' : f.maxSeq <= committed
    BY <1>t, <1>d, <1>21, SyncedDir DEF Close
  <2>2. mem' \in SUBSET Entry /\ runs' \in Seq(Files)
        /\ dirOps' \in Seq(DirOp) /\ nextSst' \in Nat /\ DOMAIN dirOps' = {}
    BY <1>21, <1>e DEF Close
  <2> QED
    BY <1>21, <2>1, <2>2 DEF Close, Typed, Phases
<1>22. CASE Open
  <2> DEFINE w == Intact(wal)
  <2>1. PICK n \in 0..Len(wal) : w = SubSeq(wal, 1, n)
    BY IntactIs DEF Typed
  <2>2. w \in Seq(Records) /\ Len(w) = n /\ \A i \in 1..n : i \in DOMAIN wal /\ w[i] = wal[i]
    BY <2>1, PrefixIs DEF Typed
  <2>3. /\ runs' \in Listings(dirSafe) /\ nextSst' = NextNumber(dirSafe)
        /\ mem' = Replayed(w) /\ committed' = OpenSeq(dirSafe, w)
        /\ wal' = w /\ walSafe' = w /\ retain' \in Retentions /\ batch' = NoBatch
        /\ phase' = "idle" /\ UNCHANGED <<dirSafe, dirOps, run, victims, reclaimed>>
        /\ log' = log \cup {e \in Stamp(batch, committed + 1) :
                    \E i \in DOMAIN w : w[i] = Record(batch, committed + 1)}
    BY <1>22 DEF Open
  <2> HIDE DEF w
  <2>4. DOMAIN w = 1..n /\ committed + 1 \in Nat /\ dirSafe \in SUBSET Files
    BY <2>2 DEF Typed
  <2>5. \A i \in DOMAIN w : w[i].seq <= committed + 1
    BY <2>2, <2>4 DEF Typed
  <2>6. \A f \in dirSafe : f.maxSeq <= committed + 1
    BY FileType DEF Typed
  <2>7. /\ committed' \in Nat
        /\ \A f \in dirSafe : f.maxSeq <= committed'
        /\ \A i \in DOMAIN w : w[i].seq <= committed'
    BY <2>2, <2>3, <2>4, <2>5, <2>6, OpenSeqIs
  <2>8. PICK m \in Nat : \A f \in dirSafe : f.num < m
    BY DEF Numbered
  <2>9. runs' \in Seq(Files) /\ nextSst' \in Nat
    BY <1>d, <2>3, <2>4, <2>8, ListingIs, NextNumberIs
  <2>10. \A i \in DOMAIN w : w[i] \in Records
    BY <2>2
  <2>11. \A i \in DOMAIN w : w[i].ops \in SUBSET Entry /\ w[i].seq \in Nat
    BY <2>10, RecordType
  <2>12. mem' \in SUBSET Entry
    <3> DEFINE o == [i \in DOMAIN w |-> w[i].ops]
    <3>1. mem' \subseteq UNION {o[i] : i \in DOMAIN o}
      BY <2>3, CompactedIsSubset DEF Replayed
    <3> QED
      BY <2>11, <3>1
  <2>13. log' \in SUBSET Entry
    <3>1. batch \in Batches \cup {NoBatch}
      BY DEF Typed
    <3>2. Stamp(batch, committed + 1) \in SUBSET Entry
      BY <2>4, <3>1, StampIsEntries
    <3> QED
      BY <2>3, <3>2 DEF Typed
  <2>14. retain' \in Nat
    BY <2>3, RecoveryAssumption
  <2>15. \A i \in DOMAIN w : w[i].seq <= committed' + 1
    BY <2>7, <2>11
  <2>16. DOMAIN dirOps' = {}
    BY <1>22, <2>3 DEF Numbered, Up, Open
  <2> QED
    BY <2>2, <2>3, <2>7, <2>9, <2>12, <2>13, <2>14, <2>15, <2>16 DEF Typed, Phases
<1>23. CASE UNCHANGED vars
  BY <1>23 DEF vars, Typed
<1> QED
  BY <1>1, <1>2, <1>3, <1>4, <1>5, <1>7, <1>8, <1>9, <1>11, <1>12, <1>13, <1>14, <1>15,
     <1>16, <1>17, <1>18, <1>19, <1>20, <1>21, <1>22, <1>23
     DEF Next, CommitStep, FlushStep, CompactStep, UpgradeStep

(* The runs are among what any crash leaves.                                 *)
LEMMA RunsSurvive ==
  ASSUME Typed, Numbered, Up, NEW d \in SurvivingDirs
  PROVE  /\ \A i \in DOMAIN runs : runs[i] \in d
         /\ \A f \in d : f.num <= nextSst
         /\ \A f \in d : f \in dirSafe \/ f.num = nextSst
<1>1. /\ \A f \in d :
            \/ f \in dirSafe
            \/ \E i \in DOMAIN dirOps : dirOps[i].op = "link" /\ dirOps[i].file = f
      /\ \A f \in dirSafe : (\A i \in DOMAIN dirOps : dirOps[i].file.num # f.num) => f \in d
      /\ d \in SUBSET Files
  BY CrashedDir DEF Numbered
<1>2. ASSUME NEW i \in DOMAIN runs, NEW j \in DOMAIN dirOps
      PROVE  dirOps[j].file.num # runs[i].num
  <2>1. runs[i] \in dirSafe /\ runs[i].num < nextSst /\ nextSst \in Nat
    BY DEF Numbered, Typed
  <2>2. runs[i].num \in Nat
    BY <2>1, FileType DEF Typed
  <2> QED
    BY <2>1, <2>2 DEF Numbered, Dead
<1>3. \A i \in DOMAIN runs : runs[i] \in d
  BY <1>1, <1>2 DEF Numbered
<1>4. ASSUME NEW f \in d PROVE f.num <= nextSst /\ (f \in dirSafe \/ f.num = nextSst)
  <2>1. CASE f \in dirSafe
    BY <2>1, <1>1, FileType DEF Numbered, Typed
  <2>2. ASSUME NEW i \in DOMAIN dirOps, dirOps[i].op = "link", dirOps[i].file = f
        PROVE  f.num = nextSst
    BY <2>2 DEF Numbered
  <2> QED
    BY <1>1, <2>1, <2>2 DEF Typed
<1> QED
  BY <1>3, <1>4

(* A synced link takes the next number.                                      *)
LEMMA SwapNumbers ==
  ASSUME DirInv, Up, Up', phase \in {"flushed", "merged", "rewritten"}, SyncDir,
         nextSst' = nextSst + 1, runs' \in Seq(Files),
         \A i \in DOMAIN runs' : runs'[i] = run \/ (i \in DOMAIN runs /\ runs'[i] = runs[i]),
         \A i, j \in DOMAIN runs' : runs'[i] = run /\ runs'[j] = run => i = j
  PROVE  Numbered' /\ DOMAIN dirOps' = {}
<1> USE DEF DirInv
<1>t. Typed /\ Numbered /\ Linking
  OBVIOUS
<1>1. Dir \in SurvivingDirs
  BY <1>t, DirSurvives
<1>2. dirSafe' = Dir /\ dirOps' = <<>>
  BY DEF SyncDir
<1>3. run \in Dir /\ run.num = nextSst
  BY <1>t, OpParts, SyncedDir DEF Numbered, Linking, Typed
<1>4. DistinctNumbers(Dir) /\ Dir \in SUBSET Files
  BY <1>t, SyncedDir DEF Numbered
<1>5. (\A i \in DOMAIN runs : runs[i] \in Dir) /\ \A f \in Dir : f.num <= nextSst
  BY <1>t, <1>1, RunsSurvive
<1>6. \A f \in Dir : f.num \in Nat /\ nextSst \in Nat
  BY <1>4, FileType DEF Typed
<1>7. \A f \in Dir : f.num < nextSst'
  BY <1>5, <1>6
<1>8. \A i \in DOMAIN runs' : runs'[i] \in Dir
  BY <1>3, <1>5
<1>9. \A i \in DOMAIN runs : runs[i].num < nextSst
  BY DEF Numbered
<1>10. ASSUME NEW i \in DOMAIN runs', NEW j \in DOMAIN runs', i # j
       PROVE  runs'[i].num # runs'[j].num
  <2>1. \A l \in DOMAIN runs : runs[l].num \in Nat
    BY <1>5, <1>6
  <2>2. CASE runs'[i] = run /\ runs'[j] # run
    BY <1>3, <1>9, <2>1, <2>2
  <2>3. CASE runs'[j] = run /\ runs'[i] # run
    BY <1>3, <1>9, <2>1, <2>3
  <2>4. CASE runs'[i] # run /\ runs'[j] # run
    BY <1>10, <2>4 DEF Numbered
  <2> QED
    BY <1>10, <2>2, <2>3, <2>4
<1>11. nextSst' \in Nat
  BY DEF Typed
<1> QED
  BY <1>2, <1>4, <1>7, <1>8, <1>10, <1>11 DEF Numbered

(* A sync with nothing linked.                                               *)
LEMMA SyncNumbers ==
  ASSUME DirInv, Up, Up', SyncDir, UNCHANGED <<runs, nextSst>>,
         \A i \in DOMAIN dirOps : dirOps[i].op = "unlink"
  PROVE  Numbered' /\ DOMAIN dirOps' = {} /\ dirSafe' \subseteq dirSafe
<1> USE DEF DirInv
<1>t. Typed /\ Numbered
  OBVIOUS
<1>1. dirSafe' = Dir /\ dirOps' = <<>>
  BY DEF SyncDir
<1>2. DistinctNumbers(Dir) /\ Dir \subseteq dirSafe
  BY <1>t, SyncedDir DEF Numbered
<1>3. \A i \in DOMAIN runs : runs[i] \in Dir
  BY <1>t, DirSurvives, RunsSurvive
<1> QED
  BY <1>1, <1>2, <1>3, <1>t DEF Numbered

(* One more operation.                                                       *)
LEMMA AppendNumbers ==
  ASSUME DirInv, Up, Up', NEW o \in DirOp, dirOps' = Append(dirOps, o),
         UNCHANGED <<dirSafe, runs, nextSst>>,
         \/ o.op = "link" /\ o.file.num = nextSst
         \/ o.op = "unlink" /\ Dead(o.file.num)
  PROVE  Numbered'
<1>1. dirOps \in Seq(DirOp)
  BY DEF DirInv, Typed
<1>2. \A i \in DOMAIN dirOps' : dirOps'[i] = o \/ (i \in DOMAIN dirOps /\ dirOps'[i] = dirOps[i])
  BY <1>1
<1>3. \A n : Dead(n) => Dead(n)'
  BY DEF Dead
<1> QED
  BY <1>2, <1>3 DEF DirInv, Numbered

LEMMA NumberedStep ==
  ASSUME DirInv, [Next]_vars
  PROVE  Numbered'
<1> USE DEF DirInv, memVars, diskVars
<1>t. Typed /\ Numbered /\ Linking /\ DistinctNumbers(dirSafe)
  BY DEF Numbered
<1>1. CASE Quiet /\ Up /\ Up'
  BY <1>1 DEF Quiet, Numbered, Dead
<1>2. ASSUME NEW f \in Files, f.num = nextSst, NEW n, WriteRun(f, n), Up, n # "down"
      PROVE  Numbered'
  <2>1. Link(f) \in DirOp /\ Link(f).op = "link" /\ Link(f).file = f
    BY OpParts
  <2>2. dirOps' = Append(dirOps, Link(f)) /\ UNCHANGED <<dirSafe, runs, nextSst>> /\ Up'
    BY <1>2 DEF WriteRun, Up
  <2> QED
    BY <1>2, <2>1, <2>2, AppendNumbers
<1>3. CASE FlushWrite
  <2> DEFINE f == File(nextSst, mem, committed, FALSE)
  <2>1. f \in Files /\ f.num = nextSst
    BY DEF Typed, File, Files
  <2> HIDE DEF f
  <2>2. WriteRun(f, "flushed") /\ Up
    BY <1>3 DEF FlushWrite, f, Up
  <2> QED
    BY <1>2, <2>1, <2>2
<1>4. CASE CompactWrite
  <2> DEFINE M == GcVersions(Merge(RunEntries), RetentionFloor)
             m == GreatestOf({runs[i].maxSeq : i \in DOMAIN runs})
             f == File(nextSst, M, m, FALSE)
  <2>1. Len(runs) > CompactionTrigger /\ Up
    BY <1>4 DEF CompactWrite, Up
  <2>2. M \in SUBSET Entry /\ m \in Nat
    BY <1>t, <2>1, MergedRun
  <2>3. WriteRun(f, "merged")
    BY <1>4 DEF CompactWrite
  <2> HIDE DEF M, m
  <2>4. f \in Files /\ f.num = nextSst
    BY <2>2 DEF Typed, File, Files
  <2> HIDE DEF f
  <2> QED
    BY <1>2, <2>1, <2>3, <2>4
<1>5. CASE UpgradeWrite
  <2> DEFINE i == CHOOSE i \in Legacy : \A j \in Legacy : i <= j
             old == runs[i]
             f == File(nextSst, old.entries, old.maxSeq, FALSE)
  <2>1. Legacy # {} /\ Up
    BY <1>5 DEF UpgradeWrite, Up
  <2>2. i \in DOMAIN runs
    BY <1>t, <2>1, LegacyLeast
  <2>3. WriteRun(f, "rewritten")
    BY <1>5 DEF UpgradeWrite
  <2> HIDE DEF i
  <2>4. old \in Files
    BY <2>2 DEF Typed
  <2> HIDE DEF old
  <2>5. f \in Files /\ f.num = nextSst
    BY <2>4 DEF Typed, File, Files
  <2> HIDE DEF f
  <2> QED
    BY <1>2, <2>1, <2>3, <2>5
<1>6. CASE FlushSwap
  <2>1. runs \in Seq(Files) /\ run \in Files /\ runs' = Append(runs, run)
    BY <1>6 DEF FlushSwap, Typed
  <2>2. run \notin {runs[i] : i \in DOMAIN runs}
    BY <1>6, FileType DEF Numbered, Linking, FlushSwap, Up, Typed
  <2>3. runs' \in Seq(Files)
        /\ \A i \in DOMAIN runs' : \/ runs'[i] = run /\ i = Len(runs) + 1
                                   \/ i \in DOMAIN runs /\ runs'[i] = runs[i]
    BY <2>1
  <2>4. \A i, j \in DOMAIN runs' : runs'[i] = run /\ runs'[j] = run => i = j
    BY <2>2, <2>3
  <2> QED
    BY <1>6, <2>3, <2>4, SwapNumbers DEF FlushSwap, Up
<1>7. CASE CompactSwap
  <2>1. runs' = <<run>> /\ run \in Files
    BY <1>7 DEF CompactSwap, Typed
  <2>2. runs' \in Seq(Files) /\ \A i \in DOMAIN runs' : runs'[i] = run /\ i = 1
    BY <2>1
  <2> QED
    BY <1>7, <2>2, SwapNumbers DEF CompactSwap, Up
<1>8. CASE UpgradeSwap
  <2> DEFINE i == CHOOSE i \in Legacy : \A j \in Legacy : i <= j
  <2>1. i \in DOMAIN runs
    BY <1>8, <1>t, LegacyLeast DEF UpgradeSwap, Linking
  <2>2. runs' = [runs EXCEPT ![i] = run]
    BY <1>8 DEF UpgradeSwap
  <2> HIDE DEF i
  <2>3. run \notin {runs[j] : j \in DOMAIN runs}
    BY <1>8, FileType DEF Numbered, Linking, UpgradeSwap, Up, Typed
  <2>4. runs' \in Seq(Files) /\ DOMAIN runs' = DOMAIN runs /\ runs'[i] = run
        /\ \A j \in DOMAIN runs : j # i => runs'[j] = runs[j]
    BY <2>1, <2>2, ExceptSeq DEF Typed
  <2>5. \A l, j \in DOMAIN runs' : runs'[l] = run /\ runs'[j] = run => l = j
    BY <2>3, <2>4
  <2> QED
    BY <1>8, <2>4, <2>5, SwapNumbers DEF UpgradeSwap, Up
<1>9. CASE CutSync \/ UnlinkDone
  BY <1>9, SyncNumbers DEF CutSync, UnlinkDone, Linking, Up
<1>10. CASE UnlinkOne
  <2> DEFINE v == Head(victims)
  <2>1. v \in Files /\ Dead(v.num)
    <3>1. victims \in Seq(Files) /\ victims # <<>>
      BY <1>10 DEF UnlinkOne, Typed
    <3>2. v \in Files /\ v = victims[1] /\ 1 \in DOMAIN victims
      BY <3>1
    <3> QED
      BY <1>10, <3>2 DEF UnlinkOne, Linking
  <2> HIDE DEF v
  <2>2. dirOps' = Append(dirOps, Unlink(v)) /\ Up /\ Up' /\ UNCHANGED <<dirSafe, runs, nextSst>>
    BY <1>10 DEF UnlinkOne, v, Up
  <2> QED
    BY <2>1, <2>2, OpParts, AppendNumbers
<1>11. CASE UpgradeUnlink
  <2> DEFINE v == Head(victims)
             ops == Append(dirOps, Unlink(v))
  <2>1. v \in Files /\ Dead(v.num)
    <3>1. victims \in Seq(Files) /\ victims # <<>>
      BY <1>11 DEF UpgradeUnlink, Linking, Typed
    <3>2. v \in Files /\ v = victims[1] /\ 1 \in DOMAIN victims
      BY <3>1
    <3> QED
      BY <1>11, <3>2 DEF UpgradeUnlink, Linking
  <2> HIDE DEF v
  <2>2. Unlink(v) \in DirOp /\ Unlink(v).op = "unlink" /\ Unlink(v).file = v
    BY <2>1, OpParts
  <2>3. Up /\ Up' /\ UNCHANGED <<runs, nextSst>> /\ dirOps' = <<>>
        /\ dirSafe' = AfterOps(dirSafe, ops)
    BY <1>11 DEF UpgradeUnlink, v, Up
  <2>4. dirOps \in Seq(DirOp) /\ dirSafe \in SUBSET Files
    BY DEF Typed
  <2>5. /\ ops \in Seq(DirOp)
        /\ \A i \in DOMAIN ops : ops[i].op = "unlink" /\ Dead(ops[i].file.num)
    <3>1. \A i \in DOMAIN dirOps : dirOps[i].op = "unlink" /\ Dead(dirOps[i].file.num)
      BY <1>11, <2>3 DEF Numbered, Linking, UpgradeUnlink
    <3> QED
      BY <2>1, <2>2, <2>4, <3>1
  <2> HIDE DEF ops
  <2>6. dirSafe' \subseteq dirSafe /\ DistinctNumbers(dirSafe')
    BY <1>t, <2>3, <2>4, <2>5, AfterOpsIs
  <2>7. \A i \in DOMAIN runs : runs[i] \in dirSafe'
    BY <2>3, <2>4, <2>5, AfterOpsIs DEF Dead, Numbered
  <2> QED
    BY <2>3, <2>6, <2>7 DEF Numbered
<1>12. CASE Crash \/ Close
  <2>1. dirSafe' \in SurvivingDirs /\ ~Up' /\ Up /\ dirOps' = <<>> /\ runs' = <<>>
    BY <1>12, <1>t, DirSurvives DEF Crash, Close, Up
  <2>2. DistinctNumbers(dirSafe') /\ dirSafe' \in SUBSET Files
    BY <1>t, <2>1, CrashedDir
  <2>3. \A f \in dirSafe' : f.num <= nextSst
    BY <1>t, <2>1, RunsSurvive
  <2>4. nextSst + 1 \in Nat /\ \A f \in dirSafe' : f.num < nextSst + 1
    BY <2>2, <2>3, FileType DEF Typed
  <2> QED
    BY <2>1, <2>2, <2>4 DEF Numbered
<1>13. CASE Open
  <2>1. PICK m \in Nat : \A f \in dirSafe : f.num < m
    BY DEF Numbered
  <2>2. runs' \in Listings(dirSafe) /\ nextSst' = NextNumber(dirSafe) /\ dirSafe \in SUBSET Files
        /\ UNCHANGED <<dirSafe, dirOps>> /\ Up' /\ ~Up
    BY <1>13 DEF Open, Up, Typed
  <2>3. /\ \A f \in dirSafe : f.num < nextSst'
        /\ \A i \in DOMAIN runs' : runs'[i] \in dirSafe
        /\ \A i, j \in DOMAIN runs' : i # j => runs'[i].num # runs'[j].num
    BY <1>t, <2>1, <2>2, ListingIs, NextNumberIs
  <2>4. DOMAIN dirOps' = {}
    BY <2>2 DEF Numbered
  <2> QED
    BY <1>t, <2>1, <2>2, <2>3, <2>4 DEF Numbered
<1>14. CASE UNCHANGED vars
  BY <1>14 DEF vars, Numbered, Up, Dead
<1> QED
  BY <1>1, <1>3, <1>4, <1>5, <1>6, <1>7, <1>8, <1>9, <1>10, <1>11, <1>12, <1>13, <1>14,
     QuietSteps

LEMMA LinkingStep ==
  ASSUME DirInv, [Next]_vars
  PROVE  Linking'
<1> USE DEF DirInv, memVars, diskVars
<1>t. Typed /\ Numbered /\ Linking
  OBVIOUS
<1>1. ASSUME NEW b \in Batches, Append_(b)
      PROVE  Linking'
  BY <1>1 DEF Append_, Linking
<1>2. CASE AppendTears
  BY <1>2 DEF AppendTears, Linking
<1>3. CASE SyncFails \/ SyncWal \/ Publish
  BY <1>3 DEF SyncFails, SyncWal, Publish, Linking
<1>4. CASE FlushNotDue \/ CompactNotDue \/ UpgradeBegin \/ UpgradeEnd \/ MaintenanceFails \/ UpgradeFails
  BY <1>4 DEF FlushNotDue, CompactNotDue, UpgradeBegin, UpgradeEnd, MaintenanceFails,
              UpgradeFails, Linking
<1>5. ASSUME NEW f \in Files, f.num = nextSst, f.maxSeq <= committed,
             NEW n \in {"flushed", "merged", "rewritten"}, WriteRun(f, n),
             batch = NoBatch, n = "rewritten" => Legacy # {}
      PROVE  Linking'
  <2>1. Link(f) \in DirOp /\ dirOps \in Seq(DirOp)
    BY OpParts DEF Typed
  <2>2. dirOps' = Append(dirOps, Link(f)) /\ UNCHANGED <<runs, nextSst, committed, batch>>
        /\ run' = f /\ phase' = n
    BY <1>5 DEF WriteRun
  <2>3. dirOps' # <<>> /\ dirOps'[Len(dirOps')] = Link(f)
    BY <2>1, <2>2
  <2>4. Legacy' = Legacy
    BY <2>2 DEF Legacy
  <2> QED
    BY <1>5, <2>2, <2>3, <2>4 DEF Linking
<1>6. CASE FlushWrite
  <2> DEFINE f == File(nextSst, mem, committed, FALSE)
  <2>1. f \in Files /\ f.num = nextSst /\ f.maxSeq = committed
    BY DEF Typed, File, Files
  <2> HIDE DEF f
  <2>2. WriteRun(f, "flushed") /\ batch = NoBatch
    BY <1>6 DEF FlushWrite, f, Linking
  <2>3. f.maxSeq <= committed
    BY <2>1 DEF Typed
  <2> QED
    BY <1>5, <2>1, <2>2, <2>3
<1>7. CASE CompactWrite
  <2> DEFINE M == GcVersions(Merge(RunEntries), RetentionFloor)
             m == GreatestOf({runs[i].maxSeq : i \in DOMAIN runs})
             f == File(nextSst, M, m, FALSE)
  <2>1. Len(runs) > CompactionTrigger /\ Up /\ batch = NoBatch
    BY <1>7 DEF CompactWrite, Up, Linking
  <2>2. M \in SUBSET Entry /\ m \in Nat /\ m <= committed
    BY <1>t, <2>1, MergedRun
  <2>3. WriteRun(f, "merged")
    BY <1>7 DEF CompactWrite
  <2> HIDE DEF M, m
  <2>4. f \in Files /\ f.num = nextSst /\ f.maxSeq <= committed
    BY <2>2 DEF Typed, File, Files
  <2> HIDE DEF f
  <2> QED
    BY <1>5, <2>1, <2>3, <2>4
<1>8. CASE UpgradeWrite
  <2> DEFINE i == CHOOSE i \in Legacy : \A j \in Legacy : i <= j
             old == runs[i]
             f == File(nextSst, old.entries, old.maxSeq, FALSE)
  <2>1. Legacy # {} /\ Up /\ batch = NoBatch
    BY <1>8 DEF UpgradeWrite, Up, Linking
  <2>2. i \in DOMAIN runs
    BY <1>t, <2>1, LegacyLeast
  <2>3. WriteRun(f, "rewritten")
    BY <1>8 DEF UpgradeWrite
  <2> HIDE DEF i
  <2>4. old \in Files /\ old.maxSeq <= committed
    BY <2>1, <2>2 DEF Typed, Numbered
  <2> HIDE DEF old
  <2>5. f \in Files /\ f.num = nextSst /\ f.maxSeq <= committed
    BY <2>4 DEF Typed, File, Files
  <2> HIDE DEF f
  <2> QED
    BY <1>5, <2>1, <2>3, <2>5
<1>9. CASE FlushSwap
  BY <1>9 DEF FlushSwap, SyncDir, Linking
<1>10. \A i \in DOMAIN runs : Up => /\ runs[i].num \in Nat /\ runs[i].num < nextSst
                                    /\ runs[i].maxSeq <= committed
  BY FileType DEF Typed, Numbered
<1>11. CASE CompactSwap
  <2>1. Up /\ run.num = nextSst /\ nextSst \in Nat /\ nextSst' = nextSst + 1 /\ runs' = <<run>>
    BY <1>11 DEF CompactSwap, Linking, Up, Typed
  <2>2. victims' = Reverse(runs) /\ runs \in Seq(Files)
    BY <1>11 DEF CompactSwap, Typed
  <2>3. \A j \in DOMAIN runs' : runs'[j].num = nextSst
    BY <2>1
  <2>4. ASSUME NEW j \in DOMAIN victims'
        PROVE  victims'[j].num < nextSst' /\ victims'[j].maxSeq <= committed
               /\ \A l \in DOMAIN runs' : runs'[l].num # victims'[j].num
    <3>1. \E l \in DOMAIN runs : victims'[j] = runs[l]
      <4>1. Len(runs) \in Nat /\ DOMAIN runs = 1..Len(runs)
        BY <2>2
      <4>2. DOMAIN victims' = 1..Len(runs) /\ victims'[j] = runs[(Len(runs) - j) + 1]
        BY <2>2, <4>1 DEF Reverse
      <4>3. (Len(runs) - j) + 1 \in DOMAIN runs
        BY <4>1, <4>2
      <4> QED
        BY <4>2, <4>3
    <3> QED
      BY <1>10, <2>1, <2>3, <3>1
  <2> QED
    BY <1>11, <2>4 DEF CompactSwap, SyncDir, Linking, Dead
<1>12. CASE UpgradeSwap
  <2> DEFINE i == CHOOSE i \in Legacy : \A j \in Legacy : i <= j
  <2>1. i \in DOMAIN runs
    BY <1>12, <1>t, LegacyLeast DEF UpgradeSwap, Linking
  <2>2. runs' = [runs EXCEPT ![i] = run] /\ victims' = <<runs[i]>>
    BY <1>12 DEF UpgradeSwap
  <2> HIDE DEF i
  <2>3. Up /\ run.num = nextSst /\ nextSst \in Nat /\ nextSst' = nextSst + 1
    BY <1>12 DEF UpgradeSwap, Linking, Up, Typed
  <2>4. /\ DOMAIN runs' = DOMAIN runs /\ runs'[i] = run
        /\ \A j \in DOMAIN runs : j # i => runs'[j] = runs[j]
    BY <2>1, <2>2, ExceptSeq DEF Typed
  <2>5. \A j \in DOMAIN runs' : runs'[j].num # runs[i].num
    BY <1>10, <2>1, <2>3, <2>4 DEF Numbered
  <2>6. runs[i].num < nextSst' /\ runs[i].maxSeq <= committed
    BY <1>10, <2>1, <2>3
  <2>7. \A j \in DOMAIN victims' : victims'[j] = runs[i]
    BY <2>2
  <2>8. victims' # <<>>
    BY <2>2
  <2>9. dirOps' = <<>> /\ phase' = "replaced" /\ UNCHANGED <<batch, committed>> /\ batch = NoBatch
    BY <1>12 DEF UpgradeSwap, SyncDir, Linking
  <2>10. \A j \in DOMAIN victims' :
            /\ victims'[j].num < nextSst' /\ victims'[j].maxSeq <= committed'
            /\ \A l \in DOMAIN runs' : runs'[l].num # victims'[j].num
    BY <2>5, <2>6, <2>7, <2>9
  <2> QED
    BY <2>8, <2>9, <2>10 DEF Linking, Dead
<1>13. CASE CutLog \/ CutSync \/ UnlinkDone
  BY <1>13 DEF CutLog, CutSync, UnlinkDone, SyncDir, Linking
<1>14. CASE UnlinkOne
  <2> DEFINE v == Head(victims)
  <2>1. victims \in Seq(Files) /\ victims # <<>> /\ dirOps \in Seq(DirOp)
    BY <1>14 DEF UnlinkOne, Typed
  <2>2. v \in Files
    BY <2>1
  <2> HIDE DEF v
  <2>3. Unlink(v) \in DirOp /\ Unlink(v).op = "unlink"
    BY <2>2, OpParts
  <2>4. dirOps' = Append(dirOps, Unlink(v)) /\ victims' = Tail(victims) /\ phase' = phase
        /\ phase = "unlinking" /\ UNCHANGED <<runs, nextSst, batch, committed>>
    BY <1>14 DEF UnlinkOne, v
  <2>5. \A i \in DOMAIN dirOps' : dirOps'[i].op = "unlink"
    BY <2>1, <2>3, <2>4 DEF Linking
  <2>6. \A i \in DOMAIN victims' : \E j \in DOMAIN victims : victims'[i] = victims[j]
    BY <2>1, <2>4
  <2>7. \A i \in DOMAIN victims' :
            /\ victims'[i].num < nextSst' /\ victims'[i].maxSeq <= committed'
            /\ \A l \in DOMAIN runs' : runs'[l].num # victims'[i].num
    BY <2>4, <2>6 DEF Linking, Dead
  <2>8. batch' = NoBatch
    BY <2>4 DEF Linking
  <2> QED
    BY <2>4, <2>5, <2>7, <2>8 DEF Linking, Dead
<1>15. CASE UpgradeUnlink
  BY <1>15 DEF UpgradeUnlink, Linking
<1>16. CASE Crash \/ Close \/ Open
  BY <1>16 DEF Crash, Close, Open, Linking
<1>17. CASE UNCHANGED vars
  BY <1>17 DEF vars, Linking, Dead, Legacy
<1> QED
  BY <1>1, <1>2, <1>3, <1>4, <1>6, <1>7, <1>8, <1>9, <1>11, <1>12, <1>13, <1>14, <1>15,
     <1>16, <1>17
     DEF Next, CommitStep, FlushStep, CompactStep, UpgradeStep

LEMMA StoreIs ==
  ASSUME Init
  PROVE  /\ Whole(runs) /\ runs \in Seq(Files)
         /\ dirSafe = {runs[i] : i \in DOMAIN runs} /\ dirSafe \in SUBSET Files
         /\ log = Entries(dirSafe) /\ log \in SUBSET Entry
<1>1. Whole(runs) /\ runs \in Seq(Files)
  BY StoresAssumption DEF Init, Whole
<1>2. \A i \in DOMAIN runs : runs[i] \in Files
  BY <1>1
<1>3. \A i \in DOMAIN runs : runs[i].entries \in SUBSET Entry
  BY <1>2, FileType
<1> QED
  BY <1>1, <1>2, <1>3 DEF Init, Entries

LEMMA OldestNumbers ==
  ASSUME Init
  PROVE  /\ \A i, j \in DOMAIN runs : i < j => runs[i].num < runs[j].num
         /\ \A i, j \in DOMAIN runs : i # j => runs[i].num # runs[j].num
         /\ \A i, j \in DOMAIN runs : i < j => runs[i].maxSeq < runs[j].maxSeq
         /\ runs # <<>> => \A i \in DOMAIN runs : /\ runs[i].maxSeq <= runs[Len(runs)].maxSeq
                                                  /\ runs[i].num <= runs[Len(runs)].num
<1>1. runs \in Seq(Files) /\ Whole(runs)
  BY StoreIs
<1>2. \A i \in DOMAIN runs : runs[i] \in Files /\ i \in Nat
  BY <1>1
<1>3. \A i \in DOMAIN runs : runs[i].num \in Nat /\ runs[i].maxSeq \in Nat
                             /\ runs[i].entries \in SUBSET Entry
  BY <1>2, FileType
<1>4. \A i, j \in DOMAIN runs : i < j => runs[i].num < runs[j].num
  BY <1>1 DEF Whole
<1>5. \A i, j \in DOMAIN runs : i # j => runs[i].num # runs[j].num
  <2> SUFFICES ASSUME NEW i \in DOMAIN runs, NEW j \in DOMAIN runs, i # j
               PROVE  runs[i].num # runs[j].num
    OBVIOUS
  <2>1. i < j \/ j < i
    BY <1>2
  <2> QED
    BY <1>3, <1>4, <2>1
<1>6. ASSUME NEW i \in DOMAIN runs, NEW j \in DOMAIN runs, i < j
      PROVE  runs[i].maxSeq < runs[j].maxSeq
  <2>1. PICK e \in runs[i].entries : e.seq = runs[i].maxSeq
    BY <1>1 DEF Whole
  <2>2. PICK f \in runs[j].entries : f.seq = runs[j].maxSeq
    BY <1>1 DEF Whole
  <2> QED
    BY <1>1, <1>6, <2>1, <2>2 DEF Whole
<1>7. ASSUME runs # <<>>, NEW i \in DOMAIN runs
      PROVE  /\ runs[i].maxSeq <= runs[Len(runs)].maxSeq
             /\ runs[i].num <= runs[Len(runs)].num
  <2>1. Len(runs) \in DOMAIN runs /\ (i = Len(runs) \/ i < Len(runs))
    BY <1>1, <1>7
  <2>2. CASE i = Len(runs)
    BY <1>3, <2>1, <2>2
  <2>3. CASE i < Len(runs)
    BY <1>3, <1>4, <1>6, <2>1, <2>3
  <2> QED
    BY <2>1, <2>2, <2>3
<1> QED
  BY <1>4, <1>5, <1>6, <1>7

LEMMA DirInit == Init => DirInv
<1> SUFFICES ASSUME Init PROVE DirInv
  OBVIOUS
<1>1. /\ runs \in Seq(Files) /\ dirSafe \in SUBSET Files /\ log \in SUBSET Entry
      /\ dirSafe = {runs[i] : i \in DOMAIN runs}
  BY StoreIs
<1>2. \A i, j \in DOMAIN runs : i # j => runs[i].num # runs[j].num
  BY OldestNumbers
<1>3. \E n \in Nat : \A f \in dirSafe : f.num < n
  <2>1. CASE runs = <<>>
    BY <1>1, <2>1
  <2>2. CASE runs # <<>>
    <3>1. \A i \in DOMAIN runs : runs[i].num <= runs[Len(runs)].num /\ runs[i].num \in Nat
      BY <1>1, <2>2, OldestNumbers, FileType
    <3>2. Len(runs) \in DOMAIN runs
      BY <1>1, <2>2
    <3>3. runs[Len(runs)].num + 1 \in Nat
          /\ \A f \in dirSafe : f.num < runs[Len(runs)].num + 1
      BY <1>1, <3>1, <3>2
    <3> QED
      BY <3>3
  <2> QED
    BY <2>1, <2>2
<1>4. \E n \in Nat : \A f \in dirSafe : f.maxSeq <= n
  <2>1. CASE runs = <<>>
    BY <1>1, <2>1
  <2>2. CASE runs # <<>>
    <3>1. \A i \in DOMAIN runs : runs[i].maxSeq <= runs[Len(runs)].maxSeq
                                 /\ runs[i].maxSeq \in Nat
      BY <1>1, <2>2, OldestNumbers, FileType
    <3>2. Len(runs) \in DOMAIN runs
      BY <1>1, <2>2
    <3> QED
      BY <1>1, <3>1, <3>2
  <2> QED
    BY <2>1, <2>2
<1>5. committed \in Nat /\ \A f \in dirSafe : f.maxSeq <= committed
  <2>1. PICK n \in Nat : \A f \in dirSafe : f.maxSeq <= n
    BY <1>4
  <2> DEFINE S == {0} \cup {f.maxSeq : f \in dirSafe}
  <2>2. S \in SUBSET Nat /\ S # {} /\ \A x \in S : x <= n
    BY <1>1, <2>1, FileType
  <2>3. GreatestOf(S) \in Nat /\ \A x \in S : x <= GreatestOf(S)
    BY <2>2, GreatestIs
  <2>4. committed = GreatestOf(S)
    BY DEF Init
  <2> HIDE DEF S
  <2>5. \A f \in dirSafe : f.maxSeq \in S
    BY DEF S
  <2> QED
    BY <2>3, <2>4, <2>5
<1>6. nextSst \in Nat /\ \A f \in dirSafe : f.num < nextSst
  BY <1>1, <1>3, NextNumberIs DEF Init
<1>7. Typed
  <2>1. wal \in Seq(Records) /\ walSafe \in Seq(Records) /\ dirOps \in Seq(DirOp)
        /\ victims \in Seq(Files) /\ mem \in SUBSET Entry /\ run \in Files
        /\ batch \in Batches \cup {NoBatch} /\ reclaimed \in Nat /\ phase \in Phases
        /\ retain \in Nat
    BY NoRunIsFile, RecoveryAssumption DEF Init, Phases
  <2>2. wal = <<>> /\ walSafe = <<>> /\ dirOps = <<>>
    BY DEF Init
  <2> QED
    BY <1>1, <1>5, <1>6, <2>1, <2>2 DEF Typed
<1>8. Numbered
  <2>1. DistinctNumbers(dirSafe)
    BY <1>1, <1>2 DEF DistinctNumbers
  <2>2. Up /\ DOMAIN dirOps = {}
    BY DEF Init, Up
  <2>3. \A i \in DOMAIN runs : runs[i] \in dirSafe
    BY <1>1
  <2> QED
    BY <1>2, <1>3, <1>6, <2>1, <2>2, <2>3 DEF Numbered
<1>9. Linking
  BY DEF Init, Linking
<1> QED
  BY <1>7, <1>8, <1>9 DEF DirInv

LEMMA DirInvariant == Spec => []DirInv
<1>1. DirInv /\ [Next]_vars => DirInv'
  BY TypedStep, NumberedStep, LinkingStep DEF DirInv
<1> QED
  BY DirInit, <1>1, PTL DEF Spec

(* Wherever the process stops, and whichever I/O fails: every run the engine *)
(* reads from (Store.ssts) is a file of its own that maybe_flush,            *)
(* maybe_compact and upgrade_runs neither overwrite nor remove.              *)
THEOREM LiveFilesAreKept == Spec => []RunsOnDisk
<1>1. DirInv => RunsOnDisk
  <2> SUFFICES ASSUME DirInv, Up PROVE RunsOnDisk
    BY DEF RunsOnDisk, Up
  <2>1. Typed /\ Numbered
    BY DEF DirInv
  <2>2. \A i \in DOMAIN runs : runs[i] \in Dir
    BY <2>1, DirSurvives, RunsSurvive
  <2> QED
    BY <2>1, <2>2 DEF RunsOnDisk, Numbered
<1> QED
  BY DirInvariant, <1>1, PTL

-------------------------------------------------------------------------------
(* Reads of sources that may overlap.                                        *)

LEMMA CoverHides ==
  ASSUME NEW T \in SUBSET Entry, NEW S \in SUBSET Entry, NEW floor \in Nat,
         Covers(T, S, floor), NEW k, NEW s \in Nat, floor <= s,
         NEW e, IsNewest(T, k, s, e), NEW f \in Visible(S, k, s)
  PROVE  f.seq <= e.seq
<1>1. e \in T /\ e \in Entry /\ e.key = k /\ e.seq \in Nat
  BY DEF IsNewest, Visible, Entry
<1>2. f \in S /\ f \in Entry /\ f.key = k /\ f.seq \in Nat /\ f.seq <= s
  BY DEF Visible, Entry
<1> SUFFICES ASSUME e.seq < f.seq PROVE FALSE
  BY <1>1, <1>2
<1>3. CASE f \in T
  <2>1. f \in Visible(T, k, s)
    BY <1>2, <1>3 DEF Visible
  <2> QED
    BY <1>1, <1>2, <2>1 DEF IsNewest
<1>4. ASSUME NEW g \in T, g.key = f.key, f.seq < g.seq, g.seq <= floor
      PROVE  FALSE
  <2>1. g.seq \in Nat
    BY DEF Entry
  <2>2. g \in Visible(T, k, s)
    BY <1>2, <1>4, <2>1 DEF Visible
  <2> QED
    BY <1>1, <1>2, <1>4, <2>1, <2>2 DEF IsNewest
<1> QED
  BY <1>1, <1>2, <1>3, <1>4 DEF Covers

(* committed_get over sources each of which covers the ones read after it.   *)
LEMMA GetReadsCovered ==
  ASSUME NEW M \in SUBSET Entry, NEW ssts \in Seq(SUBSET Entry), NEW floor \in Nat,
         \A i, j \in DOMAIN ssts : i < j => Covers(ssts[j], ssts[i], floor),
         \A i \in DOMAIN ssts : Covers(M, ssts[i], floor),
         Unique(M \cup Runs(ssts)), NEW k, NEW s \in Nat, floor <= s
  PROVE  CommittedGet(M, ssts, k, s) = Resolve(M \cup Runs(ssts), k, s)
<1> DEFINE hits == {i \in DOMAIN ssts : Visible(ssts[i], k, s) # {}}
           C == M \cup Runs(ssts)
<1>0. \A i \in DOMAIN ssts : ssts[i] \in SUBSET Entry /\ i \in Nat
  OBVIOUS
<1>1. C \in SUBSET Entry /\ Runs(ssts) \in SUBSET Entry
  BY <1>0 DEF Runs
<1>2. Unique(M) /\ Unique(Runs(ssts)) /\ \A i \in DOMAIN ssts : Unique(ssts[i])
  BY DEF Unique, Runs
<1>3. CASE Visible(M, k, s) # {}
  <2>1. PICK e : IsNewest(M, k, s, e)
    BY <1>3, NewestExists
  <2>2. ASSUME NEW f \in Visible(C, k, s) PROVE f.seq <= e.seq
    <3>1. CASE f \in M
      BY <2>1, <3>1 DEF IsNewest, Visible
    <3>2. ASSUME NEW i \in DOMAIN ssts, f \in ssts[i] PROVE f.seq <= e.seq
      <4>1. f \in Visible(ssts[i], k, s)
        BY <3>2 DEF Visible
      <4> QED
        BY <1>0, <2>1, <4>1, CoverHides
    <3> QED
      BY <3>1, <3>2 DEF Visible, Runs
  <2>3. IsNewest(C, k, s, e)
    BY <2>1, <2>2 DEF IsNewest, Visible
  <2>4. Resolve(C, k, s) = e.op
    BY <1>1, <2>3, ResolveIs
  <2>5. Resolve(M, k, s) = e.op
    BY <1>2, <2>1, ResolveIs
  <2> QED
    BY <1>3, <2>4, <2>5 DEF CommittedGet
<1>4. CASE Visible(M, k, s) = {} /\ hits = {}
  <2>1. Visible(C, k, s) = {}
    BY <1>4 DEF Visible, Runs
  <2> QED
    BY <1>4, <2>1 DEF CommittedGet, Resolve
<1>5. CASE Visible(M, k, s) = {} /\ hits # {}
  <2> DEFINE l == Largest(hits)
  <2>1. hits \in SUBSET Nat /\ Len(ssts) \in Nat /\ \A i \in hits : i <= Len(ssts)
    OBVIOUS
  <2>2. \E x \in hits : \A y \in hits : y <= x
    BY <1>5, <2>1, GreatestExists
  <2>3. l \in hits /\ \A y \in hits : y <= l
    BY <2>2 DEF Largest
  <2>4. CommittedGet(M, ssts, k, s) = Resolve(ssts[l], k, s)
    BY <1>5 DEF CommittedGet
  <2> HIDE DEF l
  <2>5. l \in DOMAIN ssts /\ ssts[l] \in SUBSET Entry /\ Visible(ssts[l], k, s) # {}
    BY <1>0, <2>3
  <2>6. PICK e : IsNewest(ssts[l], k, s, e)
    BY <2>5, NewestExists
  <2>7. ASSUME NEW f \in Visible(C, k, s) PROVE f.seq <= e.seq
    <3>1. f \in Visible(Runs(ssts), k, s)
      BY <1>5 DEF Visible
    <3>2. PICK i \in DOMAIN ssts : f \in ssts[i]
      BY <3>1 DEF Visible, Runs
    <3>3. f \in Visible(ssts[i], k, s) /\ i \in hits
      BY <3>1, <3>2 DEF Visible
    <3>4. i = l \/ i < l
      BY <1>0, <2>3, <2>5, <3>3
    <3>5. CASE i = l
      BY <2>6, <3>3, <3>5 DEF IsNewest
    <3>6. CASE i < l
      BY <1>0, <2>5, <2>6, <3>3, <3>6, CoverHides
    <3> QED
      BY <3>4, <3>5, <3>6
  <2>8. IsNewest(C, k, s, e)
    BY <2>5, <2>6, <2>7 DEF IsNewest, Visible, Runs
  <2>9. Resolve(C, k, s) = e.op
    BY <1>1, <2>8, ResolveIs
  <2>10. Resolve(ssts[l], k, s) = e.op
    BY <1>2, <2>5, <2>6, ResolveIs
  <2> QED
    BY <2>4, <2>9, <2>10
<1> QED
  BY <1>3, <1>4, <1>5

LEMMA FaithfulAbove ==
  ASSUME NEW X, NEW L, NEW m \in Nat, NEW n \in Nat, m <= n, Faithful(X, L, m)
  PROVE  Faithful(X, L, n)
<1> SUFFICES ASSUME NEW k \in Keys, NEW s \in Nat, s >= n
             PROVE  Resolve(X, k, s) = Resolve(L, k, s)
  BY DEF Faithful
<1>1. s >= m
  OBVIOUS
<1> QED
  BY <1>1 DEF Faithful

(* Versions that nothing of L is newer than may be added on both sides.      *)
LEMMA FaithfulWith ==
  ASSUME NEW L \in SUBSET Entry, NEW S \in SUBSET L, NEW X \in SUBSET Entry,
         Unique(L \cup X), NEW floor \in Nat, Faithful(S, L, floor),
         \A x \in X, e \in L : e.key = x.key /\ x.seq < e.seq => e \in X
  PROVE  Faithful(S \cup X, L \cup X, floor)
<1> SUFFICES ASSUME NEW k \in Keys, NEW s \in Nat, s >= floor
             PROVE  Resolve(S \cup X, k, s) = Resolve(L \cup X, k, s)
  BY DEF Faithful
<1>1. Resolve(S, k, s) = Resolve(L, k, s)
  BY DEF Faithful
<1>2. CASE Visible(X, k, s) = {}
  <2>1. Resolve(X \cup S, k, s) = Resolve(S, k, s) /\ Resolve(X \cup L, k, s) = Resolve(L, k, s)
    BY <1>2, ResolveBeneath
  <2>2. X \cup S = S \cup X /\ X \cup L = L \cup X
    OBVIOUS
  <2> QED
    BY <1>1, <2>1, <2>2
<1>3. CASE Visible(X, k, s) # {}
  <2>1. PICK x : IsNewest(X, k, s, x)
    BY <1>3, NewestExists
  <2>2. ASSUME NEW e \in Visible(L \cup X, k, s) PROVE e.seq <= x.seq
    <3>1. CASE e \in X
      BY <2>1, <3>1 DEF IsNewest, Visible
    <3>2. CASE e \in L /\ e \notin X
      BY <2>1, <3>2 DEF IsNewest, Visible, Entry
    <3> QED
      BY <3>1, <3>2 DEF Visible
  <2>3. IsNewest(L \cup X, k, s, x) /\ IsNewest(S \cup X, k, s, x)
    BY <2>1, <2>2 DEF IsNewest, Visible
  <2>4. Unique(S \cup X)
    BY DEF Unique
  <2> QED
    BY <2>3, <2>4, ResolveIs
<1> QED
  BY <1>2, <1>3

(* gc_versions: the compacted run may be read before any of its inputs.      *)
LEMMA CompactedCovers ==
  ASSUME NEW M \in SUBSET Entry, NEW S \in SUBSET M, NEW fl \in Nat, NEW floor
  PROVE  Covers(GcVersions(M, fl), S, floor)
<1> DEFINE kept == KeptVersions(M, fl)
<1> SUFFICES ASSUME NEW e \in S, NEW g \in GcVersions(M, fl), e.key = g.key, g.seq < e.seq
             PROVE  e \in GcVersions(M, fl)
  BY DEF Covers
<1>1. g \in kept /\ g \in M
  BY DEF GcVersions, KeptVersions
<1>2. e.seq \in Nat /\ g.seq \in Nat
  BY <1>1 DEF Entry
<1>3. e \in kept
  <2> SUFFICES ASSUME NEW h \in M, h.key = e.key, h.seq > e.seq, h.seq <= fl
               PROVE  FALSE
    BY DEF KeptVersions
  <2>1. h.seq \in Nat /\ h.seq > g.seq
    BY <1>2 DEF Entry
  <2> QED
    BY <1>1, <2>1 DEF KeptVersions
<1>4. ~LoneTombstone(kept, fl, e)
  BY <1>1, <1>2 DEF LoneTombstone
<1> QED
  BY <1>3, <1>4 DEF GcVersions

(* A floor of zero reclaims nothing.                                         *)
LEMMA NothingReclaimed ==
  ASSUME NEW M \in SUBSET Entry, \A e \in M : e.seq > 0
  PROVE  GcVersions(M, 0) = M
<1>1. \A e \in M : e.seq \in Nat
  BY DEF Entry
<1>2. KeptVersions(M, 0) = M
  BY <1>1 DEF KeptVersions
<1> QED
  BY <1>1, <1>2 DEF GcVersions, LoneTombstone

LEMMA OrderedShrinks ==
  ASSUME NEW D \in SUBSET Files, NEW E \in SUBSET D, NEW m \in Nat, NEW n \in Nat, m <= n,
         Ordered(D, m)
  PROVE  Ordered(E, n)
<1> SUFFICES ASSUME NEW f \in E, NEW g \in E, f.maxSeq <= g.maxSeq
             PROVE  Covers(g.entries, f.entries, n)
  BY DEF Ordered
<1>1. Covers(g.entries, f.entries, m)
  BY DEF Ordered
<1>2. \A h \in g.entries : h.seq \in Nat
  BY FileType DEF Entry
<1> QED
  BY <1>1, <1>2 DEF Covers

(* One more file, newer than the others.                                     *)
LEMMA OrderedWith ==
  ASSUME NEW D \in SUBSET Files, NEW f \in Files, NEW floor \in Nat, Ordered(D, floor),
         \A g \in D : /\ g.maxSeq <= f.maxSeq
                      /\ Covers(f.entries, g.entries, floor)
                      /\ g.maxSeq = f.maxSeq => Covers(g.entries, f.entries, floor)
  PROVE  Ordered(D \cup {f}, floor)
<1> SUFFICES ASSUME NEW g \in D \cup {f}, NEW h \in D \cup {f}, g.maxSeq <= h.maxSeq
             PROVE  Covers(h.entries, g.entries, floor)
  BY DEF Ordered
<1>0. g.maxSeq \in Nat /\ h.maxSeq \in Nat
  BY FileType
<1>1. CASE g \in D /\ h \in D
  BY <1>1 DEF Ordered
<1>2. CASE g \in D /\ h = f
  BY <1>2
<1>3. CASE g = f /\ h \in D
  BY <1>0, <1>3
<1>4. CASE g = f /\ h = f
  BY <1>4 DEF Covers
<1> QED
  BY <1>1, <1>2, <1>3, <1>4

-------------------------------------------------------------------------------
(* The log.                                                                  *)

LEMMA PrefixElements ==
  ASSUME NEW S, NEW s \in Seq(S), NEW t \in Seq(S), IsPrefix(s, t)
  PROVE  Len(s) <= Len(t) /\ \A i \in DOMAIN s : i \in DOMAIN t /\ t[i] = s[i]
<1>1. Len(s) <= Len(t) /\ SubSeq(s, 1, Len(s)) = SubSeq(t, 1, Len(s))
  BY DEF IsPrefix
<1>2. Len(s) \in 0..Len(t) /\ Len(s) \in 0..Len(s) /\ DOMAIN s = 1..Len(s)
  BY <1>1
<1>3. \A i \in 1..Len(s) : /\ i \in DOMAIN t /\ SubSeq(t, 1, Len(s))[i] = t[i]
                           /\ SubSeq(s, 1, Len(s))[i] = s[i]
  BY <1>2, PrefixIs
<1> QED
  BY <1>1, <1>2, <1>3

LEMMA ElementsPrefix ==
  ASSUME NEW S, NEW s \in Seq(S), NEW t \in Seq(S), Len(s) <= Len(t),
         \A i \in 1..Len(s) : t[i] = s[i]
  PROVE  IsPrefix(s, t)
<1> DEFINE p == SubSeq(s, 1, Len(s))
           q == SubSeq(t, 1, Len(s))
<1>1. Len(s) \in 0..Len(t) /\ Len(s) \in 0..Len(s)
  OBVIOUS
<1>2. p \in Seq(S) /\ Len(p) = Len(s) /\ \A i \in 1..Len(s) : p[i] = s[i]
  BY <1>1, PrefixIs
<1>3. q \in Seq(S) /\ Len(q) = Len(s) /\ \A i \in 1..Len(s) : q[i] = t[i]
  BY <1>1, PrefixIs
<1> HIDE DEF p, q
<1>4. p = q
  BY <1>2, <1>3, SeqEqual
<1> QED
  BY <1>4 DEF IsPrefix, p, q

LEMMA PrefixOfAppend ==
  ASSUME NEW S, NEW s \in Seq(S), NEW t \in Seq(S), NEW x \in S, IsPrefix(s, t)
  PROVE  IsPrefix(s, Append(t, x))
<1>1. Len(s) <= Len(t) /\ \A i \in DOMAIN s : i \in DOMAIN t /\ t[i] = s[i]
  BY PrefixElements
<1>2. Append(t, x) \in Seq(S) /\ Len(Append(t, x)) = Len(t) + 1
      /\ \A i \in 1..Len(t) : Append(t, x)[i] = t[i]
  BY AppendProperties
<1>3. Len(s) <= Len(Append(t, x)) /\ \A i \in 1..Len(s) : Append(t, x)[i] = s[i]
  BY <1>1, <1>2
<1> QED
  BY <1>2, <1>3, ElementsPrefix

LEMMA PrefixHolds ==
  ASSUME NEW s \in Seq(Records), NEW t \in Seq(Records), IsPrefix(s, t)
  PROVE  OpsOf(s) \subseteq OpsOf(t)
<1>1. \A i \in DOMAIN s : i \in DOMAIN t /\ t[i] = s[i]
  BY PrefixElements
<1> QED
  BY <1>1 DEF OpsOf

(* The synced log takes over what the log holds.                             *)
LEMMA SyncLogged ==
  ASSUME Typed, NEW a \in Nat, NEW bw \in Nat, NEW bs \in Nat, Logged(a, bw, bs),
         walSafe' = wal, UNCHANGED <<mem, log, wal, runs>>
  PROVE  Logged(a, bw, bw)'
<1>1. wal \in Seq(Records) /\ walSafe \in Seq(Records)
  BY DEF Typed
<1>2. Since(bw) \subseteq OpsOf(wal)
  BY <1>1, PrefixHolds DEF Logged
<1>3. IsPrefix(wal, wal)
  BY <1>1, ElementsPrefix
<1>4. Since(bw)' = Since(bw) /\ OpsOf(walSafe)' = OpsOf(wal) /\ Live' = Live /\ Since(a)' = Since(a)
  BY DEF Since, OpsOf, Live
<1> QED
  BY <1>2, <1>3, <1>4 DEF Logged, BackTo

(* A record, or a torn one, at the end.                                      *)
LEMMA AppendLogged ==
  ASSUME Typed, NEW a \in 0..committed, NEW bw \in 0..committed, NEW bs \in 0..committed,
         Logged(a, bw, bs), NEW r \in Records, r = Torn \/ r.seq = committed + 1,
         wal' = Append(wal, r), UNCHANGED <<mem, log, walSafe, runs>>
  PROVE  Logged(a, bw, bs)'
<1>1. wal \in Seq(Records) /\ walSafe \in Seq(Records) /\ committed \in Nat
  BY DEF Typed
<1>2. BackTo(wal', bw)
  BY <1>1 DEF Logged, BackTo
<1>3. IsPrefix(walSafe, wal) => IsPrefix(walSafe, wal')
  BY <1>1, PrefixOfAppend
<1>4. Since(bw)' = Since(bw) /\ Since(bs)' = Since(bs) /\ Since(a)' = Since(a) /\ Live' = Live
      /\ OpsOf(walSafe)' = OpsOf(walSafe)
  BY DEF Since, Live, OpsOf
<1> QED
  BY <1>2, <1>3, <1>4 DEF Logged, BackTo

(* The steps that leave the log, the memtable and the runs alone.            *)
LogQuiet ==
    /\ UNCHANGED <<mem, runs, committed, wal, walSafe, log>>
    /\ phase' \notin {"appended", "synced"}

LEMMA LogQuietSteps ==
  ASSUME Next, Up, Up'
  PROVE  \/ LogQuiet
         \/ (\E b \in Batches : Append_(b)) \/ AppendTears \/ SyncWal \/ Publish
         \/ FlushSwap \/ CompactSwap \/ UpgradeSwap \/ CutLog \/ CutSync
<1> USE DEF LogQuiet, Up, memVars, diskVars, ghosts
<1>1. CASE CommitStep
  BY <1>1 DEF CommitStep, SyncFails
<1>2. CASE FlushStep
  BY <1>2 DEF FlushStep, FlushNotDue, FlushWrite, WriteRun
<1>3. CASE CompactStep
  BY <1>3 DEF CompactStep, CompactNotDue, CompactWrite, WriteRun, UnlinkOne, UnlinkDone
<1>4. CASE UpgradeStep
  <2>1. CASE UpgradeWrite
    <3>1. UNCHANGED <<memVars, wal, walSafe, log>> /\ phase' = "rewritten"
      BY <2>1 DEF UpgradeWrite, WriteRun
    <3> QED
      BY <3>1
  <2>2. CASE UpgradeBegin \/ UpgradeUnlink \/ UpgradeFails \/ UpgradeEnd
    BY <2>2 DEF UpgradeBegin, UpgradeUnlink, UpgradeFails, UpgradeEnd
  <2> QED
    BY <1>4, <2>1, <2>2 DEF UpgradeStep
<1>5. CASE MaintenanceFails
  BY <1>5 DEF MaintenanceFails
<1>6. CASE Crash \/ Close \/ Open
  BY <1>6 DEF Crash, Close, Open
<1> QED
  BY <1>1, <1>2, <1>3, <1>4, <1>5, <1>6 DEF Next

(* Runs replaced by ones as new keep a cut log justified.                    *)
LEMMA RunsLogged ==
  ASSUME NEW a, NEW bw, NEW bs, Logged(a, bw, bs), NEW c,
         UNCHANGED <<log, wal, walSafe>>,
         bw <= c, bs <= c, mem' = Since(c),
         \A b \in {bw, bs} : (\E f \in Live : b <= f.maxSeq) => \E f \in Live' : b <= f.maxSeq
  PROVE  Logged(c, bw, bs)'
<1>1. Since(bw)' = Since(bw) /\ Since(bs)' = Since(bs) /\ Since(c)' = Since(c)
      /\ OpsOf(walSafe)' = OpsOf(walSafe)
  BY DEF Since, OpsOf
<1> QED
  BY <1>1 DEF Logged, BackTo

LEMMA SinceNow ==
  ASSUME Typed, History
  PROVE  Since(committed) = {}
<1>1. \A e \in log : e.seq \in Nat /\ e.seq <= committed
  BY DEF Typed, Entry, History
<1> QED
  BY <1>1 DEF Since, Typed

(* What Publish adds.                                                        *)
LEMMA PublishAdds ==
  ASSUME Inv, Publish
  PROVE  LET St == Stamp(batch, committed + 1) IN
         /\ St \in SUBSET Entry /\ St # {} /\ \A e \in St : e.seq = committed + 1
         /\ log' = log \cup St /\ mem' = mem \cup St /\ committed' = committed + 1
         /\ Unique(log \cup St)
         /\ \A b \in 0..committed : Since(b)' = Since(b) \cup St
<1> DEFINE St == Stamp(batch, committed + 1)
<1>1. batch \in Batches /\ committed + 1 \in Nat /\ committed \in Nat /\ log \in SUBSET Entry
  BY DEF Inv, DirInv, Linking, Typed, Publish
<1>2. St \in SUBSET Entry /\ St # {} /\ \A e \in St : e.seq = committed + 1
  BY <1>1, StampIsEntries
<1>3. log' = log \cup St /\ mem' = mem \cup St /\ committed' = committed + 1
  BY DEF Publish
<1>4. \A e, f \in St : e.key = f.key => e = f
  BY DEF Stamp
<1> HIDE DEF St
<1>5. \A e \in log : e.seq \in Nat /\ e.seq <= committed
  BY <1>1 DEF Inv, History, Entry
<1>6. Unique(log \cup St)
  BY <1>1, <1>2, <1>4, <1>5 DEF Inv, History, Unique
<1>7. ASSUME NEW b \in 0..committed PROVE Since(b)' = Since(b) \cup St
  BY <1>1, <1>2, <1>3 DEF Since
<1> QED
  BY <1>2, <1>3, <1>6, <1>7 DEF St

LEMMA LogStep ==
  ASSUME Inv, Next, Up, Up'
  PROVE  LogInv'
<1> USE DEF memVars, diskVars
<1>i. DirInv /\ Typed /\ Numbered /\ Linking /\ History /\ LogInv /\ FilesInv /\ WriterInv
  BY DEF Inv, DirInv
<1>t. committed \in Nat /\ wal \in Seq(Records) /\ walSafe \in Seq(Records) /\ mem \in SUBSET Entry
  BY <1>i DEF Typed
<1>p. PICK a \in 0..committed, bw \in 0..committed, bs \in 0..committed : Logged(a, bw, bs)
  BY <1>i DEF LogInv
<1>n. a \in Nat /\ bw \in Nat /\ bs \in Nat /\ bw <= a /\ bs <= a
  BY <1>t, <1>p DEF Logged
<1>1. CASE LogQuiet
  <2>1. Logged(a, bw, bs)'
    BY <1>1, <1>p DEF LogQuiet, Logged, BackTo, Since, OpsOf, Live
  <2> QED
    BY <1>1, <2>1 DEF LogQuiet, LogInv
<1>2. ASSUME NEW b \in Batches, Append_(b)
      PROVE  LogInv'
  <2> DEFINE r == Record(b, committed + 1)
  <2>1. r \in Records /\ r.seq = committed + 1
    BY <1>t, RecordParts
  <2>2. wal' = Append(wal, r) /\ UNCHANGED <<mem, log, walSafe, runs, committed>>
        /\ batch' = b /\ phase' = "appended"
    BY <1>2 DEF Append_, ghosts
  <2> HIDE DEF r
  <2>3. Logged(a, bw, bs)'
    BY <1>i, <1>p, <2>1, <2>2, AppendLogged
  <2>4. wal' # <<>> /\ wal'[Len(wal')] = r
    BY <1>t, <2>1, <2>2
  <2> QED
    BY <2>2, <2>3, <2>4 DEF LogInv, r
<1>3. CASE AppendTears
  <2>1. Torn \in Records
    BY DEF Records
  <2>2. wal' = Append(wal, Torn) /\ UNCHANGED <<mem, log, walSafe, runs, committed>>
        /\ phase' = "idle"
    BY <1>3 DEF AppendTears, ghosts
  <2>3. Logged(a, bw, bs)'
    BY <1>i, <1>p, <2>1, <2>2, AppendLogged
  <2> QED
    BY <2>2, <2>3 DEF LogInv
<1>4. CASE SyncWal
  <2>1. walSafe' = wal /\ UNCHANGED <<mem, log, wal, runs, committed, batch>> /\ phase' = "synced"
        /\ phase = "appended"
    BY <1>4 DEF SyncWal, ghosts
  <2>2. Logged(a, bw, bw)'
    BY <1>i, <1>n, <1>p, <2>1, SyncLogged
  <2> QED
    BY <1>i, <2>1, <2>2 DEF LogInv
<1>5. CASE CutSync
  <2>1. walSafe' = wal /\ UNCHANGED <<mem, log, wal, runs, committed>> /\ phase' = "compact"
    BY <1>5 DEF CutSync, ghosts
  <2>2. Logged(a, bw, bw)'
    BY <1>i, <1>n, <1>p, <2>1, SyncLogged
  <2> QED
    BY <2>1, <2>2 DEF LogInv
<1>6. CASE Publish
  <2> DEFINE St == Stamp(batch, committed + 1)
  <2>1. /\ St \in SUBSET Entry /\ St # {}
        /\ mem' = mem \cup St /\ committed' = committed + 1
        /\ Since(a)' = Since(a) \cup St /\ Since(bw)' = Since(bw) \cup St
        /\ Since(bs)' = Since(bs) \cup St
    BY <1>6, <1>p, PublishAdds
  <2>2. UNCHANGED <<wal, walSafe, runs>> /\ phase' = "published" /\ walSafe = wal
        /\ wal # <<>> /\ wal[Len(wal)] = Record(batch, committed + 1)
    BY <1>i, <1>6 DEF Publish, LogInv
  <2>3. St \subseteq OpsOf(walSafe)
    <3>1. Len(wal) \in DOMAIN wal
      BY <1>t, <2>2
    <3>2. Record(batch, committed + 1).ops = St
      BY DEF Record
    <3> QED
      BY <2>2, <3>1, <3>2 DEF OpsOf
  <2> HIDE DEF St
  <2>4. IsPrefix(walSafe, wal)
    BY <1>t, <2>2, ElementsPrefix
  <2>5. Since(bs)' \subseteq OpsOf(walSafe) /\ Since(bw)' \subseteq OpsOf(walSafe)
        /\ mem' = Since(a)'
    BY <1>p, <2>1, <2>3 DEF Logged
  <2>6. OpsOf(walSafe)' = OpsOf(walSafe) /\ Live' = Live
    BY <2>2 DEF OpsOf, Live
  <2>7. Logged(a, bw, bs)'
    BY <1>p, <2>2, <2>4, <2>5, <2>6 DEF Logged, BackTo
  <2>8. a \in 0..committed' /\ bw \in 0..committed' /\ bs \in 0..committed'
    BY <1>t, <1>p, <2>1
  <2> QED
    BY <2>2, <2>7, <2>8 DEF LogInv
<1>7. CASE FlushSwap
  <2>1. UNCHANGED <<log, wal, walSafe, committed>> /\ mem' = {} /\ phase' = "swapped"
        /\ runs' = Append(runs, run) /\ runs \in Seq(Files) /\ run \in Files
    BY <1>i, <1>7 DEF FlushSwap, ghosts, Typed
  <2>2. Live \subseteq Live'
    <3>1. \A i \in DOMAIN runs : i \in DOMAIN runs' /\ runs'[i] = runs[i]
      BY <2>1
    <3> QED
      BY <3>1 DEF Live
  <2>3. mem' = Since(committed)
    BY <1>i, <2>1, SinceNow
  <2>4. Logged(committed, bw, bs)'
    BY <1>n, <1>p, <1>t, <2>1, <2>2, <2>3, RunsLogged
  <2>5. committed \in 0..committed'
    BY <1>t, <2>1
  <2> QED
    BY <1>p, <2>1, <2>4, <2>5 DEF LogInv
<1>8. CASE CompactSwap
  <2>1. UNCHANGED <<log, wal, walSafe, committed, mem>> /\ phase' = "unlinking"
        /\ runs' = <<run>> /\ run \in Files
    BY <1>i, <1>8 DEF CompactSwap, ghosts, Typed
  <2>2. run \in Live'
    <3>1. 1 \in DOMAIN runs' /\ runs'[1] = run
      BY <2>1
    <3> QED
      BY <3>1 DEF Live
  <2>3. \A f \in Live : f.maxSeq <= run.maxSeq
    BY <1>i, <1>8 DEF WriterInv, CompactSwap
  <2>4. \A f \in Live : f.maxSeq \in Nat
    BY <1>i, FileType DEF Live, Typed
  <2>5. ASSUME NEW b \in {bw, bs}, NEW f \in Live, b <= f.maxSeq
        PROVE  b <= run.maxSeq
    <3>1. b \in Nat /\ f.maxSeq \in Nat /\ run.maxSeq \in Nat
      BY <1>n, <2>1, <2>4, FileType
    <3> QED
      BY <2>3, <2>5, <3>1
  <2>6. mem' = Since(a)
    BY <1>p, <2>1 DEF Logged
  <2>7. Logged(a, bw, bs)'
    BY <1>n, <1>p, <2>1, <2>2, <2>5, <2>6, RunsLogged
  <2> QED
    BY <2>1, <2>7 DEF LogInv
<1>9. CASE UpgradeSwap
  <2> DEFINE i == CHOOSE i \in Legacy : \A j \in Legacy : i <= j
  <2>0. Legacy # {} /\ i \in Legacy /\ i \in DOMAIN runs
        /\ \A m \in Legacy : (\A j \in Legacy : m <= j) => m = i
    BY <1>9, <1>i, LegacyLeast DEF UpgradeSwap, Linking
  <2>1. UNCHANGED <<log, wal, walSafe, committed, mem>> /\ phase' = "replaced"
        /\ runs' = [runs EXCEPT ![i] = run] /\ runs \in Seq(Files)
    BY <1>i, <1>9 DEF UpgradeSwap, ghosts, Typed
  <2>2. run.maxSeq = runs[i].maxSeq
    BY <1>i, <1>9, <2>0 DEF WriterInv, UpgradeSwap
  <2> HIDE DEF i
  <2>3. \A f \in Live : \E g \in Live' : g.maxSeq = f.maxSeq
    <3>1. DOMAIN runs' = DOMAIN runs /\ runs'[i] = run
          /\ \A j \in DOMAIN runs : j # i => runs'[j] = runs[j]
      BY <2>0, <2>1
    <3>2. ASSUME NEW j \in DOMAIN runs PROVE runs'[j].maxSeq = runs[j].maxSeq
      BY <2>2, <3>1
    <3> QED
      BY <3>1, <3>2 DEF Live
  <2>4. mem' = Since(a)
    BY <1>p, <2>1 DEF Logged
  <2>5. Logged(a, bw, bs)'
    BY <1>n, <1>p, <2>1, <2>3, <2>4, RunsLogged
  <2> QED
    BY <2>1, <2>5 DEF LogInv
<1>10. CASE CutLog
  <2>1. wal' = <<>> /\ UNCHANGED <<mem, runs, committed, walSafe, log>> /\ phase' = "cut"
    BY <1>10 DEF CutLog, ghosts
  <2>2. mem = {} /\ \E f \in Live : f.maxSeq = committed
    BY <1>i, <1>10 DEF WriterInv, CutLog
  <2>3. Since(committed) = {}
    BY <1>i, SinceNow
  <2>4. /\ Since(committed)' = {} /\ Since(bs)' = Since(bs) /\ Live' = Live
        /\ OpsOf(walSafe)' = OpsOf(walSafe)
    BY <2>1, <2>3 DEF Since, Live, OpsOf
  <2>5. BackTo(wal', committed) /\ bs <= committed /\ committed <= committed
    BY <1>p, <1>t, <2>1 DEF BackTo
  <2>6. \A f \in Live : f.maxSeq = committed => committed <= f.maxSeq
    BY <1>t
  <2>7. Logged(committed, committed, bs)'
    BY <1>p, <2>1, <2>2, <2>4, <2>5, <2>6 DEF Logged, BackTo
  <2>8. committed \in 0..committed'
    BY <1>t, <2>1
  <2> QED
    BY <1>p, <2>1, <2>7, <2>8 DEF LogInv
<1> QED
  BY <1>1, <1>2, <1>3, <1>4, <1>5, <1>6, <1>7, <1>8, <1>9, <1>10, LogQuietSteps

-------------------------------------------------------------------------------
(* The files.                                                                *)

LEMMA KeptIs ==
  ASSUME DirInv, Up
  PROVE  /\ Live \subseteq dirSafe /\ Live \subseteq Kept /\ Kept \subseteq dirSafe
         /\ dirSafe \in SUBSET Files /\ Kept \in SUBSET Files /\ Live \in SUBSET Files
         /\ reclaimed \in Nat
  BY DEF DirInv, Typed, Numbered, Kept, Live

(* Everything stored was committed.                                          *)
LEMMA StoredIs ==
  ASSUME Inv, Up
  PROVE  /\ LiveEntries \subseteq log /\ mem \subseteq log
         /\ log \in SUBSET Entry /\ Unique(log)
<1>1. Live \subseteq dirSafe
  BY KeptIs DEF Inv
<1>2. LiveEntries \subseteq log
  BY <1>1 DEF Inv, FilesInv, LiveEntries, Entries
<1>3. mem \subseteq log
  BY DEF Inv, LogInv, Logged, Since
<1> QED
  BY <1>2, <1>3 DEF Inv, History, DirInv, Typed

(* Nothing committed is newer than the memtable and not in it.               *)
LEMMA MemIsNewest ==
  ASSUME Inv, Up
  PROVE  \A x \in mem, e \in log : x.seq < e.seq => e \in mem
<1>1. PICK a \in 0..committed : mem = Since(a)
  BY DEF Inv, LogInv, Logged
<1>2. committed \in Nat /\ \A e \in log : e.seq \in Nat
  BY DEF Inv, DirInv, Typed, Entry
<1> QED
  BY <1>1, <1>2 DEF Since

LEMMA SwappedDir ==
  ASSUME DirInv, Up, phase \in {"flushed", "merged", "rewritten"}
  PROVE  /\ run \in Dir /\ run \in Files /\ run.num = nextSst
         /\ Dir \subseteq dirSafe \cup {run}
         /\ \E i \in DOMAIN dirOps : dirOps[i].op = "link" /\ dirOps[i].file = run
<1>1. Typed /\ Numbered /\ Linking
  BY DEF DirInv
<1>2. dirOps \in Seq(DirOp) /\ run \in Files
  BY <1>1 DEF Typed
<1>3. dirOps # <<>> /\ dirOps[Len(dirOps)] = Link(run) /\ run.num = nextSst
  BY <1>1 DEF Linking
<1>4. Link(run).op = "link" /\ Link(run).file = run /\ Len(dirOps) \in DOMAIN dirOps
  BY <1>2, <1>3, OpParts
<1>5. run \in Dir /\ DistinctNumbers(Dir)
  BY <1>1, <1>3, <1>4, SyncedDir DEF Numbered
<1>6. ASSUME NEW f \in Dir PROVE f \in dirSafe \cup {run}
  <2>1. f \in dirSafe \/ f.num = nextSst
    BY <1>1, DirSurvives, RunsSurvive
  <2> QED
    BY <1>3, <1>5, <2>1 DEF DistinctNumbers
<1> QED
  BY <1>2, <1>3, <1>4, <1>5, <1>6

(* A file is linked.                                                         *)
LEMMA LinkFiles ==
  ASSUME Inv, Up, NEW f \in Files, dirOps' = Append(dirOps, Link(f)),
         UNCHANGED <<mem, runs, log, dirSafe>>, reclaimed' \in Nat, reclaimed <= reclaimed',
         f.entries \subseteq LiveEntries \cup mem, Ordered(Kept' \cup {f}, reclaimed')
  PROVE  FilesInv'
<1>1. FilesInv /\ DirInv /\ dirOps \in Seq(DirOp) /\ reclaimed \in Nat /\ dirSafe \in SUBSET Files
  BY DEF Inv, DirInv, Typed
<1>2. Live' = Live /\ LiveEntries' = LiveEntries
  BY DEF Live, LiveEntries, Entries
<1>3. Kept' \subseteq Kept /\ Kept \in SUBSET Files
  BY <1>1, <1>2, KeptIs DEF Kept
<1>4. Ordered(Kept', reclaimed')
  BY <1>1, <1>3, OrderedShrinks DEF FilesInv
<1>5. Faithful(LiveEntries \cup mem, log, reclaimed')
  BY <1>1, FaithfulAbove DEF FilesInv
<1>6. ASSUME NEW i \in DOMAIN dirOps', dirOps'[i].op = "link"
      PROVE  /\ dirOps'[i].file.entries \subseteq LiveEntries \cup mem
             /\ Ordered(Kept' \cup {dirOps'[i].file}, reclaimed')
  <2>1. Link(f) \in DirOp /\ Link(f).file = f
    BY OpParts
  <2>2. \/ dirOps'[i] = Link(f)
        \/ i \in DOMAIN dirOps /\ dirOps'[i] = dirOps[i] /\ dirOps[i] \in DirOp
    BY <1>1, <2>1
  <2>3. CASE dirOps'[i] = Link(f)
    BY <2>1, <2>3
  <2>4. CASE i \in DOMAIN dirOps /\ dirOps'[i] = dirOps[i] /\ dirOps[i] \in DirOp
    <3> DEFINE g == dirOps[i].file
    <3>1. g \in Files /\ Ordered(Kept \cup {g}, reclaimed) /\ g.entries \subseteq LiveEntries \cup mem
      BY <1>1, <1>6, <2>4 DEF FilesInv, DirOp
    <3>2. Kept' \cup {g} \subseteq Kept \cup {g} /\ Kept \cup {g} \in SUBSET Files
      BY <1>3, <3>1
    <3> HIDE DEF g
    <3>3. Ordered(Kept' \cup {g}, reclaimed')
      BY <1>1, <3>1, <3>2, OrderedShrinks
    <3> QED
      BY <2>4, <3>1, <3>3 DEF g
  <2> QED
    BY <2>2, <2>3, <2>4
<1>7. reclaimed' = 0 => reclaimed = 0
  BY <1>1
<1> QED
  BY <1>1, <1>2, <1>4, <1>5, <1>6, <1>7 DEF FilesInv

(* A linked run is swapped in.                                               *)
LEMMA SwapFiles ==
  ASSUME Inv, Up, phase \in {"flushed", "merged", "rewritten"}, SyncDir,
         UNCHANGED <<log, reclaimed>>, run \in Live', Live' \subseteq Live \cup {run},
         \A i, j \in DOMAIN runs' : i < j => runs'[i].maxSeq <= runs'[j].maxSeq,
         reclaimed = 0 => LiveEntries \subseteq LiveEntries',
         \A f \in Live : \E g \in Live' : f.maxSeq <= g.maxSeq,
         Faithful(LiveEntries' \cup mem', log, reclaimed)
  PROVE  FilesInv'
<1>1. FilesInv /\ DirInv
  BY DEF Inv
<1>2. /\ run \in Files /\ Dir \subseteq dirSafe \cup {run}
      /\ \E i \in DOMAIN dirOps : dirOps[i].op = "link" /\ dirOps[i].file = run
  BY <1>1, SwappedDir
<1>3. dirSafe' = Dir /\ DOMAIN dirOps' = {}
  BY DEF SyncDir
<1>4. run.entries \subseteq LiveEntries \cup mem /\ Ordered(Kept \cup {run}, reclaimed)
  BY <1>1, <1>2 DEF FilesInv
<1>5. run.entries \subseteq log
  BY <1>4, StoredIs
<1>6. \A f \in dirSafe' : f.entries \subseteq log'
  BY <1>1, <1>2, <1>3, <1>5 DEF FilesInv
<1>7. Kept' \subseteq Kept \cup {run} /\ Kept \cup {run} \in SUBSET Files /\ reclaimed \in Nat
  BY <1>1, <1>2, <1>3, KeptIs DEF Kept
<1>8. Ordered(Kept', reclaimed')
  BY <1>4, <1>7, OrderedShrinks
<1>9. run.entries \subseteq LiveEntries'
  BY DEF LiveEntries, Entries
<1>10. reclaimed' = 0 => \A f \in dirSafe' : f.entries \subseteq LiveEntries'
  BY <1>1, <1>2, <1>3, <1>9 DEF FilesInv
<1>11. ASSUME NEW f \in dirSafe' PROVE \E g \in Live' : f.maxSeq <= g.maxSeq
  <2>1. CASE f = run
    BY <1>2, <2>1, FileType
  <2>2. CASE f \in dirSafe
    <3>1. PICK g \in Live : f.maxSeq <= g.maxSeq
      BY <1>1, <2>2 DEF FilesInv
    <3>2. PICK h \in Live' : g.maxSeq <= h.maxSeq
      OBVIOUS
    <3>3. f \in Files /\ g \in Files /\ h \in Files
      BY <1>1, <1>2, <2>2, KeptIs
    <3>4. f.maxSeq \in Nat /\ g.maxSeq \in Nat /\ h.maxSeq \in Nat
      BY <3>3, FileType
    <3> QED
      BY <3>1, <3>2, <3>4
  <2> QED
    BY <1>2, <1>3, <2>1, <2>2
<1> QED
  BY <1>3, <1>6, <1>8, <1>10, <1>11 DEF FilesInv

(* Dead files go.                                                            *)
LEMMA ShrinkFiles ==
  ASSUME Inv, Up, dirSafe' \subseteq dirSafe, DOMAIN dirOps' = {},
         UNCHANGED <<mem, runs, log, reclaimed>>
  PROVE  FilesInv'
<1>1. FilesInv /\ DirInv
  BY DEF Inv
<1>2. Live' = Live /\ LiveEntries' = LiveEntries
  BY DEF Live, LiveEntries, Entries
<1>3. Kept' \subseteq Kept /\ Kept \in SUBSET Files /\ reclaimed \in Nat
  BY <1>1, <1>2, KeptIs DEF Kept
<1>4. Ordered(Kept', reclaimed')
  BY <1>1, <1>3, OrderedShrinks DEF FilesInv
<1> QED
  BY <1>1, <1>2, <1>4 DEF FilesInv

(* A copy of a file.                                                         *)
LEMMA OrderedCopy ==
  ASSUME NEW D, NEW floor, Ordered(D, floor), NEW old \in D, NEW f,
         f.entries = old.entries, f.maxSeq = old.maxSeq
  PROVE  Ordered(D \cup {f}, floor)
  BY DEF Ordered

(* What a compaction merges is what the runs hold.                           *)
LEMMA MergedIs ==
  ASSUME Inv, Up
  PROVE  Merge(RunEntries) = LiveEntries
<1>1. Runs(RunEntries) = LiveEntries
  BY DEF Runs, RunEntries, LiveEntries, Entries, Live
<1>2. Unique(LiveEntries)
  BY StoredIs DEF Unique
<1> QED
  BY <1>1, <1>2, MergeIsUnion

(* The floor a compaction leaves behind it.                                  *)
LEMMA ReclaimedGrows ==
  ASSUME Inv, CompactWrite
  PROVE  /\ reclaimed' \in Nat /\ reclaimed <= reclaimed' /\ RetentionFloor <= reclaimed'
         /\ reclaimed' <= committed /\ committed \in Nat
         /\ RetentionFloor \in Nat
<1>1. reclaimed \in Nat /\ RetentionFloor \in Nat /\ committed \in Nat
      /\ reclaimed <= committed /\ RetentionFloor <= committed
  BY FloorIs DEF Inv, DirInv, Typed, History
<1>2. reclaimed' = GreatestOf({reclaimed, RetentionFloor})
  BY DEF CompactWrite
<1> QED
  BY <1>1, <1>2, GreatestOfTwo

(* The compacted run among the files it may be found with.                   *)
LEMMA CompactedOrdered ==
  ASSUME Inv, Up, NEW floor \in Nat, reclaimed <= floor, NEW fl \in Nat, NEW f \in Files,
         f.entries = GcVersions(LiveEntries, fl),
         \A g \in Live : g.maxSeq <= f.maxSeq,
         NEW D, D = IF floor = 0 THEN dirSafe ELSE Live
  PROVE  Ordered(D \cup {f}, floor)
<1>1. FilesInv /\ DirInv
  BY DEF Inv
<1>2. /\ Live \subseteq dirSafe /\ Live \subseteq Kept /\ Kept \subseteq dirSafe
      /\ dirSafe \in SUBSET Files /\ Kept \in SUBSET Files /\ reclaimed \in Nat
  BY <1>1, KeptIs
<1>3. floor = 0 => reclaimed = 0
  BY <1>2
<1>4. D \subseteq Kept /\ Live \subseteq D
  BY <1>2, <1>3 DEF Kept
<1>5. Ordered(D, floor)
  BY <1>1, <1>2, <1>4, OrderedShrinks DEF FilesInv
<1>6. LiveEntries \in SUBSET Entry
  BY StoredIs
<1>7. f.entries \subseteq LiveEntries
  BY CompactedIsSubset
<1>8. ASSUME NEW g \in D PROVE g.maxSeq <= f.maxSeq
  <2>1. PICK h \in Live : g.maxSeq <= h.maxSeq
    BY <1>1, <1>2, <1>4 DEF FilesInv
  <2>2. g.maxSeq \in Nat /\ h.maxSeq \in Nat /\ f.maxSeq \in Nat /\ h.maxSeq <= f.maxSeq
    BY <1>2, <1>4, FileType
  <2> QED
    BY <2>1, <2>2
<1>9. ASSUME NEW g \in D PROVE g.entries \subseteq LiveEntries
  <2>1. CASE g \in Live
    BY <2>1 DEF LiveEntries, Entries
  <2>2. CASE floor = 0
    BY <1>1, <1>2, <1>3, <1>4, <2>2 DEF FilesInv
  <2> QED
    BY <2>1, <2>2
<1>10. ASSUME NEW g \in D PROVE Covers(f.entries, g.entries, floor)
  BY <1>6, <1>9, CompactedCovers
<1>11. ASSUME NEW g \in D, g.maxSeq = f.maxSeq
       PROVE  Covers(g.entries, f.entries, floor)
  <2> SUFFICES ASSUME NEW e \in f.entries, NEW x \in g.entries, e.key = x.key, x.seq < e.seq
               PROVE  \/ e \in g.entries
                      \/ \E h \in g.entries : h.key = e.key /\ e.seq < h.seq /\ h.seq <= floor
    BY DEF Covers
  <2>1. PICK r \in Live : e \in r.entries
    BY <1>7 DEF LiveEntries, Entries
  <2>2. r \in D /\ r.maxSeq <= g.maxSeq
    BY <1>4, <1>11
  <2>3. Covers(g.entries, r.entries, floor)
    BY <1>5, <2>2 DEF Ordered
  <2> QED
    BY <2>1, <2>3 DEF Covers
<1>12. D \in SUBSET Files
  BY <1>2, <1>4
<1> QED
  BY <1>5, <1>8, <1>10, <1>11, <1>12, OrderedWith

(* The steps that leave the files, the memtable and the history alone.       *)
FilesQuiet == UNCHANGED <<mem, runs, log, reclaimed, dirSafe, dirOps>>

LEMMA FilesQuietSteps ==
  ASSUME Next, Up, Up'
  PROVE  \/ FilesQuiet
         \/ Publish
         \/ FlushWrite \/ CompactWrite \/ UpgradeWrite
         \/ FlushSwap \/ CompactSwap \/ UpgradeSwap
         \/ CutSync \/ UnlinkDone \/ UnlinkOne \/ UpgradeUnlink
<1> USE DEF FilesQuiet, Up, memVars, diskVars, ghosts
<1>1. CASE CommitStep
  BY <1>1 DEF CommitStep, Append_, AppendTears, SyncFails, SyncWal
<1>2. CASE FlushStep
  BY <1>2 DEF FlushStep, FlushNotDue, CutLog
<1>3. CASE CompactStep
  BY <1>3 DEF CompactStep, CompactNotDue
<1>4. CASE UpgradeStep
  BY <1>4 DEF UpgradeStep, UpgradeBegin, UpgradeFails, UpgradeEnd
<1>5. CASE MaintenanceFails
  BY <1>5 DEF MaintenanceFails
<1>6. CASE Crash \/ Close \/ Open
  BY <1>6 DEF Crash, Close, Open
<1> QED
  BY <1>1, <1>2, <1>3, <1>4, <1>5, <1>6 DEF Next

LEMMA PublishFiles ==
  ASSUME Inv, Up, Publish
  PROVE  FilesInv'
<1> DEFINE St == Stamp(batch, committed + 1)
<1>1. /\ St \in SUBSET Entry /\ \A e \in St : e.seq = committed + 1
      /\ log' = log \cup St /\ mem' = mem \cup St /\ Unique(log \cup St)
  BY PublishAdds
<1>2. UNCHANGED <<runs, dirSafe, dirOps, reclaimed>>
  BY DEF Publish, diskVars
<1> HIDE DEF St
<1>3. FilesInv /\ committed \in Nat /\ reclaimed \in Nat
  BY DEF Inv, DirInv, Typed
<1>4. LiveEntries \subseteq log /\ mem \subseteq log /\ log \in SUBSET Entry
  BY StoredIs
<1>5. Live' = Live /\ LiveEntries' = LiveEntries /\ Kept' = Kept
  BY <1>2 DEF Live, LiveEntries, Entries, Kept
<1>6. \A e \in log : e.seq \in Nat /\ e.seq <= committed
  BY <1>4 DEF Inv, History, Entry
<1>7. \A x \in St, e \in log : ~(x.seq < e.seq)
  BY <1>1, <1>3, <1>6
<1>8. LiveEntries \cup mem \in SUBSET log /\ Faithful(LiveEntries \cup mem, log, reclaimed)
  BY <1>3, <1>4 DEF FilesInv
<1>9. Faithful((LiveEntries \cup mem) \cup St, log \cup St, reclaimed)
  BY <1>1, <1>3, <1>4, <1>7, <1>8, FaithfulWith
<1>10. (LiveEntries \cup mem) \cup St = LiveEntries' \cup mem'
  BY <1>1, <1>5
<1>11. Faithful(LiveEntries' \cup mem', log', reclaimed')
  BY <1>1, <1>2, <1>9, <1>10
<1> QED
  BY <1>1, <1>2, <1>3, <1>5, <1>11 DEF FilesInv

LEMMA FilesStep ==
  ASSUME Inv, Next, Up, Up'
  PROVE  FilesInv'
<1> USE DEF memVars, diskVars
<1>i. DirInv /\ Typed /\ Numbered /\ Linking /\ History /\ LogInv /\ FilesInv /\ WriterInv
  BY DEF Inv, DirInv
<1>t. committed \in Nat /\ nextSst \in Nat /\ mem \in SUBSET Entry /\ runs \in Seq(Files)
      /\ reclaimed \in Nat /\ run \in Files
  BY <1>i DEF Typed
<1>k. /\ Live \subseteq dirSafe /\ Live \subseteq Kept /\ Kept \subseteq dirSafe
      /\ dirSafe \in SUBSET Files /\ Kept \in SUBSET Files
  BY <1>i, KeptIs
<1>1. CASE FilesQuiet
  BY <1>1, <1>i DEF FilesQuiet, FilesInv, Kept, Live, LiveEntries, Entries
<1>2. CASE Publish
  BY <1>2, PublishFiles
<1>3. CASE FlushWrite
  <2> DEFINE f == File(nextSst, mem, committed, FALSE)
  <2>1. f \in Files /\ f.entries = mem /\ f.maxSeq = committed
    BY <1>t DEF File, Files
  <2> HIDE DEF f
  <2>2. dirOps' = Append(dirOps, Link(f)) /\ UNCHANGED <<mem, runs, log, dirSafe, reclaimed>>
        /\ phase = "published"
    BY <1>3 DEF FlushWrite, WriteRun, f
  <2>3. \A g \in Kept : g.maxSeq < f.maxSeq /\ g.maxSeq \in Nat
    BY <1>i, <1>k, <2>1, <2>2, FileType DEF WriterInv
  <2>4. ASSUME NEW g \in Kept PROVE Covers(f.entries, g.entries, reclaimed)
    <3>1. g.entries \subseteq log
      BY <1>i, <1>k DEF FilesInv
    <3>2. \A x \in mem, e \in log : x.seq < e.seq => e \in mem
      BY MemIsNewest
    <3> QED
      BY <2>1, <3>1, <3>2 DEF Covers
  <2>5. Ordered(Kept \cup {f}, reclaimed)
    <3>1. \A g \in Kept : g.maxSeq <= f.maxSeq /\ g.maxSeq # f.maxSeq
      BY <1>t, <2>1, <2>3
    <3>2. Ordered(Kept, reclaimed)
      BY <1>i DEF FilesInv
    <3> QED
      BY <1>k, <1>t, <2>1, <2>4, <3>1, <3>2, OrderedWith
  <2>6. Kept' = Kept
    BY <2>2 DEF Kept, Live
  <2>7. reclaimed' \in Nat /\ reclaimed <= reclaimed' /\ f.entries \subseteq LiveEntries \cup mem
    BY <1>t, <2>1, <2>2
  <2>8. Ordered(Kept' \cup {f}, reclaimed')
    BY <2>2, <2>5, <2>6
  <2> QED
    BY <2>1, <2>2, <2>7, <2>8, LinkFiles
<1>4. CASE UpgradeWrite
  <2> DEFINE i == CHOOSE i \in Legacy : \A j \in Legacy : i <= j
             old == runs[i]
             f == File(nextSst, old.entries, old.maxSeq, FALSE)
  <2>1. i \in DOMAIN runs
    BY <1>4, <1>i, LegacyLeast DEF UpgradeWrite
  <2> HIDE DEF i
  <2>2. old \in Live /\ old \in Files
    BY <1>t, <2>1 DEF Live
  <2> HIDE DEF old
  <2>3. f \in Files /\ f.entries = old.entries /\ f.maxSeq = old.maxSeq
    BY <1>t, <2>2, FileType DEF File, Files
  <2> HIDE DEF f
  <2>4. dirOps' = Append(dirOps, Link(f)) /\ UNCHANGED <<mem, runs, log, dirSafe, reclaimed>>
    BY <1>4 DEF UpgradeWrite, WriteRun, f, old, i
  <2>5. Kept' = Kept
    BY <2>4 DEF Kept, Live
  <2>6. Ordered(Kept \cup {f}, reclaimed)
    BY <1>i, <1>k, <2>2, <2>3, OrderedCopy DEF FilesInv
  <2>7. f.entries \subseteq LiveEntries \cup mem
    BY <2>2, <2>3 DEF LiveEntries, Entries
  <2>8. Ordered(Kept' \cup {f}, reclaimed') /\ reclaimed' \in Nat /\ reclaimed <= reclaimed'
    BY <1>t, <2>4, <2>5, <2>6
  <2> QED
    BY <2>3, <2>4, <2>7, <2>8, LinkFiles
<1>5. CASE CompactWrite
  <2> DEFINE M == GcVersions(Merge(RunEntries), RetentionFloor)
             m == GreatestOf({runs[i].maxSeq : i \in DOMAIN runs})
             f == File(nextSst, M, m, FALSE)
  <2>1. Len(runs) > CompactionTrigger /\ UNCHANGED <<mem, runs, log, dirSafe>>
        /\ dirOps' = Append(dirOps, Link(f))
    BY <1>5 DEF CompactWrite, WriteRun
  <2>2. M \in SUBSET Entry /\ M \subseteq LiveEntries /\ m \in Nat
        /\ \A g \in Live : g.maxSeq <= m
    BY <1>i, <2>1, MergedRun
  <2>3. M = GcVersions(LiveEntries, RetentionFloor)
    BY MergedIs
  <2> HIDE DEF M, m
  <2>4. f \in Files /\ f.entries = M /\ f.maxSeq = m
    BY <1>t, <2>2 DEF File, Files
  <2> HIDE DEF f
  <2>5. reclaimed' \in Nat /\ reclaimed <= reclaimed' /\ RetentionFloor \in Nat
    BY <1>5, ReclaimedGrows
  <2>6. Kept' = IF reclaimed' = 0 THEN dirSafe ELSE Live
    BY <2>1 DEF Kept, Live
  <2>7. Ordered(Kept' \cup {f}, reclaimed')
    BY <2>2, <2>3, <2>4, <2>5, <2>6, CompactedOrdered
  <2>8. f.entries \subseteq LiveEntries \cup mem
    BY <2>2, <2>4
  <2> QED
    BY <2>1, <2>4, <2>5, <2>7, <2>8, LinkFiles
<1>6. CASE FlushSwap
  <2>1. phase = "flushed" /\ SyncDir /\ UNCHANGED <<log, reclaimed>> /\ mem' = {}
        /\ runs' = Append(runs, run)
    BY <1>6 DEF FlushSwap, ghosts
  <2>2. run.entries = mem /\ run.maxSeq = committed
    BY <1>i, <2>1 DEF WriterInv
  <2>3. /\ Len(runs') = Len(runs) + 1 /\ DOMAIN runs' = 1..(Len(runs) + 1)
        /\ DOMAIN runs = 1..Len(runs)
        /\ runs'[Len(runs) + 1] = run /\ \A i \in DOMAIN runs : runs'[i] = runs[i]
    BY <1>t, <2>1
  <2>4. Live' = Live \cup {run}
    <3>1. \A f \in Live' : f \in Live \cup {run}
      BY <2>3 DEF Live
    <3>2. \A f \in Live : f \in Live'
      BY <2>3 DEF Live
    <3>3. run \in Live'
      BY <1>t, <2>3 DEF Live
    <3> QED
      BY <3>1, <3>2, <3>3
  <2>5. ASSUME NEW i \in DOMAIN runs', NEW j \in DOMAIN runs', i < j
        PROVE  runs'[i].maxSeq <= runs'[j].maxSeq
    <3>1. i \in DOMAIN runs /\ runs'[i] = runs[i]
      BY <1>t, <2>3, <2>5
    <3>2. CASE j \in DOMAIN runs
      BY <1>i, <2>3, <2>5, <3>1, <3>2 DEF FilesInv
    <3>3. CASE j = Len(runs) + 1
      <4>1. runs[i] \in Live
        BY <3>1 DEF Live
      <4>2. runs[i].maxSeq <= committed
        BY <1>i, <1>k, <4>1 DEF Typed
      <4> QED
        BY <2>2, <2>3, <3>1, <3>3, <4>2
    <3> QED
      BY <2>3, <3>2, <3>3
  <2>6. LiveEntries' = LiveEntries \cup mem
    BY <2>2, <2>4 DEF LiveEntries, Entries
  <2>7. LiveEntries' \cup mem' = LiveEntries \cup mem
    BY <2>1, <2>6
  <2>8. Faithful(LiveEntries' \cup mem', log, reclaimed)
    BY <1>i, <2>7 DEF FilesInv
  <2>9. \A f \in Live : \E g \in Live' : f.maxSeq <= g.maxSeq
    BY <1>k, <2>4, FileType
  <2> QED
    BY <2>1, <2>4, <2>5, <2>6, <2>8, <2>9, SwapFiles
<1>7. CASE CompactSwap
  <2>1. phase = "merged" /\ SyncDir /\ UNCHANGED <<log, reclaimed, mem>> /\ runs' = <<run>>
    BY <1>7 DEF CompactSwap, ghosts
  <2>2. /\ \A f \in Live : f.maxSeq <= run.maxSeq
        /\ Faithful(run.entries \cup mem, log, reclaimed)
        /\ reclaimed = 0 => LiveEntries \subseteq run.entries
    BY <1>i, <2>1 DEF WriterInv
  <2>3. DOMAIN runs' = {1} /\ runs'[1] = run
    BY <2>1
  <2>4. Live' = {run}
    BY <2>3 DEF Live
  <2>5. LiveEntries' = run.entries
    BY <2>4 DEF LiveEntries, Entries
  <2>6. Faithful(LiveEntries' \cup mem', log, reclaimed)
    BY <2>1, <2>2, <2>5
  <2>7. \A i, j \in DOMAIN runs' : i < j => runs'[i].maxSeq <= runs'[j].maxSeq
    BY <2>3
  <2> QED
    BY <2>1, <2>2, <2>4, <2>5, <2>6, <2>7, SwapFiles
<1>8. CASE UpgradeSwap
  <2> DEFINE i == CHOOSE i \in Legacy : \A j \in Legacy : i <= j
  <2>1. phase = "rewritten" /\ SyncDir /\ UNCHANGED <<log, reclaimed, mem>>
        /\ runs' = [runs EXCEPT ![i] = run]
    BY <1>8 DEF UpgradeSwap, ghosts
  <2>2. i \in DOMAIN runs /\ \A m \in Legacy : (\A j \in Legacy : m <= j) => m = i
    BY <2>1, <1>i, LegacyLeast DEF Linking
  <2>3. run.entries = runs[i].entries /\ run.maxSeq = runs[i].maxSeq
    BY <1>i, <2>1, <2>2 DEF WriterInv
  <2> HIDE DEF i
  <2>4. DOMAIN runs' = DOMAIN runs /\ runs'[i] = run
        /\ \A j \in DOMAIN runs : j # i => runs'[j] = runs[j]
    BY <1>t, <2>1, <2>2
  <2>5. \A j \in DOMAIN runs : runs'[j].entries = runs[j].entries
                               /\ runs'[j].maxSeq = runs[j].maxSeq
    BY <2>3, <2>4
  <2>6. run \in Live' /\ Live' \subseteq Live \cup {run}
    BY <2>2, <2>4 DEF Live
  <2>7. LiveEntries' = LiveEntries
    BY <2>4, <2>5 DEF LiveEntries, Entries, Live
  <2>8. \A m, j \in DOMAIN runs' : m < j => runs'[m].maxSeq <= runs'[j].maxSeq
    BY <1>i, <2>4, <2>5 DEF FilesInv
  <2>9. ASSUME NEW f \in Live PROVE \E g \in Live' : f.maxSeq <= g.maxSeq
    <3>1. PICK j \in DOMAIN runs : f = runs[j]
      BY DEF Live
    <3>2. runs'[j] \in Live' /\ f.maxSeq \in Nat
      BY <1>k, <2>4, FileType DEF Live
    <3> QED
      BY <2>5, <3>1, <3>2
  <2>10. Faithful(LiveEntries' \cup mem', log, reclaimed)
    BY <1>i, <2>1, <2>7 DEF FilesInv
  <2> QED
    BY <2>1, <2>6, <2>7, <2>8, <2>9, <2>10, SwapFiles
<1>9. CASE CutSync \/ UnlinkDone
  <2>1. SyncDir /\ UNCHANGED <<mem, runs, log, reclaimed, nextSst>>
    BY <1>9 DEF CutSync, UnlinkDone, ghosts
  <2>2. \A i \in DOMAIN dirOps : dirOps[i].op = "unlink"
    BY <1>9, <1>i DEF CutSync, UnlinkDone, Linking
  <2>3. DOMAIN dirOps' = {} /\ dirSafe' \subseteq dirSafe
    BY <1>i, <2>1, <2>2, SyncNumbers
  <2> QED
    BY <2>1, <2>3, ShrinkFiles
<1>10. CASE UpgradeUnlink
  <2>1. dirSafe' = AfterOps(dirSafe, Append(dirOps, Unlink(Head(victims)))) /\ dirOps' = <<>>
        /\ UNCHANGED <<mem, runs, log, reclaimed>> /\ phase = "replaced"
    BY <1>10 DEF UpgradeUnlink, ghosts
  <2> DEFINE u == Unlink(Head(victims))
             ops == Append(dirOps, u)
  <2>2. victims # <<>> /\ \A i \in DOMAIN dirOps : dirOps[i].op = "unlink"
    BY <1>i, <2>1 DEF Linking
  <2>3. Head(victims) \in Files /\ dirOps \in Seq(DirOp)
    BY <1>i, <2>2 DEF Typed
  <2>4. u \in DirOp /\ u.op = "unlink"
    BY <2>3, OpParts
  <2> HIDE DEF u
  <2>5. ops \in Seq(DirOp) /\ \A i \in DOMAIN ops : ops[i].op = "unlink"
    BY <2>2, <2>3, <2>4
  <2>6. dirSafe' = AfterOps(dirSafe, ops)
    BY <2>1 DEF u
  <2> HIDE DEF ops
  <2>7. \A f \in AfterOps(dirSafe, ops) :
           f \in dirSafe \/ \E i \in DOMAIN ops : ops[i].op = "link" /\ ops[i].file = f
    BY <1>k, <2>5, AfterOpsIs
  <2>8. dirSafe' \subseteq dirSafe /\ DOMAIN dirOps' = {}
    BY <2>1, <2>5, <2>6, <2>7
  <2> QED
    BY <2>1, <2>8, ShrinkFiles
<1>11. CASE UnlinkOne
  <2>1. dirOps' = Append(dirOps, Unlink(Head(victims))) /\ victims # <<>>
        /\ UNCHANGED <<mem, runs, log, reclaimed, dirSafe>>
    BY <1>11 DEF UnlinkOne, ghosts
  <2> DEFINE u == Unlink(Head(victims))
  <2>2. Head(victims) \in Files /\ dirOps \in Seq(DirOp)
    BY <1>i, <2>1 DEF Typed
  <2>3. u \in DirOp /\ u.op = "unlink"
    BY <2>2, OpParts
  <2>4. dirOps' = Append(dirOps, u)
    BY <2>1
  <2> HIDE DEF u
  <2>5. \A i \in DOMAIN dirOps' : dirOps'[i].op = "link" =>
            i \in DOMAIN dirOps /\ dirOps'[i] = dirOps[i]
    BY <2>2, <2>3, <2>4
  <2>6. Kept' = Kept /\ Live' = Live /\ LiveEntries' = LiveEntries
    BY <2>1 DEF Kept, Live, LiveEntries, Entries
  <2> QED
    BY <1>i, <2>1, <2>5, <2>6 DEF FilesInv
<1> QED
  BY <1>1, <1>2, <1>3, <1>4, <1>5, <1>6, <1>7, <1>8, <1>9, <1>10, <1>11, FilesQuietSteps

-------------------------------------------------------------------------------
(* The writer.                                                               *)

LEMMA WriterQuietSteps ==
  ASSUME Next, Up, Up'
  PROVE  \/ phase' \notin {"published", "flushed", "swapped", "merged", "rewritten"}
         \/ Publish \/ FlushWrite \/ FlushSwap \/ CompactWrite \/ UpgradeWrite
<1> USE DEF Up
<1>1. CASE CommitStep
  BY <1>1 DEF CommitStep, Append_, AppendTears, SyncFails, SyncWal
<1>2. CASE FlushStep
  BY <1>2 DEF FlushStep, FlushNotDue, CutLog, CutSync
<1>3. CASE CompactStep
  BY <1>3 DEF CompactStep, CompactNotDue, CompactSwap, UnlinkOne, UnlinkDone
<1>4. CASE UpgradeStep
  BY <1>4 DEF UpgradeStep, UpgradeBegin, UpgradeSwap, UpgradeUnlink, UpgradeFails, UpgradeEnd
<1>5. CASE MaintenanceFails
  BY <1>5 DEF MaintenanceFails
<1>6. CASE Crash \/ Close \/ Open
  BY <1>6 DEF Crash, Close, Open
<1> QED
  BY <1>1, <1>2, <1>3, <1>4, <1>5, <1>6 DEF Next

(* What compaction keeps reads like what was committed.                      *)
LEMMA CompactedFaithful ==
  ASSUME Inv, Up, NEW fl \in Nat, NEW floor \in Nat, fl <= floor, reclaimed <= floor
  PROVE  /\ Faithful(GcVersions(LiveEntries, fl) \cup mem, log, floor)
         /\ fl = 0 => GcVersions(LiveEntries, fl) = LiveEntries
<1> DEFINE G == GcVersions(LiveEntries, fl)
<1>1. LiveEntries \subseteq log /\ mem \subseteq log /\ log \in SUBSET Entry /\ Unique(log)
      /\ reclaimed \in Nat
  BY StoredIs DEF Inv, DirInv, Typed
<1>2. LiveEntries \in SUBSET Entry /\ Unique(LiveEntries) /\ mem \in SUBSET Entry
      /\ Unique(LiveEntries \cup mem) /\ G \in SUBSET LiveEntries
  BY <1>1, CompactedIsSubset DEF Unique
<1>3. Faithful(G, LiveEntries, floor)
  <2> SUFFICES ASSUME NEW k \in Keys, NEW s \in Nat, s >= floor
               PROVE  Resolve(G, k, s) = Resolve(LiveEntries, k, s)
    BY DEF Faithful
  <2>1. fl <= s
    OBVIOUS
  <2> QED
    BY <1>2, <2>1, GcKeepsReadsAboveFloor
<1>4. fl = 0 => G = LiveEntries
  <2>1. \A e \in LiveEntries : e.seq > 0
    BY <1>1 DEF Inv, History
  <2> QED
    BY <1>2, <2>1, NothingReclaimed
<1> HIDE DEF G
<1>5. \A x \in mem, e \in LiveEntries : e.key = x.key /\ x.seq < e.seq => e \in mem
  BY <1>1, MemIsNewest
<1>6. Faithful(G \cup mem, LiveEntries \cup mem, floor)
  BY <1>2, <1>3, <1>5, FaithfulWith
<1>7. Faithful(LiveEntries \cup mem, log, reclaimed)
  BY DEF Inv, FilesInv
<1>8. Faithful(LiveEntries \cup mem, log, floor)
  BY <1>1, <1>7, FaithfulAbove
<1>9. Faithful(G \cup mem, log, floor)
  BY <1>6, <1>8 DEF Faithful
<1> QED
  BY <1>4, <1>9 DEF G

LEMMA WriterStep ==
  ASSUME Inv, Next, Up, Up'
  PROVE  WriterInv'
<1> USE DEF memVars, diskVars
<1>i. DirInv /\ Typed /\ Numbered /\ Linking /\ History /\ LogInv /\ FilesInv /\ WriterInv
  BY DEF Inv, DirInv
<1>t. committed \in Nat /\ nextSst \in Nat /\ mem \in SUBSET Entry /\ runs \in Seq(Files)
      /\ reclaimed \in Nat /\ run \in Files /\ dirSafe \in SUBSET Files
  BY <1>i DEF Typed
<1>1. CASE phase' \notin {"published", "flushed", "swapped", "merged", "rewritten"}
  BY <1>1 DEF WriterInv
<1>2. CASE Publish
  <2>1. phase' = "published" /\ dirSafe' = dirSafe /\ committed' = committed + 1
    BY <1>2 DEF Publish
  <2>2. \A f \in dirSafe : f.maxSeq \in Nat /\ f.maxSeq <= committed
    BY <1>i, <1>t, FileType DEF Typed
  <2>3. \A f \in dirSafe' : f.maxSeq < committed'
    BY <1>t, <2>1, <2>2
  <2> QED
    BY <2>1, <2>3 DEF WriterInv
<1>3. CASE FlushWrite
  <2> DEFINE f == File(nextSst, mem, committed, FALSE)
  <2>1. f.entries = mem /\ f.maxSeq = committed
    BY DEF File
  <2>2. run' = f /\ phase' = "flushed" /\ mem' = mem /\ committed' = committed
    BY <1>3 DEF FlushWrite, WriteRun
  <2> HIDE DEF f
  <2> QED
    BY <2>1, <2>2 DEF WriterInv
<1>4. CASE FlushSwap
  <2>1. phase' = "swapped" /\ mem' = {} /\ runs' = Append(runs, run) /\ committed' = committed
        /\ run.maxSeq = committed
    BY <1>4, <1>i DEF FlushSwap, WriterInv
  <2>2. Len(runs) + 1 \in DOMAIN runs' /\ runs'[Len(runs) + 1] = run
    BY <1>t, <2>1
  <2>3. run \in Live'
    BY <2>2 DEF Live
  <2> QED
    BY <2>1, <2>3 DEF WriterInv
<1>5. CASE CompactWrite
  <2> DEFINE M == GcVersions(Merge(RunEntries), RetentionFloor)
             m == GreatestOf({runs[i].maxSeq : i \in DOMAIN runs})
             f == File(nextSst, M, m, FALSE)
  <2>1. Len(runs) > CompactionTrigger /\ UNCHANGED <<mem, runs, log, dirSafe>>
        /\ run' = f /\ phase' = "merged"
    BY <1>5 DEF CompactWrite, WriteRun
  <2>2. \A g \in Live : g.maxSeq <= m
    BY <1>i, <2>1, MergedRun
  <2>3. M = GcVersions(LiveEntries, RetentionFloor)
    BY MergedIs
  <2>4. reclaimed' \in Nat /\ reclaimed <= reclaimed' /\ RetentionFloor \in Nat
        /\ RetentionFloor <= reclaimed'
    BY <1>5, ReclaimedGrows
  <2>5. Faithful(M \cup mem, log, reclaimed') /\ (RetentionFloor = 0 => M = LiveEntries)
    BY <2>3, <2>4, CompactedFaithful
  <2> HIDE DEF M, m
  <2>6. f.entries = M /\ f.maxSeq = m
    BY DEF File
  <2> HIDE DEF f
  <2>7. Live' = Live /\ LiveEntries' = LiveEntries
    BY <2>1 DEF Live, LiveEntries, Entries
  <2>8. reclaimed' = 0 => LiveEntries \subseteq M
    BY <2>4, <2>5
  <2>9. Faithful(run'.entries \cup mem', log', reclaimed')
    BY <2>1, <2>5, <2>6
  <2>10. /\ \A g \in Live' : g.maxSeq <= run'.maxSeq
         /\ reclaimed' = 0 => LiveEntries' \subseteq run'.entries
    BY <2>1, <2>2, <2>6, <2>7, <2>8
  <2> QED
    BY <2>1, <2>9, <2>10 DEF WriterInv
<1>6. CASE UpgradeWrite
  <2> DEFINE i == CHOOSE i \in Legacy : \A j \in Legacy : i <= j
             f == File(nextSst, runs[i].entries, runs[i].maxSeq, FALSE)
  <2>1. i \in Legacy /\ \A j \in Legacy : i <= j
    BY <1>6, <1>i, LegacyLeast DEF UpgradeWrite
  <2>2. run' = f /\ phase' = "rewritten" /\ runs' = runs
    BY <1>6 DEF UpgradeWrite, WriteRun
  <2> HIDE DEF i
  <2>3. f.entries = runs[i].entries /\ f.maxSeq = runs[i].maxSeq
    BY DEF File
  <2> HIDE DEF f
  <2>4. Legacy' = Legacy
    BY <2>2 DEF Legacy
  <2>5. \E n \in Legacy' :
             /\ \A j \in Legacy' : n <= j
             /\ run'.entries = runs'[n].entries /\ run'.maxSeq = runs'[n].maxSeq
    BY <2>1, <2>2, <2>3, <2>4
  <2> QED
    BY <2>2, <2>5 DEF WriterInv
<1> QED
  BY <1>1, <1>2, <1>3, <1>4, <1>5, <1>6, WriterQuietSteps

-------------------------------------------------------------------------------
(* The history.                                                              *)

LEMMA HistoryQuietSteps ==
  ASSUME Next
  PROVE  UNCHANGED <<log, committed, reclaimed>> \/ Publish \/ CompactWrite \/ Open
<1> USE DEF memVars, ghosts
<1>1. CASE CommitStep
  BY <1>1 DEF CommitStep, Append_, AppendTears, SyncFails, SyncWal
<1>2. CASE FlushStep
  BY <1>2 DEF FlushStep, FlushNotDue, FlushWrite, WriteRun, FlushSwap, CutLog, CutSync
<1>3. CASE CompactStep
  BY <1>3 DEF CompactStep, CompactNotDue, CompactSwap, UnlinkOne, UnlinkDone
<1>4. CASE UpgradeWrite
  <2>1. UNCHANGED <<memVars, log, reclaimed>>
    BY <1>4 DEF UpgradeWrite, WriteRun
  <2> QED
    BY <2>1
<1>5. CASE UpgradeStep
  BY <1>4, <1>5 DEF UpgradeStep, UpgradeBegin, UpgradeSwap, UpgradeUnlink, UpgradeFails, UpgradeEnd
<1>6. CASE MaintenanceFails \/ Crash \/ Close
  BY <1>6 DEF MaintenanceFails, Crash, Close
<1> QED
  BY <1>1, <1>2, <1>3, <1>5, <1>6 DEF Next

LEMMA HistoryStep ==
  ASSUME Inv, Next, ~Open
  PROVE  History'
<1>1. CASE UNCHANGED <<log, committed, reclaimed>>
  BY <1>1 DEF Inv, History, Unique
<1>2. CASE Publish
  <2> DEFINE St == Stamp(batch, committed + 1)
  <2>1. /\ St \in SUBSET Entry /\ St # {} /\ \A e \in St : e.seq = committed + 1
        /\ log' = log \cup St /\ committed' = committed + 1 /\ Unique(log \cup St)
    BY <1>2, PublishAdds
  <2> HIDE DEF St
  <2>2. reclaimed' = reclaimed /\ reclaimed \in Nat /\ committed \in Nat /\ log \in SUBSET Entry
    BY <1>2 DEF Publish, Inv, DirInv, Typed
  <2>3. \A e \in log : e.seq \in Nat /\ e.seq > 0 /\ e.seq <= committed
    BY <2>2 DEF Inv, History, Entry
  <2>4. \A e \in log' : e.seq > 0 /\ e.seq <= committed'
    BY <2>1, <2>2, <2>3
  <2>5. \E e \in log' : e.seq = committed'
    BY <2>1
  <2>6. reclaimed' <= committed'
    BY <2>1, <2>2 DEF Inv, History
  <2>7. Unique(log)'
    BY <2>1 DEF Unique
  <2> QED
    BY <2>4, <2>5, <2>6, <2>7 DEF History
<1>3. CASE CompactWrite
  <2>1. UNCHANGED <<log, committed>>
    BY <1>3 DEF CompactWrite, WriteRun, memVars
  <2>2. reclaimed' <= committed
    BY <1>3, ReclaimedGrows
  <2> QED
    BY <2>1, <2>2 DEF Inv, History, Unique
<1> QED
  BY <1>1, <1>2, <1>3, HistoryQuietSteps

-------------------------------------------------------------------------------
(* The process stops.                                                        *)

LEMMA NotExposed ==
  ASSUME NoWindow, MayStop
  PROVE  /\ reclaimed > 0 => \A d \in SurvivingDirs : \A f \in d :
               f.num < nextSst => \E i \in DOMAIN runs : runs[i].num = f.num
         /\ \A d \in SurvivingDirs : \A f, g \in d : f.num < g.num => ~(f.maxSeq > g.maxSeq)
         /\ \A w \in {wal, walSafe} : \A i \in DOMAIN w :
               /\ w[i] = Torn => ~(i < Len(w))
               /\ w[i] = Record(batch, committed + 1) \/ w[i].ops \subseteq log
<1>1. ~Exposed("unlink") /\ ~Exposed("upgrade") /\ ~Exposed("log")
  BY DEF MayStop, NoWindow
<1>2. Exposed("unlink") = (reclaimed > 0 /\ \E d \in SurvivingDirs : \E f \in d :
                 f.num < nextSst /\ \A i \in DOMAIN runs : runs[i].num # f.num)
  BY DEF Exposed
<1>3. Exposed("upgrade") = \E d \in SurvivingDirs : \E f, g \in d :
                               f.num < g.num /\ f.maxSeq > g.maxSeq
  BY DEF Exposed
<1>4. Exposed("log") = \E w \in {wal, walSafe} : \E i \in DOMAIN w :
                \/ w[i] = Torn /\ i < Len(w)
                \/ w[i] # Record(batch, committed + 1) /\ ~(w[i].ops \subseteq log)
  BY DEF Exposed
<1> QED
  BY <1>1, <1>2, <1>3, <1>4

LEMMA WalSurvives ==
  ASSUME Typed
  PROVE  wal \in Survivors
<1>1. wal \in Seq(Records) /\ walSafe \in Seq(Records)
  BY DEF Typed
<1>2. IsPrefix(walSafe, wal) => Len(walSafe) <= Len(wal)
  BY <1>1, PrefixElements
<1>3. SubSeq(wal, 1, Len(wal)) = wal
  BY <1>1
<1> DEFINE kept == IF IsPrefix(walSafe, wal) THEN Len(walSafe) ELSE 0
<1>4. Len(wal) \in kept..Len(wal)
  BY <1>1, <1>2
<1>5. wal \in {SubSeq(wal, 1, n) : n \in kept..Len(wal)}
  BY <1>3, <1>4
<1> QED
  BY <1>5 DEF Survivors

(* A surviving directory holds the runs and files that may stand beside them.*)
LEMMA StoppedDir ==
  ASSUME NoWindow, MayStop, Inv, Up, NEW d \in SurvivingDirs
  PROVE  /\ Live \subseteq d /\ d \in SUBSET Files
         /\ Entries(d) \subseteq LiveEntries \cup mem
         /\ Ordered(d, reclaimed)
         /\ \A f, g \in d : f.num < g.num => f.maxSeq <= g.maxSeq
<1>1. Typed /\ Numbered /\ FilesInv /\ DirInv /\ nextSst \in Nat
  BY DEF Inv, DirInv, Typed
<1>2. d \in SUBSET Files /\ DistinctNumbers(d)
      /\ \A f \in d :
            \/ f \in dirSafe
            \/ \E i \in DOMAIN dirOps : dirOps[i].op = "link" /\ dirOps[i].file = f
  BY <1>1, CrashedDir DEF Numbered
<1>3. Live \subseteq d
  BY <1>1, RunsSurvive DEF Live
<1>4. /\ Live \subseteq Kept /\ Kept \subseteq dirSafe /\ dirSafe \in SUBSET Files
      /\ reclaimed \in Nat
  BY <1>1, KeptIs
<1> DEFINE Linked(f) == \E i \in DOMAIN dirOps : dirOps[i].op = "link" /\ dirOps[i].file = f
<1>5. ASSUME NEW f \in d PROVE f \in Kept \/ Linked(f)
  <2>1. CASE f \in dirSafe /\ reclaimed = 0
    BY <2>1 DEF Kept
  <2>2. CASE f \in dirSafe /\ reclaimed # 0
    <3>1. f.num < nextSst /\ reclaimed > 0
      BY <1>1, <1>4, <2>2 DEF Numbered
    <3>2. PICK i \in DOMAIN runs : runs[i].num = f.num
      BY <3>1, NotExposed
    <3>3. runs[i] \in Live /\ runs[i] \in d
      BY <1>3 DEF Live
    <3>4. f = runs[i]
      BY <1>2, <3>2, <3>3 DEF DistinctNumbers
    <3> QED
      BY <1>4, <3>3, <3>4
  <2> QED
    BY <1>2, <2>1, <2>2
<1>6. ASSUME NEW f \in d, Linked(f)
      PROVE  /\ f.num = nextSst /\ f.entries \subseteq LiveEntries \cup mem
             /\ Ordered(Kept \cup {f}, reclaimed)
  <2>1. PICK i \in DOMAIN dirOps : dirOps[i].op = "link" /\ dirOps[i].file = f
    BY <1>6
  <2> QED
    BY <1>1, <2>1 DEF Numbered, FilesInv
<1> HIDE DEF Linked
<1>7. Entries(d) \subseteq LiveEntries \cup mem
  <2> SUFFICES ASSUME NEW f \in d PROVE f.entries \subseteq LiveEntries \cup mem
    BY DEF Entries
  <2>1. CASE f \in Kept
    <3>1. CASE reclaimed = 0
      BY <1>1, <1>4, <2>1, <3>1 DEF FilesInv
    <3>2. CASE reclaimed # 0
      BY <2>1, <3>2 DEF Kept, LiveEntries, Entries
    <3> QED
      BY <3>1, <3>2
  <2> QED
    BY <1>5, <1>6, <2>1
<1>8. Ordered(d, reclaimed)
  <2> SUFFICES ASSUME NEW f \in d, NEW g \in d, f.maxSeq <= g.maxSeq
               PROVE  Covers(g.entries, f.entries, reclaimed)
    BY DEF Ordered
  <2>1. CASE f \in Kept /\ g \in Kept
    BY <1>1, <2>1 DEF FilesInv, Ordered
  <2>2. CASE f \in Kept /\ Linked(g)
    <3>1. Ordered(Kept \cup {g}, reclaimed)
      BY <1>6, <2>2
    <3> QED
      BY <2>2, <3>1 DEF Ordered
  <2>3. CASE Linked(f) /\ g \in Kept
    <3>1. Ordered(Kept \cup {f}, reclaimed)
      BY <1>6, <2>3
    <3> QED
      BY <2>3, <3>1 DEF Ordered
  <2>4. CASE Linked(f) /\ Linked(g)
    <3>1. f = g
      BY <1>2, <1>6, <2>4 DEF DistinctNumbers
    <3> QED
      BY <3>1 DEF Covers
  <2> QED
    BY <1>5, <2>1, <2>2, <2>3, <2>4
<1>9. ASSUME NEW f \in d, NEW g \in d, f.num < g.num PROVE f.maxSeq <= g.maxSeq
  <2>1. ~(f.maxSeq > g.maxSeq)
    BY <1>9, NotExposed
  <2>2. f.maxSeq \in Nat /\ g.maxSeq \in Nat
    BY <1>2, FileType
  <2> QED
    BY <2>1, <2>2
<1> QED
  BY <1>2, <1>3, <1>7, <1>8, <1>9

(* What a log found after a stop holds.                                      *)
Found(w, b) ==
    /\ BackTo(w, b)
    /\ Since(b) \subseteq OpsOf(w)
    /\ \A i \in DOMAIN w :
          \/ w[i] = Torn /\ i = Len(w)
          \/ w[i] # Torn /\ (w[i] = Record(batch, committed + 1) \/ w[i].ops \subseteq log)
    /\ b > 0 => \E f \in Live : b <= f.maxSeq
    /\ mem \subseteq Since(b)

LEMMA StoppedLog ==
  ASSUME NoWindow, MayStop, Inv, Up, NEW w \in Survivors
  PROVE  \E b \in 0..committed : Found(w, b)
<1>1. Typed /\ committed \in Nat /\ wal \in Seq(Records) /\ walSafe \in Seq(Records)
      /\ log \in SUBSET Entry
  BY DEF Inv, DirInv, Typed
<1>2. PICK a \in 0..committed, bw \in 0..committed, bs \in 0..committed : Logged(a, bw, bs)
  BY DEF Inv, LogInv
<1>3. mem \subseteq Since(bw) /\ mem \subseteq Since(bs)
  <2>1. \A e \in log : e.seq \in Nat
    BY <1>1 DEF Entry
  <2> QED
    BY <1>1, <1>2, <2>1 DEF Logged, Since
<1>4. \A v \in {wal, walSafe} : \A i \in DOMAIN v :
         /\ v[i] = Torn => i = Len(v)
         /\ v[i] = Record(batch, committed + 1) \/ v[i].ops \subseteq log
  <2>1. \A v \in {wal, walSafe} : \A i \in DOMAIN v : i \in 1..Len(v) /\ Len(v) \in Nat
    BY <1>1
  <2> QED
    BY <2>1, NotExposed
<1>5. w \in Seq(Records)
      /\ \/ w = walSafe
         \/ \E n \in 0..Len(wal) :
                  /\ IsPrefix(walSafe, wal) => Len(walSafe) <= n
                  /\ \A i \in 1..n : i \in DOMAIN w /\ w[i] = wal[i]
                  /\ Len(w) = n \/ (n < Len(wal) /\ Len(w) = n + 1 /\ w[n + 1] = Torn)
  BY <1>1, SurvivorIs
<1>6. CASE w = walSafe
  <2>1. Found(w, bs)
    BY <1>2, <1>3, <1>4, <1>6 DEF Found, Logged
  <2> QED
    BY <2>1
<1>7. ASSUME NEW n \in 0..Len(wal),
             IsPrefix(walSafe, wal) => Len(walSafe) <= n,
             \A i \in 1..n : i \in DOMAIN w /\ w[i] = wal[i],
             Len(w) = n \/ (n < Len(wal) /\ Len(w) = n + 1 /\ w[n + 1] = Torn)
      PROVE  Found(w, bw)
  <2>1. \A i \in DOMAIN w : \/ i \in 1..n /\ i \in DOMAIN wal /\ w[i] = wal[i]
                            \/ i = n + 1 /\ Len(w) = n + 1 /\ n < Len(wal) /\ w[i] = Torn
    BY <1>1, <1>5, <1>7
  <2>2. BackTo(w, bw)
    BY <1>2, <2>1 DEF Logged, BackTo
  <2>3. Since(bw) \subseteq OpsOf(w)
    <3>1. CASE Since(bw) = {}
      BY <3>1
    <3>2. CASE IsPrefix(walSafe, wal) /\ Since(bw) \subseteq OpsOf(walSafe)
      <4>1. \A i \in DOMAIN walSafe : i \in DOMAIN wal /\ wal[i] = walSafe[i]
        BY <1>1, <3>2, PrefixElements
      <4>2. \A i \in DOMAIN walSafe : i \in 1..n
        BY <1>1, <1>7, <3>2
      <4>3. \A i \in DOMAIN walSafe : i \in DOMAIN w /\ w[i] = walSafe[i]
        BY <1>7, <4>1, <4>2
      <4> QED
        BY <3>2, <4>3 DEF OpsOf
    <3> QED
      BY <1>2, <3>1, <3>2 DEF Logged
  <2>4. ASSUME NEW i \in DOMAIN w
        PROVE  \/ w[i] = Torn /\ i = Len(w)
               \/ w[i] # Torn /\ (w[i] = Record(batch, committed + 1) \/ w[i].ops \subseteq log)
    <3>1. CASE i = n + 1 /\ Len(w) = n + 1 /\ w[i] = Torn
      BY <3>1
    <3>2. CASE i \in 1..n /\ i \in DOMAIN wal /\ w[i] = wal[i]
      <4>1. wal[i] = Torn => i = Len(wal)
        BY <1>4, <3>2
      <4>2. wal[i] = Torn => i = Len(w)
        BY <1>1, <1>5, <1>7, <3>2, <4>1
      <4> QED
        BY <1>4, <3>2, <4>2
    <3> QED
      BY <2>1, <3>1, <3>2
  <2> QED
    BY <1>2, <1>3, <2>2, <2>3, <2>4 DEF Found, Logged
<1> QED
  BY <1>5, <1>6, <1>7

LEMMA StopStep ==
  ASSUME NoWindow, Inv, Next, Up, ~Up'
  PROVE  DownInv'
<1>1. Typed /\ History /\ log \in SUBSET Entry /\ reclaimed \in Nat /\ committed \in Nat
  BY DEF Inv, DirInv, Typed
<1>2. Crash \/ Close
  <2> USE DEF Up
  <2>1. CASE CommitStep
    BY <2>1 DEF CommitStep, Append_, AppendTears, SyncFails, SyncWal, Publish
  <2>2. CASE FlushStep
    BY <2>2 DEF FlushStep, FlushNotDue, FlushWrite, FlushSwap, CutLog, CutSync, WriteRun
  <2>3. CASE CompactStep
    BY <2>3 DEF CompactStep, CompactNotDue, CompactWrite, WriteRun, CompactSwap, UnlinkOne,
                UnlinkDone
  <2>4. CASE UpgradeWrite
    <3>1. phase' = "rewritten"
      BY <2>4 DEF UpgradeWrite, WriteRun
    <3> QED
      BY <3>1
  <2>5. CASE UpgradeStep
    BY <2>4, <2>5 DEF UpgradeStep, UpgradeBegin, UpgradeSwap, UpgradeUnlink, UpgradeFails,
                      UpgradeEnd
  <2>6. CASE MaintenanceFails \/ Open
    BY <2>6 DEF MaintenanceFails, Open
  <2> QED
    BY <2>1, <2>2, <2>3, <2>5, <2>6 DEF Next
<1>3. MayStop /\ UNCHANGED <<committed, batch, log, reclaimed>>
  BY <1>2 DEF Crash, Close, ghosts
<1>4. PICK d \in SurvivingDirs : dirSafe' = d
  BY <1>1, <1>2, DirSurvives DEF Crash, Close
<1>5. PICK w \in Survivors : wal' = w
  BY <1>1, <1>2, WalSurvives DEF Crash, Close
<1>6. /\ Live \subseteq d /\ d \in SUBSET Files
      /\ Entries(d) \subseteq LiveEntries \cup mem
      /\ Ordered(d, reclaimed)
      /\ \A f, g \in d : f.num < g.num => f.maxSeq <= g.maxSeq
  BY <1>3, StoppedDir
<1>7. PICK b \in 0..committed : Found(w, b)
  BY <1>3, StoppedLog
<1>8. LiveEntries \subseteq log /\ mem \subseteq log /\ Unique(log)
  BY StoredIs
<1>9. Faithful(Entries(d) \cup Since(b), log, reclaimed)
  <2> DEFINE S == LiveEntries \cup mem
             X == Since(b)
  <2>1. S \in SUBSET log /\ X \in SUBSET log /\ log \cup X = log
    BY <1>8 DEF Since
  <2>2. \A e \in log : e.seq \in Nat
    BY <1>1 DEF Entry
  <2>3. \A x \in X, e \in log : e.key = x.key /\ x.seq < e.seq => e \in X
    BY <2>2 DEF Since
  <2>4. Faithful(S, log, reclaimed)
    BY DEF Inv, FilesInv
  <2>5. LiveEntries \subseteq Entries(d)
    BY <1>6 DEF LiveEntries, Entries
  <2>6. mem \subseteq X
    BY <1>7 DEF Found
  <2>7. S \cup X = Entries(d) \cup X
    BY <1>6, <2>5, <2>6
  <2> HIDE DEF S, X
  <2>8. X \in SUBSET Entry /\ Unique(log \cup X)
    BY <1>1, <1>8, <2>1
  <2>9. Faithful(S \cup X, log \cup X, reclaimed)
    BY <1>1, <2>1, <2>3, <2>4, <2>8, FaithfulWith
  <2>10. Faithful(Entries(d) \cup X, log, reclaimed)
    BY <2>1, <2>7, <2>9
  <2> QED
    BY <2>10 DEF X
<1>10. Recoverable(b)'
  <2>1. Since(b)' = Since(b) /\ OpsOf(wal)' = OpsOf(w) /\ BackTo(wal, b)' = BackTo(w, b)
        /\ Entries(dirSafe)' = Entries(d)
    BY <1>3, <1>4, <1>5 DEF Since, OpsOf, BackTo, Entries
  <2>2. Faithful(Entries(dirSafe) \cup Since(b), log, reclaimed)'
    BY <1>3, <1>9, <2>1
  <2>3. /\ \A i \in DOMAIN wal' :
              \/ wal'[i] = Torn /\ i = Len(wal')
              \/ /\ wal'[i] # Torn
                 /\ wal'[i] = Record(batch', committed' + 1) \/ wal'[i].ops \subseteq log'
        /\ b > 0 => \E f \in dirSafe' : b <= f.maxSeq
    BY <1>3, <1>4, <1>5, <1>6, <1>7 DEF Found
  <2> QED
    BY <1>7, <2>1, <2>2, <2>3 DEF Recoverable, Found
<1>11. \A f \in d : f.entries \subseteq log
  BY <1>6, <1>8 DEF Entries
<1>12. Ordered(dirSafe', reclaimed')
  BY <1>3, <1>4, <1>6
<1> QED
  BY <1>3, <1>4, <1>6, <1>7, <1>10, <1>11, <1>12 DEF DownInv

-------------------------------------------------------------------------------
(* The next open.                                                            *)

(* The record of the commit in flight survived.                              *)
InFlight(w) == \E i \in DOMAIN w : w[i] = Record(batch, committed + 1)

(* Replay reads all the log but a last record that was cut short.            *)
LEMMA IntactLog ==
  ASSUME Typed, NEW b \in Nat, Recoverable(b), NEW w, w = Intact(wal)
  PROVE  /\ w \in Seq(Records) /\ OpsOf(w) = OpsOf(wal)
         /\ \A i \in DOMAIN w :
               /\ w[i] \in Records /\ w[i] # Torn
               /\ w[i].seq > b /\ w[i].seq <= committed + 1
               /\ w[i] = Record(batch, committed + 1) \/ w[i].ops \subseteq log
<1>1. wal \in Seq(Records) /\ \A i \in DOMAIN wal : wal[i].seq <= committed + 1
  BY DEF Typed
<1>2. PICK n \in 0..Len(wal) : /\ w = SubSeq(wal, 1, n)
                               /\ \A i \in 1..n : wal[i] # Torn
                               /\ n < Len(wal) => wal[n + 1] = Torn
  BY <1>1, IntactIs
<1>3. w \in Seq(Records) /\ Len(w) = n /\ \A i \in 1..n : i \in DOMAIN wal /\ w[i] = wal[i]
  BY <1>1, <1>2, PrefixIs
<1>4. DOMAIN w = 1..n /\ DOMAIN wal = 1..Len(wal)
  BY <1>1, <1>3
<1>5. n = Len(wal) \/ (n + 1 = Len(wal) /\ wal[n + 1] = Torn)
  <2>1. CASE n < Len(wal)
    <3>1. n + 1 \in DOMAIN wal /\ wal[n + 1] = Torn
      BY <1>1, <1>2, <2>1
    <3> QED
      BY <3>1 DEF Recoverable
  <2> QED
    BY <1>1, <2>1
<1>6. Torn.ops = {}
  BY DEF Torn
<1>7. OpsOf(w) = OpsOf(wal)
  <2>1. \A i \in DOMAIN w : i \in DOMAIN wal /\ w[i] = wal[i]
    BY <1>3, <1>4
  <2>2. ASSUME NEW i \in DOMAIN wal
        PROVE  (i \in DOMAIN w /\ w[i] = wal[i]) \/ wal[i].ops = {}
    <3>0. i \in 1..Len(wal) /\ Len(wal) \in Nat
      BY <1>1
    <3>1. i \in 1..n \/ (i = n + 1 /\ wal[i] = Torn)
      BY <1>5, <3>0
    <3> QED
      BY <1>3, <1>4, <1>6, <3>1
  <2> QED
    BY <2>1, <2>2 DEF OpsOf
<1>8. ASSUME NEW i \in DOMAIN w
      PROVE  /\ w[i] \in Records /\ w[i] # Torn
             /\ w[i].seq > b /\ w[i].seq <= committed + 1
             /\ w[i] = Record(batch, committed + 1) \/ w[i].ops \subseteq log
  <2>1. i \in 1..n /\ i \in DOMAIN wal /\ w[i] = wal[i] /\ wal[i] # Torn /\ w[i] \in Records
    BY <1>2, <1>3, <1>4
  <2> QED
    BY <1>1, <2>1 DEF Recoverable, BackTo
<1> QED
  BY <1>3, <1>7, <1>8

(* What open counts as committed, and what it puts in the memtable.          *)
LEMMA OpenedLog ==
  ASSUME Inv, ~Up, Open, NEW b \in 0..committed, Recoverable(b), NEW w, w = Intact(wal)
  PROVE  /\ log' = log \cup OpsOf(w) /\ Unique(log')
         /\ mem' = OpsOf(w) /\ Since(b)' = OpsOf(w)
         /\ Since(b) \subseteq OpsOf(w)
         /\ committed' \in Nat /\ committed <= committed'
         /\ \A e \in log' : e.seq > 0 /\ e.seq <= committed'
         /\ committed' > 0 => \E e \in log' : e.seq = committed'
<1> DEFINE R == Record(batch, committed + 1)
           St == Stamp(batch, committed + 1)
<1>1. /\ Typed /\ committed \in Nat /\ committed + 1 \in Nat /\ b \in Nat
      /\ batch \in Batches \cup {NoBatch} /\ log \in SUBSET Entry /\ dirSafe \in SUBSET Files
  BY DEF Inv, DirInv, Typed
<1>2. /\ w \in Seq(Records) /\ OpsOf(w) = OpsOf(wal)
      /\ \A i \in DOMAIN w :
            /\ w[i] \in Records /\ w[i] # Torn
            /\ w[i].seq > b /\ w[i].seq <= committed + 1
            /\ w[i] = R \/ w[i].ops \subseteq log
  BY <1>1, IntactLog
<1>3. /\ mem' = Replayed(w) /\ committed' = OpenSeq(dirSafe, w)
      /\ log' = log \cup {e \in St : InFlight(w)}
  BY DEF Open, InFlight
<1>4. \A i \in DOMAIN w : /\ w[i].seq \in Nat /\ w[i].ops \in SUBSET Entry /\ w[i].ops # {}
                          /\ \A e \in w[i].ops : e.seq = w[i].seq
  BY <1>2, RecordType
<1>5. R.ops = St /\ R.seq = committed + 1 /\ St \in SUBSET Entry
      /\ (\A e \in St : e.seq = committed + 1) /\ \A e, f \in St : e.key = f.key => e = f
  BY <1>1, StampIsEntries DEF Record, Stamp
<1>6. \A e \in log : e.seq \in Nat /\ e.seq > 0 /\ e.seq <= committed
  BY <1>1 DEF Inv, History, Entry
<1>7. InFlight(w) = \E i \in DOMAIN w : w[i] = R
  BY DEF InFlight
<1> HIDE DEF R, St
<1>8. Since(b) \subseteq OpsOf(w)
  BY <1>2 DEF Recoverable
<1>9. log' = log \cup OpsOf(w)
  <2>1. \A e \in OpsOf(w) : e \in log \/ (e \in St /\ InFlight(w))
    BY <1>2, <1>5, <1>7 DEF OpsOf
  <2>2. ASSUME InFlight(w) PROVE St \subseteq OpsOf(w)
    <3>1. PICK i \in DOMAIN w : w[i] = R
      BY <1>7, <2>2
    <3>2. w[i].ops = St
      BY <1>5, <3>1
    <3> QED
      BY <3>2 DEF OpsOf
  <2> QED
    BY <1>3, <2>1, <2>2
<1>10. Unique(log')
  <2>1. Unique(log)
    BY DEF Inv, History
  <2>2. \A e \in log, f \in St : e.seq # f.seq
    BY <1>1, <1>5, <1>6
  <2>3. \A e \in log' : e \in log \/ e \in St
    BY <1>3
  <2>4. ASSUME NEW e \in log', NEW f \in log', e.key = f.key, e.seq = f.seq
        PROVE  e = f
    BY <1>5, <2>1, <2>2, <2>3, <2>4 DEF Unique
  <2> QED
    BY <2>4 DEF Unique
<1>11. mem' = OpsOf(w)
  <2> DEFINE s == [i \in DOMAIN w |-> w[i].ops]
  <2>1. Runs(s) = OpsOf(w)
    BY DEF Runs, OpsOf
  <2>2. Unique(Runs(s))
    BY <1>9, <1>10, <2>1 DEF Unique
  <2>3. Replayed(w) = Merge(s)
    BY DEF Replayed
  <2> HIDE DEF s
  <2> QED
    BY <1>3, <2>1, <2>2, <2>3, MergeIsUnion
<1>12. Since(b)' = OpsOf(w)
  <2>1. \A e \in OpsOf(w) : e.seq > b
    BY <1>2, <1>4 DEF OpsOf
  <2>2. \A e \in log' : e.seq > b => e \in OpsOf(w)
    BY <1>8, <1>9 DEF Since
  <2> QED
    BY <1>9, <2>1, <2>2 DEF Since
<1>13. \A f \in dirSafe : f.maxSeq \in Nat /\ f.maxSeq <= committed
  BY <1>1, FileType DEF Typed
<1>14. /\ committed' \in Nat
       /\ \A f \in dirSafe : f.maxSeq <= committed'
       /\ \A i \in DOMAIN w : w[i].seq <= committed'
       /\ \/ committed' = 0
          \/ \E f \in dirSafe : f.maxSeq = committed'
          \/ \E i \in DOMAIN w : w[i].seq = committed'
  <2>1. \A f \in dirSafe : f.maxSeq <= committed + 1
    BY <1>1, <1>13
  <2> QED
    BY <1>1, <1>2, <1>3, <2>1, OpenSeqIs
<1>15. committed <= committed'
  <2>1. CASE committed = 0
    BY <1>14, <2>1
  <2>2. CASE committed > 0 /\ b < committed
    <3>1. PICK e \in log : e.seq = committed
      BY <2>2 DEF Inv, History
    <3>2. e \in Since(b)
      BY <2>2, <3>1 DEF Since
    <3>3. PICK i \in DOMAIN w : e \in w[i].ops
      BY <1>8, <3>2 DEF OpsOf
    <3> QED
      BY <1>4, <1>14, <3>1, <3>3
  <2>3. CASE committed > 0 /\ b = committed
    <3>1. PICK f \in dirSafe : b <= f.maxSeq
      BY <2>3 DEF Recoverable
    <3> QED
      BY <1>1, <1>13, <1>14, <2>3, <3>1
  <2> QED
    BY <1>1, <2>1, <2>2, <2>3
<1>16. \A e \in log' : e.seq > 0 /\ e.seq <= committed'
  <2>1. \A e \in OpsOf(w) : e.seq > 0 /\ e.seq <= committed'
    BY <1>1, <1>2, <1>4, <1>14 DEF OpsOf
  <2>2. \A e \in log : e.seq > 0 /\ e.seq <= committed'
    BY <1>1, <1>6, <1>14, <1>15
  <2> QED
    BY <1>9, <2>1, <2>2
<1>17. ASSUME committed' > 0 PROVE \E e \in log' : e.seq = committed'
  <2>1. ASSUME NEW i \in DOMAIN w, w[i].seq = committed'
        PROVE  \E e \in log' : e.seq = committed'
    <3>1. PICK e : e \in w[i].ops
      BY <1>4
    <3>2. e \in log' /\ e.seq = committed'
      BY <1>4, <1>9, <2>1, <3>1 DEF OpsOf
    <3> QED
      BY <3>2
  <2>2. ASSUME NEW f \in dirSafe, f.maxSeq = committed'
        PROVE  \E e \in log' : e.seq = committed'
    <3>1. committed' = committed
      BY <1>1, <1>13, <1>14, <1>15, <2>2
    <3> QED
      BY <1>9, <1>17, <3>1 DEF Inv, History
  <2> QED
    BY <1>14, <1>17, <2>1, <2>2
<1> QED
  BY <1>8, <1>9, <1>10, <1>11, <1>12, <1>14, <1>15, <1>16, <1>17

LEMMA OpenStep ==
  ASSUME Inv, ~Up, Open
  PROVE  History' /\ LogInv' /\ FilesInv' /\ WriterInv' /\ Up'
<1> DEFINE w == Intact(wal)
<1>1. /\ Typed /\ Numbered /\ History /\ DownInv /\ committed \in Nat /\ reclaimed \in Nat
      /\ log \in SUBSET Entry /\ dirSafe \in SUBSET Files
  BY DEF Inv, DirInv, Typed
<1>2. PICK b \in 0..committed : Recoverable(b)
  BY <1>1 DEF DownInv
<1>3. /\ log' = log \cup OpsOf(w) /\ Unique(log')
      /\ mem' = OpsOf(w) /\ Since(b)' = OpsOf(w)
      /\ Since(b) \subseteq OpsOf(w)
      /\ committed' \in Nat /\ committed <= committed'
      /\ \A e \in log' : e.seq > 0 /\ e.seq <= committed'
      /\ committed' > 0 => \E e \in log' : e.seq = committed'
  BY <1>2, OpenedLog
<1>4. /\ w \in Seq(Records) /\ \A i \in DOMAIN w : w[i] \in Records /\ w[i].seq > b
  BY <1>1, <1>2, IntactLog
<1>5. /\ runs' \in Listings(dirSafe) /\ wal' = w /\ walSafe' = w /\ phase' = "idle"
      /\ UNCHANGED <<dirSafe, dirOps, reclaimed>>
  BY DEF Open
<1>6. DOMAIN dirOps' = {}
  BY <1>1, <1>5 DEF Numbered
<1> HIDE DEF w
<1>7. /\ \A i \in DOMAIN runs' : runs'[i] \in dirSafe
      /\ \A f \in dirSafe : \E i \in DOMAIN runs' : runs'[i] = f
      /\ \A i, j \in DOMAIN runs' : i < j => runs'[i].num < runs'[j].num
  BY <1>1, <1>5, ListingIs DEF Numbered
<1>8. Live' = dirSafe /\ Live' = dirSafe'
  BY <1>5, <1>7 DEF Live
<1>9. History'
  <2>1. reclaimed' <= committed'
    BY <1>1, <1>3, <1>5 DEF History
  <2>2. Unique(log)'
    BY <1>3 DEF Unique
  <2> QED
    BY <1>3, <2>1, <2>2 DEF History
<1>10. Up' /\ WriterInv'
  BY <1>5 DEF Up, WriterInv
<1>11. LogInv'
  <2>1. b \in 0..committed' /\ b <= b
    BY <1>1, <1>2, <1>3
  <2>2. BackTo(w, b)
    BY <1>4 DEF BackTo
  <2>3. IsPrefix(w, w)
    BY <1>4, ElementsPrefix
  <2>4. b > 0 => \E f \in Live' : b <= f.maxSeq
    BY <1>2, <1>8 DEF Recoverable
  <2>5. OpsOf(walSafe)' = OpsOf(w)
    BY <1>5 DEF OpsOf
  <2>6. Logged(b, b, b)'
    BY <1>3, <1>5, <2>1, <2>2, <2>3, <2>4, <2>5 DEF Logged, BackTo
  <2> QED
    BY <1>5, <2>1, <2>6 DEF LogInv
<1>12. FilesInv'
  <2>1. \A f \in dirSafe' : f.entries \subseteq log'
    BY <1>1, <1>3, <1>5 DEF DownInv
  <2>2. Kept' = dirSafe
    BY <1>5, <1>8 DEF Kept
  <2>3. Ordered(Kept', reclaimed')
    BY <1>1, <1>5, <2>2 DEF DownInv
  <2>4. \A i, j \in DOMAIN runs' : i < j => runs'[i].maxSeq <= runs'[j].maxSeq
    BY <1>1, <1>7 DEF DownInv
  <2>5. LiveEntries' = Entries(dirSafe)
    BY <1>8 DEF LiveEntries, Entries
  <2>6. \A f \in dirSafe' : f.entries \subseteq LiveEntries'
    BY <1>5, <2>5 DEF Entries
  <2>7. \A f \in dirSafe' : \E g \in Live' : f.maxSeq <= g.maxSeq
    BY <1>1, <1>8, FileType
  <2>8. Faithful(LiveEntries' \cup mem', log', reclaimed')
    <3> DEFINE S == Entries(dirSafe) \cup Since(b)
               X == OpsOf(w)
    <3>1. Entries(dirSafe) \subseteq log
      BY <1>1 DEF DownInv, Entries
    <3>2. S \in SUBSET log /\ Faithful(S, log, reclaimed)
      BY <1>2, <3>1 DEF Recoverable, Since
    <3>3. X \in SUBSET Entry
      BY <1>4, RecordType DEF OpsOf
    <3>4. Unique(log \cup X)
      BY <1>3
    <3>5. \A e \in log : e.seq \in Nat
      BY <1>1 DEF Entry
    <3>6. \A x \in X : x.seq > b /\ x.seq \in Nat
      BY <1>4, RecordType DEF OpsOf
    <3>7. \A x \in X, e \in log : e.key = x.key /\ x.seq < e.seq => e \in X
      BY <1>1, <1>3, <3>5, <3>6 DEF Since
    <3>8. S \cup X = LiveEntries' \cup mem' /\ log \cup X = log'
      BY <1>3, <2>5
    <3> HIDE DEF S, X
    <3>9. Faithful(S \cup X, log \cup X, reclaimed)
      BY <1>1, <3>2, <3>3, <3>4, <3>7, FaithfulWith
    <3> QED
      BY <1>5, <3>8, <3>9
  <2> QED
    BY <1>6, <2>1, <2>3, <2>4, <2>6, <2>7, <2>8 DEF FilesInv
<1> QED
  BY <1>9, <1>10, <1>11, <1>12

-------------------------------------------------------------------------------
(* The invariant.                                                            *)

LEMMA InvInit == Init => Inv
<1> SUFFICES ASSUME Init PROVE Inv
  OBVIOUS
<1>1. /\ Whole(runs) /\ runs \in Seq(Files) /\ dirSafe = Live /\ dirSafe \in SUBSET Files
      /\ log = Entries(dirSafe) /\ log \in SUBSET Entry
  BY StoreIs DEF Live
<1>2. DirInv
  BY DirInit
<1>3. /\ phase = "idle" /\ mem = {} /\ wal = <<>> /\ walSafe = <<>> /\ dirOps = <<>>
      /\ reclaimed = 0
  BY DEF Init
<1>4. committed \in Nat /\ \A f \in dirSafe : f.maxSeq <= committed
  BY <1>2 DEF DirInv, Typed
<1>5. committed > 0 => \E f \in dirSafe : f.maxSeq = committed
  <2> DEFINE S == {0} \cup {f.maxSeq : f \in dirSafe}
  <2>1. S \in SUBSET Nat /\ S # {} /\ \A x \in S : x <= committed
    BY <1>1, <1>4, FileType
  <2>2. committed = GreatestOf(S)
    BY DEF Init
  <2>3. committed \in S
    BY <1>4, <2>1, <2>2, GreatestIs
  <2> QED
    BY <2>3
<1>6. \A i \in DOMAIN runs :
         /\ runs[i] \in Files /\ runs[i].entries \in SUBSET Entry /\ runs[i].maxSeq \in Nat
         /\ \A e \in runs[i].entries : e.seq > 0 /\ e.seq <= runs[i].maxSeq
         /\ \E e \in runs[i].entries : e.seq = runs[i].maxSeq
  BY <1>1, FileType DEF Whole
<1>7. \A f \in dirSafe :
         /\ f.entries \in SUBSET Entry /\ f.maxSeq \in Nat
         /\ \A e \in f.entries : e.seq \in Nat /\ e.seq > 0 /\ e.seq <= f.maxSeq
         /\ \E e \in f.entries : e.seq = f.maxSeq
  BY <1>1, <1>6 DEF Live, Entry
<1>8. History
  <2>1. Unique(log)
    <3>1. log = UNION {runs[i].entries : i \in DOMAIN runs}
      BY <1>1 DEF Entries, Live
    <3> QED
      BY <1>1, <3>1 DEF Whole, Unique
  <2>2. \A e \in log : e.seq > 0 /\ e.seq <= committed
    BY <1>1, <1>4, <1>7 DEF Entries
  <2>3. committed > 0 => \E e \in log : e.seq = committed
    BY <1>1, <1>5, <1>7 DEF Entries
  <2> QED
    BY <1>3, <1>4, <2>1, <2>2, <2>3 DEF History
<1>9. LogInv
  <2>1. Since(committed) = {}
    BY <1>2, <1>8, SinceNow DEF DirInv
  <2>2. \A f \in Live : f.maxSeq = committed => committed <= f.maxSeq
    BY <1>4
  <2>3. Logged(committed, committed, committed)
    BY <1>1, <1>3, <1>4, <1>5, <2>1, <2>2 DEF Logged, BackTo
  <2>4. committed \in 0..committed
    BY <1>4
  <2> QED
    BY <1>3, <2>3, <2>4 DEF LogInv
<1>10. FilesInv
  <2>1. Kept = dirSafe /\ LiveEntries = log /\ LiveEntries \cup mem = log /\ DOMAIN dirOps = {}
    BY <1>1, <1>3 DEF Kept, LiveEntries
  <2>2. \A f \in dirSafe : f.entries \subseteq log
    BY <1>1 DEF Entries
  <2>3. \A i, j \in DOMAIN runs : i < j => runs[i].maxSeq < runs[j].maxSeq
    BY OldestNumbers
  <2>4. \A i, j \in DOMAIN runs : i < j => runs[i].maxSeq <= runs[j].maxSeq
    BY <1>6, <2>3
  <2>5. Ordered(dirSafe, reclaimed)
    <3> SUFFICES ASSUME NEW f \in dirSafe, NEW g \in dirSafe, f.maxSeq <= g.maxSeq
                 PROVE  Covers(g.entries, f.entries, reclaimed)
      BY DEF Ordered
    <3>1. PICK i \in DOMAIN runs : f = runs[i]
      BY <1>1 DEF Live
    <3>2. PICK j \in DOMAIN runs : g = runs[j]
      BY <1>1 DEF Live
    <3>3. i \in Nat /\ j \in Nat
      BY <1>1
    <3>4. i = j \/ i < j
      <4>1. ~(j < i)
        BY <1>6, <2>3, <3>1, <3>2
      <4> QED
        BY <3>3, <4>1
    <3>5. CASE i = j
      BY <3>1, <3>2, <3>5 DEF Covers
    <3>6. CASE i < j
      <4>1. \A e \in f.entries, x \in g.entries : e.seq < x.seq
        BY <1>1, <3>1, <3>2, <3>6 DEF Whole
      <4>2. \A e \in f.entries, x \in g.entries : ~(x.seq < e.seq)
        BY <1>7, <4>1
      <4> QED
        BY <4>2 DEF Covers
    <3> QED
      BY <3>4, <3>5, <3>6
  <2>6. Faithful(log, log, reclaimed)
    BY DEF Faithful
  <2>7. \A f \in dirSafe : \E g \in Live : f.maxSeq <= g.maxSeq
    BY <1>1, <1>7
  <2> QED
    BY <2>1, <2>2, <2>4, <2>5, <2>6, <2>7 DEF FilesInv
<1>11. Up /\ WriterInv
  BY <1>3 DEF Up, WriterInv
<1> QED
  BY <1>2, <1>8, <1>9, <1>10, <1>11 DEF Inv

LEMMA InvStep ==
  ASSUME NoWindow, Inv, [Next]_vars
  PROVE  Inv'
<1>1. DirInv'
  BY TypedStep, NumberedStep, LinkingStep DEF Inv, DirInv
<1>2. CASE UNCHANGED vars
  <2>1. History' /\ (Up' => LogInv' /\ FilesInv' /\ WriterInv') /\ (~Up' => DownInv')
    <3> USE DEF vars, memVars, diskVars, bounds, ghosts
    <3>1. History' = History
      BY <1>2 DEF History, Unique
    <3>2. Live' = Live /\ LiveEntries' = LiveEntries /\ Kept' = Kept /\ Up' = Up
          /\ Legacy' = Legacy
      BY <1>2 DEF Live, LiveEntries, Entries, Kept, Up, Legacy
    <3>3. LogInv => LogInv'
      BY <1>2, <3>2 DEF LogInv, Logged, Since, BackTo, OpsOf
    <3>4. FilesInv => FilesInv'
      BY <1>2, <3>2 DEF FilesInv
    <3>5. WriterInv => WriterInv'
      BY <1>2, <3>2 DEF WriterInv
    <3>6. DownInv => DownInv'
      BY <1>2 DEF DownInv, Recoverable, Since, BackTo, OpsOf, Entries
    <3> QED
      BY <3>1, <3>2, <3>3, <3>4, <3>5, <3>6 DEF Inv
  <2> QED
    BY <1>1, <2>1 DEF Inv
<1>3. CASE Next /\ ~Open /\ Up
  <2>1. History'
    BY <1>3, HistoryStep
  <2>2. Up' => LogInv' /\ FilesInv' /\ WriterInv'
    BY <1>3, LogStep, FilesStep, WriterStep
  <2>3. ~Up' => DownInv'
    BY <1>3, StopStep
  <2> QED
    BY <1>1, <2>1, <2>2, <2>3 DEF Inv
<1>4. CASE Open
  <2>1. ~Up
    BY <1>4 DEF Open, Up
  <2>2. History' /\ LogInv' /\ FilesInv' /\ WriterInv' /\ Up'
    BY <1>4, <2>1, OpenStep
  <2> QED
    BY <1>1, <2>2 DEF Inv
<1>5. CASE Next /\ ~Open /\ ~Up
  <2> USE DEF Up
  <2>1. ~CommitStep
    BY <1>5 DEF CommitStep, Append_, AppendTears, SyncFails, SyncWal, Publish
  <2>2. ~FlushStep
    BY <1>5 DEF FlushStep, FlushNotDue, FlushWrite, FlushSwap, CutLog, CutSync
  <2>3. ~CompactStep
    BY <1>5 DEF CompactStep, CompactNotDue, CompactWrite, CompactSwap, UnlinkOne, UnlinkDone
  <2>4. ~UpgradeStep
    BY <1>5 DEF UpgradeStep, UpgradeBegin, UpgradeWrite, UpgradeSwap, UpgradeUnlink,
                UpgradeFails, UpgradeEnd
  <2>5. ~MaintenanceFails /\ ~Crash /\ ~Close
    BY <1>5 DEF MaintenanceFails, Crash, Close
  <2> QED
    BY <1>5, <2>1, <2>2, <2>3, <2>4, <2>5 DEF Next
<1> QED
  BY <1>2, <1>3, <1>4, <1>5

LEMMA InvIsInvariant ==
  ASSUME NoWindow
  PROVE  Spec => []Inv
<1>1. Inv /\ [Next]_vars => Inv'
  BY InvStep
<1> QED
  BY InvInit, <1>1, PTL DEF Spec

(* A read finds what was committed.                                          *)
LEMMA ReadsAreFaithful ==
  ASSUME Inv, Up, NEW k \in Keys, NEW s \in Nat, reclaimed <= s
  PROVE  Get(k, s) = Resolve(log, k, s)
<1>1. /\ FilesInv /\ DirInv /\ runs \in Seq(Files) /\ mem \in SUBSET Entry /\ reclaimed \in Nat
  BY DEF Inv, DirInv, Typed
<1>2. LiveEntries \subseteq log /\ mem \subseteq log /\ log \in SUBSET Entry /\ Unique(log)
  BY StoredIs
<1>3. \A i \in DOMAIN runs : /\ runs[i] \in Files /\ runs[i].entries \in SUBSET Entry
                             /\ runs[i] \in Live /\ runs[i].entries \subseteq log
  <2>1. \A i \in DOMAIN runs : runs[i] \in Files /\ runs[i] \in Live
    BY <1>1 DEF Live
  <2> QED
    BY <1>2, <2>1, FileType DEF LiveEntries, Entries
<1>4. RunEntries \in Seq(SUBSET Entry) /\ DOMAIN RunEntries = DOMAIN runs
      /\ \A i \in DOMAIN runs : RunEntries[i] = runs[i].entries
  BY <1>1, <1>3 DEF RunEntries
<1>5. Runs(RunEntries) = LiveEntries
  BY <1>4 DEF Runs, LiveEntries, Entries, Live
<1>6. ASSUME NEW i \in DOMAIN RunEntries, NEW j \in DOMAIN RunEntries, i < j
      PROVE  Covers(RunEntries[j], RunEntries[i], reclaimed)
  <2>1. runs[i].maxSeq <= runs[j].maxSeq
    BY <1>1, <1>4, <1>6 DEF FilesInv
  <2>2. runs[i] \in Kept /\ runs[j] \in Kept
    BY <1>1, <1>3, <1>4, KeptIs
  <2> QED
    BY <1>1, <1>4, <2>1, <2>2 DEF FilesInv, Ordered
<1>7. ASSUME NEW i \in DOMAIN RunEntries PROVE Covers(mem, RunEntries[i], reclaimed)
  BY <1>3, <1>4, MemIsNewest DEF Covers
<1>8. Unique(mem \cup Runs(RunEntries))
  BY <1>2, <1>5 DEF Unique
<1>9. Get(k, s) = Resolve(mem \cup Runs(RunEntries), k, s)
  BY <1>1, <1>4, <1>6, <1>7, <1>8, GetReadsCovered DEF Get
<1>10. mem \cup Runs(RunEntries) = LiveEntries \cup mem
  BY <1>5
<1>11. Faithful(LiveEntries \cup mem, log, reclaimed)
  BY <1>1 DEF FilesInv
<1> QED
  BY <1>1, <1>9, <1>10, <1>11 DEF Faithful

(* Durability and atomicity of commit: whatever of the log and the directory *)
(* survives a crash, open_with_options finds the batches that commit         *)
(* returned Ok for, whole, and no part of another; a flush, a compaction or  *)
(* an upgrade that stops or fails half way loses none of them.               *)
THEOREM CommitsAreDurable ==
  ASSUME NoWindow
  PROVE  Spec => []NothingLost
<1>1. Inv => NothingLost
  <2> SUFFICES ASSUME Inv, Up, NEW k \in Keys
               PROVE  Get(k, committed) = Resolve(log, k, committed)
    BY DEF NothingLost, Up
  <2>1. committed \in Nat /\ reclaimed <= committed
    BY DEF Inv, DirInv, Typed, History
  <2> QED
    BY <2>1, ReadsAreFaithful
<1> QED
  BY InvIsInvariant, <1>1, PTL

(* Time travel across crashes: every snapshot from the highest floor         *)
(* gc_versions was given up to the last commit reads as it did when it was   *)
(* the newest, whichever files the read goes through.                        *)
THEOREM SnapshotsSurvive ==
  ASSUME NoWindow
  PROVE  Spec => []HistoryKept
<1>1. Inv => HistoryKept
  <2> SUFFICES ASSUME Inv, Up, NEW k \in Keys, NEW s \in reclaimed..committed
               PROVE  Get(k, s) = Resolve(log, k, s)
    BY DEF HistoryKept, Up
  <2>1. s \in Nat /\ reclaimed <= s
    BY DEF Inv, DirInv, Typed
  <2> QED
    BY <2>1, ReadsAreFaithful
<1> QED
  BY InvIsInvariant, <1>1, PTL

(* The sequence open_with_options resumes from (the runs' max_seq and the    *)
(* replayed records) is that of the last commit, so commit never stamps two  *)
(* batches alike.                                                            *)
THEOREM SequencesAreNotReused ==
  ASSUME NoWindow
  PROVE  Spec => []SequenceStands
<1>1. Inv => SequenceStands
  <2> SUFFICES ASSUME Inv, Up PROVE committed = GreatestOf({0} \cup {e.seq : e \in log})
    BY DEF SequenceStands, Up
  <2> DEFINE S == {0} \cup {e.seq : e \in log}
  <2>1. committed \in Nat /\ \A e \in log : e.seq \in Nat /\ e.seq <= committed
    BY DEF Inv, DirInv, Typed, History, Entry
  <2>2. S \in SUBSET Nat /\ S # {} /\ \A x \in S : x <= committed
    BY <2>1
  <2>3. committed \in S
    BY <2>1 DEF Inv, History
  <2>4. GreatestOf(S) \in S /\ GreatestOf(S) \in Nat /\ \A x \in S : x <= GreatestOf(S)
    BY <2>1, <2>2, GreatestIs
  <2> HIDE DEF S
  <2>5. committed = GreatestOf(S)
    BY <2>1, <2>2, <2>3, <2>4
  <2> QED
    BY <2>5 DEF S
<1> QED
  BY InvIsInvariant, <1>1, PTL

===============================================================================
