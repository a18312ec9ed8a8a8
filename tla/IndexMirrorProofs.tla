-------------------------- MODULE IndexMirrorProofs --------------------------
(****************************************************************************)
(* The index registries follow the KV, for any nodes, values and writers    *)
(* and any number of commits, faults and crashes, on a schedule that keeps  *)
(* commits, their mirroring, ensure_vector_index and save_sidecars apart.   *)
(*                                                                          *)
(* The argument: at every point between a commit and the end of its         *)
(* mirroring, what is still to be applied would turn the registry into what *)
(* a rebuild from the KV would give.  A failed event of a vector index      *)
(* gives that up until the process ends, which is what `diverged` records,  *)
(* and nothing durable is taken from the registry meanwhile.  A keyword     *)
(* index that is behind would be saved and shipped, so of that kind it is   *)
(* shown that failed vector events do not put it behind, and assumed that   *)
(* failed batches do not.                                                   *)
(****************************************************************************)
EXTENDS IndexMirror, TLAPS

(* The schedules the theorems are about.  Snapshots may overlap anything, an *)
(* image apart; the other overlaps are races of the code (README, 5).  A     *)
(* failed batch may leave a vector index behind in any of the ways it can;   *)
(* of a keyword index the three properties are then false (README, 5).       *)
NoRace ==
    /\ Overlap \subseteq {"snapshot"} /\ Leftovers = {}
    /\ BatchFaults \subseteq {"vector"}

Types ==
    /\ kv \in Property /\ dsnap \in Property
    /\ declared \in BOOLEAN /\ diverged \in BOOLEAN
    /\ seq \in Nat
    /\ registry \in Registries
    /\ sidecar \in SUBSET [seq : Nat, entry : Registries]
    /\ shipped \in Optional(Registries)
    /\ wpc \in [Writers -> {"idle", "opening", "open", "mirroring"}]
    /\ decls \in [Writers -> BOOLEAN]
    /\ event \in [Writers -> Optional(Event)]
    /\ work \in Work

(* The code relies on the registry: `diverged` or not, it saves, ships and   *)
(* answers from a keyword index.                                             *)
Trusted == up /\ ~Suspect

(* One writer at a time, and none beside an operation of the administrator,  *)
(* a batch or a save.                                                        *)
Apart ==
    /\ \A v, w \in Writers : wpc[v] # "idle" /\ wpc[w] # "idle" => v = w
    /\ \A w \in Writers : wpc[w] # "idle" => role = "master" /\ dpc = "idle" /\ work = None
    /\ work # None => dpc = "idle"
    /\ spc = "stamped" => WritersIdle /\ dpc = "idle" /\ sseq = seq
    /\ npc = "locked" /\ "snapshot" \notin Overlap => WritersIdle /\ dpc = "idle"
    /\ ~up => WritersIdle /\ dpc = "idle" /\ spc = "idle" /\ npc = "idle" /\ ~diverged

(* What a write transaction knows of the index.                              *)
WriterKnows ==
    \A w \in Writers :
        /\ wpc[w] = "open" => decls[w] = (registry # None)
        /\ wpc[w] = "mirroring" /\ Trusted => Applied(w) = Rebuilt(kv, declared)

BatchKnows == work # None /\ Trusted => Rederived = Rebuilt(kv, declared)

(* With nothing outstanding, a trusted registry is complete: more than       *)
(* Coherent says, for a keyword index beside a vector index that diverged.   *)
Complete ==
    /\ Trusted
    /\ dpc = "idle"
    /\ work = None /\ \A w \in Writers : wpc[w] # "mirroring"
    => registry = Rebuilt(kv, declared)

AdminKnows ==
    /\ dpc = "declared" => declared
    /\ dpc = "reading" => declared /\ dsnap = kv
    /\ dpc = "dropping" => ~declared
    /\ dpc \in {"landed", "loaded"} => shipped \in {None, {Rebuilt(kv, declared)}}
    /\ dpc = "loaded" /\ Trusted => registry = Rebuilt(kv, declared)

(* No stamp is ahead of the KV: a later commit cannot make an old one fit.   *)
StampsBehind == \A f \in sidecar : f.seq <= seq

Inv ==
    /\ Types /\ Apart
    /\ WriterKnows /\ BatchKnows /\ AdminKnows
    /\ Complete /\ StampsBehind /\ StampValid
    /\ "snapshot" \notin Overlap => ImageCoherent

LEMMA NothingIn == Nothing \in Property
  BY DEF Nothing, Property

LEMMA RegistryIs ==
  ASSUME NEW r
  PROVE  r \in Registries <=> r = None \/ \E p \in Property : r = {p}
  BY DEF Registries, Optional, None

LEMMA RebuiltIn ==
  ASSUME NEW data \in Property, NEW decl \in BOOLEAN
  PROVE  Rebuilt(data, decl) \in Registries
  BY RegistryIs DEF Rebuilt

(* A registry is what it was with some nodes replaced. *)
LEMMA AppliedIn ==
  ASSUME Types, NEW w \in Writers
  PROVE  Applied(w) \in Registries
<1>1. event[w] = None \/ \E e \in Event : event[w] = {e}
  BY DEF Types, Optional, None
<1>2. CASE event[w] = None \/ registry = None
  BY <1>2, RegistryIs DEF Applied, None
<1>3. ASSUME NEW e \in Event, event[w] = {e}, NEW p \in Property, registry = {p}
      PROVE  Applied(w) \in Registries
  <2>1. Applied(w) = {[p EXCEPT ![e.node] = e.value]}
    BY <1>3 DEF Applied
  <2>2. [p EXCEPT ![e.node] = e.value] \in Property
    BY DEF Event, Property
  <2> QED
    BY <2>1, <2>2, RegistryIs
<1> QED
  BY <1>1, <1>2, <1>3, RegistryIs DEF Types

(* A batch's rows, replaced in the one entry there is.                       *)
WithRows(rows, data, entries) ==
    {[n \in Nodes |-> IF n \in rows THEN data[n] ELSE entry[n]] : entry \in entries}

LEMMA RowsReplaced ==
  ASSUME NEW rows, NEW data, NEW p
  PROVE  WithRows(rows, data, {p}) = {[n \in Nodes |-> IF n \in rows THEN data[n] ELSE p[n]]}
  BY DEF WithRows

LEMMA RederivedIs ==
  Rederived = IF Declaration \in work THEN Rebuilt(kv, declared)
              ELSE IF DropOnly \in work THEN None
              ELSE WithRows(work, kv, registry)
  BY DEF Rederived, WithRows

LEMMA RederivedIn ==
  ASSUME Types
  PROVE  Rederived \in Registries
<1>1. ASSUME NEW p \in Property, registry = {p}
      PROVE  WithRows(work, kv, registry) \in Registries
  <2>1. [n \in Nodes |-> IF n \in work THEN kv[n] ELSE p[n]] \in Property
    BY DEF Types, Property
  <2> QED
    BY <1>1, <2>1, RegistryIs, RowsReplaced
<1>2. CASE registry = None
  <2>1. WithRows(work, kv, registry) = None
    BY <1>2 DEF WithRows, None
  <2> QED
    BY <2>1, RegistryIs, RebuiltIn, RederivedIs DEF Types
<1> QED
  BY <1>1, <1>2, RegistryIs, RebuiltIn, RederivedIs DEF Types

(* A pass that ended early leaves an entry, if any, with the rows replaced,  *)
(* as they were or taken out.                                                *)
LEMMA InterruptedIn ==
  ASSUME Types, NEW r \in Interrupted
  PROVE  r \in Registries
<1> DEFINE Out == {[n \in Nodes |-> IF n \in work THEN Absent ELSE entry[n]] : entry \in registry}
<1>1. r \in {Rederived, registry, None, Out}
  BY DEF Interrupted
<1>2. Out \in Registries
  <2>1. CASE registry = None
    BY <2>1, RegistryIs DEF None
  <2>2. ASSUME NEW p \in Property, registry = {p}
        PROVE  Out \in Registries
    <3>1. Out = {[n \in Nodes |-> IF n \in work THEN Absent ELSE p[n]]}
      BY <2>2
    <3>2. [n \in Nodes |-> IF n \in work THEN Absent ELSE p[n]] \in Property
      BY DEF Property
    <3> QED
      BY <3>1, <3>2, RegistryIs
  <2> QED
    BY <2>1, <2>2, RegistryIs DEF Types
<1> QED
  BY <1>1, <1>2, RederivedIn, RegistryIs DEF Types

(* Sidecars that agree load as any of them.                                  *)
LEMMA LoadedIs ==
  ASSUME NEW files, NEW r, \A f \in files : f.entry = r, files # None
  PROVE  Loaded(files) = r
<1>1. {f.entry : f \in files} = {r}
  BY DEF None
<1> QED
  BY <1>1 DEF Loaded

(* What Database::init loads, from a sidecar or not, is a rebuild.           *)
LEMMA OpenRebuilds ==
  ASSUME StampValid
  PROVE  Loaded({f \in sidecar : f.seq = seq}) = Rebuilt(kv, declared)
<1>1. CASE {f \in sidecar : f.seq = seq} = None
  BY <1>1 DEF Loaded
<1>2. CASE {f \in sidecar : f.seq = seq} # None
  BY <1>2, LoadedIs DEF StampValid
<1> QED
  BY <1>1, <1>2

LEMMA TypesStep ==
  ASSUME NoRace, Inv, [Next]_vars
  PROVE  Types'
<1> USE DEF Inv, Types, diskVars, writerVars, declareVars, saveVars, imageVars,
            replicaVars, budget
<1>1. ASSUME NEW w \in Writers, Begin(w) \/ SnapshotDecls(w) \/ Abort(w)
      PROVE  Types'
  BY <1>1 DEF Begin, SnapshotDecls, Abort
<1>2. ASSUME NEW w \in Writers, NEW n \in Nodes, NEW v \in Values \cup {Absent},
          Commit(w, n, v)
      PROVE  Types'
  BY <1>2 DEF Commit, CommitKv, Property, Event, Optional, None
<1>3. ASSUME NEW w \in Writers, Mirror(w)
      PROVE  Types'
  <2>1. registry' = Applied(w)
    BY <1>3 DEF Mirror
  <2> QED
    BY <1>3, <2>1, AppliedIn DEF Mirror, Mirrored, Optional, None
<1>4. ASSUME NEW w \in Writers, MirrorFails(w)
      PROVE  Types'
  BY <1>4, AppliedIn DEF MirrorFails, Mirrored, Optional, None
<1>5. ASSUME NEW n \in Nodes, NEW v \in Values \cup {Absent}, ApplyRow(n, v)
      PROVE  Types'
  BY <1>5 DEF ApplyRow, Lands, Property, Work, Optional, Declaration, DropOnly
<1>6. CASE ApplyDeclaration
  BY <1>6 DEF ApplyDeclaration, Lands, Work, Optional, Declaration, DropOnly
<1>7. CASE ApplyDrop
  <2>1. declared' \in BOOLEAN
    BY <1>7, Zenon DEF ApplyDrop
  <2> QED
    BY <1>7, <2>1, NothingIn DEF ApplyDrop, Lands, Work, Optional, Declaration, DropOnly
<1>8. CASE MirrorBatch
  BY <1>8, RederivedIn DEF MirrorBatch, Work, Optional, None
<1>9. CASE MirrorBatchFails
  BY <1>9, RederivedIn, InterruptedIn DEF MirrorBatchFails, Work, Optional, None
<1>10. CASE Declare
  BY <1>10 DEF Declare
<1>11. CASE BuildEntry
  BY <1>11, NothingIn, RegistryIs DEF BuildEntry
<1>12. CASE DropPlane
  <2>1. declared' \in BOOLEAN
    BY <1>12, Zenon DEF DropPlane
  <2> QED
    BY <1>12, <2>1, NothingIn DEF DropPlane
<1>13. CASE DropEntry
  BY <1>13, RegistryIs DEF DropEntry
<1>14. ASSUME NEW s \in Shipment, RestoreKv(s)
      PROVE  Types'
  BY <1>14, RebuiltIn DEF RestoreKv, Shipment, Optional
<1>15. CASE LoadShipped
  <2>1. UNION shipped \in Registries
    BY RegistryIs DEF Optional, None
  <2> QED
    BY <1>15, <2>1, RebuiltIn DEF LoadShipped
<1>16. CASE PersistShipped
  BY <1>16 DEF PersistShipped, Optional, None
<1>17. CASE SaveSidecar
  <2>1. {[seq |-> sseq, entry |-> registry]} \in SUBSET [seq : Nat, entry : Registries]
    BY <1>17 DEF SaveSidecar, Apart
  <2> QED
    BY <1>17, <2>1 DEF SaveSidecar, None
<1>18. CASE Crash
  BY <1>18, NothingIn, RegistryIs DEF Crash, Optional, None, Work
<1>19. CASE Open
  BY <1>19, OpenRebuilds, RebuiltIn DEF Open
<1>20. CASE ReadForBuild \/ ReadStamp \/ LockRegistries \/ Dump
  BY <1>20 DEF ReadForBuild, ReadStamp, LockRegistries, Dump
<1>21. CASE UNCHANGED vars
  BY <1>21 DEF vars
<1> QED
  BY <1>1, <1>2, <1>3, <1>4, <1>5, <1>6, <1>7, <1>8, <1>9, <1>10, <1>11, <1>12,
     <1>13, <1>14, <1>15, <1>16, <1>17, <1>18, <1>19, <1>20, <1>21 DEF Next

(* Every guard that a schedule without races adds is used here.              *)
LEMMA ApartStep ==
  ASSUME NoRace, Inv, [Next]_vars
  PROVE  Apart'
<1> USE DEF Inv, Types, Apart, NoRace, MayOverlap, WritersIdle, diskVars,
            writerVars, declareVars, saveVars, imageVars, replicaVars, budget
<1>1. ASSUME NEW w \in Writers, Begin(w) \/ SnapshotDecls(w) \/ Abort(w) \/
          Mirror(w) \/ MirrorFails(w)
      PROVE  Apart'
  BY <1>1 DEF Begin, SnapshotDecls, Abort, Mirror, Mirrored, MirrorFails
<1>2. ASSUME NEW w \in Writers, NEW n \in Nodes, NEW v \in Values \cup {Absent},
          Commit(w, n, v)
      PROVE  Apart'
  BY <1>2 DEF Commit, CommitKv
<1>3. ASSUME NEW n \in Nodes, NEW v \in Values \cup {Absent}, ApplyRow(n, v)
      PROVE  Apart'
  BY <1>3 DEF ApplyRow, Lands
<1>4. ASSUME NEW s \in Shipment, RestoreKv(s)
      PROVE  Apart'
  BY <1>4 DEF RestoreKv
<1>5. CASE ApplyDeclaration \/ ApplyDrop \/ MirrorBatch \/ MirrorBatchFails \/
          Declare
  BY <1>5 DEF ApplyDeclaration, Lands, ApplyDrop, MirrorBatch, MirrorBatchFails,
        Declare
<1>6. CASE ReadForBuild \/ BuildEntry \/ DropPlane \/ DropEntry \/ LoadShipped
  BY <1>6 DEF ReadForBuild, BuildEntry, DropPlane, DropEntry, LoadShipped
<1>7. CASE PersistShipped \/ ReadStamp \/ SaveSidecar \/ LockRegistries \/ Dump
  BY <1>7 DEF PersistShipped, ReadStamp, SaveSidecar, LockRegistries, Dump
<1>8. CASE Crash \/ Open
  BY <1>8 DEF Crash, Open
<1>9. CASE UNCHANGED vars
  BY <1>9 DEF vars
<1> QED
  BY <1>1, <1>2, <1>3, <1>4, <1>5, <1>6, <1>7, <1>8, <1>9 DEF Next

(* An entry is complete again when the last outstanding step is done, and a  *)
(* commit leaves nothing outstanding only if no index was declared.          *)
LEMMA CompleteStep ==
  ASSUME NoRace, Inv, [Next]_vars
  PROVE  Complete'
<1> USE DEF Inv, Types, Apart, NoRace, MayOverlap, WritersIdle, Complete, Trusted, Suspect,
            WriterKnows, BatchKnows, AdminKnows, diskVars, writerVars, declareVars,
            saveVars, imageVars, replicaVars, budget
<1>1. ASSUME NEW w \in Writers, Begin(w) \/ SnapshotDecls(w) \/ Abort(w) \/
          MirrorFails(w)
      PROVE  Complete'
  BY <1>1 DEF Begin, SnapshotDecls, Abort, MirrorFails, Mirrored
<1>2. ASSUME NEW w \in Writers, NEW n \in Nodes, NEW v \in Values \cup {Absent},
          Commit(w, n, v)
      PROVE  Complete'
  <2>1. CASE decls[w]
    BY <1>2, <2>1 DEF Commit, CommitKv
  <2>2. CASE ~decls[w]
    <3>1. /\ registry' = registry /\ declared' = declared
          /\ up' = up /\ diverged' = diverged /\ kind' = kind /\ registry = None
      BY <1>2, <2>2 DEF Commit, CommitKv
    <3>2. Trusted => registry = Rebuilt(kv, declared)
      BY <1>2 DEF Commit, CommitKv
    <3>3. Trusted => ~declared
      BY <3>1, <3>2 DEF Rebuilt, None
    <3> QED
      BY <3>1, <3>3 DEF Rebuilt
  <2> QED
    BY <2>1, <2>2
<1>3. ASSUME NEW w \in Writers, Mirror(w)
      PROVE  Complete'
  BY <1>3 DEF Mirror, Mirrored, Applied
<1>4. ASSUME NEW n \in Nodes, NEW v \in Values \cup {Absent}, ApplyRow(n, v)
      PROVE  Complete'
  BY <1>4 DEF ApplyRow, Lands, None
<1>5. CASE ApplyDeclaration
  BY <1>5 DEF ApplyDeclaration, Lands, None
<1>6. CASE ApplyDrop
  BY <1>6 DEF ApplyDrop, Lands, None
<1>7. CASE BuildEntry
  BY <1>7 DEF BuildEntry, Rebuilt
<1>8. CASE DropEntry
  BY <1>8 DEF DropEntry, Rebuilt, None
<1>9. ASSUME NEW s \in Shipment, RestoreKv(s)
      PROVE  Complete'
  BY <1>9 DEF RestoreKv
<1>10. CASE Open
  BY <1>10, OpenRebuilds DEF Open
<1>11. CASE MirrorBatch \/ MirrorBatchFails \/ Declare \/ ReadForBuild \/ DropPlane
  BY <1>11 DEF MirrorBatch, MirrorBatchFails, Declare, ReadForBuild, DropPlane
<1>12. CASE LoadShipped \/ PersistShipped \/ ReadStamp \/ SaveSidecar \/
          LockRegistries
  BY <1>12 DEF LoadShipped, PersistShipped, ReadStamp, SaveSidecar, LockRegistries
<1>13. CASE Dump \/ Crash
  BY <1>13 DEF Dump, Crash
<1>14. CASE UNCHANGED vars
  BY <1>14 DEF vars
<1> QED
  BY <1>1, <1>2, <1>3, <1>4, <1>5, <1>6, <1>7, <1>8, <1>9, <1>10, <1>11, <1>12,
     <1>13, <1>14 DEF Next

(* The declarations a transaction read when it began are those of its commit,*)
(* and its event is the one row by which the registry then lags.             *)
LEMMA WriterKnowsStep ==
  ASSUME NoRace, Inv, [Next]_vars
  PROVE  WriterKnows'
<1> USE DEF Inv, Types, Apart, NoRace, MayOverlap, WritersIdle, Complete, Trusted, Suspect,
            WriterKnows, Applied, diskVars, writerVars, declareVars, saveVars,
            imageVars, replicaVars, budget
<1>1. ASSUME NEW w \in Writers, Begin(w) \/ SnapshotDecls(w) \/ Abort(w) \/
          Mirror(w) \/ MirrorFails(w)
      PROVE  WriterKnows'
  BY <1>1 DEF Begin, SnapshotDecls, Abort, Mirror, Mirrored, MirrorFails
<1>2. ASSUME NEW w \in Writers, NEW n \in Nodes, NEW v \in Values \cup {Absent},
          Commit(w, n, v)
      PROVE  WriterKnows'
  <2> SUFFICES ASSUME NEW u \in Writers
               PROVE  /\ wpc'[u] # "open"
                      /\ wpc'[u] = "mirroring" /\ Trusted' => Applied(u)' = Rebuilt(kv, declared)'
    OBVIOUS
  <2>0. wpc'[u] # "open" /\ (wpc'[u] = "mirroring" => u = w)
    BY <1>2 DEF Commit, CommitKv
  <2> SUFFICES ASSUME u = w, wpc'[w] = "mirroring", Trusted'
               PROVE  Applied(w)' = Rebuilt(kv, declared)'
    BY <2>0
  <2>1. decls[w] /\ event'[w] = {[node |-> n, value |-> v]}
    BY <1>2 DEF Commit, CommitKv
  <2>2. /\ kv' = [kv EXCEPT ![n] = v]
        /\ UNCHANGED <<registry, declared, up, diverged, kind>>
    BY <1>2 DEF Commit, CommitKv
  <2>3. registry = {kv} /\ declared
    BY <1>2, <2>1, <2>2 DEF Commit, CommitKv, Rebuilt, None
  <2>4. Applied(w)' = {[kv EXCEPT ![n] = v]}
    BY <2>1, <2>2, <2>3
  <2> QED
    BY <2>1, <2>2, <2>3, <2>4 DEF Rebuilt
<1>3. ASSUME NEW n \in Nodes, NEW v \in Values \cup {Absent}, ApplyRow(n, v)
      PROVE  WriterKnows'
  BY <1>3 DEF ApplyRow, Lands
<1>4. CASE ApplyDeclaration
  <2>1. Lands
    BY <1>4 DEF ApplyDeclaration
  <2>2. \A u \in Writers : wpc'[u] = "idle"
    BY <2>1 DEF Lands
  <2> QED
    BY <2>2
<1>5. CASE Declare
  <2>1. \A u \in Writers : wpc'[u] = "idle"
    BY <1>5 DEF Declare
  <2> QED
    BY <2>1
<1>6. ASSUME NEW s \in Shipment, RestoreKv(s)
      PROVE  WriterKnows'
  BY <1>6 DEF RestoreKv
<1>7. CASE ApplyDrop \/ MirrorBatch \/ MirrorBatchFails \/ ReadForBuild \/
          BuildEntry
  BY <1>7 DEF ApplyDrop, Lands, MirrorBatch, MirrorBatchFails, ReadForBuild,
        BuildEntry
<1>8. CASE DropPlane \/ DropEntry \/ LoadShipped \/ PersistShipped \/ ReadStamp
  BY <1>8 DEF DropPlane, DropEntry, LoadShipped, PersistShipped, ReadStamp
<1>9. CASE SaveSidecar \/ LockRegistries \/ Dump \/ Crash \/ Open
  BY <1>9 DEF SaveSidecar, LockRegistries, Dump, Crash, Open
<1>10. CASE UNCHANGED vars
  BY <1>10 DEF vars
<1> QED
  BY <1>1, <1>2, <1>3, <1>4, <1>5, <1>6, <1>7, <1>8, <1>9, <1>10 DEF Next

(* A batch is mirrored by the state that it left, its rows, its declaration  *)
(* or the plane it dropped.                                                  *)
LEMMA BatchKnowsStep ==
  ASSUME NoRace, Inv, [Next]_vars
  PROVE  BatchKnows'
<1> USE DEF Inv, Types, Apart, NoRace, MayOverlap, WritersIdle, Complete, Trusted, Suspect,
            BatchKnows, diskVars, writerVars, declareVars, saveVars, imageVars,
            replicaVars, budget
<1>0. UNCHANGED <<kv, declared, registry, work>> => Rederived' = Rederived
  BY DEF Rederived
<1>1. ASSUME NEW w \in Writers, Begin(w) \/ SnapshotDecls(w) \/ Abort(w)
      PROVE  BatchKnows'
  BY <1>1, <1>0 DEF Begin, SnapshotDecls, Abort
<1>2. ASSUME NEW w \in Writers, NEW n \in Nodes, NEW v \in Values \cup {Absent},
          Commit(w, n, v)
      PROVE  BatchKnows'
  BY <1>2, <1>0 DEF Commit, CommitKv
<1>3. ASSUME NEW w \in Writers, Mirror(w)
      PROVE  BatchKnows'
  BY <1>3, <1>0 DEF Mirror, Mirrored
<1>4. ASSUME NEW w \in Writers, MirrorFails(w)
      PROVE  BatchKnows'
  BY <1>4, <1>0 DEF MirrorFails, Mirrored
<1>5. ASSUME NEW n \in Nodes, NEW v \in Values \cup {Absent}, ApplyRow(n, v)
      PROVE  BatchKnows'
  <2>1. /\ kv' = [kv EXCEPT ![n] = v] /\ work' = {n}
        /\ UNCHANGED <<registry, declared, up, diverged, kind>>
    BY <1>5 DEF ApplyRow, Lands
  <2>2. Trusted => registry = Rebuilt(kv, declared)
    BY <1>5 DEF ApplyRow, Lands
  <2>3. Declaration \notin work' /\ DropOnly \notin work'
    BY <2>1, MirrorAssumption DEF Declaration, DropOnly
  <2>4. Rederived' = WithRows({n}, kv', registry)
    BY <2>1, <2>3 DEF Rederived, WithRows
  <2>5. CASE declared
    <3>1. [m \in Nodes |-> IF m \in {n} THEN kv'[m] ELSE kv[m]] = kv'
      BY <2>1 DEF Property
    <3>2. WithRows({n}, kv', {kv}) = {kv'}
      BY <3>1, RowsReplaced
    <3> QED
      BY <2>1, <2>2, <2>4, <2>5, <3>2 DEF Rebuilt
  <2>6. CASE ~declared
    <3>1. WithRows({n}, kv', None) = None
      BY DEF WithRows, None
    <3> QED
      BY <2>1, <2>2, <2>4, <2>6, <3>1 DEF Rebuilt
  <2> QED
    BY <2>5, <2>6
<1>6. CASE ApplyDeclaration
  BY <1>6, <1>0 DEF ApplyDeclaration, Lands, Rederived
<1>7. CASE ApplyDrop
  BY <1>7, <1>0 DEF ApplyDrop, Lands, Rederived, Rebuilt, None, Declaration,
        DropOnly
<1>8. ASSUME NEW s \in Shipment, RestoreKv(s)
      PROVE  BatchKnows'
  BY <1>8, <1>0 DEF RestoreKv
<1>9. CASE MirrorBatch \/ MirrorBatchFails \/ Declare \/ ReadForBuild \/ BuildEntry
  BY <1>9, <1>0 DEF MirrorBatch, MirrorBatchFails, Declare, ReadForBuild, BuildEntry
<1>10. CASE DropPlane \/ DropEntry \/ LoadShipped \/ PersistShipped \/ ReadStamp
  BY <1>10, <1>0 DEF DropPlane, DropEntry, LoadShipped, PersistShipped, ReadStamp
<1>11. CASE SaveSidecar \/ LockRegistries \/ Dump \/ Crash \/ Open
  BY <1>11, <1>0 DEF SaveSidecar, LockRegistries, Dump, Crash, Open
<1>12. CASE UNCHANGED vars
  BY <1>12, <1>0 DEF vars
<1> QED
  BY <1>1, <1>2, <1>3, <1>4, <1>5, <1>6, <1>7, <1>8, <1>9, <1>10, <1>11, <1>12 DEF
     Next

(* No commit comes between the steps of ensure_vector_index, drop_plane and  *)
(* restore, so what each read first is still so.                             *)
LEMMA AdminKnowsStep ==
  ASSUME NoRace, Inv, [Next]_vars
  PROVE  AdminKnows'
<1> USE DEF Inv, Types, Apart, NoRace, MayOverlap, WritersIdle, Complete, Trusted, Suspect,
            AdminKnows, diskVars, writerVars, declareVars, saveVars, imageVars,
            replicaVars, budget
<1>1. ASSUME NEW w \in Writers, Begin(w) \/ SnapshotDecls(w) \/ Abort(w) \/
          Mirror(w) \/ MirrorFails(w)
      PROVE  AdminKnows'
  BY <1>1 DEF Begin, SnapshotDecls, Abort, Mirror, Mirrored, MirrorFails
<1>2. ASSUME NEW w \in Writers, NEW n \in Nodes, NEW v \in Values \cup {Absent},
          Commit(w, n, v)
      PROVE  AdminKnows'
  BY <1>2 DEF Commit, CommitKv
<1>3. ASSUME NEW n \in Nodes, NEW v \in Values \cup {Absent}, ApplyRow(n, v)
      PROVE  AdminKnows'
  BY <1>3 DEF ApplyRow, Lands
<1>4. ASSUME NEW s \in Shipment, RestoreKv(s)
      PROVE  AdminKnows'
  BY <1>4 DEF RestoreKv, Rebuilt, None, RefuseNonEmpty, Shipment
<1>5. CASE LoadShipped
  BY <1>5 DEF LoadShipped, None
<1>6. CASE ApplyDeclaration \/ ApplyDrop \/ MirrorBatch \/ MirrorBatchFails \/
          Declare
  BY <1>6 DEF ApplyDeclaration, Lands, ApplyDrop, MirrorBatch, MirrorBatchFails,
        Declare
<1>7. CASE ReadForBuild \/ BuildEntry \/ DropPlane \/ DropEntry \/ PersistShipped
  BY <1>7 DEF ReadForBuild, BuildEntry, DropPlane, DropEntry, PersistShipped
<1>8. CASE ReadStamp \/ SaveSidecar \/ LockRegistries \/ Dump \/ Crash
  BY <1>8 DEF ReadStamp, SaveSidecar, LockRegistries, Dump, Crash
<1>9. CASE Open
  BY <1>9 DEF Open
<1>10. CASE UNCHANGED vars
  BY <1>10 DEF vars
<1> QED
  BY <1>1, <1>2, <1>3, <1>4, <1>5, <1>6, <1>7, <1>8, <1>9, <1>10 DEF Next

(* A commit passes every stamp there is, and a restore lands beyond it.      *)
LEMMA StampsStep ==
  ASSUME NoRace, Inv, [Next]_vars
  PROVE  StampsBehind' /\ StampValid'
<1> USE DEF Inv, Types, Apart, NoRace, MayOverlap, WritersIdle, Complete, Trusted, Suspect,
            StampsBehind, StampValid, diskVars, writerVars, declareVars, saveVars,
            imageVars, replicaVars, budget
<1>1. ASSUME NEW w \in Writers, Begin(w) \/ SnapshotDecls(w) \/ Abort(w) \/
          Mirror(w) \/ MirrorFails(w)
      PROVE  StampsBehind' /\ StampValid'
  BY <1>1 DEF Begin, SnapshotDecls, Abort, Mirror, Mirrored, MirrorFails
<1>2. ASSUME NEW w \in Writers, NEW n \in Nodes, NEW v \in Values \cup {Absent},
          Commit(w, n, v)
      PROVE  StampsBehind' /\ StampValid'
  BY <1>2 DEF Commit, CommitKv
<1>3. ASSUME NEW n \in Nodes, NEW v \in Values \cup {Absent}, ApplyRow(n, v)
      PROVE  StampsBehind' /\ StampValid'
  BY <1>3 DEF ApplyRow, Lands
<1>4. CASE ApplyDeclaration
  <2>1. seq' = seq + 1 /\ sidecar' = sidecar
    BY <1>4 DEF ApplyDeclaration, Lands
  <2> QED
    BY <2>1
<1>5. CASE Declare
  <2>1. seq' = seq + 1 /\ sidecar' = sidecar
    BY <1>5 DEF Declare
  <2> QED
    BY <2>1
<1>6. ASSUME NEW s \in Shipment, RestoreKv(s)
      PROVE  StampsBehind' /\ StampValid'
  BY <1>6 DEF RestoreKv, RefuseNonEmpty, Shipment
<1>7. CASE PersistShipped
  BY <1>7 DEF PersistShipped, AdminKnows, None
<1>8. CASE SaveSidecar
  BY <1>8 DEF SaveSidecar, None
<1>9. CASE ApplyDrop \/ MirrorBatch \/ MirrorBatchFails \/ ReadForBuild \/
          BuildEntry
  BY <1>9 DEF ApplyDrop, Lands, MirrorBatch, MirrorBatchFails, ReadForBuild,
        BuildEntry
<1>10. CASE DropPlane \/ DropEntry \/ LoadShipped \/ ReadStamp \/ LockRegistries
  BY <1>10 DEF DropPlane, DropEntry, LoadShipped, ReadStamp, LockRegistries
<1>11. CASE Dump \/ Crash \/ Open
  BY <1>11 DEF Dump, Crash, Open
<1>12. CASE UNCHANGED vars
  BY <1>12 DEF vars
<1> QED
  BY <1>1, <1>2, <1>3, <1>4, <1>5, <1>6, <1>7, <1>8, <1>9, <1>10, <1>11, <1>12 DEF
     Next

(* A snapshot that meets no commit half mirrored ships a coherent registry.  *)
LEMMA ImageStep ==
  ASSUME NoRace, Inv, [Next]_vars, "snapshot" \notin Overlap
  PROVE  ImageCoherent'
<1> USE DEF Inv, Types, Apart, NoRace, MayOverlap, WritersIdle, Complete, Trusted, Suspect,
            ImageCoherent, diskVars, writerVars, declareVars, saveVars, imageVars,
            replicaVars, budget
<1>1. ASSUME NEW w \in Writers, Begin(w) \/ SnapshotDecls(w) \/ Abort(w) \/
          Mirror(w) \/ MirrorFails(w)
      PROVE  ImageCoherent'
  BY <1>1 DEF Begin, SnapshotDecls, Abort, Mirror, Mirrored, MirrorFails
<1>2. ASSUME NEW w \in Writers, NEW n \in Nodes, NEW v \in Values \cup {Absent},
          Commit(w, n, v)
      PROVE  ImageCoherent'
  BY <1>2 DEF Commit, CommitKv
<1>3. ASSUME NEW n \in Nodes, NEW v \in Values \cup {Absent}, ApplyRow(n, v)
      PROVE  ImageCoherent'
  BY <1>3 DEF ApplyRow, Lands
<1>4. ASSUME NEW s \in Shipment, RestoreKv(s)
      PROVE  ImageCoherent'
  BY <1>4 DEF RestoreKv
<1>5. CASE ApplyDeclaration \/ ApplyDrop \/ MirrorBatch \/ MirrorBatchFails \/
          Declare
  BY <1>5 DEF ApplyDeclaration, Lands, ApplyDrop, MirrorBatch, MirrorBatchFails,
        Declare
<1>6. CASE ReadForBuild \/ BuildEntry \/ DropPlane \/ DropEntry \/ LoadShipped
  BY <1>6 DEF ReadForBuild, BuildEntry, DropPlane, DropEntry, LoadShipped
<1>7. CASE PersistShipped \/ ReadStamp \/ SaveSidecar \/ LockRegistries \/ Dump
  BY <1>7 DEF PersistShipped, ReadStamp, SaveSidecar, LockRegistries, Dump
<1>8. CASE Crash \/ Open
  BY <1>8 DEF Crash, Open
<1>9. CASE UNCHANGED vars
  BY <1>9 DEF vars
<1> QED
  BY <1>1, <1>2, <1>3, <1>4, <1>5, <1>6, <1>7, <1>8, <1>9 DEF Next

LEMMA InitInv == NoRace /\ Init => Inv
<1> SUFFICES ASSUME NoRace, Init PROVE Inv
  OBVIOUS
<1> USE DEF Init, None
<1>1. Types
  BY NothingIn, RegistryIs DEF Types, Optional, Work
<1>2. Apart
  BY DEF Apart, WritersIdle
<1>3. Rebuilt(kv, declared) = None
  BY DEF Rebuilt
<1> QED
  BY <1>1, <1>2, <1>3 DEF Inv, WriterKnows, BatchKnows, AdminKnows, Complete,
                          StampsBehind, StampValid, ImageCoherent

LEMMA InvInductive ==
  ASSUME NoRace
  PROVE  Spec => []Inv
<1>1. Init => Inv
  BY InitInv
<1>2. Inv /\ [Next]_vars => Inv'
  BY TypesStep, ApartStep, CompleteStep, WriterKnowsStep, BatchKnowsStep,
     AdminKnowsStep, StampsStep, ImageStep DEF Inv
<1> QED
  BY <1>1, <1>2, PTL DEF Spec

(* "the registries are kept coherent with each committed write" (api/mod.rs): *)
(* whenever no event, batch or build is outstanding and nothing has failed   *)
(* since the database was opened, a search sees in a vector or keyword index *)
(* what the KV holds, whatever failed, crashed, was restored, reopened or    *)
(* saved before, but for batches that left a keyword index behind.           *)
THEOREM RegistriesCoherent ==
  ASSUME NoRace
  PROVE  Spec => []Coherent
<1>1. Inv => Coherent
  BY DEF Inv, Complete, Trusted, Suspect, Coherent
<1> QED
  BY <1>1, InvInductive, PTL

(* "so the stamp is always valid" (save_sidecars): a sidecar the next open   *)
(* would trust by its sequence is what a rebuild would give.  For the .hnsw  *)
(* file this is so whatever failed, for the .bm25 file unless a failed batch *)
(* left the keyword registry behind: it is saved without a look at the flag. *)
THEOREM StampsValid ==
  ASSUME NoRace
  PROVE  Spec => []StampValid
  BY InvInductive, PTL DEF Inv

(* The index frame a snapshot ships is an index of the data it ships, also   *)
(* when the live vector registry has diverged, provided that the snapshot is *)
(* not taken between a commit and its mirroring and that no failed batch     *)
(* left the keyword registry, which is shipped as it is, behind.             *)
THEOREM ImagesCoherent ==
  ASSUME NoRace, "snapshot" \notin Overlap
  PROVE  Spec => []ImageCoherent
<1>1. Inv => ImageCoherent
  BY DEF Inv
<1> QED
  BY <1>1, InvInductive, PTL
==============================================================================
