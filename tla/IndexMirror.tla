------------------------------ MODULE IndexMirror ------------------------------
(****************************************************************************)
(* The in-memory index registries and what keeps them coherent with the KV  *)
(* (api/mod.rs, api/snapshot.rs, index.rs): write transactions that buffer  *)
(* index events and mirror them after their commit, ensure_vector_index,    *)
(* drop_plane, sidecars saved and loaded by commit sequence, snapshots that *)
(* ship the registry and their restore, crashes and reopening; on a         *)
(* replica, the batches of the master in place of local writers.            *)
(*                                                                          *)
(* A behaviour is about one declared index, which is a vector or a keyword  *)
(* index (`kind`): the two registries share no entries, and every entry is  *)
(* kept by itself.  They share the flag indexes_diverged and the pass that  *)
(* mirrors a replicated batch, and the code heeds the flag for the vector   *)
(* registry only.  The KV is abstracted to the indexed property of each     *)
(* node.                                                                    *)
(*                                                                          *)
(* The write gate is held from begin_write to the end of the engine's       *)
(* commit; the events are applied after that, under the registry's lock.    *)
(****************************************************************************)
EXTENDS Naturals

CONSTANTS
    Nodes,
    Values,
    Absent,      \* the node has no value for the indexed property
    Writers,
    Roles,       \* "master", which writes, or "replica", which applies
    Kinds,       \* "vector", "keyword": the kinds of index considered
    BatchFaults, \* the kinds a failed mirroring of a batch may leave behind
    Overlap,     \* which operations the schedule may overlap with writers
    Leftovers,   \* what the empty target of a restore may still hold
    MaxSeq,      \* bound on the graph's commit sequence
    MaxFaults,   \* bound on failed index events
    MaxCrashes

Overlaps == {"writers", "declare", "save", "snapshot"}

ASSUME MirrorAssumption ==
    /\ Absent \notin Values
    /\ Nodes \cap {"declaration", "drop"} = {}
    /\ Overlap \subseteq Overlaps
    /\ Leftovers \subseteq {"declaration", "sidecar"}
    /\ Roles \subseteq {"master", "replica"}
    /\ Kinds \subseteq {"vector", "keyword"} /\ BatchFaults \subseteq Kinds
    /\ MaxSeq \in Nat /\ MaxFaults \in Nat /\ MaxCrashes \in Nat

VARIABLES
    kv,         \* the committed value of each node
    declared,   \* the declaration row is in the KV
    plane,      \* the plane of the index: "startup", another one, or Dropped
    seq,        \* graph::read_commit_seq
    gate,       \* the writer holding the write gate, or Free
    wpc,        \* wpc[w]: "idle", "opening", "open", "mirroring"
    decls,      \* decls[w]: the index is among WriteTxn.decls
    event,      \* event[w]: WriteTxn.events after the commit
    registry,   \* VectorRegistry or KeywordRegistry: the index's entry, if any
    diverged,   \* indexes_diverged
    dpc,        \* the administrator: "idle", "declared" or "reading" in
                \* ensure_vector_index, "dropping" in drop_plane, "landed" or
                \* "loaded" in restore
    dsnap,      \* the KV at its read transaction
    shipped,    \* the index frame of the snapshot being restored, if usable
    spc,        \* save_sidecars: "idle", "stamped"
    sseq,       \* the sequence it read
    sidecar,    \* the file beside the database
    npc,        \* snapshot: "idle", "locked"
    image,      \* the last snapshot taken
    role, kind, \* fixed at the beginning
    work,       \* ReplicatedIndexWork: what an applied batch left to mirror
    up,         \* the database is open
    faults, crashes

diskVars == <<kv, declared, plane, seq, sidecar>>
writerVars == <<gate, wpc, decls, event>>
declareVars == <<dpc, dsnap, shipped>>
saveVars == <<spc, sseq>>
imageVars == <<npc, image>>
replicaVars == <<role, kind, work>>
budget == <<faults, crashes>>
vars == <<diskVars, writerVars, registry, diverged, declareVars, saveVars, imageVars,
          replicaVars, up, budget>>

Free == "free"
(* What may be absent is a set: empty, or the one that is there.             *)
None == {}
Optional(S) == {None} \cup {{x} : x \in S}

Property == [Nodes -> Values \cup {Absent}]
Nothing == [n \in Nodes |-> Absent]
Event == [node : Nodes, value : Values \cup {Absent}]
Registries == Optional(Property)

(* rebuild_from: what the registry should hold for a KV.                     *)
Rebuilt(data, decl) == IF decl THEN {data} ELSE None

(* Of an applied batch: the nodes whose rows it wrote, or its declaration.   *)
Declaration == "declaration"
DropOnly == "drop"
Work == Optional(Nodes \cup {Declaration, DropOnly})

Dropped == "dropped"

(* indexes_diverged speaks of the vector registry alone.                     *)
Suspect == kind = "vector" /\ diverged

(* A registry's lock is not held by a snapshot in progress.                  *)
RegistryUnlocked == npc = "idle"

WritersIdle == work = None /\ \A w \in Writers : wpc[w] = "idle"

(* Overlapping an operation is left to the schedule or ruled out by it.      *)
MayOverlap(op, alone) == op \in Overlap \/ alone

Init ==
    /\ kv = Nothing
    /\ declared = FALSE
    /\ plane \in {"startup", "other"}
    /\ seq = 1
    /\ gate = Free
    /\ wpc = [w \in Writers |-> "idle"]
    /\ decls = [w \in Writers |-> FALSE]
    /\ event = [w \in Writers |-> None]
    /\ registry = None
    /\ diverged = FALSE
    /\ dpc = "idle" /\ dsnap = Nothing /\ shipped = None
    /\ spc = "idle" /\ sseq = 0
    /\ sidecar = None
    /\ npc = "idle" /\ image = None
    /\ role \in Roles /\ kind \in Kinds /\ work = None
    /\ up = TRUE
    /\ faults = 0 /\ crashes = 0

-------------------------------------------------------------------------------
(* Write transactions.                                                       *)

(* Plane::write: the gate ...                                                *)
Begin(w) ==
    /\ up /\ role = "master" /\ wpc[w] = "idle" /\ gate = Free
    /\ plane # Dropped
    /\ MayOverlap("writers", WritersIdle)
    /\ MayOverlap("declare", dpc = "idle")
    /\ MayOverlap("save", spc = "idle")
    /\ MayOverlap("snapshot", npc = "idle")
    /\ gate' = w
    /\ wpc' = [wpc EXCEPT ![w] = "opening"]
    /\ UNCHANGED <<diskVars, decls, event, registry, diverged, declareVars, saveVars,
                   imageVars, up, budget, replicaVars>>

(* ... then the indexes declared now.                                        *)
SnapshotDecls(w) ==
    /\ up /\ wpc[w] = "opening"
    /\ wpc' = [wpc EXCEPT ![w] = "open"]
    /\ decls' = [decls EXCEPT ![w] = registry # None]
    /\ UNCHANGED <<diskVars, gate, event, registry, diverged, declareVars, saveVars,
                   imageVars, up, budget, replicaVars>>

(* Dropped uncommitted: no event is ever applied.                            *)
Abort(w) ==
    /\ up /\ wpc[w] = "open"
    /\ wpc' = [wpc EXCEPT ![w] = "idle"]
    /\ decls' = [decls EXCEPT ![w] = FALSE]
    /\ gate' = Free
    /\ UNCHANGED <<diskVars, event, registry, diverged, declareVars, saveVars,
                   imageVars, up, budget, replicaVars>>

(* The data and its commit sequence become durable and visible, the gate is  *)
(* released, and the events of the declared index wait to be applied.        *)
CommitKv(w, n, v, mirrored) ==
    /\ up /\ wpc[w] = "open" /\ seq < MaxSeq
    /\ kv' = [kv EXCEPT ![n] = v]
    /\ seq' = seq + 1
    /\ gate' = Free
    /\ wpc' = [wpc EXCEPT ![w] = IF mirrored THEN "mirroring" ELSE "idle"]
    /\ event' = [event EXCEPT ![w] = IF mirrored THEN {[node |-> n, value |-> v]}
                                                 ELSE None]
    /\ decls' = [decls EXCEPT ![w] = FALSE]
    /\ UNCHANGED <<declared, plane, sidecar, registry, diverged, declareVars, saveVars,
                   imageVars, up, budget, replicaVars>>

(* WriteTxn::commit; record_node_events pushed an Upsert or a Remove.        *)
Commit(w, n, v) == CommitKv(w, n, v, decls[w])

Mirrored(w) ==
    /\ up /\ wpc[w] = "mirroring"
    /\ RegistryUnlocked
    /\ wpc' = [wpc EXCEPT ![w] = "idle"]
    /\ event' = [event EXCEPT ![w] = None]
    /\ UNCHANGED <<diskVars, gate, decls, declareVars, saveVars, imageVars, up, crashes, replicaVars>>

(* apply_index_event, apply_kw_event: the entry's node is replaced or        *)
(* removed.                                                                  *)
Applied(w) == {[entry EXCEPT ![e.node] = e.value] : entry \in registry, e \in event[w]}

Mirror(w) ==
    /\ Mirrored(w)
    /\ registry' = Applied(w)
    /\ UNCHANGED <<diverged, faults>>

(* A vector event of the transaction fails: the commit stands and the flag   *)
(* is set.  The keyword events are applied all the same.                     *)
MirrorFails(w) ==
    /\ Mirrored(w)
    /\ faults < MaxFaults
    /\ faults' = faults + 1
    /\ diverged' = TRUE
    /\ registry' = IF kind = "vector" THEN registry ELSE Applied(w)

-------------------------------------------------------------------------------
(* ensure_vector_index.                                                      *)

(* The declaration, a write transaction of its own.                          *)
Declare ==
    /\ up /\ role = "master" /\ dpc = "idle" /\ gate = Free /\ seq < MaxSeq
    /\ plane # Dropped
    /\ MayOverlap("declare", WritersIdle)
    /\ MayOverlap("save", spc = "idle")
    /\ MayOverlap("snapshot", npc = "idle")
    /\ declared' = TRUE
    /\ seq' = seq + 1
    /\ dpc' = "declared"
    /\ UNCHANGED <<kv, plane, sidecar, writerVars, registry, diverged, dsnap, shipped,
                   saveVars, imageVars, up, budget, replicaVars>>

(* A read transaction ...                                                    *)
ReadForBuild ==
    /\ up /\ dpc = "declared"
    /\ dsnap' = kv
    /\ dpc' = "reading"
    /\ UNCHANGED <<diskVars, writerVars, registry, diverged, shipped, saveVars, imageVars,
                   up, budget, replicaVars>>

(* ... from which the entry is built, or replaced, under the registry lock.  *)
BuildEntry ==
    /\ up /\ dpc = "reading" /\ RegistryUnlocked
    /\ registry' = {dsnap}
    /\ dsnap' = Nothing
    /\ dpc' = "idle"
    /\ UNCHANGED <<diskVars, writerVars, diverged, shipped, saveVars, imageVars,
                   up, budget, replicaVars>>

-------------------------------------------------------------------------------
(* drop_plane: the rows of the plane and its declarations in one transaction *)
(* ...                                                                       *)
DropPlane ==
    /\ up /\ role = "master" /\ dpc = "idle" /\ gate = Free /\ seq < MaxSeq
    /\ plane = "other"
    /\ WritersIdle
    /\ MayOverlap("save", spc = "idle")
    /\ MayOverlap("snapshot", npc = "idle")
    /\ kv' = Nothing /\ declared' = FALSE /\ plane' = Dropped
    /\ seq' = seq + 1
    /\ dpc' = "dropping"
    /\ UNCHANGED <<sidecar, writerVars, registry, diverged, dsnap, shipped, saveVars,
                   imageVars, up, budget, replicaVars>>

(* ... then its entries.                                                     *)
DropEntry ==
    /\ up /\ dpc = "dropping" /\ RegistryUnlocked
    /\ registry' = None
    /\ dpc' = "idle"
    /\ UNCHANGED <<diskVars, writerVars, diverged, dsnap, shipped, saveVars, imageVars,
                   up, budget, replicaVars>>

-------------------------------------------------------------------------------
(* restore, by the command line, which holds the database alone, or by a     *)
(* follower into the new directory it prepared: nobody else writes.          *)

(* A snapshot of another database: at sequence one it is a new store, and a  *)
(* declaration and the data it indexes take a commit each.  A frame that is  *)
(* missing or has another stamp is not usable; one that is there indexes its *)
(* data, which is ImageCoherent at the source.                               *)
Shipment ==
    {s \in [seq : 1..MaxSeq, data : Property, decl : BOOLEAN, usable : BOOLEAN] :
        s.seq > (IF s.data # Nothing THEN 1 ELSE 0) + (IF s.decl THEN 1 ELSE 0)}

(* The target is empty, which does not look at declarations, and the stamp   *)
(* of a sidecar it kept is not looked at either.                             *)
RefuseNonEmpty(s) ==
    /\ plane \in {"startup", Dropped} /\ kv = Nothing
    /\ declared => "declaration" \in Leftovers
    /\ (\E f \in sidecar : f.seq >= s.seq) => "sidecar" \in Leftovers

(* One transaction lands the frames and the source's sequence ...            *)
RestoreKv(s) ==
    /\ up /\ dpc = "idle" /\ gate = Free
    /\ WritersIdle /\ spc = "idle" /\ npc = "idle"
    /\ role = "replica" => seq = 1
    /\ RefuseNonEmpty(s)
    /\ kv' = s.data
    /\ declared' = (declared \/ s.decl)
    /\ plane' = IF plane = Dropped THEN "other" ELSE plane
    /\ seq' = s.seq
    /\ shipped' = IF s.usable THEN {Rebuilt(s.data, s.decl)} ELSE None
    /\ dpc' = "landed"
    /\ UNCHANGED <<sidecar, writerVars, registry, diverged, dsnap, saveVars, imageVars,
                   up, budget, replicaVars>>

(* ... load_sidecars: the shipped registry, or a rebuild, becomes the live   *)
(* one ...                                                                   *)
LoadShipped ==
    /\ up /\ dpc = "landed"
    /\ registry' = IF shipped = None THEN Rebuilt(kv, declared) ELSE UNION shipped
    /\ dpc' = "loaded"
    /\ UNCHANGED <<diskVars, writerVars, diverged, dsnap, shipped, saveVars, imageVars,
                   up, budget, replicaVars>>

(* ... and a usable frame is written as the sidecar; failing to is no error. *)
PersistShipped ==
    /\ up /\ dpc = "loaded"
    /\ sidecar' \in {sidecar} \cup {{[seq |-> seq, entry |-> e]} : e \in shipped}
    /\ shipped' = None
    /\ dpc' = "idle"
    /\ UNCHANGED <<kv, declared, plane, seq, writerVars, registry, diverged, dsnap,
                   saveVars, imageVars, up, budget, replicaVars>>

-------------------------------------------------------------------------------
(* A replica: the follower applies one batch after the other.                *)

Lands ==
    /\ up /\ role = "replica" /\ work = None /\ seq < MaxSeq
    /\ dpc = "idle" /\ plane # Dropped
    /\ MayOverlap("save", spc = "idle")
    /\ MayOverlap("snapshot", npc = "idle")
    /\ seq' = seq + 1
    /\ UNCHANGED <<sidecar, writerVars, registry, diverged, declareVars, saveVars,
                   imageVars, role, kind, up, budget>>

(* apply_replicated: the batch is durable and visible ...                    *)
ApplyRow(n, v) ==
    /\ Lands
    /\ kv' = [kv EXCEPT ![n] = v]
    /\ work' = {n}
    /\ UNCHANGED <<declared, plane>>

ApplyDeclaration ==
    /\ Lands
    /\ declared' = TRUE
    /\ work' = {Declaration}
    /\ UNCHANGED <<kv, plane>>

(* The master's drop_plane; its declaration rows, if any, are deleted too.   *)
ApplyDrop ==
    /\ Lands
    /\ plane = "other"
    /\ kv' = Nothing /\ declared' = FALSE /\ plane' = Dropped
    /\ work' = {IF declared THEN Declaration ELSE DropOnly}

(* Slip: a declaration is mirrored like any row.                             *)
RederivedRowsOnly ==
    {[n \in Nodes |-> IF n \in work THEN kv[n] ELSE entry[n]] : entry \in registry}

(* What the registry becomes, by the landed state.                           *)
Rederived ==
    IF Declaration \in work THEN Rebuilt(kv, declared)
    ELSE IF DropOnly \in work THEN None
    ELSE {[n \in Nodes |-> IF n \in work THEN kv[n] ELSE entry[n]] : entry \in registry}

(* ... and mirrored after that: mirror_replicated.                           *)
MirrorBatch ==
    /\ up /\ work # None /\ RegistryUnlocked
    /\ registry' = Rederived
    /\ work' = None
    /\ UNCHANGED <<diskVars, writerVars, diverged, declareVars, saveVars, imageVars,
                   role, kind, up, budget>>

(* The pass takes both registries node by node and ends at the first error,  *)
(* of either: before this index's turn, after the node was taken out or the  *)
(* entries were cleared, or when it is done with this index.                 *)
Interrupted ==
    {Rederived} \cup
    CASE Declaration \in work -> {registry, None}
      [] DropOnly \in work -> {}
      [] OTHER -> {registry, {[n \in Nodes |-> IF n \in work THEN Absent ELSE entry[n]] :
                                entry \in registry}}

(* It fails: the batch stands, note_index_divergence.                        *)
MirrorBatchFails ==
    /\ up /\ work # None /\ RegistryUnlocked
    /\ faults < MaxFaults
    /\ faults' = faults + 1
    /\ diverged' = TRUE
    /\ registry' \in IF kind \in BatchFaults THEN Interrupted ELSE {Rederived}
    /\ work' = None
    /\ UNCHANGED <<diskVars, writerVars, declareVars, saveVars, imageVars,
                   role, kind, up, crashes>>

-------------------------------------------------------------------------------
(* Sidecars.                                                                 *)

(* save_sidecars: the current sequence ...                                   *)
ReadStamp ==
    /\ up /\ spc = "idle"
    /\ MayOverlap("save", WritersIdle /\ dpc = "idle")
    /\ spc' = "stamped"
    /\ sseq' = seq
    /\ UNCHANGED <<diskVars, writerVars, registry, diverged, declareVars, imageVars,
                   up, budget, replicaVars>>

(* Slip: a diverged vector registry is saved too.                            *)
SaveDiverged ==
    /\ up /\ spc = "stamped"
    /\ sidecar' = {[seq |-> sseq, entry |-> registry]}
    /\ spc' = "idle" /\ sseq' = 0
    /\ UNCHANGED <<kv, declared, plane, seq, writerVars, registry, diverged, declareVars,
                   imageVars, up, budget, replicaVars>>

(* ... then the registry stamped with it.  A diverged vector registry is     *)
(* withheld and its file removed, the keyword registry is saved in any case. *)
(* The write may also fail and leave the old file.                           *)
SaveSidecar ==
    /\ up /\ spc = "stamped"
    /\ sidecar' \in {sidecar,
                     IF Suspect THEN None ELSE {[seq |-> sseq, entry |-> registry]}}
    /\ spc' = "idle" /\ sseq' = 0
    /\ UNCHANGED <<kv, declared, plane, seq, writerVars, registry, diverged, declareVars,
                   imageVars, up, budget, replicaVars>>

-------------------------------------------------------------------------------
(* Snapshots: the registry locks first, the read transaction under them.     *)

LockRegistries ==
    /\ up /\ npc = "idle"
    /\ MayOverlap("snapshot", WritersIdle /\ dpc = "idle")
    /\ npc' = "locked"
    /\ UNCHANGED <<diskVars, writerVars, registry, diverged, declareVars, saveVars,
                   image, up, budget, replicaVars>>

(* Slip: the live registry is shipped whatever happened to it.               *)
DumpLiveRegistry ==
    /\ up /\ npc = "locked"
    /\ image' = {[data |-> kv, decl |-> declared, entry |-> registry]}
    /\ npc' = "idle"
    /\ UNCHANGED <<diskVars, writerVars, registry, diverged, declareVars, saveVars,
                   up, budget, replicaVars>>

(* The KV at one snapshot, and the live registry as its sidecar frame; a     *)
(* diverged vector registry is rebuilt, the keyword registry is shipped as   *)
(* it is.  restore loads the frame verbatim.                                 *)
Dump ==
    /\ up /\ npc = "locked"
    /\ image' = {[data |-> kv, decl |-> declared,
                  entry |-> IF Suspect THEN Rebuilt(kv, declared) ELSE registry]}
    /\ npc' = "idle"
    /\ UNCHANGED <<diskVars, writerVars, registry, diverged, declareVars, saveVars,
                   up, budget, replicaVars>>

-------------------------------------------------------------------------------
(* The process ends at any point: only the KV and the sidecar are left.      *)
Crash ==
    /\ up /\ crashes < MaxCrashes
    /\ crashes' = crashes + 1
    /\ up' = FALSE
    /\ gate' = Free
    /\ wpc' = [w \in Writers |-> "idle"]
    /\ decls' = [w \in Writers |-> FALSE]
    /\ event' = [w \in Writers |-> None]
    /\ registry' = None
    /\ diverged' = FALSE
    /\ dpc' = "idle" /\ dsnap' = Nothing /\ shipped' = None
    /\ spc' = "idle" /\ sseq' = 0
    /\ npc' = "idle"
    /\ work' = None
    /\ UNCHANGED <<diskVars, image, role, kind, faults>>

(* The registry of a sidecar found fit, or else a rebuild.                   *)
Loaded(files) ==
    IF files # None THEN UNION {f.entry : f \in files} ELSE Rebuilt(kv, declared)

(* Database::init: the sidecar if its stamp is the KV's sequence, else a     *)
(* rebuild.  An initialised store is opened without a write.                 *)
Open ==
    /\ ~up
    /\ up' = TRUE
    /\ registry' = Loaded({f \in sidecar : f.seq = seq})
    /\ UNCHANGED <<diskVars, writerVars, diverged, declareVars, saveVars, imageVars, budget, replicaVars>>

Next ==
    \/ \E w \in Writers :
          \/ Begin(w) \/ SnapshotDecls(w) \/ Abort(w)
          \/ \E n \in Nodes, v \in Values \cup {Absent} : Commit(w, n, v)
          \/ Mirror(w) \/ MirrorFails(w)
    \/ \E n \in Nodes, v \in Values \cup {Absent} : ApplyRow(n, v)
    \/ ApplyDeclaration \/ ApplyDrop \/ MirrorBatch \/ MirrorBatchFails
    \/ Declare \/ ReadForBuild \/ BuildEntry
    \/ DropPlane \/ DropEntry
    \/ (\E s \in Shipment : RestoreKv(s)) \/ LoadShipped \/ PersistShipped
    \/ ReadStamp \/ SaveSidecar
    \/ LockRegistries \/ Dump
    \/ Crash \/ Open

Spec == Init /\ [][Next]_vars

-------------------------------------------------------------------------------
(* Properties.  They are about an index of either kind; where a failed batch *)
(* may leave a keyword index behind ("keyword" \in BatchFaults) all three    *)
(* are false, since save_sidecars and snapshot take that registry as it is   *)
(* (README, 5).                                                              *)

(* Every variable has its type; the gate belongs to the one writer between   *)
(* begin_write and the end of its commit, and events wait only for a built   *)
(* index.                                                                    *)
TypeOK ==
    /\ kv \in Property /\ dsnap \in Property
    /\ {declared, diverged, up} \subseteq BOOLEAN
    /\ seq \in 1..MaxSeq /\ sseq \in 0..MaxSeq
    /\ registry \in Registries
    /\ sidecar \in Optional([seq : 1..MaxSeq, entry : Registries])
    /\ image \in Optional([data : Property, decl : BOOLEAN, entry : Registries])
    /\ plane \in {"startup", "other", Dropped}
    /\ shipped \in Optional(Registries)
    /\ dpc \in {"idle", "declared", "reading", "dropping", "landed", "loaded"}
    /\ spc \in {"idle", "stamped"} /\ npc \in {"idle", "locked"}
    /\ faults \in 0..MaxFaults /\ crashes \in 0..MaxCrashes
    /\ \A w \in Writers :
          /\ decls[w] \in BOOLEAN
          /\ gate = w <=> wpc[w] \in {"opening", "open"}
          /\ event[w] \in Optional(Event)
          /\ wpc[w] = "mirroring" <=> event[w] # None
          /\ wpc[w] = "mirroring" => registry # None
    /\ gate \in Writers \cup {Free}
    /\ role \in Roles /\ kind \in Kinds /\ work \in Work

(* "the registries are kept coherent with each committed write", and one     *)
(* that diverged "will be rebuilt on the next open": with no event and no    *)
(* build outstanding and no failure on record, a search finds in the index   *)
(* what the KV holds.                                                        *)
Coherent ==
    /\ up /\ ~diverged
    /\ dpc = "idle"
    /\ work = None /\ \A w \in Writers : wpc[w] # "mirroring"
    => registry = Rebuilt(kv, declared)

(* "so the stamp is always valid" (save_sidecars): a sidecar that the next   *)
(* open would load is what it would have rebuilt.                            *)
StampValid ==
    \A f \in sidecar : f.seq = seq => f.entry = Rebuilt(kv, declared)

(* "`restore` always leaves the live vector and keyword registries matching  *)
(* the restored data": the frame in a snapshot, vector or keyword, is an     *)
(* index of its data.                                                        *)
ImageCoherent ==
    \A i \in image : i.entry = Rebuilt(i.data, i.decl)
===============================================================================
