------------------------------ MODULE GraphStore ------------------------------
(****************************************************************************)
(* The property graph as tables of the storage engine (storage/graph/), the *)
(* plane-scoped write transaction above it (WriteTxn in api/mod.rs), the    *)
(* plane operations of Database, and snapshot and restore of a whole store  *)
(* (api/snapshot.rs).                                                       *)
(*                                                                          *)
(* A table is a function from its keys to rows, None where there is no row, *)
(* or the set of its keys when the rows are empty.  db is the last commit,  *)
(* tx what the open write transaction sees: one at a time, WriteGate says   *)
(* why.  Properties are left out: no table but Nodes and Edges holds them   *)
(* and IndexMirror follows them into the indexes.  Labels are interned to   *)
(* ids by a dictionary; edge types have one of their own, made by the same  *)
(* code, and appear here under their names.                                 *)
(****************************************************************************)
EXTENDS Integers, FiniteSets, SequencesExt

CONSTANTS
    None,
    Keys, Labels, Types,
    Names, StartupName,
    LabelLists,      \* the label lists a caller may give
    Batches,         \* the bulk loads a caller may ask for
    IdBatchSize,     \* ID_BATCH_SIZE
    ChangeCap,       \* CHANGE_DETAIL_CAP
    Shipped,         \* snapshots of other stores, restored into this one when it is empty
    MaxPlane, MaxNode, MaxEdge, MaxLabel, MaxSeq,
    MaxOps           \* operations of all transactions together

Startup == 0
PlaneIds == 0..MaxPlane
NodeIds == 1..MaxNode
EdgeIds == 1..MaxEdge
LabelIds == 1..MaxLabel

Optional(S) == S \cup {None}

NodeRow == [key : Optional(Keys), labels : Seq(LabelIds)]
FrameRow == [key : Optional(Keys), labels : Seq(Labels)]
EdgeRow == [src : NodeIds, dst : NodeIds, ty : Types]
AdjKey == PlaneIds \X NodeIds \X Types \X NodeIds \X EdgeIds
Tally == [nodes : Int, edges : Int, labels : [Labels -> Int], types : [Types -> Int]]
Dictionary == [fwd : [Labels -> Optional(LabelIds)], rev : [LabelIds -> Optional(Labels)],
               next : Nat]

Store ==
    [nodes : [PlaneIds \X NodeIds -> Optional(NodeRow)],
     nodePlane : [NodeIds -> Optional(PlaneIds)],
     labelIdx : SUBSET (PlaneIds \X LabelIds \X NodeIds),
     extKeys : [PlaneIds \X Keys -> Optional(NodeIds)],
     edges : [PlaneIds \X EdgeIds -> Optional(EdgeRow)],
     adjFwd : SUBSET AdjKey,
     adjRev : SUBSET AdjKey,
     planes : [PlaneIds -> Optional(Names)],
     planeNames : [Names -> Optional(PlaneIds)],
     nextNode : Nat, nextEdge : Nat, nextPlane : Nat,
     dict : Dictionary,
     counters : [PlaneIds -> Optional(Tally)],
     seq : Nat]

ASSUME StoreAssumption ==
    /\ None \notin Keys \cup Labels \cup Types \cup Names
    /\ None \notin NodeRow \cup FrameRow \cup EdgeRow \cup Tally \cup Nat
    /\ StartupName \in Names
    /\ LabelLists \subseteq Seq(Labels)
    /\ \A batch \in Batches :
          /\ batch.nodes \in Seq([key : Optional(Keys), labels : Seq(Labels), props : BOOLEAN])
          /\ batch.edges \in Seq([src : Keys, dst : Keys, ty : Types])
    /\ IdBatchSize \in Nat \ {0} /\ ChangeCap \in Nat
    /\ {MaxPlane, MaxNode, MaxEdge, MaxLabel, MaxSeq, MaxOps} \subseteq Nat

VARIABLES
    db,        \* the committed tables
    tx,        \* the tables as the write transaction sees them
    plane,     \* WriteTxn.plane, or None: no transaction is open
    ids,       \* WriteTxn.ids: the node and the edge batch of IdAllocator
    delta,     \* WriteTxn.counters
    changes,   \* WriteTxn.changes: what happened to each entity tracked
    overflow,  \* ChangeBuffer.overflowed
    ops        \* operations so far, for the bound

txnVars == <<tx, plane, ids, delta, changes, overflow, ops>>
vars == <<db, txnVars>>

-------------------------------------------------------------------------------
(* storage/graph/meta.rs: identifiers and dictionaries.                      *)

(* Slip: the reservation is one short.                                       *)
TakeReservesShort(counter, batch) ==
    IF batch.left = 0
    THEN [id |-> counter, counter |-> counter + IdBatchSize - 1,
          batch |-> [next |-> counter + 1, left |-> IdBatchSize - 1]]
    ELSE [id |-> batch.next, counter |-> counter,
          batch |-> [next |-> batch.next + 1, left |-> batch.left - 1]]

(* IdBatch::take: from the batch in hand, or a new one reserved first.       *)
Take(counter, batch) ==
    IF batch.left = 0
    THEN [id |-> counter, counter |-> counter + IdBatchSize,
          batch |-> [next |-> counter + 1, left |-> IdBatchSize - 1]]
    ELSE [id |-> batch.next, counter |-> counter,
          batch |-> [next |-> batch.next + 1, left |-> batch.left - 1]]

NoBatch == [next |-> 0, left |-> 0]

(* intern: a name keeps its id, a new one takes the next.                    *)
Intern(d, name) ==
    IF d.fwd[name] # None THEN d
    ELSE [fwd |-> [d.fwd EXCEPT ![name] = d.next],
          rev |-> [d.rev EXCEPT ![d.next] = name],
          next |-> d.next + 1]

InternAll(d, names) ==
    LET upTo[i \in 0..Len(names)] == IF i = 0 THEN d ELSE Intern(upTo[i - 1], names[i])
    IN  upTo[Len(names)]

(* The dictionary has room below the bound.                                  *)
Interns(d, names) ==
    d.next + Cardinality({l \in ToSet(names) : d.fwd[l] = None}) <= MaxLabel + 1

Lookup(d, names) == [i \in DOMAIN names |-> d.fwd[names[i]]]
Resolve(d, lids) == [i \in DOMAIN lids |-> d.rev[lids[i]]]

EmptyDict == [fwd |-> [l \in Labels |-> None], rev |-> [i \in LabelIds |-> None], next |-> 1]

-------------------------------------------------------------------------------
(* storage/graph/node.rs and edge.rs: rows and what mirrors them.            *)

NodeExists(s, p, n) == s.nodes[<<p, n>>] # None
EdgeExists(s, p, e) == s.edges[<<p, e>>] # None

LabelKeys(k, lids) == {<<k[1], lids[i], k[2]>> : i \in DOMAIN lids}
Under(table, rows) == [k \in DOMAIN table |-> IF k \in DOMAIN rows THEN rows[k] ELSE table[k]]

(* The writes of insert_node, of StagedNodes::write and of a restored frame: *)
(* rows is a function from <<plane, id>> to the records, and each brings its *)
(* plane, its label-index entries and its key.                               *)
InsertNodes(s, rows) ==
    LET new == DOMAIN rows
    IN  [s EXCEPT !.nodes = Under(@, rows),
                  !.nodePlane = [n \in DOMAIN @ |->
                     IF \E k \in new : k[2] = n THEN (CHOOSE k \in new : k[2] = n)[1] ELSE @[n]],
                  !.labelIdx = @ \cup UNION {LabelKeys(k, rows[k].labels) : k \in new},
                  !.extKeys = [x \in DOMAIN @ |->
                     IF \E k \in new : <<k[1], rows[k].key>> = x
                     THEN (CHOOSE k \in new : <<k[1], rows[k].key>> = x)[2] ELSE @[x]]]

(* Slip: the old entries of the label index stay.                            *)
SetNodeLabelsKeepsOld(s, lists) ==
    [s EXCEPT !.nodes = [k \in DOMAIN @ |->
                 IF k \in DOMAIN lists THEN [@[k] EXCEPT !.labels = lists[k]] ELSE @[k]],
              !.labelIdx = @ \cup UNION {LabelKeys(k, lists[k]) : k \in DOMAIN lists}]

(* set_node_labels, for every node in lists: the index rewritten to match.   *)
SetNodeLabels(s, lists) ==
    [s EXCEPT !.nodes = [k \in DOMAIN @ |->
                 IF k \in DOMAIN lists THEN [@[k] EXCEPT !.labels = lists[k]] ELSE @[k]],
              !.labelIdx = (@ \ UNION {LabelKeys(k, s.nodes[k].labels) : k \in DOMAIN lists})
                           \cup UNION {LabelKeys(k, lists[k]) : k \in DOMAIN lists}]

Fwd(k, row) == <<k[1], row.src, row.ty, row.dst, k[2]>>
Rev(k, row) == <<k[1], row.dst, row.ty, row.src, k[2]>>

(* The writes of insert_edge and of EdgeBatches: records, both directions.   *)
InsertEdges(s, rows) ==
    [s EXCEPT !.edges = Under(@, rows),
              !.adjFwd = @ \cup {Fwd(k, rows[k]) : k \in DOMAIN rows},
              !.adjRev = @ \cup {Rev(k, rows[k]) : k \in DOMAIN rows}]

(* delete_edge of each: the adjacency its record names, then the record.     *)
DeleteEdges(s, gone) ==
    LET there == {k \in gone : s.edges[k] # None}
    IN  [s EXCEPT !.edges = [k \in DOMAIN @ |-> IF k \in there THEN None ELSE @[k]],
                  !.adjFwd = @ \ {Fwd(k, s.edges[k]) : k \in there},
                  !.adjRev = @ \ {Rev(k, s.edges[k]) : k \in there}]

(* neighbors in both directions, without a type: the keys of the edges.      *)
Incident(s, p, n) ==
    {<<p, a[5]>> : a \in {a \in s.adjFwd \cup s.adjRev : a[1] = p /\ a[2] = n}}

(* The node's own rows; the key only if it still points here.                *)
ForgetNode(s, p, n) ==
    LET row == s.nodes[<<p, n>>]
    IN  [s EXCEPT !.labelIdx = @ \ LabelKeys(<<p, n>>, row.labels),
                  !.extKeys = [x \in DOMAIN @ |->
                     IF x = <<p, row.key>> /\ @[x] = n THEN None ELSE @[x]],
                  !.nodePlane[n] = None,
                  !.nodes[<<p, n>>] = None]

(* Slip: only the edges that leave the node go with it.                      *)
DeleteNodeRowsOutOnly(s, p, n) ==
    ForgetNode(DeleteEdges(s, {<<p, a[5]>> : a \in {a \in s.adjFwd : a[1] = p /\ a[2] = n}}),
               p, n)

(* delete_node of a node that is there: the incident edges, then its rows.   *)
DeleteNodeRows(s, p, n) == ForgetNode(DeleteEdges(s, Incident(s, p, n)), p, n)

(* set_edge_type: the type is part of both adjacency keys.                   *)
RetypeEdge(s, k, ty) ==
    LET new == [s.edges[k] EXCEPT !.ty = ty]
    IN  [s EXCEPT !.edges[k] = new,
                  !.adjFwd = (@ \ {Fwd(k, s.edges[k])}) \cup {Fwd(k, new)},
                  !.adjRev = (@ \ {Rev(k, s.edges[k])}) \cup {Rev(k, new)}]

(* write_plane.                                                              *)
WritePlane(s, p, name) == [s EXCEPT !.planes[p] = name, !.planeNames[name] = p]

(* drop_plane, and the counters row that Database::drop_plane deletes: every *)
(* table swept by the plane's prefix, node_plane by the ids found.           *)
DropPlaneRows(s, p) ==
    [s EXCEPT !.nodePlane = [n \in NodeIds |-> IF NodeExists(s, p, n) THEN None ELSE @[n]],
              !.nodes = [k \in DOMAIN @ |-> IF k[1] = p THEN None ELSE @[k]],
              !.edges = [k \in DOMAIN @ |-> IF k[1] = p THEN None ELSE @[k]],
              !.adjFwd = {a \in @ : a[1] # p},
              !.adjRev = {a \in @ : a[1] # p},
              !.labelIdx = {a \in @ : a[1] # p},
              !.extKeys = [k \in DOMAIN @ |-> IF k[1] = p THEN None ELSE @[k]],
              !.planes[p] = None,
              !.planeNames[s.planes[p]] = None,
              !.counters[p] = None]

-------------------------------------------------------------------------------
(* The counters row: catalog::count and CounterDelta.                        *)

Occurrences(l, names) == Cardinality({i \in DOMAIN names : names[i] = l})
NoTally == [nodes |-> 0, edges |-> 0, labels |-> [l \in Labels |-> 0],
            types |-> [t \in Types |-> 0]]

(* catalog::count: one plane, by scanning it.                                *)
Counted(s, p) ==
    LET there == {n \in NodeIds : NodeExists(s, p, n)}
        edges == {e \in EdgeIds : EdgeExists(s, p, e)}
        NamesOf(n) == Resolve(s.dict, s.nodes[<<p, n>>].labels)
    IN  [nodes |-> Cardinality(there),
         edges |-> Cardinality(edges),
         labels |-> [l \in Labels |-> FoldSet(LAMBDA n, c : Occurrences(l, NamesOf(n)) + c,
                                              0, there)],
         types |-> [t \in Types |-> Cardinality({e \in edges : s.edges[<<p, e>>].ty = t})]]

ShiftLabels(d, names, by) ==
    [d EXCEPT !.labels = [l \in Labels |-> @[l] + by * Occurrences(l, names)]]

(* node_added, node_removed, edge_added, edge_removed.                       *)
CountNode(d, names, by) == [ShiftLabels(d, names, by) EXCEPT !.nodes = @ + by]
CountEdge(d, ty, by) == [d EXCEPT !.edges = @ + by, !.types[ty] = @ + by]

Saturating(n) == IF n < 0 THEN 0 ELSE n

(* CounterDelta::apply.                                                      *)
Apply(d, row) ==
    [nodes |-> Saturating(row.nodes + d.nodes),
     edges |-> Saturating(row.edges + d.edges),
     labels |-> [l \in Labels |-> Saturating(row.labels[l] + d.labels[l])],
     types |-> [t \in Types |-> Saturating(row.types[t] + d.types[t])]]

-------------------------------------------------------------------------------
(* The change buffer.                                                        *)

Entity == ({"node"} \X NodeIds) \cup ({"edge"} \X EdgeIds)
Ops == {"created", "updated", "deleted"}
Buffer == [seen : [Entity -> SUBSET Ops], over : BOOLEAN]

Tracked(seen) == {x \in Entity : seen[x] # {}}

(* Slip: an entity that finds no room is forgotten without a trace.          *)
PushDrops(b, x, op) ==
    IF b.seen[x] # {} \/ Cardinality(Tracked(b.seen)) < ChangeCap
    THEN [b EXCEPT !.seen[x] = @ \cup {op}]
    ELSE b

(* ChangeBuffer::push: an entity not tracked yet needs room.                 *)
Push(b, x, op) ==
    IF b.seen[x] # {} \/ Cardinality(Tracked(b.seen)) < ChangeCap
    THEN [b EXCEPT !.seen[x] = @ \cup {op}]
    ELSE [b EXCEPT !.over = TRUE]

InHand == [seen |-> changes, over |-> overflow]
Untouched == [x \in Entity |-> {}]

(* build_change_set: one operation per entity, created and deleted cancel.   *)
NetOp(what) ==
    IF {"created", "deleted"} \subseteq what THEN None
    ELSE IF "created" \in what THEN "created"
    ELSE IF "deleted" \in what THEN "deleted"
    ELSE IF "updated" \in what THEN "updated"
    ELSE None

-------------------------------------------------------------------------------
(* A new database: graph::init and the backfilled counters row.              *)
EmptyStore ==
    [nodes |-> [k \in PlaneIds \X NodeIds |-> None],
     nodePlane |-> [n \in NodeIds |-> None],
     labelIdx |-> {},
     extKeys |-> [k \in PlaneIds \X Keys |-> None],
     edges |-> [k \in PlaneIds \X EdgeIds |-> None],
     adjFwd |-> {}, adjRev |-> {},
     planes |-> [p \in PlaneIds |-> IF p = Startup THEN StartupName ELSE None],
     planeNames |-> [n \in Names |-> IF n = StartupName THEN Startup ELSE None],
     nextNode |-> 1, nextEdge |-> 1, nextPlane |-> 1,
     dict |-> EmptyDict,
     counters |-> [p \in PlaneIds |-> IF p = Startup THEN NoTally ELSE None],
     seq |-> 1]

Closed == [node |-> NoBatch, edge |-> NoBatch]

Init ==
    /\ db = EmptyStore
    /\ tx = EmptyStore
    /\ plane = None
    /\ ids = Closed
    /\ delta = NoTally
    /\ changes = Untouched
    /\ overflow = FALSE
    /\ ops = 0

-------------------------------------------------------------------------------
(* WriteTxn.                                                                 *)

(* PlaneHandle::write: the handle may have outlived its plane.               *)
Begin(p) ==
    /\ plane = None
    /\ p < db.nextPlane /\ db.seq < MaxSeq /\ ops < MaxOps
    /\ plane' = p
    /\ tx' = db
    /\ UNCHANGED <<db, ids, delta, changes, overflow, ops>>

EndTxn ==
    /\ plane' = None
    /\ ids' = Closed
    /\ delta' = NoTally
    /\ changes' = Untouched
    /\ overflow' = FALSE
    /\ UNCHANGED ops

(* What an operation of the open transaction leaves alone.                   *)
Staged ==
    /\ plane # None
    /\ ops < MaxOps /\ ops' = ops + 1
    /\ UNCHANGED <<db, plane>>

Row(k, row) == [x \in {k} |-> row]
Note(b) == changes' = b.seen /\ overflow' = b.over
Record(x, op) == Note(Push(InHand, x, op))

(* create_node, create_node_with_key: a key already bound is a Conflict, and *)
(* the id is spent.                                                          *)
CreateNode(key, labels) ==
    /\ Staged /\ Interns(tx.dict, labels)
    /\ LET t == Take(tx.nextNode, ids.node)
           d == InternAll(tx.dict, labels)
           s == [tx EXCEPT !.nextNode = t.counter]
           conflict == key # None /\ tx.extKeys[<<plane, key>>] # None
       IN  /\ t.counter <= MaxNode + 1
           /\ ids' = [ids EXCEPT !.node = t.batch]
           /\ IF conflict
              THEN tx' = s /\ UNCHANGED <<delta, changes, overflow>>
              ELSE /\ tx' = InsertNodes([s EXCEPT !.dict = d], Row(<<plane, t.id>>,
                                  [key |-> key, labels |-> Lookup(d, labels)]))
                   /\ delta' = CountNode(delta, labels, 1)
                   /\ Record(<<"node", t.id>>, "created")

(* create_edge: both endpoints must be in this plane.                        *)
CreateEdge(src, dst, ty) ==
    /\ Staged
    /\ LET t == Take(tx.nextEdge, ids.edge)
           s == [tx EXCEPT !.nextEdge = t.counter]
       IN  /\ t.counter <= MaxEdge + 1
           /\ ids' = [ids EXCEPT !.edge = t.batch]
           /\ IF NodeExists(tx, plane, src) /\ NodeExists(tx, plane, dst)
              THEN /\ tx' = InsertEdges(s, Row(<<plane, t.id>>,
                                  [src |-> src, dst |-> dst, ty |-> ty]))
                   /\ delta' = CountEdge(delta, ty, 1)
                   /\ Record(<<"edge", t.id>>, "created")
              ELSE tx' = s /\ UNCHANGED <<delta, changes, overflow>>

(* Every incident edge's type is taken off the counters.                     *)
UncountEdges(d, gone) ==
    [d EXCEPT !.edges = @ - Cardinality(gone),
              !.types = [t \in Types |->
                 @[t] - Cardinality({k \in gone : tx.edges[k].ty = t})]]

(* An id that was handed out, here or before: callers name no other.         *)
Given(id, counter, batch) ==
    id < counter /\ ~(batch.next <= id /\ id < batch.next + batch.left)
GivenNode(n) == Given(n, tx.nextNode, ids.node)
GivenEdge(e) == Given(e, tx.nextEdge, ids.edge)

(* Slip: the edges that go with the node stay counted.                       *)
DeleteNodeCountsNodeOnly(n) ==
    /\ Staged /\ GivenNode(n)
    /\ IF NodeExists(tx, plane, n)
       THEN /\ tx' = DeleteNodeRows(tx, plane, n)
            /\ delta' = CountNode(delta, Resolve(tx.dict, tx.nodes[<<plane, n>>].labels), -1)
       ELSE UNCHANGED <<tx, delta>>
    /\ Record(<<"node", n>>, "deleted")
    /\ UNCHANGED ids

(* delete_node: idempotent, reported to the feed either way.                 *)
DeleteNode(n) ==
    /\ Staged /\ GivenNode(n)
    /\ IF NodeExists(tx, plane, n)
       THEN /\ tx' = DeleteNodeRows(tx, plane, n)
            /\ delta' = CountNode(UncountEdges(delta, Incident(tx, plane, n)),
                                  Resolve(tx.dict, tx.nodes[<<plane, n>>].labels), -1)
       ELSE UNCHANGED <<tx, delta>>
    /\ Record(<<"node", n>>, "deleted")
    /\ UNCHANGED ids

DeleteEdge(e) ==
    /\ Staged /\ GivenEdge(e)
    /\ IF EdgeExists(tx, plane, e)
       THEN /\ tx' = DeleteEdges(tx, {<<plane, e>>})
            /\ delta' = UncountEdges(delta, {<<plane, e>>})
       ELSE UNCHANGED <<tx, delta>>
    /\ Record(<<"edge", e>>, "deleted")
    /\ UNCHANGED ids

(* set_prop and remove_prop, and those of an edge: the record's properties.  *)
Touch(x) ==
    /\ Staged
    /\ IF x[1] = "node" THEN NodeExists(tx, plane, x[2]) ELSE EdgeExists(tx, plane, x[2])
    /\ Record(x, "updated")
    /\ UNCHANGED <<tx, ids, delta>>

(* The labels' part of set_labels.                                           *)
Relabelled(s, n, labels) ==
    LET d == InternAll(s.dict, labels)
    IN  SetNodeLabels([s EXCEPT !.dict = d], Row(<<plane, n>>, Lookup(d, labels)))

RecountLabels(d, old, new) == ShiftLabels(ShiftLabels(d, old, -1), new, 1)

SetLabels(n, labels) ==
    /\ Staged /\ NodeExists(tx, plane, n) /\ Interns(tx.dict, labels)
    /\ tx' = Relabelled(tx, n, labels)
    /\ delta' = RecountLabels(delta, Resolve(tx.dict, tx.nodes[<<plane, n>>].labels), labels)
    /\ Record(<<"node", n>>, "updated")
    /\ UNCHANGED ids

SetEdgeType(e, ty) ==
    /\ Staged /\ EdgeExists(tx, plane, e)
    /\ tx' = RetypeEdge(tx, <<plane, e>>, ty)
    /\ delta' = [delta EXCEPT !.types = [t \in Types |->
                    @[t] + (IF t = ty THEN 1 ELSE 0)
                         - (IF t = tx.edges[<<plane, e>>].ty THEN 1 ELSE 0)]]
    /\ Record(<<"edge", e>>, "updated")
    /\ UNCHANGED ids

-------------------------------------------------------------------------------
(* bulk.rs and bulk_upsert: nodes = <<[key, labels, props], ...>>, with or    *)
(* without properties, and edges by key.                                     *)

(* The id a batch key stands for: the batch's own node, or the plane's.      *)
OwnerOf(s, key) == s.extKeys[<<plane, key>>]
BatchId(start, i) == start + i - 1
EndpointId(s, nodes, start, key) ==
    LET mine == {i \in DOMAIN nodes : nodes[i].key = key}
    IN  IF OwnerOf(s, key) # None \/ mine = {} THEN OwnerOf(s, key)
        ELSE BatchId(start, CHOOSE i \in mine : TRUE)

Kept(s, nodes) == {i \in DOMAIN nodes : nodes[i].key # None /\ OwnerOf(s, nodes[i].key) # None}

(* A key repeated in the batch, whatever the policy; a key the plane holds.  *)
Refused(nodes, policy) ==
    {j \in DOMAIN nodes :
        \/ nodes[j].key # None /\ \E i \in 1..(j - 1) : nodes[i].key = nodes[j].key
        \/ policy = "error" /\ j \in Kept(tx, nodes)}

(* stage_nodes and the edge phase find nothing to refuse.                    *)
BulkAccepted(batch, policy) ==
    /\ Refused(batch.nodes, policy) = {}
    /\ \A i \in DOMAIN batch.edges : \A key \in {batch.edges[i].src, batch.edges[i].dst} :
          EndpointId(tx, batch.nodes, tx.nextNode, key) # None

(* The labels of the nodes at some positions, in the batch's order.          *)
LabelsAt(nodes, at) ==
    FlattenSeq([i \in DOMAIN nodes |-> IF i \in at THEN nodes[i].labels ELSE <<>>])

(* stage_nodes: the records of the nodes that are new.                       *)
LoadNodes(s, nodes, start) ==
    LET new == DOMAIN nodes \ Kept(s, nodes)
        d == InternAll(s.dict, LabelsAt(nodes, new))
        at(k) == k[2] - start + 1
    IN  InsertNodes([s EXCEPT !.dict = d],
            [k \in {<<plane, BatchId(start, i)>> : i \in new} |->
                [key |-> nodes[at(k)].key, labels |-> Lookup(d, nodes[at(k)].labels)]])

LoadEdges(s, rows, start) ==
    InsertEdges(s, [k \in {<<plane, BatchId(start, i)>> : i \in DOMAIN rows} |->
                       rows[k[2] - start + 1]])

(* The merge under OnConflict::Update: a line's labels, if it has any,       *)
(* replace those of the node it met.                                         *)
Merge(s, nodes) ==
    LET met == {i \in Kept(tx, nodes) : nodes[i].labels # <<>>}
        d == InternAll(s.dict, LabelsAt(nodes, met))
        line(k) == CHOOSE i \in met : OwnerOf(tx, nodes[i].key) = k[2]
    IN  SetNodeLabels([s EXCEPT !.dict = d],
            [k \in {<<plane, OwnerOf(tx, nodes[i].key)>> : i \in met} |->
                Lookup(d, nodes[line(k)].labels)])

MergeCount(d, nodes, policy) ==
    FoldLeft(LAMBDA acc, i :
                IF i \notin Kept(tx, nodes) THEN CountNode(acc, nodes[i].labels, 1)
                ELSE IF policy = "update" /\ nodes[i].labels # <<>>
                THEN RecountLabels(acc, Resolve(tx.dict,
                        tx.nodes[<<plane, OwnerOf(tx, nodes[i].key)>>].labels), nodes[i].labels)
                ELSE acc,
             d, [i \in DOMAIN nodes |-> i])

(* Kept nodes are reported when merged, then the nodes created; edges never. *)
MergeChanges(b, nodes, policy, start) ==
    LET Report(acc, i) ==
            IF i \in Kept(tx, nodes)
            THEN IF policy = "update" /\ (nodes[i].props \/ nodes[i].labels # <<>>)
                 THEN Push(acc, <<"node", OwnerOf(tx, nodes[i].key)>>, "updated")
                 ELSE acc
            ELSE Push(acc, <<"node", BatchId(start, i)>>, "created")
        first == SelectSeq([i \in DOMAIN nodes |-> i], LAMBDA i : i \in Kept(tx, nodes))
        rest == SelectSeq([i \in DOMAIN nodes |-> i], LAMBDA i : i \notin Kept(tx, nodes))
    IN  FoldLeft(Report, b, first \o rest)

AllLabels(nodes) == LabelsAt(nodes, DOMAIN nodes)

BulkUpsert(batch, policy) ==
    LET nodes == batch.nodes
        edges == batch.edges
        nodeStart == tx.nextNode
        edgeStart == tx.nextEdge
        row(i) == [src |-> EndpointId(tx, nodes, nodeStart, edges[i].src),
                   dst |-> EndpointId(tx, nodes, nodeStart, edges[i].dst),
                   ty |-> edges[i].ty]
        reserved == [tx EXCEPT !.nextNode = @ + Len(nodes), !.nextEdge = @ + Len(edges)]
        loaded == LoadEdges(LoadNodes(reserved, nodes, nodeStart),
                            [i \in DOMAIN edges |-> row(i)], edgeStart)
    IN  /\ Staged /\ Interns(tx.dict, AllLabels(nodes))
        /\ BulkAccepted(batch, policy)
        /\ reserved.nextNode <= MaxNode + 1 /\ reserved.nextEdge <= MaxEdge + 1
        /\ tx' = IF policy = "update" THEN Merge(loaded, nodes) ELSE loaded
        /\ delta' = FoldLeft(LAMBDA acc, i : CountEdge(acc, edges[i].ty, 1),
                             MergeCount(delta, nodes, policy), [i \in DOMAIN edges |-> i])
        /\ Note(MergeChanges(InHand, nodes, policy, nodeStart))
        /\ UNCHANGED ids

(* Refused at a node or at an edge: nothing is written but the reservations  *)
(* and the labels met so far, which stay in the transaction.                 *)
BulkRefused(batch, policy) ==
    LET nodes == batch.nodes
        atNode == Refused(nodes, policy) # {}
        met == {i \in DOMAIN nodes \ Kept(tx, nodes) : \A j \in Refused(nodes, policy) : i < j}
    IN  /\ Staged /\ Interns(tx.dict, AllLabels(nodes))
        /\ ~ BulkAccepted(batch, policy)
        /\ tx.nextNode + Len(nodes) <= MaxNode + 1
        /\ tx.nextEdge + Len(batch.edges) <= MaxEdge + 1
        /\ tx' = [tx EXCEPT !.nextNode = @ + Len(nodes),
                            !.nextEdge = IF atNode THEN @ ELSE @ + Len(batch.edges),
                            !.dict = InternAll(@, LabelsAt(nodes, met))]
        /\ UNCHANGED <<ids, delta, changes, overflow>>

(* bulk_load_edges: endpoints by id and trusted; the caller has found both.  *)
BulkLoadEdge(src, dst, ty) ==
    /\ Staged
    /\ NodeExists(tx, plane, src) /\ NodeExists(tx, plane, dst)
    /\ tx.nextEdge <= MaxEdge
    /\ tx' = InsertEdges([tx EXCEPT !.nextEdge = @ + 1],
                         Row(<<plane, tx.nextEdge>>, [src |-> src, dst |-> dst, ty |-> ty]))
    /\ delta' = CountEdge(delta, ty, 1)
    /\ UNCHANGED <<ids, changes, overflow>>

-------------------------------------------------------------------------------
(* commit and drop.                                                          *)

(* The counter delta into the plane's row, a missing one starting at zero.   *)
Folded(s) ==
    IF delta = NoTally THEN s
    ELSE [s EXCEPT !.counters[plane] =
             Apply(delta, IF @ = None THEN NoTally ELSE @)]

Commit ==
    /\ plane # None
    /\ db' = [Folded(tx) EXCEPT !.seq = @ + 1]
    /\ tx' = db'
    /\ EndTxn

Abort ==
    /\ plane # None
    /\ tx' = db
    /\ EndTxn
    /\ UNCHANGED db

-------------------------------------------------------------------------------
(* Plane operations, each a write transaction of its own.                    *)
Alone ==
    /\ plane = None /\ db.seq < MaxSeq
    /\ ops < MaxOps /\ ops' = ops + 1
    /\ UNCHANGED <<plane, ids, delta, changes, overflow>>
Land(s) == db' = [s EXCEPT !.seq = @ + 1] /\ tx' = db'

CreatePlane(name) ==
    /\ Alone
    /\ db.planeNames[name] = None /\ db.nextPlane <= MaxPlane
    /\ Land(WritePlane([db EXCEPT !.nextPlane = @ + 1], db.nextPlane, name))

(* rename_plane; set_plane_properties rewrites the row it finds.             *)
RenamePlane(p, name) ==
    /\ Alone
    /\ p # Startup /\ db.planes[p] # None
    /\ db.planeNames[name] = None
    /\ Land(WritePlane([db EXCEPT !.planeNames[db.planes[p]] = None], p, name))

DropPlane(p) ==
    /\ Alone
    /\ p # Startup /\ db.planes[p] # None
    /\ Land(DropPlaneRows(db, p))

-------------------------------------------------------------------------------
(* Snapshot and restore.                                                     *)

Listed(s) == {p \in PlaneIds : \E n \in Names : s.planeNames[n] = p}

(* The frames: planes, nodes with their labels' names, edges, id counters.   *)
Frames(s) ==
    [planes |-> s.planes,
     nodes |-> [k \in PlaneIds \X NodeIds |->
                   IF k[1] \in Listed(s) /\ s.nodes[k] # None
                   THEN [key |-> s.nodes[k].key, labels |-> Resolve(s.dict, s.nodes[k].labels)]
                   ELSE None],
     edges |-> [k \in PlaneIds \X EdgeIds |-> IF k[1] \in Listed(s) THEN s.edges[k] ELSE None],
     next |-> [node |-> s.nextNode, edge |-> s.nextEdge, plane |-> s.nextPlane,
               label |-> s.dict.next],
     seq |-> s.seq]

(* refuse_non_empty: no other plane listed, and no node in a listed one.     *)
LooksEmpty(s) ==
    /\ Listed(s) = {Startup}
    /\ \A n \in NodeIds : ~ NodeExists(s, Startup, n)

(* The labels of all frames, in their order: planes, then nodes.             *)
FrameLabels(f) ==
    LET at(p, n) == IF f.nodes[<<p, n>>] = None THEN <<>> ELSE f.nodes[<<p, n>>].labels
        in(p) == FlattenSeq([n \in 1..MaxNode |-> at(p, n)])
    IN  FlattenSeq([i \in 1..(MaxPlane + 1) |-> in(i - 1)])

(* apply_frame over the frames: write_plane, insert_node, insert_edge.       *)
Replay(target, f) ==
    LET d == InternAll(target.dict, FrameLabels(f))
        planes == [target EXCEPT
                      !.dict = d,
                      !.planes = [p \in DOMAIN @ |-> IF f.planes[p] # None THEN f.planes[p] ELSE @[p]],
                      !.planeNames = [n \in DOMAIN @ |->
                         IF \E p \in PlaneIds : f.planes[p] = n
                         THEN CHOOSE p \in PlaneIds : f.planes[p] = n ELSE @[n]]]
        nodes == [k \in {k \in DOMAIN f.nodes : f.nodes[k] # None} |->
                     [key |-> f.nodes[k].key, labels |-> Lookup(d, f.nodes[k].labels)]]
        edges == [k \in {k \in DOMAIN f.edges : f.edges[k] # None} |-> f.edges[k]]
    IN  InsertEdges(InsertNodes(planes, nodes), edges)

(* Slip: the identifier counters are left where the empty store had them.    *)
RestoredOwnCounters(target, f) ==
    LET s == [Replay(target, f) EXCEPT !.seq = f.seq]
    IN  [s EXCEPT !.counters = [p \in PlaneIds |->
                                   IF p \in Listed(s) THEN Counted(s, p) ELSE @[p]]]

(* restore: the frames, the source's counters and sequence as they were, and *)
(* a recount of every plane.                                                 *)
Restored(target, f) ==
    LET s == [Replay(target, f) EXCEPT !.nextNode = f.next.node, !.nextEdge = f.next.edge,
                                       !.nextPlane = f.next.plane, !.dict.next = f.next.label,
                                       !.seq = f.seq]
    IN  [s EXCEPT !.counters = [p \in PlaneIds |->
                                   IF p \in Listed(s) THEN Counted(s, p) ELSE @[p]]]

(* Work goes on in the restored store: a new one that takes over this one's  *)
(* snapshot, or this one with a snapshot of another.                         *)
Restore(target, f) ==
    /\ plane = None
    /\ LooksEmpty(target)
    /\ db' = Restored(target, f)
    /\ tx' = db'
    /\ UNCHANGED <<plane, ids, delta, changes, overflow, ops>>

RestoreStep ==
    \/ Restore(EmptyStore, Frames(db))
    \/ \E f \in Shipped : Restore(db, f)

Next ==
    \/ \E p \in PlaneIds : Begin(p)
    \/ \E key \in Optional(Keys), labels \in LabelLists : CreateNode(key, labels)
    \/ \E src, dst \in NodeIds, ty \in Types : CreateEdge(src, dst, ty)
    \/ \E n \in NodeIds : DeleteNode(n)
    \/ \E e \in EdgeIds : DeleteEdge(e)
    \/ \E x \in Entity : Touch(x)
    \/ \E n \in NodeIds, labels \in LabelLists : SetLabels(n, labels)
    \/ \E e \in EdgeIds, ty \in Types : SetEdgeType(e, ty)
    \/ \E batch \in Batches, policy \in {"error", "skip", "update"} :
          BulkUpsert(batch, policy) \/ BulkRefused(batch, policy)
    \/ \E src, dst \in NodeIds, ty \in Types : BulkLoadEdge(src, dst, ty)
    \/ Commit \/ Abort
    \/ \E name \in Names : CreatePlane(name) \/ \E p \in PlaneIds : RenamePlane(p, name)
    \/ \E p \in PlaneIds : DropPlane(p)
    \/ RestoreStep

Spec == Init /\ [][Next]_vars

-------------------------------------------------------------------------------
(* Properties.                                                               *)

(* Both adjacency tables are exactly the edge records, and no edge dangles.  *)
AdjacencyMirrors(s) ==
    LET there == {k \in PlaneIds \X EdgeIds : s.edges[k] # None}
    IN  /\ s.adjFwd = {Fwd(k, s.edges[k]) : k \in there}
        /\ s.adjRev = {Rev(k, s.edges[k]) : k \in there}
        /\ \A k \in there : NodeExists(s, k[1], s.edges[k].src) /\ NodeExists(s, k[1], s.edges[k].dst)

(* The tables that are looked up instead of the node records say the same.   *)
NodeTablesMirror(s) ==
    LET there == {k \in PlaneIds \X NodeIds : s.nodes[k] # None}
    IN  /\ \A n \in NodeIds, p \in PlaneIds : <<p, n>> \in there <=> s.nodePlane[n] = p
        /\ s.labelIdx = UNION {LabelKeys(k, s.nodes[k].labels) : k \in there}
        /\ \A p \in PlaneIds, key \in Keys, n \in NodeIds :
              s.extKeys[<<p, key>>] = n <=> <<p, n>> \in there /\ s.nodes[<<p, n>>].key = key

(* Adjacency and edges agree at every point of a transaction and in every    *)
(* commit: no traversal sees an edge that is not there or misses one, and no *)
(* edge outlives or predates an endpoint.                                    *)
AdjacencyExact == AdjacencyMirrors(db) /\ AdjacencyMirrors(tx)

(* set_id_counters: "so a restored database allocates fresh ids past         *)
(* everything it just loaded": the name of a label's id is that label, so    *)
(* scan_label and get_node agree on names.                                   *)
LabelsDistinct ==
    \A l \in Labels : db.dict.fwd[l] # None => db.dict.rev[db.dict.fwd[l]] = l

(* A node is found by its id, by its key and by a scan of a label exactly    *)
(* when its record says so, at every point of a transaction; a plane is      *)
(* found by its name exactly when its row says so.                           *)
LookupsExact ==
    /\ NodeTablesMirror(db) /\ NodeTablesMirror(tx)
    /\ LabelsDistinct
    /\ \A p \in PlaneIds, n \in Names : db.planeNames[n] = p <=> db.planes[p] = n

(* "maintained transactionally with every mutation": a plane's counters row  *)
(* is what a scan of it counts.                                              *)
CountersExact ==
    plane = None =>
    \A p \in Listed(db) : (IF db.counters[p] = None THEN NoTally ELSE db.counters[p]) = Counted(db, p)

(* A commit tells its subscribers of every node that appeared, disappeared   *)
(* or changed, with the operation that did it, unless the set is truncated.  *)
FeedComplete ==
    [][Commit /\ ~overflow =>
         \A n \in NodeIds :
            LET before == db.nodes[<<plane, n>>]
                after == db'.nodes[<<plane, n>>]
                told == NetOp(changes[<<"node", n>>])
            IN  /\ before = None /\ after # None <=> told = "created"
                /\ before # None /\ after = None => told = "deleted"
                /\ told = "updated" => before # None /\ after # None
                /\ before # after => told # None]_vars

(* An id that appears was reserved by the transaction that commits it, and   *)
(* what it reserved is spent for good: no deleted id comes back, whether it  *)
(* was taken from a batch, reserved in bulk or reserved before a restore.    *)
IdsNeverReused ==
    [][/\ \A k \in PlaneIds \X NodeIds : db'.nodes[k] # None =>
             k[2] < db'.nextNode /\ (db.nodes[k] = None => k[2] >= db.nextNode)
       /\ \A k \in PlaneIds \X EdgeIds : db'.edges[k] # None =>
             k[2] < db'.nextEdge /\ (db.edges[k] = None => k[2] >= db.nextEdge)]_vars

(* A restored store holds the graph that was saved (the commit that is       *)
(* saved does not change while a transaction is open).                       *)
RestoreFaithful ==
    plane = None => Frames(Restored(EmptyStore, Frames(db))) = Frames(db)
===============================================================================
