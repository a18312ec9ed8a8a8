--------------------------------- MODULE Hnsw ---------------------------------
(****************************************************************************)
(* The vector index (core/storage/hnsw.rs): insert, remove and search of    *)
(* HnswIndex, and build_parallel, whose threads link nodes into a shared    *)
(* arena under one lock per node.  BruteForceIndex (core/storage/vector.rs),*)
(* against which the code defines correctness, is the variable `exact`.     *)
(*                                                                          *)
(* A vector is a place on a line, or Misfit, one of another dimension.  A   *)
(* level is any member of Levels: random_level's generator is left out.     *)
(* Nodes are numbered from 1, layers from 0 as in the code.                 *)
(****************************************************************************)
EXTENDS Integers, FiniteSets, SequencesExt

CONSTANTS
    Ids, Places,
    Levels,
    Threads,          \* available_parallelism
    ParallelMin,
    M, M0, EfConstruction, EfSearch,
    None,
    MaxChanges        \* bounds the vectors built, inserted and removed

ASSUME HnswAssumption ==
    /\ Places \subseteq Nat /\ Levels \subseteq Nat
    /\ {M, M0, EfConstruction, EfSearch, ParallelMin, MaxChanges} \subseteq Nat \ {0}
    /\ None \notin Nat

VARIABLES
    nodes, entry, topLayer, idToIdx,
    job,        \* the threads of a build
    next,       \* the next node of the build nobody claimed
    building,
    exact,      \* BruteForceIndex: the vector of each id
    changes,    \* the vectors built, inserted and removed so far
    stranded    \* an insert found no live node to link to (auxiliary)

index == <<nodes, entry, topLayer, idToIdx>>
vars == <<index, job, next, building, exact, changes, stranded>>

Misfit == -1
Vectors == Places \cup {Misfit}

-------------------------------------------------------------------------------
(* Distances and lists.                                                      *)

Far == 1000     \* f32::INFINITY

(* guarded_dist                                                              *)
Distance(a, b) ==
    IF (a = Misfit) # (b = Misfit) THEN Far
    ELSE IF a < b THEN b - a ELSE a - b

Lesser(a, b) == IF a < b THEN a ELSE b
Greater(a, b) == IF a > b THEN a ELSE b

Away(nd, q, i) == Distance(q, nd[i].vec)

(* The order of the heaps: by distance, then by index.                       *)
Closer(nd, q, i, j) ==
    \/ Away(nd, q, i) < Away(nd, q, j)
    \/ Away(nd, q, i) = Away(nd, q, j) /\ i < j

Nearest(nd, q, S) == CHOOSE i \in S : \A j \in S \ {i} : Closer(nd, q, i, j)
Farthest(nd, q, S) == CHOOSE i \in S : \A j \in S \ {i} : Closer(nd, q, j, i)

(* The set in the order of Closer.                                           *)
Ranked(nd, q, S) ==
    [k \in 1..Cardinality(S) |->
        CHOOSE i \in S : Cardinality({j \in S : Closer(nd, q, j, i)}) = k - 1]

(* sort_by distance, which is stable.                                        *)
ByDistance(nd, q, list) ==
    LET before(j, i) == \/ Away(nd, q, list[j]) < Away(nd, q, list[i])
                        \/ Away(nd, q, list[j]) = Away(nd, q, list[i]) /\ j < i
        at(k) == CHOOSE i \in DOMAIN list :
                    Cardinality({j \in DOMAIN list : before(j, i)}) = k - 1
    IN  [k \in DOMAIN list |-> list[at(k)]]

Take(list, k) == SubSeq(list, 1, Lesser(k, Len(list)))

(* The layers from hi down to lo.                                            *)
Down(hi, lo) == [k \in 1..(hi - lo + 1) |-> hi + 1 - k]

NewNode(id, vec, level) ==
    [id |-> id, vec |-> vec, deleted |-> FALSE, layers |-> [l \in 0..level |-> <<>>]]
Height(node) == Cardinality(DOMAIN node.layers)

(* reindex: a later node of an id replaces an earlier one.                   *)
Reindex(nd) ==
    LET live == {i \in DOMAIN nd : ~nd[i].deleted}
    IN  [id \in {nd[i].id : i \in live} |-> Max({i \in live : nd[i].id = id})]

-------------------------------------------------------------------------------
(* search_layer and search_build.                                            *)

(* push_bounded                                                              *)
PushBounded(nd, q, ef, w, e) ==
    IF Cardinality(w) < ef THEN w \cup {e}
    ELSE (w \cup {e}) \ {Farthest(nd, q, w \cup {e})}

(* A node comes up: entry points always, neighbours only when they can       *)
(* improve on what was found.  A tombstone is walked through, never kept.    *)
Meet(nd, q, ef, st, e) ==
    [cand |-> st.cand \cup {e},
     seen |-> st.seen \cup {e},
     w    |-> IF nd[e].deleted THEN st.w ELSE PushBounded(nd, q, ef, st.w, e)]

Improves(nd, q, ef, w, e) ==
    \/ Cardinality(w) < ef
    \/ Away(nd, q, e) < Away(nd, q, Farthest(nd, q, w))

StartSearch(nd, q, ef, eps) ==
    LET meet(st, e) == IF e \in st.seen THEN st ELSE Meet(nd, q, ef, st, e)
    IN  FoldLeft(meet, [cand |-> {}, seen |-> {}, w |-> {}], eps)

(* The loop ends when no candidate is left, or the nearest is worse than the *)
(* worst one kept.                                                           *)
SearchOver(nd, q, ef, st) ==
    \/ st.cand = {}
    \/ /\ Cardinality(st.w) >= ef
       /\ Away(nd, q, Nearest(nd, q, st.cand)) > Away(nd, q, Farthest(nd, q, st.w))

(* One turn of the loop: the nearest candidate's list at the layer is read.  *)
Visit(nd, q, ef, layer, st) ==
    LET at == Nearest(nd, q, st.cand)
        meet(s, e) == IF e \in s.seen THEN s
                      ELSE IF Improves(nd, q, ef, s.w, e) THEN Meet(nd, q, ef, s, e)
                      ELSE [s EXCEPT !.seen = @ \cup {e}]
    IN  FoldLeft(meet, [st EXCEPT !.cand = @ \ {at}], nd[at].layers[layer])

Found(nd, q, st) == Ranked(nd, q, st.w)

(* Every node is a candidate at most once, so Len(nd) turns are enough.      *)
SearchLayer(nd, q, eps, ef, layer) ==
    LET turn(st, k) == IF SearchOver(nd, q, ef, st) THEN st ELSE Visit(nd, q, ef, layer, st)
    IN  Found(nd, q, FoldLeft(turn, StartSearch(nd, q, ef, eps), Down(Len(nd), 1)))

(* The greedy descent, width 1, through the layers hi down to lo.            *)
Descend(nd, q, ep, hi, lo) ==
    LET down(e, layer) == LET w == SearchLayer(nd, q, <<e>>, 1, layer)
                          IN  IF w = <<>> THEN e ELSE w[1]
    IN  FoldLeft(down, ep, Down(hi, lo))

-------------------------------------------------------------------------------
(* Linking.                                                                  *)

MaxConn(layer) == IF layer = 0 THEN M0 ELSE M

Link(nd, i, layer, list) == [nd EXCEPT ![i].layers[layer] = @ \o list]

(* prune and prune_build                                                     *)
Prune(nd, i, layer) ==
    IF Len(nd[i].layers[layer]) <= MaxConn(layer) THEN nd
    ELSE [nd EXCEPT ![i].layers[layer] =
            Take(ByDistance(nd, nd[i].vec, @), MaxConn(layer))]

(* Slip: the neighbour does not learn of the new node.                       *)
LinkBackForgotten(nd, i, layer, neighbour) == nd

LinkBack(nd, i, layer, neighbour) ==
    Prune(Link(nd, neighbour, layer, <<i>>), neighbour, layer)

(* What insert does at one layer; acc holds the arena and the entry points.  *)
LinkLayer(ep, i, acc, layer) ==
    LET w == SearchLayer(acc.nd, acc.nd[i].vec, acc.eps, EfConstruction, layer)
        chosen == Take(w, MaxConn(layer))
        back(nd, neighbour) == LinkBack(nd, i, layer, neighbour)
    IN  [nd  |-> Prune(FoldLeft(back, Link(acc.nd, i, layer, chosen), chosen), i, layer),
         eps |-> IF w = <<>> THEN <<ep>> ELSE w]

InsertLinked(nd, i, level) ==
    LET ep == Descend(nd, nd[i].vec, entry, topLayer, level + 1)
        layer(acc, l) == LinkLayer(ep, i, acc, l)
    IN  FoldLeft(layer, [nd |-> nd, eps |-> <<ep>>], Down(Lesser(level, topLayer), 0)).nd

-------------------------------------------------------------------------------
(* The index in service: VectorIndex for HnswIndex.                          *)

Tombstoned(id) ==
    IF id \in DOMAIN idToIdx THEN [nodes EXCEPT ![idToIdx[id]].deleted = TRUE] ELSE nodes

Serving ==
    /\ ~building /\ changes < MaxChanges
    /\ changes' = changes + 1
    /\ UNCHANGED <<job, next, building>>

(* insert, an upsert: the old node of the id becomes a tombstone.            *)
InsertVector(id, vec, level) ==
    LET i == Len(nodes) + 1
        nd == Append(Tombstoned(id), NewNode(id, vec, level))
        linked == IF entry = None THEN nd ELSE InsertLinked(nd, i, level)
        tops == entry = None \/ level > topLayer
    IN  /\ Serving
        /\ nodes' = linked
        /\ idToIdx' = [x \in DOMAIN idToIdx \cup {id} |->
                          IF x = id THEN i ELSE idToIdx[x]]
        /\ entry' = IF tops THEN i ELSE entry
        /\ topLayer' = IF tops THEN level ELSE topLayer
        /\ exact' = [x \in DOMAIN exact \cup {id} |-> IF x = id THEN vec ELSE exact[x]]
        /\ stranded' = (stranded \/ (~tops /\ linked[i].layers[0] = <<>>))

(* Slip: any live node succeeds the entry and the top layer stays.           *)
HandOverAny(live) ==
    IF live = {} THEN <<None, 0>> ELSE <<CHOOSE i \in live : TRUE, topLayer>>

(* remove: the role of the entry goes to the tallest live node, the oldest   *)
(* of them, and the top layer with it.                                       *)
HandOver(live) ==
    LET tallest == CHOOSE i \in live : \A j \in live \ {i} :
                      \/ Height(nodes[i]) > Height(nodes[j])
                      \/ Height(nodes[i]) = Height(nodes[j]) /\ i < j
    IN  IF live = {} THEN <<None, 0>> ELSE <<tallest, Height(nodes[tallest]) - 1>>

RemoveVector(id) ==
    LET live == {idToIdx[x] : x \in DOMAIN idToIdx \ {id}}
        role == IF entry = idToIdx[id] THEN HandOver(live) ELSE <<entry, topLayer>>
    IN  /\ Serving /\ id \in DOMAIN idToIdx
        /\ nodes' = Tombstoned(id)
        /\ idToIdx' = [x \in DOMAIN idToIdx \ {id} |-> idToIdx[x]]
        /\ entry' = role[1] /\ topLayer' = role[2]
        /\ exact' = [x \in DOMAIN exact \ {id} |-> exact[x]]
        /\ UNCHANGED stranded

(* search; allowed is the filter, or None.                                   *)
Width(k, allowed) == Greater(EfSearch, IF allowed = None THEN 2 * k ELSE 8 * k)

Search(q, k, allowed) ==
    LET ep == Descend(nodes, q, entry, topLayer, 1)
        w == SearchLayer(nodes, q, <<ep>>, Width(k, allowed), 0)
        hits == [j \in DOMAIN w |-> nodes[w[j]].id]
    IN  IF k = 0 \/ entry = None THEN <<>>
        ELSE Take(SelectSeq(hits, LAMBDA id : allowed = None \/ id \in allowed), k)

-------------------------------------------------------------------------------
(* build_parallel.  The arena is `nodes` and the shared entry is `entry` and *)
(* `topLayer`: nobody else sees the index until the threads have joined.     *)
(* A thread takes one step per lock, so the list of one candidate read, the  *)
(* node's own links, one neighbour's, or the entry.                          *)

NoJob == [pc |-> "claim", idx |-> 0, top |-> 0, layer |-> 0, eps |-> <<>>,
          st |-> [cand |-> {}, seen |-> {}, w |-> {}], todo |-> <<>>]

(* The items come in the order of the label's scan, each with its level.     *)
Batches(n) ==
    {[i \in 1..n |-> [id |-> ids[i], vec |-> v[i], level |-> l[i]]] :
        ids \in {f \in [1..n -> Ids] : IsInjective(f)},
        v \in [1..n -> Vectors], l \in [1..n -> Levels]}

(* The first item seeds the graph, the rest are claimed.  A smaller batch is *)
(* inserted one by one.                                                      *)
StartBuild ==
    /\ ~building /\ nodes = <<>>
    /\ Cardinality(Threads) > 1
    /\ \E n \in ParallelMin..Lesser(Cardinality(Ids), MaxChanges) : \E items \in Batches(n) :
          /\ nodes' = [i \in 1..n |-> NewNode(items[i].id, items[i].vec, items[i].level)]
          /\ entry' = 1 /\ topLayer' = items[1].level
          /\ exact' = [id \in {items[i].id : i \in 1..n} |->
                          items[CHOOSE i \in 1..n : items[i].id = id].vec]
          /\ changes' = n
    /\ next' = 2
    /\ building' = TRUE
    /\ job' = [t \in Threads |-> NoJob]
    /\ UNCHANGED <<idToIdx, stranded>>

JobVec(j) == nodes[j.idx].vec
JobLevel(j) == Height(nodes[j.idx]) - 1

(* Width 1 above the node's own level, the full width from there down.       *)
JobEf(j) == IF j.layer > JobLevel(j) THEN 1 ELSE EfConstruction

Seek(j, layer, eps) ==
    LET at == [j EXCEPT !.pc = "search", !.layer = layer, !.eps = eps]
    IN  [at EXCEPT !.st = StartSearch(nodes, JobVec(at), JobEf(at), eps)]

(* The search of a layer is over: one layer down with the nearest, or link.  *)
Conclude(j) ==
    LET w == Found(nodes, JobVec(j), j.st)
    IN  IF j.layer > JobLevel(j) THEN Seek(j, j.layer - 1, <<w[1]>>)
        ELSE [j EXCEPT !.pc = "own", !.eps = w, !.st = NoJob.st]

Building(t, pc) ==
    /\ building /\ job[t].pc = pc
    /\ UNCHANGED <<idToIdx, building, exact, changes, stranded>>

Claim(t) ==
    /\ Building(t, "claim")
    /\ next' = next + 1
    /\ job' = [job EXCEPT ![t] = IF next <= Len(nodes)
                                 THEN [NoJob EXCEPT !.pc = "enter", !.idx = next]
                                 ELSE [NoJob EXCEPT !.pc = "done"]]
    /\ UNCHANGED <<nodes, entry, topLayer>>

(* The snapshot of the entry: descent and linking both begin at its layer.   *)
Enter(t) ==
    /\ Building(t, "enter")
    /\ job' = [job EXCEPT ![t] = Seek([@ EXCEPT !.top = topLayer], topLayer, <<entry>>)]
    /\ UNCHANGED <<nodes, entry, topLayer, next>>

ReadCandidate(t) ==
    LET j == job[t]
        st == Visit(nodes, JobVec(j), JobEf(j), j.layer, j.st)
        read == [j EXCEPT !.st = st]
    IN  /\ Building(t, "search")
        /\ job' = [job EXCEPT ![t] = IF SearchOver(nodes, JobVec(j), JobEf(j), st)
                                     THEN Conclude(read) ELSE read]
        /\ UNCHANGED <<nodes, entry, topLayer, next>>

LinkOwn(t) ==
    LET j == job[t]
        chosen == Take(j.eps, MaxConn(j.layer))
    IN  /\ Building(t, "own")
        /\ nodes' = Link(nodes, j.idx, j.layer, chosen)
        /\ job' = [job EXCEPT ![t].pc = "back", ![t].todo = chosen]
        /\ UNCHANGED <<entry, topLayer, next>>

LinkNeighbour(t) ==
    LET j == job[t]
    IN  /\ Building(t, "back")
        /\ nodes' = LinkBack(nodes, j.idx, j.layer, Head(j.todo))
        /\ job' = [job EXCEPT ![t].todo = Tail(@),
                              ![t].pc = IF Len(j.todo) > 1 THEN "back" ELSE "prune"]
        /\ UNCHANGED <<entry, topLayer, next>>

PruneOwn(t) ==
    LET j == job[t]
    IN  /\ Building(t, "prune")
        /\ nodes' = Prune(nodes, j.idx, j.layer)
        /\ job' = [job EXCEPT ![t] =
                      IF j.layer > 0 THEN Seek(j, j.layer - 1, j.eps)
                      ELSE IF JobLevel(j) > j.top
                           THEN [NoJob EXCEPT !.pc = "entry", !.idx = j.idx]
                           ELSE NoJob]
        /\ UNCHANGED <<entry, topLayer, next>>

(* A taller node takes the entry, if it is still the taller one.             *)
TakeEntry(t) ==
    LET j == job[t]
    IN  /\ Building(t, "entry")
        /\ IF JobLevel(j) > topLayer
           THEN entry' = j.idx /\ topLayer' = JobLevel(j)
           ELSE UNCHANGED <<entry, topLayer>>
        /\ job' = [job EXCEPT ![t] = NoJob]
        /\ UNCHANGED <<nodes, next>>

(* The threads have joined: the arena is frozen and indexed.                 *)
Freeze ==
    /\ building /\ \A t \in Threads : job[t].pc = "done"
    /\ building' = FALSE
    /\ idToIdx' = Reindex(nodes)
    /\ job' = [t \in Threads |-> NoJob] /\ next' = 1
    /\ UNCHANGED <<nodes, entry, topLayer, exact, changes, stranded>>

-------------------------------------------------------------------------------
Init ==
    /\ nodes = <<>> /\ entry = None /\ topLayer = 0
    /\ idToIdx = <<>>
    /\ job = [t \in Threads |-> NoJob] /\ next = 1 /\ building = FALSE
    /\ exact = <<>> /\ changes = 0
    /\ stranded = FALSE

ThreadStep(t) ==
    \/ Claim(t) \/ Enter(t) \/ ReadCandidate(t) \/ LinkOwn(t) \/ LinkNeighbour(t)
    \/ PruneOwn(t) \/ TakeEntry(t)

Next ==
    \/ \E id \in Ids, vec \in Vectors, level \in Levels : InsertVector(id, vec, level)
    \/ \E id \in Ids : RemoveVector(id)
    \/ StartBuild
    \/ \E t \in Threads : ThreadStep(t)
    \/ Freeze

Spec == Init /\ [][Next]_vars

-------------------------------------------------------------------------------
(* is_wellformed: what search and insert index by without a bounds check.    *)
IsWellformed ==
    /\ entry # None => entry \in DOMAIN nodes /\ Height(nodes[entry]) > topLayer
    /\ \A i \in DOMAIN nodes : \A l \in DOMAIN nodes[i].layers :
          \A e \in Range(nodes[i].layers[l]) :
             e \in DOMAIN nodes /\ Height(nodes[e]) > l

(* "Live indexes hold these by construction": after any inserts, upserts and *)
(* removals, of the entry too, and at every moment of a parallel build, the  *)
(* graph is one that search and insert can walk without a panic, and one     *)
(* that load accepts from a sidecar and reindexes to the same lookup.        *)
GraphWalkable ==
    /\ IsWellformed
    /\ ~building => idToIdx = Reindex(nodes)

(* A search wide enough for all live vectors answers as BruteForceIndex      *)
(* does, with and without a filter: no live vector is lost behind            *)
(* tombstones, a handed over entry or a race of the building threads, no     *)
(* removed or replaced one comes back, and the nearest come first.  It says  *)
(* nothing after an upsert that left no other live node to link to.          *)
AgreesWithExact ==
    ~building /\ ~stranded =>
        \A q \in Vectors, ask \in {<<1, None>>, <<Cardinality(Ids), None>>}
                                  \cup {<<2, Ids \ {id}>> : id \in Ids} :
            LET k == ask[1]
                allowed == ask[2]
                hits == Search(q, k, allowed)
                wanted == DOMAIN exact \cap (IF allowed = None THEN Ids ELSE allowed)
                away(id) == Distance(q, exact[id])
            IN  /\ Range(hits) \subseteq wanted /\ IsInjective(hits)
                /\ Len(hits) = Lesser(k, Cardinality(wanted))
                /\ \A a, b \in DOMAIN hits : a < b => away(hits[a]) <= away(hits[b])
                /\ \A id \in wanted \ Range(hits), a \in DOMAIN hits :
                      away(hits[a]) <= away(id)

===============================================================================
