------------------------------ MODULE PlaneFold -------------------------------
(****************************************************************************)
(* Reconciling a source tree into a plane (llm/src/preprocess/sync.rs),     *)
(* beside the embedder (llm/src/vectorize.rs) and whoever else writes the   *)
(* plane: a model's digest, a user.                                         *)
(*                                                                          *)
(* A fold routes the whole tree into facts, reads the plane in several      *)
(* snapshots, and only then opens its write transaction, in which           *)
(* everything is applied or nothing.  A parser owns the nodes it stamped;   *)
(* all others are left alone.  The embedder reads texts, waits for its      *)
(* provider, and writes the vectors in a transaction of its own.            *)
(*                                                                          *)
(* A node's content stands for the properties a parser asserts, vec and     *)
(* from for `embedding` and `_embedded_from`: the text a vector was made    *)
(* of, and the text whose hash is recorded.                                 *)
(****************************************************************************)
EXTENDS Integers, FiniteSets, SequencesExt

CONSTANTS
    None,
    Keys, Labels, Contents, Types,
    Trees,                \* the facts a tree can give rise to
    Foreign,              \* the nodes that others make: [key, label, content]
    MaxNodes, MaxEdges,   \* bounds on the ids that are allocated
    MaxFolds, MaxOthers   \* bounds on the folds, and on the writes of others

Optional(S) == S \cup {None}
Texts == Labels \X Contents
Triples == Keys \X Types \X Keys

Node == [key : Keys, label : Labels, content : Contents, parser : BOOLEAN,
         vec : Optional(Texts), from : Optional(Texts)]
Edge == [src : 1..MaxNodes, ty : Types, dst : 1..MaxNodes, content : Contents]
Fact == [label : Labels, content : Contents]
Facts == [node : [Keys -> Optional(Fact)], edge : [Triples -> Optional(Contents)]]

NodeTable == [1..MaxNodes -> Optional(Node)]
EdgeTable == [1..MaxEdges -> Optional(Edge)]

ASSUME FoldAssumption ==
    /\ MaxNodes \in Nat /\ MaxEdges \in Nat
    /\ None \notin Node /\ None \notin Edge /\ None \notin Fact
    /\ None \notin Contents /\ None \notin Texts
    /\ Trees \subseteq Facts
    /\ \A f \in Trees : /\ IsFiniteSet({k \in Keys : f.node[k] # None})
                        /\ IsFiniteSet({t \in Triples : f.edge[t] # None})
    /\ Foreign \subseteq [key : Keys, label : Labels, content : Contents]
    /\ MaxFolds \in Nat /\ MaxOthers \in Nat

VARIABLES
    nodes, edges,         \* the plane
    nextNode, nextEdge,   \* the allocators
    fold,                 \* the fold in progress
    pass,                 \* the embedding pass in progress
    meddled,              \* somebody else wrote since the fold looked (auxiliary)
    folds, others         \* how many there were

vars == <<nodes, edges, nextNode, nextEdge, fold, pass, meddled, folds, others>>

NoNodes == [i \in 1..MaxNodes |-> None]
NoEdges == [i \in 1..MaxEdges |-> None]
NoFacts == [node |-> [k \in Keys |-> None], edge |-> [t \in Triples |-> None]]

(* pc: "idle", "routed", "nodes" read, "edges" read, "done" or "failed".     *)
NoFold == [pc |-> "idle", facts |-> NoFacts, nodes |-> NoNodes, edges |-> NoEdges]

Idle == [i \in 1..MaxNodes |-> None]

Init ==
    /\ nodes = NoNodes /\ edges = NoEdges
    /\ nextNode = 1 /\ nextEdge = 1
    /\ fold = NoFold
    /\ pass = Idle
    /\ meddled = FALSE
    /\ folds = 0 /\ others = 0

Live(table) == {i \in DOMAIN table : table[i] # None}
Holders(ns, k) == {i \in Live(ns) : ns[i].key = k}
Text(n) == <<n.label, n.content>>

-------------------------------------------------------------------------------
(* What a fold decides, from the facts f and the nodes ns and edges es that  *)
(* it has read.                                                              *)

(* owned_nodes.                                                              *)
Owned(ns) == {i \in Live(ns) : ns[i].parser}

(* classify_nodes.                                                           *)
Deleted(f, ns) == {i \in Owned(ns) : f.node[ns[i].key] = None}
Replaced(f, ns) == {i \in Owned(ns) \ Deleted(f, ns) : f.node[ns[i].key].label # ns[i].label}
Patched(f, ns) ==
    {i \in Owned(ns) \ (Deleted(f, ns) \cup Replaced(f, ns)) :
        f.node[ns[i].key].content # ns[i].content}
(* New nodes, and those that come back with other labels.                    *)
Creates(f, ns) == {k \in Keys : f.node[k] # None /\ Holders(ns, k) \subseteq Replaced(f, ns)}
Gone(f, ns) == Deleted(f, ns) \cup Replaced(f, ns)

TripleOf(ns, e) == <<ns[e.src].key, e.ty, ns[e.dst].key>>

(* standing_edges: between owned nodes, the last one of parallel edges.      *)
Standing(ns, es) ==
    {x \in Live(es) :
        /\ es[x].src \in Owned(ns) /\ es[x].dst \in Owned(ns)
        /\ \A y \in Live(es) :
              es[y].src = es[x].src /\ es[y].ty = es[x].ty /\ es[y].dst = es[x].dst => y <= x}

(* Slip: an edge with other content is left as it stands.                    *)
EdgeCreatesByKey(f, ns, es) ==
    {t \in Triples : f.edge[t] # None /\ ~ \E x \in Standing(ns, es) : TripleOf(ns, es[x]) = t}

(* diff_edges.                                                               *)
EdgeCreates(f, ns, es) ==
    {t \in Triples : f.edge[t] # None
        /\ ~ \E x \in Standing(ns, es) : TripleOf(ns, es[x]) = t /\ es[x].content = f.edge[t]}
EdgeDeletes(f, ns, es) ==
    {x \in Standing(ns, es) :
        LET asserted == f.edge[TripleOf(ns, es[x])]
        IN  IF asserted = None THEN {es[x].src, es[x].dst} \cap Gone(f, ns) = {}
            ELSE asserted # es[x].content}

(* save_unowned_incoming.                                                    *)
Saved(f, ns, es) == {x \in Live(es) : es[x].dst \in Replaced(f, ns) /\ es[x].src \notin Owned(ns)}

-------------------------------------------------------------------------------
(* The fold.                                                                 *)

(* routed_facts: of the tree as it stands, whatever it has become.           *)
Route(f) ==
    /\ fold.pc = "idle"
    /\ folds < MaxFolds
    /\ fold' = [fold EXCEPT !.pc = "routed", !.facts = f]
    /\ folds' = folds + 1
    /\ UNCHANGED <<nodes, edges, nextNode, nextEdge, pass, meddled, others>>

(* owned_nodes and classify_nodes: their reads of the plane.                 *)
ReadNodes ==
    /\ fold.pc = "routed"
    /\ fold' = [fold EXCEPT !.pc = "nodes", !.nodes = nodes]
    /\ meddled' = FALSE
    /\ UNCHANGED <<nodes, edges, nextNode, nextEdge, pass, folds, others>>

(* standing_edges and save_unowned_incoming: theirs.                         *)
ReadEdges ==
    /\ fold.pc = "nodes"
    /\ fold' = [fold EXCEPT !.pc = "edges", !.edges = edges]
    /\ UNCHANGED <<nodes, edges, nextNode, nextEdge, pass, meddled, folds, others>>

(* The endpoints that resolve: in the batch, or on a node that stays.        *)
Resolves(k) ==
    \/ k \in Creates(fold.facts, fold.nodes)
    \/ /\ k \notin {fold.nodes[i].key : i \in Deleted(fold.facts, fold.nodes)}
       /\ Holders(nodes, k) # {}

Loadable ==
    {t \in EdgeCreates(fold.facts, fold.nodes, fold.edges) : Resolves(t[1]) /\ Resolves(t[3])}

(* Slip: any assertion of the edge's kind into its target will do.           *)
ReattachedUnlessAsserted ==
    {x \in Saved(fold.facts, fold.nodes, fold.edges) :
        ~ \E t \in EdgeCreates(fold.facts, fold.nodes, fold.edges) :
              t[2] = fold.edges[x].ty /\ t[3] = fold.nodes[fold.edges[x].dst].key}

(* reattach: the saved edges that no loaded edge stands for.                 *)
Reattached ==
    {x \in Saved(fold.facts, fold.nodes, fold.edges) :
        ~ \E t \in EdgeCreates(fold.facts, fold.nodes, fold.edges) :
              /\ t[2] = fold.edges[x].ty /\ t[3] = fold.nodes[fold.edges[x].dst].key
              /\ fold.edges[x].src \in Holders(nodes, t[1])}

(* Slip: only patches are checked.                                           *)
RefusedMissing == \E i \in Patched(fold.facts, fold.nodes) : nodes[i] = None

(* The transaction fails: a patched node is gone, a key to be created is     *)
(* held, the source of a saved edge is gone.                                 *)
Refused ==
    \/ \E i \in Patched(fold.facts, fold.nodes) : nodes[i] = None
    \/ \E k \in Creates(fold.facts, fold.nodes) :
          Holders(nodes, k) \ Gone(fold.facts, fold.nodes) # {}
    \/ \E x \in Reattached : nodes[fold.edges[x].src] = None

(* bulk_load: ids in the order of the batch.                                 *)
NewId(k) ==
    nextNode - 1 + CHOOSE i \in 1..Cardinality(Creates(fold.facts, fold.nodes)) :
        SetToSeq(Creates(fold.facts, fold.nodes))[i] = k

(* The node that answers to a key once the batch is loaded.                  *)
IdOf(k) == IF k \in Creates(fold.facts, fold.nodes) THEN NewId(k)
           ELSE CHOOSE i \in Holders(nodes, k) : TRUE

(* A new node, with what the one it replaces carried over.                   *)
Created(k) ==
    LET old == Holders(fold.nodes, k)
        was == fold.nodes[CHOOSE i \in old : TRUE]
        f == fold.facts.node[k]
    IN  [key |-> k, label |-> f.label, content |-> f.content, parser |-> TRUE,
         vec |-> IF old = {} THEN None ELSE was.vec,
         from |-> IF old = {} THEN None ELSE was.from]

FoldedNodes ==
    [i \in 1..MaxNodes |->
        IF \E k \in Creates(fold.facts, fold.nodes) : NewId(k) = i
          THEN Created(CHOOSE k \in Creates(fold.facts, fold.nodes) : NewId(k) = i)
        ELSE IF i \in Gone(fold.facts, fold.nodes) THEN None
        ELSE IF i \in Patched(fold.facts, fold.nodes)
          THEN [nodes[i] EXCEPT !.content = fold.facts.node[nodes[i].key].content]
        ELSE nodes[i]]

(* The loaded edges, then the reattached ones.                               *)
NewEdges ==
    LET loaded == {[src |-> IdOf(t[1]), ty |-> t[2], dst |-> IdOf(t[3]),
                    content |-> fold.facts.edge[t]] : t \in Loadable}
        again(x) == [fold.edges[x] EXCEPT !.dst = NewId(fold.nodes[fold.edges[x].dst].key)]
        kept == SetToSeq(Reattached)
    IN  SetToSeq(loaded) \o [i \in 1..Len(kept) |-> again(kept[i])]

(* delete_node cascades.                                                     *)
FoldedEdges ==
    [x \in 1..MaxEdges |->
        IF x >= nextEdge /\ x < nextEdge + Len(NewEdges) THEN NewEdges[x - nextEdge + 1]
        ELSE IF edges[x] = None \/ x \in EdgeDeletes(fold.facts, fold.nodes, fold.edges)
                \/ {edges[x].src, edges[x].dst} \cap Gone(fold.facts, fold.nodes) # {}
          THEN None
        ELSE edges[x]]

HasRoom ==
    /\ nextNode + Cardinality(Creates(fold.facts, fold.nodes)) <= MaxNodes + 1
    /\ nextEdge + Len(NewEdges) <= MaxEdges + 1

(* apply_routed, from plane.write() to commit.                               *)
Apply ==
    /\ fold.pc = "edges" /\ ~ Refused
    /\ HasRoom
    /\ nodes' = FoldedNodes /\ edges' = FoldedEdges
    /\ nextNode' = nextNode + Cardinality(Creates(fold.facts, fold.nodes))
    /\ nextEdge' = nextEdge + Len(NewEdges)
    /\ fold' = [fold EXCEPT !.pc = "done"]
    /\ UNCHANGED <<pass, meddled, folds, others>>

ApplyFails ==
    /\ fold.pc = "edges" /\ Refused
    /\ fold' = [fold EXCEPT !.pc = "failed"]
    /\ UNCHANGED <<nodes, edges, nextNode, nextEdge, pass, meddled, folds, others>>

Return ==
    /\ fold.pc \in {"done", "failed"}
    /\ fold' = NoFold
    /\ meddled' = FALSE
    /\ UNCHANGED <<nodes, edges, nextNode, nextEdge, pass, folds, others>>

-------------------------------------------------------------------------------
(* vectorize_plane.                                                          *)

Current(n) == n.vec # None /\ n.from = Text(n)

(* The scan: the nodes whose vector is missing or of another text.           *)
Scan ==
    /\ pass = Idle
    /\ pass' = [i \in 1..MaxNodes |->
                   IF nodes[i] = None THEN None
                   ELSE IF Current(nodes[i]) THEN None ELSE Text(nodes[i])]
    /\ pass' # Idle
    /\ UNCHANGED <<nodes, edges, nextNode, nextEdge, fold, meddled, folds, others>>

(* Slip: the hash of the text as it is when the vectors arrive.              *)
EmbeddedLate(i) == [nodes[i] EXCEPT !.vec = pass[i], !.from = Text(nodes[i])]

Embedded(i) == [nodes[i] EXCEPT !.vec = pass[i], !.from = pass[i]]

(* embed_batch, once the provider has answered.                              *)
EmbedBatch ==
    /\ pass # Idle
    /\ \A i \in Live(pass) : nodes[i] # None
    /\ nodes' = [i \in 1..MaxNodes |-> IF pass[i] = None THEN nodes[i] ELSE Embedded(i)]
    /\ pass' = Idle
    /\ meddled' = TRUE
    /\ UNCHANGED <<edges, nextNode, nextEdge, fold, folds, others>>

(* The provider fails, or a node has gone: nothing of the batch is written.  *)
EmbedFails ==
    /\ pass # Idle
    /\ pass' = Idle
    /\ UNCHANGED <<nodes, edges, nextNode, nextEdge, fold, meddled, folds, others>>

-------------------------------------------------------------------------------
(* The other writers of the plane, a transaction each.                       *)

(* A digest or a user makes a node, where its key is free.                   *)
OthersCreate(n) ==
    /\ nextNode <= MaxNodes /\ Holders(nodes, n.key) = {}
    /\ nodes' = [nodes EXCEPT ![nextNode] =
                    [key |-> n.key, label |-> n.label, content |-> n.content, parser |-> FALSE,
                     vec |-> None, from |-> None]]
    /\ nextNode' = nextNode + 1
    /\ UNCHANGED <<edges, nextEdge>>

OthersLink(s, ty, d, c) ==
    /\ nextEdge <= MaxEdges /\ nodes[s] # None /\ nodes[d] # None
    /\ edges' = [edges EXCEPT ![nextEdge] = [src |-> s, ty |-> ty, dst |-> d, content |-> c]]
    /\ nextEdge' = nextEdge + 1
    /\ UNCHANGED <<nodes, nextNode>>

OthersDelete(i) ==
    /\ nodes[i] # None
    /\ nodes' = [nodes EXCEPT ![i] = None]
    /\ edges' = [x \in 1..MaxEdges |->
                    IF edges[x] # None /\ i \in {edges[x].src, edges[x].dst} THEN None ELSE edges[x]]
    /\ UNCHANGED <<nextNode, nextEdge>>

Others ==
    /\ others < MaxOthers
    /\ \/ \E n \in Foreign : OthersCreate(n)
       \/ \E s, d \in 1..MaxNodes, ty \in Types, n \in Foreign : OthersLink(s, ty, d, n.content)
       \/ \E i \in 1..MaxNodes : OthersDelete(i)
    /\ others' = others + 1
    /\ meddled' = TRUE
    /\ UNCHANGED <<fold, pass, folds>>

Next ==
    \/ \E f \in Trees : Route(f)
    \/ ReadNodes \/ ReadEdges \/ Apply \/ ApplyFails \/ Return
    \/ Scan \/ EmbedBatch \/ EmbedFails
    \/ Others

Spec == Init /\ [][Next]_vars

-------------------------------------------------------------------------------
(* A key names one node and a live edge has live ends, though a fold decides *)
(* what to create, to load by key and to reattach by id on snapshots taken   *)
(* before its transaction opens.                                             *)
WellFormed ==
    /\ \A k \in Keys : Cardinality(Holders(nodes, k)) <= 1
    /\ \A x \in Live(edges) : nodes[edges[x].src] # None /\ nodes[edges[x].dst] # None

(* "so a re-run pays only for nodes whose meaning changed": a node that the  *)
(* next pass will skip has a vector of its present text, whatever a fold did *)
(* to it between the read and the write of the pass that made it.            *)
SkippedAreCurrent == \A i \in Live(nodes) : Current(nodes[i]) => nodes[i].vec = Text(nodes[i])

Finished == fold.pc = "done" /\ ~ meddled

NodesConverged ==
    /\ \A i \in Owned(nodes) :
          fold.facts.node[nodes[i].key] = [label |-> nodes[i].label, content |-> nodes[i].content]
    /\ \A k \in Keys : fold.facts.node[k] # None => Holders(nodes, k) # {}

Between(t) ==
    {x \in Live(edges) : /\ edges[x].src \in Owned(nodes) /\ edges[x].dst \in Owned(nodes)
                         /\ TripleOf(nodes, edges[x]) = t}

Converged(t) ==
    (\A k \in {t[1], t[3]} : \E i \in Owned(nodes) : nodes[i].key = k) =>
        /\ Cardinality(Between(t)) <= 1
        /\ {edges[x].content : x \in Between(t)} = {fold.facts.edge[t]} \ {None}

(* Triples that had parallel edges, and triples with an end that the fold    *)
(* replaced.                                                                 *)
Parallel(t) == Cardinality({x \in Live(fold.edges) : TripleOf(fold.nodes, fold.edges[x]) = t}) > 1
Reborn(t) == \E i \in Replaced(fold.facts, fold.nodes) : fold.nodes[i].key \in {t[1], t[3]}

(* "Routing everything makes a fold-built plane converge on the              *)
(* digest-built one": after a fold that nobody disturbed, the parser's nodes *)
(* are the facts, but for keys that somebody else holds, and its edges are   *)
(* the facts, each once, except between nodes that the fold replaced and     *)
(* where there were parallel edges.                                          *)
Converges ==
    Finished =>
        /\ NodesConverged
        /\ \A t \in Triples : ~ Parallel(t) /\ ~ Reborn(t) => Converged(t)

(* "converge on the digest-built one by construction", between replaced      *)
(* nodes too.                                                                *)
RebornEdgesConverge == Finished => \A t \in Triples : ~ Parallel(t) => Converged(t)

(* What a transaction leaves standing: a node that no parser owns is as it   *)
(* was, a link from one that the fold has seen still leads to the node of    *)
(* the same key, and a vector is the one that was there or the one that was  *)
(* read.                                                                     *)
LeavesStanding ==
    fold.pc = "edges" /\ fold'.pc = "done" =>
        /\ \A i \in Live(nodes) : ~ nodes[i].parser => nodes'[i] = nodes[i]
        /\ \A x \in Live(edges) \cap Live(fold.edges) :
              LET e == edges[x]
                  k == nodes[e.dst].key
              IN  ~ nodes[e.src].parser /\ (nodes[e.dst].parser => fold.facts.node[k] # None) =>
                  \E y \in Live(edges') : /\ edges'[y].src = e.src /\ edges'[y].ty = e.ty
                                          /\ nodes'[edges'[y].dst].key = k
        /\ \A i \in Live(nodes) \cap Live(fold.nodes) : fold.facts.node[nodes[i].key] # None =>
              \E j \in Live(nodes') : /\ nodes'[j].key = nodes[i].key
                                      /\ nodes'[j].vec \in {nodes[i].vec, fold.nodes[i].vec}

(* "Model-extracted entities, document digests and their links are never     *)
(* touched", "and `_`/vector properties carried over".                       *)
LeftStanding == [][LeavesStanding]_vars
===============================================================================
