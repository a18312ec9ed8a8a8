---------------------------- MODULE PlaneFoldProofs ---------------------------
(****************************************************************************)
(* A fold that decides on old snapshots leaves a well-formed plane, and     *)
(* leaves alone what is not its own, for any trees, keys and kinds of nodes *)
(* and edges, whatever the embedder and others wrote in between.            *)
(*                                                                          *)
(* The argument: ids are not reused, so a node that the fold has read and   *)
(* that is still there has the key, the label and the owner it was read     *)
(* with; keys are unique in the plane and in what was read; and the         *)
(* transaction refuses where a key it creates has come to be held.          *)
(****************************************************************************)
EXTENDS PlaneFold, FiniteSetTheorems, SequenceTheorems, TLAPS

Finite(f) ==
    /\ IsFiniteSet({k \in Keys : f.node[k] # None})
    /\ IsFiniteSet({t \in Triples : f.edge[t] # None})

Pcs == {"idle", "routed", "nodes", "edges", "done", "failed"}

Typed ==
    /\ nodes \in NodeTable /\ edges \in EdgeTable
    /\ nextNode \in Nat \ {0} /\ nextEdge \in Nat \ {0}
    /\ fold \in [pc : Pcs, facts : Facts, nodes : NodeTable, edges : EdgeTable]
    /\ Finite(fold.facts) /\ fold.facts \in Trees \cup {NoFacts}
    /\ pass \in [1..MaxNodes -> Optional(Texts)]
    /\ meddled \in BOOLEAN

(* An id that is to be allocated has not been read.                          *)
Fresh ==
    /\ \A i \in Live(nodes) \cup Live(fold.nodes) : i < nextNode
    /\ \A x \in Live(edges) \cup Live(fold.edges) : x < nextEdge

UniqueKeys(ns) == \A i, j \in Live(ns) : ns[i].key = ns[j].key => i = j

(* What was read and is still there is what was read, but for content and    *)
(* vectors.                                                                  *)
StillSo ==
    /\ \A i \in Live(nodes) \cap Live(fold.nodes) :
          /\ nodes[i].key = fold.nodes[i].key
          /\ nodes[i].label = fold.nodes[i].label
          /\ nodes[i].parser = fold.nodes[i].parser
    /\ \A x \in Live(edges) \cap Live(fold.edges) : edges[x] = fold.edges[x]

LiveEnds == \A x \in Live(edges) : nodes[edges[x].src] # None /\ nodes[edges[x].dst] # None

(* A vector and the text recorded for it travel together.                    *)
VectorsFrom(ns) == \A i \in Live(ns) : ns[i].vec = ns[i].from

(* Nobody wrote: the fold has read the plane as it is.                       *)
Undisturbed ==
    ~ meddled => /\ fold.pc \in {"nodes", "edges"} => nodes = fold.nodes
                 /\ fold.pc = "edges" => edges = fold.edges

Inv ==
    /\ Typed /\ Fresh /\ StillSo
    /\ UniqueKeys(nodes) /\ UniqueKeys(fold.nodes)
    /\ LiveEnds
    /\ VectorsFrom(nodes) /\ VectorsFrom(fold.nodes)
    /\ Undisturbed

-------------------------------------------------------------------------------
(* What a fold's transaction does.                                           *)

Creating == Creates(fold.facts, fold.nodes)
Going == Gone(fold.facts, fold.nodes)
Patching == Patched(fold.facts, fold.nodes)

LoadedEdge(t) == [src |-> IdOf(t[1]), ty |-> t[2], dst |-> IdOf(t[3]),
                  content |-> fold.facts.edge[t]]
Again(x) == [fold.edges[x] EXCEPT !.dst = NewId(fold.nodes[fold.edges[x].dst].key)]

(* A finite set in a sequence: each element once.                            *)
LEMMA SeqOfSet ==
  ASSUME NEW S, IsFiniteSet(S)
  PROVE  /\ Cardinality(S) \in Nat
         /\ SetToSeq(S) \in [1..Cardinality(S) -> S]
         /\ \A i, j \in 1..Cardinality(S) : SetToSeq(S)[i] = SetToSeq(S)[j] => i = j
         /\ \A x \in S : \E i \in 1..Cardinality(S) : SetToSeq(S)[i] = x
<1> DEFINE n == Cardinality(S)
<1>1. n \in Nat /\ ExistsBijection(1..n, S)
  BY FS_CardinalityType
<1>2. PICK g \in Bijection(1..n, S) : TRUE
  BY <1>1 DEF ExistsBijection
<1>3. g \in [1..n -> S] /\ IsInjective(g)
  BY <1>2 DEF Bijection, Injection, IsInjective
<1>4. SetToSeq(S) \in [1..n -> S] /\ IsInjective(SetToSeq(S))
  BY <1>3 DEF SetToSeq
<1>5. SetToSeq(S) \in Injection(1..n, S)
  BY <1>4 DEF Injection, IsInjective
<1>6. IsFiniteSet(1..n) /\ Cardinality(1..n) = n
  BY <1>1, FS_Interval
<1>7. SetToSeq(S) \in Surjection(1..n, S)
  BY <1>5, <1>6, FS_Injection
<1> QED
  BY <1>1, <1>4, <1>7 DEF IsInjective, Surjection

LEMMA CreatingIs ==
  ASSUME Typed
  PROVE  /\ Creating \subseteq Keys /\ IsFiniteSet(Creating)
         /\ \A k \in Creating : fold.facts.node[k] \in Fact
<1>1. Creating \subseteq {k \in Keys : fold.facts.node[k] # None}
  BY DEF Creating, Creates
<1>2. IsFiniteSet(Creating)
  BY <1>1, FS_Subset DEF Typed, Finite
<1>3. fold.facts.node \in [Keys -> Optional(Fact)]
  BY DEF Typed, Facts
<1> QED
  BY <1>1, <1>2, <1>3 DEF Optional

(* The nodes that go or are patched are the parser's, as it was read.        *)
LEMMA GoingIs ==
  ASSUME Typed
  PROVE  /\ \A i \in Going : i \in Owned(fold.nodes) /\ i \in 1..MaxNodes
         /\ \A i \in Patching : i \in Owned(fold.nodes) /\ i \in 1..MaxNodes /\ i \notin Going
         /\ \A i \in Owned(fold.nodes) : i \in Live(fold.nodes) /\ fold.nodes[i].parser
  BY DEF Typed, Going, Gone, Patching, Patched, Deleted, Replaced, Owned, Live, NodeTable

LEMMA LiveIn ==
  ASSUME NEW ns \in NodeTable, NEW i \in Live(ns)
  PROVE  i \in 1..MaxNodes /\ ns[i] \in Node
  BY DEF Live, NodeTable, Optional

LEMMA LiveEdgeIn ==
  ASSUME NEW es \in EdgeTable, NEW x \in Live(es)
  PROVE  x \in 1..MaxEdges /\ es[x] \in Edge
  BY DEF Live, EdgeTable, Optional

(* New ids are fresh, in bounds, and one for each key.                       *)
LEMMA NewIds ==
  ASSUME Typed, HasRoom
  PROVE  /\ \A k \in Creating : /\ NewId(k) \in 1..MaxNodes /\ nextNode <= NewId(k)
                                /\ NewId(k) < nextNode + Cardinality(Creating)
         /\ \A k, l \in Creating : NewId(k) = NewId(l) => k = l
         /\ Cardinality(Creating) \in Nat
<1> DEFINE n == Cardinality(Creating)
           f == SetToSeq(Creating)
           At(k) == CHOOSE i \in 1..n : f[i] = k
<1>1. n \in Nat /\ \A k \in Creating : \E i \in 1..n : f[i] = k
  BY CreatingIs, SeqOfSet
<1>2. \A k \in Creating : At(k) \in 1..n /\ f[At(k)] = k
  BY <1>1
<1>3. \A k \in Creating : NewId(k) = nextNode - 1 + At(k)
  BY DEF NewId, Creating
<1>4. nextNode \in Nat /\ nextNode >= 1 /\ MaxNodes \in Nat
  BY FoldAssumption DEF Typed
<1>5. nextNode + n <= MaxNodes + 1
  BY DEF HasRoom, Creating
<1> HIDE DEF n, f, At
<1>6. \A k \in Creating : /\ NewId(k) \in 1..MaxNodes /\ nextNode <= NewId(k)
                          /\ NewId(k) < nextNode + n
  BY <1>1, <1>2, <1>3, <1>4, <1>5
<1>7. ASSUME NEW k \in Creating, NEW l \in Creating, NewId(k) = NewId(l)
      PROVE  k = l
  <2>1. At(k) = At(l)
    BY <1>1, <1>2, <1>3, <1>4, <1>7
  <2> QED
    BY <1>2, <2>1
<1> QED
  BY <1>1, <1>6, <1>7 DEF n

(* A key that is created was not read, or only on nodes that are replaced;   *)
(* a replaced node's key is created.                                         *)
LEMMA ReplacedAreCreated ==
  ASSUME Typed, UniqueKeys(fold.nodes), NEW i \in Replaced(fold.facts, fold.nodes)
  PROVE  /\ i \in Going /\ i \in Live(fold.nodes)
         /\ fold.nodes[i].key \in Creating
         /\ Holders(fold.nodes, fold.nodes[i].key) = {i}
<1>1. i \in Owned(fold.nodes) /\ fold.facts.node[fold.nodes[i].key] # None
  BY DEF Replaced, Deleted
<1>2. i \in Live(fold.nodes) /\ fold.nodes[i].key \in Keys
  BY <1>1, GoingIs, LiveIn DEF Typed, Node
<1>3. Holders(fold.nodes, fold.nodes[i].key) = {i}
  BY <1>2 DEF Holders, UniqueKeys
<1> QED
  BY <1>1, <1>2, <1>3 DEF Creating, Creates, Going, Gone

LEMMA CreatedIn ==
  ASSUME Typed, NEW k \in Creating
  PROVE  /\ Created(k) \in Node /\ Created(k) # None
         /\ Created(k).key = k /\ Created(k).parser = TRUE
         /\ Created(k).label = fold.facts.node[k].label
         /\ Created(k).content = fold.facts.node[k].content
         /\ VectorsFrom(fold.nodes) => Created(k).vec = Created(k).from
<1> DEFINE old == Holders(fold.nodes, k)
           was == fold.nodes[CHOOSE i \in old : TRUE]
<1>1. k \in Keys /\ fold.facts.node[k] \in Fact
  BY CreatingIs
<1>2. old # {} => was \in Node /\ (VectorsFrom(fold.nodes) => was.vec = was.from)
  <2> SUFFICES ASSUME old # {}
               PROVE  was \in Node /\ (VectorsFrom(fold.nodes) => was.vec = was.from)
    OBVIOUS
  <2>1. (CHOOSE i \in old : TRUE) \in Live(fold.nodes)
    BY DEF Holders
  <2> QED
    BY <2>1, LiveIn DEF Typed, VectorsFrom
<1>3. Created(k) = [key |-> k, label |-> fold.facts.node[k].label,
                    content |-> fold.facts.node[k].content, parser |-> TRUE,
                    vec |-> IF old = {} THEN None ELSE was.vec,
                    from |-> IF old = {} THEN None ELSE was.from]
  BY DEF Created
<1> HIDE DEF old, was
<1>4. Created(k) \in Node
  BY <1>1, <1>2, <1>3 DEF Node, Fact, Optional
<1>5. Created(k) # None
  BY <1>4, FoldAssumption
<1>6. /\ Created(k).key = k /\ Created(k).parser = TRUE
      /\ Created(k).label = fold.facts.node[k].label
      /\ Created(k).content = fold.facts.node[k].content
  BY <1>3
<1>7. VectorsFrom(fold.nodes) => Created(k).vec = Created(k).from
  BY <1>2, <1>3
<1> QED
  BY <1>4, <1>5, <1>6, <1>7

(* The nodes after a fold: the created ones, and those that stay, of which   *)
(* some have new content.                                                    *)
Stays(i) == i \in Live(nodes) /\ i \notin Going

LEMMA FoldedNodesAre ==
  ASSUME Typed, Fresh, StillSo, HasRoom, ~ Refused
  PROVE  /\ FoldedNodes \in NodeTable
         /\ \A k \in Creating : FoldedNodes[NewId(k)] = Created(k)
         /\ \A i \in 1..MaxNodes : Stays(i) => FoldedNodes[i] \in Node /\
               FoldedNodes[i] = IF i \in Patching
                                THEN [nodes[i] EXCEPT !.content = fold.facts.node[nodes[i].key].content]
                                ELSE nodes[i]
         /\ \A i \in Live(FoldedNodes) : Stays(i) \/ \E k \in Creating : NewId(k) = i
<1> DEFINE IsNew(i) == \E k \in Creating : NewId(k) = i
           Patch(i) == [nodes[i] EXCEPT !.content = fold.facts.node[nodes[i].key].content]
<1>1. ASSUME NEW i \in 1..MaxNodes
      PROVE  /\ IsNew(i) => \E k \in Creating : NewId(k) = i /\ FoldedNodes[i] = Created(k)
             /\ ~ IsNew(i) => FoldedNodes[i] = IF i \in Going THEN None
                                               ELSE IF i \in Patching THEN Patch(i)
                                               ELSE nodes[i]
  BY DEF FoldedNodes, Creating, Going, Patching
<1>2. DOMAIN FoldedNodes = 1..MaxNodes
  BY DEF FoldedNodes
<1>3. \A i \in Live(nodes) : ~ IsNew(i)
  BY NewIds, LiveIn, FoldAssumption DEF Fresh, Typed
<1>4. \A i \in Patching : /\ i \in Live(nodes) /\ nodes[i] \in Node
                           /\ nodes[i].key = fold.nodes[i].key
  BY GoingIs, LiveIn DEF Refused, Patching, Live, NodeTable, Typed, StillSo
<1>5. \A i \in Patching : fold.facts.node[fold.nodes[i].key] \in Fact
  <2> SUFFICES ASSUME NEW i \in Patching
               PROVE  fold.facts.node[fold.nodes[i].key] \in Fact
    OBVIOUS
  <2>1. fold.facts.node \in [Keys -> Optional(Fact)]
    BY DEF Typed, Facts
  <2>2. fold.nodes[i].key \in Keys
    BY GoingIs, LiveIn DEF Typed, Node
  <2>3. fold.facts.node[fold.nodes[i].key] # None
    BY DEF Patching, Patched, Deleted
  <2> QED
    BY <2>1, <2>2, <2>3 DEF Optional
<1>6. \A i \in Patching : Patch(i) \in Node
  BY <1>4, <1>5 DEF Node, Fact
<1>7. ASSUME NEW i \in 1..MaxNodes
      PROVE  FoldedNodes[i] \in Optional(Node)
  <2>1. CASE IsNew(i)
    BY <1>1, <2>1, CreatedIn DEF Optional
  <2>2. CASE ~ IsNew(i)
    <3>1. nodes[i] \in Optional(Node)
      BY DEF Typed, NodeTable
    <3> HIDE DEF IsNew, Patch
    <3> QED
      BY <1>1, <1>6, <2>2, <3>1 DEF Optional
  <2> QED
    BY <2>1, <2>2
<1>8. FoldedNodes \in NodeTable
  BY <1>7 DEF FoldedNodes, NodeTable
<1>9. ASSUME NEW k \in Creating
      PROVE  FoldedNodes[NewId(k)] = Created(k)
  BY <1>1, NewIds
<1>10. ASSUME NEW i \in Live(FoldedNodes)
       PROVE  Stays(i) \/ IsNew(i)
  <2>1. i \in 1..MaxNodes /\ FoldedNodes[i] # None
    BY <1>2 DEF Live
  <2>2. CASE ~ IsNew(i) /\ i \notin Going
    BY <1>1, <1>4, <2>1, <2>2 DEF Stays, Live, Typed, NodeTable
  <2> QED
    BY <1>1, <2>1, <2>2
<1>11. ASSUME NEW i \in 1..MaxNodes, Stays(i)
       PROVE  /\ FoldedNodes[i] \in Node
              /\ FoldedNodes[i] = IF i \in Patching THEN Patch(i) ELSE nodes[i]
  BY <1>1, <1>3, <1>6, <1>11, LiveIn DEF Stays, Typed
<1> QED
  BY <1>8, <1>9, <1>10, <1>11

(* So what stays is the same node, and a live one.                           *)
LEMMA StaysSo ==
  ASSUME Typed, Fresh, StillSo, HasRoom, ~ Refused, NEW i, Stays(i)
  PROVE  /\ i \in 1..MaxNodes /\ i \in Live(FoldedNodes) /\ nodes[i] \in Node
         /\ FoldedNodes[i].key = nodes[i].key
         /\ FoldedNodes[i].label = nodes[i].label
         /\ FoldedNodes[i].parser = nodes[i].parser
         /\ FoldedNodes[i].vec = nodes[i].vec
         /\ FoldedNodes[i].from = nodes[i].from
         /\ i \notin Patching => FoldedNodes[i] = nodes[i]
         /\ i \in Patching => FoldedNodes[i].content = fold.facts.node[nodes[i].key].content
<1>1. i \in 1..MaxNodes /\ nodes[i] \in Node
  BY LiveIn DEF Stays, Typed
<1>2. FoldedNodes[i] = IF i \in Patching
                       THEN [nodes[i] EXCEPT !.content = fold.facts.node[nodes[i].key].content]
                       ELSE nodes[i]
  BY <1>1, FoldedNodesAre
<1>3. FoldedNodes[i] # None /\ DOMAIN FoldedNodes = 1..MaxNodes
  <2>1. DOMAIN FoldedNodes = 1..MaxNodes
    BY DEF FoldedNodes
  <2> QED
    BY <1>1, <2>1, FoldedNodesAre, FoldAssumption
<1> QED
  BY <1>1, <1>2, <1>3 DEF Live, Node

-------------------------------------------------------------------------------
(* The edges after a fold.                                                   *)

Loads == {LoadedEdge(t) : t \in Loadable}

LEMMA LoadsFinite ==
  ASSUME Typed
  PROVE  IsFiniteSet(Loads) /\ IsFiniteSet(Reattached)
<1>1. Loadable \subseteq {t \in Triples : fold.facts.edge[t] # None}
  BY DEF Loadable, EdgeCreates
<1>2. IsFiniteSet(Loadable)
  BY <1>1, FS_Subset DEF Typed, Finite
<1>3. [t \in Loadable |-> LoadedEdge(t)] \in Surjection(Loadable, Loads)
  BY DEF Loads, Surjection
<1>4. IsFiniteSet(Loads)
  BY <1>2, <1>3, FS_Surjection
<1>5. Reattached \subseteq 1..MaxEdges
  BY DEF Reattached, Saved, Live, Typed, EdgeTable
<1>6. IsFiniteSet(1..MaxEdges)
  BY FoldAssumption, FS_Interval
<1> QED
  BY <1>4, <1>5, <1>6, FS_Subset

(* The loaded edges come first, each once, then the reattached ones.         *)
LEMMA NewEdgesAre ==
  ASSUME Typed
  PROVE  LET m == Cardinality(Loads)
         IN  /\ m \in Nat /\ Len(NewEdges) \in Nat /\ m <= Len(NewEdges)
             /\ \A i \in 1..m : NewEdges[i] \in Loads
             /\ \A i, j \in 1..m : NewEdges[i] = NewEdges[j] => i = j
             /\ \A i \in (m + 1)..Len(NewEdges) : \E x \in Reattached : NewEdges[i] = Again(x)
             /\ \A e \in Loads : \E i \in 1..m : NewEdges[i] = e
             /\ \A x \in Reattached : \E i \in 1..Len(NewEdges) : NewEdges[i] = Again(x)
<1> DEFINE m == Cardinality(Loads)
           n == Cardinality(Reattached)
           s == SetToSeq(Loads)
           kept == SetToSeq(Reattached)
           t == [i \in 1..Len(kept) |-> Again(kept[i])]
           All == Loads \cup {Again(x) : x \in Reattached}
<1>1. /\ m \in Nat /\ s \in [1..m -> Loads]
      /\ \A i, j \in 1..m : s[i] = s[j] => i = j
      /\ \A x \in Loads : \E i \in 1..m : s[i] = x
  BY LoadsFinite, SeqOfSet
<1>2. /\ n \in Nat /\ kept \in [1..n -> Reattached]
      /\ \A x \in Reattached : \E i \in 1..n : kept[i] = x
  BY LoadsFinite, SeqOfSet
<1>3. NewEdges = s \o t
  BY DEF NewEdges, Loads, LoadedEdge, Again
<1> HIDE DEF m, n, s, kept
<1>4. s \in Seq(All) /\ Len(s) = m
  BY <1>1
<1>5. Len(kept) = n
  BY <1>2
<1>6. t \in [1..n -> All]
  BY <1>2, <1>5
<1>7. t \in Seq(All) /\ Len(t) = n
  BY <1>2, <1>6
<1>8. \A i \in 1..n : t[i] = Again(kept[i])
  BY <1>5
<1> HIDE DEF t, All
<1>9. /\ Len(NewEdges) = m + n
      /\ \A i \in 1..m : NewEdges[i] = s[i]
      /\ \A i \in 1..n : NewEdges[m + i] = t[i]
  <2>1. /\ Len(s \o t) = m + n
        /\ \A i \in 1..(m + n) : (s \o t)[i] = IF i <= m THEN s[i] ELSE t[i - m]
    BY <1>4, <1>7, ConcatProperties
  <2>2. \A i \in 1..m : i \in 1..(m + n) /\ i <= m
    BY <1>1, <1>2
  <2>3. \A i \in 1..n : m + i \in 1..(m + n) /\ ~ (m + i <= m) /\ (m + i) - m = i
    BY <1>1, <1>2
  <2> QED
    BY <1>3, <2>1, <2>2, <2>3
<1>10. ASSUME NEW i \in (m + 1)..Len(NewEdges)
       PROVE  \E x \in Reattached : NewEdges[i] = Again(x)
  <2>1. i - m \in 1..n /\ m + (i - m) = i
    BY <1>1, <1>2, <1>9
  <2> QED
    BY <1>2, <1>8, <1>9, <2>1
<1>11. ASSUME NEW x \in Reattached
       PROVE  \E i \in 1..Len(NewEdges) : NewEdges[i] = Again(x)
  <2>1. PICK i \in 1..n : kept[i] = x
    BY <1>2
  <2>2. m + i \in 1..Len(NewEdges)
    BY <1>1, <1>2, <1>9
  <2> QED
    BY <1>8, <1>9, <2>1, <2>2
<1> QED
  <2>1. /\ \A i \in 1..m : NewEdges[i] \in Loads
        /\ \A i, j \in 1..m : NewEdges[i] = NewEdges[j] => i = j
        /\ \A e \in Loads : \E i \in 1..m : NewEdges[i] = e
    BY <1>1, <1>9
  <2>2. m \in Nat /\ Len(NewEdges) \in Nat /\ m <= Len(NewEdges)
    BY <1>1, <1>2, <1>9
  <2> QED
    BY <1>10, <1>11, <2>1, <2>2 DEF m

(* An edge that stays is not deleted, nor is an end of it.                   *)
EdgeStays(x) ==
    /\ x \in Live(edges) /\ x \notin EdgeDeletes(fold.facts, fold.nodes, fold.edges)
    /\ edges[x].src \notin Going /\ edges[x].dst \notin Going

LEMMA FoldedEdgesAre ==
  ASSUME Typed, Fresh, HasRoom
  PROVE  /\ DOMAIN FoldedEdges = 1..MaxEdges
         /\ \A x \in 1..MaxEdges : EdgeStays(x) => FoldedEdges[x] = edges[x] /\ x < nextEdge
         /\ \A i \in 1..Len(NewEdges) : /\ nextEdge + i - 1 \in 1..MaxEdges
                                        /\ FoldedEdges[nextEdge + i - 1] = NewEdges[i]
         /\ \A x \in Live(FoldedEdges) :
               EdgeStays(x) \/ \E i \in 1..Len(NewEdges) : x = nextEdge + i - 1
<1>1. Len(NewEdges) \in Nat /\ nextEdge \in Nat /\ nextEdge >= 1 /\ MaxEdges \in Nat
  BY NewEdgesAre, FoldAssumption DEF Typed
<1>2. nextEdge + Len(NewEdges) <= MaxEdges + 1
  BY DEF HasRoom
<1>3. ASSUME NEW x \in 1..MaxEdges
      PROVE  FoldedEdges[x] =
                IF x >= nextEdge /\ x < nextEdge + Len(NewEdges) THEN NewEdges[x - nextEdge + 1]
                ELSE IF EdgeStays(x) THEN edges[x] ELSE None
  BY DEF FoldedEdges, EdgeStays, Live, Going, Typed, EdgeTable
<1>4. \A x \in Live(edges) : x < nextEdge
  BY DEF Fresh
<1>5. ASSUME NEW i \in 1..Len(NewEdges)
      PROVE  /\ nextEdge + i - 1 \in 1..MaxEdges
             /\ FoldedEdges[nextEdge + i - 1] = NewEdges[i]
  <2>1. /\ nextEdge + i - 1 \in 1..MaxEdges
        /\ nextEdge + i - 1 >= nextEdge /\ nextEdge + i - 1 < nextEdge + Len(NewEdges)
        /\ (nextEdge + i - 1) - nextEdge + 1 = i
    BY <1>1, <1>2
  <2> QED
    BY <1>3, <2>1
<1>6. DOMAIN FoldedEdges = 1..MaxEdges
  BY DEF FoldedEdges
<1>7. ASSUME NEW x \in Live(FoldedEdges), ~ EdgeStays(x)
      PROVE  \E i \in 1..Len(NewEdges) : x = nextEdge + i - 1
  <2>1. x \in 1..MaxEdges /\ x >= nextEdge /\ x < nextEdge + Len(NewEdges)
    BY <1>3, <1>6, <1>7 DEF Live
  <2>2. x - nextEdge + 1 \in 1..Len(NewEdges) /\ x = nextEdge + (x - nextEdge + 1) - 1
    BY <1>1, <2>1
  <2> QED
    BY <2>2
<1>8. ASSUME NEW x \in 1..MaxEdges, EdgeStays(x)
      PROVE  FoldedEdges[x] = edges[x] /\ x < nextEdge
  BY <1>1, <1>3, <1>4, <1>8 DEF EdgeStays
<1> QED
  BY <1>5, <1>6, <1>7, <1>8

-------------------------------------------------------------------------------
(* The ends of the new edges are there, though they were decided on before.  *)

LEMMA IdOfIs ==
  ASSUME Inv, HasRoom, ~ Refused, NEW k, Resolves(k)
  PROVE  /\ IdOf(k) \in 1..MaxNodes /\ IdOf(k) \in Live(FoldedNodes)
         /\ FoldedNodes[IdOf(k)].key = k
         /\ k \in Creating => IdOf(k) = NewId(k)
         /\ k \notin Creating => IdOf(k) \in Holders(nodes, k) /\ Stays(IdOf(k))
<1> USE DEF Inv
<1>1. CASE k \in Creating
  <2>1. IdOf(k) = NewId(k)
    BY <1>1 DEF IdOf, Creating
  <2>2. FoldedNodes[NewId(k)] = Created(k) /\ NewId(k) \in 1..MaxNodes
    BY <1>1, FoldedNodesAre, NewIds
  <2>3. DOMAIN FoldedNodes = 1..MaxNodes
    BY DEF FoldedNodes
  <2> QED
    BY <1>1, <2>1, <2>2, <2>3, CreatedIn DEF Live
<1>2. CASE k \notin Creating
  <2> DEFINE i == IdOf(k)
  <2>1. /\ k \notin {fold.nodes[j].key : j \in Deleted(fold.facts, fold.nodes)}
        /\ Holders(nodes, k) # {}
    BY <1>2 DEF Resolves, Creating
  <2>2. i \in Holders(nodes, k)
    BY <1>2, <2>1 DEF IdOf, Creating
  <2>3. i \in Live(nodes) /\ nodes[i].key = k
    BY <2>2 DEF Holders
  <2> HIDE DEF i
  <2>4. i \notin Deleted(fold.facts, fold.nodes)
    <3> SUFFICES ASSUME i \in Deleted(fold.facts, fold.nodes)
                 PROVE  FALSE
      OBVIOUS
    <3>1. i \in Live(fold.nodes)
      BY DEF Deleted, Owned
    <3> QED
      BY <2>1, <2>3, <3>1 DEF StillSo
  <2>5. i \notin Replaced(fold.facts, fold.nodes)
    BY <1>2, <2>3, ReplacedAreCreated DEF StillSo
  <2>6. Stays(i)
    BY <2>3, <2>4, <2>5 DEF Stays, Going, Gone
  <2> QED
    BY <1>2, <2>2, <2>3, <2>6, StaysSo DEF i
<1> QED
  BY <1>1, <1>2

LEMMA LoadedIs ==
  ASSUME Inv, HasRoom, ~ Refused, NEW t \in Loadable
  PROVE  /\ LoadedEdge(t) \in Edge
         /\ LoadedEdge(t).src \in Live(FoldedNodes) /\ LoadedEdge(t).dst \in Live(FoldedNodes)
         /\ FoldedNodes[LoadedEdge(t).src].key = t[1]
         /\ FoldedNodes[LoadedEdge(t).dst].key = t[3]
<1>1. /\ t \in Triples /\ fold.facts.edge[t] # None
      /\ Resolves(t[1]) /\ Resolves(t[3])
  BY DEF Loadable, EdgeCreates
<1>2. fold.facts.edge[t] \in Contents
  BY <1>1 DEF Inv, Typed, Facts, Optional
<1>3. t[2] \in Types
  BY <1>1 DEF Triples
<1> QED
  BY <1>1, <1>2, <1>3, IdOfIs DEF LoadedEdge, Edge

LEMMA AgainIs ==
  ASSUME Inv, HasRoom, ~ Refused, NEW x \in Reattached
  PROVE  LET e == fold.edges[x]
             k == fold.nodes[e.dst].key
         IN  /\ x \in Live(fold.edges) /\ e \in Edge /\ Again(x) \in Edge
             /\ Again(x).src = e.src /\ Again(x).ty = e.ty /\ Again(x).dst = NewId(k)
             /\ Stays(e.src) /\ e.src \notin Owned(fold.nodes)
             /\ k \in Creating /\ e.dst \in Replaced(fold.facts, fold.nodes)
             /\ Again(x).src \in Live(FoldedNodes) /\ Again(x).dst \in Live(FoldedNodes)
<1> USE DEF Inv
<1> DEFINE e == fold.edges[x]
           k == fold.nodes[e.dst].key
<1>1. /\ x \in Live(fold.edges)
      /\ e.dst \in Replaced(fold.facts, fold.nodes) /\ e.src \notin Owned(fold.nodes)
  BY DEF Reattached, Saved
<1>2. e \in Edge
  BY <1>1, LiveEdgeIn DEF Typed
<1>3. nodes[e.src] # None
  BY DEF Refused
<1>4. k \in Creating
  BY <1>1, ReplacedAreCreated
<1>5. NewId(k) \in 1..MaxNodes
  BY <1>4, NewIds
<1>6. /\ Again(x) \in Edge
      /\ Again(x).src = e.src /\ Again(x).ty = e.ty /\ Again(x).dst = NewId(k)
  BY <1>2, <1>5 DEF Again, Edge
<1>7. e.src \notin Going
  BY <1>1, GoingIs
<1>8. Stays(e.src)
  BY <1>2, <1>3, <1>7 DEF Stays, Live, Typed, NodeTable, Edge
<1>9. NewId(k) \in Live(FoldedNodes)
  <2>1. DOMAIN FoldedNodes = 1..MaxNodes
    BY DEF FoldedNodes
  <2> HIDE DEF k
  <2>2. FoldedNodes[NewId(k)] = Created(k)
    BY <1>4, FoldedNodesAre
  <2>3. Created(k) # None
    BY <1>4, CreatedIn
  <2> QED
    BY <1>5, <2>1, <2>2, <2>3 DEF Live
<1> QED
  BY <1>1, <1>2, <1>4, <1>6, <1>8, <1>9, StaysSo

(* An edge that the fold leaves has ends that it leaves.                     *)
LEMMA EdgeStaysSo ==
  ASSUME Inv, NEW x, EdgeStays(x)
  PROVE  /\ x \in 1..MaxEdges /\ edges[x] \in Edge
         /\ Stays(edges[x].src) /\ Stays(edges[x].dst)
  BY LiveEdgeIn DEF Inv, Typed, EdgeStays, LiveEnds, Stays, Live, NodeTable, Edge

-------------------------------------------------------------------------------
(* The transaction keeps the plane well formed.                              *)

LEMMA FoldedEdgeIs ==
  ASSUME Inv, HasRoom, ~ Refused, NEW x \in Live(FoldedEdges)
  PROVE  /\ x \in 1..MaxEdges /\ FoldedEdges[x] \in Edge
         /\ FoldedEdges[x].src \in Live(FoldedNodes)
         /\ FoldedEdges[x].dst \in Live(FoldedNodes)
         /\ x < nextEdge + Len(NewEdges)
         /\ x \in Live(edges) => EdgeStays(x)
<1> USE DEF Inv
<1>1. /\ nextEdge \in Nat /\ Len(NewEdges) \in Nat
      /\ x \in 1..MaxEdges
  BY NewEdgesAre, FoldedEdgesAre DEF Typed, Live
<1>2. CASE EdgeStays(x)
  <2>1. FoldedEdges[x] = edges[x] /\ x < nextEdge
    BY <1>1, <1>2, FoldedEdgesAre
  <2>2. edges[x] \in Edge /\ Stays(edges[x].src) /\ Stays(edges[x].dst)
    BY <1>2, EdgeStaysSo
  <2>3. edges[x].src \in Live(FoldedNodes) /\ edges[x].dst \in Live(FoldedNodes)
    BY <2>2, StaysSo
  <2> QED
    BY <1>1, <1>2, <2>1, <2>2, <2>3
<1>3. CASE ~ EdgeStays(x)
  <2>1. PICK i \in 1..Len(NewEdges) : x = nextEdge + i - 1
    BY <1>3, FoldedEdgesAre
  <2>2. FoldedEdges[x] = NewEdges[i]
    BY <2>1, FoldedEdgesAre
  <2>3. \/ \E t \in Loadable : NewEdges[i] = LoadedEdge(t)
        \/ \E y \in Reattached : NewEdges[i] = Again(y)
    <3> DEFINE m == Cardinality(Loads)
    <3>1. /\ m \in Nat
          /\ \A j \in 1..m : NewEdges[j] \in Loads
          /\ \A j \in (m + 1)..Len(NewEdges) : \E y \in Reattached : NewEdges[j] = Again(y)
      BY NewEdgesAre
    <3> HIDE DEF m
    <3>2. i \in 1..m \/ i \in (m + 1)..Len(NewEdges)
      BY <1>1, <3>1
    <3> QED
      BY <3>1, <3>2 DEF Loads
  <2>4. /\ NewEdges[i] \in Edge
        /\ NewEdges[i].src \in Live(FoldedNodes)
        /\ NewEdges[i].dst \in Live(FoldedNodes)
    BY <2>3, LoadedIs, AgainIs
  <2>5. x \notin Live(edges) /\ x < nextEdge + Len(NewEdges)
    BY <1>1, <2>1 DEF Fresh
  <2> QED
    BY <1>1, <2>2, <2>4, <2>5
<1> QED
  BY <1>2, <1>3

(* A node after a fold is one that stays or one that it made, under a key    *)
(* that no other holds.                                                      *)
LEMMA FoldedNodeIs ==
  ASSUME Inv, HasRoom, ~ Refused, NEW i \in Live(FoldedNodes)
  PROVE  /\ i \in 1..MaxNodes /\ i < nextNode + Cardinality(Creating)
         /\ \/ Stays(i) /\ FoldedNodes[i].key \notin Creating
            \/ /\ FoldedNodes[i].key \in Creating
               /\ i = NewId(FoldedNodes[i].key)
               /\ FoldedNodes[i] = Created(FoldedNodes[i].key)
               /\ ~ Stays(i) /\ i >= nextNode
         /\ FoldedNodes[i].vec = FoldedNodes[i].from
<1> USE DEF Inv
<1>1. i \in 1..MaxNodes /\ nextNode \in Nat /\ Cardinality(Creating) \in Nat
  BY FoldedNodesAre, NewIds DEF Live, NodeTable, Typed
<1>2. CASE Stays(i)
  <2>1. FoldedNodes[i].key = nodes[i].key /\ FoldedNodes[i].vec = FoldedNodes[i].from
    BY <1>2, StaysSo DEF Stays, VectorsFrom
  <2>2. i \in Holders(nodes, nodes[i].key) /\ i \notin Going
    BY <1>2 DEF Stays, Holders
  <2>3. nodes[i].key \notin Creating
    BY <2>2 DEF Refused, Creating, Going
  <2>4. i < nextNode
    BY <1>2 DEF Stays, Fresh
  <2> QED
    BY <1>1, <1>2, <2>1, <2>3, <2>4
<1>3. CASE ~ Stays(i)
  <2>1. PICK k \in Creating : NewId(k) = i
    BY <1>3, FoldedNodesAre
  <2>2. FoldedNodes[i] = Created(k)
    BY <2>1, FoldedNodesAre
  <2>3. Created(k).key = k /\ Created(k).vec = Created(k).from
    BY CreatedIn
  <2> QED
    BY <1>1, <1>3, <2>1, <2>2, <2>3, NewIds
<1> QED
  BY <1>2, <1>3

LEMMA ApplyKeeps ==
  ASSUME Inv, Apply
  PROVE  Inv'
<1> USE DEF Inv
<1>1. /\ ~ Refused /\ HasRoom
      /\ nodes' = FoldedNodes /\ edges' = FoldedEdges
      /\ nextNode' = nextNode + Cardinality(Creating)
      /\ nextEdge' = nextEdge + Len(NewEdges)
      /\ fold' = [fold EXCEPT !.pc = "done"]
      /\ UNCHANGED <<pass, meddled>>
  BY DEF Apply, Creating
<1>2. /\ fold' \in [pc : Pcs, facts : Facts, nodes : NodeTable, edges : EdgeTable]
      /\ fold'.facts = fold.facts /\ fold'.nodes = fold.nodes /\ fold'.edges = fold.edges
      /\ fold'.pc = "done"
  BY <1>1 DEF Typed, Pcs
<1>3. /\ nextNode \in Nat \ {0} /\ nextEdge \in Nat \ {0}
      /\ Cardinality(Creating) \in Nat /\ Len(NewEdges) \in Nat
  BY <1>1, NewIds, NewEdgesAre DEF Typed
<1>4. /\ nextNode' \in Nat \ {0} /\ nextEdge' \in Nat \ {0}
      /\ nextNode' >= nextNode /\ nextEdge' >= nextEdge
  BY <1>1, <1>3
<1>5. edges' \in EdgeTable
  <2>1. DOMAIN FoldedEdges = 1..MaxEdges
    BY <1>1, FoldedEdgesAre
  <2>2. \A x \in 1..MaxEdges : FoldedEdges[x] # None => FoldedEdges[x] \in Edge
    BY <1>1, <2>1, FoldedEdgeIs DEF Live
  <2>3. FoldedEdges = [x \in 1..MaxEdges |-> FoldedEdges[x]]
    BY <2>1 DEF FoldedEdges
  <2> QED
    BY <1>1, <2>2, <2>3 DEF EdgeTable, Optional
<1>6. nodes' \in NodeTable
  BY <1>1, FoldedNodesAre
<1>7. Typed'
  BY <1>1, <1>2, <1>4, <1>5, <1>6 DEF Typed, Finite
<1>8. Fresh'
  <2>1. \A i \in Live(nodes') : i < nextNode'
    BY <1>1, FoldedNodeIs
  <2>2. \A x \in Live(edges') : x < nextEdge'
    BY <1>1, FoldedEdgeIs
  <2>3. \A i \in Live(fold'.nodes) : i < nextNode'
    BY <1>2, <1>3, <1>4, LiveIn DEF Fresh, Typed
  <2>4. \A x \in Live(fold'.edges) : x < nextEdge'
    BY <1>2, <1>3, <1>4, LiveEdgeIn DEF Fresh, Typed
  <2> QED
    BY <2>1, <2>2, <2>3, <2>4 DEF Fresh
<1>9. StillSo'
  <2>1. ASSUME NEW i \in Live(nodes') \cap Live(fold'.nodes)
        PROVE  /\ nodes'[i].key = fold'.nodes[i].key
               /\ nodes'[i].label = fold'.nodes[i].label
               /\ nodes'[i].parser = fold'.nodes[i].parser
    <3>1. i \in Live(FoldedNodes) /\ i \in Live(fold.nodes)
      BY <1>1, <1>2
    <3>2. i < nextNode /\ i \in 1..MaxNodes
      BY <3>1, LiveIn DEF Fresh, Typed
    <3>3. Stays(i)
      BY <1>1, <1>3, <3>1, <3>2, FoldedNodeIs
    <3>4. i \in Live(nodes)
      BY <3>3 DEF Stays
    <3> QED
      BY <1>1, <1>2, <3>1, <3>3, <3>4, StaysSo DEF StillSo
  <2>2. ASSUME NEW x \in Live(edges') \cap Live(fold'.edges)
        PROVE  edges'[x] = fold'.edges[x]
    <3>1. x \in Live(FoldedEdges) /\ x \in Live(fold.edges)
      BY <1>1, <1>2
    <3>2. x < nextEdge /\ x \in 1..MaxEdges
      BY <3>1, LiveEdgeIn DEF Fresh, Typed
    <3>3. EdgeStays(x)
      <4> SUFFICES ASSUME NEW i \in 1..Len(NewEdges), x = nextEdge + i - 1
                   PROVE  FALSE
        BY <1>1, <3>1, FoldedEdgesAre
      <4> QED
        BY <1>3, <3>2
    <3>4. FoldedEdges[x] = edges[x] /\ x \in Live(edges)
      BY <1>1, <3>2, <3>3, FoldedEdgesAre DEF EdgeStays
    <3> QED
      BY <1>1, <1>2, <3>1, <3>4 DEF StillSo
  <2> QED
    BY <2>1, <2>2 DEF StillSo
<1>10. UniqueKeys(nodes)'
  <2> SUFFICES ASSUME NEW i \in Live(FoldedNodes), NEW j \in Live(FoldedNodes),
                      FoldedNodes[i].key = FoldedNodes[j].key
               PROVE  i = j
    BY <1>1 DEF UniqueKeys
  <2>1. CASE FoldedNodes[i].key \in Creating
    BY <1>1, <2>1, FoldedNodeIs
  <2>2. CASE FoldedNodes[i].key \notin Creating
    <3>1. Stays(i) /\ Stays(j)
      BY <1>1, <2>2, FoldedNodeIs
    <3>2. nodes[i].key = nodes[j].key
      BY <1>1, <3>1, StaysSo
    <3> QED
      BY <3>1, <3>2 DEF Stays, UniqueKeys
  <2> QED
    BY <2>1, <2>2
<1>11. LiveEnds'
  BY <1>1, FoldedEdgeIs DEF LiveEnds, Live
<1>12. VectorsFrom(nodes)'
  BY <1>1, FoldedNodeIs DEF VectorsFrom
<1>13. UniqueKeys(fold.nodes)' /\ VectorsFrom(fold.nodes)'
  BY <1>2 DEF UniqueKeys, VectorsFrom
<1>14. Undisturbed'
  BY <1>2 DEF Undisturbed
<1> QED
  BY <1>7, <1>8, <1>9, <1>10, <1>11, <1>12, <1>13, <1>14

-------------------------------------------------------------------------------
(* The other steps.                                                          *)

LEMMA NoFactsIn == NoFacts \in Facts /\ Finite(NoFacts)
<1>1. {k \in Keys : NoFacts.node[k] # None} = {} /\ {t \in Triples : NoFacts.edge[t] # None} = {}
  BY DEF NoFacts
<1> QED
  BY <1>1, FS_EmptySet DEF NoFacts, Facts, Finite, Optional

LEMMA NoFoldIs ==
  /\ NoFold \in [pc : Pcs, facts : Facts, nodes : NodeTable, edges : EdgeTable]
  /\ Finite(NoFold.facts) /\ NoFold.facts \in Trees \cup {NoFacts} /\ NoFold.pc = "idle"
  /\ Live(NoFold.nodes) = {} /\ Live(NoFold.edges) = {}
<1>1. NoNodes \in NodeTable /\ NoEdges \in EdgeTable /\ Live(NoNodes) = {} /\ Live(NoEdges) = {}
  BY DEF NoNodes, NoEdges, NodeTable, EdgeTable, Live, Optional
<1> QED
  BY <1>1, NoFactsIn DEF NoFold, Pcs

LEMMA InitInv == Init => Inv
<1> SUFFICES ASSUME Init
             PROVE  Inv
  OBVIOUS
<1>1. nodes \in NodeTable /\ edges \in EdgeTable /\ Live(nodes) = {} /\ Live(edges) = {}
  BY DEF Init, NoNodes, NoEdges, NodeTable, EdgeTable, Live, Optional
<1>2. pass \in [1..MaxNodes -> Optional(Texts)]
  BY DEF Init, Idle, Optional
<1>3. meddled \in BOOLEAN
  BY Zenon DEF Init
<1>4. fold = NoFold /\ nextNode = 1 /\ nextEdge = 1
  BY DEF Init
<1>5. Typed
  BY <1>1, <1>2, <1>3, <1>4, NoFoldIs DEF Typed
<1> QED
  BY <1>1, <1>4, <1>5, NoFoldIs
     DEF Inv, Fresh, StillSo, UniqueKeys, LiveEnds, VectorsFrom, Undisturbed

(* The fold's own steps outside the transaction.                             *)
LEMMA FoldKeeps ==
  ASSUME Inv,
         \/ \E f \in Trees : Route(f)
         \/ ReadNodes \/ ReadEdges \/ ApplyFails \/ Return
  PROVE  Inv'
<1> USE DEF Inv
<1>1. UNCHANGED <<nodes, edges, nextNode, nextEdge, pass>>
  BY DEF Route, ReadNodes, ReadEdges, ApplyFails, Return
<1>2. UniqueKeys(nodes)' /\ LiveEnds' /\ VectorsFrom(nodes)'
  BY <1>1 DEF UniqueKeys, LiveEnds, VectorsFrom
<1>3. ASSUME NEW f \in Trees, Route(f)
      PROVE  Inv'
  <2>1. fold' = [fold EXCEPT !.pc = "routed", !.facts = f] /\ UNCHANGED meddled
    BY <1>3 DEF Route
  <2>2. f \in Facts /\ Finite(f)
    BY FoldAssumption DEF Finite
  <2>3. /\ fold' \in [pc : Pcs, facts : Facts, nodes : NodeTable, edges : EdgeTable]
        /\ fold'.facts = f /\ fold'.nodes = fold.nodes /\ fold'.edges = fold.edges
        /\ fold'.pc = "routed"
    BY <2>1, <2>2 DEF Typed, Pcs
  <2>4. Typed'
    BY <1>1, <2>1, <2>2, <2>3 DEF Typed
  <2> QED
    BY <1>1, <1>2, <2>3, <2>4
       DEF Fresh, StillSo, UniqueKeys, VectorsFrom, Undisturbed
<1>4. CASE ReadNodes
  <2>1. fold' = [fold EXCEPT !.pc = "nodes", !.nodes = nodes]
    BY <1>4 DEF ReadNodes
  <2>2. /\ fold' \in [pc : Pcs, facts : Facts, nodes : NodeTable, edges : EdgeTable]
        /\ fold'.facts = fold.facts /\ fold'.nodes = nodes /\ fold'.edges = fold.edges
        /\ fold'.pc = "nodes"
    BY <2>1 DEF Typed, Pcs
  <2>3. meddled' \in BOOLEAN
    BY <1>4, Zenon DEF ReadNodes
  <2>4. Typed'
    BY <1>1, <2>2, <2>3 DEF Typed
  <2> QED
    BY <1>1, <1>2, <2>2, <2>4
       DEF Fresh, StillSo, UniqueKeys, VectorsFrom, Undisturbed
<1>5. CASE ReadEdges
  <2>1. fold' = [fold EXCEPT !.pc = "edges", !.edges = edges] /\ UNCHANGED meddled
        /\ fold.pc = "nodes"
    BY <1>5 DEF ReadEdges
  <2>2. /\ fold' \in [pc : Pcs, facts : Facts, nodes : NodeTable, edges : EdgeTable]
        /\ fold'.facts = fold.facts /\ fold'.nodes = fold.nodes /\ fold'.edges = edges
        /\ fold'.pc = "edges"
    BY <2>1 DEF Typed, Pcs
  <2>3. Typed'
    BY <1>1, <2>1, <2>2 DEF Typed
  <2> QED
    BY <1>1, <1>2, <2>1, <2>2, <2>3
       DEF Fresh, StillSo, UniqueKeys, VectorsFrom, Undisturbed
<1>6. CASE ApplyFails
  <2>1. fold' = [fold EXCEPT !.pc = "failed"] /\ UNCHANGED meddled
    BY <1>6 DEF ApplyFails
  <2>2. /\ fold' \in [pc : Pcs, facts : Facts, nodes : NodeTable, edges : EdgeTable]
        /\ fold'.facts = fold.facts /\ fold'.nodes = fold.nodes /\ fold'.edges = fold.edges
        /\ fold'.pc = "failed"
    BY <2>1 DEF Typed, Pcs
  <2>3. Typed'
    BY <1>1, <2>1, <2>2 DEF Typed
  <2> QED
    BY <1>1, <1>2, <2>2, <2>3
       DEF Fresh, StillSo, UniqueKeys, VectorsFrom, Undisturbed
<1>7. CASE Return
  <2>1. fold' = NoFold
    BY <1>7 DEF Return
  <2>2. meddled' \in BOOLEAN
    BY <1>7, Zenon DEF Return
  <2>3. Typed'
    BY <1>1, <2>1, <2>2, NoFoldIs DEF Typed
  <2> QED
    BY <1>1, <1>2, <2>1, <2>3, NoFoldIs
       DEF Fresh, StillSo, UniqueKeys, VectorsFrom, Undisturbed
<1> QED
  BY <1>3, <1>4, <1>5, <1>6, <1>7

LEMMA EmbedKeeps ==
  ASSUME Inv, Scan \/ EmbedBatch \/ EmbedFails
  PROVE  Inv'
<1> USE DEF Inv
<1>1. UNCHANGED <<edges, nextNode, nextEdge, fold>>
  BY DEF Scan, EmbedBatch, EmbedFails
<1>2. CASE Scan \/ EmbedFails
  <2>1. UNCHANGED <<nodes, meddled>>
    BY <1>2 DEF Scan, EmbedFails
  <2>2. ASSUME NEW i \in 1..MaxNodes, nodes[i] # None
        PROVE  Text(nodes[i]) \in Texts
    BY <2>2 DEF Typed, NodeTable, Optional, Node, Text, Texts
  <2>3. pass' \in [1..MaxNodes -> Optional(Texts)]
    <3>1. CASE Scan
      BY <2>2, <3>1 DEF Scan, Optional
    <3>2. CASE EmbedFails
      BY <3>2 DEF EmbedFails, Idle, Optional
    <3> QED
      BY <1>2, <3>1, <3>2
  <2>4. Typed'
    BY <1>1, <2>1, <2>3 DEF Typed
  <2> QED
    BY <1>1, <2>1, <2>4
       DEF Fresh, StillSo, UniqueKeys, LiveEnds, VectorsFrom, Undisturbed
<1>3. CASE EmbedBatch
  <2>1. /\ \A i \in Live(pass) : nodes[i] # None
        /\ nodes' = [i \in 1..MaxNodes |-> IF pass[i] = None THEN nodes[i] ELSE Embedded(i)]
        /\ pass' = Idle
    BY <1>3 DEF EmbedBatch
  <2>2. meddled' \in BOOLEAN /\ meddled'
    BY <1>3, Zenon DEF EmbedBatch
  <2>3. \A i \in 1..MaxNodes : pass[i] # None => nodes[i] \in Node /\ pass[i] \in Texts
    BY <2>1 DEF Typed, NodeTable, Live, Optional
  <2>4. ASSUME NEW i \in 1..MaxNodes
        PROVE  /\ nodes'[i] = None <=> nodes[i] = None
               /\ nodes'[i] \in Optional(Node)
               /\ nodes[i] # None => /\ nodes'[i].key = nodes[i].key
                                     /\ nodes'[i].label = nodes[i].label
                                     /\ nodes'[i].parser = nodes[i].parser
                                     /\ nodes[i].vec = nodes[i].from => nodes'[i].vec = nodes'[i].from
    <3>1. CASE pass[i] = None
      BY <2>1, <3>1 DEF Typed, NodeTable
    <3>2. CASE pass[i] # None
      <4>1. nodes'[i] = [nodes[i] EXCEPT !.vec = pass[i], !.from = pass[i]]
        BY <2>1, <3>2 DEF Embedded
      <4>2. nodes[i] \in Node /\ pass[i] \in Texts /\ nodes[i] # None
        BY <2>3, <3>2, FoldAssumption
      <4>3. nodes'[i] \in Node
        BY <4>1, <4>2 DEF Node, Optional
      <4> QED
        BY <4>1, <4>2, <4>3, FoldAssumption DEF Node, Optional
    <3> QED
      BY <3>1, <3>2
  <2>5. nodes' \in NodeTable
    BY <2>1, <2>4 DEF NodeTable
  <2>6. Live(nodes') = Live(nodes)
    BY <2>4, <2>5 DEF Live, NodeTable, Typed
  <2>7. \A i \in Live(nodes) : i \in 1..MaxNodes /\ nodes[i] # None
    BY DEF Live, NodeTable, Typed
  <2>8. Typed'
    <3>1. pass' \in [1..MaxNodes -> Optional(Texts)]
      BY <2>1 DEF Idle, Optional
    <3> QED
      BY <1>1, <2>2, <2>5, <3>1 DEF Typed
  <2>9. Fresh'
    BY <1>1, <2>6 DEF Fresh
  <2>10. StillSo'
    BY <1>1, <2>4, <2>6, <2>7 DEF StillSo
  <2>11. UniqueKeys(nodes)' /\ VectorsFrom(nodes)'
    BY <2>4, <2>6, <2>7 DEF UniqueKeys, VectorsFrom
  <2>12. LiveEnds'
    <3>1. \A x \in Live(edges) : edges[x].src \in 1..MaxNodes /\ edges[x].dst \in 1..MaxNodes
      BY LiveEdgeIn DEF Typed, Edge
    <3> QED
      BY <1>1, <2>4, <3>1 DEF LiveEnds
  <2>13. UniqueKeys(fold.nodes)' /\ VectorsFrom(fold.nodes)'
    BY <1>1 DEF UniqueKeys, VectorsFrom
  <2> QED
    BY <2>2, <2>8, <2>9, <2>10, <2>11, <2>12, <2>13 DEF Undisturbed
<1> QED
  BY <1>2, <1>3

LEMMA OthersKeep ==
  ASSUME Inv, Others
  PROVE  Inv'
<1> USE DEF Inv
<1>1. UNCHANGED <<fold, pass>>
  BY DEF Others
<1>2. meddled' \in BOOLEAN /\ meddled'
  BY Zenon DEF Others
<1>3. UniqueKeys(fold.nodes)' /\ VectorsFrom(fold.nodes)' /\ Undisturbed'
  BY <1>1, <1>2 DEF UniqueKeys, VectorsFrom, Undisturbed
<1>4. nextNode \in Nat \ {0} /\ nextEdge \in Nat \ {0} /\ MaxNodes \in Nat /\ MaxEdges \in Nat
  BY FoldAssumption DEF Typed
<1>5. /\ \A i \in Live(nodes) : i \in 1..MaxNodes /\ nodes[i] \in Node
      /\ \A i \in Live(fold.nodes) : i \in 1..MaxNodes
      /\ \A x \in Live(edges) : /\ x \in 1..MaxEdges /\ edges[x] \in Edge
                                /\ edges[x].src \in 1..MaxNodes /\ edges[x].dst \in 1..MaxNodes
      /\ \A x \in Live(fold.edges) : x \in 1..MaxEdges
  BY LiveIn, LiveEdgeIn DEF Typed, Edge
<1>6. /\ nodes \in [1..MaxNodes -> Optional(Node)] /\ edges \in [1..MaxEdges -> Optional(Edge)]
  BY DEF Typed, NodeTable, EdgeTable
<1>7. ASSUME NEW n \in Foreign, OthersCreate(n)
      PROVE  Inv'
  <2> DEFINE new == [key |-> n.key, label |-> n.label, content |-> n.content, parser |-> FALSE,
                     vec |-> None, from |-> None]
  <2>1. /\ nextNode <= MaxNodes /\ Holders(nodes, n.key) = {}
        /\ nodes' = [nodes EXCEPT ![nextNode] = new]
        /\ nextNode' = nextNode + 1 /\ UNCHANGED <<edges, nextEdge>>
    BY <1>7 DEF OthersCreate
  <2>2. new \in Node /\ new # None
    <3>1. new \in Node
      BY FoldAssumption DEF Node, Optional
    <3> QED
      BY <3>1, FoldAssumption
  <2>3. new.key = n.key /\ new.vec = new.from
    OBVIOUS
  <2> HIDE DEF new
  <2>4. nextNode \in 1..MaxNodes /\ nextNode \notin Live(nodes) /\ nextNode \notin Live(fold.nodes)
    BY <1>4, <2>1 DEF Fresh
  <2>5. /\ nodes' \in [1..MaxNodes -> Optional(Node)]
        /\ nodes'[nextNode] = new
        /\ \A i \in 1..MaxNodes : i # nextNode => nodes'[i] = nodes[i]
    BY <1>6, <2>1, <2>2, <2>4 DEF Optional
  <2>6. Live(nodes') = Live(nodes) \cup {nextNode}
    BY <1>6, <2>2, <2>4, <2>5 DEF Live
  <2>7. Typed'
    BY <1>1, <1>2, <1>4, <2>1, <2>5 DEF Typed, NodeTable
  <2>8. Fresh'
    <3>1. \A i \in 1..MaxNodes : i < nextNode \/ i = nextNode => i < nextNode'
      BY <1>4, <2>1
    <3> QED
      BY <1>1, <1>5, <2>1, <2>4, <2>6, <3>1 DEF Fresh
  <2>9. StillSo'
    BY <1>1, <1>5, <2>1, <2>4, <2>5, <2>6 DEF StillSo
  <2>10. UniqueKeys(nodes)'
    BY <1>5, <2>1, <2>3, <2>4, <2>5, <2>6 DEF UniqueKeys, Holders
  <2>11. LiveEnds'
    <3>1. \A i \in 1..MaxNodes : nodes[i] # None => nodes'[i] # None
      BY <2>2, <2>5
    <3> QED
      BY <1>5, <2>1, <3>1 DEF LiveEnds
  <2>12. VectorsFrom(nodes)'
    BY <1>5, <2>3, <2>4, <2>5, <2>6 DEF VectorsFrom
  <2> QED
    BY <1>3, <2>7, <2>8, <2>9, <2>10, <2>11, <2>12
<1>8. ASSUME NEW s \in 1..MaxNodes, NEW d \in 1..MaxNodes, NEW ty \in Types, NEW n \in Foreign,
             OthersLink(s, ty, d, n.content)
      PROVE  Inv'
  <2> DEFINE new == [src |-> s, ty |-> ty, dst |-> d, content |-> n.content]
  <2>1. /\ nextEdge <= MaxEdges /\ nodes[s] # None /\ nodes[d] # None
        /\ edges' = [edges EXCEPT ![nextEdge] = new]
        /\ nextEdge' = nextEdge + 1 /\ UNCHANGED <<nodes, nextNode>>
    BY <1>8 DEF OthersLink
  <2>2. new \in Edge /\ new # None
    <3>1. new \in Edge
      BY FoldAssumption DEF Edge
    <3> QED
      BY <3>1, FoldAssumption
  <2>3. new.src = s /\ new.dst = d
    OBVIOUS
  <2> HIDE DEF new
  <2>4. nextEdge \in 1..MaxEdges /\ nextEdge \notin Live(edges) /\ nextEdge \notin Live(fold.edges)
    BY <1>4, <2>1 DEF Fresh
  <2>5. /\ edges' \in [1..MaxEdges -> Optional(Edge)]
        /\ edges'[nextEdge] = new
        /\ \A x \in 1..MaxEdges : x # nextEdge => edges'[x] = edges[x]
    BY <1>6, <2>1, <2>2, <2>4 DEF Optional
  <2>6. Live(edges') = Live(edges) \cup {nextEdge}
    BY <1>6, <2>2, <2>4, <2>5 DEF Live
  <2>7. Typed'
    BY <1>1, <1>2, <1>4, <2>1, <2>5 DEF Typed, EdgeTable
  <2>8. Fresh'
    <3>1. \A x \in 1..MaxEdges : x < nextEdge \/ x = nextEdge => x < nextEdge'
      BY <1>4, <2>1
    <3> QED
      BY <1>1, <1>5, <2>1, <2>4, <2>6, <3>1 DEF Fresh
  <2>9. StillSo'
    BY <1>1, <1>5, <2>1, <2>4, <2>5, <2>6 DEF StillSo
  <2>10. LiveEnds'
    BY <1>5, <2>1, <2>3, <2>4, <2>5, <2>6 DEF LiveEnds
  <2>11. UniqueKeys(nodes)' /\ VectorsFrom(nodes)'
    BY <2>1 DEF UniqueKeys, VectorsFrom
  <2> QED
    BY <1>3, <2>7, <2>8, <2>9, <2>10, <2>11
<1>9. ASSUME NEW i \in 1..MaxNodes, OthersDelete(i)
      PROVE  Inv'
  <2>1. /\ nodes' = [nodes EXCEPT ![i] = None]
        /\ edges' = [x \in 1..MaxEdges |->
                        IF edges[x] # None /\ i \in {edges[x].src, edges[x].dst}
                        THEN None ELSE edges[x]]
        /\ UNCHANGED <<nextNode, nextEdge>>
    BY <1>9 DEF OthersDelete
  <2>2. /\ nodes' \in [1..MaxNodes -> Optional(Node)]
        /\ nodes'[i] = None /\ \A j \in 1..MaxNodes : j # i => nodes'[j] = nodes[j]
    BY <1>6, <2>1 DEF Optional
  <2>3. /\ edges' \in [1..MaxEdges -> Optional(Edge)]
        /\ \A x \in 1..MaxEdges : edges'[x] # None =>
              edges'[x] = edges[x] /\ edges[x].src # i /\ edges[x].dst # i
    BY <1>6, <2>1 DEF Optional
  <2>4. \A j \in Live(nodes') : j \in Live(nodes) /\ j \in 1..MaxNodes /\ nodes'[j] = nodes[j]
    BY <1>6, <2>2 DEF Live
  <2>5. \A x \in Live(edges') : /\ x \in Live(edges) /\ x \in 1..MaxEdges /\ edges'[x] = edges[x]
                                /\ edges[x].src # i /\ edges[x].dst # i
    BY <1>6, <2>3 DEF Live
  <2>6. Typed'
    BY <1>1, <1>2, <1>4, <2>1, <2>2, <2>3 DEF Typed, NodeTable, EdgeTable
  <2>7. Fresh'
    BY <1>1, <2>1, <2>4, <2>5 DEF Fresh
  <2>8. StillSo'
    BY <1>1, <2>4, <2>5 DEF StillSo
  <2>9. UniqueKeys(nodes)' /\ VectorsFrom(nodes)'
    BY <2>4 DEF UniqueKeys, VectorsFrom
  <2>10. LiveEnds'
    BY <1>5, <2>2, <2>5 DEF LiveEnds
  <2> QED
    BY <1>3, <2>6, <2>7, <2>8, <2>9, <2>10
<1> QED
  BY <1>7, <1>8, <1>9 DEF Others

LEMMA InvInductive == Inv /\ [Next]_vars => Inv'
<1> SUFFICES ASSUME Inv, [Next]_vars
             PROVE  Inv'
  OBVIOUS
<1>1. CASE UNCHANGED vars
  BY <1>1 DEF vars, Inv, Typed, Fresh, StillSo, UniqueKeys, LiveEnds, VectorsFrom, Undisturbed
<1>2. CASE Next
  BY <1>2, ApplyKeeps, FoldKeeps, EmbedKeeps, OthersKeep DEF Next
<1> QED
  BY <1>1, <1>2

LEMMA Invariance == Spec => []Inv
  BY InitInv, InvInductive, PTL DEF Spec

(* A key names one node and a live edge has live ends, whatever a fold does  *)
(* on the snapshots that it took before its transaction opened.              *)
THEOREM PlaneWellFormed == Spec => []WellFormed
<1>1. Inv => WellFormed
  <2> SUFFICES ASSUME Inv
               PROVE  WellFormed
    OBVIOUS
  <2>1. ASSUME NEW k \in Keys
        PROVE  Cardinality(Holders(nodes, k)) <= 1
    <3>1. CASE Holders(nodes, k) = {}
      BY <3>1, FS_EmptySet
    <3>2. CASE Holders(nodes, k) # {}
      <4>1. PICK i \in Holders(nodes, k) : TRUE
        BY <3>2
      <4>2. Holders(nodes, k) = {i}
        BY <4>1 DEF Inv, UniqueKeys, Holders
      <4> QED
        BY <4>2, FS_Singleton
    <3> QED
      BY <3>1, <3>2
  <2> QED
    BY <2>1 DEF WellFormed, Inv, LiveEnds
<1> QED
  BY <1>1, Invariance, PTL

(* A node that the embedder will skip has a vector of its present text: the  *)
(* text that a vector was made of is recorded with it, and a fold that       *)
(* changes or carries over a node keeps the two together.                    *)
THEOREM SkippedNodesCurrent == Spec => []SkippedAreCurrent
<1>1. Inv => SkippedAreCurrent
  BY DEF Inv, VectorsFrom, SkippedAreCurrent, Current
<1> QED
  BY <1>1, Invariance, PTL

-------------------------------------------------------------------------------
(* What a fold leaves standing.                                              *)

(* A tree that asserts an edge asserts the node it starts from.  The fold    *)
(* does not check it of a parser, and without it an edge that is asserted    *)
(* of a key whose node is deleted may be neither loaded nor reattached.      *)
SourcesAsserted ==
    \A f \in Trees, t \in Triples : f.edge[t] # None => f.node[t[1]] # None

(* A node that no parser owns neither goes nor is patched.                   *)
LEMMA UnownedStay ==
  ASSUME Inv, NEW i \in Live(nodes), ~ nodes[i].parser
  PROVE  Stays(i) /\ i \notin Patching /\ i \notin Owned(fold.nodes)
<1>1. i \notin Owned(fold.nodes)
  BY GoingIs DEF Inv, StillSo
<1> QED
  BY <1>1, GoingIs DEF Inv, Stays

(* The edge that a new edge becomes.                                         *)
LEMMA NewEdgeStands ==
  ASSUME Inv, HasRoom, ~ Refused, NEW i \in 1..Len(NewEdges), NewEdges[i] \in Edge
  PROVE  \E y \in Live(FoldedEdges) : FoldedEdges[y] = NewEdges[i]
<1>1. /\ nextEdge + i - 1 \in 1..MaxEdges
      /\ FoldedEdges[nextEdge + i - 1] = NewEdges[i]
      /\ DOMAIN FoldedEdges = 1..MaxEdges
  BY FoldedEdgesAre DEF Inv
<1>2. NewEdges[i] # None
  BY FoldAssumption
<1>3. nextEdge + i - 1 \in Live(FoldedEdges)
  BY <1>1, <1>2 DEF Live
<1> QED
  BY <1>1, <1>3

LEMMA LoadedStands ==
  ASSUME Inv, HasRoom, ~ Refused, NEW t \in Loadable
  PROVE  \E y \in Live(FoldedEdges) : FoldedEdges[y] = LoadedEdge(t)
<1>1. LoadedEdge(t) \in Loads
  BY DEF Loads
<1>2. PICK i \in 1..Len(NewEdges) : NewEdges[i] = LoadedEdge(t)
  <2> DEFINE m == Cardinality(Loads)
  <2>1. /\ m \in Nat /\ Len(NewEdges) \in Nat /\ m <= Len(NewEdges)
        /\ \A e \in Loads : \E i \in 1..m : NewEdges[i] = e
    BY NewEdgesAre DEF Inv
  <2> HIDE DEF m
  <2>2. \A i \in 1..m : i \in 1..Len(NewEdges)
    BY <2>1
  <2> QED
    BY <1>1, <2>1, <2>2
<1> QED
  BY <1>2, LoadedIs, NewEdgeStands

LEMMA AgainStands ==
  ASSUME Inv, HasRoom, ~ Refused, NEW x \in Reattached
  PROVE  \E y \in Live(FoldedEdges) : FoldedEdges[y] = Again(x)
<1>1. PICK i \in 1..Len(NewEdges) : NewEdges[i] = Again(x)
  BY NewEdgesAre DEF Inv
<1> QED
  BY <1>1, AgainIs, NewEdgeStands

(* A link from a node that no parser owns, to one whose key remains.         *)
LEMMA LinkStands ==
  ASSUME Inv, HasRoom, ~ Refused, SourcesAsserted,
         NEW x \in Live(edges) \cap Live(fold.edges),
         ~ nodes[edges[x].src].parser,
         nodes[edges[x].dst].parser => fold.facts.node[nodes[edges[x].dst].key] # None
  PROVE  \E y \in Live(FoldedEdges) :
            /\ FoldedEdges[y].src = edges[x].src /\ FoldedEdges[y].ty = edges[x].ty
            /\ FoldedNodes[FoldedEdges[y].dst].key = nodes[edges[x].dst].key
<1> USE DEF Inv
<1> DEFINE s == edges[x].src
           d == edges[x].dst
           k == nodes[d].key
<1>1. /\ edges[x] = fold.edges[x] /\ edges[x] \in Edge /\ x \in 1..MaxEdges
      /\ s \in Live(nodes) /\ d \in Live(nodes)
  BY LiveEdgeIn DEF StillSo, LiveEnds, Typed, Live, Edge, NodeTable
<1>2. Stays(s) /\ s \notin Owned(fold.nodes) /\ s \notin Going
  BY <1>1, UnownedStay DEF Stays
<1>3. CASE d \notin Going
  <2>1. x \notin EdgeDeletes(fold.facts, fold.nodes, fold.edges)
    BY <1>1, <1>2 DEF EdgeDeletes, Standing
  <2>2. EdgeStays(x) /\ Stays(d)
    BY <1>1, <1>2, <1>3, <2>1 DEF EdgeStays, Stays
  <2>3. FoldedEdges[x] = edges[x] /\ DOMAIN FoldedEdges = 1..MaxEdges
    BY <1>1, <2>2, FoldedEdgesAre
  <2>4. x \in Live(FoldedEdges)
    BY <1>1, <2>3 DEF Live
  <2>5. FoldedNodes[d].key = nodes[d].key
    BY <2>2, StaysSo
  <2> QED
    BY <2>3, <2>4, <2>5
<1>4. CASE d \in Going
  <2>1. d \in Owned(fold.nodes) /\ d \in Live(fold.nodes) /\ fold.nodes[d].parser
    BY <1>4, GoingIs
  <2>2. nodes[d].parser /\ k = fold.nodes[d].key
    BY <1>1, <2>1 DEF StillSo
  <2>3. d \in Replaced(fold.facts, fold.nodes)
    BY <1>4, <2>2 DEF Going, Gone, Deleted
  <2>4. x \in Saved(fold.facts, fold.nodes, fold.edges)
    BY <1>1, <1>2, <2>3 DEF Saved
  <2>5. k \in Creating
    BY <2>2, <2>3, ReplacedAreCreated
  <2>6. CASE x \in Reattached
    <3>1. PICK y \in Live(FoldedEdges) : FoldedEdges[y] = Again(x)
      BY <2>6, AgainStands
    <3>2. Again(x).src = s /\ Again(x).ty = edges[x].ty /\ Again(x).dst = NewId(k)
      BY <1>1, <2>2, <2>6, AgainIs
    <3> HIDE DEF k
    <3>3. FoldedNodes[NewId(k)] = Created(k)
      BY <2>5, FoldedNodesAre
    <3>4. Created(k).key = k
      BY <2>5, CreatedIn
    <3> QED
      BY <3>1, <3>2, <3>3, <3>4 DEF k
  <2>7. CASE x \notin Reattached
    <3>1. PICK t \in EdgeCreates(fold.facts, fold.nodes, fold.edges) :
              t[2] = edges[x].ty /\ t[3] = k /\ s \in Holders(nodes, t[1])
      BY <1>1, <2>2, <2>4, <2>7 DEF Reattached
    <3>2. t \in Triples /\ fold.facts.edge[t] # None
      BY DEF EdgeCreates
    <3>3. fold.facts.node[t[1]] # None
      BY <3>2 DEF SourcesAsserted, Typed, NoFacts
    <3>4. t[1] \notin {fold.nodes[i].key : i \in Deleted(fold.facts, fold.nodes)}
      BY <3>3 DEF Deleted
    <3>5. Resolves(t[1]) /\ Resolves(t[3])
      BY <2>5, <3>1, <3>4 DEF Resolves, Creating
    <3>6. t \in Loadable
      BY <3>5 DEF Loadable
    <3>7. t[1] \notin Creating
      BY <1>2, <3>1 DEF Refused, Creating, Going
    <3>8. IdOf(t[1]) \in Holders(nodes, t[1])
      BY <3>5, <3>7, IdOfIs
    <3>9. IdOf(t[1]) = s
      BY <3>1, <3>8 DEF Holders, UniqueKeys
    <3>10. PICK y \in Live(FoldedEdges) : FoldedEdges[y] = LoadedEdge(t)
      BY <3>6, LoadedStands
    <3>11. LoadedEdge(t).src = s /\ LoadedEdge(t).ty = edges[x].ty
      BY <3>1, <3>9 DEF LoadedEdge
    <3>12. FoldedNodes[LoadedEdge(t).dst].key = t[3]
      BY <3>6, LoadedIs
    <3> QED
      BY <3>1, <3>10, <3>11, <3>12
  <2> QED
    BY <2>6, <2>7
<1> QED
  BY <1>3, <1>4

(* A vector: it stays with its node, or is carried over with what was read.  *)
LEMMA VectorStands ==
  ASSUME Inv, HasRoom, ~ Refused, NEW i \in Live(nodes) \cap Live(fold.nodes),
         fold.facts.node[nodes[i].key] # None
  PROVE  \E j \in Live(FoldedNodes) : /\ FoldedNodes[j].key = nodes[i].key
                                      /\ FoldedNodes[j].vec \in {nodes[i].vec, fold.nodes[i].vec}
<1> USE DEF Inv
<1>1. CASE i \notin Going
  BY <1>1, StaysSo DEF Stays
<1>2. CASE i \in Going
  <2> DEFINE k == nodes[i].key
  <2>1. k = fold.nodes[i].key
    BY DEF StillSo
  <2>2. i \in Replaced(fold.facts, fold.nodes)
    BY <1>2, <2>1 DEF Going, Gone, Deleted
  <2>3. k \in Creating /\ Holders(fold.nodes, k) = {i}
    BY <2>1, <2>2, ReplacedAreCreated
  <2> HIDE DEF k
  <2>4. FoldedNodes[NewId(k)] = Created(k) /\ NewId(k) \in 1..MaxNodes
    BY <2>3, FoldedNodesAre, NewIds
  <2>5. Created(k).key = k /\ Created(k) # None
    BY <2>3, CreatedIn
  <2>6. Created(k).vec = fold.nodes[i].vec
    <3>1. (CHOOSE j \in Holders(fold.nodes, k) : TRUE) = i
      BY <2>3
    <3> QED
      BY <2>3, <3>1 DEF Created
  <2>7. NewId(k) \in Live(FoldedNodes)
    BY <2>4, <2>5 DEF Live, FoldedNodes
  <2> QED
    BY <2>4, <2>5, <2>6, <2>7 DEF k
<1> QED
  BY <1>1, <1>2

(* A fold leaves the nodes of others, their links and every vector standing, *)
(* though it deletes and makes again the nodes that come back with other     *)
(* labels, and decides on snapshots that others have since written over.     *)
THEOREM FoldLeavesStanding ==
  ASSUME SourcesAsserted
  PROVE  Spec => LeftStanding
<1>1. Inv /\ [Next]_vars => [LeavesStanding]_vars
  <2> SUFFICES ASSUME Inv, Next, fold.pc = "edges", fold'.pc = "done"
               PROVE  LeavesStanding
    BY DEF LeavesStanding
  <2>1. Apply
    <3>1. ASSUME NEW f \in Trees, Route(f)
          PROVE  FALSE
      BY <3>1 DEF Route
    <3>2. ~ ReadNodes /\ ~ ReadEdges /\ ~ Return
      BY DEF ReadNodes, ReadEdges, Return
    <3>3. ~ ApplyFails
      BY DEF ApplyFails, Inv, Typed
    <3>4. ~ Scan /\ ~ EmbedBatch /\ ~ EmbedFails /\ ~ Others
      BY DEF Scan, EmbedBatch, EmbedFails, Others
    <3> QED
      BY <3>1, <3>2, <3>3, <3>4 DEF Next
  <2>2. ~ Refused /\ HasRoom /\ nodes' = FoldedNodes /\ edges' = FoldedEdges
    BY <2>1 DEF Apply
  <2>3. ASSUME NEW i \in Live(nodes), ~ nodes[i].parser
        PROVE  nodes'[i] = nodes[i]
    BY <2>2, <2>3, UnownedStay, StaysSo DEF Inv
  <2> QED
    BY <2>2, <2>3, LinkStands, VectorStands DEF LeavesStanding
<1> QED
  BY <1>1, Invariance, PTL DEF Spec, LeftStanding

-------------------------------------------------------------------------------
(* Convergence: a fold that nobody disturbed applies to what it has read.    *)

LEMMA OneAtMost ==
  ASSUME NEW S, IsFiniteSet(S)
  PROVE  Cardinality(S) <= 1 <=> \A x, y \in S : x = y
<1>1. Cardinality(S) <= 1 => \A x, y \in S : x = y
  <2> SUFFICES ASSUME Cardinality(S) <= 1, NEW x \in S, NEW y \in S
               PROVE  x = y
    OBVIOUS
  <2>1. /\ Cardinality(S) \in Nat
        /\ \A z \in S : \E i \in 1..Cardinality(S) : SetToSeq(S)[i] = z
    BY SeqOfSet
  <2>2. \A i \in 1..Cardinality(S) : i = 1
    BY <2>1
  <2> QED
    BY <2>1, <2>2
<1>2. ASSUME \A x, y \in S : x = y
      PROVE  Cardinality(S) <= 1
  <2>1. CASE S = {}
    BY <2>1, FS_EmptySet
  <2>2. CASE S # {}
    <3>1. PICK x \in S : TRUE
      BY <2>2
    <3>2. S = {x}
      BY <1>2, <3>1
    <3> QED
      BY <3>2, FS_Singleton
  <2> QED
    BY <2>1, <2>2
<1> QED
  BY <1>1, <1>2

(* The parser's nodes after a fold are the facts.                            *)
LEMMA FoldedNodesConverge ==
  ASSUME Inv, HasRoom, ~ Refused, nodes = fold.nodes
  PROVE  /\ \A i \in Owned(FoldedNodes) :
               fold.facts.node[FoldedNodes[i].key] =
                  [label |-> FoldedNodes[i].label, content |-> FoldedNodes[i].content]
         /\ \A k \in Keys : fold.facts.node[k] # None => Holders(FoldedNodes, k) # {}
<1> USE DEF Inv
<1>1. ASSUME NEW i \in Owned(FoldedNodes)
      PROVE  fold.facts.node[FoldedNodes[i].key] =
                [label |-> FoldedNodes[i].label, content |-> FoldedNodes[i].content]
  <2> DEFINE k == FoldedNodes[i].key
  <2>1. i \in Live(FoldedNodes) /\ FoldedNodes[i].parser
    BY DEF Owned
  <2>2. CASE Stays(i)
    <3>1. i \in Owned(fold.nodes) /\ k = fold.nodes[i].key
      BY <2>1, <2>2, StaysSo DEF Owned, Stays
    <3>2. fold.facts.node[k] # None /\ fold.facts.node[k].label = fold.nodes[i].label
      BY <2>2, <3>1 DEF Stays, Going, Gone, Deleted, Replaced
    <3>3. fold.facts.node[k].content = FoldedNodes[i].content
      <4>1. CASE i \in Patching
        BY <2>2, <4>1, StaysSo
      <4>2. CASE i \notin Patching
        <5>1. FoldedNodes[i].content = fold.nodes[i].content
          BY <2>2, <4>2, StaysSo
        <5> QED
          BY <2>2, <3>1, <4>2, <5>1 DEF Patching, Patched, Stays, Going, Gone
      <4> QED
        BY <4>1, <4>2
    <3>4. FoldedNodes[i].label = fold.nodes[i].label
      BY <2>2, StaysSo
    <3>5. fold.facts.node[k] \in Fact
      <4>1. k \in Keys
        BY <3>1, GoingIs, LiveIn DEF Typed, Node
      <4>2. fold.facts.node \in [Keys -> Optional(Fact)]
        BY DEF Typed, Facts
      <4> QED
        BY <3>2, <4>1, <4>2 DEF Optional
    <3> HIDE DEF k
    <3> QED
      BY <3>2, <3>3, <3>4, <3>5 DEF Fact, k
  <2>3. CASE ~ Stays(i)
    <3>1. k \in Creating /\ FoldedNodes[i] = Created(k)
      BY <2>1, <2>3, FoldedNodeIs
    <3>2. fold.facts.node[k] \in Fact
      BY <3>1, CreatingIs
    <3>3. /\ Created(k).label = fold.facts.node[k].label
          /\ Created(k).content = fold.facts.node[k].content
      BY <3>1, CreatedIn
    <3> HIDE DEF k
    <3> QED
      BY <3>1, <3>2, <3>3 DEF Fact, k
  <2> QED
    BY <2>2, <2>3
<1>2. ASSUME NEW k \in Keys, fold.facts.node[k] # None
      PROVE  Holders(FoldedNodes, k) # {}
  <2>1. CASE k \in Creating
    <3>1. IdOf(k) \in Live(FoldedNodes) /\ FoldedNodes[IdOf(k)].key = k
      BY <2>1, IdOfIs DEF Resolves, Creating
    <3> QED
      BY <3>1 DEF Holders
  <2>2. CASE k \notin Creating
    <3>1. PICK i \in Holders(fold.nodes, k) : i \notin Replaced(fold.facts, fold.nodes)
      BY <1>2, <2>2 DEF Creating, Creates
    <3>2. i \in Live(fold.nodes) /\ fold.nodes[i].key = k
      BY DEF Holders
    <3>3. Stays(i)
      BY <1>2, <3>1, <3>2 DEF Stays, Going, Gone, Deleted
    <3>4. i \in Live(FoldedNodes) /\ FoldedNodes[i].key = k
      BY <3>2, <3>3, StaysSo
    <3> QED
      BY <3>4 DEF Holders
  <2> QED
    BY <2>1, <2>2
<1> QED
  BY <1>1, <1>2

(* The edges of a triple between the parser's nodes, after a fold.           *)
After(t) ==
    {x \in Live(FoldedEdges) :
        /\ FoldedEdges[x].src \in Owned(FoldedNodes) /\ FoldedEdges[x].dst \in Owned(FoldedNodes)
        /\ TripleOf(FoldedNodes, FoldedEdges[x]) = t}

(* And as they were read.                                                    *)
Before(t) == {x \in Live(fold.edges) : TripleOf(fold.nodes, fold.edges[x]) = t}

LEMMA BeforeFinite ==
  ASSUME Typed, NEW t
  PROVE  IsFiniteSet(Before(t))
<1>1. Before(t) \subseteq 1..MaxEdges
  BY DEF Before, Live, Typed, EdgeTable
<1>2. IsFiniteSet(1..MaxEdges)
  BY FoldAssumption, FS_Interval
<1> QED
  BY <1>1, <1>2, FS_Subset

(* An owned node after a fold, under a key that no replaced node had: it     *)
(* stays, or nobody had its key.                                             *)
LEMMA OwnedAfter ==
  ASSUME Inv, HasRoom, ~ Refused, nodes = fold.nodes,
         NEW i \in Owned(FoldedNodes),
         \A j \in Replaced(fold.facts, fold.nodes) : fold.nodes[j].key # FoldedNodes[i].key
  PROVE  /\ Resolves(FoldedNodes[i].key)
         /\ \A j \in Live(fold.nodes) : fold.nodes[j].key = FoldedNodes[i].key => j = i /\ Stays(i)
<1> USE DEF Inv
<1> DEFINE k == FoldedNodes[i].key
<1>1. i \in Live(FoldedNodes)
  BY DEF Owned
<1>2. CASE k \in Creating
  <2>1. Holders(fold.nodes, k) = {}
    BY <1>2 DEF Creating, Creates, Holders
  <2> QED
    BY <1>2, <2>1 DEF Resolves, Creating, Holders
<1>3. CASE k \notin Creating
  <2>1. Stays(i)
    BY <1>1, <1>3, FoldedNodeIs
  <2>2. k = nodes[i].key /\ i \in Live(nodes) /\ i \notin Going
    BY <2>1, StaysSo DEF Stays
  <2>3. \A j \in Live(fold.nodes) : fold.nodes[j].key = k => j = i
    BY <2>2 DEF UniqueKeys
  <2>4. k \notin {fold.nodes[j].key : j \in Deleted(fold.facts, fold.nodes)}
    BY <2>2, <2>3 DEF Going, Gone, Deleted, Owned
  <2>5. Holders(nodes, k) # {}
    BY <2>2 DEF Holders
  <2> QED
    BY <2>1, <2>3, <2>4, <2>5 DEF Resolves
<1> QED
  BY <1>2, <1>3

(* An edge of a triple after a fold stood before it or was loaded, and has   *)
(* the content that is asserted.                                             *)
LEMMA AfterIs ==
  ASSUME Inv, HasRoom, ~ Refused, nodes = fold.nodes, edges = fold.edges,
         NEW t \in Triples, ~ Parallel(t), NEW x \in After(t)
  PROVE  /\ FoldedEdges[x].content = fold.facts.edge[t] /\ fold.facts.edge[t] # None
         /\ \/ x \in Before(t) /\ t \notin EdgeCreates(fold.facts, fold.nodes, fold.edges)
            \/ /\ t \in EdgeCreates(fold.facts, fold.nodes, fold.edges)
               /\ \E i \in 1..Cardinality(Loads) : /\ x = nextEdge + i - 1
                                                   /\ NewEdges[i] = LoadedEdge(t)
<1> USE DEF Inv
<1> DEFINE e == FoldedEdges[x]
<1>1. /\ x \in Live(FoldedEdges) /\ e.src \in Owned(FoldedNodes) /\ e.dst \in Owned(FoldedNodes)
      /\ <<FoldedNodes[e.src].key, e.ty, FoldedNodes[e.dst].key>> = t
  BY DEF After, TripleOf
<1>2. CASE EdgeStays(x)
  <2>1. x \in 1..MaxEdges /\ e = edges[x] /\ Stays(e.src) /\ Stays(e.dst) /\ x \in Live(edges)
    BY <1>2, EdgeStaysSo, FoldedEdgesAre DEF EdgeStays
  <2>2. /\ FoldedNodes[e.src].key = fold.nodes[e.src].key
        /\ FoldedNodes[e.dst].key = fold.nodes[e.dst].key
        /\ e.src \in Owned(fold.nodes) /\ e.dst \in Owned(fold.nodes)
    BY <1>1, <2>1, StaysSo DEF Owned, Stays
  <2>3. TripleOf(fold.nodes, fold.edges[x]) = t /\ x \in Before(t)
    BY <1>1, <2>1, <2>2 DEF TripleOf, Before
  <2>4. \A y \in Before(t) : y = x
    <3>1. Cardinality(Before(t)) \in Nat /\ ~ (Cardinality(Before(t)) > 1)
      BY BeforeFinite, FS_CardinalityType DEF Parallel, Before
    <3>2. Cardinality(Before(t)) <= 1
      BY <3>1
    <3> QED
      BY <2>3, <3>2, BeforeFinite, OneAtMost
  <2>5. x \in Standing(fold.nodes, fold.edges)
    <3>1. ASSUME NEW y \in Live(fold.edges),
                 fold.edges[y].src = e.src, fold.edges[y].ty = e.ty, fold.edges[y].dst = e.dst
          PROVE  y <= x
      <4>1. y \in Before(t)
        BY <1>1, <2>2, <3>1 DEF Before, TripleOf
      <4> QED
        BY <2>1, <2>4, <4>1
    <3> QED
      BY <2>1, <2>2, <3>1 DEF Standing
  <2>6. e.src \notin Going /\ e.dst \notin Going
    BY <2>1 DEF Stays
  <2>7. x \notin EdgeDeletes(fold.facts, fold.nodes, fold.edges)
    BY <1>2 DEF EdgeStays
  <2>8. fold.facts.edge[t] # None /\ fold.facts.edge[t] = e.content
    BY <2>1, <2>3, <2>5, <2>6, <2>7 DEF EdgeDeletes, Going
  <2>9. t \notin EdgeCreates(fold.facts, fold.nodes, fold.edges)
    BY <2>1, <2>3, <2>5, <2>8 DEF EdgeCreates
  <2> QED
    BY <2>3, <2>8, <2>9
<1>3. CASE ~ EdgeStays(x)
  <2>1. PICK i \in 1..Len(NewEdges) : x = nextEdge + i - 1 /\ e = NewEdges[i]
    BY <1>1, <1>3, FoldedEdgesAre
  <2> DEFINE m == Cardinality(Loads)
  <2>2. /\ m \in Nat /\ Len(NewEdges) \in Nat
        /\ \A j \in 1..m : NewEdges[j] \in Loads
        /\ \A j \in (m + 1)..Len(NewEdges) : \E y \in Reattached : NewEdges[j] = Again(y)
    BY NewEdgesAre
  <2>3. i \in 1..m
    <3> HIDE DEF m
    <3> SUFFICES ASSUME i \notin 1..m
                 PROVE  FALSE
      OBVIOUS
    <3>1. i \in (m + 1)..Len(NewEdges)
      BY <2>2
    <3>2. PICK y \in Reattached : e = Again(y)
      BY <2>1, <2>2, <3>1
    <3>3. Stays(e.src) /\ e.src \notin Owned(fold.nodes)
      BY <3>2, AgainIs
    <3>4. FoldedNodes[e.src].parser = fold.nodes[e.src].parser /\ e.src \in Live(fold.nodes)
      BY <3>3, StaysSo DEF Stays
    <3> QED
      BY <1>1, <3>3, <3>4 DEF Owned
  <2>4. PICK u \in Loadable : e = LoadedEdge(u)
    BY <2>1, <2>2, <2>3 DEF Loads
  <2>5. u \in Triples /\ u \in EdgeCreates(fold.facts, fold.nodes, fold.edges)
    BY DEF Loadable, EdgeCreates
  <2>6. u = <<u[1], u[2], u[3]>>
    BY <2>5 DEF Triples
  <2>7. u = t
    <3>1. FoldedNodes[e.src].key = u[1] /\ FoldedNodes[e.dst].key = u[3] /\ e.ty = u[2]
      BY <2>4, LoadedIs DEF LoadedEdge
    <3> QED
      BY <1>1, <2>6, <3>1
  <2>8. e.content = fold.facts.edge[t] /\ fold.facts.edge[t] # None
    BY <2>4, <2>5, <2>7 DEF LoadedEdge, EdgeCreates
  <2> QED
    BY <2>1, <2>3, <2>4, <2>5, <2>7, <2>8
<1> QED
  BY <1>2, <1>3

(* What is asserted between the parser's nodes is there.                     *)
LEMMA AssertedIsThere ==
  ASSUME Inv, HasRoom, ~ Refused, nodes = fold.nodes, edges = fold.edges,
         NEW t \in Triples, ~ Reborn(t), fold.facts.edge[t] # None,
         NEW i \in Owned(FoldedNodes), FoldedNodes[i].key = t[1],
         NEW j \in Owned(FoldedNodes), FoldedNodes[j].key = t[3],
         UniqueKeys(FoldedNodes)
  PROVE  \E x \in After(t) : FoldedEdges[x].content = fold.facts.edge[t]
<1> USE DEF Inv
<1>1. /\ \A r \in Replaced(fold.facts, fold.nodes) :
            fold.nodes[r].key # t[1] /\ fold.nodes[r].key # t[3]
      /\ t = <<t[1], t[2], t[3]>>
  BY DEF Reborn, Triples
<1>2. /\ Resolves(t[1])
      /\ \A r \in Live(fold.nodes) : fold.nodes[r].key = t[1] => r = i /\ Stays(i)
  BY <1>1, OwnedAfter
<1>3. /\ Resolves(t[3])
      /\ \A r \in Live(fold.nodes) : fold.nodes[r].key = t[3] => r = j /\ Stays(j)
  BY <1>1, OwnedAfter
<1>4. CASE t \in EdgeCreates(fold.facts, fold.nodes, fold.edges)
  <2>1. t \in Loadable
    BY <1>2, <1>3, <1>4 DEF Loadable
  <2>2. PICK x \in Live(FoldedEdges) : FoldedEdges[x] = LoadedEdge(t)
    BY <2>1, LoadedStands
  <2> DEFINE e == LoadedEdge(t)
  <2>3. /\ e.src \in Live(FoldedNodes) /\ e.dst \in Live(FoldedNodes)
        /\ FoldedNodes[e.src].key = t[1] /\ FoldedNodes[e.dst].key = t[3]
        /\ e.ty = t[2] /\ e.content = fold.facts.edge[t]
    BY <2>1, LoadedIs DEF LoadedEdge
  <2> HIDE DEF e
  <2>4. i \in Live(FoldedNodes) /\ j \in Live(FoldedNodes)
    BY DEF Owned
  <2>5. e.src = i /\ e.dst = j
    BY <2>3, <2>4 DEF UniqueKeys
  <2>6. x \in After(t)
    BY <1>1, <2>2, <2>3, <2>5 DEF After, TripleOf, e
  <2> QED
    BY <2>2, <2>3, <2>6 DEF e
<1>5. CASE t \notin EdgeCreates(fold.facts, fold.nodes, fold.edges)
  <2>1. PICK x \in Standing(fold.nodes, fold.edges) :
            TripleOf(fold.nodes, fold.edges[x]) = t /\ fold.edges[x].content = fold.facts.edge[t]
    BY <1>5 DEF EdgeCreates
  <2> DEFINE e == edges[x]
  <2>2. /\ x \in Live(edges) /\ e.src \in Owned(fold.nodes) /\ e.dst \in Owned(fold.nodes)
        /\ <<fold.nodes[e.src].key, e.ty, fold.nodes[e.dst].key>> = t
    BY <2>1 DEF Standing, TripleOf
  <2>3. /\ fold.nodes[e.src].key = t[1] /\ fold.nodes[e.dst].key = t[3]
        /\ e.src \in Live(fold.nodes) /\ e.dst \in Live(fold.nodes)
    BY <1>1, <2>2 DEF Owned
  <2>4. e.src = i /\ e.dst = j /\ Stays(i) /\ Stays(j)
    BY <1>2, <1>3, <2>3
  <2>5. x \notin EdgeDeletes(fold.facts, fold.nodes, fold.edges)
    BY <2>1 DEF EdgeDeletes
  <2>6. EdgeStays(x)
    BY <2>2, <2>4, <2>5 DEF EdgeStays, Stays
  <2>7. FoldedEdges[x] = e /\ DOMAIN FoldedEdges = 1..MaxEdges /\ x \in 1..MaxEdges
    BY <2>6, FoldedEdgesAre, EdgeStaysSo
  <2>8. x \in Live(FoldedEdges)
    BY <2>2, <2>7 DEF Live
  <2>9. TripleOf(FoldedNodes, FoldedEdges[x]) = t
    BY <1>1, <2>2, <2>4, <2>7 DEF TripleOf
  <2>10. x \in After(t)
    BY <2>4, <2>7, <2>8, <2>9 DEF After
  <2> QED
    BY <2>1, <2>7, <2>10
<1> QED
  BY <1>4, <1>5

LEMMA EdgesConverge ==
  ASSUME Inv, HasRoom, ~ Refused, nodes = fold.nodes, edges = fold.edges,
         UniqueKeys(FoldedNodes), NEW t \in Triples, ~ Parallel(t), ~ Reborn(t),
         \A k \in {t[1], t[3]} : \E i \in Owned(FoldedNodes) : FoldedNodes[i].key = k
  PROVE  /\ Cardinality(After(t)) <= 1
         /\ {FoldedEdges[x].content : x \in After(t)} = {fold.facts.edge[t]} \ {None}
<1> USE DEF Inv
<1>1. ASSUME NEW x \in After(t), NEW y \in After(t)
      PROVE  x = y
  <2>1. CASE t \in EdgeCreates(fold.facts, fold.nodes, fold.edges)
    <3>1. PICK i \in 1..Cardinality(Loads) : x = nextEdge + i - 1 /\ NewEdges[i] = LoadedEdge(t)
      BY <2>1, AfterIs
    <3>2. PICK j \in 1..Cardinality(Loads) : y = nextEdge + j - 1 /\ NewEdges[j] = LoadedEdge(t)
      BY <2>1, AfterIs
    <3>3. i = j
      BY <3>1, <3>2, NewEdgesAre
    <3> QED
      BY <3>1, <3>2, <3>3
  <2>2. CASE t \notin EdgeCreates(fold.facts, fold.nodes, fold.edges)
    <3>1. x \in Before(t) /\ y \in Before(t)
      BY <2>2, AfterIs
    <3>2. Cardinality(Before(t)) \in Nat /\ ~ (Cardinality(Before(t)) > 1)
      BY BeforeFinite, FS_CardinalityType DEF Parallel, Before
    <3>3. Cardinality(Before(t)) <= 1
      BY <3>2
    <3> QED
      BY <3>1, <3>3, BeforeFinite, OneAtMost
  <2> QED
    BY <2>1, <2>2
<1>2. IsFiniteSet(After(t))
  <2>1. After(t) \subseteq 1..MaxEdges
    BY FoldedEdgesAre DEF After, Live
  <2>2. IsFiniteSet(1..MaxEdges)
    BY FoldAssumption, FS_Interval
  <2> QED
    BY <2>1, <2>2, FS_Subset
<1>3. Cardinality(After(t)) <= 1
  BY <1>1, <1>2, OneAtMost
<1>4. \A x \in After(t) : FoldedEdges[x].content = fold.facts.edge[t] /\ fold.facts.edge[t] # None
  BY AfterIs
<1>5. fold.facts.edge[t] # None => \E x \in After(t) : FoldedEdges[x].content = fold.facts.edge[t]
  BY AssertedIsThere
<1> QED
  BY <1>3, <1>4, <1>5

LEMMA ApplyConverges ==
  ASSUME Inv, Apply
  PROVE  Converges'
<1> SUFFICES ASSUME ~ meddled'
             PROVE  NodesConverged' /\ \A t \in Triples : (~ Parallel(t) /\ ~ Reborn(t) => Converged(t))'
  BY DEF Converges, Finished
<1>1. /\ ~ Refused /\ HasRoom /\ fold.pc = "edges"
      /\ nodes' = FoldedNodes /\ edges' = FoldedEdges
      /\ fold' = [fold EXCEPT !.pc = "done"]
      /\ ~ meddled
  BY DEF Apply
<1>2. fold'.facts = fold.facts /\ fold'.nodes = fold.nodes /\ fold'.edges = fold.edges
  BY <1>1 DEF Inv, Typed
<1>3. nodes = fold.nodes /\ edges = fold.edges
  BY <1>1 DEF Inv, Undisturbed
<1>4. UniqueKeys(FoldedNodes)
  <2>1. UniqueKeys(nodes)'
    BY ApplyKeeps DEF Inv
  <2> QED
    BY <1>1, <2>1 DEF UniqueKeys
<1>5. NodesConverged'
  BY <1>1, <1>2, <1>3, FoldedNodesConverge DEF NodesConverged
<1>6. ASSUME NEW t \in Triples, (~ Parallel(t) /\ ~ Reborn(t))'
      PROVE  Converged(t)'
  <2>1. ~ Parallel(t) /\ ~ Reborn(t)
    BY <1>2, <1>6 DEF Parallel, Reborn
  <2>2. Between(t)' = After(t)
    BY <1>1 DEF Between, After
  <2> QED
    BY <1>1, <1>2, <1>3, <1>4, <2>1, <2>2, EdgesConverge DEF Converged
<1> QED
  BY <1>5, <1>6

(* A fold that nobody disturbed leaves the parser's nodes and edges as its   *)
(* facts say, each once: what it skips because it stands, what it loads and  *)
(* what it deletes complement each other.                                    *)
THEOREM FoldsConverge == Spec => []Converges
<1>1. Init => Converges
  BY DEF Init, NoFold, Converges, Finished
<1>2. Inv /\ Converges /\ [Next]_vars => Converges'
  <2> SUFFICES ASSUME Inv, Converges, [Next]_vars, fold'.pc = "done", ~ meddled'
               PROVE  Converges'
    BY DEF Converges, Finished
  <2>1. CASE Apply
    BY <2>1, ApplyConverges
  <2>2. ASSUME NEW f \in Trees, Route(f)
        PROVE  FALSE
    BY <2>2 DEF Route, Inv, Typed
  <2>3. CASE ReadNodes \/ ReadEdges \/ ApplyFails \/ Return
    <3>1. fold'.pc # "done"
      <4>1. fold' \in {[fold EXCEPT !.pc = "nodes", !.nodes = nodes],
                       [fold EXCEPT !.pc = "edges", !.edges = edges],
                       [fold EXCEPT !.pc = "failed"], NoFold}
        BY <2>3, Zenon DEF ReadNodes, ReadEdges, ApplyFails, Return
      <4>2. NoFold.pc = "idle"
        BY DEF NoFold
      <4>3. DOMAIN fold = {"pc", "facts", "nodes", "edges"}
        BY DEF Inv, Typed
      <4> QED
        BY <4>1, <4>2, <4>3
    <3> QED
      BY <3>1
  <2>4. CASE EmbedBatch \/ Others
    BY <2>4 DEF EmbedBatch, Others
  <2>5. CASE Scan \/ EmbedFails \/ UNCHANGED vars
    <3>1. UNCHANGED <<nodes, edges, fold, meddled>>
      BY <2>5 DEF Scan, EmbedFails, vars
    <3>2. (Finished' <=> Finished) /\ (NodesConverged' <=> NodesConverged)
      BY <3>1 DEF Finished, NodesConverged
    <3>3. ASSUME NEW t \in Triples
          PROVE  /\ (Converged(t)' <=> Converged(t))
                 /\ (Parallel(t)' <=> Parallel(t)) /\ (Reborn(t)' <=> Reborn(t))
      BY <3>1 DEF Converged, Between, Parallel, Reborn
    <3> QED
      BY <3>2, <3>3 DEF Converges
  <2> QED
    BY <2>1, <2>2, <2>3, <2>4, <2>5 DEF Next
<1> QED
  BY <1>1, <1>2, Invariance, PTL DEF Spec
===============================================================================
