----------------------------- MODULE GraphProofs ------------------------------
(****************************************************************************)
(* The graph: its tables, for any keys, labels, planes, nodes, edges and    *)
(* batches and any number of transactions; then the cache in front of them. *)
(*                                                                          *)
(* GraphStore.  A good store is one whose tables are those of its records:  *)
(* every operation of the transaction, of the planes and of restore takes a *)
(* good store to a good one, given that the ids it writes under are free.   *)
(* That needs what a transaction has in hand: batches reserved above every  *)
(* id committed and not written under yet.  It also needs the dictionary to *)
(* be a bijection below its counter, which is what a restore that sets the  *)
(* counter from another store's snapshot breaks (OwnSnapshots).             *)
(*                                                                          *)
(* GraphCache.  The shared cache never serves a query a record of another   *)
(* snapshot, for any keys, values, readers and images and any number of     *)
(* commits, in the modes that rule out the one race of the code: everything *)
(* but "racing".  From some snapshot on, a commit sequence determines what  *)
(* a reader sees.  In "fresh" that is so from the first one; in "quiet"     *)
(* from the last foreign commit, so an entry may be trusted once the cache  *)
(* has been cleared after it, and by the readers of its generation.         *)
(****************************************************************************)
EXTENDS GraphStore, GraphCache, TLAPS, FiniteSetTheorems, SequenceTheorems, WellFoundedInduction

(* Every restore is of this store's own snapshot, into a new store.          *)
OwnSnapshots == Shipped = {}

(* A dictionary: ids below next, each of one name.                           *)
DictOK(d) ==
    /\ d \in Dictionary
    /\ d.next \in 1..(MaxLabel + 1)
    /\ \A l \in Labels : d.fwd[l] # None => d.fwd[l] < d.next /\ d.rev[d.fwd[l]] = l
    /\ \A i \in LabelIds : d.rev[i] # None => i < d.next /\ d.fwd[d.rev[i]] = i

(* The tables of a store; s is a store with these.                           *)
TableNames ==
    {"nodes", "nodePlane", "labelIdx", "extKeys", "edges", "adjFwd", "adjRev", "planes",
     "planeNames", "nextNode", "nextEdge", "nextPlane", "dict", "counters", "seq"}

Shaped(s) == s = [table \in TableNames |-> s[table]]

NodeKeys == PlaneIds \X NodeIds
EdgeKeys == PlaneIds \X EdgeIds

(* The node records and what mirrors them; a label id in use has a name.     *)
NodesOK(s) ==
    /\ s.nodes \in [NodeKeys -> Optional(NodeRow)]
    /\ s.nodePlane \in [NodeIds -> Optional(PlaneIds)]
    /\ s.extKeys \in [PlaneIds \X Keys -> Optional(NodeIds)]
    /\ s.nextNode \in Nat \ {0}
    /\ NodeTablesMirror(s)
    /\ \A k \in NodeKeys : s.nodes[k] # None => k[2] < s.nextNode
    /\ DictOK(s.dict)
    /\ \A k \in NodeKeys : s.nodes[k] # None =>
          \A i \in DOMAIN s.nodes[k].labels : s.dict.rev[s.nodes[k].labels[i]] # None

EdgesOK(s) ==
    /\ s.edges \in [EdgeKeys -> Optional(EdgeRow)]
    /\ s.nextEdge \in Nat \ {0}
    /\ AdjacencyMirrors(s)
    /\ \A k \in EdgeKeys : s.edges[k] # None => k[2] < s.nextEdge

PlanesOK(s) ==
    /\ s.planes \in [PlaneIds -> Optional(Names)]
    /\ s.planeNames \in [Names -> Optional(PlaneIds)]
    /\ s.nextPlane \in Nat \ {0}
    /\ \A p \in PlaneIds, n \in Names : s.planeNames[n] = p <=> s.planes[p] = n
    /\ \A p \in PlaneIds : s.planes[p] # None => p < s.nextPlane
    /\ s.planes[Startup] = StartupName

Good(s) == Shaped(s) /\ NodesOK(s) /\ EdgesOK(s) /\ PlanesOK(s)

Batch == [next : Nat, left : Nat]
InBatch(id, batch) == batch.next <= id /\ id < batch.next + batch.left

(* A batch in hand was reserved by this transaction and below the counter.   *)
Reserved(batch, before, counter) ==
    /\ batch \in Batch
    /\ batch.left > 0 => before <= batch.next /\ batch.next + batch.left <= counter

(* The ids that the transaction has used are its own.                        *)
Own(old, new, before, batch) ==
    \A k \in DOMAIN new : new[k] # None =>
        ~ InBatch(k[2], batch) /\ (old[k] = None => k[2] >= before)

TxnOK ==
    /\ ids = [node |-> ids.node, edge |-> ids.edge]
    /\ db.nextNode <= tx.nextNode /\ db.nextEdge <= tx.nextEdge
    /\ Reserved(ids.node, db.nextNode, tx.nextNode)
    /\ Reserved(ids.edge, db.nextEdge, tx.nextEdge)
    /\ Own(db.nodes, tx.nodes, db.nextNode, ids.node)
    /\ Own(db.edges, tx.edges, db.nextEdge, ids.edge)

Inv ==
    /\ Good(db) /\ Good(tx)
    /\ plane \in Optional(PlaneIds)
    /\ plane = None => tx = db /\ ids = Closed
    /\ TxnOK

-------------------------------------------------------------------------------
(* Sequences.                                                                *)

LEMMA LeastExists ==
  ASSUME NEW S \in SUBSET Nat, S # {}
  PROVE  \E x \in S : \A y \in S : x <= y
<1>1. PICK x \in S : \A y \in S : ~ (<<y, x>> \in OpToRel(<, Nat))
  BY NatLessThanWellFounded, WFMin
<1>2. ASSUME NEW y \in S
      PROVE  x <= y
  <2>1. ~ (<<y, x>> \in OpToRel(<, Nat))
    BY <1>1
  <2>2. ~ (y < x)
    BY <2>1 DEF OpToRel
  <2> QED
    BY <2>2
<1> QED
  BY <1>2

LEMMA ConcatSets ==
  ASSUME NEW S, NEW s \in Seq(S), NEW t \in Seq(S)
  PROVE  ToSet(s \o t) = ToSet(s) \cup ToSet(t)
<1>1. DOMAIN s = 1..Len(s) /\ DOMAIN t = 1..Len(t) /\ Len(s) \in Nat /\ Len(t) \in Nat
  OBVIOUS
<1>2. DOMAIN (s \o t) = 1..(Len(s) + Len(t))
  OBVIOUS
<1>3. \A i \in 1..Len(s) : (s \o t)[i] = s[i] /\ i \in DOMAIN (s \o t)
  BY <1>1, <1>2
<1>4. \A i \in 1..Len(t) : (s \o t)[Len(s) + i] = t[i] /\ Len(s) + i \in DOMAIN (s \o t)
  BY <1>1, <1>2
<1>5. \A i \in DOMAIN (s \o t) :
         i \in 1..Len(s) \/ (i - Len(s) \in 1..Len(t) /\ i = Len(s) + (i - Len(s)))
  BY <1>1, <1>2
<1> DEFINE u == s \o t
<1>6. ToSet(u) \subseteq ToSet(s) \cup ToSet(t)
  <2> SUFFICES ASSUME NEW i \in DOMAIN u
               PROVE  u[i] \in ToSet(s) \cup ToSet(t)
    BY DEF ToSet
  <2>1. CASE i \in 1..Len(s)
    BY <1>1, <1>3, <2>1 DEF ToSet
  <2>2. CASE i - Len(s) \in 1..Len(t) /\ i = Len(s) + (i - Len(s))
    <3>1. u[i] = t[i - Len(s)]
      BY <1>4, <2>2
    <3> QED
      BY <1>1, <2>2, <3>1 DEF ToSet
  <2> QED
    BY <1>5, <2>1, <2>2
<1>7. ToSet(s) \cup ToSet(t) \subseteq ToSet(u)
  BY <1>1, <1>3, <1>4 DEF ToSet
<1> QED
  BY <1>6, <1>7

(* FlattenSeq: a recursive function, which exists.                           *)
LEMMA FlattenUnfolds ==
  ASSUME NEW ss, NEW S, ss \in Seq(Seq(S)), Len(ss) > 0
  PROVE  \E a : /\ a = [i \in 1..Len(ss) |-> IF i = 1 THEN ss[i] ELSE a[i - 1] \o ss[i]]
                /\ FlattenSeq(ss) = a[Len(ss)]
<1> DEFINE R(n, a) == a = [i \in 1..n |-> IF i = 1 THEN ss[i] ELSE a[i - 1] \o ss[i]]
           N == Len(ss)
           B == {n \in 1..N : ~ \E a : R(n, a)}
<1>1. N \in Nat
  OBVIOUS
<1>2. B = {}
  <2> SUFFICES ASSUME B # {}
               PROVE  FALSE
    OBVIOUS
  <2>1. PICK n \in B : \A m \in B : n <= m
    <3>1. B \in SUBSET Nat
      <4> HIDE DEF R
      <4> QED
        BY <1>1
    <3> HIDE DEF B
    <3> QED
      BY <3>1, LeastExists
  <2>2. CASE n = 1
    <3> DEFINE a == [i \in 1..1 |-> ss[1]]
    <3>1. R(1, a)
      OBVIOUS
    <3> QED
      BY <2>2, <3>1
  <2>3. CASE n # 1
    <3>1. n - 1 \in 1..N /\ n \in 1..N /\ ~ (n <= n - 1)
      BY <1>1, <2>3
    <3>2. n - 1 \notin B
      BY <2>1, <3>1
    <3>3. PICK a : R(n - 1, a)
      BY <3>1, <3>2
    <3> DEFINE c == [i \in 1..n |-> IF i = n THEN a[n - 1] \o ss[n] ELSE a[i]]
    <3>4. ASSUME NEW i \in 1..n
          PROVE  c[i] = IF i = 1 THEN ss[i] ELSE c[i - 1] \o ss[i]
      <4>1. CASE i = n
        <5>1. c[n - 1] = a[n - 1]
          BY <3>1
        <5> QED
          BY <2>3, <4>1, <5>1
      <4>2. CASE i # n
        <5>1. i \in 1..(n - 1)
          BY <4>2, <3>1
        <5>2. a[i] = IF i = 1 THEN ss[i] ELSE a[i - 1] \o ss[i]
          BY <3>3, <5>1
        <5>3. i # 1 => i - 1 \in 1..n /\ i - 1 # n /\ c[i - 1] = a[i - 1]
          BY <5>1, <3>1
        <5>4. c[i] = a[i]
          BY <4>2
        <5> HIDE DEF c
        <5> QED
          BY <5>2, <5>3, <5>4
      <4> QED
        BY <4>1, <4>2
    <3>5. R(n, c)
      <4>1. c = [i \in 1..n |-> c[i]]
        OBVIOUS
      <4> HIDE DEF c
      <4> QED
        BY <3>4, <4>1
    <3> QED
      BY <3>5
  <2> QED
    BY <2>2, <2>3
<1>3. \E a : R(N, a)
  <2>1. N \in 1..N
    BY <1>1
  <2> QED
    BY <1>2, <2>1
<1> DEFINE flat == CHOOSE a : R(N, a)
<1>4. R(N, flat)
  <2> HIDE DEF R
  <2> QED
    BY <1>3
<1>5. FlattenSeq(ss) = flat[N]
  BY DEF FlattenSeq
<1> HIDE DEF flat
<1> QED
  BY <1>4, <1>5

(* What is in a flattened sequence.                                          *)
LEMMA FlattenIs ==
  ASSUME NEW ss, NEW S, ss \in Seq(Seq(S))
  PROVE  /\ FlattenSeq(ss) \in Seq(S)
         /\ ToSet(FlattenSeq(ss)) = UNION {ToSet(ss[i]) : i \in DOMAIN ss}
<1>1. CASE Len(ss) = 0
  <2>1. ss = <<>> /\ FlattenSeq(ss) = ss
    BY <1>1 DEF FlattenSeq
  <2>2. DOMAIN ss = {}
    BY <2>1
  <2>3. ss \in Seq(S)
    BY <2>1
  <2>4. ToSet(ss) = {}
    BY <2>2 DEF ToSet
  <2> QED
    BY <2>1, <2>2, <2>3, <2>4
<1>2. CASE Len(ss) > 0
  <2>1. PICK a : /\ a = [i \in 1..Len(ss) |-> IF i = 1 THEN ss[i] ELSE a[i - 1] \o ss[i]]
                 /\ FlattenSeq(ss) = a[Len(ss)]
    BY <1>2, FlattenUnfolds
  <2> DEFINE In(n) == UNION {ToSet(ss[i]) : i \in 1..n}
             N == Len(ss)
             B == {n \in 1..N : ~ (a[n] \in Seq(S) /\ ToSet(a[n]) = In(n))}
  <2>2. N \in Nat /\ DOMAIN ss = 1..N /\ \A i \in 1..N : ss[i] \in Seq(S)
    OBVIOUS
  <2>3. \A i \in 1..N : a[i] = IF i = 1 THEN ss[i] ELSE a[i - 1] \o ss[i]
    BY <2>1
  <2>4. B = {}
    <3> SUFFICES ASSUME B # {}
                 PROVE  FALSE
      OBVIOUS
    <3>1. PICK n \in B : \A m \in B : n <= m
      <4>1. B \in SUBSET Nat
        BY <2>2
      <4> HIDE DEF B
      <4> QED
        BY <4>1, LeastExists
    <3>2. n \in 1..N /\ n \in Nat /\ ss[n] \in Seq(S)
      BY <2>2
    <3>3. CASE n = 1
      <4>1. a[1] = ss[1]
        BY <2>3, <3>2, <3>3
      <4>2. In(1) = ToSet(ss[1])
        OBVIOUS
      <4> QED
        BY <3>2, <3>3, <4>1, <4>2
    <3>4. CASE n # 1
      <4>1. n - 1 \in 1..N /\ ~ (n <= n - 1)
        BY <3>2, <3>4
      <4>2. n - 1 \notin B
        BY <3>1, <4>1
      <4>3. a[n - 1] \in Seq(S) /\ ToSet(a[n - 1]) = In(n - 1)
        BY <4>1, <4>2
      <4>4. a[n] = a[n - 1] \o ss[n]
        BY <2>3, <3>2, <3>4
      <4>5. ToSet(a[n - 1] \o ss[n]) = ToSet(a[n - 1]) \cup ToSet(ss[n])
        BY <3>2, <4>3, ConcatSets
      <4>6. In(n) = In(n - 1) \cup ToSet(ss[n])
        <5>1. 1..n = (1..(n - 1)) \cup {n}
          BY <3>2
        <5> QED
          BY <5>1, Zenon
      <4>7. a[n] \in Seq(S)
        BY <3>2, <4>3, <4>4
      <4> HIDE DEF In
      <4> QED
        BY <4>3, <4>4, <4>5, <4>6, <4>7
    <3> QED
      BY <3>3, <3>4
  <2>5. N \in 1..N
    BY <1>2, <2>2
  <2>6. a[N] \in Seq(S) /\ ToSet(a[N]) = In(N)
    BY <2>4, <2>5
  <2> QED
    BY <2>1, <2>2, <2>6
<1> QED
  BY <1>1, <1>2

-------------------------------------------------------------------------------
(* The dictionary.                                                           *)

LEMMA Ids ==
  /\ None \notin Nat /\ None \notin Labels /\ None \notin Names /\ None \notin Keys
  /\ None \notin NodeRow /\ None \notin EdgeRow
  /\ MaxLabel \in Nat /\ MaxNode \in Nat /\ MaxEdge \in Nat /\ MaxPlane \in Nat
  /\ LabelIds \subseteq Nat /\ NodeIds \subseteq Nat /\ EdgeIds \subseteq Nat
  /\ PlaneIds \subseteq Nat
  /\ Startup \in PlaneIds /\ StartupName \in Names
  /\ IdBatchSize \in Nat \ {0}
  BY StoreAssumption DEF LabelIds, NodeIds, EdgeIds, PlaneIds, Startup

(* What a dictionary keeps as it grows.                                      *)
Grows(d, e) ==
    /\ \A l \in Labels : d.fwd[l] # None => e.fwd[l] = d.fwd[l]
    /\ \A i \in LabelIds : d.rev[i] # None => e.rev[i] = d.rev[i]

LEMMA GrowsOn ==
  ASSUME NEW d, NEW e, NEW f, Grows(d, e), Grows(e, f)
  PROVE  Grows(d, f)
  BY DEF Grows

(* intern.                                                                   *)
LEMMA InternStep ==
  ASSUME NEW d, DictOK(d), NEW l \in Labels, d.fwd[l] = None => d.next <= MaxLabel
  PROVE  /\ DictOK(Intern(d, l))
         /\ Grows(d, Intern(d, l))
         /\ \A m \in Labels : Intern(d, l).fwd[m] # None <=> d.fwd[m] # None \/ m = l
         /\ Intern(d, l).next = IF d.fwd[l] = None THEN d.next + 1 ELSE d.next
<1>1. CASE d.fwd[l] # None
  BY <1>1 DEF Intern, Grows
<1>2. CASE d.fwd[l] = None
  <2> DEFINE e == [fwd |-> [d.fwd EXCEPT ![l] = d.next],
                   rev |-> [d.rev EXCEPT ![d.next] = l],
                   next |-> d.next + 1]
  <2>1. Intern(d, l) = e
    BY <1>2 DEF Intern
  <2>2. /\ d.fwd \in [Labels -> Optional(LabelIds)] /\ d.rev \in [LabelIds -> Optional(Labels)]
        /\ d.next \in Nat /\ d.next \in LabelIds /\ d.next # None
    BY <1>2, Ids DEF DictOK, Dictionary, LabelIds
  <2>3. /\ e.fwd = [d.fwd EXCEPT ![l] = d.next] /\ e.rev = [d.rev EXCEPT ![d.next] = l]
        /\ e.next = d.next + 1
    OBVIOUS
  <2>4. e.fwd \in [Labels -> Optional(LabelIds)] /\ e.rev \in [LabelIds -> Optional(Labels)]
    BY <2>2 DEF Optional
  <2>5. e \in Dictionary /\ e.next \in 1..(MaxLabel + 1)
    BY <2>2, <2>4, <1>2, Ids DEF Dictionary, DictOK
  <2>6. \A i \in LabelIds : d.rev[i] # None => i # d.next
    BY <2>2, Ids DEF DictOK
  <2>7. /\ \A m \in Labels : m # l => e.fwd[m] = d.fwd[m]
        /\ e.fwd[l] = d.next
        /\ \A i \in LabelIds : i # d.next => e.rev[i] = d.rev[i]
        /\ e.rev[d.next] = l
    BY <2>2, <2>3
  <2> HIDE DEF e
  <2>8. ASSUME NEW m \in Labels, e.fwd[m] # None
        PROVE  e.fwd[m] < e.next /\ e.rev[e.fwd[m]] = m
    <3>1. CASE m = l
      BY <3>1, <2>2, <2>3, <2>7
    <3>2. CASE m # l
      <4>1. e.fwd[m] = d.fwd[m] /\ d.fwd[m] \in LabelIds /\ d.fwd[m] < d.next
        BY <2>2, <2>7, <2>8, <3>2 DEF DictOK, Optional
      <4>2. d.fwd[m] \in Nat
        BY <4>1, Ids
      <4>3. d.rev[d.fwd[m]] = m /\ d.fwd[m] # d.next
        BY <2>2, <2>8, <4>1, <4>2 DEF DictOK
      <4>4. e.rev[d.fwd[m]] = m
        BY <2>7, <4>1, <4>3
      <4> QED
        BY <2>2, <2>3, <4>1, <4>2, <4>4
    <3> QED
      BY <3>1, <3>2
  <2>9. ASSUME NEW i \in LabelIds, e.rev[i] # None
        PROVE  i < e.next /\ e.fwd[e.rev[i]] = i
    <3>1. CASE i = d.next
      BY <3>1, <2>2, <2>3, <2>7
    <3>2. CASE i # d.next
      <4>1. e.rev[i] = d.rev[i] /\ d.rev[i] \in Labels /\ i < d.next /\ d.fwd[d.rev[i]] = i
        BY <2>2, <2>7, <2>9, <3>2 DEF DictOK, Optional
      <4>2. d.rev[i] # l
        BY <1>2, <4>1, Ids
      <4>3. e.fwd[e.rev[i]] = i
        BY <2>7, <4>1, <4>2
      <4>4. i \in Nat
        BY Ids
      <4> QED
        BY <2>2, <2>3, <4>1, <4>3, <4>4
    <3> QED
      BY <3>1, <3>2
  <2>10. DictOK(e)
    BY <2>5, <2>8, <2>9 DEF DictOK
  <2>11. Grows(d, e)
    BY <1>2, <2>6, <2>7 DEF Grows
  <2>12. \A m \in Labels : e.fwd[m] # None <=> d.fwd[m] # None \/ m = l
    BY <2>2, <2>7
  <2> QED
    BY <1>2, <2>1, <2>3, <2>10, <2>11, <2>12
<1> QED
  BY <1>1, <1>2

LEMMA InternUnfolds ==
  ASSUME NEW d, NEW names \in Seq(Labels)
  PROVE  \E a : /\ a[0] = d
                /\ \A i \in 1..Len(names) : a[i] = Intern(a[i - 1], names[i])
                /\ InternAll(d, names) = a[Len(names)]
<1> DEFINE R(n, a) == a = [i \in 0..n |-> IF i = 0 THEN d ELSE Intern(a[i - 1], names[i])]
           N == Len(names)
           B == {n \in 0..N : ~ \E a : R(n, a)}
<1>1. N \in Nat
  OBVIOUS
<1>2. B = {}
  <2> SUFFICES ASSUME B # {}
               PROVE  FALSE
    OBVIOUS
  <2>1. PICK n \in B : \A m \in B : n <= m
    <3>1. B \in SUBSET Nat
      <4> HIDE DEF R
      <4> QED
        BY <1>1
    <3> HIDE DEF B
    <3> QED
      BY <3>1, LeastExists
  <2>2. CASE n = 0
    <3> DEFINE a == [i \in 0..0 |-> d]
    <3>1. R(0, a)
      OBVIOUS
    <3> QED
      BY <2>2, <3>1
  <2>3. CASE n # 0
    <3>1. n - 1 \in 0..N /\ n \in 0..N /\ ~ (n <= n - 1)
      BY <1>1, <2>3
    <3>2. n - 1 \notin B
      BY <2>1, <3>1
    <3>3. PICK a : R(n - 1, a)
      BY <3>1, <3>2
    <3> DEFINE c == [i \in 0..n |-> IF i = n THEN Intern(a[n - 1], names[n]) ELSE a[i]]
    <3>4. ASSUME NEW i \in 0..n
          PROVE  c[i] = IF i = 0 THEN d ELSE Intern(c[i - 1], names[i])
      <4>1. CASE i = n
        <5>1. c[n - 1] = a[n - 1]
          BY <3>1
        <5> QED
          BY <2>3, <4>1, <5>1
      <4>2. CASE i # n
        <5>1. i \in 0..(n - 1)
          BY <4>2, <3>1
        <5>2. a[i] = IF i = 0 THEN d ELSE Intern(a[i - 1], names[i])
          BY <3>3, <5>1
        <5>3. i # 0 => i - 1 \in 0..n /\ i - 1 # n /\ c[i - 1] = a[i - 1]
          BY <5>1, <3>1
        <5>4. c[i] = a[i]
          BY <4>2
        <5> HIDE DEF c
        <5> QED
          BY <5>2, <5>3, <5>4
      <4> QED
        BY <4>1, <4>2
    <3>5. R(n, c)
      <4>1. c = [i \in 0..n |-> c[i]]
        OBVIOUS
      <4> HIDE DEF c
      <4> QED
        BY <3>4, <4>1
    <3> QED
      BY <3>5
  <2> QED
    BY <2>2, <2>3
<1>3. \E a : R(N, a)
  <2>1. N \in 0..N
    BY <1>1
  <2> QED
    BY <1>2, <2>1
<1> DEFINE upTo == CHOOSE a : R(N, a)
<1>4. R(N, upTo)
  <2> HIDE DEF R
  <2> QED
    BY <1>3
<1>5. InternAll(d, names) = upTo[N]
  BY DEF InternAll
<1> HIDE DEF upTo
<1>6. \A i \in 0..N : upTo[i] = IF i = 0 THEN d ELSE Intern(upTo[i - 1], names[i])
  BY <1>4
<1>7. upTo[0] = d /\ \A i \in 1..N : upTo[i] = Intern(upTo[i - 1], names[i])
  BY <1>1, <1>6
<1> QED
  BY <1>5, <1>7

LEMMA ToSetFinite ==
  ASSUME NEW S, NEW s \in Seq(S)
  PROVE  IsFiniteSet(ToSet(s)) /\ ToSet(s) \subseteq S
<1>1. DOMAIN s = 1..Len(s) /\ Len(s) \in Nat
  OBVIOUS
<1>2. IsFiniteSet(1..Len(s))
  BY <1>1, FS_Interval
<1>3. s \in Surjection(1..Len(s), ToSet(s))
  BY <1>1 DEF Surjection, ToSet
<1>4. IsFiniteSet(ToSet(s))
  BY <1>2, <1>3, FS_Surjection
<1> QED
  BY <1>1, <1>4 DEF ToSet

Missing(d, S) == {l \in S : d.fwd[l] = None}

LEMMA InternAllIs ==
  ASSUME NEW d, DictOK(d), NEW names \in Seq(Labels), Interns(d, names)
  PROVE  /\ DictOK(InternAll(d, names))
         /\ Grows(d, InternAll(d, names))
         /\ \A m \in Labels : InternAll(d, names).fwd[m] # None <=>
                               d.fwd[m] # None \/ m \in ToSet(names)
         /\ InternAll(d, names).next = d.next + Cardinality(Missing(d, ToSet(names)))
<1> DEFINE N == Len(names)
           Upto(n) == {names[i] : i \in 1..n}
           P(n, e) == /\ DictOK(e)
                      /\ Grows(d, e)
                      /\ \A m \in Labels : e.fwd[m] # None <=> d.fwd[m] # None \/ m \in Upto(n)
                      /\ e.next = d.next + Cardinality(Missing(d, Upto(n)))
<1>1. PICK a : /\ a[0] = d
               /\ \A i \in 1..N : a[i] = Intern(a[i - 1], names[i])
               /\ InternAll(d, names) = a[N]
  BY InternUnfolds
<1>2. N \in Nat /\ DOMAIN names = 1..N /\ Upto(N) = ToSet(names)
  BY DEF ToSet
<1>3. d.next \in Nat
  BY DEF DictOK
<1> DEFINE B == {n \in 0..N : ~ P(n, a[n])}
<1>4. B = {}
  <2> SUFFICES ASSUME B # {}
               PROVE  FALSE
    OBVIOUS
  <2>1. PICK n \in B : \A m \in B : n <= m
    <3>1. B \in SUBSET Nat
      <4> HIDE DEF P
      <4> QED
        BY <1>2
    <3> HIDE DEF B
    <3> QED
      BY <3>1, LeastExists
  <2>2. n \in 0..N /\ n \in Nat /\ ~ P(n, a[n])
    <3> HIDE DEF P
    <3> QED
      BY <1>2
  <2>3. CASE n = 0
    <3>1. Upto(0) = {} /\ Missing(d, Upto(0)) = {}
      BY DEF Missing
    <3>2. Cardinality(Missing(d, Upto(0))) = 0
      BY <3>1, FS_EmptySet
    <3>3. P(0, d)
      <4>1. Grows(d, d)
        BY DEF Grows
      <4> HIDE DEF Upto
      <4> QED
        BY <3>1, <3>2, <1>3, <4>1
    <3> HIDE DEF P
    <3> QED
      BY <2>2, <2>3, <3>3, <1>1
  <2>4. CASE n # 0
    <3>1. n - 1 \in 0..N /\ n \in 1..N /\ ~ (n <= n - 1) /\ n - 1 \in Nat
      BY <1>2, <2>2, <2>4
    <3>2. P(n - 1, a[n - 1])
      <4> HIDE DEF P
      <4> QED
        BY <2>1, <3>1
    <3>3. a[n] = Intern(a[n - 1], names[n])
      BY <1>1, <3>1
    <3> DEFINE l == names[n]
               e == a[n - 1]
               M == Missing(d, Upto(n - 1))
    <3>4. l \in Labels
      BY <3>1, <1>2
    <3>5. Upto(n) = Upto(n - 1) \cup {l}
      <4>1. 1..n = (1..(n - 1)) \cup {n}
        BY <3>1
      <4> QED
        BY <4>1, Zenon
    <3>6. Upto(n) \subseteq ToSet(names)
      BY <1>2, <3>1
    <3>7. IsFiniteSet(Missing(d, ToSet(names)))
      <4>1. IsFiniteSet(ToSet(names)) /\ Missing(d, ToSet(names)) \in SUBSET ToSet(names)
        BY ToSetFinite DEF Missing
      <4> QED
        BY <4>1, FS_Subset
    <3> HIDE DEF Upto
    <3>8. M \in SUBSET Missing(d, ToSet(names)) /\ IsFiniteSet(M) /\ Cardinality(M) \in Nat
      <4>1. M \in SUBSET Missing(d, ToSet(names))
        BY <3>5, <3>6 DEF Missing
      <4> QED
        BY <4>1, <3>7, FS_Subset, FS_CardinalityType
    <3>9. d.next + Cardinality(Missing(d, ToSet(names))) <= MaxLabel + 1
      <4>1. Missing(d, ToSet(names)) = {x \in ToSet(names) : d.fwd[x] = None}
        BY DEF Missing
      <4> QED
        BY <4>1 DEF Interns
    <3>10. Missing(d, Upto(n)) = IF e.fwd[l] = None THEN M \cup {l} ELSE M
      <4>1. e.fwd[l] = None <=> d.fwd[l] = None /\ l \notin Upto(n - 1)
        BY <3>2, <3>4
      <4> QED
        BY <3>5, <4>1 DEF Missing
    <3>11. e.fwd[l] = None => l \notin M
      BY <3>2, <3>4 DEF Missing
    <3>12. Cardinality(Missing(d, Upto(n))) =
              IF e.fwd[l] = None THEN Cardinality(M) + 1 ELSE Cardinality(M)
      <4>1. Cardinality(M \cup {l}) = IF l \in M THEN Cardinality(M) ELSE Cardinality(M) + 1
        BY <3>8, FS_AddElement
      <4> HIDE DEF M, e, l
      <4> QED
        BY <3>10, <3>11, <4>1
    <3>13. e.next = d.next + Cardinality(M)
      BY <3>2
    <3>14. e.fwd[l] = None => e.next <= MaxLabel
      <4>1. Missing(d, Upto(n)) \in SUBSET Missing(d, ToSet(names))
        BY <3>6 DEF Missing
      <4>2. /\ Cardinality(Missing(d, Upto(n))) <= Cardinality(Missing(d, ToSet(names)))
            /\ Cardinality(Missing(d, ToSet(names))) \in Nat
        BY <4>1, <3>7, FS_Subset, FS_CardinalityType
      <4> HIDE DEF M, e, l
      <4> QED
        BY <3>8, <3>9, <3>12, <3>13, <4>2, <1>3, Ids
    <3>15. /\ DictOK(a[n]) /\ Grows(e, a[n])
           /\ \A m \in Labels : a[n].fwd[m] # None <=> e.fwd[m] # None \/ m = l
           /\ a[n].next = IF e.fwd[l] = None THEN e.next + 1 ELSE e.next
      <4>1. DictOK(e)
        BY <3>2
      <4> HIDE DEF e, l
      <4> QED
        BY <3>4, <3>14, <4>1, InternStep, <3>3 DEF e, l
    <3>16. Grows(d, a[n])
      <4>1. Grows(d, e)
        BY <3>2
      <4> QED
        BY <4>1, <3>15, GrowsOn
    <3>17. \A m \in Labels : a[n].fwd[m] # None <=> d.fwd[m] # None \/ m \in Upto(n)
      BY <3>2, <3>5, <3>15
    <3>18. a[n].next = d.next + Cardinality(Missing(d, Upto(n)))
      <4> HIDE DEF M, e, l
      <4> QED
        BY <3>8, <3>12, <3>13, <3>15, <1>3
    <3> QED
      BY <2>2, <3>15, <3>16, <3>17, <3>18
  <2> QED
    BY <2>3, <2>4
<1>5. P(N, a[N])
  <2>1. N \in 0..N
    BY <1>2
  <2> HIDE DEF P
  <2> QED
    BY <1>4, <2>1
<1> HIDE DEF Upto
<1> QED
  BY <1>1, <1>2, <1>5

(* Ids that are looked up stand for the names.                               *)
LEMMA LookupIn ==
  ASSUME NEW d, DictOK(d), NEW names \in Seq(Labels), \A m \in ToSet(names) : d.fwd[m] # None
  PROVE  /\ Lookup(d, names) \in Seq(LabelIds)
         /\ DOMAIN Lookup(d, names) = DOMAIN names
         /\ \A i \in DOMAIN names : d.rev[Lookup(d, names)[i]] = names[i] /\ names[i] # None
<1>1. DOMAIN names = 1..Len(names) /\ Len(names) \in Nat
  OBVIOUS
<1>2. ASSUME NEW i \in DOMAIN names
      PROVE  /\ names[i] \in Labels /\ d.fwd[names[i]] \in LabelIds
             /\ d.rev[d.fwd[names[i]]] = names[i] /\ names[i] # None
  <2>1. names[i] \in Labels /\ d.fwd[names[i]] # None
    BY DEF ToSet
  <2>2. d.fwd \in [Labels -> Optional(LabelIds)]
    BY DEF DictOK, Dictionary
  <2> QED
    BY <2>1, <2>2, Ids DEF DictOK, Optional
<1>3. Lookup(d, names) = [i \in 1..Len(names) |-> d.fwd[names[i]]]
  BY <1>1 DEF Lookup
<1>4. Lookup(d, names) \in Seq(LabelIds)
  BY <1>1, <1>2, <1>3
<1> QED
  BY <1>1, <1>2, <1>3, <1>4

-------------------------------------------------------------------------------
(* The tables of the nodes.                                                  *)

NodesSame(s, t) ==
    /\ t.nodes = s.nodes /\ t.nodePlane = s.nodePlane /\ t.labelIdx = s.labelIdx
    /\ t.extKeys = s.extKeys

EdgesSame(s, t) == t.edges = s.edges /\ t.adjFwd = s.adjFwd /\ t.adjRev = s.adjRev

PlanesSame(s, t) ==
    t.planes = s.planes /\ t.planeNames = s.planeNames /\ t.nextPlane = s.nextPlane

LEMMA PairIs ==
  ASSUME NEW A, NEW B, NEW k \in A \X B
  PROVE  k = <<k[1], k[2]>> /\ k[1] \in A /\ k[2] \in B
  OBVIOUS

(* insert_node and its like write to the tables of the nodes only.           *)
LEMMA InsertNodesIs ==
  ASSUME NEW s, Shaped(s), NEW rows
  PROVE  LET t == InsertNodes(s, rows)
             new == DOMAIN rows
         IN  /\ Shaped(t) /\ EdgesSame(s, t) /\ PlanesSame(s, t)
             /\ t.nextNode = s.nextNode /\ t.nextEdge = s.nextEdge /\ t.dict = s.dict
             /\ t.counters = s.counters /\ t.seq = s.seq
             /\ t.nodes = Under(s.nodes, rows)
             /\ t.nodePlane = [n \in DOMAIN s.nodePlane |->
                     IF \E k \in new : k[2] = n THEN (CHOOSE k \in new : k[2] = n)[1]
                     ELSE s.nodePlane[n]]
             /\ t.labelIdx = s.labelIdx \cup UNION {LabelKeys(k, rows[k].labels) : k \in new}
             /\ t.extKeys = [x \in DOMAIN s.extKeys |->
                     IF \E k \in new : <<k[1], rows[k].key>> = x
                     THEN (CHOOSE k \in new : <<k[1], rows[k].key>> = x)[2] ELSE s.extKeys[x]]
<1> DEFINE new == DOMAIN rows
           a == Under(s.nodes, rows)
           b == [n \in DOMAIN s.nodePlane |->
                     IF \E k \in new : k[2] = n THEN (CHOOSE k \in new : k[2] = n)[1]
                     ELSE s.nodePlane[n]]
           c == s.labelIdx \cup UNION {LabelKeys(k, rows[k].labels) : k \in new}
           d == [x \in DOMAIN s.extKeys |->
                     IF \E k \in new : <<k[1], rows[k].key>> = x
                     THEN (CHOOSE k \in new : <<k[1], rows[k].key>> = x)[2] ELSE s.extKeys[x]]
<1>1. InsertNodes(s, rows) =
          [s EXCEPT !.nodes = a, !.nodePlane = b, !.labelIdx = c, !.extKeys = d]
  BY DEF InsertNodes
<1> DEFINE t == InsertNodes(s, rows)
<1>2. /\ Shaped(t) /\ EdgesSame(s, t) /\ PlanesSame(s, t)
      /\ t.nextNode = s.nextNode /\ t.nextEdge = s.nextEdge /\ t.dict = s.dict
      /\ t.counters = s.counters /\ t.seq = s.seq
      /\ t.nodes = a /\ t.nodePlane = b /\ t.labelIdx = c /\ t.extKeys = d
  <2> HIDE DEF a, b, c, d
  <2> QED
    BY <1>1 DEF Shaped, TableNames, EdgesSame, PlanesSame
<1> HIDE DEF t
<1>3. t = InsertNodes(s, rows)
  BY DEF t
<1> QED
  BY <1>2, <1>3, Zenon

LEMMA InsertNodesLeaves ==
  ASSUME NEW s, Shaped(s), NEW rows, NEW t, t = InsertNodes(s, rows)
  PROVE  /\ Shaped(t) /\ EdgesSame(s, t) /\ PlanesSame(s, t)
         /\ t.nextNode = s.nextNode /\ t.nextEdge = s.nextEdge /\ t.dict = s.dict
         /\ t.counters = s.counters /\ t.seq = s.seq
         /\ t.nodes = Under(s.nodes, rows)
<1>1. PICK a, b, c : t = [s EXCEPT !.nodes = Under(s.nodes, rows), !.nodePlane = a,
                                   !.labelIdx = b, !.extKeys = c]
  BY DEF InsertNodes
<1>2. PICK e : e = Under(s.nodes, rows)
  OBVIOUS
<1> QED
  BY <1>1, <1>2 DEF Shaped, TableNames, EdgesSame, PlanesSame

(* Records for ids that no plane uses, under keys that are free.             *)
Insertable(s, rows) ==
    LET new == DOMAIN rows
    IN  /\ new \subseteq NodeKeys
        /\ \A k \in new :
              /\ rows[k] \in NodeRow
              /\ k[2] < s.nextNode
              /\ \A p \in PlaneIds : s.nodes[<<p, k[2]>>] = None
              /\ rows[k].key # None => s.extKeys[<<k[1], rows[k].key>>] = None
              /\ \A i \in DOMAIN rows[k].labels : s.dict.rev[rows[k].labels[i]] # None
        /\ \A j, k \in new : j # k =>
              j[2] # k[2] /\ (rows[k].key # None => <<j[1], rows[j].key>> # <<k[1], rows[k].key>>)

LEMMA InsertNodesOK ==
  ASSUME NEW s, Shaped(s), NodesOK(s), NEW rows, Insertable(s, rows)
  PROVE  NodesOK(InsertNodes(s, rows))
<1> DEFINE t == InsertNodes(s, rows)
           new == DOMAIN rows
<1>1. /\ t.nextNode = s.nextNode /\ t.dict = s.dict
      /\ t.nodes = Under(s.nodes, rows)
      /\ t.nodePlane = [n \in DOMAIN s.nodePlane |->
              IF \E k \in new : k[2] = n THEN (CHOOSE k \in new : k[2] = n)[1]
              ELSE s.nodePlane[n]]
      /\ t.labelIdx = s.labelIdx \cup UNION {LabelKeys(k, rows[k].labels) : k \in new}
      /\ t.extKeys = [x \in DOMAIN s.extKeys |->
              IF \E k \in new : <<k[1], rows[k].key>> = x
              THEN (CHOOSE k \in new : <<k[1], rows[k].key>> = x)[2] ELSE s.extKeys[x]]
  BY InsertNodesIs
<1> HIDE DEF t
<1>2. /\ s.nodes \in [NodeKeys -> Optional(NodeRow)]
      /\ s.nodePlane \in [NodeIds -> Optional(PlaneIds)]
      /\ s.extKeys \in [PlaneIds \X Keys -> Optional(NodeIds)]
  BY DEF NodesOK
<1>3. ASSUME NEW k \in new
      PROVE  /\ k \in NodeKeys /\ k = <<k[1], k[2]>> /\ k[1] \in PlaneIds /\ k[2] \in NodeIds
             /\ rows[k] \in NodeRow /\ rows[k] # None /\ rows[k].key \in Optional(Keys)
             /\ k[2] < s.nextNode
             /\ \A p \in PlaneIds : s.nodes[<<p, k[2]>>] = None
             /\ rows[k].key # None => s.extKeys[<<k[1], rows[k].key>>] = None
             /\ \A i \in DOMAIN rows[k].labels : s.dict.rev[rows[k].labels[i]] # None
             /\ \A j \in new : j # k =>
                  j[2] # k[2] /\ (rows[k].key # None => <<j[1], rows[j].key>> # <<k[1], rows[k].key>>)
  <2>1. k \in NodeKeys
    BY DEF Insertable
  <2>2. k = <<k[1], k[2]>> /\ k[1] \in PlaneIds /\ k[2] \in NodeIds
    BY <2>1 DEF NodeKeys
  <2>3. rows[k] \in NodeRow /\ rows[k] # None /\ rows[k].key \in Optional(Keys)
    BY Ids DEF Insertable, NodeRow
  <2> QED
    BY <2>1, <2>2, <2>3 DEF Insertable
<1>4. ASSUME NEW k \in NodeKeys
      PROVE  t.nodes[k] = IF k \in new THEN rows[k] ELSE s.nodes[k]
  BY <1>1, <1>2 DEF Under
<1>5. t.nodes \in [NodeKeys -> Optional(NodeRow)]
  <2>1. t.nodes = [k \in NodeKeys |-> t.nodes[k]]
    BY <1>1, <1>2 DEF Under
  <2>2. \A k \in NodeKeys : t.nodes[k] \in Optional(NodeRow)
    BY <1>2, <1>3, <1>4 DEF Optional
  <2> QED
    BY <2>1, <2>2
<1>6. ASSUME NEW n \in NodeIds
      PROVE  /\ \A k \in new : k[2] = n => t.nodePlane[n] = k[1]
             /\ (\A k \in new : k[2] # n) => t.nodePlane[n] = s.nodePlane[n]
  <2>1. ASSUME NEW k \in new, k[2] = n
        PROVE  (CHOOSE j \in new : j[2] = n) = k
    BY <1>3, <2>1
  <2>2. t.nodePlane[n] = IF \E k \in new : k[2] = n THEN (CHOOSE k \in new : k[2] = n)[1]
                         ELSE s.nodePlane[n]
    BY <1>1, <1>2
  <2> QED
    BY <2>1, <2>2
<1>7. t.nodePlane \in [NodeIds -> Optional(PlaneIds)]
  <2>1. \A n \in NodeIds : t.nodePlane[n] \in Optional(PlaneIds)
    BY <1>2, <1>3, <1>6 DEF Optional
  <2> QED
    BY <1>1, <1>2, <2>1
<1>8. ASSUME NEW p \in PlaneIds, NEW key \in Keys
      PROVE  /\ \A k \in new : k[1] = p /\ rows[k].key = key => t.extKeys[<<p, key>>] = k[2]
             /\ (\A k \in new : ~ (k[1] = p /\ rows[k].key = key)) =>
                   t.extKeys[<<p, key>>] = s.extKeys[<<p, key>>]
  <2> DEFINE x == <<p, key>>
  <2>1. x \in DOMAIN s.extKeys /\ key # None
    BY <1>2, Ids
  <2>2. t.extKeys[x] = IF \E k \in new : <<k[1], rows[k].key>> = x
              THEN (CHOOSE k \in new : <<k[1], rows[k].key>> = x)[2] ELSE s.extKeys[x]
    BY <1>1, <2>1
  <2>3. ASSUME NEW k \in new, k[1] = p, rows[k].key = key
        PROVE  (CHOOSE j \in new : <<j[1], rows[j].key>> = x) = k
    <3>1. <<k[1], rows[k].key>> = x
      BY <2>3
    <3>2. \A j \in new : <<j[1], rows[j].key>> = x => j = k
      BY <1>3, <2>1, <2>3, <3>1
    <3> QED
      BY <3>1, <3>2
  <2>4. \A k \in new : <<k[1], rows[k].key>> = x <=> k[1] = p /\ rows[k].key = key
    OBVIOUS
  <2> QED
    BY <2>2, <2>3, <2>4
<1>9. t.extKeys \in [PlaneIds \X Keys -> Optional(NodeIds)]
  <2>1. \A x \in PlaneIds \X Keys : t.extKeys[x] \in Optional(NodeIds)
    <3> SUFFICES ASSUME NEW p \in PlaneIds, NEW key \in Keys
                 PROVE  t.extKeys[<<p, key>>] \in Optional(NodeIds)
      OBVIOUS
    <3> QED
      BY <1>2, <1>3, <1>8 DEF Optional
  <2> QED
    BY <1>1, <1>2, <2>1
<1>10. NodeTablesMirror(t)
  <2>1. ASSUME NEW n \in NodeIds, NEW p \in PlaneIds
        PROVE  t.nodes[<<p, n>>] # None <=> t.nodePlane[n] = p
    <3>1. s.nodes[<<p, n>>] # None <=> s.nodePlane[n] = p
      BY DEF NodesOK, NodeTablesMirror
    <3>2. <<p, n>> \in NodeKeys
      BY DEF NodeKeys
    <3>3. CASE \E k \in new : k[2] = n
      <4>1. PICK k \in new : k[2] = n
        BY <3>3
      <4>2. t.nodePlane[n] = k[1] /\ k = <<k[1], n>>
        BY <1>3, <1>6, <4>1
      <4>3. CASE k[1] = p
        <5>1. k = <<p, n>>
          BY <4>2, <4>3
        <5> QED
          BY <1>3, <1>4, <3>2, <4>2, <4>3, <5>1
      <4>4. CASE k[1] # p
        <5>1. <<p, n>> \notin new
          BY <1>3, <4>1, <4>4
        <5>2. s.nodes[<<p, n>>] = None
          BY <1>3, <4>1
        <5> QED
          BY <1>4, <3>2, <4>2, <4>4, <5>1, <5>2
      <4> QED
        BY <4>3, <4>4
    <3>4. CASE \A k \in new : k[2] # n
      <4>1. <<p, n>> \notin new
        BY <3>4
      <4> QED
        BY <1>4, <1>6, <3>1, <3>2, <3>4, <4>1
    <3> QED
      BY <3>3, <3>4
  <2>2. t.labelIdx = UNION {LabelKeys(k, t.nodes[k].labels) : k \in {k \in NodeKeys : t.nodes[k] # None}}
    <3>1. s.labelIdx = UNION {LabelKeys(k, s.nodes[k].labels) : k \in {k \in NodeKeys : s.nodes[k] # None}}
      BY DEF NodesOK, NodeTablesMirror, NodeKeys
    <3>2. ASSUME NEW k \in NodeKeys, s.nodes[k] # None
          PROVE  k \notin new /\ t.nodes[k] = s.nodes[k]
      <4>1. k = <<k[1], k[2]>> /\ k[1] \in PlaneIds
        BY DEF NodeKeys
      <4>2. k \notin new
        <5> SUFFICES ASSUME k \in new
                     PROVE  FALSE
          OBVIOUS
        <5>1. s.nodes[<<k[1], k[2]>>] = None
          BY <1>3, <4>1
        <5> QED
          BY <3>2, <4>1, <5>1
      <4> QED
        BY <1>4, <4>2
    <3>3. \A k \in new : k \in NodeKeys /\ t.nodes[k] = rows[k] /\ rows[k] # None
      BY <1>3, <1>4
    <3>4. \A k \in NodeKeys : t.nodes[k] # None => k \in new \/ (s.nodes[k] # None /\ t.nodes[k] = s.nodes[k])
      BY <1>4
    <3>5. t.labelIdx = s.labelIdx \cup UNION {LabelKeys(k, rows[k].labels) : k \in new}
      BY <1>1
    <3> QED
      BY <3>1, <3>2, <3>3, <3>4, <3>5, Zenon
  <2>3. ASSUME NEW p \in PlaneIds, NEW key \in Keys, NEW n \in NodeIds
        PROVE  t.extKeys[<<p, key>>] = n <=> t.nodes[<<p, n>>] # None /\ t.nodes[<<p, n>>].key = key
    <3>1. s.extKeys[<<p, key>>] = n <=> s.nodes[<<p, n>>] # None /\ s.nodes[<<p, n>>].key = key
      BY DEF NodesOK, NodeTablesMirror
    <3>2. <<p, n>> \in NodeKeys /\ key # None /\ n # None
      BY Ids DEF NodeKeys
    <3>3. CASE \E k \in new : k[1] = p /\ rows[k].key = key
      <4>1. PICK k \in new : k[1] = p /\ rows[k].key = key
        BY <3>3
      <4>2. t.extKeys[<<p, key>>] = k[2] /\ k = <<p, k[2]>> /\ s.extKeys[<<p, key>>] = None
        BY <1>3, <1>8, <3>2, <4>1
      <4>3. CASE k[2] = n
        BY <1>3, <1>4, <3>2, <4>1, <4>2, <4>3
      <4>4. CASE k[2] # n
        <5>1. CASE <<p, n>> \in new
          <6>1. <<p, n>> # k
            BY <4>4
          <6>2. <<p, rows[<<p, n>>].key>> # <<k[1], rows[k].key>>
            BY <1>3, <3>2, <4>1, <5>1, <6>1
          <6>3. t.nodes[<<p, n>>] = rows[<<p, n>>]
            BY <1>4, <3>2, <5>1
          <6> QED
            BY <4>1, <4>2, <4>4, <6>2, <6>3
        <5>2. CASE <<p, n>> \notin new
          <6>1. t.nodes[<<p, n>>] = s.nodes[<<p, n>>]
            BY <1>4, <3>2, <5>2
          <6> QED
            BY <3>1, <3>2, <4>2, <4>4, <6>1
        <5> QED
          BY <5>1, <5>2
      <4> QED
        BY <4>3, <4>4
    <3>4. CASE \A k \in new : ~ (k[1] = p /\ rows[k].key = key)
      <4>1. t.extKeys[<<p, key>>] = s.extKeys[<<p, key>>]
        BY <1>8, <3>4
      <4>2. CASE <<p, n>> \in new
        <5>1. t.nodes[<<p, n>>] = rows[<<p, n>>] /\ rows[<<p, n>>].key # key
          BY <1>4, <3>2, <3>4, <4>2
        <5>2. s.nodes[<<p, n>>] = None
          BY <1>3, <4>2
        <5> QED
          BY <3>1, <4>1, <5>1, <5>2
      <4>3. CASE <<p, n>> \notin new
        BY <1>4, <3>1, <3>2, <4>1, <4>3
      <4> QED
        BY <4>2, <4>3
    <3> QED
      BY <3>3, <3>4
  <2> QED
    BY <2>1, <2>2, <2>3 DEF NodeTablesMirror, NodeKeys
<1>11. ASSUME NEW k \in NodeKeys, t.nodes[k] # None
       PROVE  /\ k[2] < t.nextNode
              /\ \A i \in DOMAIN t.nodes[k].labels : t.dict.rev[t.nodes[k].labels[i]] # None
  <2>1. CASE k \in new
    <3>1. t.nodes[k] = rows[k]
      BY <1>4, <2>1
    <3>2. k[2] < s.nextNode /\ \A i \in DOMAIN rows[k].labels : s.dict.rev[rows[k].labels[i]] # None
      BY <1>3, <2>1
    <3> QED
      BY <1>1, <3>1, <3>2
  <2>2. CASE k \notin new
    BY <1>1, <1>4, <1>11, <2>2 DEF NodesOK
  <2> QED
    BY <2>1, <2>2
<1>12. t.nextNode \in Nat \ {0} /\ DictOK(t.dict)
  BY <1>1 DEF NodesOK
<1>13. NodesOK(t)
  BY <1>5, <1>7, <1>9, <1>10, <1>11, <1>12 DEF NodesOK
<1> QED
  BY <1>13 DEF t

(* The node tables are as they were, the dictionary and the counter go on.   *)
LEMMA NodesKept ==
  ASSUME NEW s, NEW t, NodesOK(s), NodesSame(s, t), DictOK(t.dict), Grows(s.dict, t.dict),
         t.nextNode \in Nat, s.nextNode <= t.nextNode
  PROVE  NodesOK(t)
<1>1. NodeTablesMirror(t)
  BY DEF NodesOK, NodesSame, NodeTablesMirror
<1>2. ASSUME NEW k \in NodeKeys, t.nodes[k] # None
      PROVE  /\ k[2] < t.nextNode
             /\ \A i \in DOMAIN t.nodes[k].labels : t.dict.rev[t.nodes[k].labels[i]] # None
  <2>1. s.nodes[k] = t.nodes[k] /\ t.nodes[k] \in NodeRow
    BY <1>2 DEF NodesOK, NodesSame, Optional
  <2>2. k[2] < s.nextNode /\ k[2] \in Nat /\ s.nextNode \in Nat
    BY <1>2, <2>1, Ids DEF NodesOK, NodeKeys
  <2>3. ASSUME NEW i \in DOMAIN t.nodes[k].labels
        PROVE  t.dict.rev[t.nodes[k].labels[i]] # None
    <3>1. t.nodes[k].labels[i] \in LabelIds
      BY <2>1, <2>3 DEF NodeRow
    <3>2. s.dict.rev[t.nodes[k].labels[i]] # None
      BY <1>2, <2>1, <2>3 DEF NodesOK
    <3> QED
      BY <3>1, <3>2 DEF Grows
  <2> QED
    BY <2>2, <2>3
<1>3. t.nextNode \in Nat \ {0}
  BY DEF NodesOK
<1> QED
  BY <1>1, <1>2, <1>3 DEF NodesOK, NodesSame

(* The edge tables are as they were, and so is every node that has an edge.  *)
LEMMA EdgesStay ==
  ASSUME NEW s, NEW t, EdgesOK(s), EdgesSame(s, t),
         t.nextEdge \in Nat, s.nextEdge <= t.nextEdge,
         \A k \in EdgeKeys : s.edges[k] # None =>
            t.nodes[<<k[1], s.edges[k].src>>] # None /\ t.nodes[<<k[1], s.edges[k].dst>>] # None
  PROVE  EdgesOK(t)
<1>1. ASSUME NEW k \in EdgeKeys, t.edges[k] # None
      PROVE  /\ k[2] < t.nextEdge
             /\ NodeExists(t, k[1], t.edges[k].src) /\ NodeExists(t, k[1], t.edges[k].dst)
  <2>1. s.edges[k] # None /\ t.edges[k] = s.edges[k]
    BY <1>1 DEF EdgesSame
  <2>2. k[2] < s.nextEdge /\ k[2] \in Nat /\ s.nextEdge \in Nat
    BY <2>1, Ids DEF EdgesOK, EdgeKeys
  <2> QED
    BY <2>1, <2>2 DEF NodeExists
<1>2. AdjacencyMirrors(t)
  BY <1>1 DEF EdgesOK, EdgesSame, AdjacencyMirrors, EdgeKeys
<1>3. t.nextEdge \in Nat \ {0}
  BY DEF EdgesOK
<1> QED
  BY <1>1, <1>2, <1>3 DEF EdgesOK, EdgesSame

LEMMA EdgeEnds ==
  ASSUME NEW s, EdgesOK(s), NEW k \in EdgeKeys, s.edges[k] # None
  PROVE  /\ s.edges[k] \in EdgeRow /\ k[1] \in PlaneIds
         /\ <<k[1], s.edges[k].src>> \in NodeKeys /\ <<k[1], s.edges[k].dst>> \in NodeKeys
         /\ s.nodes[<<k[1], s.edges[k].src>>] # None /\ s.nodes[<<k[1], s.edges[k].dst>>] # None
<1>1. s.edges[k] \in EdgeRow /\ k[1] \in PlaneIds
  BY DEF EdgesOK, Optional, EdgeKeys
<1>2. <<k[1], s.edges[k].src>> \in NodeKeys /\ <<k[1], s.edges[k].dst>> \in NodeKeys
  BY <1>1 DEF EdgeRow, NodeKeys
<1>3. NodeExists(s, k[1], s.edges[k].src) /\ NodeExists(s, k[1], s.edges[k].dst)
  BY DEF EdgesOK, AdjacencyMirrors, EdgeKeys
<1> QED
  BY <1>1, <1>2, <1>3 DEF NodeExists

LEMMA EdgesKept ==
  ASSUME NEW s, NEW t, EdgesOK(s), EdgesSame(s, t),
         t.nextEdge \in Nat, s.nextEdge <= t.nextEdge,
         \A k \in NodeKeys : s.nodes[k] # None => t.nodes[k] # None
  PROVE  EdgesOK(t)
<1>1. \A k \in EdgeKeys : s.edges[k] # None =>
         t.nodes[<<k[1], s.edges[k].src>>] # None /\ t.nodes[<<k[1], s.edges[k].dst>>] # None
  BY EdgeEnds
<1> QED
  BY <1>1, EdgesStay

LEMMA PlanesKept ==
  ASSUME NEW s, NEW t, PlanesOK(s), PlanesSame(s, t)
  PROVE  PlanesOK(t)
  BY DEF PlanesOK, PlanesSame

LEMMA GrowsSelf ==
  ASSUME NEW d
  PROVE  Grows(d, d)
  BY DEF Grows

LEMMA LabelKeyOf ==
  ASSUME NEW k, NEW lids, NEW x \in LabelKeys(k, lids)
  PROVE  x[1] = k[1] /\ x[3] = k[2]
  BY DEF LabelKeys

(* set_node_labels.                                                          *)
LEMMA SetNodeLabelsIs ==
  ASSUME NEW s, Shaped(s), NEW lists
  PROVE  LET t == SetNodeLabels(s, lists)
             set == DOMAIN lists
         IN  /\ Shaped(t) /\ EdgesSame(s, t) /\ PlanesSame(s, t)
             /\ t.nextNode = s.nextNode /\ t.nextEdge = s.nextEdge /\ t.dict = s.dict
             /\ t.counters = s.counters /\ t.seq = s.seq
             /\ t.nodes = [k \in DOMAIN s.nodes |->
                    IF k \in set THEN [s.nodes[k] EXCEPT !.labels = lists[k]] ELSE s.nodes[k]]
             /\ t.nodePlane = s.nodePlane /\ t.extKeys = s.extKeys
             /\ t.labelIdx = (s.labelIdx \ UNION {LabelKeys(k, s.nodes[k].labels) : k \in set})
                             \cup UNION {LabelKeys(k, lists[k]) : k \in set}
<1> DEFINE set == DOMAIN lists
           a == [k \in DOMAIN s.nodes |->
                    IF k \in set THEN [s.nodes[k] EXCEPT !.labels = lists[k]] ELSE s.nodes[k]]
           c == (s.labelIdx \ UNION {LabelKeys(k, s.nodes[k].labels) : k \in set})
                \cup UNION {LabelKeys(k, lists[k]) : k \in set}
           t == SetNodeLabels(s, lists)
<1>1. t = [s EXCEPT !.nodes = a, !.labelIdx = c]
  BY DEF SetNodeLabels
<1>2. /\ Shaped(t) /\ EdgesSame(s, t) /\ PlanesSame(s, t)
      /\ t.nextNode = s.nextNode /\ t.nextEdge = s.nextEdge /\ t.dict = s.dict
      /\ t.counters = s.counters /\ t.seq = s.seq
      /\ t.nodes = a /\ t.nodePlane = s.nodePlane /\ t.labelIdx = c /\ t.extKeys = s.extKeys
  <2> HIDE DEF a, c
  <2> QED
    BY <1>1 DEF Shaped, TableNames, EdgesSame, PlanesSame
<1> HIDE DEF t
<1>3. t = SetNodeLabels(s, lists)
  BY DEF t
<1> QED
  BY <1>2, <1>3, Zenon

LEMMA SetNodeLabelsOK ==
  ASSUME NEW s, Shaped(s), NodesOK(s), NEW lists, DOMAIN lists \subseteq NodeKeys,
         \A k \in DOMAIN lists :
            /\ s.nodes[k] # None
            /\ lists[k] \in Seq(LabelIds)
            /\ \A i \in DOMAIN lists[k] : s.dict.rev[lists[k][i]] # None
  PROVE  /\ NodesOK(SetNodeLabels(s, lists))
         /\ \A k \in NodeKeys : SetNodeLabels(s, lists).nodes[k] # None <=> s.nodes[k] # None
<1> DEFINE t == SetNodeLabels(s, lists)
           set == DOMAIN lists
<1>1. /\ t.nextNode = s.nextNode /\ t.dict = s.dict
      /\ t.nodes = [k \in DOMAIN s.nodes |->
             IF k \in set THEN [s.nodes[k] EXCEPT !.labels = lists[k]] ELSE s.nodes[k]]
      /\ t.nodePlane = s.nodePlane /\ t.extKeys = s.extKeys
      /\ t.labelIdx = (s.labelIdx \ UNION {LabelKeys(k, s.nodes[k].labels) : k \in set})
                      \cup UNION {LabelKeys(k, lists[k]) : k \in set}
  BY SetNodeLabelsIs
<1> HIDE DEF t
<1>2. s.nodes \in [NodeKeys -> Optional(NodeRow)]
  BY DEF NodesOK
<1>3. ASSUME NEW k \in set
      PROVE  /\ k \in NodeKeys /\ s.nodes[k] \in NodeRow
             /\ t.nodes[k] \in NodeRow /\ t.nodes[k] # None
             /\ t.nodes[k].key = s.nodes[k].key /\ t.nodes[k].labels = lists[k]
  <2>1. k \in NodeKeys /\ s.nodes[k] \in NodeRow /\ lists[k] \in Seq(LabelIds)
    BY <1>2 DEF Optional
  <2>2. t.nodes[k] = [s.nodes[k] EXCEPT !.labels = lists[k]]
    BY <1>1, <1>2, <2>1
  <2>3. t.nodes[k] \in NodeRow /\ t.nodes[k].key = s.nodes[k].key /\ t.nodes[k].labels = lists[k]
    BY <2>1, <2>2 DEF NodeRow
  <2> QED
    BY <2>1, <2>3, Ids
<1>4. ASSUME NEW k \in NodeKeys, k \notin set
      PROVE  t.nodes[k] = s.nodes[k]
  BY <1>1, <1>2, <1>4
<1>5. \A k \in NodeKeys : t.nodes[k] # None <=> s.nodes[k] # None
  BY <1>3, <1>4
<1>6. t.nodes \in [NodeKeys -> Optional(NodeRow)]
  <2>1. t.nodes = [k \in NodeKeys |-> t.nodes[k]]
    BY <1>1, <1>2
  <2>2. \A k \in NodeKeys : t.nodes[k] \in Optional(NodeRow)
    BY <1>2, <1>3, <1>4 DEF Optional
  <2> QED
    BY <2>1, <2>2
<1>7. \A k \in NodeKeys : t.nodes[k] # None => t.nodes[k].key = s.nodes[k].key
  BY <1>3, <1>4
<1>8. ASSUME NEW p \in PlaneIds, NEW n \in NodeIds
      PROVE  /\ t.nodes[<<p, n>>] # None <=> t.nodePlane[n] = p
             /\ \A key \in Keys : t.extKeys[<<p, key>>] = n <=>
                   t.nodes[<<p, n>>] # None /\ t.nodes[<<p, n>>].key = key
  <2>1. <<p, n>> \in NodeKeys
    BY DEF NodeKeys
  <2>2. /\ s.nodes[<<p, n>>] # None <=> s.nodePlane[n] = p
        /\ \A key \in Keys : s.extKeys[<<p, key>>] = n <=>
              s.nodes[<<p, n>>] # None /\ s.nodes[<<p, n>>].key = key
    BY DEF NodesOK, NodeTablesMirror
  <2> QED
    BY <1>1, <1>5, <1>7, <2>1, <2>2
<1>9. t.labelIdx = UNION {LabelKeys(k, t.nodes[k].labels) : k \in {k \in NodeKeys : t.nodes[k] # None}}
  <2> DEFINE Old == UNION {LabelKeys(k, s.nodes[k].labels) : k \in set}
             Put == UNION {LabelKeys(k, lists[k]) : k \in set}
             All == UNION {LabelKeys(k, t.nodes[k].labels) : k \in {k \in NodeKeys : t.nodes[k] # None}}
  <2>1. s.labelIdx = UNION {LabelKeys(k, s.nodes[k].labels) : k \in {k \in NodeKeys : s.nodes[k] # None}}
    BY DEF NodesOK, NodeTablesMirror, NodeKeys
  <2>2. t.labelIdx = (s.labelIdx \ Old) \cup Put
    BY <1>1
  <2>3. ASSUME NEW x \in t.labelIdx
        PROVE  x \in All
    <3>1. CASE x \in Put
      <4>1. PICK k \in set : x \in LabelKeys(k, lists[k])
        BY <3>1
      <4>2. k \in NodeKeys /\ t.nodes[k] # None /\ x \in LabelKeys(k, t.nodes[k].labels)
        BY <1>3, <4>1
      <4> QED
        BY <4>2, Zenon
    <3>2. CASE x \in s.labelIdx /\ x \notin Old
      <4>1. PICK k \in NodeKeys : s.nodes[k] # None /\ x \in LabelKeys(k, s.nodes[k].labels)
        BY <2>1, <3>2
      <4>2. k \notin set
        BY <3>2, <4>1
      <4>3. t.nodes[k] # None /\ x \in LabelKeys(k, t.nodes[k].labels)
        BY <1>4, <4>1, <4>2
      <4> QED
        BY <4>3, Zenon
    <3> QED
      BY <2>2, <2>3, <3>1, <3>2
  <2>4. ASSUME NEW x \in All
        PROVE  x \in t.labelIdx
    <3>1. PICK k \in NodeKeys : t.nodes[k] # None /\ x \in LabelKeys(k, t.nodes[k].labels)
      OBVIOUS
    <3>2. CASE k \in set
      <4>1. x \in LabelKeys(k, lists[k])
        BY <1>3, <3>1, <3>2
      <4> QED
        BY <2>2, <3>2, <4>1, Zenon
    <3>3. CASE k \notin set
      <4>1. s.nodes[k] # None /\ x \in LabelKeys(k, s.nodes[k].labels)
        BY <1>4, <3>1, <3>3
      <4>2. x \in s.labelIdx
        BY <2>1, <4>1, Zenon
      <4>3. x \notin Old
        <5> SUFFICES ASSUME NEW j \in set, x \in LabelKeys(j, s.nodes[j].labels)
                     PROVE  FALSE
          OBVIOUS
        <5>1. j[1] = k[1] /\ j[2] = k[2]
          BY <4>1, LabelKeyOf
        <5>2. j \in NodeKeys
          BY <1>3
        <5>3. j = k
          BY <5>1, <5>2 DEF NodeKeys
        <5> QED
          BY <3>3, <5>3
      <4> QED
        BY <2>2, <4>2, <4>3
    <3> QED
      BY <3>2, <3>3
  <2> QED
    BY <2>3, <2>4
<1>10. NodeTablesMirror(t)
  BY <1>8, <1>9 DEF NodeTablesMirror, NodeKeys
<1>11. ASSUME NEW k \in NodeKeys, t.nodes[k] # None
       PROVE  /\ k[2] < t.nextNode
              /\ \A i \in DOMAIN t.nodes[k].labels : t.dict.rev[t.nodes[k].labels[i]] # None
  <2>1. s.nodes[k] # None
    BY <1>5, <1>11
  <2>2. k[2] < t.nextNode
    BY <1>1, <2>1 DEF NodesOK
  <2>3. CASE k \in set
    <3>1. t.nodes[k].labels = lists[k]
      BY <1>3, <2>3
    <3>2. \A i \in DOMAIN lists[k] : s.dict.rev[lists[k][i]] # None
      BY <2>3
    <3> QED
      BY <1>1, <2>2, <3>1, <3>2
  <2>4. CASE k \notin set
    BY <1>1, <1>4, <2>1, <2>2, <2>4 DEF NodesOK
  <2> QED
    BY <2>3, <2>4
<1>12. NodesOK(t)
  BY <1>1, <1>6, <1>10, <1>11 DEF NodesOK
<1> QED
  BY <1>5, <1>12 DEF t

(* delete_node, once its edges are gone.                                     *)
LEMMA ForgetNodeIs ==
  ASSUME NEW s, Shaped(s), NEW p \in PlaneIds, NEW n \in NodeIds,
         NEW row, row = s.nodes[<<p, n>>], NEW t, t = ForgetNode(s, p, n)
  PROVE  /\ Shaped(t) /\ EdgesSame(s, t) /\ PlanesSame(s, t)
         /\ t.nextNode = s.nextNode /\ t.nextEdge = s.nextEdge /\ t.dict = s.dict
         /\ t.counters = s.counters /\ t.seq = s.seq
         /\ t.nodes = [k \in DOMAIN s.nodes |-> IF k = <<p, n>> THEN None ELSE s.nodes[k]]
         /\ t.nodePlane = [m \in DOMAIN s.nodePlane |-> IF m = n THEN None ELSE s.nodePlane[m]]
         /\ t.labelIdx = s.labelIdx \ LabelKeys(<<p, n>>, row.labels)
         /\ t.extKeys = [x \in DOMAIN s.extKeys |->
                IF x = <<p, row.key>> /\ s.extKeys[x] = n THEN None ELSE s.extKeys[x]]
<1> DEFINE a == [k \in DOMAIN s.nodes |-> IF k = <<p, n>> THEN None ELSE s.nodes[k]]
           b == [m \in DOMAIN s.nodePlane |-> IF m = n THEN None ELSE s.nodePlane[m]]
           c == s.labelIdx \ LabelKeys(<<p, n>>, row.labels)
           d == [x \in DOMAIN s.extKeys |->
                    IF x = <<p, row.key>> /\ s.extKeys[x] = n THEN None ELSE s.extKeys[x]]
<1>0. a = [s.nodes EXCEPT ![<<p, n>>] = None] /\ b = [s.nodePlane EXCEPT ![n] = None]
  OBVIOUS
<1>1. t = [s EXCEPT !.labelIdx = c, !.extKeys = d, !.nodePlane = b, !.nodes = a]
  <2>1. t = [s EXCEPT !.labelIdx = c, !.extKeys = d,
                      !.nodePlane = [s.nodePlane EXCEPT ![n] = None],
                      !.nodes = [s.nodes EXCEPT ![<<p, n>>] = None]]
    BY DEF ForgetNode
  <2> QED
    BY <1>0, <2>1
<1>2. /\ Shaped(t) /\ EdgesSame(s, t) /\ PlanesSame(s, t)
      /\ t.nextNode = s.nextNode /\ t.nextEdge = s.nextEdge /\ t.dict = s.dict
      /\ t.counters = s.counters /\ t.seq = s.seq
      /\ t.nodes = a /\ t.nodePlane = b /\ t.labelIdx = c /\ t.extKeys = d
  <2> HIDE DEF a, b, c, d
  <2> QED
    BY <1>1 DEF Shaped, TableNames, EdgesSame, PlanesSame
<1> QED
  BY <1>2

LEMMA ForgetNodeOK ==
  ASSUME NEW s, Shaped(s), NodesOK(s), NEW p \in PlaneIds, NEW n \in NodeIds,
         s.nodes[<<p, n>>] # None
  PROVE  LET t == ForgetNode(s, p, n)
         IN  /\ NodesOK(t) /\ Shaped(t) /\ EdgesSame(s, t) /\ PlanesSame(s, t)
             /\ t.nextNode = s.nextNode /\ t.nextEdge = s.nextEdge /\ t.dict = s.dict
             /\ \A k \in NodeKeys : t.nodes[k] = IF k = <<p, n>> THEN None ELSE s.nodes[k]
<1> DEFINE t == ForgetNode(s, p, n)
           row == s.nodes[<<p, n>>]
<1>a. t = ForgetNode(s, p, n) /\ row = s.nodes[<<p, n>>]
  OBVIOUS
<1> HIDE DEF t, row
<1>b. Shaped(t)
  BY <1>a, ForgetNodeIs
<1>c. EdgesSame(s, t) /\ PlanesSame(s, t) /\ t.nextEdge = s.nextEdge
  <2>1. EdgesSame(s, t)
    BY <1>a, ForgetNodeIs
  <2>2. PlanesSame(s, t)
    BY <1>a, ForgetNodeIs
  <2>3. t.nextEdge = s.nextEdge
    BY <1>a, SMT DEF ForgetNode, Shaped, TableNames
  <2> QED
    BY <2>1, <2>2, <2>3
<1>1. /\ t.nextNode = s.nextNode /\ t.dict = s.dict
      /\ t.nodes = [k \in DOMAIN s.nodes |-> IF k = <<p, n>> THEN None ELSE s.nodes[k]]
      /\ t.nodePlane = [m \in DOMAIN s.nodePlane |-> IF m = n THEN None ELSE s.nodePlane[m]]
      /\ t.labelIdx = s.labelIdx \ LabelKeys(<<p, n>>, row.labels)
      /\ t.extKeys = [x \in DOMAIN s.extKeys |->
             IF x = <<p, row.key>> /\ s.extKeys[x] = n THEN None ELSE s.extKeys[x]]
  BY <1>a, ForgetNodeIs
<1> USE DEF row
<1>2. /\ s.nodes \in [NodeKeys -> Optional(NodeRow)]
      /\ s.nodePlane \in [NodeIds -> Optional(PlaneIds)]
      /\ s.extKeys \in [PlaneIds \X Keys -> Optional(NodeIds)]
      /\ <<p, n>> \in NodeKeys
  BY DEF NodesOK, NodeKeys
<1>3. /\ t.nodes[<<p, n>>] = None
      /\ \A k \in NodeKeys : k # <<p, n>> => t.nodes[k] = s.nodes[k]
  BY <1>1, <1>2
<1>4. t.nodes \in [NodeKeys -> Optional(NodeRow)]
  BY <1>1, <1>2 DEF Optional
<1>5. t.nodePlane \in [NodeIds -> Optional(PlaneIds)]
  BY <1>1, <1>2 DEF Optional
<1>6. ASSUME NEW q \in PlaneIds, NEW key \in Keys
      PROVE  /\ t.extKeys[<<q, key>>] = IF q = p /\ key = row.key /\ s.extKeys[<<q, key>>] = n
                                        THEN None ELSE s.extKeys[<<q, key>>]
             /\ t.extKeys[<<q, key>>] \in Optional(NodeIds)
  <2>1. <<q, key>> \in DOMAIN s.extKeys /\ s.extKeys[<<q, key>>] \in Optional(NodeIds)
    BY <1>2
  <2>2. <<q, key>> = <<p, row.key>> <=> q = p /\ key = row.key
    OBVIOUS
  <2>3. t.extKeys[<<q, key>>] = IF <<q, key>> = <<p, row.key>> /\ s.extKeys[<<q, key>>] = n
                                THEN None ELSE s.extKeys[<<q, key>>]
    BY <1>1, <2>1
  <2> QED
    BY <2>1, <2>2, <2>3 DEF Optional
<1>7. t.extKeys \in [PlaneIds \X Keys -> Optional(NodeIds)]
  <2>1. t.extKeys = [x \in PlaneIds \X Keys |-> t.extKeys[x]]
    BY <1>1, <1>2
  <2>2. \A x \in PlaneIds \X Keys : t.extKeys[x] \in Optional(NodeIds)
    <3> SUFFICES ASSUME NEW q \in PlaneIds, NEW key \in Keys
                 PROVE  t.extKeys[<<q, key>>] \in Optional(NodeIds)
      OBVIOUS
    <3> QED
      BY <1>6
  <2> QED
    BY <2>1, <2>2
<1>8. ASSUME NEW q \in PlaneIds, NEW m \in NodeIds
      PROVE  t.nodes[<<q, m>>] # None <=> t.nodePlane[m] = q
  <2>1. s.nodes[<<q, m>>] # None <=> s.nodePlane[m] = q
    BY DEF NodesOK, NodeTablesMirror
  <2>2. s.nodePlane[n] = p
    BY DEF NodesOK, NodeTablesMirror
  <2>3. q # None /\ <<q, m>> \in NodeKeys
    BY Ids DEF NodeKeys
  <2>4. CASE m = n
    <3>1. t.nodePlane[m] = None
      BY <1>1, <1>2, <2>4
    <3>2. t.nodes[<<q, m>>] = None
      <4>1. CASE q = p
        BY <1>3, <2>4, <4>1
      <4>2. CASE q # p
        <5>1. <<q, m>> # <<p, n>> /\ s.nodes[<<q, m>>] = None
          BY <2>1, <2>2, <2>4, <4>2
        <5> QED
          BY <1>3, <2>3, <5>1
      <4> QED
        BY <4>1, <4>2
    <3> QED
      BY <2>3, <3>1, <3>2
  <2>5. CASE m # n
    <3>1. t.nodePlane[m] = s.nodePlane[m] /\ <<q, m>> # <<p, n>>
      BY <1>1, <1>2, <2>5
    <3> QED
      BY <1>3, <2>1, <2>3, <3>1
  <2> QED
    BY <2>4, <2>5
<1>9. ASSUME NEW q \in PlaneIds, NEW key \in Keys, NEW m \in NodeIds
      PROVE  t.extKeys[<<q, key>>] = m <=> t.nodes[<<q, m>>] # None /\ t.nodes[<<q, m>>].key = key
  <2>1. /\ s.extKeys[<<q, key>>] = m <=> s.nodes[<<q, m>>] # None /\ s.nodes[<<q, m>>].key = key
        /\ s.extKeys[<<q, key>>] = n <=> s.nodes[<<q, n>>] # None /\ s.nodes[<<q, n>>].key = key
    BY DEF NodesOK, NodeTablesMirror
  <2>2. m # None /\ n # None /\ <<q, m>> \in NodeKeys
    BY Ids DEF NodeKeys
  <2>3. CASE <<q, m>> = <<p, n>>
    <3>1. q = p /\ m = n
      BY <2>3
    <3> QED
      BY <1>3, <1>6, <2>1, <2>2, <3>1
  <2>4. CASE <<q, m>> # <<p, n>>
    <3>1. t.nodes[<<q, m>>] = s.nodes[<<q, m>>]
      BY <1>3, <2>2, <2>4
    <3>2. CASE q = p /\ key = row.key /\ s.extKeys[<<q, key>>] = n
      <4>1. m # n
        BY <2>4, <3>2
      <4> QED
        BY <1>6, <2>1, <2>2, <3>1, <3>2, <4>1
    <3>3. CASE ~ (q = p /\ key = row.key /\ s.extKeys[<<q, key>>] = n)
      BY <1>6, <2>1, <3>1, <3>3
    <3> QED
      BY <3>2, <3>3
  <2> QED
    BY <2>3, <2>4
<1>10. t.labelIdx = UNION {LabelKeys(k, t.nodes[k].labels) : k \in {k \in NodeKeys : t.nodes[k] # None}}
  <2> DEFINE All == UNION {LabelKeys(k, t.nodes[k].labels) : k \in {k \in NodeKeys : t.nodes[k] # None}}
             here == <<p, n>>
  <2>1. s.labelIdx = UNION {LabelKeys(k, s.nodes[k].labels) : k \in {k \in NodeKeys : s.nodes[k] # None}}
    BY DEF NodesOK, NodeTablesMirror, NodeKeys
  <2>2. t.labelIdx = s.labelIdx \ LabelKeys(here, row.labels)
    BY <1>1
  <2>3. ASSUME NEW x \in t.labelIdx
        PROVE  x \in All
    <3>1. PICK k \in NodeKeys : s.nodes[k] # None /\ x \in LabelKeys(k, s.nodes[k].labels)
      BY <2>1, <2>2, <2>3
    <3>2. k # here
      BY <2>2, <2>3, <3>1
    <3>3. t.nodes[k] # None /\ x \in LabelKeys(k, t.nodes[k].labels)
      BY <1>3, <3>1, <3>2
    <3> QED
      BY <3>3, Zenon
  <2>4. ASSUME NEW x \in All
        PROVE  x \in t.labelIdx
    <3>1. PICK k \in NodeKeys : t.nodes[k] # None /\ x \in LabelKeys(k, t.nodes[k].labels)
      OBVIOUS
    <3>2. k # here
      BY <1>3, <3>1
    <3>3. s.nodes[k] # None /\ x \in LabelKeys(k, s.nodes[k].labels)
      BY <1>3, <3>1, <3>2
    <3>4. x \in s.labelIdx
      BY <2>1, <3>3, Zenon
    <3>5. x \notin LabelKeys(here, row.labels)
      <4> SUFFICES ASSUME x \in LabelKeys(here, row.labels)
                   PROVE  FALSE
        OBVIOUS
      <4>1. here[1] = k[1] /\ here[2] = k[2]
        BY <3>3, LabelKeyOf
      <4>2. here = k
        BY <4>1, <1>2 DEF NodeKeys
      <4> QED
        BY <3>2, <4>2
    <3> QED
      BY <2>2, <3>4, <3>5
  <2> QED
    BY <2>3, <2>4
<1>11. NodeTablesMirror(t)
  BY <1>8, <1>9, <1>10 DEF NodeTablesMirror, NodeKeys
<1>12. ASSUME NEW k \in NodeKeys, t.nodes[k] # None
       PROVE  /\ k[2] < t.nextNode
              /\ \A i \in DOMAIN t.nodes[k].labels : t.dict.rev[t.nodes[k].labels[i]] # None
  <2>1. t.nodes[k] = s.nodes[k]
    BY <1>3, <1>12
  <2> QED
    BY <1>1, <1>12, <2>1 DEF NodesOK
<1>13. t.nextNode \in Nat \ {0} /\ DictOK(t.dict)
  BY <1>1 DEF NodesOK
<1>14. NodesOK(t)
  BY <1>4, <1>5, <1>7, <1>11, <1>12, <1>13 DEF NodesOK
<1>15. \A k \in NodeKeys : t.nodes[k] = IF k = <<p, n>> THEN None ELSE s.nodes[k]
  BY <1>3
<1> QED
  BY <1>b, <1>c, <1>1, <1>14, <1>15 DEF t

-------------------------------------------------------------------------------
(* The tables of the edges.                                                  *)

(* The edges of a store, as the properties speak of them.                    *)
LEMMA AdjacencyIs ==
  ASSUME NEW s
  PROVE  AdjacencyMirrors(s) <=>
           /\ s.adjFwd = {Fwd(k, s.edges[k]) : k \in {k \in EdgeKeys : s.edges[k] # None}}
           /\ s.adjRev = {Rev(k, s.edges[k]) : k \in {k \in EdgeKeys : s.edges[k] # None}}
           /\ \A k \in EdgeKeys : s.edges[k] # None =>
                 NodeExists(s, k[1], s.edges[k].src) /\ NodeExists(s, k[1], s.edges[k].dst)
  BY DEF AdjacencyMirrors, EdgeKeys

(* An adjacency key names its edge.                                          *)
LEMMA EdgeOf ==
  ASSUME NEW k \in EdgeKeys, NEW row
  PROVE  /\ <<Fwd(k, row)[1], Fwd(k, row)[5]>> = k
         /\ <<Rev(k, row)[1], Rev(k, row)[5]>> = k
  BY DEF Fwd, Rev, EdgeKeys

LEMMA InsertEdgesIs ==
  ASSUME NEW s, Shaped(s), NEW rows
  PROVE  LET t == InsertEdges(s, rows)
         IN  /\ Shaped(t) /\ NodesSame(s, t) /\ PlanesSame(s, t)
             /\ t.nextNode = s.nextNode /\ t.nextEdge = s.nextEdge /\ t.dict = s.dict
             /\ t.counters = s.counters /\ t.seq = s.seq
             /\ t.edges = Under(s.edges, rows)
             /\ t.adjFwd = s.adjFwd \cup {Fwd(k, rows[k]) : k \in DOMAIN rows}
             /\ t.adjRev = s.adjRev \cup {Rev(k, rows[k]) : k \in DOMAIN rows}
<1> DEFINE a == Under(s.edges, rows)
           b == s.adjFwd \cup {Fwd(k, rows[k]) : k \in DOMAIN rows}
           c == s.adjRev \cup {Rev(k, rows[k]) : k \in DOMAIN rows}
           t == InsertEdges(s, rows)
<1>1. t = [s EXCEPT !.edges = a, !.adjFwd = b, !.adjRev = c]
  BY DEF InsertEdges
<1>2. /\ Shaped(t) /\ NodesSame(s, t) /\ PlanesSame(s, t)
      /\ t.nextNode = s.nextNode /\ t.nextEdge = s.nextEdge /\ t.dict = s.dict
      /\ t.counters = s.counters /\ t.seq = s.seq
      /\ t.edges = a /\ t.adjFwd = b /\ t.adjRev = c
  <2> HIDE DEF a, b, c
  <2> QED
    BY <1>1 DEF Shaped, TableNames, NodesSame, PlanesSame
<1> HIDE DEF t
<1>3. t = InsertEdges(s, rows)
  BY DEF t
<1> QED
  BY <1>2, <1>3, Zenon

(* New edges between nodes that are there.                                   *)
LEMMA InsertEdgesOK ==
  ASSUME NEW s, Shaped(s), EdgesOK(s), NEW rows, DOMAIN rows \subseteq EdgeKeys,
         \A k \in DOMAIN rows :
            /\ rows[k] \in EdgeRow
            /\ s.edges[k] = None
            /\ k[2] < s.nextEdge
            /\ NodeExists(s, k[1], rows[k].src) /\ NodeExists(s, k[1], rows[k].dst)
  PROVE  EdgesOK(InsertEdges(s, rows))
<1> DEFINE t == InsertEdges(s, rows)
           new == DOMAIN rows
<1>1. /\ NodesSame(s, t) /\ t.nextEdge = s.nextEdge
      /\ t.edges = Under(s.edges, rows)
      /\ t.adjFwd = s.adjFwd \cup {Fwd(k, rows[k]) : k \in DOMAIN rows}
      /\ t.adjRev = s.adjRev \cup {Rev(k, rows[k]) : k \in DOMAIN rows}
  BY InsertEdgesIs
<1> HIDE DEF t
<1>2. s.edges \in [EdgeKeys -> Optional(EdgeRow)]
  BY DEF EdgesOK
<1>3. \A k \in EdgeKeys : t.edges[k] = IF k \in new THEN rows[k] ELSE s.edges[k]
  BY <1>1, <1>2 DEF Under
<1>4. \A k \in new : k \in EdgeKeys /\ rows[k] \in EdgeRow /\ rows[k] # None
  BY Ids
<1>5. t.edges \in [EdgeKeys -> Optional(EdgeRow)]
  <2>1. t.edges = [k \in EdgeKeys |-> t.edges[k]]
    BY <1>1, <1>2 DEF Under
  <2>2. \A k \in EdgeKeys : t.edges[k] \in Optional(EdgeRow)
    BY <1>2, <1>3, <1>4 DEF Optional
  <2> QED
    BY <2>1, <2>2
<1>6. \A k \in EdgeKeys : s.edges[k] # None => k \notin new /\ t.edges[k] = s.edges[k]
  BY <1>3
<1>7. \A k \in EdgeKeys : t.edges[k] # None =>
         k \in new \/ (s.edges[k] # None /\ t.edges[k] = s.edges[k])
  BY <1>3
<1>8. \A k \in new : k \in EdgeKeys /\ t.edges[k] = rows[k] /\ t.edges[k] # None
  BY <1>3, <1>4
<1>9. /\ s.adjFwd = {Fwd(k, s.edges[k]) : k \in {k \in EdgeKeys : s.edges[k] # None}}
      /\ s.adjRev = {Rev(k, s.edges[k]) : k \in {k \in EdgeKeys : s.edges[k] # None}}
      /\ \A k \in EdgeKeys : s.edges[k] # None =>
            NodeExists(s, k[1], s.edges[k].src) /\ NodeExists(s, k[1], s.edges[k].dst)
  BY AdjacencyIs DEF EdgesOK
<1>10. t.adjFwd = {Fwd(k, t.edges[k]) : k \in {k \in EdgeKeys : t.edges[k] # None}}
  BY <1>1, <1>6, <1>7, <1>8, <1>9
<1>11. t.adjRev = {Rev(k, t.edges[k]) : k \in {k \in EdgeKeys : t.edges[k] # None}}
  BY <1>1, <1>6, <1>7, <1>8, <1>9
<1>12. ASSUME NEW k \in EdgeKeys, t.edges[k] # None
       PROVE  /\ NodeExists(t, k[1], t.edges[k].src) /\ NodeExists(t, k[1], t.edges[k].dst)
              /\ k[2] < t.nextEdge
  <2>1. CASE k \in new
    <3>1. t.edges[k] = rows[k]
      BY <1>8, <2>1
    <3>2. /\ NodeExists(s, k[1], rows[k].src) /\ NodeExists(s, k[1], rows[k].dst)
          /\ k[2] < s.nextEdge
      BY <2>1
    <3> QED
      BY <1>1, <3>1, <3>2 DEF NodeExists, NodesSame
  <2>2. CASE k \notin new
    <3>1. s.edges[k] # None /\ t.edges[k] = s.edges[k]
      BY <1>7, <1>12, <2>2
    <3>2. k[2] < s.nextEdge
      BY <3>1 DEF EdgesOK
    <3> QED
      BY <1>1, <1>9, <3>1, <3>2 DEF NodeExists, NodesSame
  <2> QED
    BY <2>1, <2>2
<1>13. AdjacencyMirrors(t)
  BY <1>10, <1>11, <1>12, AdjacencyIs
<1>14. t.nextEdge \in Nat \ {0}
  BY <1>1 DEF EdgesOK
<1>15. EdgesOK(t)
  BY <1>5, <1>12, <1>13, <1>14 DEF EdgesOK
<1> QED
  BY <1>15 DEF t

LEMMA DeleteEdgesIs ==
  ASSUME NEW s, Shaped(s), NEW gone
  PROVE  LET t == DeleteEdges(s, gone)
             there == {k \in gone : s.edges[k] # None}
         IN  /\ Shaped(t) /\ NodesSame(s, t) /\ PlanesSame(s, t)
             /\ t.nextNode = s.nextNode /\ t.nextEdge = s.nextEdge /\ t.dict = s.dict
             /\ t.counters = s.counters /\ t.seq = s.seq
             /\ t.edges = [k \in DOMAIN s.edges |-> IF k \in there THEN None ELSE s.edges[k]]
             /\ t.adjFwd = s.adjFwd \ {Fwd(k, s.edges[k]) : k \in there}
             /\ t.adjRev = s.adjRev \ {Rev(k, s.edges[k]) : k \in there}
<1> DEFINE there == {k \in gone : s.edges[k] # None}
           a == [k \in DOMAIN s.edges |-> IF k \in there THEN None ELSE s.edges[k]]
           b == s.adjFwd \ {Fwd(k, s.edges[k]) : k \in there}
           c == s.adjRev \ {Rev(k, s.edges[k]) : k \in there}
           t == DeleteEdges(s, gone)
<1>1. t = [s EXCEPT !.edges = a, !.adjFwd = b, !.adjRev = c]
  BY DEF DeleteEdges
<1>2. /\ Shaped(t) /\ NodesSame(s, t) /\ PlanesSame(s, t)
      /\ t.nextNode = s.nextNode /\ t.nextEdge = s.nextEdge /\ t.dict = s.dict
      /\ t.counters = s.counters /\ t.seq = s.seq
      /\ t.edges = a /\ t.adjFwd = b /\ t.adjRev = c
  <2> HIDE DEF a, b, c
  <2> QED
    BY <1>1 DEF Shaped, TableNames, NodesSame, PlanesSame
<1> HIDE DEF t
<1>3. t = DeleteEdges(s, gone)
  BY DEF t
<1> QED
  BY <1>2, <1>3, Zenon

(* delete_edge of any edges: the rest is as it was.                          *)
LEMMA DeleteEdgesOK ==
  ASSUME NEW s, Shaped(s), EdgesOK(s), NEW gone, gone \subseteq EdgeKeys
  PROVE  /\ EdgesOK(DeleteEdges(s, gone))
         /\ \A k \in EdgeKeys : DeleteEdges(s, gone).edges[k] =
                                   IF k \in gone THEN None ELSE s.edges[k]
<1> DEFINE t == DeleteEdges(s, gone)
           there == {k \in gone : s.edges[k] # None}
<1>1. /\ NodesSame(s, t) /\ t.nextEdge = s.nextEdge
      /\ t.edges = [k \in DOMAIN s.edges |-> IF k \in there THEN None ELSE s.edges[k]]
      /\ t.adjFwd = s.adjFwd \ {Fwd(k, s.edges[k]) : k \in there}
      /\ t.adjRev = s.adjRev \ {Rev(k, s.edges[k]) : k \in there}
  BY DeleteEdgesIs
<1> HIDE DEF t
<1>2. s.edges \in [EdgeKeys -> Optional(EdgeRow)]
  BY DEF EdgesOK
<1>3. \A k \in EdgeKeys : t.edges[k] = IF k \in gone THEN None ELSE s.edges[k]
  BY <1>1, <1>2
<1>4. t.edges \in [EdgeKeys -> Optional(EdgeRow)]
  BY <1>1, <1>2 DEF Optional
<1>5. /\ s.adjFwd = {Fwd(k, s.edges[k]) : k \in {k \in EdgeKeys : s.edges[k] # None}}
      /\ s.adjRev = {Rev(k, s.edges[k]) : k \in {k \in EdgeKeys : s.edges[k] # None}}
      /\ \A k \in EdgeKeys : s.edges[k] # None =>
            NodeExists(s, k[1], s.edges[k].src) /\ NodeExists(s, k[1], s.edges[k].dst)
  BY AdjacencyIs DEF EdgesOK
<1>6. \A j, k \in EdgeKeys : Fwd(j, s.edges[j]) = Fwd(k, s.edges[k]) => j = k
  BY EdgeOf
<1>7. \A j, k \in EdgeKeys : Rev(j, s.edges[j]) = Rev(k, s.edges[k]) => j = k
  BY EdgeOf
<1>8. \A k \in EdgeKeys : t.edges[k] # None <=> s.edges[k] # None /\ k \notin there
  BY <1>3
<1>9. \A k \in EdgeKeys : t.edges[k] # None => t.edges[k] = s.edges[k]
  BY <1>3
<1>10. there \subseteq EdgeKeys
  OBVIOUS
<1>11. t.adjFwd = {Fwd(k, t.edges[k]) : k \in {k \in EdgeKeys : t.edges[k] # None}}
  <2> HIDE DEF there
  <2> QED
    BY <1>1, <1>5, <1>6, <1>8, <1>9, <1>10
<1>12. t.adjRev = {Rev(k, t.edges[k]) : k \in {k \in EdgeKeys : t.edges[k] # None}}
  <2> HIDE DEF there
  <2> QED
    BY <1>1, <1>5, <1>7, <1>8, <1>9, <1>10
<1>13. ASSUME NEW k \in EdgeKeys, t.edges[k] # None
       PROVE  /\ NodeExists(t, k[1], t.edges[k].src) /\ NodeExists(t, k[1], t.edges[k].dst)
              /\ k[2] < t.nextEdge
  <2>1. s.edges[k] # None /\ t.edges[k] = s.edges[k]
    BY <1>8, <1>9, <1>13
  <2>2. k[2] < s.nextEdge
    BY <2>1 DEF EdgesOK
  <2> QED
    BY <1>1, <1>5, <2>1, <2>2 DEF NodeExists, NodesSame
<1>14. AdjacencyMirrors(t)
  BY <1>11, <1>12, <1>13, AdjacencyIs
<1>15. t.nextEdge \in Nat \ {0}
  BY <1>1 DEF EdgesOK
<1>16. EdgesOK(t)
  BY <1>4, <1>13, <1>14, <1>15 DEF EdgesOK
<1> QED
  BY <1>3, <1>16 DEF t

LEMMA RowIs ==
  ASSUME NEW k, NEW row
  PROVE  DOMAIN Row(k, row) = {k} /\ Row(k, row)[k] = row
  BY DEF Row

(* set_edge_type: the edge deleted, and made again under its new type.       *)
LEMMA RetypeEdgeIs ==
  ASSUME NEW s, Shaped(s), EdgesOK(s), NEW k \in EdgeKeys, s.edges[k] # None, NEW ty,
         NEW row, row = [src |-> s.edges[k].src, dst |-> s.edges[k].dst, ty |-> ty],
         NEW t, t = RetypeEdge(s, k, ty)
  PROVE  /\ Shaped(t) /\ NodesSame(s, t) /\ PlanesSame(s, t)
         /\ t.nextNode = s.nextNode /\ t.nextEdge = s.nextEdge /\ t.dict = s.dict
         /\ t.counters = s.counters /\ t.seq = s.seq
         /\ t.edges = [j \in EdgeKeys |-> IF j = k THEN row ELSE s.edges[j]]
         /\ t.adjFwd = (s.adjFwd \ {Fwd(k, s.edges[k])}) \cup {Fwd(k, row)}
         /\ t.adjRev = (s.adjRev \ {Rev(k, s.edges[k])}) \cup {Rev(k, row)}
<1> DEFINE a == [j \in EdgeKeys |-> IF j = k THEN row ELSE s.edges[j]]
           b == (s.adjFwd \ {Fwd(k, s.edges[k])}) \cup {Fwd(k, row)}
           c == (s.adjRev \ {Rev(k, s.edges[k])}) \cup {Rev(k, row)}
<1>1. s.edges \in [EdgeKeys -> Optional(EdgeRow)] /\ s.edges[k] \in EdgeRow
  BY DEF EdgesOK, Optional
<1>2. row = [s.edges[k] EXCEPT !.ty = ty]
  BY <1>1 DEF EdgeRow
<1>3. a = [s.edges EXCEPT ![k] = row]
  BY <1>1
<1>4. t = [s EXCEPT !.edges = a, !.adjFwd = b, !.adjRev = c]
  <2>1. t = [s EXCEPT !.edges = [s.edges EXCEPT ![k] = row], !.adjFwd = b, !.adjRev = c]
    BY <1>2 DEF RetypeEdge
  <2> HIDE DEF a, b, c
  <2> QED
    BY <1>3, <2>1
<1>5. /\ Shaped(t) /\ NodesSame(s, t) /\ PlanesSame(s, t)
      /\ t.nextNode = s.nextNode /\ t.nextEdge = s.nextEdge /\ t.dict = s.dict
      /\ t.counters = s.counters /\ t.seq = s.seq
      /\ t.edges = a /\ t.adjFwd = b /\ t.adjRev = c
  <2> HIDE DEF a, b, c
  <2> QED
    BY <1>4 DEF Shaped, TableNames, NodesSame, PlanesSame
<1> QED
  BY <1>5

LEMMA RetypeEdgeOK ==
  ASSUME NEW s, Shaped(s), EdgesOK(s), NEW k \in EdgeKeys, s.edges[k] # None, NEW ty \in Types
  PROVE  EdgesOK(RetypeEdge(s, k, ty))
<1> DEFINE row == [src |-> s.edges[k].src, dst |-> s.edges[k].dst, ty |-> ty]
           t == RetypeEdge(s, k, ty)
<1>1. s.edges \in [EdgeKeys -> Optional(EdgeRow)] /\ s.edges[k] \in EdgeRow
      /\ k[2] < s.nextEdge /\ s.nextEdge \in Nat
  BY DEF EdgesOK, Optional
<1>2. row \in EdgeRow /\ row.src = s.edges[k].src /\ row.dst = s.edges[k].dst
  BY <1>1 DEF EdgeRow
<1>3. /\ NodesSame(s, t) /\ t.nextEdge = s.nextEdge
      /\ t.edges = [j \in EdgeKeys |-> IF j = k THEN row ELSE s.edges[j]]
      /\ t.adjFwd = (s.adjFwd \ {Fwd(k, s.edges[k])}) \cup {Fwd(k, row)}
      /\ t.adjRev = (s.adjRev \ {Rev(k, s.edges[k])}) \cup {Rev(k, row)}
  BY RetypeEdgeIs
<1> HIDE DEF t, row
<1>4. row # None
  BY <1>2, StoreAssumption
<1>5. t.edges \in [EdgeKeys -> Optional(EdgeRow)]
  BY <1>1, <1>2, <1>3 DEF Optional
<1>6. /\ s.adjFwd = {Fwd(j, s.edges[j]) : j \in {j \in EdgeKeys : s.edges[j] # None}}
      /\ s.adjRev = {Rev(j, s.edges[j]) : j \in {j \in EdgeKeys : s.edges[j] # None}}
      /\ \A j \in EdgeKeys : s.edges[j] # None =>
            NodeExists(s, j[1], s.edges[j].src) /\ NodeExists(s, j[1], s.edges[j].dst)
  BY AdjacencyIs DEF EdgesOK
<1>7. \A i, j \in EdgeKeys : Fwd(i, s.edges[i]) = Fwd(j, s.edges[j]) => i = j
  BY EdgeOf
<1>8. \A i, j \in EdgeKeys : Rev(i, s.edges[i]) = Rev(j, s.edges[j]) => i = j
  BY EdgeOf
<1>9. \A j \in EdgeKeys : /\ t.edges[j] # None <=> s.edges[j] # None
                          /\ j # k => t.edges[j] = s.edges[j]
  BY <1>3, <1>4
<1>10. t.edges[k] = row
  BY <1>3
<1>11. t.adjFwd = {Fwd(j, t.edges[j]) : j \in {j \in EdgeKeys : t.edges[j] # None}}
  BY <1>3, <1>6, <1>7, <1>9, <1>10
<1>12. t.adjRev = {Rev(j, t.edges[j]) : j \in {j \in EdgeKeys : t.edges[j] # None}}
  BY <1>3, <1>6, <1>8, <1>9, <1>10
<1>13. ASSUME NEW j \in EdgeKeys, t.edges[j] # None
       PROVE  /\ NodeExists(t, j[1], t.edges[j].src) /\ NodeExists(t, j[1], t.edges[j].dst)
              /\ j[2] < t.nextEdge
  <2>1. /\ s.edges[j] # None
        /\ t.edges[j].src = s.edges[j].src /\ t.edges[j].dst = s.edges[j].dst
    BY <1>2, <1>9, <1>10, <1>13
  <2>2. j[2] < s.nextEdge
    BY <2>1 DEF EdgesOK
  <2> QED
    BY <1>3, <1>6, <2>1, <2>2 DEF NodeExists, NodesSame
<1>14. AdjacencyMirrors(t)
  BY <1>11, <1>12, <1>13, AdjacencyIs
<1>15. t.nextEdge \in Nat \ {0}
  BY <1>3 DEF EdgesOK
<1>16. EdgesOK(t)
  BY <1>5, <1>13, <1>14, <1>15 DEF EdgesOK
<1> QED
  BY <1>16 DEF t

(* The edges that delete_node finds are the node's.                          *)
LEMMA IncidentIs ==
  ASSUME NEW s, EdgesOK(s), NEW p \in PlaneIds, NEW n \in NodeIds
  PROVE  Incident(s, p, n) =
           {k \in EdgeKeys : s.edges[k] # None /\ k[1] = p /\ n \in {s.edges[k].src, s.edges[k].dst}}
<1> DEFINE there == {k \in EdgeKeys : s.edges[k] # None}
<1>1. /\ s.adjFwd = {Fwd(k, s.edges[k]) : k \in there}
      /\ s.adjRev = {Rev(k, s.edges[k]) : k \in there}
  BY AdjacencyIs DEF EdgesOK
<1>2. ASSUME NEW x \in Incident(s, p, n)
      PROVE  /\ x \in there /\ x[1] = p /\ n \in {s.edges[x].src, s.edges[x].dst}
  <2>1. PICK a \in s.adjFwd \cup s.adjRev : a[1] = p /\ a[2] = n /\ x = <<p, a[5]>>
    BY <1>2 DEF Incident
  <2>2. PICK k \in there : a = Fwd(k, s.edges[k]) \/ a = Rev(k, s.edges[k])
    BY <1>1, <2>1
  <2>3. <<a[1], a[5]>> = k
    BY <2>2, EdgeOf
  <2>4. x = k /\ k[1] = p
    BY <2>1, <2>3
  <2>5. a[2] = s.edges[k].src \/ a[2] = s.edges[k].dst
    BY <2>2 DEF Fwd, Rev
  <2> QED
    BY <2>1, <2>2, <2>4, <2>5
<1>3. ASSUME NEW k \in there, k[1] = p, n \in {s.edges[k].src, s.edges[k].dst}
      PROVE  k \in Incident(s, p, n)
  <2>1. \E a \in s.adjFwd \cup s.adjRev : a[1] = p /\ a[2] = n /\ k = <<p, a[5]>>
    <3>1. CASE n = s.edges[k].src
      <4> DEFINE a == Fwd(k, s.edges[k])
      <4>1. a \in s.adjFwd
        BY <1>1
      <4>2. a[1] = p /\ a[2] = n /\ k = <<p, a[5]>>
        BY <1>3, <3>1, EdgeOf DEF Fwd
      <4> QED
        BY <4>1, <4>2
    <3>2. CASE n = s.edges[k].dst
      <4> DEFINE a == Rev(k, s.edges[k])
      <4>1. a \in s.adjRev
        BY <1>1
      <4>2. a[1] = p /\ a[2] = n /\ k = <<p, a[5]>>
        BY <1>3, <3>2, EdgeOf DEF Rev
      <4> QED
        BY <4>1, <4>2
    <3> QED
      BY <1>3, <3>1, <3>2
  <2> QED
    BY <2>1 DEF Incident
<1> QED
  BY <1>2, <1>3

(* delete_node.                                                              *)
LEMMA DeleteNodeRowsOK ==
  ASSUME NEW s, Good(s), NEW p \in PlaneIds, NEW n \in NodeIds, NodeExists(s, p, n),
         NEW t, t = DeleteNodeRows(s, p, n)
  PROVE  /\ Good(t)
         /\ t.nextNode = s.nextNode /\ t.nextEdge = s.nextEdge
         /\ \A k \in NodeKeys : t.nodes[k] = IF k = <<p, n>> THEN None ELSE s.nodes[k]
         /\ \A k \in EdgeKeys : t.edges[k] # None => t.edges[k] = s.edges[k]
<1> DEFINE gone == Incident(s, p, n)
           d == DeleteEdges(s, gone)
<1>1. gone \subseteq EdgeKeys
  BY IncidentIs DEF Good
<1>2. /\ Shaped(d) /\ NodesSame(s, d) /\ PlanesSame(s, d)
      /\ d.nextNode = s.nextNode /\ d.nextEdge = s.nextEdge /\ d.dict = s.dict
  BY DeleteEdgesIs DEF Good
<1>3. EdgesOK(d) /\ \A k \in EdgeKeys : d.edges[k] = IF k \in gone THEN None ELSE s.edges[k]
  BY <1>1, DeleteEdgesOK DEF Good
<1>4. t = ForgetNode(d, p, n)
  BY DEF DeleteNodeRows
<1> HIDE DEF d
<1>5. NodesOK(d) /\ PlanesOK(d)
  <2>1. NodesOK(s) /\ PlanesOK(s) /\ s.nextNode \in Nat /\ DictOK(s.dict)
    BY DEF Good, NodesOK
  <2>2. NodesOK(d)
    BY <1>2, <2>1, GrowsSelf, NodesKept
  <2> QED
    BY <1>2, <2>1, <2>2, PlanesKept
<1>6. d.nodes[<<p, n>>] # None
  BY <1>2 DEF NodesSame, NodeExists
<1>7. /\ NodesOK(t) /\ Shaped(t) /\ EdgesSame(d, t) /\ PlanesSame(d, t)
      /\ t.nextNode = d.nextNode /\ t.nextEdge = d.nextEdge
      /\ \A k \in NodeKeys : t.nodes[k] = IF k = <<p, n>> THEN None ELSE d.nodes[k]
  BY <1>2, <1>4, <1>5, <1>6, ForgetNodeOK
<1>9. d.nodes = s.nodes
  BY <1>2 DEF NodesSame
<1>10. \A k \in NodeKeys : t.nodes[k] = IF k = <<p, n>> THEN None ELSE s.nodes[k]
  BY <1>7, <1>9
<1>11. ASSUME NEW k \in EdgeKeys, d.edges[k] # None
       PROVE  t.nodes[<<k[1], d.edges[k].src>>] # None /\ t.nodes[<<k[1], d.edges[k].dst>>] # None
  <2>1. /\ <<k[1], d.edges[k].src>> \in NodeKeys /\ <<k[1], d.edges[k].dst>> \in NodeKeys
        /\ d.nodes[<<k[1], d.edges[k].src>>] # None /\ d.nodes[<<k[1], d.edges[k].dst>>] # None
    BY <1>3, <1>11, EdgeEnds
  <2>2. k \notin gone /\ d.edges[k] = s.edges[k]
    BY <1>3, <1>11
  <2>3. ~ (k[1] = p /\ n \in {d.edges[k].src, d.edges[k].dst})
    BY <1>11, <2>2, IncidentIs DEF Good
  <2>4. <<k[1], d.edges[k].src>> # <<p, n>> /\ <<k[1], d.edges[k].dst>> # <<p, n>>
    BY <2>3
  <2> QED
    BY <1>9, <1>10, <2>1, <2>4
<1>12. EdgesOK(t)
  <2>1. t.nextEdge \in Nat /\ d.nextEdge <= t.nextEdge
    BY <1>3, <1>7 DEF EdgesOK
  <2> QED
    BY <1>3, <1>7, <1>11, <2>1, EdgesStay
<1>13. PlanesOK(t)
  BY <1>5, <1>7, PlanesKept
<1>14. \A k \in EdgeKeys : t.edges[k] # None => t.edges[k] = s.edges[k]
  BY <1>3, <1>7 DEF EdgesSame
<1> QED
  BY <1>2, <1>7, <1>10, <1>12, <1>13, <1>14 DEF Good

-------------------------------------------------------------------------------
(* The transaction.                                                          *)

(* A store that differs in its counters and in new labels only.              *)
LEMMA StillGood ==
  ASSUME NEW s, Good(s), NEW t, Shaped(t), NodesSame(s, t), EdgesSame(s, t), PlanesSame(s, t),
         DictOK(t.dict), Grows(s.dict, t.dict), t.nextNode \in Nat, s.nextNode <= t.nextNode,
         t.nextEdge \in Nat, s.nextEdge <= t.nextEdge
  PROVE  Good(t)
<1>1. NodesOK(t)
  BY NodesKept DEF Good
<1>2. PlanesOK(t)
  BY PlanesKept DEF Good
<1>3. EdgesOK(t)
  BY EdgesKept DEF Good, NodesSame
<1> QED
  BY <1>1, <1>2, <1>3 DEF Good

(* What a good store says of its counters and its tables.                    *)
LEMMA GoodIs ==
  ASSUME NEW s, Good(s)
  PROVE  /\ s.nextNode \in Nat \ {0} /\ s.nextEdge \in Nat \ {0} /\ DictOK(s.dict)
         /\ s.nodes \in [NodeKeys -> Optional(NodeRow)] /\ DOMAIN s.nodes = NodeKeys
         /\ s.edges \in [EdgeKeys -> Optional(EdgeRow)] /\ DOMAIN s.edges = EdgeKeys
         /\ \A k \in NodeKeys : s.nodes[k] # None => k[2] < s.nextNode
         /\ \A k \in EdgeKeys : s.edges[k] # None => k[2] < s.nextEdge
         /\ Shaped(s) /\ NodesOK(s) /\ EdgesOK(s) /\ PlanesOK(s)
  BY DEF Good, NodesOK, EdgesOK

(* IdBatch::take: an id of the batch in hand or of a new one, never both.    *)
LEMMA TakeIs ==
  ASSUME NEW counter \in Nat \ {0}, NEW before \in Nat \ {0}, before <= counter,
         NEW batch, Reserved(batch, before, counter), NEW t, t = Take(counter, batch)
  PROVE  /\ t.id \in Nat \ {0} /\ before <= t.id /\ t.id < t.counter
         /\ t.counter \in Nat /\ counter <= t.counter
         /\ Reserved(t.batch, before, t.counter)
         /\ ~ InBatch(t.id, t.batch)
         /\ InBatch(t.id, batch) \/ t.id >= counter
         /\ \A id \in Nat : InBatch(id, t.batch) => InBatch(id, batch) \/ id >= counter
<1>1. batch.next \in Nat /\ batch.left \in Nat /\ IdBatchSize \in Nat \ {0}
  BY Ids DEF Reserved, Batch
<1>2. CASE batch.left = 0
  <2>1. /\ t.id = counter /\ t.counter = counter + IdBatchSize
        /\ t.batch = [next |-> counter + 1, left |-> IdBatchSize - 1]
    BY <1>2 DEF Take
  <2>2. t.batch.next = counter + 1 /\ t.batch.left = IdBatchSize - 1 /\ t.batch \in Batch
    BY <1>1, <2>1 DEF Batch
  <2> QED
    BY <1>1, <2>1, <2>2 DEF Reserved, InBatch
<1>3. CASE batch.left # 0
  <2>1. /\ t.id = batch.next /\ t.counter = counter
        /\ t.batch = [next |-> batch.next + 1, left |-> batch.left - 1]
    BY <1>3 DEF Take
  <2>2. t.batch.next = batch.next + 1 /\ t.batch.left = batch.left - 1 /\ t.batch \in Batch
    BY <1>1, <1>3, <2>1 DEF Batch
  <2>3. before <= batch.next /\ batch.next + batch.left <= counter
    BY <1>1, <1>3 DEF Reserved
  <2> QED
    BY <1>1, <1>3, <2>1, <2>2, <2>3 DEF Reserved, InBatch
<1> QED
  BY <1>2, <1>3

(* An operation that takes no id from a batch uses ids past the counters.    *)
LEMMA StagedKeeps ==
  ASSUME Inv, plane # None, db' = db, plane' = plane, ids' = ids, Good(tx'),
         tx.nextNode <= tx'.nextNode, tx.nextEdge <= tx'.nextEdge,
         \A k \in NodeKeys : tx'.nodes[k] # None => tx.nodes[k] # None \/ k[2] >= tx.nextNode,
         \A k \in EdgeKeys : tx'.edges[k] # None => tx.edges[k] # None \/ k[2] >= tx.nextEdge
  PROVE  Inv'
<1>1. /\ db.nextNode \in Nat /\ tx.nextNode \in Nat /\ tx'.nextNode \in Nat
      /\ db.nextEdge \in Nat /\ tx.nextEdge \in Nat /\ tx'.nextEdge \in Nat
      /\ DOMAIN tx.nodes = NodeKeys /\ DOMAIN tx'.nodes = NodeKeys
      /\ DOMAIN tx.edges = EdgeKeys /\ DOMAIN tx'.edges = EdgeKeys
  BY GoodIs DEF Inv
<1>2. /\ db.nextNode <= tx.nextNode /\ db.nextEdge <= tx.nextEdge
      /\ Reserved(ids.node, db.nextNode, tx.nextNode)
      /\ Reserved(ids.edge, db.nextEdge, tx.nextEdge)
      /\ ids.node.next \in Nat /\ ids.node.left \in Nat
      /\ ids.edge.next \in Nat /\ ids.edge.left \in Nat
  BY DEF Inv, TxnOK, Reserved, Batch
<1>3. \A k \in NodeKeys : k[2] \in Nat
  BY Ids DEF NodeKeys
<1>4. \A k \in EdgeKeys : k[2] \in Nat
  BY Ids DEF EdgeKeys
<1>5. Own(db.nodes, tx'.nodes, db.nextNode, ids.node)
  <2> SUFFICES ASSUME NEW k \in NodeKeys, tx'.nodes[k] # None
               PROVE  ~ InBatch(k[2], ids.node) /\ (db.nodes[k] = None => k[2] >= db.nextNode)
    BY <1>1 DEF Own
  <2>1. CASE tx.nodes[k] # None
    BY <1>1, <2>1 DEF Inv, TxnOK, Own
  <2>2. CASE k[2] >= tx.nextNode
    BY <1>1, <1>2, <1>3, <2>2 DEF InBatch, Reserved
  <2> QED
    BY <2>1, <2>2
<1>6. Own(db.edges, tx'.edges, db.nextEdge, ids.edge)
  <2> SUFFICES ASSUME NEW k \in EdgeKeys, tx'.edges[k] # None
               PROVE  ~ InBatch(k[2], ids.edge) /\ (db.edges[k] = None => k[2] >= db.nextEdge)
    BY <1>1 DEF Own
  <2>1. CASE tx.edges[k] # None
    BY <1>1, <2>1 DEF Inv, TxnOK, Own
  <2>2. CASE k[2] >= tx.nextEdge
    BY <1>1, <1>2, <1>4, <2>2 DEF InBatch, Reserved
  <2> QED
    BY <2>1, <2>2
<1>7. /\ Reserved(ids.node, db.nextNode, tx'.nextNode)
      /\ Reserved(ids.edge, db.nextEdge, tx'.nextEdge)
      /\ db.nextNode <= tx'.nextNode /\ db.nextEdge <= tx'.nextEdge
  BY <1>1, <1>2 DEF Reserved
<1>8. TxnOK'
  BY <1>5, <1>6, <1>7 DEF Inv, TxnOK
<1> QED
  BY <1>8 DEF Inv

LEMMA OwnTakes ==
  ASSUME NEW K, \A k \in K : k[2] \in Nat, NEW old, NEW new, NEW new2,
         DOMAIN new = K, DOMAIN new2 = K,
         NEW counter \in Nat \ {0}, NEW before \in Nat \ {0}, before <= counter,
         NEW batch, Reserved(batch, before, counter), NEW t, t = Take(counter, batch),
         Own(old, new, before, batch), \A k \in K : new[k] # None => k[2] < counter,
         \A k \in K : new2[k] # None => new[k] # None \/ k[2] = t.id
  PROVE  Own(old, new2, before, t.batch)
<1>1. /\ t.id \in Nat \ {0} /\ before <= t.id /\ ~ InBatch(t.id, t.batch)
      /\ \A id \in Nat : InBatch(id, t.batch) => InBatch(id, batch) \/ id >= counter
  BY TakeIs
<1> SUFFICES ASSUME NEW k \in K, new2[k] # None
             PROVE  ~ InBatch(k[2], t.batch) /\ (old[k] = None => k[2] >= before)
  BY DEF Own
<1>2. CASE k[2] = t.id
  BY <1>1, <1>2
<1>3. CASE new[k] # None
  <2>1. k[2] < counter /\ ~ InBatch(k[2], batch) /\ (old[k] = None => k[2] >= before)
    BY <1>3 DEF Own
  <2>2. k[2] \in Nat /\ ~ (k[2] >= counter)
    BY <2>1
  <2> QED
    BY <1>1, <2>1, <2>2
<1> QED
  BY <1>2, <1>3

(* An operation that takes the id of a node.                                 *)
LEMMA NodeTaken ==
  ASSUME Inv, plane # None, db' = db, plane' = plane,
         NEW t, t = Take(tx.nextNode, ids.node), ids' = [ids EXCEPT !.node = t.batch],
         Good(tx'), tx'.nextNode = t.counter, tx'.nextEdge = tx.nextEdge, tx'.edges = tx.edges,
         \A k \in NodeKeys : tx'.nodes[k] # None => tx.nodes[k] # None \/ k[2] = t.id
  PROVE  Inv'
<1>1. /\ db.nextNode \in Nat \ {0} /\ tx.nextNode \in Nat \ {0}
      /\ DOMAIN tx.nodes = NodeKeys /\ DOMAIN tx'.nodes = NodeKeys
      /\ \A k \in NodeKeys : tx.nodes[k] # None => k[2] < tx.nextNode
  BY GoodIs DEF Inv
<1>2. db.nextNode <= tx.nextNode /\ Reserved(ids.node, db.nextNode, tx.nextNode)
  BY DEF Inv, TxnOK
<1>3. /\ t.counter \in Nat /\ tx.nextNode <= t.counter
      /\ Reserved(t.batch, db.nextNode, t.counter)
  BY <1>1, <1>2, TakeIs
<1>4. \A k \in NodeKeys : k[2] \in Nat
  BY Ids DEF NodeKeys
<1>5. Own(db.nodes, tx'.nodes, db.nextNode, t.batch)
  <2>1. Own(db.nodes, tx.nodes, db.nextNode, ids.node)
    BY DEF Inv, TxnOK
  <2> QED
    BY <1>1, <1>2, <1>4, <2>1, OwnTakes
<1>6. ids' = [node |-> t.batch, edge |-> ids.edge]
  BY DEF Inv, TxnOK
<1>7. ids'.node = t.batch /\ ids'.edge = ids.edge /\ ids' = [node |-> ids'.node, edge |-> ids'.edge]
  BY <1>6
<1>8. TxnOK'
  BY <1>1, <1>2, <1>3, <1>5, <1>7 DEF Inv, TxnOK
<1> QED
  BY <1>8 DEF Inv

(* An operation that takes the id of an edge.                                *)
LEMMA EdgeTaken ==
  ASSUME Inv, plane # None, db' = db, plane' = plane,
         NEW t, t = Take(tx.nextEdge, ids.edge), ids' = [ids EXCEPT !.edge = t.batch],
         Good(tx'), tx'.nextEdge = t.counter, tx'.nextNode = tx.nextNode, tx'.nodes = tx.nodes,
         \A k \in EdgeKeys : tx'.edges[k] # None => tx.edges[k] # None \/ k[2] = t.id
  PROVE  Inv'
<1>1. /\ db.nextEdge \in Nat \ {0} /\ tx.nextEdge \in Nat \ {0}
      /\ DOMAIN tx.edges = EdgeKeys /\ DOMAIN tx'.edges = EdgeKeys
      /\ \A k \in EdgeKeys : tx.edges[k] # None => k[2] < tx.nextEdge
  BY GoodIs DEF Inv
<1>2. db.nextEdge <= tx.nextEdge /\ Reserved(ids.edge, db.nextEdge, tx.nextEdge)
  BY DEF Inv, TxnOK
<1>3. /\ t.counter \in Nat /\ tx.nextEdge <= t.counter
      /\ Reserved(t.batch, db.nextEdge, t.counter)
  BY <1>1, <1>2, TakeIs
<1>4. \A k \in EdgeKeys : k[2] \in Nat
  BY Ids DEF EdgeKeys
<1>5. Own(db.edges, tx'.edges, db.nextEdge, t.batch)
  <2>1. Own(db.edges, tx.edges, db.nextEdge, ids.edge)
    BY DEF Inv, TxnOK
  <2> QED
    BY <1>1, <1>2, <1>4, <2>1, OwnTakes
<1>6. ids' = [node |-> ids.node, edge |-> t.batch]
  BY DEF Inv, TxnOK
<1>7. ids'.edge = t.batch /\ ids'.node = ids.node /\ ids' = [node |-> ids'.node, edge |-> ids'.edge]
  BY <1>6
<1>8. TxnOK'
  BY <1>1, <1>2, <1>3, <1>5, <1>7 DEF Inv, TxnOK
<1> QED
  BY <1>8 DEF Inv

(* Tables that change, seen from the whole store.                            *)
LEMMA InsertNodesGood ==
  ASSUME NEW s, Good(s), NEW rows, Insertable(s, rows), NEW t, t = InsertNodes(s, rows)
  PROVE  /\ Good(t)
         /\ t.nextNode = s.nextNode /\ t.nextEdge = s.nextEdge /\ t.dict = s.dict
         /\ t.edges = s.edges
         /\ \A k \in NodeKeys : t.nodes[k] = IF k \in DOMAIN rows THEN rows[k] ELSE s.nodes[k]
<1>1. /\ Shaped(t) /\ EdgesSame(s, t) /\ PlanesSame(s, t)
      /\ t.nextNode = s.nextNode /\ t.nextEdge = s.nextEdge /\ t.dict = s.dict
      /\ t.nodes = Under(s.nodes, rows)
  BY InsertNodesLeaves DEF Good
<1>2. NodesOK(t) /\ PlanesOK(t)
  BY <1>1, InsertNodesOK, PlanesKept DEF Good
<1>3. DOMAIN s.nodes = NodeKeys /\ s.nextEdge \in Nat /\ EdgesOK(s)
  BY GoodIs
<1>4. \A k \in NodeKeys : t.nodes[k] = IF k \in DOMAIN rows THEN rows[k] ELSE s.nodes[k]
  BY <1>1, <1>3 DEF Under
<1>5. \A k \in DOMAIN rows : rows[k] # None
  BY Ids DEF Insertable
<1>6. EdgesOK(t)
  BY <1>1, <1>3, <1>4, <1>5, EdgesKept
<1> QED
  BY <1>1, <1>2, <1>4, <1>6 DEF Good, EdgesSame

LEMMA SetNodeLabelsGood ==
  ASSUME NEW s, Good(s), NEW lists, DOMAIN lists \subseteq NodeKeys,
         \A k \in DOMAIN lists :
            /\ s.nodes[k] # None
            /\ lists[k] \in Seq(LabelIds)
            /\ \A i \in DOMAIN lists[k] : s.dict.rev[lists[k][i]] # None,
         NEW t, t = SetNodeLabels(s, lists)
  PROVE  /\ Good(t)
         /\ t.nextNode = s.nextNode /\ t.nextEdge = s.nextEdge /\ t.dict = s.dict
         /\ t.edges = s.edges
         /\ \A k \in NodeKeys : t.nodes[k] # None <=> s.nodes[k] # None
<1>1. /\ Shaped(t) /\ EdgesSame(s, t) /\ PlanesSame(s, t)
      /\ t.nextNode = s.nextNode /\ t.nextEdge = s.nextEdge /\ t.dict = s.dict
  BY SetNodeLabelsIs DEF Good
<1>2. NodesOK(t) /\ \A k \in NodeKeys : t.nodes[k] # None <=> s.nodes[k] # None
  BY SetNodeLabelsOK DEF Good
<1>3. s.nextEdge \in Nat /\ EdgesOK(s) /\ PlanesOK(s)
  BY GoodIs
<1>4. EdgesOK(t)
  BY <1>1, <1>2, <1>3, EdgesKept
<1>5. PlanesOK(t)
  BY <1>1, <1>3, PlanesKept
<1> QED
  BY <1>1, <1>2, <1>4, <1>5 DEF Good, EdgesSame

LEMMA InsertEdgesGood ==
  ASSUME NEW s, Good(s), NEW rows, DOMAIN rows \subseteq EdgeKeys,
         \A k \in DOMAIN rows :
            /\ rows[k] \in EdgeRow
            /\ s.edges[k] = None
            /\ k[2] < s.nextEdge
            /\ NodeExists(s, k[1], rows[k].src) /\ NodeExists(s, k[1], rows[k].dst),
         NEW t, t = InsertEdges(s, rows)
  PROVE  /\ Good(t)
         /\ t.nextNode = s.nextNode /\ t.nextEdge = s.nextEdge /\ t.dict = s.dict
         /\ t.nodes = s.nodes /\ NodesSame(s, t) /\ PlanesSame(s, t)
         /\ \A k \in EdgeKeys : t.edges[k] = IF k \in DOMAIN rows THEN rows[k] ELSE s.edges[k]
<1>1. /\ Shaped(t) /\ NodesSame(s, t) /\ PlanesSame(s, t)
      /\ t.nextNode = s.nextNode /\ t.nextEdge = s.nextEdge /\ t.dict = s.dict
      /\ t.edges = Under(s.edges, rows)
  BY InsertEdgesIs DEF Good
<1>2. EdgesOK(t)
  BY InsertEdgesOK DEF Good
<1>3. s.nextNode \in Nat /\ DOMAIN s.edges = EdgeKeys /\ DictOK(s.dict) /\ NodesOK(s) /\ PlanesOK(s)
  BY GoodIs
<1>4. NodesOK(t)
  BY <1>1, <1>3, NodesKept, GrowsSelf
<1>5. PlanesOK(t)
  BY <1>1, <1>3, PlanesKept
<1>6. \A k \in EdgeKeys : t.edges[k] = IF k \in DOMAIN rows THEN rows[k] ELSE s.edges[k]
  BY <1>1, <1>3 DEF Under
<1> QED
  BY <1>1, <1>2, <1>4, <1>5, <1>6 DEF Good, NodesSame

LEMMA DeleteEdgesGood ==
  ASSUME NEW s, Good(s), NEW gone, gone \subseteq EdgeKeys, NEW t, t = DeleteEdges(s, gone)
  PROVE  /\ Good(t)
         /\ t.nextNode = s.nextNode /\ t.nextEdge = s.nextEdge /\ t.nodes = s.nodes
         /\ \A k \in EdgeKeys : t.edges[k] = IF k \in gone THEN None ELSE s.edges[k]
<1>1. /\ Shaped(t) /\ NodesSame(s, t) /\ PlanesSame(s, t)
      /\ t.nextNode = s.nextNode /\ t.nextEdge = s.nextEdge /\ t.dict = s.dict
  BY DeleteEdgesIs DEF Good
<1>2. EdgesOK(t) /\ \A k \in EdgeKeys : t.edges[k] = IF k \in gone THEN None ELSE s.edges[k]
  BY DeleteEdgesOK DEF Good
<1>3. s.nextNode \in Nat /\ DictOK(s.dict) /\ NodesOK(s) /\ PlanesOK(s)
  BY GoodIs
<1>4. NodesOK(t)
  BY <1>1, <1>3, NodesKept, GrowsSelf
<1>5. PlanesOK(t)
  BY <1>1, <1>3, PlanesKept
<1> QED
  BY <1>1, <1>2, <1>4, <1>5 DEF Good, NodesSame

LEMMA RetypeEdgeGood ==
  ASSUME NEW s, Good(s), NEW k \in EdgeKeys, s.edges[k] # None, NEW ty \in Types,
         NEW t, t = RetypeEdge(s, k, ty)
  PROVE  /\ Good(t)
         /\ t.nextNode = s.nextNode /\ t.nextEdge = s.nextEdge /\ t.nodes = s.nodes
         /\ \A j \in EdgeKeys : t.edges[j] # None => s.edges[j] # None
<1>0. Shaped(s) /\ EdgesOK(s)
  BY DEF Good
<1>1. PICK row : row = [src |-> s.edges[k].src, dst |-> s.edges[k].dst, ty |-> ty]
  OBVIOUS
<1>2. /\ Shaped(t) /\ NodesSame(s, t) /\ PlanesSame(s, t)
      /\ t.nextNode = s.nextNode /\ t.nextEdge = s.nextEdge /\ t.dict = s.dict
      /\ t.edges = [j \in EdgeKeys |-> IF j = k THEN row ELSE s.edges[j]]
  BY <1>0, <1>1, RetypeEdgeIs
<1>3. EdgesOK(t) /\ \A j \in EdgeKeys : t.edges[j] # None => s.edges[j] # None
  BY <1>0, <1>2, RetypeEdgeOK
<1>4. s.nextNode \in Nat /\ DictOK(s.dict) /\ NodesOK(s) /\ PlanesOK(s)
  BY GoodIs
<1>5. NodesOK(t)
  BY <1>2, <1>4, NodesKept, GrowsSelf
<1>6. PlanesOK(t)
  BY <1>2, <1>4, PlanesKept
<1> QED
  BY <1>2, <1>3, <1>5, <1>6 DEF Good, NodesSame

(* Interning the labels of a call, and the counters moved on.                *)
LEMMA InternedGood ==
  ASSUME NEW s, Good(s), NEW labels \in Seq(Labels), Interns(s.dict, labels),
         NEW t, Shaped(t), NodesSame(s, t), EdgesSame(s, t), PlanesSame(s, t),
         t.dict = InternAll(s.dict, labels),
         t.nextNode \in Nat, s.nextNode <= t.nextNode,
         t.nextEdge \in Nat, s.nextEdge <= t.nextEdge
  PROVE  Good(t) /\ \A m \in ToSet(labels) : t.dict.fwd[m] # None
<1>1. /\ DictOK(t.dict) /\ Grows(s.dict, t.dict)
      /\ \A m \in ToSet(labels) : t.dict.fwd[m] # None
  BY InternAllIs, GoodIs, ToSetFinite
<1>2. Good(t)
  BY <1>1, StillGood
<1> QED
  BY <1>1, <1>2

(* The ids of labels that have been interned.                                *)
LEMMA LookedUp ==
  ASSUME NEW d, DictOK(d), NEW labels \in Seq(Labels), \A m \in ToSet(labels) : d.fwd[m] # None,
         NEW lids, lids = Lookup(d, labels)
  PROVE  lids \in Seq(LabelIds) /\ \A i \in DOMAIN lids : d.rev[lids[i]] # None
  BY LookupIn

LEMMA PlaneIs ==
  ASSUME Inv, plane # None
  PROVE  plane \in PlaneIds
  BY DEF Inv, Optional

(* create_node.                                                              *)
LEMMA CreateNodeKeeps ==
  ASSUME Inv, NEW key \in Optional(Keys), NEW labels \in LabelLists, CreateNode(key, labels)
  PROVE  Inv'
<1> DEFINE t == Take(tx.nextNode, ids.node)
           d == InternAll(tx.dict, labels)
           s == [tx EXCEPT !.nextNode = t.counter]
           u == [s EXCEPT !.dict = d]
           row == [key |-> key, labels |-> Lookup(d, labels)]
<1>1. /\ plane # None /\ db' = db /\ plane' = plane /\ Interns(tx.dict, labels)
      /\ t.counter <= MaxNode + 1 /\ ids' = [ids EXCEPT !.node = t.batch]
  BY DEF CreateNode, Staged
<1>2. labels \in Seq(Labels) /\ Good(tx) /\ plane \in PlaneIds
  BY <1>1, PlaneIs, StoreAssumption DEF Inv
<1>3. /\ t.id \in Nat \ {0} /\ t.id < t.counter
      /\ t.counter \in Nat /\ tx.nextNode <= t.counter
      /\ InBatch(t.id, ids.node) \/ t.id >= tx.nextNode
  <2>1. /\ db.nextNode \in Nat \ {0} /\ tx.nextNode \in Nat \ {0} /\ db.nextNode <= tx.nextNode
        /\ Reserved(ids.node, db.nextNode, tx.nextNode)
    BY GoodIs DEF Inv, TxnOK
  <2> QED
    BY <2>1, TakeIs
<1>a. t = Take(tx.nextNode, ids.node)
  OBVIOUS
<1>4. CASE key # None /\ tx.extKeys[<<plane, key>>] # None
  <2>1. tx' = s
    BY <1>4 DEF CreateNode
  <2> HIDE DEF t
  <2>2. /\ Shaped(tx') /\ NodesSame(tx, tx') /\ EdgesSame(tx, tx') /\ PlanesSame(tx, tx')
        /\ tx'.nextNode = t.counter /\ tx'.nextEdge = tx.nextEdge /\ tx'.dict = tx.dict
    BY <1>2, <2>1 DEF Good, Shaped, TableNames, NodesSame, EdgesSame, PlanesSame
  <2>3. Good(tx')
    <3>1. tx.nextEdge \in Nat /\ DictOK(tx.dict)
      BY <1>2, GoodIs
    <3> QED
      BY <1>2, <1>3, <2>2, <3>1, GrowsSelf, StillGood
  <2>4. tx'.nodes = tx.nodes /\ tx'.edges = tx.edges
    BY <2>2 DEF NodesSame, EdgesSame
  <2> QED
    BY <1>1, <1>a, <2>2, <2>3, <2>4, NodeTaken
<1>5. CASE ~ (key # None /\ tx.extKeys[<<plane, key>>] # None)
  <2>1. tx' = InsertNodes(u, Row(<<plane, t.id>>, row))
    BY <1>5 DEF CreateNode
  <2> HIDE DEF t
  <2>2. /\ Good(u) /\ u.nextNode = t.counter /\ u.nextEdge = tx.nextEdge
        /\ NodesSame(tx, u) /\ EdgesSame(tx, u)
        /\ u.dict = d
        /\ Lookup(u.dict, labels) \in Seq(LabelIds)
        /\ \A i \in DOMAIN Lookup(u.dict, labels) : u.dict.rev[Lookup(u.dict, labels)[i]] # None
    <3>1. /\ Shaped(u) /\ NodesSame(tx, u) /\ EdgesSame(tx, u) /\ PlanesSame(tx, u)
          /\ u.nextNode = t.counter /\ u.nextEdge = tx.nextEdge /\ u.dict = d
      <4> HIDE DEF d
      <4> QED
        BY <1>2 DEF Good, Shaped, TableNames, NodesSame, EdgesSame, PlanesSame
    <3>2. tx.nextEdge \in Nat
      BY <1>2, GoodIs
    <3> HIDE DEF u
    <3>3. Good(u) /\ \A m \in ToSet(labels) : u.dict.fwd[m] # None
      BY <1>1, <1>2, <1>3, <3>1, <3>2, InternedGood
    <3>4. DictOK(u.dict)
      BY <3>3, GoodIs
    <3> QED
      BY <1>2, <3>1, <3>3, <3>4, LookedUp
  <2>3. /\ row \in NodeRow /\ row.key = key
        /\ \A i \in DOMAIN row.labels : u.dict.rev[row.labels[i]] # None
    BY <2>2 DEF NodeRow
  <2> HIDE DEF d, s, u, row
  <2> DEFINE k == <<plane, t.id>>
             rows == Row(k, row)
  <2>4. k \in NodeKeys /\ k[1] = plane /\ k[2] = t.id
    BY <1>1, <1>2, <1>3, Ids DEF NodeKeys, NodeIds
  <2>5. \A p \in PlaneIds : u.nodes[<<p, t.id>>] = None
    <3> SUFFICES ASSUME NEW p \in PlaneIds, tx.nodes[<<p, t.id>>] # None
                 PROVE  FALSE
      BY <2>2 DEF NodesSame
    <3>1. <<p, t.id>> \in NodeKeys /\ DOMAIN tx.nodes = NodeKeys /\ <<p, t.id>>[2] = t.id
      BY <1>2, <2>4, GoodIs DEF NodeKeys
    <3>2. t.id < tx.nextNode /\ tx.nextNode \in Nat
      BY <1>2, <3>1, GoodIs
    <3>3. ~ InBatch(t.id, ids.node)
      BY <3>1 DEF Inv, TxnOK, Own
    <3> QED
      BY <1>3, <3>2, <3>3
  <2>6. key # None => u.extKeys[<<plane, key>>] = None
    BY <1>5, <2>2 DEF NodesSame
  <2>7. DOMAIN rows = {k} /\ rows[k] = row
    BY RowIs
  <2> HIDE DEF rows
  <2>8. Insertable(u, rows)
    <3> HIDE DEF k
    <3> QED
      BY <1>3, <2>2, <2>3, <2>4, <2>5, <2>6, <2>7 DEF Insertable
  <2>9. /\ Good(tx') /\ tx'.nextNode = t.counter /\ tx'.nextEdge = tx.nextEdge
        /\ tx'.edges = tx.edges
        /\ \A j \in NodeKeys : tx'.nodes[j] = IF j \in {k} THEN row ELSE tx.nodes[j]
    <3>1. tx' = InsertNodes(u, rows)
      BY <2>1 DEF rows
    <3> HIDE DEF k
    <3>2. /\ Good(tx') /\ tx'.nextNode = t.counter /\ tx'.nextEdge = tx.nextEdge
          /\ tx'.edges = u.edges
          /\ \A j \in NodeKeys : tx'.nodes[j] = IF j \in DOMAIN rows THEN rows[j] ELSE u.nodes[j]
      BY <2>2, <2>8, <3>1, InsertNodesGood
    <3> QED
      BY <2>2, <2>7, <3>2 DEF NodesSame, EdgesSame
  <2>10. \A j \in NodeKeys : tx'.nodes[j] # None => tx.nodes[j] # None \/ j[2] = t.id
    BY <2>4, <2>9
  <2> QED
    BY <1>1, <1>a, <2>9, <2>10, NodeTaken
<1> QED
  BY <1>4, <1>5

(* create_edge.                                                              *)
LEMMA CreateEdgeKeeps ==
  ASSUME Inv, NEW src \in NodeIds, NEW dst \in NodeIds, NEW ty \in Types, CreateEdge(src, dst, ty)
  PROVE  Inv'
<1> DEFINE t == Take(tx.nextEdge, ids.edge)
           s == [tx EXCEPT !.nextEdge = t.counter]
           row == [src |-> src, dst |-> dst, ty |-> ty]
           k == <<plane, t.id>>
           rows == Row(k, row)
<1>1. /\ plane # None /\ db' = db /\ plane' = plane
      /\ t.counter <= MaxEdge + 1 /\ ids' = [ids EXCEPT !.edge = t.batch]
  BY DEF CreateEdge, Staged
<1>2. Good(tx) /\ plane \in PlaneIds
  BY <1>1, PlaneIs DEF Inv
<1>3. /\ t.id \in Nat \ {0} /\ t.id < t.counter
      /\ t.counter \in Nat /\ tx.nextEdge <= t.counter
      /\ InBatch(t.id, ids.edge) \/ t.id >= tx.nextEdge
  <2>1. /\ db.nextEdge \in Nat \ {0} /\ tx.nextEdge \in Nat \ {0} /\ db.nextEdge <= tx.nextEdge
        /\ Reserved(ids.edge, db.nextEdge, tx.nextEdge)
    BY GoodIs DEF Inv, TxnOK
  <2> QED
    BY <2>1, TakeIs
<1>4. t = Take(tx.nextEdge, ids.edge)
  OBVIOUS
<1>5. tx' = s \/ (NodeExists(tx, plane, src) /\ NodeExists(tx, plane, dst) /\ tx' = InsertEdges(s, rows))
  BY DEF CreateEdge
<1> HIDE DEF t
<1>6. /\ Shaped(s) /\ NodesSame(tx, s) /\ EdgesSame(tx, s) /\ PlanesSame(tx, s)
      /\ s.nextEdge = t.counter /\ s.nextNode = tx.nextNode /\ s.dict = tx.dict
  BY <1>2 DEF Good, Shaped, TableNames, NodesSame, EdgesSame, PlanesSame
<1>7. Good(s) /\ s.nodes = tx.nodes /\ s.edges = tx.edges
  <2>1. tx.nextNode \in Nat /\ DictOK(tx.dict)
    BY <1>2, GoodIs
  <2> HIDE DEF s
  <2>2. Good(s)
    BY <1>2, <1>3, <1>6, <2>1, GrowsSelf, StillGood
  <2> QED
    BY <1>6, <2>2 DEF NodesSame, EdgesSame
<1> HIDE DEF s
<1>8. CASE tx' = s
  BY <1>1, <1>4, <1>6, <1>7, <1>8, EdgeTaken
<1>9. CASE NodeExists(tx, plane, src) /\ NodeExists(tx, plane, dst) /\ tx' = InsertEdges(s, rows)
  <2>1. row \in EdgeRow /\ row.src = src /\ row.dst = dst
    BY DEF EdgeRow
  <2>2. k \in EdgeKeys /\ k[1] = plane /\ k[2] = t.id
    BY <1>1, <1>2, <1>3, Ids DEF EdgeKeys, EdgeIds
  <2> HIDE DEF row, k
  <2>3. DOMAIN rows = {k} /\ rows[k] = row
    BY RowIs
  <2> HIDE DEF rows
  <2>4. s.edges[k] = None
    <3> SUFFICES ASSUME tx.edges[k] # None
                 PROVE  FALSE
      BY <1>7
    <3>1. DOMAIN tx.edges = EdgeKeys
      BY <1>2, GoodIs
    <3>2. t.id < tx.nextEdge /\ tx.nextEdge \in Nat
      BY <1>2, <2>2, GoodIs
    <3>3. ~ InBatch(t.id, ids.edge)
      BY <2>2, <3>1 DEF Inv, TxnOK, Own
    <3> QED
      BY <1>3, <3>2, <3>3
  <2>5. NodeExists(s, plane, src) /\ NodeExists(s, plane, dst)
    BY <1>7, <1>9 DEF NodeExists
  <2>6. /\ Good(tx') /\ tx'.nextNode = tx.nextNode /\ tx'.nextEdge = t.counter
        /\ tx'.nodes = tx.nodes
        /\ \A j \in EdgeKeys : tx'.edges[j] = IF j \in DOMAIN rows THEN rows[j] ELSE s.edges[j]
    BY <1>3, <1>6, <1>7, <1>9, <2>1, <2>2, <2>3, <2>4, <2>5, InsertEdgesGood
  <2>7. \A j \in EdgeKeys : tx'.edges[j] # None => tx.edges[j] # None \/ j[2] = t.id
    BY <1>7, <2>2, <2>3, <2>6
  <2> QED
    BY <1>1, <1>4, <2>6, <2>7, EdgeTaken
<1> QED
  BY <1>5, <1>8, <1>9

(* delete_node, delete_edge, and writes of properties.                       *)
LEMMA DeleteNodeKeeps ==
  ASSUME Inv, NEW n \in NodeIds, DeleteNode(n)
  PROVE  Inv'
<1>1. /\ plane # None /\ db' = db /\ plane' = plane /\ ids' = ids
      /\ tx' = tx \/ (NodeExists(tx, plane, n) /\ tx' = DeleteNodeRows(tx, plane, n))
  BY DEF DeleteNode, Staged
<1>2. Good(tx) /\ plane \in PlaneIds /\ tx.nextNode \in Nat /\ tx.nextEdge \in Nat
  BY <1>1, PlaneIs, GoodIs DEF Inv
<1>3. CASE tx' = tx
  BY <1>1, <1>2, <1>3, StagedKeeps
<1>4. CASE NodeExists(tx, plane, n) /\ tx' = DeleteNodeRows(tx, plane, n)
  <2>1. /\ Good(tx')
        /\ tx'.nextNode = tx.nextNode /\ tx'.nextEdge = tx.nextEdge
        /\ \A k \in NodeKeys : tx'.nodes[k] = IF k = <<plane, n>> THEN None ELSE tx.nodes[k]
        /\ \A k \in EdgeKeys : tx'.edges[k] # None => tx'.edges[k] = tx.edges[k]
    BY <1>2, <1>4, DeleteNodeRowsOK
  <2> QED
    BY <1>1, <1>2, <2>1, StagedKeeps
<1> QED
  BY <1>1, <1>3, <1>4

LEMMA DeleteEdgeKeeps ==
  ASSUME Inv, NEW e \in EdgeIds, DeleteEdge(e)
  PROVE  Inv'
<1>1. /\ plane # None /\ db' = db /\ plane' = plane /\ ids' = ids
      /\ tx' = tx \/ tx' = DeleteEdges(tx, {<<plane, e>>})
  BY DEF DeleteEdge, Staged
<1>2. Good(tx) /\ plane \in PlaneIds /\ tx.nextNode \in Nat /\ tx.nextEdge \in Nat
  BY <1>1, PlaneIs, GoodIs DEF Inv
<1>3. CASE tx' = tx
  BY <1>1, <1>2, <1>3, StagedKeeps
<1>4. CASE tx' = DeleteEdges(tx, {<<plane, e>>})
  <2>1. {<<plane, e>>} \subseteq EdgeKeys
    BY <1>2 DEF EdgeKeys
  <2>2. /\ Good(tx')
        /\ tx'.nextNode = tx.nextNode /\ tx'.nextEdge = tx.nextEdge /\ tx'.nodes = tx.nodes
        /\ \A k \in EdgeKeys : tx'.edges[k] = IF k \in {<<plane, e>>} THEN None ELSE tx.edges[k]
    BY <1>2, <1>4, <2>1, DeleteEdgesGood
  <2> QED
    BY <1>1, <1>2, <2>2, StagedKeeps
<1> QED
  BY <1>1, <1>3, <1>4

LEMMA TouchKeeps ==
  ASSUME Inv, NEW x \in Entity, Touch(x)
  PROVE  Inv'
<1>1. plane # None /\ db' = db /\ plane' = plane /\ ids' = ids /\ tx' = tx
  BY DEF Touch, Staged
<1>2. Good(tx) /\ tx.nextNode \in Nat /\ tx.nextEdge \in Nat
  BY GoodIs DEF Inv
<1> QED
  BY <1>1, <1>2, StagedKeeps

LEMMA SetEdgeTypeKeeps ==
  ASSUME Inv, NEW e \in EdgeIds, NEW ty \in Types, SetEdgeType(e, ty)
  PROVE  Inv'
<1>1. /\ plane # None /\ db' = db /\ plane' = plane /\ ids' = ids
      /\ EdgeExists(tx, plane, e) /\ tx' = RetypeEdge(tx, <<plane, e>>, ty)
  BY DEF SetEdgeType, Staged
<1>2. Good(tx) /\ plane \in PlaneIds /\ tx.nextNode \in Nat /\ tx.nextEdge \in Nat
  BY <1>1, PlaneIs, GoodIs DEF Inv
<1>3. <<plane, e>> \in EdgeKeys /\ tx.edges[<<plane, e>>] # None
  BY <1>1, <1>2 DEF EdgeKeys, EdgeExists
<1>4. /\ Good(tx')
      /\ tx'.nextNode = tx.nextNode /\ tx'.nextEdge = tx.nextEdge /\ tx'.nodes = tx.nodes
      /\ \A j \in EdgeKeys : tx'.edges[j] # None => tx.edges[j] # None
  BY <1>1, <1>2, <1>3, RetypeEdgeGood
<1> QED
  BY <1>1, <1>2, <1>4, StagedKeeps

(* set_labels.                                                               *)
LEMMA SetLabelsKeeps ==
  ASSUME Inv, NEW n \in NodeIds, NEW labels \in LabelLists, SetLabels(n, labels)
  PROVE  Inv'
<1> DEFINE d == InternAll(tx.dict, labels)
           u == [tx EXCEPT !.dict = d]
           k == <<plane, n>>
           lists == Row(k, Lookup(d, labels))
<1>1. /\ plane # None /\ db' = db /\ plane' = plane /\ ids' = ids
      /\ NodeExists(tx, plane, n) /\ Interns(tx.dict, labels)
      /\ tx' = SetNodeLabels(u, lists)
  BY DEF SetLabels, Staged, Relabelled
<1>2. /\ Good(tx) /\ plane \in PlaneIds /\ tx.nextNode \in Nat /\ tx.nextEdge \in Nat
      /\ labels \in Seq(Labels)
  BY <1>1, PlaneIs, GoodIs, StoreAssumption DEF Inv
<1>3. /\ Shaped(u) /\ NodesSame(tx, u) /\ EdgesSame(tx, u) /\ PlanesSame(tx, u)
      /\ u.nextNode = tx.nextNode /\ u.nextEdge = tx.nextEdge /\ u.dict = d
  <2> HIDE DEF d
  <2> QED
    BY <1>2 DEF Good, Shaped, TableNames, NodesSame, EdgesSame, PlanesSame
<1>4. /\ Good(u)
      /\ Lookup(u.dict, labels) \in Seq(LabelIds)
      /\ \A i \in DOMAIN Lookup(u.dict, labels) : u.dict.rev[Lookup(u.dict, labels)[i]] # None
  <2> HIDE DEF u
  <2>1. Good(u) /\ \A m \in ToSet(labels) : u.dict.fwd[m] # None
    BY <1>1, <1>2, <1>3, InternedGood
  <2>2. DictOK(u.dict)
    BY <2>1, GoodIs
  <2> QED
    BY <1>2, <2>1, <2>2, LookedUp
<1> HIDE DEF u, d
<1>5. k \in NodeKeys /\ u.nodes[k] # None
  BY <1>1, <1>2, <1>3 DEF NodeKeys, NodeExists, NodesSame
<1> HIDE DEF k
<1>6. DOMAIN lists = {k} /\ lists[k] = Lookup(d, labels)
  BY RowIs
<1> HIDE DEF lists
<1>7. /\ Good(tx')
      /\ tx'.nextNode = u.nextNode /\ tx'.nextEdge = u.nextEdge
      /\ tx'.edges = u.edges
      /\ \A j \in NodeKeys : tx'.nodes[j] # None <=> u.nodes[j] # None
  BY <1>1, <1>3, <1>4, <1>5, <1>6, SetNodeLabelsGood
<1> QED
  BY <1>1, <1>2, <1>3, <1>7, StagedKeeps DEF NodesSame, EdgesSame

(* bulk_load_edges.                                                          *)
LEMMA BulkLoadEdgeKeeps ==
  ASSUME Inv, NEW src \in NodeIds, NEW dst \in NodeIds, NEW ty \in Types,
         BulkLoadEdge(src, dst, ty)
  PROVE  Inv'
<1> DEFINE s == [tx EXCEPT !.nextEdge = tx.nextEdge + 1]
           row == [src |-> src, dst |-> dst, ty |-> ty]
           k == <<plane, tx.nextEdge>>
           rows == Row(k, row)
<1>1. /\ plane # None /\ db' = db /\ plane' = plane /\ ids' = ids
      /\ NodeExists(tx, plane, src) /\ NodeExists(tx, plane, dst)
      /\ tx.nextEdge <= MaxEdge
      /\ tx' = InsertEdges(s, rows)
  BY DEF BulkLoadEdge, Staged
<1>2. /\ Good(tx) /\ plane \in PlaneIds /\ tx.nextNode \in Nat /\ tx.nextEdge \in Nat \ {0}
      /\ \A j \in EdgeKeys : tx.edges[j] # None => j[2] < tx.nextEdge
  BY <1>1, PlaneIs, GoodIs DEF Inv
<1>3. /\ Shaped(s) /\ NodesSame(tx, s) /\ EdgesSame(tx, s) /\ PlanesSame(tx, s)
      /\ s.nextEdge = tx.nextEdge + 1 /\ s.nextNode = tx.nextNode /\ s.dict = tx.dict
  BY <1>2 DEF Good, Shaped, TableNames, NodesSame, EdgesSame, PlanesSame
<1> HIDE DEF s
<1>4. Good(s) /\ s.nodes = tx.nodes /\ s.edges = tx.edges
  <2>1. DictOK(tx.dict)
    BY <1>2, GoodIs
  <2>2. Good(s)
    BY <1>2, <1>3, <2>1, GrowsSelf, StillGood
  <2> QED
    BY <1>3, <2>2 DEF NodesSame, EdgesSame
<1>5. row \in EdgeRow /\ row.src = src /\ row.dst = dst
  BY DEF EdgeRow
<1>6. k \in EdgeKeys /\ k[1] = plane /\ k[2] = tx.nextEdge
  BY <1>1, <1>2, Ids DEF EdgeKeys, EdgeIds
<1> HIDE DEF row, k
<1>7. DOMAIN rows = {k} /\ rows[k] = row
  BY RowIs
<1> HIDE DEF rows
<1>8. s.edges[k] = None
  BY <1>2, <1>4, <1>6
<1>9. NodeExists(s, plane, src) /\ NodeExists(s, plane, dst)
  BY <1>1, <1>4 DEF NodeExists
<1>10. /\ Good(tx') /\ tx'.nextNode = s.nextNode /\ tx'.nextEdge = s.nextEdge
       /\ tx'.nodes = s.nodes
       /\ \A j \in EdgeKeys : tx'.edges[j] = IF j \in DOMAIN rows THEN rows[j] ELSE s.edges[j]
  BY <1>1, <1>2, <1>3, <1>4, <1>5, <1>6, <1>7, <1>8, <1>9, InsertEdgesGood
<1>11. \A j \in EdgeKeys : tx'.edges[j] # None => tx.edges[j] # None \/ j[2] >= tx.nextEdge
  BY <1>2, <1>4, <1>6, <1>7, <1>10
<1> QED
  BY <1>1, <1>2, <1>3, <1>4, <1>10, <1>11, StagedKeeps

-------------------------------------------------------------------------------
(* Bulk loads.                                                               *)

Line == [key : Optional(Keys), labels : Seq(Labels), props : BOOLEAN]

LEMMA LineIs ==
  ASSUME NEW line \in Line
  PROVE  line.key \in Optional(Keys) /\ line.labels \in Seq(Labels)
  BY Zenon DEF Line

LEMMA ElementIs ==
  ASSUME NEW S, NEW q \in Seq(S), NEW i \in DOMAIN q
  PROVE  q[i] \in S
  OBVIOUS

LEMMA BatchIs ==
  ASSUME NEW batch \in Batches
  PROVE  /\ batch.nodes \in Seq(Line) /\ Len(batch.nodes) \in Nat
         /\ batch.edges \in Seq([src : Keys, dst : Keys, ty : Types]) /\ Len(batch.edges) \in Nat
<1>1. /\ batch.nodes \in Seq(Line)
      /\ batch.edges \in Seq([src : Keys, dst : Keys, ty : Types])
  BY StoreAssumption, Zenon DEF Line
<1> QED
  BY <1>1

LEMMA LabelsAtIs ==
  ASSUME NEW nodes \in Seq(Line), NEW at, at \subseteq DOMAIN nodes
  PROVE  /\ LabelsAt(nodes, at) \in Seq(Labels)
         /\ \A m : m \in ToSet(LabelsAt(nodes, at)) <=> \E i \in at : m \in ToSet(nodes[i].labels)
<1> DEFINE ss == [i \in DOMAIN nodes |-> IF i \in at THEN nodes[i].labels ELSE <<>>]
<1>1. DOMAIN nodes = 1..Len(nodes) /\ Len(nodes) \in Nat
      /\ \A i \in DOMAIN nodes : nodes[i].labels \in Seq(Labels)
  BY LineIs
<1>2. ss \in Seq(Seq(Labels))
  <2>1. \A i \in 1..Len(nodes) : ss[i] \in Seq(Labels)
    BY <1>1
  <2>2. ss = [i \in 1..Len(nodes) |-> ss[i]]
    BY <1>1
  <2> HIDE DEF ss
  <2> QED
    BY <1>1, <2>1, <2>2
<1>3. DOMAIN ss = DOMAIN nodes /\ \A i \in DOMAIN nodes : ss[i] = IF i \in at THEN nodes[i].labels ELSE <<>>
  OBVIOUS
<1>4. LabelsAt(nodes, at) = FlattenSeq(ss)
  BY DEF LabelsAt
<1> HIDE DEF ss
<1>5. /\ FlattenSeq(ss) \in Seq(Labels)
      /\ ToSet(FlattenSeq(ss)) = UNION {ToSet(ss[i]) : i \in DOMAIN ss}
  BY <1>2, FlattenIs
<1>6. ToSet(<<>>) = {}
  BY DEF ToSet
<1>7. ASSUME NEW m
      PROVE  m \in ToSet(LabelsAt(nodes, at)) <=> \E i \in at : m \in ToSet(nodes[i].labels)
  BY <1>3, <1>4, <1>5, <1>6
<1> QED
  BY <1>4, <1>5, <1>7

(* Some of the names, then others of them: there is room for both.           *)
LEMMA InternsFewer ==
  ASSUME NEW d, DictOK(d), NEW names \in Seq(Labels), Interns(d, names),
         NEW some \in Seq(Labels), ToSet(some) \subseteq ToSet(names)
  PROVE  /\ Interns(d, some)
         /\ \A others \in Seq(Labels) : ToSet(others) \subseteq ToSet(names) =>
               Interns(InternAll(d, some), others)
<1> DEFINE A == Missing(d, ToSet(names))
           B == Missing(d, ToSet(some))
           e == InternAll(d, some)
<1>1. IsFiniteSet(A) /\ Cardinality(A) \in Nat
  <2>1. IsFiniteSet(ToSet(names)) /\ A \in SUBSET ToSet(names)
    BY ToSetFinite DEF Missing
  <2> QED
    BY <2>1, FS_Subset, FS_CardinalityType
<1>2. IsFiniteSet(B) /\ Cardinality(B) \in Nat /\ Cardinality(B) <= Cardinality(A)
  <2>1. B \in SUBSET A
    BY DEF Missing
  <2> QED
    BY <1>1, <2>1, FS_Subset, FS_CardinalityType
<1>3. d.next \in Nat /\ MaxLabel \in Nat
  BY Ids DEF DictOK
<1>4. d.next + Cardinality(A) <= MaxLabel + 1
  BY DEF Interns, Missing
<1>5. Interns(d, some)
  <2>1. d.next + Cardinality(B) <= MaxLabel + 1
    BY <1>1, <1>2, <1>3, <1>4
  <2> QED
    BY <2>1 DEF Interns, Missing
<1>6. /\ \A m \in Labels : e.fwd[m] # None <=> d.fwd[m] # None \/ m \in ToSet(some)
      /\ e.next = d.next + Cardinality(B)
  BY <1>5, InternAllIs
<1> HIDE DEF e
<1>7. ASSUME NEW others \in Seq(Labels), ToSet(others) \subseteq ToSet(names)
      PROVE  Interns(e, others)
  <2> DEFINE C == Missing(e, ToSet(others))
  <2>1. ToSet(others) \subseteq Labels /\ ToSet(some) \subseteq Labels
    BY ToSetFinite
  <2>2. C \in SUBSET A /\ B \cap C = {} /\ B \cup C \in SUBSET A
    BY <1>6, <1>7, <2>1 DEF Missing
  <2>3. IsFiniteSet(C) /\ Cardinality(C) \in Nat /\ Cardinality(B \cup C) <= Cardinality(A)
    BY <1>1, <2>2, FS_Subset, FS_CardinalityType
  <2>4. Cardinality(B \cup C) = Cardinality(B) + Cardinality(C) - Cardinality({})
    BY <1>2, <2>2, <2>3, FS_Union
  <2>5. Cardinality({}) = 0
    BY FS_EmptySet
  <2>6. e.next + Cardinality(C) <= MaxLabel + 1
    <3> HIDE DEF A, B, C
    <3> QED
      BY <1>1, <1>2, <1>3, <1>4, <1>6, <2>3, <2>4, <2>5
  <2> QED
    BY <2>6 DEF Interns, Missing
<1> QED
  BY <1>5, <1>7 DEF e

LEMMA BatchLabels ==
  ASSUME NEW nodes \in Seq(Line), NEW at, at \subseteq DOMAIN nodes
  PROVE  /\ LabelsAt(nodes, at) \in Seq(Labels) /\ AllLabels(nodes) \in Seq(Labels)
         /\ ToSet(LabelsAt(nodes, at)) \subseteq ToSet(AllLabels(nodes))
         /\ \A i \in at : ToSet(nodes[i].labels) \subseteq ToSet(LabelsAt(nodes, at))
         /\ \A i \in at : nodes[i].labels \in Seq(Labels)
<1>1. /\ LabelsAt(nodes, at) \in Seq(Labels)
      /\ \A m : m \in ToSet(LabelsAt(nodes, at)) <=> \E i \in at : m \in ToSet(nodes[i].labels)
  BY LabelsAtIs
<1>2. /\ AllLabels(nodes) \in Seq(Labels)
      /\ \A m : m \in ToSet(AllLabels(nodes)) <=> \E i \in DOMAIN nodes : m \in ToSet(nodes[i].labels)
  BY LabelsAtIs DEF AllLabels
<1>3. \A i \in at : nodes[i].labels \in Seq(Labels)
  BY LineIs
<1> QED
  BY <1>1, <1>2, <1>3

(* A bulk load that is refused.                                              *)
LEMMA BulkRefusedKeeps ==
  ASSUME Inv, NEW batch \in Batches, NEW policy, BulkRefused(batch, policy)
  PROVE  Inv'
<1> DEFINE nodes == batch.nodes
           met == {i \in DOMAIN nodes \ Kept(tx, nodes) : \A j \in Refused(nodes, policy) : i < j}
           d == InternAll(tx.dict, LabelsAt(nodes, met))
           a == tx.nextNode + Len(nodes)
           b == IF Refused(nodes, policy) # {} THEN tx.nextEdge ELSE tx.nextEdge + Len(batch.edges)
<1>1. /\ plane # None /\ db' = db /\ plane' = plane /\ ids' = ids
      /\ Interns(tx.dict, AllLabels(nodes))
      /\ tx' = [tx EXCEPT !.nextNode = a, !.nextEdge = b, !.dict = d]
  BY DEF BulkRefused, Staged
<1>2. Good(tx) /\ tx.nextNode \in Nat /\ tx.nextEdge \in Nat /\ DictOK(tx.dict)
  BY GoodIs DEF Inv
<1>3. nodes \in Seq(Line) /\ Len(nodes) \in Nat /\ Len(batch.edges) \in Nat
  BY BatchIs
<1>4. a \in Nat /\ b \in Nat /\ tx.nextNode <= a /\ tx.nextEdge <= b
  BY <1>2, <1>3
<1>5. met \subseteq DOMAIN nodes
  OBVIOUS
<1> HIDE DEF a, b, met, nodes
<1>6. LabelsAt(nodes, met) \in Seq(Labels) /\ Interns(tx.dict, LabelsAt(nodes, met))
  <2>1. /\ LabelsAt(nodes, met) \in Seq(Labels) /\ AllLabels(nodes) \in Seq(Labels)
        /\ ToSet(LabelsAt(nodes, met)) \subseteq ToSet(AllLabels(nodes))
    BY <1>3, <1>5, BatchLabels
  <2> QED
    BY <1>1, <1>2, <2>1, InternsFewer
<1>7. d = InternAll(tx.dict, LabelsAt(nodes, met))
  OBVIOUS
<1> HIDE DEF d
<1>8. /\ Shaped(tx') /\ NodesSame(tx, tx') /\ EdgesSame(tx, tx') /\ PlanesSame(tx, tx')
      /\ tx'.nextNode = a /\ tx'.nextEdge = b /\ tx'.dict = d
  BY <1>1, <1>2 DEF Good, Shaped, TableNames, NodesSame, EdgesSame, PlanesSame
<1>9. Good(tx')
  BY <1>2, <1>4, <1>6, <1>7, <1>8, InternedGood
<1> QED
  BY <1>1, <1>4, <1>8, <1>9, StagedKeeps DEF NodesSame, EdgesSame

(* The node that holds a key.                                                *)
LEMMA Holder ==
  ASSUME NEW s, Good(s), NEW p \in PlaneIds, NEW key \in Keys, s.extKeys[<<p, key>>] # None,
         NEW n, n = s.extKeys[<<p, key>>]
  PROVE  n \in NodeIds /\ <<p, n>> \in NodeKeys /\ s.nodes[<<p, n>>] # None
<1>1. n \in NodeIds
  BY DEF Good, NodesOK, Optional
<1>2. <<p, n>> \in {k \in PlaneIds \X NodeIds : s.nodes[k] # None}
  BY <1>1 DEF Good, NodesOK, NodeTablesMirror
<1> QED
  BY <1>1, <1>2 DEF NodeKeys

Fresh(nodes) == DOMAIN nodes \ Kept(tx, nodes)

(* No key appears twice.                                                     *)
KeysApart(nodes) ==
    \A i, j \in DOMAIN nodes : i # j /\ nodes[j].key # None => nodes[i].key # nodes[j].key

(* stage_nodes: the new nodes are there, at the ids reserved for them.       *)
LEMMA LoadNodesGood ==
  ASSUME Inv, plane # None, NEW nodes \in Seq(Line), KeysApart(nodes),
         Interns(tx.dict, AllLabels(nodes)),
         NEW s, Good(s), NodesSame(tx, s), s.dict = tx.dict,
         s.nextNode = tx.nextNode + Len(nodes), s.nextNode <= MaxNode + 1,
         NEW t, t = LoadNodes(s, nodes, tx.nextNode)
  PROVE  /\ Good(t) /\ t.nextNode = s.nextNode /\ t.nextEdge = s.nextEdge /\ t.edges = s.edges
         /\ t.dict = InternAll(tx.dict, LabelsAt(nodes, Fresh(nodes)))
         /\ \A k \in NodeKeys : tx.nodes[k] # None => t.nodes[k] # None
         /\ \A k \in NodeKeys : t.nodes[k] # None => tx.nodes[k] # None \/ k[2] >= tx.nextNode
         /\ \A i \in Fresh(nodes) : /\ <<plane, BatchId(tx.nextNode, i)>> \in NodeKeys
                                    /\ t.nodes[<<plane, BatchId(tx.nextNode, i)>>] # None
<1> DEFINE start == tx.nextNode
           new == Fresh(nodes)
           d == InternAll(tx.dict, LabelsAt(nodes, new))
           at(k) == k[2] - start + 1
           key(i) == <<plane, BatchId(start, i)>>
           rows == [k \in {key(i) : i \in new} |->
                      [key |-> nodes[at(k)].key, labels |-> Lookup(d, nodes[at(k)].labels)]]
           u == [s EXCEPT !.dict = d]
<1>1. t = InsertNodes(u, rows)
  <2>1. DOMAIN nodes \ Kept(s, nodes) = new
    BY DEF Kept, OwnerOf, NodesSame, Fresh
  <2> QED
    BY <2>1 DEF LoadNodes
<1>2. /\ plane \in PlaneIds /\ start \in Nat \ {0} /\ Len(nodes) \in Nat
      /\ DOMAIN nodes = 1..Len(nodes) /\ new \subseteq DOMAIN nodes /\ DictOK(tx.dict)
      /\ Good(tx) /\ \A k \in NodeKeys : tx.nodes[k] # None => k[2] < start
  BY PlaneIs, GoodIs DEF Inv, Fresh
<1>3. /\ LabelsAt(nodes, new) \in Seq(Labels)
      /\ \A i \in new : ToSet(nodes[i].labels) \subseteq ToSet(LabelsAt(nodes, new))
      /\ \A i \in new : nodes[i].labels \in Seq(Labels)
      /\ Interns(tx.dict, LabelsAt(nodes, new))
  <2>1. /\ LabelsAt(nodes, new) \in Seq(Labels) /\ AllLabels(nodes) \in Seq(Labels)
        /\ ToSet(LabelsAt(nodes, new)) \subseteq ToSet(AllLabels(nodes))
        /\ \A i \in new : ToSet(nodes[i].labels) \subseteq ToSet(LabelsAt(nodes, new))
        /\ \A i \in new : nodes[i].labels \in Seq(Labels)
    BY <1>2, BatchLabels
  <2> QED
    BY <1>2, <2>1, InternsFewer
<1>4. d = InternAll(s.dict, LabelsAt(nodes, new)) /\ Interns(s.dict, LabelsAt(nodes, new))
  BY <1>3
<1> HIDE DEF d
<1>5. /\ Shaped(u) /\ NodesSame(s, u) /\ EdgesSame(s, u) /\ PlanesSame(s, u)
      /\ u.nextNode = s.nextNode /\ u.nextEdge = s.nextEdge /\ u.dict = d
  BY DEF Good, Shaped, TableNames, NodesSame, EdgesSame, PlanesSame
<1> HIDE DEF u
<1>6. Good(u) /\ \A m \in ToSet(LabelsAt(nodes, new)) : u.dict.fwd[m] # None
  <2>1. s.nextNode \in Nat /\ s.nextEdge \in Nat
    BY GoodIs
  <2> QED
    BY <1>3, <1>4, <1>5, <2>1, InternedGood
<1>7. DictOK(d) /\ \A i \in new : \A m \in ToSet(nodes[i].labels) : d.fwd[m] # None
  BY <1>3, <1>5, <1>6, GoodIs
<1>8. ASSUME NEW i \in new
      PROVE  /\ key(i) \in NodeKeys /\ key(i)[1] = plane /\ key(i)[2] = start + i - 1
             /\ at(key(i)) = i /\ key(i)[2] >= start /\ key(i)[2] < u.nextNode
             /\ key(i)[2] \in NodeIds
  <2>1. i \in 1..Len(nodes) /\ key(i)[1] = plane /\ key(i)[2] = start + i - 1
    BY <1>2 DEF BatchId
  <2>2. start + i - 1 \in 1..MaxNode /\ start + i - 1 >= start /\ start + i - 1 < s.nextNode
        /\ (start + i - 1) - start + 1 = i
    BY <1>2, <2>1, Ids
  <2>3. key(i) \in NodeKeys
    BY <1>2, <2>2 DEF NodeKeys, NodeIds, BatchId
  <2> QED
    BY <1>5, <2>1, <2>2, <2>3 DEF NodeIds
<1>9. ASSUME NEW i \in new
      PROVE  /\ rows[key(i)] = [key |-> nodes[i].key, labels |-> Lookup(d, nodes[i].labels)]
             /\ rows[key(i)] \in NodeRow /\ rows[key(i)].key = nodes[i].key
             /\ \A j \in DOMAIN rows[key(i)].labels : d.rev[rows[key(i)].labels[j]] # None
  <2>1. rows[key(i)] = [key |-> nodes[at(key(i))].key, labels |-> Lookup(d, nodes[at(key(i))].labels)]
    OBVIOUS
  <2>2. rows[key(i)] = [key |-> nodes[i].key, labels |-> Lookup(d, nodes[i].labels)]
    BY <1>8, <2>1
  <2>3. /\ Lookup(d, nodes[i].labels) \in Seq(LabelIds)
        /\ \A j \in DOMAIN Lookup(d, nodes[i].labels) : d.rev[Lookup(d, nodes[i].labels)[j]] # None
    BY <1>3, <1>7, LookedUp
  <2>4. nodes[i].key \in Optional(Keys)
    BY <1>2, LineIs
  <2> HIDE DEF rows
  <2> QED
    BY <2>2, <2>3, <2>4 DEF NodeRow
<1>10. DOMAIN rows = {key(i) : i \in new}
  OBVIOUS
<1> HIDE DEF rows
<1>11. ASSUME NEW i \in new, nodes[i].key # None
       PROVE  u.extKeys[<<plane, nodes[i].key>>] = None
  <2>1. tx.extKeys[<<plane, nodes[i].key>>] = None
    BY <1>2, <1>11 DEF Fresh, Kept, OwnerOf
  <2> QED
    BY <1>5, <2>1 DEF NodesSame
<1>12. ASSUME NEW i \in new, NEW p \in PlaneIds
       PROVE  u.nodes[<<p, key(i)[2]>>] = None
  <2>1. <<p, key(i)[2]>> \in NodeKeys /\ <<p, key(i)[2]>>[2] = key(i)[2]
    BY <1>8 DEF NodeKeys
  <2>2. ~ (key(i)[2] < start) /\ u.nodes = tx.nodes
    <3>1. key(i)[2] \in Nat /\ key(i)[2] >= start /\ start \in Nat
      BY <1>2, <1>8, Ids
    <3>2. u.nodes = tx.nodes
      BY <1>5 DEF NodesSame
    <3> HIDE DEF key
    <3> QED
      BY <3>1, <3>2
  <2> QED
    BY <1>2, <2>1, <2>2
<1>13. ASSUME NEW i \in new, NEW j \in new, key(i) # key(j)
       PROVE  /\ key(i)[2] # key(j)[2]
              /\ nodes[j].key # None => nodes[i].key # nodes[j].key
  <2>1. i # j /\ i \in Nat /\ j \in Nat
    BY <1>2, <1>13
  <2>2. key(i)[2] # key(j)[2]
    <3>1. start + i - 1 # start + j - 1
      BY <1>2, <2>1
    <3> QED
      BY <1>8, <3>1
  <2> QED
    BY <1>2, <2>1, <2>2 DEF KeysApart
<1>14. Insertable(u, rows)
  <2> HIDE DEF key, new
  <2>1. \A k \in DOMAIN rows : \E i \in new : k = key(i)
    BY <1>10
  <2>2. ASSUME NEW k \in DOMAIN rows
        PROVE  /\ k \in NodeKeys /\ rows[k] \in NodeRow /\ k[2] < u.nextNode
               /\ \A p \in PlaneIds : u.nodes[<<p, k[2]>>] = None
               /\ rows[k].key # None => u.extKeys[<<k[1], rows[k].key>>] = None
               /\ \A i \in DOMAIN rows[k].labels : u.dict.rev[rows[k].labels[i]] # None
    <3>1. PICK i \in new : k = key(i)
      BY <2>1
    <3> QED
      BY <1>5, <1>8, <1>9, <1>11, <1>12, <3>1
  <2>3. ASSUME NEW j \in DOMAIN rows, NEW k \in DOMAIN rows, j # k
        PROVE  /\ j[2] # k[2]
               /\ rows[k].key # None => <<j[1], rows[j].key>> # <<k[1], rows[k].key>>
    <3>1. PICK a \in new : j = key(a)
      BY <2>1
    <3>2. PICK b \in new : k = key(b)
      BY <2>1
    <3>3. key(a)[2] # key(b)[2] /\ (nodes[b].key # None => nodes[a].key # nodes[b].key)
      BY <1>13, <2>3, <3>1, <3>2
    <3>4. rows[j].key = nodes[a].key /\ rows[k].key = nodes[b].key
      BY <1>9, <3>1, <3>2
    <3> QED
      BY <3>1, <3>2, <3>3, <3>4
  <2> QED
    BY <2>2, <2>3 DEF Insertable
<1>15. /\ Good(t) /\ t.nextNode = u.nextNode /\ t.nextEdge = u.nextEdge /\ t.dict = u.dict
       /\ t.edges = u.edges
       /\ \A k \in NodeKeys : t.nodes[k] = IF k \in DOMAIN rows THEN rows[k] ELSE u.nodes[k]
  BY <1>1, <1>6, <1>14, InsertNodesGood
<1>16. u.nodes = tx.nodes /\ u.edges = s.edges
  BY <1>5 DEF NodesSame, EdgesSame
<1>17. \A k \in DOMAIN rows : k \in NodeKeys /\ rows[k] # None /\ k[2] >= start
  <2> HIDE DEF key, new, at
  <2>1. \A k \in DOMAIN rows : \E i \in new : k = key(i)
    BY <1>10
  <2>2. \A i \in new : rows[key(i)] # None
    BY <1>9, Ids
  <2> QED
    BY <1>8, <2>1, <2>2
<1>18. \A k \in NodeKeys : tx.nodes[k] # None => t.nodes[k] # None
  BY <1>15, <1>16, <1>17
<1>19. \A k \in NodeKeys : t.nodes[k] # None => tx.nodes[k] # None \/ k[2] >= start
  BY <1>15, <1>16, <1>17
<1>20. \A i \in new : key(i) \in NodeKeys /\ t.nodes[key(i)] # None
  <2>1. \A i \in new : key(i) \in DOMAIN rows
    BY <1>10
  <2> HIDE DEF key, new
  <2> QED
    BY <1>15, <1>17, <2>1
<1> QED
  BY <1>5, <1>15, <1>16, <1>18, <1>19, <1>20 DEF d

(* The end of an edge of a batch: a node of the batch or one the plane held. *)
LEMMA EndpointIs ==
  ASSUME Inv, plane # None, NEW nodes \in Seq(Line), NEW key \in Keys,
         NEW n, n = EndpointId(tx, nodes, tx.nextNode, key), n # None,
         NEW t, \A k \in NodeKeys : tx.nodes[k] # None => t.nodes[k] # None,
         \A i \in Fresh(nodes) : /\ <<plane, BatchId(tx.nextNode, i)>> \in NodeKeys
                                 /\ t.nodes[<<plane, BatchId(tx.nextNode, i)>>] # None
  PROVE  n \in NodeIds /\ t.nodes[<<plane, n>>] # None
<1> DEFINE mine == {i \in DOMAIN nodes : nodes[i].key = key}
<1>1. CASE OwnerOf(tx, key) # None \/ mine = {}
  <2>1. n = OwnerOf(tx, key)
    BY <1>1 DEF EndpointId
  <2>2. plane \in PlaneIds /\ Good(tx) /\ n = tx.extKeys[<<plane, key>>]
    BY <2>1, PlaneIs DEF Inv, OwnerOf
  <2>3. n \in NodeIds /\ <<plane, n>> \in NodeKeys /\ tx.nodes[<<plane, n>>] # None
    BY <2>2, Holder
  <2> QED
    BY <2>3
<1>2. CASE ~ (OwnerOf(tx, key) # None \/ mine = {})
  <2> DEFINE i == CHOOSE i \in mine : TRUE
  <2>1. n = BatchId(tx.nextNode, i) /\ i \in mine
    BY <1>2 DEF EndpointId
  <2> HIDE DEF i
  <2>2. i \in Fresh(nodes)
    BY <1>2, <2>1 DEF Fresh, Kept
  <2>3. <<plane, n>> \in NodeKeys /\ t.nodes[<<plane, n>>] # None
    BY <2>1, <2>2
  <2> QED
    BY <2>3 DEF NodeKeys
<1> QED
  BY <1>1, <1>2

(* The edges of a batch, at the ids reserved for them.                       *)
LEMMA LoadEdgesGood ==
  ASSUME NEW p \in PlaneIds, p = plane, NEW s, Good(s), NEW start \in Nat \ {0}, NEW rows,
         NEW n \in Nat, DOMAIN rows = 1..n,
         s.nextEdge = start + n, s.nextEdge <= MaxEdge + 1,
         \A k \in EdgeKeys : s.edges[k] # None => k[2] < start,
         \A i \in 1..n : /\ rows[i] \in EdgeRow
                         /\ NodeExists(s, plane, rows[i].src) /\ NodeExists(s, plane, rows[i].dst),
         NEW t, t = LoadEdges(s, rows, start)
  PROVE  /\ Good(t) /\ t.nextNode = s.nextNode /\ t.nextEdge = s.nextEdge /\ t.dict = s.dict
         /\ t.nodes = s.nodes
         /\ \A k \in EdgeKeys : t.edges[k] # None => s.edges[k] # None \/ k[2] >= start
<1> DEFINE key(i) == <<plane, BatchId(start, i)>>
           new == [k \in {key(i) : i \in DOMAIN rows} |-> rows[k[2] - start + 1]]
<1>1. t = InsertEdges(s, new)
  BY DEF LoadEdges
<1>2. ASSUME NEW i \in 1..n
      PROVE  /\ key(i) \in EdgeKeys /\ key(i)[1] = plane /\ key(i)[2] >= start
             /\ key(i)[2] < s.nextEdge /\ key(i)[2] - start + 1 = i /\ key(i)[2] \in Nat
  <2>1. key(i)[1] = plane /\ key(i)[2] = start + i - 1
    BY DEF BatchId
  <2>2. start + i - 1 \in 1..MaxEdge /\ start + i - 1 >= start /\ start + i - 1 < s.nextEdge
        /\ (start + i - 1) - start + 1 = i
    BY Ids
  <2>3. key(i) \in EdgeKeys
    BY <2>2 DEF EdgeKeys, EdgeIds, BatchId
  <2> QED
    BY <2>1, <2>2, <2>3
<1>3. \A i \in 1..n : key(i) \in DOMAIN new /\ new[key(i)] = rows[i]
  BY <1>2
<1>4. \A k \in DOMAIN new : \E i \in 1..n : k = key(i)
  OBVIOUS
<1> HIDE DEF new, key
<1>5. ASSUME NEW k \in DOMAIN new
      PROVE  /\ k \in EdgeKeys /\ new[k] \in EdgeRow /\ s.edges[k] = None
             /\ k[2] < s.nextEdge /\ k[2] >= start
             /\ NodeExists(s, k[1], new[k].src) /\ NodeExists(s, k[1], new[k].dst)
  <2>1. PICK i \in 1..n : k = key(i)
    BY <1>4
  <2>2. /\ k \in EdgeKeys /\ k[1] = plane /\ k[2] < s.nextEdge /\ k[2] >= start /\ k[2] \in Nat
        /\ new[k] = rows[i]
    BY <1>2, <1>3, <2>1
  <2>3. s.edges[k] = None
    BY <2>2
  <2> QED
    BY <2>2, <2>3
<1>6. DOMAIN new \subseteq EdgeKeys
  BY <1>5
<1>7. /\ Good(t)
      /\ t.nextNode = s.nextNode /\ t.nextEdge = s.nextEdge /\ t.dict = s.dict
      /\ t.nodes = s.nodes
      /\ \A k \in EdgeKeys : t.edges[k] = IF k \in DOMAIN new THEN new[k] ELSE s.edges[k]
  BY <1>1, <1>5, <1>6, InsertEdgesGood
<1>8. \A k \in EdgeKeys : t.edges[k] # None => s.edges[k] # None \/ k[2] >= start
  BY <1>5, <1>7
<1> QED
  BY <1>7, <1>8

(* OnConflict::Update: the labels of the nodes met.                          *)
LEMMA MergeGood ==
  ASSUME Inv, plane # None, NEW nodes \in Seq(Line), Interns(tx.dict, AllLabels(nodes)),
         NEW s, Good(s), s.dict = InternAll(tx.dict, LabelsAt(nodes, Fresh(nodes))),
         \A k \in NodeKeys : tx.nodes[k] # None => s.nodes[k] # None,
         NEW t, t = Merge(s, nodes)
  PROVE  /\ Good(t) /\ t.nextNode = s.nextNode /\ t.nextEdge = s.nextEdge /\ t.edges = s.edges
         /\ \A k \in NodeKeys : t.nodes[k] # None <=> s.nodes[k] # None
<1> DEFINE met == {i \in Kept(tx, nodes) : nodes[i].labels # <<>>}
           d == InternAll(s.dict, LabelsAt(nodes, met))
           line(k) == CHOOSE i \in met : OwnerOf(tx, nodes[i].key) = k[2]
           key(i) == <<plane, OwnerOf(tx, nodes[i].key)>>
           lists == [k \in {key(i) : i \in met} |-> Lookup(d, nodes[line(k)].labels)]
           u == [s EXCEPT !.dict = d]
<1>1. t = SetNodeLabels(u, lists)
  BY DEF Merge
<1>2. /\ plane \in PlaneIds /\ Good(tx) /\ DictOK(tx.dict)
      /\ met \subseteq DOMAIN nodes /\ Fresh(nodes) \subseteq DOMAIN nodes
  BY PlaneIs, GoodIs DEF Inv, Kept, Fresh
<1>3. ASSUME NEW i \in met
      PROVE  key(i) \in NodeKeys /\ s.nodes[key(i)] # None /\ key(i)[2] = OwnerOf(tx, nodes[i].key)
  <2>1. nodes[i].key \in Optional(Keys) /\ nodes[i].key # None /\ OwnerOf(tx, nodes[i].key) # None
    BY <1>2, LineIs DEF Kept
  <2>2. nodes[i].key \in Keys /\ tx.extKeys[<<plane, nodes[i].key>>] # None
    BY <2>1 DEF Optional, OwnerOf
  <2>3. /\ <<plane, OwnerOf(tx, nodes[i].key)>> \in NodeKeys
        /\ tx.nodes[<<plane, OwnerOf(tx, nodes[i].key)>>] # None
    BY <1>2, <2>2, Holder DEF OwnerOf
  <2> QED
    BY <2>3
<1>4. /\ LabelsAt(nodes, met) \in Seq(Labels)
      /\ \A i \in met : ToSet(nodes[i].labels) \subseteq ToSet(LabelsAt(nodes, met))
      /\ \A i \in met : nodes[i].labels \in Seq(Labels)
      /\ Interns(s.dict, LabelsAt(nodes, met))
  <2>1. /\ LabelsAt(nodes, met) \in Seq(Labels) /\ AllLabels(nodes) \in Seq(Labels)
        /\ ToSet(LabelsAt(nodes, met)) \subseteq ToSet(AllLabels(nodes))
        /\ \A i \in met : ToSet(nodes[i].labels) \subseteq ToSet(LabelsAt(nodes, met))
        /\ \A i \in met : nodes[i].labels \in Seq(Labels)
    BY <1>2, BatchLabels
  <2>2. /\ LabelsAt(nodes, Fresh(nodes)) \in Seq(Labels)
        /\ ToSet(LabelsAt(nodes, Fresh(nodes))) \subseteq ToSet(AllLabels(nodes))
    BY <1>2, BatchLabels
  <2> QED
    BY <1>2, <2>1, <2>2, InternsFewer
<1>5. d = InternAll(s.dict, LabelsAt(nodes, met))
  OBVIOUS
<1> HIDE DEF d
<1>6. /\ Shaped(u) /\ NodesSame(s, u) /\ EdgesSame(s, u) /\ PlanesSame(s, u)
      /\ u.nextNode = s.nextNode /\ u.nextEdge = s.nextEdge /\ u.dict = d
  BY DEF Good, Shaped, TableNames, NodesSame, EdgesSame, PlanesSame
<1> HIDE DEF u
<1>7. Good(u) /\ \A m \in ToSet(LabelsAt(nodes, met)) : u.dict.fwd[m] # None
  <2>1. s.nextNode \in Nat /\ s.nextEdge \in Nat
    BY GoodIs
  <2> HIDE DEF met
  <2> QED
    BY <1>4, <1>5, <1>6, <2>1, InternedGood
<1>8. DictOK(d) /\ \A i \in met : \A m \in ToSet(nodes[i].labels) : d.fwd[m] # None
  BY <1>4, <1>6, <1>7, GoodIs
<1>9. ASSUME NEW i \in met
      PROVE  /\ lists[key(i)] \in Seq(LabelIds)
             /\ \A j \in DOMAIN lists[key(i)] : d.rev[lists[key(i)][j]] # None
  <2>1. lists[key(i)] = Lookup(d, nodes[line(key(i))].labels)
    OBVIOUS
  <2>2. line(key(i)) \in met
    BY <1>3
  <2> HIDE DEF line, lists
  <2> QED
    BY <1>4, <1>8, <2>1, <2>2, LookedUp
<1>10. \A k \in DOMAIN lists : \E i \in met : k = key(i)
  OBVIOUS
<1> HIDE DEF lists, key, met, line
<1>11. DOMAIN lists \subseteq NodeKeys
  BY <1>3, <1>10
<1>12. ASSUME NEW k \in DOMAIN lists
       PROVE  /\ u.nodes[k] # None /\ lists[k] \in Seq(LabelIds)
              /\ \A i \in DOMAIN lists[k] : u.dict.rev[lists[k][i]] # None
  <2>1. PICK i \in met : k = key(i)
    BY <1>10
  <2> QED
    BY <1>3, <1>6, <1>9, <2>1 DEF NodesSame
<1>13. /\ Good(t) /\ t.nextNode = u.nextNode /\ t.nextEdge = u.nextEdge /\ t.edges = u.edges
       /\ \A k \in NodeKeys : t.nodes[k] # None <=> u.nodes[k] # None
  BY <1>1, <1>7, <1>11, <1>12, SetNodeLabelsGood
<1> QED
  BY <1>6, <1>13 DEF NodesSame, EdgesSame

(* bulk_upsert.                                                              *)
LEMMA BulkUpsertKeeps ==
  ASSUME Inv, NEW batch \in Batches, NEW policy, BulkUpsert(batch, policy)
  PROVE  Inv'
<1> DEFINE nodes == batch.nodes
           edges == batch.edges
           row(i) == [src |-> EndpointId(tx, nodes, tx.nextNode, edges[i].src),
                      dst |-> EndpointId(tx, nodes, tx.nextNode, edges[i].dst),
                      ty |-> edges[i].ty]
           rows == [i \in DOMAIN edges |-> row(i)]
           a == tx.nextNode + Len(nodes)
           b == tx.nextEdge + Len(edges)
           s == [tx EXCEPT !.nextNode = a, !.nextEdge = b]
           t == LoadNodes(s, nodes, tx.nextNode)
           u == LoadEdges(t, rows, tx.nextEdge)
<1>1. /\ plane # None /\ db' = db /\ plane' = plane /\ ids' = ids
      /\ Interns(tx.dict, AllLabels(nodes)) /\ BulkAccepted(batch, policy)
      /\ s.nextNode <= MaxNode + 1 /\ s.nextEdge <= MaxEdge + 1
      /\ tx' = u \/ tx' = Merge(u, nodes)
  BY DEF BulkUpsert, Staged
<1>2. /\ Good(tx) /\ plane \in PlaneIds /\ tx.nextNode \in Nat \ {0} /\ tx.nextEdge \in Nat \ {0}
      /\ DictOK(tx.dict) /\ \A k \in EdgeKeys : tx.edges[k] # None => k[2] < tx.nextEdge
  BY <1>1, PlaneIs, GoodIs DEF Inv
<1>3. /\ nodes \in Seq(Line) /\ Len(nodes) \in Nat
      /\ edges \in Seq([src : Keys, dst : Keys, ty : Types]) /\ Len(edges) \in Nat
  BY BatchIs
<1>4. KeysApart(nodes)
  <2>1. \A j \in DOMAIN nodes : nodes[j].key # None => \A i \in 1..(j - 1) : nodes[i].key # nodes[j].key
    BY <1>1 DEF BulkAccepted, Refused
  <2>2. DOMAIN nodes = 1..Len(nodes)
    BY <1>3
  <2> SUFFICES ASSUME NEW i \in DOMAIN nodes, NEW j \in DOMAIN nodes, i # j, nodes[j].key # None,
                      nodes[i].key = nodes[j].key
               PROVE  FALSE
    BY DEF KeysApart
  <2>3. CASE i < j
    <3>1. i \in 1..(j - 1)
      BY <1>3, <2>2, <2>3
    <3> QED
      BY <2>1, <3>1
  <2>4. CASE j < i
    <3>1. j \in 1..(i - 1)
      BY <1>3, <2>2, <2>4
    <3> QED
      BY <2>1, <3>1
  <2> QED
    BY <1>3, <2>2, <2>3, <2>4
<1>5. \A i \in DOMAIN edges : /\ edges[i].src \in Keys /\ edges[i].dst \in Keys /\ edges[i].ty \in Types
                              /\ row(i).src # None /\ row(i).dst # None
  <2> SUFFICES ASSUME NEW i \in DOMAIN edges
               PROVE  /\ edges[i].src \in Keys /\ edges[i].dst \in Keys /\ edges[i].ty \in Types
                      /\ row(i).src # None /\ row(i).dst # None
    OBVIOUS
  <2>1. edges[i] \in [src : Keys, dst : Keys, ty : Types]
    BY <1>3, ElementIs, Zenon
  <2>2. /\ EndpointId(tx, nodes, tx.nextNode, edges[i].src) # None
        /\ EndpointId(tx, nodes, tx.nextNode, edges[i].dst) # None
    BY <1>1 DEF BulkAccepted
  <2> QED
    BY <2>1, <2>2
<1>6. a \in Nat /\ b \in Nat /\ tx.nextNode <= a /\ tx.nextEdge <= b
  BY <1>2, <1>3
<1>7. a = tx.nextNode + Len(nodes) /\ b = tx.nextEdge + Len(edges)
  OBVIOUS
<1> HIDE DEF a, b, nodes, edges
<1>8. /\ Shaped(s) /\ NodesSame(tx, s) /\ EdgesSame(tx, s) /\ PlanesSame(tx, s)
      /\ s.nextNode = a /\ s.nextEdge = b /\ s.dict = tx.dict
  BY <1>2 DEF Good, Shaped, TableNames, NodesSame, EdgesSame, PlanesSame
<1> HIDE DEF s
<1>9. Good(s)
  BY <1>2, <1>6, <1>8, GrowsSelf, StillGood
<1>10. /\ Good(t) /\ t.nextNode = s.nextNode /\ t.nextEdge = s.nextEdge /\ t.edges = s.edges
       /\ t.dict = InternAll(tx.dict, LabelsAt(nodes, Fresh(nodes)))
       /\ \A k \in NodeKeys : tx.nodes[k] # None => t.nodes[k] # None
       /\ \A k \in NodeKeys : t.nodes[k] # None => tx.nodes[k] # None \/ k[2] >= tx.nextNode
       /\ \A i \in Fresh(nodes) : /\ <<plane, BatchId(tx.nextNode, i)>> \in NodeKeys
                                  /\ t.nodes[<<plane, BatchId(tx.nextNode, i)>>] # None
  BY <1>1, <1>3, <1>4, <1>7, <1>8, <1>9, LoadNodesGood
<1> HIDE DEF t
<1>11. ASSUME NEW i \in DOMAIN edges
       PROVE  /\ row(i) \in EdgeRow
              /\ NodeExists(t, plane, row(i).src) /\ NodeExists(t, plane, row(i).dst)
  <2>1. /\ row(i).src \in NodeIds /\ t.nodes[<<plane, row(i).src>>] # None
    BY <1>1, <1>3, <1>5, <1>10, EndpointIs
  <2>2. /\ row(i).dst \in NodeIds /\ t.nodes[<<plane, row(i).dst>>] # None
    BY <1>1, <1>3, <1>5, <1>10, EndpointIs
  <2> QED
    BY <1>5, <2>1, <2>2 DEF EdgeRow, NodeExists
<1>12. /\ DOMAIN rows = 1..Len(edges)
       /\ \A i \in 1..Len(edges) : rows[i] = row(i)
  BY <1>3
<1>13. \A i \in 1..Len(edges) : /\ rows[i] \in EdgeRow
                                /\ NodeExists(t, plane, rows[i].src) /\ NodeExists(t, plane, rows[i].dst)
  <2>1. DOMAIN edges = 1..Len(edges)
    BY <1>3
  <2> HIDE DEF rows, row
  <2> QED
    BY <1>11, <1>12, <2>1
<1> HIDE DEF rows, row
<1>14. /\ Good(u) /\ u.nextNode = t.nextNode /\ u.nextEdge = t.nextEdge /\ u.dict = t.dict
       /\ u.nodes = t.nodes
       /\ \A k \in EdgeKeys : u.edges[k] # None => t.edges[k] # None \/ k[2] >= tx.nextEdge
  <2>1. t.edges = tx.edges
    BY <1>8, <1>10 DEF EdgesSame
  <2>2. t.nextEdge = tx.nextEdge + Len(edges) /\ t.nextEdge <= MaxEdge + 1
    BY <1>1, <1>7, <1>8, <1>10
  <2> QED
    BY <1>2, <1>3, <1>10, <1>12, <1>13, <2>1, <2>2, LoadEdgesGood
<1> HIDE DEF u
<1>15. /\ u.nextNode = a /\ u.nextEdge = b
       /\ \A k \in NodeKeys : u.nodes[k] # None => tx.nodes[k] # None \/ k[2] >= tx.nextNode
       /\ \A k \in EdgeKeys : u.edges[k] # None => tx.edges[k] # None \/ k[2] >= tx.nextEdge
  BY <1>8, <1>10, <1>14 DEF EdgesSame
<1>16. CASE tx' = u
  BY <1>1, <1>6, <1>14, <1>15, <1>16, StagedKeeps
<1>17. CASE tx' = Merge(u, nodes)
  <2>1. /\ Good(tx') /\ tx'.nextNode = u.nextNode /\ tx'.nextEdge = u.nextEdge
        /\ tx'.edges = u.edges
        /\ \A k \in NodeKeys : tx'.nodes[k] # None <=> u.nodes[k] # None
    BY <1>1, <1>3, <1>10, <1>14, <1>17, MergeGood
  <2> QED
    BY <1>1, <1>6, <1>15, <2>1, StagedKeeps
<1> QED
  BY <1>1, <1>16, <1>17

-------------------------------------------------------------------------------
(* Commits, planes and restores.                                             *)

(* No transaction is open.                                                   *)
LEMMA ClosedKeeps ==
  ASSUME Good(db'), tx' = db', plane' = None, ids' = Closed
  PROVE  Inv'
<1>1. /\ Closed.node = NoBatch /\ Closed.edge = NoBatch
      /\ Closed = [node |-> Closed.node, edge |-> Closed.edge]
      /\ NoBatch.next = 0 /\ NoBatch.left = 0 /\ NoBatch \in Batch
  BY DEF Closed, NoBatch, Batch
<1>2. /\ DOMAIN db'.nodes = NodeKeys /\ DOMAIN db'.edges = EdgeKeys
      /\ db'.nextNode \in Nat /\ db'.nextEdge \in Nat
  BY GoodIs
<1>3. \A n : Reserved(NoBatch, n, n)
  BY <1>1 DEF Reserved
<1>4. \A f, n : Own(f, f, n, NoBatch) <=> \A k \in DOMAIN f : f[k] # None => ~ InBatch(k[2], NoBatch)
  BY DEF Own
<1>5. \A k \in NodeKeys \cup EdgeKeys : ~ InBatch(k[2], NoBatch)
  <2>1. \A k \in NodeKeys \cup EdgeKeys : k[2] \in Nat
    BY Ids DEF NodeKeys, EdgeKeys
  <2> QED
    BY <1>1, <2>1 DEF InBatch
<1>6. /\ Own(db'.nodes, db'.nodes, db'.nextNode, NoBatch)
      /\ Own(db'.edges, db'.edges, db'.nextEdge, NoBatch)
  BY <1>2, <1>4, <1>5
<1>7. TxnOK'
  BY <1>1, <1>2, <1>3, <1>6 DEF TxnOK
<1> QED
  BY <1>7 DEF Inv, Optional

LEMMA EmptyGood == Good(EmptyStore)
<1>2. DictOK(EmptyDict)
  <2>1. /\ EmptyDict.next = 1 /\ EmptyDict.fwd = [l \in Labels |-> None]
        /\ EmptyDict.rev = [i \in LabelIds |-> None]
    BY DEF EmptyDict
  <2>2. EmptyDict \in Dictionary
    BY DEF EmptyDict, Dictionary, Optional
  <2> QED
    BY <2>1, <2>2, Ids DEF DictOK
<1>3. NodesOK(EmptyStore)
  <2>1. /\ EmptyStore.nodes = [k \in NodeKeys |-> None]
        /\ EmptyStore.nodePlane = [n \in NodeIds |-> None]
        /\ EmptyStore.labelIdx = {}
        /\ EmptyStore.extKeys = [k \in PlaneIds \X Keys |-> None]
        /\ EmptyStore.nextNode = 1 /\ EmptyStore.dict = EmptyDict
    BY DEF EmptyStore, NodeKeys
  <2> DEFINE e == EmptyStore
  <2> HIDE DEF e
  <2>2. {k \in NodeKeys : e.nodes[k] # None} = {}
    BY <2>1 DEF e
  <2>3. \A p \in PlaneIds : p # None
    BY Ids
  <2>4. \A n \in NodeIds : n # None
    BY Ids
  <2>5. NodeTablesMirror(e)
    BY <2>1, <2>2, <2>3, <2>4 DEF NodeTablesMirror, NodeKeys, e
  <2> QED
    BY <1>2, <2>1, <2>5 DEF NodesOK, Optional, e
<1>4. EdgesOK(EmptyStore)
  <2>1. /\ EmptyStore.edges = [k \in EdgeKeys |-> None] /\ EmptyStore.nextEdge = 1
        /\ EmptyStore.adjFwd = {} /\ EmptyStore.adjRev = {}
    BY DEF EmptyStore, EdgeKeys
  <2>2. {k \in EdgeKeys : EmptyStore.edges[k] # None} = {}
    BY <2>1
  <2>3. AdjacencyMirrors(EmptyStore)
    BY <2>1, <2>2, AdjacencyIs
  <2> QED
    BY <2>1, <2>3 DEF EdgesOK, Optional
<1>5. PlanesOK(EmptyStore)
  <2>1. /\ EmptyStore.planes = [p \in PlaneIds |-> IF p = Startup THEN StartupName ELSE None]
        /\ EmptyStore.planeNames = [n \in Names |-> IF n = StartupName THEN Startup ELSE None]
        /\ EmptyStore.nextPlane = 1
    BY DEF EmptyStore
  <2> QED
    BY <2>1, Ids DEF PlanesOK, Optional, Startup
<1>6. Shaped(EmptyStore)
  BY DEF EmptyStore, Shaped, TableNames
<1> QED
  BY <1>3, <1>4, <1>5, <1>6 DEF Good

LEMMA InitGood ==
  ASSUME Init
  PROVE  Inv
<1>1. db = EmptyStore /\ tx = db /\ plane = None /\ ids = Closed
  BY DEF Init
<1>7. Good(db)
  BY <1>1, EmptyGood
<1>8. /\ Closed.node = NoBatch /\ Closed.edge = NoBatch
      /\ Closed = [node |-> Closed.node, edge |-> Closed.edge]
      /\ NoBatch.next = 0 /\ NoBatch.left = 0 /\ NoBatch \in Batch
  BY DEF Closed, NoBatch, Batch
<1>9. /\ \A k \in DOMAIN db.nodes : db.nodes[k] = None
      /\ \A k \in DOMAIN db.edges : db.edges[k] = None
      /\ db.nextNode = 1 /\ db.nextEdge = 1
  BY <1>1 DEF EmptyStore
<1>10. TxnOK
  BY <1>1, <1>8, <1>9 DEF TxnOK, Own, Reserved
<1> QED
  BY <1>1, <1>7, <1>10 DEF Inv, Optional

LEMMA BeginKeeps ==
  ASSUME Inv, NEW p \in PlaneIds, Begin(p)
  PROVE  Inv'
<1>1. plane = None /\ plane' = p /\ tx' = db /\ db' = db /\ ids' = ids /\ tx = db
  BY DEF Begin, Inv
<1>2. p # None
  BY Ids
<1> QED
  BY <1>1, <1>2 DEF Inv, TxnOK, Optional

LEMMA AbortKeeps ==
  ASSUME Inv, Abort
  PROVE  Inv'
<1>1. db' = db /\ tx' = db' /\ plane' = None /\ ids' = Closed /\ Good(db)
  BY DEF Abort, EndTxn, Inv
<1> QED
  BY <1>1, ClosedKeeps

LEMMA CommitIs ==
  ASSUME Inv, Commit
  PROVE  /\ Good(db') /\ tx' = db' /\ plane' = None /\ ids' = Closed
         /\ db'.nodes = tx.nodes /\ db'.edges = tx.edges
         /\ db'.nextNode = tx.nextNode /\ db'.nextEdge = tx.nextEdge
<1>1. PICK c : c = IF delta = NoTally THEN tx.counters
                   ELSE [tx.counters EXCEPT ![plane] =
                            Apply(delta, IF tx.counters[plane] = None THEN NoTally ELSE tx.counters[plane])]
  OBVIOUS
<1>2. PICK q : q = tx.seq + 1
  OBVIOUS
<1>3. Good(tx) /\ tx' = db' /\ plane' = None /\ ids' = Closed
  BY DEF Commit, EndTxn, Inv
<1>4. db' = [tx EXCEPT !.counters = c, !.seq = q]
  <2>1. CASE delta = NoTally
    <3>1. db' = [tx EXCEPT !.seq = q] /\ c = tx.counters
      BY <1>1, <1>2, <2>1 DEF Commit, Folded
    <3> QED
      BY <1>3, <3>1 DEF Good, Shaped, TableNames
  <2>2. CASE delta # NoTally
    <3>1. Folded(tx) = [tx EXCEPT !.counters = c]
      BY <1>1, <2>2 DEF Folded
    <3>2. db' = [Folded(tx) EXCEPT !.seq = Folded(tx).seq + 1]
      BY DEF Commit
    <3>3. Folded(tx).seq = tx.seq
      BY <1>3, <3>1 DEF Good, Shaped, TableNames
    <3> QED
      BY <1>2, <3>1, <3>2, <3>3
  <2> QED
    BY <2>1, <2>2
<1>5. /\ Shaped(db') /\ NodesSame(tx, db') /\ EdgesSame(tx, db') /\ PlanesSame(tx, db')
      /\ db'.nextNode = tx.nextNode /\ db'.nextEdge = tx.nextEdge /\ db'.dict = tx.dict
  BY <1>3, <1>4 DEF Good, Shaped, TableNames, NodesSame, EdgesSame, PlanesSame
<1>6. tx.nextNode \in Nat /\ tx.nextEdge \in Nat /\ DictOK(tx.dict)
  BY <1>3, GoodIs
<1>7. Good(db')
  BY <1>3, <1>5, <1>6, GrowsSelf, StillGood
<1> QED
  BY <1>3, <1>5, <1>7 DEF NodesSame, EdgesSame

(* A plane is given a name: a new one, or one that had another name.         *)
LEMMA PlanesGood ==
  ASSUME NEW s, Good(s), NEW t, Shaped(t), NodesSame(s, t), EdgesSame(s, t), PlanesOK(t),
         t.nextNode = s.nextNode, t.nextEdge = s.nextEdge, t.dict = s.dict
  PROVE  Good(t)
<1>1. s.nextNode \in Nat /\ s.nextEdge \in Nat /\ DictOK(s.dict)
  BY GoodIs
<1>2. NodesOK(t)
  BY <1>1, NodesKept, GrowsSelf DEF Good
<1>3. EdgesOK(t)
  BY <1>1, EdgesKept DEF Good, NodesSame
<1> QED
  BY <1>2, <1>3 DEF Good

LEMMA CreatePlaneIs ==
  ASSUME Inv, NEW name \in Names, CreatePlane(name)
  PROVE  /\ Good(db') /\ tx' = db' /\ plane' = None /\ ids' = Closed
         /\ db'.nodes = db.nodes /\ db'.edges = db.edges
         /\ db'.nextNode = db.nextNode /\ db'.nextEdge = db.nextEdge
<1> DEFINE p == db.nextPlane
           a == [q \in DOMAIN db.planes |-> IF q = p THEN name ELSE db.planes[q]]
           b == [n \in DOMAIN db.planeNames |-> IF n = name THEN p ELSE db.planeNames[n]]
           c == db.nextPlane + 1
           e == db.seq + 1
<1>1. /\ plane' = plane /\ plane = None /\ ids' = ids /\ tx' = db' /\ Good(db) /\ ids = Closed
      /\ db.planeNames[name] = None /\ db.nextPlane <= MaxPlane
      /\ Land(WritePlane([db EXCEPT !.nextPlane = @ + 1], db.nextPlane, name))
  BY DEF CreatePlane, Alone, Land, Inv
<1>2. /\ a = [db.planes EXCEPT ![p] = name]
      /\ b = [db.planeNames EXCEPT ![name] = p]
  OBVIOUS
<1>3. db' = [db EXCEPT !.nextPlane = c, !.planes = a, !.planeNames = b, !.seq = e]
  <2> DEFINE v == [db EXCEPT !.nextPlane = c]
             w == [v EXCEPT !.planes = a, !.planeNames = b]
  <2>1. v.planes = db.planes /\ v.planeNames = db.planeNames
    BY <1>1 DEF Good, Shaped, TableNames
  <2>2. WritePlane(v, p, name) = [v EXCEPT !.planes = [v.planes EXCEPT ![p] = name],
                                           !.planeNames = [v.planeNames EXCEPT ![name] = p]]
    BY DEF WritePlane
  <2>3. WritePlane(v, p, name) = w
    BY <1>2, <2>1, <2>2
  <2>4. db' = [w EXCEPT !.seq = w.seq + 1]
    BY <1>1, <2>3 DEF Land
  <2>5. w.seq = db.seq
    <3> HIDE DEF a, b, c
    <3> QED
      BY <1>1 DEF Good, Shaped, TableNames
  <2> HIDE DEF a, b, c
  <2> QED
    BY <2>4, <2>5
<1>4. PlanesOK(db)
  BY <1>1 DEF Good
<1>5. /\ a \in [PlaneIds -> Optional(Names)] /\ b \in [Names -> Optional(PlaneIds)]
      /\ c \in Nat \ {0} /\ p \in PlaneIds
      /\ \A q \in PlaneIds : a[q] = IF q = p THEN name ELSE db.planes[q]
      /\ \A n \in Names : b[n] = IF n = name THEN p ELSE db.planeNames[n]
  BY <1>1, <1>4, Ids DEF PlanesOK, Optional, PlaneIds
<1> HIDE DEF a, b, c, e
<1>6. /\ Shaped(db') /\ NodesSame(db, db') /\ EdgesSame(db, db')
      /\ db'.nextNode = db.nextNode /\ db'.nextEdge = db.nextEdge /\ db'.dict = db.dict
      /\ db'.planes = a /\ db'.planeNames = b /\ db'.nextPlane = c
  BY <1>1, <1>3 DEF Good, Shaped, TableNames, NodesSame, EdgesSame
<1>7. PlanesOK(db')
  <2>1. db.planes[p] = None /\ p # Startup /\ c = p + 1 /\ p \in Nat
    BY <1>4, <1>5 DEF PlanesOK, Startup, c
  <2>2. ASSUME NEW q \in PlaneIds, NEW n \in Names
        PROVE  b[n] = q <=> a[q] = n
    <3>1. db.planeNames[n] = q <=> db.planes[q] = n
      BY <1>4 DEF PlanesOK
    <3>2. n # None /\ q # None
      BY Ids
    <3> QED
      BY <1>1, <1>5, <2>1, <3>1, <3>2
  <2>3. \A q \in PlaneIds : a[q] # None => q < c
    BY <1>4, <1>5, <2>1, Ids DEF PlanesOK
  <2>4. a[Startup] = StartupName
    BY <1>4, <1>5, <2>1, Ids DEF PlanesOK
  <2> QED
    BY <1>5, <1>6, <2>2, <2>3, <2>4 DEF PlanesOK
<1>8. Good(db')
  BY <1>1, <1>6, <1>7, PlanesGood
<1> QED
  BY <1>1, <1>6, <1>8 DEF NodesSame, EdgesSame

LEMMA RenamePlaneIs ==
  ASSUME Inv, NEW p \in PlaneIds, NEW name \in Names, RenamePlane(p, name)
  PROVE  /\ Good(db') /\ tx' = db' /\ plane' = None /\ ids' = Closed
         /\ db'.nodes = db.nodes /\ db'.edges = db.edges
         /\ db'.nextNode = db.nextNode /\ db'.nextEdge = db.nextEdge
<1> DEFINE old == db.planes[p]
           a == [q \in DOMAIN db.planes |-> IF q = p THEN name ELSE db.planes[q]]
           f == [n \in DOMAIN db.planeNames |-> IF n = old THEN None ELSE db.planeNames[n]]
           b == [n \in DOMAIN db.planeNames |-> IF n = name THEN p ELSE f[n]]
           e == db.seq + 1
<1>1. /\ plane' = plane /\ plane = None /\ ids' = ids /\ tx' = db' /\ Good(db) /\ ids = Closed
      /\ db.planeNames[name] = None /\ p # Startup /\ old # None
      /\ Land(WritePlane([db EXCEPT !.planeNames[old] = None], p, name))
  BY DEF RenamePlane, Alone, Land, Inv
<1>2. /\ a = [db.planes EXCEPT ![p] = name]
      /\ f = [db.planeNames EXCEPT ![old] = None]
      /\ b = [f EXCEPT ![name] = p]
  OBVIOUS
<1>3. db' = [db EXCEPT !.planes = a, !.planeNames = b, !.seq = e]
  <2> DEFINE v == [db EXCEPT !.planeNames = f]
             w == [db EXCEPT !.planes = a, !.planeNames = b]
  <2>1. v.planes = db.planes /\ v.planeNames = f
    <3> HIDE DEF f
    <3> QED
      BY <1>1 DEF Good, Shaped, TableNames
  <2>2. WritePlane(v, p, name) = [v EXCEPT !.planes = [v.planes EXCEPT ![p] = name],
                                           !.planeNames = [v.planeNames EXCEPT ![name] = p]]
    BY DEF WritePlane
  <2>3. WritePlane(v, p, name) = [v EXCEPT !.planes = a, !.planeNames = b]
    BY <1>2, <2>1, <2>2
  <2>4. [v EXCEPT !.planes = a, !.planeNames = b] = w
    <3> HIDE DEF a, b, f
    <3> QED
      BY <1>1 DEF Good, Shaped, TableNames
  <2>5. v = [db EXCEPT !.planeNames[old] = None]
    BY <1>2
  <2>6. db' = [w EXCEPT !.seq = w.seq + 1]
    <3> HIDE DEF v, w
    <3> QED
      BY <1>1, <2>3, <2>4, <2>5 DEF Land
  <2>7. w.seq = db.seq
    <3> HIDE DEF a, b
    <3> QED
      BY <1>1 DEF Good, Shaped, TableNames
  <2> HIDE DEF a, b
  <2> QED
    BY <2>6, <2>7
<1>4. PlanesOK(db) /\ old \in Names
  BY <1>1 DEF Good, PlanesOK, Optional
<1>5. /\ a \in [PlaneIds -> Optional(Names)] /\ b \in [Names -> Optional(PlaneIds)]
      /\ \A q \in PlaneIds : a[q] = IF q = p THEN name ELSE db.planes[q]
      /\ \A n \in Names : b[n] = IF n = name THEN p ELSE IF n = old THEN None ELSE db.planeNames[n]
  BY <1>1, <1>4, Ids DEF PlanesOK, Optional
<1> HIDE DEF a, b, e
<1>6. /\ Shaped(db') /\ NodesSame(db, db') /\ EdgesSame(db, db')
      /\ db'.nextNode = db.nextNode /\ db'.nextEdge = db.nextEdge /\ db'.dict = db.dict
      /\ db'.planes = a /\ db'.planeNames = b /\ db'.nextPlane = db.nextPlane
  BY <1>1, <1>3 DEF Good, Shaped, TableNames, NodesSame, EdgesSame
<1>7. PlanesOK(db')
  <2>1. ASSUME NEW q \in PlaneIds, NEW n \in Names
        PROVE  b[n] = q <=> a[q] = n
    <3>1. db.planeNames[n] = q <=> db.planes[q] = n
      BY <1>4 DEF PlanesOK
    <3>2. db.planeNames[n] = p <=> db.planes[p] = n
      BY <1>4 DEF PlanesOK
    <3>3. db.planeNames[name] = q <=> db.planes[q] = name
      BY <1>4 DEF PlanesOK
    <3>4. n # None /\ q # None /\ p # None
      BY Ids
    <3> QED
      BY <1>1, <1>5, <3>1, <3>2, <3>3, <3>4
  <2>2. \A q \in PlaneIds : a[q] # None => q < db.nextPlane
    BY <1>1, <1>4, <1>5 DEF PlanesOK
  <2>3. a[Startup] = StartupName
    BY <1>1, <1>4, <1>5, Ids DEF PlanesOK
  <2> QED
    BY <1>4, <1>5, <1>6, <2>1, <2>2, <2>3 DEF PlanesOK
<1>8. Good(db')
  BY <1>1, <1>6, <1>7, PlanesGood
<1> QED
  BY <1>1, <1>6, <1>8 DEF NodesSame, EdgesSame

(* drop_plane: each table without what was the plane's.                      *)
LEMMA DropPlaneGood ==
  ASSUME NEW s, Good(s), NEW p \in PlaneIds, p # Startup, s.planes[p] # None,
         NEW t, t = DropPlaneRows(s, p)
  PROVE  /\ Good(t) /\ t.nextNode = s.nextNode /\ t.nextEdge = s.nextEdge
         /\ \A k \in NodeKeys : t.nodes[k] = IF k[1] = p THEN None ELSE s.nodes[k]
         /\ \A k \in EdgeKeys : t.edges[k] = IF k[1] = p THEN None ELSE s.edges[k]
<1> DEFINE there == {k \in NodeKeys : s.nodes[k] # None}
           left == {k \in NodeKeys : t.nodes[k] # None}
<1>1. Shaped(s) /\ NodesOK(s) /\ EdgesOK(s) /\ PlanesOK(s)
  BY DEF Good
<1>2. /\ Shaped(t)
      /\ t.nextNode = s.nextNode /\ t.nextEdge = s.nextEdge /\ t.nextPlane = s.nextPlane
      /\ t.dict = s.dict
      /\ t.nodePlane = [n \in NodeIds |-> IF NodeExists(s, p, n) THEN None ELSE s.nodePlane[n]]
      /\ t.nodes = [k \in DOMAIN s.nodes |-> IF k[1] = p THEN None ELSE s.nodes[k]]
      /\ t.edges = [k \in DOMAIN s.edges |-> IF k[1] = p THEN None ELSE s.edges[k]]
      /\ t.adjFwd = {x \in s.adjFwd : x[1] # p} /\ t.adjRev = {x \in s.adjRev : x[1] # p}
      /\ t.labelIdx = {x \in s.labelIdx : x[1] # p}
      /\ t.extKeys = [k \in DOMAIN s.extKeys |-> IF k[1] = p THEN None ELSE s.extKeys[k]]
      /\ t.planes = [q \in DOMAIN s.planes |-> IF q = p THEN None ELSE s.planes[q]]
      /\ t.planeNames = [n \in DOMAIN s.planeNames |->
                            IF n = s.planes[p] THEN None ELSE s.planeNames[n]]
  <2> DEFINE a == [n \in NodeIds |-> IF NodeExists(s, p, n) THEN None ELSE s.nodePlane[n]]
             b == [k \in DOMAIN s.nodes |-> IF k[1] = p THEN None ELSE s.nodes[k]]
             c == [k \in DOMAIN s.edges |-> IF k[1] = p THEN None ELSE s.edges[k]]
             d == {x \in s.adjFwd : x[1] # p}
             e == {x \in s.adjRev : x[1] # p}
             f == {x \in s.labelIdx : x[1] # p}
             g == [k \in DOMAIN s.extKeys |-> IF k[1] = p THEN None ELSE s.extKeys[k]]
             h == [q \in DOMAIN s.planes |-> IF q = p THEN None ELSE s.planes[q]]
             i == [n \in DOMAIN s.planeNames |->
                                 IF n = s.planes[p] THEN None ELSE s.planeNames[n]]
             j == [s.counters EXCEPT ![p] = None]
  <2>1. h = [s.planes EXCEPT ![p] = None] /\ i = [s.planeNames EXCEPT ![s.planes[p]] = None]
    OBVIOUS
  <2>2. t = [s EXCEPT !.nodePlane = a, !.nodes = b, !.edges = c, !.adjFwd = d, !.adjRev = e,
                      !.labelIdx = f, !.extKeys = g, !.planes = h, !.planeNames = i, !.counters = j]
    <3>1. t = [s EXCEPT !.nodePlane = a, !.nodes = b, !.edges = c, !.adjFwd = d, !.adjRev = e,
                        !.labelIdx = f, !.extKeys = g, !.planes = [s.planes EXCEPT ![p] = None],
                        !.planeNames = [s.planeNames EXCEPT ![s.planes[p]] = None], !.counters = j]
      BY DEF DropPlaneRows
    <3> HIDE DEF a, b, c, d, e, f, g, h, i, j
    <3> QED
      BY <2>1, <3>1
  <2>3. /\ Shaped(t)
        /\ t.nextNode = s.nextNode /\ t.nextEdge = s.nextEdge /\ t.nextPlane = s.nextPlane
        /\ t.dict = s.dict /\ t.seq = s.seq
        /\ t.nodePlane = a /\ t.nodes = b /\ t.edges = c /\ t.adjFwd = d /\ t.adjRev = e
        /\ t.labelIdx = f /\ t.extKeys = g /\ t.planes = h /\ t.planeNames = i
    <3> HIDE DEF a, b, c, d, e, f, g, h, i, j
    <3> QED
      BY <1>1, <2>2 DEF Shaped, TableNames
  <2> QED
    BY <2>3
<1>3. /\ s.nodes \in [NodeKeys -> Optional(NodeRow)]
      /\ s.nodePlane \in [NodeIds -> Optional(PlaneIds)]
      /\ s.extKeys \in [PlaneIds \X Keys -> Optional(NodeIds)]
      /\ s.edges \in [EdgeKeys -> Optional(EdgeRow)]
  BY <1>1 DEF NodesOK, EdgesOK
<1>4. /\ \A k \in NodeKeys : t.nodes[k] = IF k[1] = p THEN None ELSE s.nodes[k]
      /\ t.nodes \in [NodeKeys -> Optional(NodeRow)]
  BY <1>2, <1>3 DEF Optional
<1>5. /\ \A k \in EdgeKeys : t.edges[k] = IF k[1] = p THEN None ELSE s.edges[k]
      /\ t.edges \in [EdgeKeys -> Optional(EdgeRow)]
  BY <1>2, <1>3 DEF Optional
<1>6. t.nodePlane \in [NodeIds -> Optional(PlaneIds)]
  BY <1>2, <1>3 DEF Optional
<1>7. ASSUME NEW q \in PlaneIds, NEW key \in Keys
      PROVE  /\ t.extKeys[<<q, key>>] = IF q = p THEN None ELSE s.extKeys[<<q, key>>]
             /\ t.extKeys[<<q, key>>] \in Optional(NodeIds)
  <2>1. <<q, key>> \in DOMAIN s.extKeys /\ s.extKeys[<<q, key>>] \in Optional(NodeIds)
    BY <1>3
  <2>2. <<q, key>>[1] = q
    OBVIOUS
  <2>3. t.extKeys[<<q, key>>] = IF q = p THEN None ELSE s.extKeys[<<q, key>>]
    BY <1>2, <2>1, <2>2
  <2> QED
    BY <2>1, <2>3 DEF Optional
<1>8. t.extKeys \in [PlaneIds \X Keys -> Optional(NodeIds)]
  <2>1. t.extKeys = [x \in PlaneIds \X Keys |-> t.extKeys[x]]
    BY <1>2, <1>3
  <2>2. ASSUME NEW x \in PlaneIds \X Keys
        PROVE  t.extKeys[x] \in Optional(NodeIds)
    BY <1>7, PairIs
  <2> QED
    BY <2>1, <2>2
<1>9. left = {k \in there : k[1] # p} /\ \A k \in left : t.nodes[k] = s.nodes[k]
  BY <1>4
<1>10. /\ \A n \in NodeIds, q \in PlaneIds : <<q, n>> \in there <=> s.nodePlane[n] = q
       /\ s.labelIdx = UNION {LabelKeys(k, s.nodes[k].labels) : k \in there}
       /\ \A q \in PlaneIds, key \in Keys, n \in NodeIds :
             s.extKeys[<<q, key>>] = n <=> <<q, n>> \in there /\ s.nodes[<<q, n>>].key = key
  BY <1>1 DEF NodesOK, NodeTablesMirror, NodeKeys
<1>11. ASSUME NEW n \in NodeIds, NEW q \in PlaneIds
       PROVE  <<q, n>> \in left <=> t.nodePlane[n] = q
  <2>1. <<q, n>> \in NodeKeys /\ <<q, n>>[1] = q /\ <<p, n>> \in NodeKeys /\ q # None
    BY Ids DEF NodeKeys
  <2>2. <<q, n>> \in left <=> <<q, n>> \in there /\ q # p
    BY <1>9, <2>1
  <2>3. NodeExists(s, p, n) <=> s.nodePlane[n] = p
    BY <1>10, <2>1 DEF NodeExists
  <2>4. t.nodePlane[n] = IF NodeExists(s, p, n) THEN None ELSE s.nodePlane[n]
    BY <1>2
  <2>5. <<q, n>> \in there <=> s.nodePlane[n] = q
    BY <1>10
  <2> HIDE DEF there, left
  <2> QED
    BY <2>1, <2>2, <2>3, <2>4, <2>5
<1>12. t.labelIdx = UNION {LabelKeys(k, t.nodes[k].labels) : k \in left}
  <2> HIDE DEF there, left
  <2>1. ASSUME NEW x \in t.labelIdx
        PROVE  \E k \in left : x \in LabelKeys(k, t.nodes[k].labels)
    <3>1. x \in s.labelIdx /\ x[1] # p
      BY <1>2
    <3>2. PICK k \in there : x \in LabelKeys(k, s.nodes[k].labels)
      BY <1>10, <3>1
    <3>3. k[1] # p
      BY <3>1, <3>2, LabelKeyOf
    <3> QED
      BY <1>9, <3>2, <3>3
  <2>2. ASSUME NEW k \in left, NEW x \in LabelKeys(k, t.nodes[k].labels)
        PROVE  x \in t.labelIdx
    <3>1. k \in there /\ k[1] # p /\ x \in LabelKeys(k, s.nodes[k].labels)
      BY <1>9, <2>2
    <3>2. x \in s.labelIdx
      BY <1>10, <3>1
    <3>3. x[1] = k[1]
      BY <3>1, LabelKeyOf
    <3> QED
      BY <1>2, <3>1, <3>2, <3>3
  <2> QED
    BY <2>1, <2>2
<1>13. ASSUME NEW q \in PlaneIds, NEW key \in Keys, NEW n \in NodeIds
       PROVE  t.extKeys[<<q, key>>] = n <=> <<q, n>> \in left /\ t.nodes[<<q, n>>].key = key
  <2>1. <<q, n>> \in NodeKeys /\ <<q, n>>[1] = q /\ n # None
    BY Ids DEF NodeKeys
  <2>2. /\ <<q, n>> \in left <=> <<q, n>> \in there /\ q # p
        /\ <<q, n>> \in left => t.nodes[<<q, n>>] = s.nodes[<<q, n>>]
    BY <1>9, <2>1
  <2>3. s.extKeys[<<q, key>>] = n <=> <<q, n>> \in there /\ s.nodes[<<q, n>>].key = key
    BY <1>10
  <2>4. t.extKeys[<<q, key>>] = IF q = p THEN None ELSE s.extKeys[<<q, key>>]
    BY <1>7
  <2> HIDE DEF there, left
  <2> QED
    BY <2>1, <2>2, <2>3, <2>4
<1>14. NodeTablesMirror(t)
  BY <1>11, <1>12, <1>13 DEF NodeTablesMirror, NodeKeys
<1>15. NodesOK(t)
  <2>1. ASSUME NEW k \in NodeKeys, t.nodes[k] # None
        PROVE  /\ k[2] < t.nextNode
               /\ \A i \in DOMAIN t.nodes[k].labels : t.dict.rev[t.nodes[k].labels[i]] # None
    <3>1. s.nodes[k] # None /\ t.nodes[k] = s.nodes[k]
      BY <1>4, <2>1
    <3> QED
      BY <1>1, <1>2, <3>1 DEF NodesOK
  <2>2. t.nextNode \in Nat \ {0} /\ DictOK(t.dict)
    BY <1>1, <1>2 DEF NodesOK
  <2> QED
    BY <1>4, <1>6, <1>8, <1>14, <2>1, <2>2 DEF NodesOK
<1>16. /\ s.adjFwd = {Fwd(k, s.edges[k]) : k \in {k \in EdgeKeys : s.edges[k] # None}}
       /\ s.adjRev = {Rev(k, s.edges[k]) : k \in {k \in EdgeKeys : s.edges[k] # None}}
  BY <1>1, AdjacencyIs DEF EdgesOK
<1>17. \A k \in EdgeKeys : /\ t.edges[k] # None <=> s.edges[k] # None /\ k[1] # p
                           /\ t.edges[k] # None => t.edges[k] = s.edges[k]
  BY <1>5
<1>18. \A k : Fwd(k, s.edges[k])[1] = k[1] /\ Rev(k, s.edges[k])[1] = k[1]
  BY DEF Fwd, Rev
<1>19. t.adjFwd = {Fwd(k, t.edges[k]) : k \in {k \in EdgeKeys : t.edges[k] # None}}
  <2>1. ASSUME NEW x \in t.adjFwd
        PROVE  \E k \in EdgeKeys : t.edges[k] # None /\ x = Fwd(k, t.edges[k])
    <3>1. x \in s.adjFwd /\ x[1] # p
      BY <1>2
    <3>2. PICK k \in EdgeKeys : s.edges[k] # None /\ x = Fwd(k, s.edges[k])
      BY <1>16, <3>1
    <3>3. k[1] # p
      BY <1>18, <3>1, <3>2
    <3> QED
      BY <1>17, <3>2, <3>3
  <2>2. ASSUME NEW k \in EdgeKeys, t.edges[k] # None
        PROVE  Fwd(k, t.edges[k]) \in t.adjFwd
    <3>1. s.edges[k] # None /\ t.edges[k] = s.edges[k] /\ k[1] # p
      BY <1>17, <2>2
    <3>2. Fwd(k, s.edges[k]) \in s.adjFwd /\ Fwd(k, s.edges[k])[1] # p
      BY <1>16, <1>18, <3>1
    <3>3. Fwd(k, s.edges[k]) \in t.adjFwd
      BY <1>2, <3>2
    <3> QED
      BY <3>1, <3>3
  <2> QED
    BY <2>1, <2>2
<1>20. t.adjRev = {Rev(k, t.edges[k]) : k \in {k \in EdgeKeys : t.edges[k] # None}}
  <2>1. ASSUME NEW x \in t.adjRev
        PROVE  \E k \in EdgeKeys : t.edges[k] # None /\ x = Rev(k, t.edges[k])
    <3>1. x \in s.adjRev /\ x[1] # p
      BY <1>2
    <3>2. PICK k \in EdgeKeys : s.edges[k] # None /\ x = Rev(k, s.edges[k])
      BY <1>16, <3>1
    <3>3. k[1] # p
      BY <1>18, <3>1, <3>2
    <3> QED
      BY <1>17, <3>2, <3>3
  <2>2. ASSUME NEW k \in EdgeKeys, t.edges[k] # None
        PROVE  Rev(k, t.edges[k]) \in t.adjRev
    <3>1. s.edges[k] # None /\ t.edges[k] = s.edges[k] /\ k[1] # p
      BY <1>17, <2>2
    <3>2. Rev(k, s.edges[k]) \in s.adjRev /\ Rev(k, s.edges[k])[1] # p
      BY <1>16, <1>18, <3>1
    <3>3. Rev(k, s.edges[k]) \in t.adjRev
      BY <1>2, <3>2
    <3> QED
      BY <3>1, <3>3
  <2> QED
    BY <2>1, <2>2
<1>21. ASSUME NEW k \in EdgeKeys, t.edges[k] # None
       PROVE  /\ NodeExists(t, k[1], t.edges[k].src) /\ NodeExists(t, k[1], t.edges[k].dst)
              /\ k[2] < t.nextEdge
  <2>1. s.edges[k] # None /\ t.edges[k] = s.edges[k] /\ k[1] # p
    BY <1>17, <1>21
  <2>2. /\ <<k[1], s.edges[k].src>> \in NodeKeys /\ <<k[1], s.edges[k].dst>> \in NodeKeys
        /\ s.nodes[<<k[1], s.edges[k].src>>] # None /\ s.nodes[<<k[1], s.edges[k].dst>>] # None
    BY <1>1, <2>1, EdgeEnds
  <2>3. t.nodes[<<k[1], s.edges[k].src>>] # None /\ t.nodes[<<k[1], s.edges[k].dst>>] # None
    BY <1>4, <2>1, <2>2
  <2>4. k[2] < s.nextEdge
    BY <1>1, <2>1 DEF EdgesOK
  <2> QED
    BY <1>2, <2>1, <2>3, <2>4 DEF NodeExists
<1>22. EdgesOK(t)
  <2>1. AdjacencyMirrors(t)
    BY <1>19, <1>20, <1>21, AdjacencyIs
  <2>2. t.nextEdge \in Nat \ {0}
    BY <1>1, <1>2 DEF EdgesOK
  <2> QED
    BY <1>5, <1>21, <2>1, <2>2 DEF EdgesOK
<1>23. PlanesOK(t)
  <2>1. /\ s.planes \in [PlaneIds -> Optional(Names)] /\ s.planeNames \in [Names -> Optional(PlaneIds)]
        /\ s.planes[p] \in Names
    BY <1>1 DEF PlanesOK, Optional
  <2>2. /\ t.planes \in [PlaneIds -> Optional(Names)] /\ t.planeNames \in [Names -> Optional(PlaneIds)]
        /\ \A q \in PlaneIds : t.planes[q] = IF q = p THEN None ELSE s.planes[q]
        /\ \A n \in Names : t.planeNames[n] = IF n = s.planes[p] THEN None ELSE s.planeNames[n]
    BY <1>2, <2>1 DEF Optional
  <2>3. ASSUME NEW q \in PlaneIds, NEW n \in Names
        PROVE  t.planeNames[n] = q <=> t.planes[q] = n
    <3>1. s.planeNames[n] = q <=> s.planes[q] = n
      BY <1>1 DEF PlanesOK
    <3>2. s.planeNames[n] = p <=> s.planes[p] = n
      BY <1>1 DEF PlanesOK
    <3>3. n # None /\ q # None /\ p # None
      BY Ids
    <3> QED
      BY <2>2, <3>1, <3>2, <3>3
  <2>4. /\ \A q \in PlaneIds : t.planes[q] # None => q < t.nextPlane
        /\ t.nextPlane \in Nat \ {0}
    BY <1>1, <1>2, <2>2 DEF PlanesOK
  <2>5. t.planes[Startup] = StartupName
    BY <1>1, <2>2, Ids DEF PlanesOK
  <2> QED
    BY <2>2, <2>3, <2>4, <2>5 DEF PlanesOK
<1> QED
  BY <1>2, <1>4, <1>5, <1>15, <1>22, <1>23 DEF Good

LEMMA DropPlaneIsGood ==
  ASSUME Inv, NEW p \in PlaneIds, DropPlane(p)
  PROVE  /\ Good(db') /\ tx' = db' /\ plane' = None /\ ids' = Closed
         /\ \A k \in NodeKeys : db'.nodes[k] # None => db.nodes[k] # None
         /\ \A k \in EdgeKeys : db'.edges[k] # None => db.edges[k] # None
         /\ db'.nextNode = db.nextNode /\ db'.nextEdge = db.nextEdge
<1> DEFINE t == DropPlaneRows(db, p)
<1>1. /\ plane' = plane /\ plane = None /\ ids' = ids /\ tx' = db' /\ Good(db) /\ ids = Closed
      /\ p # Startup /\ db.planes[p] # None
      /\ db' = [t EXCEPT !.seq = t.seq + 1]
  BY DEF DropPlane, Alone, Land, Inv
<1>2. /\ Good(t) /\ t.nextNode = db.nextNode /\ t.nextEdge = db.nextEdge
      /\ \A k \in NodeKeys : t.nodes[k] = IF k[1] = p THEN None ELSE db.nodes[k]
      /\ \A k \in EdgeKeys : t.edges[k] = IF k[1] = p THEN None ELSE db.edges[k]
  BY <1>1, DropPlaneGood
<1> HIDE DEF t
<1>3. /\ Shaped(db') /\ NodesSame(t, db') /\ EdgesSame(t, db') /\ PlanesSame(t, db')
      /\ db'.nextNode = t.nextNode /\ db'.nextEdge = t.nextEdge /\ db'.dict = t.dict
  BY <1>1, <1>2 DEF Good, Shaped, TableNames, NodesSame, EdgesSame, PlanesSame
<1>4. Good(db')
  <2>1. t.nextNode \in Nat /\ t.nextEdge \in Nat /\ DictOK(t.dict)
    BY <1>2, GoodIs
  <2> QED
    BY <1>2, <1>3, <2>1, GrowsSelf, StillGood
<1> QED
  BY <1>1, <1>2, <1>3, <1>4 DEF NodesSame, EdgesSame

(* Snapshot and restore.                                                     *)

(* A frame's record of a node: its key and the names of its labels.          *)
Framed(rows) ==
    /\ DOMAIN rows = NodeKeys
    /\ \A k \in NodeKeys : rows[k] # None => rows[k].labels \in Seq(Labels)

LEMMA FrameLabelsIs ==
  ASSUME NEW f, Framed(f.nodes)
  PROVE  /\ FrameLabels(f) \in Seq(Labels)
         /\ \A m : m \in ToSet(FrameLabels(f)) <=>
               \E k \in NodeKeys : f.nodes[k] # None /\ m \in ToSet(f.nodes[k].labels)
<1> DEFINE at(p, n) == IF f.nodes[<<p, n>>] = None THEN <<>> ELSE f.nodes[<<p, n>>].labels
           of(p) == [n \in 1..MaxNode |-> at(p, n)]
           in(p) == FlattenSeq([n \in 1..MaxNode |-> at(p, n)])
           all == [i \in 1..(MaxPlane + 1) |-> in(i - 1)]
<1>1. MaxNode \in Nat /\ MaxPlane \in Nat
  BY Ids
<1>2. \A p \in PlaneIds, n \in NodeIds : <<p, n>> \in NodeKeys
  BY DEF NodeKeys
<1>3. \A p \in PlaneIds, n \in 1..MaxNode : at(p, n) \in Seq(Labels)
  <2> SUFFICES ASSUME NEW p \in PlaneIds, NEW n \in NodeIds
               PROVE  at(p, n) \in Seq(Labels)
    BY DEF NodeIds
  <2>1. CASE f.nodes[<<p, n>>] = None
    <3>1. at(p, n) = <<>>
      BY <2>1
    <3>2. <<>> \in Seq(Labels)
      OBVIOUS
    <3> HIDE DEF at
    <3> QED
      BY <3>1, <3>2, Zenon
  <2>2. CASE f.nodes[<<p, n>>] # None
    <3>1. f.nodes[<<p, n>>].labels \in Seq(Labels)
      BY <1>2, <2>2 DEF Framed
    <3> QED
      BY <2>2, <3>1
  <2> QED
    BY <2>1, <2>2
<1>4. ToSet(<<>>) = {}
  BY DEF ToSet
<1> HIDE DEF at
<1>5. ASSUME NEW p \in PlaneIds
      PROVE  /\ in(p) \in Seq(Labels)
             /\ \A m : m \in ToSet(in(p)) <=> \E n \in 1..MaxNode : m \in ToSet(at(p, n))
  <2>1. of(p) \in Seq(Seq(Labels)) /\ DOMAIN of(p) = 1..MaxNode
        /\ \A n \in 1..MaxNode : of(p)[n] = at(p, n)
    BY <1>1, <1>3
  <2>2. in(p) = FlattenSeq(of(p))
    OBVIOUS
  <2> HIDE DEF of, in
  <2>3. /\ FlattenSeq(of(p)) \in Seq(Labels)
        /\ ToSet(FlattenSeq(of(p))) = UNION {ToSet(of(p)[i]) : i \in DOMAIN of(p)}
    BY <2>1, FlattenIs
  <2> QED
    BY <2>1, <2>2, <2>3
<1>6. \A i \in 1..(MaxPlane + 1) : i - 1 \in PlaneIds
  BY <1>1 DEF PlaneIds
<1>7. FrameLabels(f) = FlattenSeq(all)
  BY DEF FrameLabels, at
<1> HIDE DEF in
<1>8. /\ all \in Seq(Seq(Labels)) /\ DOMAIN all = 1..(MaxPlane + 1)
      /\ \A i \in 1..(MaxPlane + 1) : all[i] = in(i - 1)
  BY <1>1, <1>5, <1>6
<1> HIDE DEF all
<1>9. /\ FlattenSeq(all) \in Seq(Labels)
      /\ ToSet(FlattenSeq(all)) = UNION {ToSet(all[i]) : i \in DOMAIN all}
  BY <1>8, FlattenIs
<1>10. \A m : m \in ToSet(FlattenSeq(all)) <=> \E p \in PlaneIds : m \in ToSet(in(p))
  <2>1. \A p \in PlaneIds : p + 1 \in 1..(MaxPlane + 1) /\ (p + 1) - 1 = p
    BY <1>1 DEF PlaneIds
  <2> QED
    BY <1>6, <1>8, <1>9, <2>1
<1>11. ASSUME NEW m
       PROVE  m \in ToSet(FrameLabels(f)) <=>
                \E k \in NodeKeys : f.nodes[k] # None /\ m \in ToSet(f.nodes[k].labels)
  <2>1. m \in ToSet(FrameLabels(f)) <=> \E p \in PlaneIds, n \in NodeIds : m \in ToSet(at(p, n))
    BY <1>5, <1>7, <1>10 DEF NodeIds
  <2>2. \A p \in PlaneIds, n \in NodeIds : m \in ToSet(at(p, n)) <=>
            f.nodes[<<p, n>>] # None /\ m \in ToSet(f.nodes[<<p, n>>].labels)
    BY <1>4 DEF at
  <2>3. \A k \in NodeKeys : k = <<k[1], k[2]>> /\ k[1] \in PlaneIds /\ k[2] \in NodeIds
    BY DEF NodeKeys
  <2> QED
    BY <1>2, <2>1, <2>2, <2>3
<1> QED
  BY <1>7, <1>9, <1>11

(* The dictionary holds no more names than it has given ids.                 *)
LEMMA NamesFit ==
  ASSUME NEW d, DictOK(d), NEW L, L \subseteq Labels, \A l \in L : d.fwd[l] # None
  PROVE  /\ IsFiniteSet(L) /\ Cardinality(L) \in Nat
         /\ 1 + Cardinality(L) <= d.next
<1> DEFINE T == 1..(d.next - 1)
           f == [l \in L |-> d.fwd[l]]
<1>1. d.next \in Nat /\ d.next >= 1 /\ d.fwd \in [Labels -> Optional(LabelIds)]
  BY Ids DEF DictOK, Dictionary
<1>2. \A l \in L : d.fwd[l] \in T /\ d.rev[d.fwd[l]] = l
  BY <1>1, Ids DEF DictOK, Optional, LabelIds
<1>3. f \in Injection(L, T)
  BY <1>2 DEF Injection, IsInjective
<1>4. IsFiniteSet(T) /\ Cardinality(T) = d.next - 1
  <2>1. 1 \in Int /\ d.next - 1 \in Int
    BY <1>1
  <2>2. Cardinality(T) = IF 1 > d.next - 1 THEN 0 ELSE (d.next - 1) - 1 + 1
    BY <2>1, FS_Interval
  <2>3. IsFiniteSet(T)
    BY <2>1, FS_Interval
  <2> QED
    BY <1>1, <2>2, <2>3
<1> HIDE DEF T, f
<1>5. IsFiniteSet(L) /\ Cardinality(L) <= Cardinality(T)
  BY <1>3, <1>4, FS_Injection
<1>6. Cardinality(L) \in Nat
  BY <1>5, FS_CardinalityType
<1> QED
  BY <1>1, <1>4, <1>5, <1>6

(* The names of a record's labels are interned.                              *)
LEMMA ResolveIs ==
  ASSUME NEW d, DictOK(d), NEW lids \in Seq(LabelIds), \A i \in DOMAIN lids : d.rev[lids[i]] # None,
         NEW names, names = Resolve(d, lids)
  PROVE  /\ names \in Seq(Labels) /\ DOMAIN names = DOMAIN lids
         /\ \A m \in ToSet(names) : m \in Labels /\ d.fwd[m] # None
<1>1. DOMAIN lids = 1..Len(lids) /\ Len(lids) \in Nat /\ \A i \in 1..Len(lids) : lids[i] \in LabelIds
  OBVIOUS
<1>2. d.rev \in [LabelIds -> Optional(Labels)]
  BY DEF DictOK, Dictionary
<1>3. ASSUME NEW i \in 1..Len(lids)
      PROVE  d.rev[lids[i]] \in Labels /\ d.fwd[d.rev[lids[i]]] # None
  <2>1. d.rev[lids[i]] \in Labels /\ d.fwd[d.rev[lids[i]]] = lids[i]
    BY <1>1, <1>2 DEF DictOK, Optional
  <2> QED
    BY <1>1, <2>1, Ids
<1>4. names = [i \in 1..Len(lids) |-> d.rev[lids[i]]]
  BY <1>1 DEF Resolve
<1>5. names \in Seq(Labels)
  BY <1>1, <1>3, <1>4
<1> QED
  BY <1>1, <1>3, <1>4, <1>5 DEF ToSet

LEMMA NodeRowIs ==
  ASSUME NEW s, Good(s), NEW k \in NodeKeys, s.nodes[k] # None
  PROVE  /\ s.nodes[k].key \in Optional(Keys) /\ s.nodes[k].labels \in Seq(LabelIds)
         /\ \A i \in DOMAIN s.nodes[k].labels : s.dict.rev[s.nodes[k].labels[i]] # None
<1>1. s.nodes[k] \in NodeRow
  BY DEF Good, NodesOK, Optional
<1> QED
  BY <1>1 DEF Good, NodesOK, NodeRow

(* What is in the frames of a store.                                         *)
LEMMA FramesAre ==
  ASSUME NEW s, Good(s), NEW f, f = Frames(s)
  PROVE  /\ f.planes = s.planes /\ f.seq = s.seq
         /\ f.next = [node |-> s.nextNode, edge |-> s.nextEdge, plane |-> s.nextPlane,
                      label |-> s.dict.next]
         /\ DOMAIN f.nodes = NodeKeys /\ DOMAIN f.edges = EdgeKeys
         /\ \A k \in NodeKeys : f.nodes[k] =
               IF k[1] \in Listed(s) /\ s.nodes[k] # None
               THEN [key |-> s.nodes[k].key, labels |-> Resolve(s.dict, s.nodes[k].labels)]
               ELSE None
         /\ \A k \in EdgeKeys : f.edges[k] = IF k[1] \in Listed(s) THEN s.edges[k] ELSE None
  BY DEF Frames, NodeKeys, EdgeKeys

(* The record of a node in the tables, and in a frame.                       *)
LEMMA RecordIs ==
  ASSUME NEW key \in Optional(Keys), NEW lids \in Seq(LabelIds)
  PROVE  [key |-> key, labels |-> lids] \in NodeRow
  BY DEF NodeRow

LEMMA FrameRowIs ==
  ASSUME NEW key \in Optional(Keys), NEW names \in Seq(Labels)
  PROVE  [key |-> key, labels |-> names] # None
<1>1. [key |-> key, labels |-> names] \in FrameRow
  BY DEF FrameRow
<1> QED
  BY <1>1, StoreAssumption

(* A restored node table: what each frame brings, in a store of its own.     *)
RestoredRows(f, d) ==
    [k \in {k \in DOMAIN f.nodes : f.nodes[k] # None} |->
        [key |-> f.nodes[k].key, labels |-> Lookup(d, f.nodes[k].labels)]]
RestoredEdges(f) == [k \in {k \in DOMAIN f.edges : f.edges[k] # None} |-> f.edges[k]]

Renumbered(d, s) == [d EXCEPT !.next = s.dict.next]

(* The frames' names fit a new dictionary, and come to no more ids.          *)
LEMMA RestoredDict ==
  ASSUME NEW s, Good(s), NEW f, f = Frames(s), NEW d, d = InternAll(EmptyDict, FrameLabels(f)),
         NEW e, e = Renumbered(d, s)
  PROVE  /\ DictOK(e) /\ Grows(EmptyDict, e) /\ e.fwd = d.fwd /\ e.rev = d.rev
         /\ e.next = s.dict.next /\ DictOK(d)
         /\ \A k \in NodeKeys : f.nodes[k] # None =>
               /\ k[1] \in Listed(s) /\ s.nodes[k] # None
               /\ f.nodes[k].key = s.nodes[k].key /\ f.nodes[k].key \in Optional(Keys)
               /\ f.nodes[k].labels \in Seq(Labels)
               /\ \A m \in ToSet(f.nodes[k].labels) : d.fwd[m] # None
         /\ \A k \in NodeKeys : k[1] \in Listed(s) /\ s.nodes[k] # None => f.nodes[k] # None
<1>1. /\ DOMAIN f.nodes = NodeKeys
      /\ \A k \in NodeKeys : f.nodes[k] =
            IF k[1] \in Listed(s) /\ s.nodes[k] # None
            THEN [key |-> s.nodes[k].key, labels |-> Resolve(s.dict, s.nodes[k].labels)]
            ELSE None
  BY FramesAre
<1>2. DictOK(s.dict)
  BY GoodIs
<1>3. ASSUME NEW k \in NodeKeys, k[1] \in Listed(s), s.nodes[k] # None
      PROVE  /\ f.nodes[k] # None
             /\ f.nodes[k].key = s.nodes[k].key /\ f.nodes[k].key \in Optional(Keys)
             /\ f.nodes[k].labels \in Seq(Labels)
             /\ \A m \in ToSet(f.nodes[k].labels) : m \in Labels /\ s.dict.fwd[m] # None
  <2> DEFINE key == s.nodes[k].key
             names == Resolve(s.dict, s.nodes[k].labels)
  <2>1. /\ key \in Optional(Keys) /\ s.nodes[k].labels \in Seq(LabelIds)
        /\ \A i \in DOMAIN s.nodes[k].labels : s.dict.rev[s.nodes[k].labels[i]] # None
    BY <1>3, NodeRowIs
  <2>2. /\ names \in Seq(Labels)
        /\ \A m \in ToSet(names) : m \in Labels /\ s.dict.fwd[m] # None
    BY <1>2, <2>1, ResolveIs
  <2>3. f.nodes[k] = [key |-> key, labels |-> names]
    BY <1>1, <1>3
  <2> HIDE DEF key, names
  <2>4. f.nodes[k] # None
    BY <2>1, <2>2, <2>3, FrameRowIs
  <2> QED
    BY <2>1, <2>2, <2>3, <2>4 DEF key
<1>4. ASSUME NEW k \in NodeKeys, f.nodes[k] # None
      PROVE  k[1] \in Listed(s) /\ s.nodes[k] # None
  BY <1>1, <1>4
<1>5. Framed(f.nodes)
  BY <1>1, <1>3, <1>4 DEF Framed
<1> DEFINE names == FrameLabels(f)
<1>6. /\ names \in Seq(Labels)
      /\ \A m : m \in ToSet(names) <=>
            \E k \in NodeKeys : f.nodes[k] # None /\ m \in ToSet(f.nodes[k].labels)
  BY <1>5, FrameLabelsIs
<1> HIDE DEF names
<1>7. ToSet(names) \subseteq Labels /\ \A m \in ToSet(names) : s.dict.fwd[m] # None
  BY <1>3, <1>4, <1>6
<1>8. DictOK(EmptyDict) /\ EmptyDict.next = 1 /\ \A m \in Labels : EmptyDict.fwd[m] = None
  <2>1. DictOK(EmptyStore.dict) /\ EmptyStore.dict = EmptyDict
    BY EmptyGood, GoodIs DEF EmptyStore
  <2> QED
    BY <2>1 DEF EmptyDict
<1>9. Missing(EmptyDict, ToSet(names)) = ToSet(names)
  BY <1>7, <1>8 DEF Missing
<1>10. /\ Cardinality(ToSet(names)) \in Nat /\ 1 + Cardinality(ToSet(names)) <= s.dict.next
       /\ s.dict.next \in Nat /\ s.dict.next <= MaxLabel + 1 /\ MaxLabel \in Nat
  <2>1. s.dict.next \in Nat /\ s.dict.next <= MaxLabel + 1 /\ MaxLabel \in Nat
    BY <1>2, Ids DEF DictOK
  <2> QED
    BY <1>2, <1>7, <2>1, NamesFit
<1>11. Interns(EmptyDict, names)
  <2>1. {l \in ToSet(names) : EmptyDict.fwd[l] = None} = ToSet(names)
    BY <1>7, <1>8
  <2>2. EmptyDict.next + Cardinality(ToSet(names)) <= MaxLabel + 1
    BY <1>8, <1>10
  <2> QED
    BY <2>1, <2>2 DEF Interns
<1>12. d = InternAll(EmptyDict, names)
  BY DEF names
<1>13. /\ DictOK(d) /\ Grows(EmptyDict, d)
       /\ \A m \in Labels : d.fwd[m] # None <=> EmptyDict.fwd[m] # None \/ m \in ToSet(names)
       /\ d.next = EmptyDict.next + Cardinality(Missing(EmptyDict, ToSet(names)))
  BY <1>6, <1>8, <1>11, <1>12, InternAllIs
<1>14. d.next <= s.dict.next /\ d.next \in Nat
  BY <1>8, <1>9, <1>10, <1>13
<1>15. d \in Dictionary
  BY <1>13 DEF DictOK
<1>16. e = [fwd |-> d.fwd, rev |-> d.rev, next |-> s.dict.next]
  BY <1>15 DEF Dictionary, Renumbered
<1>17. e.fwd = d.fwd /\ e.rev = d.rev /\ e.next = s.dict.next /\ e \in Dictionary
  BY <1>10, <1>15, <1>16 DEF Dictionary
<1>18. DictOK(e)
  <2>1. s.dict.next \in 1..(MaxLabel + 1)
    BY <1>2 DEF DictOK
  <2>2. d.fwd \in [Labels -> Optional(LabelIds)]
    BY <1>15 DEF Dictionary
  <2>3. ASSUME NEW l \in Labels, e.fwd[l] # None
        PROVE  e.fwd[l] < e.next /\ e.rev[e.fwd[l]] = l
    <3>1. d.fwd[l] < d.next /\ d.rev[d.fwd[l]] = l /\ d.fwd[l] \in Nat
      BY <1>13, <1>17, <2>2, <2>3, Ids DEF DictOK, Optional
    <3> QED
      BY <1>10, <1>14, <1>17, <3>1
  <2>4. ASSUME NEW i \in LabelIds, e.rev[i] # None
        PROVE  i < e.next /\ e.fwd[e.rev[i]] = i
    <3>1. i < d.next /\ d.fwd[d.rev[i]] = i /\ i \in Nat
      BY <1>13, <1>17, <2>4, Ids DEF DictOK
    <3> QED
      BY <1>10, <1>14, <1>17, <3>1
  <2> QED
    BY <1>17, <2>1, <2>3, <2>4 DEF DictOK
<1>19. Grows(EmptyDict, e)
  BY <1>13, <1>17 DEF Grows
<1>20. ASSUME NEW k \in NodeKeys, f.nodes[k] # None
       PROVE  \A m \in ToSet(f.nodes[k].labels) : d.fwd[m] # None
  <2>1. \A m \in ToSet(f.nodes[k].labels) : m \in ToSet(names) /\ m \in Labels
    BY <1>6, <1>7, <1>20
  <2> QED
    BY <1>13, <2>1
<1> QED
  BY <1>3, <1>4, <1>13, <1>17, <1>18, <1>19, <1>20

(* Two stores with the same nodes, or the same edges, after the same writes. *)
LEMMA SameInsertNodes ==
  ASSUME NEW u, NEW v, Shaped(u), Shaped(v), NodesSame(u, v), NEW rows
  PROVE  NodesSame(InsertNodes(u, rows), InsertNodes(v, rows))
<1> DEFINE new == DOMAIN rows
           A(f) == Under(f, rows)
           B(f) == [n \in DOMAIN f |->
                     IF \E k \in new : k[2] = n THEN (CHOOSE k \in new : k[2] = n)[1] ELSE f[n]]
           C(x) == x \cup UNION {LabelKeys(k, rows[k].labels) : k \in new}
           D(f) == [x \in DOMAIN f |->
                     IF \E k \in new : <<k[1], rows[k].key>> = x
                     THEN (CHOOSE k \in new : <<k[1], rows[k].key>> = x)[2] ELSE f[x]]
<1>1. /\ u.nodes = v.nodes /\ u.nodePlane = v.nodePlane /\ u.labelIdx = v.labelIdx
      /\ u.extKeys = v.extKeys
  BY DEF NodesSame
<1>2. InsertNodes(u, rows) = [u EXCEPT !.nodes = A(u.nodes), !.nodePlane = B(u.nodePlane),
                                       !.labelIdx = C(u.labelIdx), !.extKeys = D(u.extKeys)]
  BY DEF InsertNodes
<1>3. InsertNodes(v, rows) = [v EXCEPT !.nodes = A(v.nodes), !.nodePlane = B(v.nodePlane),
                                       !.labelIdx = C(v.labelIdx), !.extKeys = D(v.extKeys)]
  BY DEF InsertNodes
<1>4. PICK a, b, c, d : a = A(u.nodes) /\ b = B(u.nodePlane) /\ c = C(u.labelIdx) /\ d = D(u.extKeys)
  <2> HIDE DEF A, B, C, D
  <2> QED
    OBVIOUS
<1> HIDE DEF A, B, C, D
<1>5. /\ InsertNodes(u, rows) = [u EXCEPT !.nodes = a, !.nodePlane = b, !.labelIdx = c, !.extKeys = d]
      /\ InsertNodes(v, rows) = [v EXCEPT !.nodes = a, !.nodePlane = b, !.labelIdx = c, !.extKeys = d]
  BY <1>1, <1>2, <1>3, <1>4
<1>6. PICK x, y : x = InsertNodes(u, rows) /\ y = InsertNodes(v, rows)
  OBVIOUS
<1>7. x.nodes = a /\ x.nodePlane = b /\ x.labelIdx = c /\ x.extKeys = d
  <2>1. x = [u EXCEPT !.nodes = a, !.nodePlane = b, !.labelIdx = c, !.extKeys = d]
    BY <1>5, <1>6
  <2> QED
    BY <2>1 DEF Shaped, TableNames
<1>8. y.nodes = a /\ y.nodePlane = b /\ y.labelIdx = c /\ y.extKeys = d
  <2>1. y = [v EXCEPT !.nodes = a, !.nodePlane = b, !.labelIdx = c, !.extKeys = d]
    BY <1>5, <1>6
  <2> QED
    BY <2>1 DEF Shaped, TableNames
<1> QED
  BY <1>6, <1>7, <1>8 DEF NodesSame

LEMMA SameInsertEdges ==
  ASSUME NEW u, NEW v, Shaped(u), Shaped(v), EdgesSame(u, v), NEW rows
  PROVE  EdgesSame(InsertEdges(u, rows), InsertEdges(v, rows))
<1> DEFINE A(f) == Under(f, rows)
           B(x) == x \cup {Fwd(k, rows[k]) : k \in DOMAIN rows}
           C(x) == x \cup {Rev(k, rows[k]) : k \in DOMAIN rows}
<1>1. u.edges = v.edges /\ u.adjFwd = v.adjFwd /\ u.adjRev = v.adjRev
  BY DEF EdgesSame
<1>2. InsertEdges(u, rows) = [u EXCEPT !.edges = A(u.edges), !.adjFwd = B(u.adjFwd),
                                       !.adjRev = C(u.adjRev)]
  BY DEF InsertEdges
<1>3. InsertEdges(v, rows) = [v EXCEPT !.edges = A(v.edges), !.adjFwd = B(v.adjFwd),
                                       !.adjRev = C(v.adjRev)]
  BY DEF InsertEdges
<1>4. PICK a, b, c : a = A(u.edges) /\ b = B(u.adjFwd) /\ c = C(u.adjRev)
  <2> HIDE DEF A, B, C
  <2> QED
    OBVIOUS
<1> HIDE DEF A, B, C
<1>5. /\ InsertEdges(u, rows) = [u EXCEPT !.edges = a, !.adjFwd = b, !.adjRev = c]
      /\ InsertEdges(v, rows) = [v EXCEPT !.edges = a, !.adjFwd = b, !.adjRev = c]
  BY <1>1, <1>2, <1>3, <1>4
<1>6. PICK x, y : x = InsertEdges(u, rows) /\ y = InsertEdges(v, rows)
  OBVIOUS
<1>7. x.edges = a /\ x.adjFwd = b /\ x.adjRev = c
  <2>1. x = [u EXCEPT !.edges = a, !.adjFwd = b, !.adjRev = c]
    BY <1>5, <1>6
  <2> QED
    BY <2>1 DEF Shaped, TableNames
<1>8. y.edges = a /\ y.adjFwd = b /\ y.adjRev = c
  <2>1. y = [v EXCEPT !.edges = a, !.adjFwd = b, !.adjRev = c]
    BY <1>5, <1>6
  <2> QED
    BY <2>1 DEF Shaped, TableNames
<1> QED
  BY <1>6, <1>7, <1>8 DEF EdgesSame

(* The planes of a new store after the frames' are the source's.             *)
LEMMA RestoredPlanes ==
  ASSUME NEW s, PlanesOK(s)
  PROVE  /\ [p \in DOMAIN EmptyStore.planes |->
                IF s.planes[p] # None THEN s.planes[p] ELSE EmptyStore.planes[p]] = s.planes
         /\ [n \in DOMAIN EmptyStore.planeNames |->
                IF \E p \in PlaneIds : s.planes[p] = n
                THEN CHOOSE p \in PlaneIds : s.planes[p] = n
                ELSE EmptyStore.planeNames[n]] = s.planeNames
<1>1. /\ EmptyStore.planes = [p \in PlaneIds |-> IF p = Startup THEN StartupName ELSE None]
      /\ EmptyStore.planeNames = [n \in Names |-> IF n = StartupName THEN Startup ELSE None]
  BY DEF EmptyStore
<1> DEFINE e == EmptyStore
<1> HIDE DEF e
<1>2. /\ DOMAIN e.planes = PlaneIds /\ DOMAIN e.planeNames = Names
      /\ \A p \in PlaneIds : e.planes[p] = IF p = Startup THEN StartupName ELSE None
      /\ \A n \in Names : e.planeNames[n] = IF n = StartupName THEN Startup ELSE None
  BY <1>1 DEF e
<1>3. /\ s.planes \in [PlaneIds -> Optional(Names)]
      /\ s.planeNames \in [Names -> Optional(PlaneIds)]
      /\ \A p \in PlaneIds, n \in Names : s.planeNames[n] = p <=> s.planes[p] = n
      /\ s.planes[Startup] = StartupName /\ Startup \in PlaneIds
  BY Ids DEF PlanesOK
<1>4. \A p \in PlaneIds : (IF s.planes[p] # None THEN s.planes[p] ELSE e.planes[p]) = s.planes[p]
  BY <1>2, <1>3, Ids
<1>5. ASSUME NEW n \in Names
      PROVE  (IF \E p \in PlaneIds : s.planes[p] = n
              THEN CHOOSE p \in PlaneIds : s.planes[p] = n ELSE e.planeNames[n]) = s.planeNames[n]
  <2>1. CASE \E p \in PlaneIds : s.planes[p] = n
    <3> DEFINE q == CHOOSE p \in PlaneIds : s.planes[p] = n
    <3>1. q \in PlaneIds /\ s.planes[q] = n
      BY <2>1
    <3> HIDE DEF q
    <3>2. s.planeNames[n] = q
      BY <1>3, <3>1
    <3> QED
      BY <2>1, <3>2 DEF q
  <2>2. CASE ~ \E p \in PlaneIds : s.planes[p] = n
    <3>1. n # StartupName
      BY <1>3, <2>2
    <3>2. s.planeNames[n] = None
      BY <1>3, <2>2 DEF Optional
    <3> QED
      BY <1>2, <2>2, <3>1, <3>2
  <2> QED
    BY <2>1, <2>2
<1>6. [p \in DOMAIN e.planes |->
          IF s.planes[p] # None THEN s.planes[p] ELSE e.planes[p]] = s.planes
  BY <1>2, <1>3, <1>4
<1>7. [n \in DOMAIN e.planeNames |->
          IF \E p \in PlaneIds : s.planes[p] = n
          THEN CHOOSE p \in PlaneIds : s.planes[p] = n ELSE e.planeNames[n]] = s.planeNames
  <2> DEFINE g(n) == IF \E p \in PlaneIds : s.planes[p] = n
                     THEN CHOOSE p \in PlaneIds : s.planes[p] = n ELSE e.planeNames[n]
  <2>1. \A n \in Names : g(n) = s.planeNames[n]
    BY <1>5
  <2> HIDE DEF g
  <2>2. [n \in DOMAIN e.planeNames |-> g(n)] = s.planeNames
    BY <1>2, <1>3, <2>1
  <2> QED
    BY <2>2 DEF g
<1> QED
  BY <1>6, <1>7 DEF e

(* The same, with the planes of another store.                               *)
LEMMA GoodWithPlanes ==
  ASSUME NEW z, Good(z), NEW s, PlanesOK(s),
         NEW t, Shaped(t), NodesSame(z, t), EdgesSame(z, t), PlanesSame(s, t),
         DictOK(t.dict), Grows(z.dict, t.dict), t.nextNode \in Nat, z.nextNode <= t.nextNode,
         t.nextEdge \in Nat, z.nextEdge <= t.nextEdge
  PROVE  Good(t)
<1>1. NodesOK(t)
  BY NodesKept DEF Good
<1>2. PlanesOK(t)
  BY PlanesKept
<1>3. EdgesOK(t)
  BY EdgesKept DEF Good, NodesSame
<1> QED
  BY <1>1, <1>2, <1>3 DEF Good

(* The same, written in an order the lemmas above can follow: a new store    *)
(* with the source's planes, counters and names; its nodes; its edges.       *)
NewStore(s, e) ==
    [EmptyStore EXCEPT !.planes = s.planes, !.planeNames = s.planeNames, !.nextNode = s.nextNode,
                       !.nextEdge = s.nextEdge, !.nextPlane = s.nextPlane, !.dict = e]

LEMMA RestoredBase ==
  ASSUME NEW s, Good(s), NEW e, DictOK(e), Grows(EmptyDict, e),
         NEW b, b = NewStore(s, e)
  PROVE  /\ Good(b) /\ NodesSame(EmptyStore, b) /\ EdgesSame(EmptyStore, b) /\ PlanesSame(s, b)
         /\ b.nextNode = s.nextNode /\ b.nextEdge = s.nextEdge /\ b.dict = e
         /\ \A k \in NodeKeys : b.nodes[k] = None
         /\ \A k \in EdgeKeys : b.edges[k] = None
         /\ \A p \in PlaneIds, key \in Keys : b.extKeys[<<p, key>>] = None
<1>1. Good(EmptyStore)
  BY EmptyGood
<1>2. /\ EmptyStore.nextNode = 1 /\ EmptyStore.nextEdge = 1 /\ EmptyStore.dict = EmptyDict
      /\ \A k \in NodeKeys : EmptyStore.nodes[k] = None
      /\ \A k \in EdgeKeys : EmptyStore.edges[k] = None
  BY DEF EmptyStore, NodeKeys, EdgeKeys
<1>3. \A p \in PlaneIds, key \in Keys : EmptyStore.extKeys[<<p, key>>] = None
  <2>1. EmptyStore.extKeys = [k \in PlaneIds \X Keys |-> None]
    BY DEF EmptyStore
  <2> QED
    BY <2>1
<1>4. PICK z : z = EmptyStore
  OBVIOUS
<1>5. /\ Shaped(b) /\ NodesSame(z, b) /\ EdgesSame(z, b) /\ PlanesSame(s, b)
      /\ b.nextNode = s.nextNode /\ b.nextEdge = s.nextEdge /\ b.dict = e
  <2>1. b = [z EXCEPT !.planes = s.planes, !.planeNames = s.planeNames,
                      !.nextNode = s.nextNode, !.nextEdge = s.nextEdge,
                      !.nextPlane = s.nextPlane, !.dict = e]
    BY <1>4 DEF NewStore
  <2> QED
    BY <1>1, <1>4, <2>1 DEF Good, Shaped, TableNames, NodesSame, EdgesSame, PlanesSame
<1>6. s.nextNode \in Nat /\ s.nextNode >= 1 /\ s.nextEdge \in Nat /\ s.nextEdge >= 1
  BY GoodIs
<1>a. /\ NodesOK(z) /\ EdgesOK(z) /\ z.nextNode = 1 /\ z.nextEdge = 1 /\ z.dict = EmptyDict
  BY <1>1, <1>2, <1>4 DEF Good
<1>b. /\ b.nextNode \in Nat /\ z.nextNode <= b.nextNode /\ b.nextEdge \in Nat /\ z.nextEdge <= b.nextEdge
      /\ DictOK(b.dict) /\ Grows(z.dict, b.dict)
  BY <1>a, <1>5, <1>6
<1>7. Good(b)
  <2>1. Good(z) /\ PlanesOK(s)
    BY <1>1, <1>4 DEF Good
  <2> QED
    BY <2>1, <1>b, <1>5, GoodWithPlanes
<1> QED
  BY <1>2, <1>3, <1>4, <1>5, <1>7 DEF NodesSame, EdgesSame

(* A node id is of one plane, a key of one node.                             *)
LEMMA NodeTablesSay ==
  ASSUME NEW s, Good(s), NEW j \in NodeKeys, NEW k \in NodeKeys, j # k,
         s.nodes[j] # None, s.nodes[k] # None
  PROVE  /\ j[2] # k[2]
         /\ s.nodes[k].key # None => <<j[1], s.nodes[j].key>> # <<k[1], s.nodes[k].key>>
<1>1. /\ j = <<j[1], j[2]>> /\ j[1] \in PlaneIds /\ j[2] \in NodeIds
      /\ k = <<k[1], k[2]>> /\ k[1] \in PlaneIds /\ k[2] \in NodeIds
  BY PairIs DEF NodeKeys
<1>2. /\ \A n \in NodeIds, p \in PlaneIds : s.nodes[<<p, n>>] # None <=> s.nodePlane[n] = p
      /\ \A p \in PlaneIds, key \in Keys, n \in NodeIds :
            s.extKeys[<<p, key>>] = n <=> s.nodes[<<p, n>>] # None /\ s.nodes[<<p, n>>].key = key
  BY DEF Good, NodesOK, NodeTablesMirror
<1>3. j[2] # k[2]
  BY <1>1, <1>2
<1>4. ASSUME s.nodes[k].key # None, <<j[1], s.nodes[j].key>> = <<k[1], s.nodes[k].key>>
      PROVE  FALSE
  <2>1. s.nodes[k].key \in Keys
    BY <1>4, NodeRowIs DEF Optional
  <2>2. PICK key : key = s.nodes[k].key
    OBVIOUS
  <2>3. key \in Keys /\ s.nodes[j].key = key /\ j[1] = k[1]
    BY <1>4, <2>1, <2>2
  <2>4. s.extKeys[<<k[1], key>>] = k[2] /\ s.extKeys[<<j[1], key>>] = j[2]
    BY <1>1, <1>2, <2>2, <2>3
  <2> QED
    BY <1>3, <2>3, <2>4
<1> QED
  BY <1>3, <1>4

(* The nodes of the frames can be written to it.                             *)
Vacant(b) ==
    /\ \A k \in NodeKeys : b.nodes[k] = None
    /\ \A p \in PlaneIds, key \in Keys : b.extKeys[<<p, key>>] = None

RowsRestored(s, f, e, rows) ==
    /\ DOMAIN rows = {k \in NodeKeys : k[1] \in Listed(s) /\ s.nodes[k] # None}
    /\ \A k \in DOMAIN rows : /\ rows[k] # None
                              /\ rows[k].key = s.nodes[k].key
                              /\ Resolve(e, rows[k].labels) = f.nodes[k].labels

LEMMA RestoredNodesFit ==
  ASSUME NEW s, Good(s), NEW f, f = Frames(s), NEW d, d = InternAll(EmptyDict, FrameLabels(f)),
         NEW e, e = Renumbered(d, s),
         NEW b, b.nextNode = s.nextNode, b.dict = e, Vacant(b),
         NEW rows, rows = RestoredRows(f, d)
  PROVE  Insertable(b, rows) /\ RowsRestored(s, f, e, rows)
<1>1. DOMAIN f.nodes = NodeKeys
  BY FramesAre
<1>2. /\ e.fwd = d.fwd /\ e.rev = d.rev /\ DictOK(d)
      /\ \A k \in NodeKeys : f.nodes[k] # None =>
            /\ k[1] \in Listed(s) /\ s.nodes[k] # None
            /\ f.nodes[k].key = s.nodes[k].key /\ f.nodes[k].key \in Optional(Keys)
            /\ f.nodes[k].labels \in Seq(Labels)
            /\ \A m \in ToSet(f.nodes[k].labels) : d.fwd[m] # None
      /\ \A k \in NodeKeys : k[1] \in Listed(s) /\ s.nodes[k] # None => f.nodes[k] # None
  BY RestoredDict
<1>3. /\ DOMAIN rows = {k \in NodeKeys : f.nodes[k] # None}
      /\ \A k \in DOMAIN rows :
            rows[k] = [key |-> f.nodes[k].key, labels |-> Lookup(d, f.nodes[k].labels)]
  BY <1>1 DEF RestoredRows
<1>4. ASSUME NEW k \in DOMAIN rows
      PROVE  /\ rows[k] \in NodeRow /\ rows[k] # None /\ rows[k].key = s.nodes[k].key
             /\ k \in NodeKeys /\ s.nodes[k] # None /\ k[1] \in Listed(s)
             /\ \A i \in DOMAIN rows[k].labels : b.dict.rev[rows[k].labels[i]] # None
             /\ Resolve(e, rows[k].labels) = f.nodes[k].labels
  <2> DEFINE names == f.nodes[k].labels
             lids == Lookup(d, names)
  <2>1. k \in NodeKeys /\ f.nodes[k] # None
    BY <1>3
  <2>2. /\ names \in Seq(Labels) /\ \A m \in ToSet(names) : d.fwd[m] # None
        /\ f.nodes[k].key = s.nodes[k].key /\ f.nodes[k].key \in Optional(Keys)
        /\ k[1] \in Listed(s) /\ s.nodes[k] # None
    BY <1>2, <2>1
  <2> HIDE DEF names
  <2>3. /\ lids \in Seq(LabelIds) /\ DOMAIN lids = DOMAIN names
        /\ \A i \in DOMAIN names : d.rev[lids[i]] = names[i] /\ names[i] # None
    BY <1>2, <2>2, LookupIn
  <2>4. rows[k] = [key |-> f.nodes[k].key, labels |-> lids]
    BY <1>3 DEF names
  <2> HIDE DEF lids
  <2>5. rows[k].key = s.nodes[k].key /\ rows[k].labels = lids /\ rows[k] \in NodeRow
    BY <2>2, <2>3, <2>4, RecordIs
  <2>6. rows[k] # None
    BY <2>5, Ids
  <2>7. Resolve(e, lids) = names
    <3>1. DOMAIN names = 1..Len(names) /\ names = [i \in DOMAIN names |-> names[i]]
      BY <2>2
    <3>2. Resolve(e, lids) = [i \in DOMAIN names |-> d.rev[lids[i]]]
      BY <1>2, <2>3 DEF Resolve
    <3> QED
      BY <2>3, <3>1, <3>2
  <2>8. \A i \in DOMAIN lids : b.dict.rev[lids[i]] # None
    BY <1>2, <2>3
  <2> QED
    BY <2>1, <2>2, <2>5, <2>6, <2>7, <2>8 DEF names
<1>5. \A k \in DOMAIN rows : /\ k[2] < b.nextNode
                             /\ \A p \in PlaneIds : b.nodes[<<p, k[2]>>] = None
                             /\ rows[k].key # None => b.extKeys[<<k[1], rows[k].key>>] = None
  <2> SUFFICES ASSUME NEW k \in DOMAIN rows
               PROVE  /\ k[2] < b.nextNode
                      /\ \A p \in PlaneIds : b.nodes[<<p, k[2]>>] = None
                      /\ rows[k].key # None => b.extKeys[<<k[1], rows[k].key>>] = None
    OBVIOUS
  <2>1. k \in NodeKeys /\ s.nodes[k] # None /\ rows[k].key \in Optional(Keys)
    BY <1>4, NodeRowIs
  <2>2. k[1] \in PlaneIds /\ k[2] \in NodeIds
    BY <2>1 DEF NodeKeys
  <2>3. \A p \in PlaneIds : <<p, k[2]>> \in NodeKeys
    BY <2>2 DEF NodeKeys
  <2> QED
    BY <2>1, <2>2, <2>3, GoodIs DEF Optional, Vacant
<1>6. \A j, k \in DOMAIN rows : j # k =>
         j[2] # k[2] /\ (rows[k].key # None => <<j[1], rows[j].key>> # <<k[1], rows[k].key>>)
  <2> SUFFICES ASSUME NEW j \in DOMAIN rows, NEW k \in DOMAIN rows, j # k
               PROVE  /\ j[2] # k[2]
                      /\ rows[k].key # None => <<j[1], rows[j].key>> # <<k[1], rows[k].key>>
    OBVIOUS
  <2>1. /\ j \in NodeKeys /\ s.nodes[j] # None /\ rows[j].key = s.nodes[j].key
        /\ k \in NodeKeys /\ s.nodes[k] # None /\ rows[k].key = s.nodes[k].key
    BY <1>4
  <2>2. /\ j[2] # k[2]
        /\ s.nodes[k].key # None => <<j[1], s.nodes[j].key>> # <<k[1], s.nodes[k].key>>
    BY <2>1, NodeTablesSay
  <2> QED
    BY <2>1, <2>2
<1>7. DOMAIN rows \subseteq NodeKeys
  BY <1>3
<1>8. Insertable(b, rows)
  <2>1. \A k \in DOMAIN rows :
           /\ rows[k] \in NodeRow
           /\ k[2] < b.nextNode
           /\ \A p \in PlaneIds : b.nodes[<<p, k[2]>>] = None
           /\ rows[k].key # None => b.extKeys[<<k[1], rows[k].key>>] = None
           /\ \A i \in DOMAIN rows[k].labels : b.dict.rev[rows[k].labels[i]] # None
    <3> SUFFICES ASSUME NEW k \in DOMAIN rows
                 PROVE  /\ rows[k] \in NodeRow
                        /\ k[2] < b.nextNode
                        /\ \A p \in PlaneIds : b.nodes[<<p, k[2]>>] = None
                        /\ rows[k].key # None => b.extKeys[<<k[1], rows[k].key>>] = None
                        /\ \A i \in DOMAIN rows[k].labels : b.dict.rev[rows[k].labels[i]] # None
      OBVIOUS
    <3>1. rows[k] \in NodeRow /\ \A i \in DOMAIN rows[k].labels : b.dict.rev[rows[k].labels[i]] # None
      BY <1>4
    <3> QED
      BY <1>5, <3>1
  <2> QED
    BY <1>6, <1>7, <2>1, Zenon DEF Insertable
<1>9. DOMAIN rows = {k \in NodeKeys : k[1] \in Listed(s) /\ s.nodes[k] # None}
  BY <1>2, <1>3
<1>10. RowsRestored(s, f, e, rows)
  BY <1>4, <1>9 DEF RowsRestored
<1> QED
  BY <1>8, <1>10

(* The graph of the frames in it is a good store.                            *)
LEMMA RestoredGraph ==
  ASSUME NEW s, Good(s), NEW f, f = Frames(s), NEW d, d = InternAll(EmptyDict, FrameLabels(f)),
         NEW e, e = Renumbered(d, s),
         NEW b, b = NewStore(s, e),
         NEW N, N = InsertNodes(b, RestoredRows(f, d)),
         NEW E, E = InsertEdges(N, RestoredEdges(f))
  PROVE  /\ Good(E) /\ PlanesSame(s, E)
         /\ E.nextNode = s.nextNode /\ E.nextEdge = s.nextEdge /\ E.dict = e
         /\ \A k \in NodeKeys :
               IF k[1] \in Listed(s) /\ s.nodes[k] # None
               THEN /\ E.nodes[k] # None /\ E.nodes[k].key = s.nodes[k].key
                    /\ Resolve(e, E.nodes[k].labels) = f.nodes[k].labels
               ELSE E.nodes[k] = None
         /\ \A k \in EdgeKeys : E.edges[k] = IF k[1] \in Listed(s) THEN s.edges[k] ELSE None
<1> DEFINE rows == RestoredRows(f, d)
           edges == RestoredEdges(f)
<1>1. DictOK(e) /\ Grows(EmptyDict, e)
  BY RestoredDict
<1>2. /\ Good(b) /\ PlanesSame(s, b)
      /\ b.nextNode = s.nextNode /\ b.nextEdge = s.nextEdge /\ b.dict = e
      /\ \A k \in NodeKeys : b.nodes[k] = None
      /\ \A k \in EdgeKeys : b.edges[k] = None
      /\ \A p \in PlaneIds, key \in Keys : b.extKeys[<<p, key>>] = None
  BY <1>1, RestoredBase
<1> HIDE DEF rows, edges
<1>3. /\ Insertable(b, rows)
      /\ DOMAIN rows = {k \in NodeKeys : k[1] \in Listed(s) /\ s.nodes[k] # None}
      /\ \A k \in DOMAIN rows : /\ rows[k] # None
                                /\ rows[k].key = s.nodes[k].key
                                /\ Resolve(e, rows[k].labels) = f.nodes[k].labels
  <2>1. rows = RestoredRows(f, d)
    BY DEF rows
  <2>2. Vacant(b) /\ b.nextNode = s.nextNode /\ b.dict = e
    BY <1>2 DEF Vacant
  <2>3. Insertable(b, rows) /\ RowsRestored(s, f, e, rows)
    BY <2>1, <2>2, RestoredNodesFit
  <2> QED
    BY <2>3 DEF RowsRestored
<1>4. N = InsertNodes(b, rows) /\ E = InsertEdges(N, edges)
  BY DEF rows, edges
<1>5. /\ Good(N) /\ N.nextNode = s.nextNode /\ N.nextEdge = s.nextEdge /\ N.dict = e
      /\ N.edges = b.edges
      /\ \A k \in NodeKeys : N.nodes[k] = IF k \in DOMAIN rows THEN rows[k] ELSE b.nodes[k]
  BY <1>2, <1>3, <1>4, InsertNodesGood
<1>6. PlanesSame(b, N)
  <2>1. Shaped(b)
    BY <1>2, GoodIs
  <2> QED
    BY <1>4, <2>1, InsertNodesLeaves
<1>7. /\ DOMAIN f.edges = EdgeKeys
      /\ \A k \in EdgeKeys : f.edges[k] = IF k[1] \in Listed(s) THEN s.edges[k] ELSE None
  BY FramesAre
<1>8. /\ DOMAIN edges = {k \in EdgeKeys : k[1] \in Listed(s) /\ s.edges[k] # None}
      /\ \A k \in DOMAIN edges : edges[k] = s.edges[k]
  BY <1>7 DEF edges, RestoredEdges
<1>9. ASSUME NEW k \in DOMAIN edges
      PROVE  /\ edges[k] \in EdgeRow /\ N.edges[k] = None /\ k[2] < N.nextEdge
             /\ NodeExists(N, k[1], edges[k].src) /\ NodeExists(N, k[1], edges[k].dst)
  <2>1. k \in EdgeKeys /\ k[1] \in Listed(s) /\ s.edges[k] # None /\ edges[k] = s.edges[k]
    BY <1>8
  <2>2. edges[k] \in EdgeRow /\ k[2] < s.nextEdge
    BY <2>1, GoodIs DEF Optional
  <2>3. k[1] \in PlaneIds /\ edges[k].src \in NodeIds /\ edges[k].dst \in NodeIds
    BY <2>1, <2>2 DEF EdgeKeys, EdgeRow
  <2>4. NodeExists(s, k[1], edges[k].src) /\ NodeExists(s, k[1], edges[k].dst)
    BY <2>1, AdjacencyIs DEF Good, EdgesOK
  <2>5. <<k[1], edges[k].src>> \in DOMAIN rows /\ <<k[1], edges[k].dst>> \in DOMAIN rows
    BY <1>3, <2>1, <2>3, <2>4 DEF NodeExists, NodeKeys
  <2>6. NodeExists(N, k[1], edges[k].src) /\ NodeExists(N, k[1], edges[k].dst)
    BY <1>3, <1>5, <2>5 DEF NodeExists
  <2> QED
    BY <1>2, <1>5, <2>1, <2>2, <2>6
<1>10. DOMAIN edges \subseteq EdgeKeys
  BY <1>8
<1>11. /\ Good(E) /\ E.nextNode = N.nextNode /\ E.nextEdge = N.nextEdge /\ E.dict = N.dict
       /\ E.nodes = N.nodes /\ PlanesSame(N, E)
       /\ \A k \in EdgeKeys : E.edges[k] = IF k \in DOMAIN edges THEN edges[k] ELSE N.edges[k]
  BY <1>4, <1>5, <1>9, <1>10, InsertEdgesGood
<1>12. PlanesSame(s, E)
  BY <1>2, <1>6, <1>11 DEF PlanesSame
<1>13. ASSUME NEW k \in NodeKeys
       PROVE  IF k[1] \in Listed(s) /\ s.nodes[k] # None
              THEN /\ E.nodes[k] # None /\ E.nodes[k].key = s.nodes[k].key
                   /\ Resolve(e, E.nodes[k].labels) = f.nodes[k].labels
              ELSE E.nodes[k] = None
  <2>1. E.nodes[k] = IF k \in DOMAIN rows THEN rows[k] ELSE None
    BY <1>2, <1>5, <1>11
  <2>2. CASE k \in DOMAIN rows
    BY <1>3, <2>1, <2>2
  <2>3. CASE k \notin DOMAIN rows
    BY <1>3, <2>1, <2>3
  <2> QED
    BY <2>2, <2>3
<1>14. ASSUME NEW k \in EdgeKeys
       PROVE  E.edges[k] = IF k[1] \in Listed(s) THEN s.edges[k] ELSE None
  BY <1>2, <1>5, <1>8, <1>11
<1> QED
  BY <1>5, <1>11, <1>12, <1>13, <1>14

(* apply_frame writes the planes in the frames, then that graph.             *)
PlanesFirst(s, d) ==
    [EmptyStore EXCEPT !.dict = d, !.planes = s.planes, !.planeNames = s.planeNames]

LEMMA ReplayIs ==
  ASSUME NEW s, Good(s), NEW f, f = Frames(s), NEW d, d = InternAll(EmptyDict, FrameLabels(f)),
         NEW P, P = PlanesFirst(s, d)
  PROVE  Replay(EmptyStore, f) = InsertEdges(InsertNodes(P, RestoredRows(f, d)), RestoredEdges(f))
<1>1. f.planes = s.planes /\ PlanesOK(s)
  BY FramesAre, GoodIs
<1> DEFINE z == EmptyStore
           a == [p \in DOMAIN z.planes |-> IF f.planes[p] # None THEN f.planes[p] ELSE z.planes[p]]
           c == [n \in DOMAIN z.planeNames |->
                    IF \E p \in PlaneIds : f.planes[p] = n
                    THEN CHOOSE p \in PlaneIds : f.planes[p] = n ELSE z.planeNames[n]]
<1>2. a = s.planes /\ c = s.planeNames
  <2>1. /\ [p \in DOMAIN z.planes |->
               IF s.planes[p] # None THEN s.planes[p] ELSE z.planes[p]] = s.planes
        /\ [n \in DOMAIN z.planeNames |->
               IF \E p \in PlaneIds : s.planes[p] = n
               THEN CHOOSE p \in PlaneIds : s.planes[p] = n
               ELSE z.planeNames[n]] = s.planeNames
    BY <1>1, RestoredPlanes
  <2> QED
    BY <1>1, <2>1
<1>3. InternAll(z.dict, FrameLabels(f)) = d
  <2>1. z.dict = EmptyDict
    BY DEF EmptyStore
  <2> QED
    BY <2>1
<1> DEFINE D == InternAll(z.dict, FrameLabels(f))
<1> HIDE DEF z
<1>4. Replay(z, f) =
         InsertEdges(InsertNodes([z EXCEPT !.dict = D, !.planes = a, !.planeNames = c],
                                 RestoredRows(f, D)), RestoredEdges(f))
  BY DEF Replay, RestoredRows, RestoredEdges
<1>5. P = [z EXCEPT !.dict = d, !.planes = s.planes, !.planeNames = s.planeNames]
  BY DEF z, PlanesFirst
<1> HIDE DEF a, c, D
<1>6. D = d
  BY <1>3 DEF D
<1>7. [z EXCEPT !.dict = D, !.planes = a, !.planeNames = c] = P
  BY <1>2, <1>5, <1>6
<1>8. Replay(z, f) = InsertEdges(InsertNodes(P, RestoredRows(f, d)), RestoredEdges(f))
  BY <1>4, <1>6, <1>7
<1> QED
  BY <1>8 DEF z

(* What restore then sets: the counters, the sequence and the counts.        *)
LEMMA RestoredIs ==
  ASSUME NEW z, NEW f, NEW Y, Y = Replay(z, f), Shaped(Y), NEW R, R = Restored(z, f)
  PROVE  /\ Shaped(R) /\ NodesSame(Y, R) /\ EdgesSame(Y, R)
         /\ R.planes = Y.planes /\ R.planeNames = Y.planeNames
         /\ R.nextPlane = f.next.plane /\ R.nextNode = f.next.node /\ R.nextEdge = f.next.edge
         /\ R.dict = [Y.dict EXCEPT !.next = f.next.label] /\ R.seq = f.seq
<1> DEFINE u == [Y EXCEPT !.nextNode = f.next.node, !.nextEdge = f.next.edge,
                          !.nextPlane = f.next.plane, !.dict.next = f.next.label, !.seq = f.seq]
           c == [p \in PlaneIds |-> IF p \in Listed(u) THEN Counted(u, p) ELSE u.counters[p]]
<1>1. R = [u EXCEPT !.counters = c]
  BY DEF Restored
<1>2. PICK n, m, p, l, q : n = f.next.node /\ m = f.next.edge /\ p = f.next.plane
                           /\ l = f.next.label /\ q = f.seq
  OBVIOUS
<1>3. PICK h : h = [Y.dict EXCEPT !.next = l]
  OBVIOUS
<1>4. u = [Y EXCEPT !.nextNode = n, !.nextEdge = m, !.nextPlane = p, !.dict = h, !.seq = q]
  BY <1>2, <1>3
<1>5. PICK v : v = u
  OBVIOUS
<1>6. PICK w : w = c
  OBVIOUS
<1> HIDE DEF u, c
<1>7. /\ Shaped(v) /\ NodesSame(Y, v) /\ EdgesSame(Y, v)
      /\ v.planes = Y.planes /\ v.planeNames = Y.planeNames
      /\ v.nextPlane = p /\ v.nextNode = n /\ v.nextEdge = m /\ v.dict = h /\ v.seq = q
  <2>1. v = [Y EXCEPT !.nextNode = n, !.nextEdge = m, !.nextPlane = p, !.dict = h, !.seq = q]
    BY <1>4, <1>5
  <2> QED
    BY <2>1 DEF Shaped, TableNames, NodesSame, EdgesSame
<1>8. R = [v EXCEPT !.counters = w]
  BY <1>1, <1>5, <1>6
<1>9. /\ Shaped(R) /\ NodesSame(v, R) /\ EdgesSame(v, R)
      /\ R.planes = v.planes /\ R.planeNames = v.planeNames /\ R.nextPlane = v.nextPlane
      /\ R.nextNode = v.nextNode /\ R.nextEdge = v.nextEdge /\ R.dict = v.dict /\ R.seq = v.seq
  <2>1. R = [v EXCEPT !.counters = w] /\ Shaped(v)
    BY <1>7, <1>8
  <2> QED
    BY <2>1 DEF Shaped, TableNames, NodesSame, EdgesSame
<1> QED
  BY <1>2, <1>3, <1>7, <1>9 DEF NodesSame, EdgesSame

(* Its tables are those of that graph.                                       *)
LEMMA ReplayTables ==
  ASSUME NEW s, Good(s), NEW f, f = Frames(s), NEW d, d = InternAll(EmptyDict, FrameLabels(f)),
         NEW b, Shaped(b), NodesSame(EmptyStore, b), EdgesSame(EmptyStore, b),
         NEW E, E = InsertEdges(InsertNodes(b, RestoredRows(f, d)), RestoredEdges(f)),
         NEW Y, Y = Replay(EmptyStore, f)
  PROVE  /\ Shaped(Y) /\ NodesSame(E, Y) /\ EdgesSame(E, Y)
         /\ Y.planes = s.planes /\ Y.planeNames = s.planeNames /\ Y.dict = d
<1>1. PICK z : z = EmptyStore
  OBVIOUS
<1>2. Shaped(z)
  BY <1>1, EmptyGood, GoodIs
<1>3. PICK g, h : g = s.planes /\ h = s.planeNames
  OBVIOUS
<1>4. PICK P : P = [z EXCEPT !.dict = d, !.planes = g, !.planeNames = h]
  OBVIOUS
<1>5. /\ Shaped(P) /\ NodesSame(z, P) /\ EdgesSame(z, P)
      /\ P.planes = g /\ P.planeNames = h /\ P.dict = d
  BY <1>2, <1>4 DEF Shaped, TableNames, NodesSame, EdgesSame
<1>6. PICK rows, edges : rows = RestoredRows(f, d) /\ edges = RestoredEdges(f)
  OBVIOUS
<1>7. Y = InsertEdges(InsertNodes(P, rows), edges)
  <2>1. P = PlanesFirst(s, d)
    BY <1>1, <1>3, <1>4 DEF PlanesFirst
  <2>2. Replay(EmptyStore, f) = InsertEdges(InsertNodes(P, RestoredRows(f, d)), RestoredEdges(f))
    BY <2>1, ReplayIs
  <2> QED
    BY <1>6, <2>2
<1>8. PICK N, X : N = InsertNodes(b, rows) /\ X = InsertNodes(P, rows)
  OBVIOUS
<1>9. E = InsertEdges(N, edges) /\ Y = InsertEdges(X, edges)
  BY <1>6, <1>7, <1>8
<1>10. NodesSame(b, P) /\ EdgesSame(b, P)
  BY <1>1, <1>5 DEF NodesSame, EdgesSame
<1>11. NodesSame(N, X)
  BY <1>5, <1>8, <1>10, SameInsertNodes
<1>12. /\ Shaped(N) /\ EdgesSame(b, N)
  BY <1>8, InsertNodesLeaves
<1>13. /\ Shaped(X) /\ EdgesSame(P, X) /\ PlanesSame(P, X) /\ X.dict = P.dict
  BY <1>5, <1>8, InsertNodesLeaves
<1>14. EdgesSame(N, X)
  BY <1>10, <1>12, <1>13 DEF EdgesSame
<1>15. EdgesSame(E, Y)
  BY <1>9, <1>12, <1>13, <1>14, SameInsertEdges
<1>16. NodesSame(N, E)
  BY <1>9, <1>12, InsertEdgesIs
<1>17. Shaped(Y) /\ NodesSame(X, Y) /\ PlanesSame(X, Y) /\ Y.dict = X.dict
  BY <1>9, <1>13, InsertEdgesIs
<1>18. NodesSame(E, Y)
  BY <1>11, <1>16, <1>17 DEF NodesSame
<1> QED
  BY <1>3, <1>5, <1>13, <1>15, <1>17, <1>18 DEF PlanesSame

(* A store restored from a good one is good, with its planes and counters    *)
(* and with its nodes and edges of the planes listed.                        *)
LEMMA RestoredGood ==
  ASSUME NEW s, Good(s), NEW f, f = Frames(s), NEW R, R = Restored(EmptyStore, f)
  PROVE  /\ Good(R) /\ PlanesSame(s, R) /\ R.seq = s.seq
         /\ R.nextNode = s.nextNode /\ R.nextEdge = s.nextEdge /\ R.dict.next = s.dict.next
         /\ \A k \in NodeKeys :
               IF k[1] \in Listed(s) /\ s.nodes[k] # None
               THEN /\ R.nodes[k] # None /\ R.nodes[k].key = s.nodes[k].key
                    /\ Resolve(R.dict, R.nodes[k].labels) = f.nodes[k].labels
               ELSE R.nodes[k] = None
         /\ \A k \in EdgeKeys : R.edges[k] = IF k[1] \in Listed(s) THEN s.edges[k] ELSE None
<1>1. PICK d : d = InternAll(EmptyDict, FrameLabels(f))
  OBVIOUS
<1>2. PICK e : e = Renumbered(d, s)
  OBVIOUS
<1>3. DictOK(e) /\ Grows(EmptyDict, e) /\ e.next = s.dict.next
  BY <1>1, <1>2, RestoredDict
<1>4. PICK b : b = NewStore(s, e)
  OBVIOUS
<1>5. Good(b) /\ NodesSame(EmptyStore, b) /\ EdgesSame(EmptyStore, b)
  BY <1>3, <1>4, RestoredBase
<1>6. PICK N : N = InsertNodes(b, RestoredRows(f, d))
  OBVIOUS
<1>7. PICK E : E = InsertEdges(N, RestoredEdges(f))
  OBVIOUS
<1>8. /\ Good(E) /\ PlanesSame(s, E)
      /\ E.nextNode = s.nextNode /\ E.nextEdge = s.nextEdge /\ E.dict = e
      /\ \A k \in NodeKeys :
            IF k[1] \in Listed(s) /\ s.nodes[k] # None
            THEN /\ E.nodes[k] # None /\ E.nodes[k].key = s.nodes[k].key
                 /\ Resolve(e, E.nodes[k].labels) = f.nodes[k].labels
            ELSE E.nodes[k] = None
      /\ \A k \in EdgeKeys : E.edges[k] = IF k[1] \in Listed(s) THEN s.edges[k] ELSE None
  BY <1>1, <1>2, <1>4, <1>6, <1>7, RestoredGraph
<1>9. PICK Y : Y = Replay(EmptyStore, f)
  OBVIOUS
<1>10. /\ Shaped(Y) /\ NodesSame(E, Y) /\ EdgesSame(E, Y)
       /\ Y.planes = s.planes /\ Y.planeNames = s.planeNames /\ Y.dict = d
  <2>1. Shaped(b)
    BY <1>5, GoodIs
  <2>2. E = InsertEdges(InsertNodes(b, RestoredRows(f, d)), RestoredEdges(f))
    BY <1>6, <1>7
  <2> QED
    BY <1>1, <1>5, <1>9, <2>1, <2>2, ReplayTables
<1>11. /\ Shaped(R) /\ NodesSame(Y, R) /\ EdgesSame(Y, R)
       /\ R.planes = Y.planes /\ R.planeNames = Y.planeNames
       /\ R.nextPlane = f.next.plane /\ R.nextNode = f.next.node /\ R.nextEdge = f.next.edge
       /\ R.dict = [Y.dict EXCEPT !.next = f.next.label] /\ R.seq = f.seq
  BY <1>9, <1>10, RestoredIs
<1>12. /\ f.seq = s.seq
       /\ f.next = [node |-> s.nextNode, edge |-> s.nextEdge, plane |-> s.nextPlane,
                    label |-> s.dict.next]
  BY FramesAre
<1>13. R.dict = e
  BY <1>2, <1>10, <1>11, <1>12 DEF Renumbered
<1>14. NodesSame(E, R) /\ EdgesSame(E, R) /\ PlanesSame(s, R)
  BY <1>10, <1>11, <1>12 DEF NodesSame, EdgesSame, PlanesSame
<1>15. PlanesSame(E, R)
  BY <1>8, <1>14 DEF PlanesSame
<1>16. R.nextNode = s.nextNode /\ R.nextEdge = s.nextEdge /\ R.seq = s.seq
  BY <1>11, <1>12
<1>17. Good(R)
  <2>1. DictOK(R.dict) /\ Grows(E.dict, R.dict)
    BY <1>3, <1>8, <1>13, GrowsSelf
  <2>2. /\ R.nextNode \in Nat /\ E.nextNode <= R.nextNode
        /\ R.nextEdge \in Nat /\ E.nextEdge <= R.nextEdge
    BY <1>8, <1>16, GoodIs
  <2> QED
    BY <1>8, <1>11, <1>14, <1>15, <2>1, <2>2, StillGood
<1>18. R.nodes = E.nodes /\ R.edges = E.edges
  BY <1>14 DEF NodesSame, EdgesSame
<1> QED
  BY <1>3, <1>8, <1>13, <1>14, <1>16, <1>17, <1>18

(* A snapshot of a restored store is the one that it was restored from.      *)
LEMMA RestoredFrames ==
  ASSUME NEW s, Good(s)
  PROVE  Frames(Restored(EmptyStore, Frames(s))) = Frames(s)
<1>1. PICK f : f = Frames(s)
  OBVIOUS
<1>2. PICK R : R = Restored(EmptyStore, f)
  OBVIOUS
<1>3. /\ Good(R) /\ PlanesSame(s, R) /\ R.seq = s.seq
      /\ R.nextNode = s.nextNode /\ R.nextEdge = s.nextEdge /\ R.dict.next = s.dict.next
      /\ \A k \in NodeKeys :
            IF k[1] \in Listed(s) /\ s.nodes[k] # None
            THEN /\ R.nodes[k] # None /\ R.nodes[k].key = s.nodes[k].key
                 /\ Resolve(R.dict, R.nodes[k].labels) = f.nodes[k].labels
            ELSE R.nodes[k] = None
      /\ \A k \in EdgeKeys : R.edges[k] = IF k[1] \in Listed(s) THEN s.edges[k] ELSE None
  BY <1>1, <1>2, RestoredGood
<1>4. /\ R.planes = s.planes /\ R.nextPlane = s.nextPlane /\ Listed(R) = Listed(s)
  BY <1>3 DEF PlanesSame, Listed
<1> DEFINE Node(t, k) == IF k[1] \in Listed(t) /\ t.nodes[k] # None
                         THEN [key |-> t.nodes[k].key, labels |-> Resolve(t.dict, t.nodes[k].labels)]
                         ELSE None
           Edge(t, k) == IF k[1] \in Listed(t) THEN t.edges[k] ELSE None
           Counters(t) == [node |-> t.nextNode, edge |-> t.nextEdge, plane |-> t.nextPlane,
                           label |-> t.dict.next]
<1>5. ASSUME NEW t
      PROVE  Frames(t) = [planes |-> t.planes, nodes |-> [k \in NodeKeys |-> Node(t, k)],
                          edges |-> [k \in EdgeKeys |-> Edge(t, k)], next |-> Counters(t),
                          seq |-> t.seq]
  BY DEF Frames, NodeKeys, EdgeKeys
<1>6. \A k \in NodeKeys : f.nodes[k] = Node(s, k)
  BY <1>1, FramesAre
<1>7. ASSUME NEW k \in NodeKeys
      PROVE  Node(R, k) = Node(s, k)
  <2>1. CASE k[1] \in Listed(s) /\ s.nodes[k] # None
    <3>1. f.nodes[k] = [key |-> s.nodes[k].key, labels |-> Resolve(s.dict, s.nodes[k].labels)]
      BY <1>6, <2>1
    <3>2. f.nodes[k].labels = Resolve(s.dict, s.nodes[k].labels)
      BY <3>1
    <3>3. /\ R.nodes[k] # None /\ R.nodes[k].key = s.nodes[k].key
          /\ Resolve(R.dict, R.nodes[k].labels) = f.nodes[k].labels
      BY <1>3, <2>1
    <3> QED
      BY <1>4, <2>1, <3>2, <3>3
  <2>2. CASE ~ (k[1] \in Listed(s) /\ s.nodes[k] # None)
    BY <1>3, <2>2
  <2> QED
    BY <2>1, <2>2
<1>8. ASSUME NEW k \in EdgeKeys
      PROVE  Edge(R, k) = Edge(s, k)
  BY <1>3, <1>4
<1>9. Counters(R) = Counters(s)
  BY <1>3, <1>4
<1> HIDE DEF Node, Edge, Counters
<1>10. /\ [k \in NodeKeys |-> Node(R, k)] = [k \in NodeKeys |-> Node(s, k)]
       /\ [k \in EdgeKeys |-> Edge(R, k)] = [k \in EdgeKeys |-> Edge(s, k)]
  BY <1>7, <1>8
<1>11. Frames(R) = Frames(s)
  BY <1>3, <1>4, <1>5, <1>9, <1>10
<1> QED
  BY <1>1, <1>2, <1>11

LEMMA RestoreIs ==
  ASSUME OwnSnapshots, Inv, RestoreStep
  PROVE  /\ Good(db') /\ tx' = db' /\ plane' = None /\ ids' = Closed
         /\ \A k \in NodeKeys : db'.nodes[k] # None => db.nodes[k] # None
         /\ \A k \in EdgeKeys : db'.edges[k] # None => db.edges[k] # None
<1>1. /\ plane = None /\ plane' = plane /\ ids' = ids /\ tx' = db'
      /\ db' = Restored(EmptyStore, Frames(db))
  BY DEF OwnSnapshots, RestoreStep, Restore
<1>2. Good(db) /\ ids = Closed
  BY <1>1 DEF Inv
<1>3. PICK s, R : s = db /\ R = db'
  OBVIOUS
<1>4. PICK f : f = Frames(s)
  OBVIOUS
<1>5. Good(s) /\ R = Restored(EmptyStore, f)
  BY <1>1, <1>2, <1>3, <1>4
<1>6. /\ Good(R)
      /\ \A k \in NodeKeys :
            IF k[1] \in Listed(s) /\ s.nodes[k] # None
            THEN /\ R.nodes[k] # None /\ R.nodes[k].key = s.nodes[k].key
                 /\ Resolve(R.dict, R.nodes[k].labels) = f.nodes[k].labels
            ELSE R.nodes[k] = None
      /\ \A k \in EdgeKeys : R.edges[k] = IF k[1] \in Listed(s) THEN s.edges[k] ELSE None
  BY <1>4, <1>5, RestoredGood
<1>7. /\ \A k \in NodeKeys : R.nodes[k] # None => s.nodes[k] # None
      /\ \A k \in EdgeKeys : R.edges[k] # None => s.edges[k] # None
  BY <1>6
<1> QED
  BY <1>1, <1>2, <1>3, <1>6, <1>7

-------------------------------------------------------------------------------
(* Every step keeps the invariant.                                           *)

LEMMA StepKeeps ==
  ASSUME OwnSnapshots, Inv, [Next]_vars
  PROVE  Inv'
<1>1. ASSUME NEW p \in PlaneIds, Begin(p)
      PROVE  Inv'
  BY <1>1, BeginKeeps
<1>2. ASSUME NEW key \in Optional(Keys), NEW labels \in LabelLists, CreateNode(key, labels)
      PROVE  Inv'
  BY <1>2, CreateNodeKeeps
<1>3. ASSUME NEW src \in NodeIds, NEW dst \in NodeIds, NEW ty \in Types, CreateEdge(src, dst, ty)
      PROVE  Inv'
  BY <1>3, CreateEdgeKeeps
<1>4. ASSUME NEW n \in NodeIds, DeleteNode(n)
      PROVE  Inv'
  BY <1>4, DeleteNodeKeeps
<1>5. ASSUME NEW e \in EdgeIds, DeleteEdge(e)
      PROVE  Inv'
  BY <1>5, DeleteEdgeKeeps
<1>6. ASSUME NEW x \in Entity, Touch(x)
      PROVE  Inv'
  BY <1>6, TouchKeeps
<1>7. ASSUME NEW n \in NodeIds, NEW labels \in LabelLists, SetLabels(n, labels)
      PROVE  Inv'
  BY <1>7, SetLabelsKeeps
<1>8. ASSUME NEW e \in EdgeIds, NEW ty \in Types, SetEdgeType(e, ty)
      PROVE  Inv'
  BY <1>8, SetEdgeTypeKeeps
<1>9. ASSUME NEW batch \in Batches, NEW policy \in {"error", "skip", "update"},
             BulkUpsert(batch, policy) \/ BulkRefused(batch, policy)
      PROVE  Inv'
  BY <1>9, BulkUpsertKeeps, BulkRefusedKeeps
<1>10. ASSUME NEW src \in NodeIds, NEW dst \in NodeIds, NEW ty \in Types, BulkLoadEdge(src, dst, ty)
       PROVE  Inv'
  BY <1>10, BulkLoadEdgeKeeps
<1>11. CASE Commit
  BY <1>11, CommitIs, ClosedKeeps
<1>12. CASE Abort
  BY <1>12, AbortKeeps
<1>13. ASSUME NEW name \in Names, CreatePlane(name)
       PROVE  Inv'
  BY <1>13, CreatePlaneIs, ClosedKeeps
<1>14. ASSUME NEW name \in Names, NEW p \in PlaneIds, RenamePlane(p, name)
       PROVE  Inv'
  BY <1>14, RenamePlaneIs, ClosedKeeps
<1>15. ASSUME NEW p \in PlaneIds, DropPlane(p)
       PROVE  Inv'
  BY <1>15, DropPlaneIsGood, ClosedKeeps
<1>16. CASE RestoreStep
  BY <1>16, RestoreIs, ClosedKeeps
<1>17. CASE UNCHANGED vars
  BY <1>17 DEF vars, txnVars, Inv, TxnOK
<1> QED
  BY <1>1, <1>2, <1>3, <1>4, <1>5, <1>6, <1>7, <1>8, <1>9, <1>10, <1>11, <1>12, <1>13, <1>14,
     <1>15, <1>16, <1>17 DEF Next

(* A step that is no commit of the graph brings no id into it.               *)
LEMMA StepIsFresh ==
  ASSUME OwnSnapshots, Inv, [Next]_vars
  PROVE  /\ \A k \in NodeKeys : db'.nodes[k] # None /\ db.nodes[k] = None => k[2] >= db.nextNode
         /\ \A k \in EdgeKeys : db'.edges[k] # None /\ db.edges[k] = None => k[2] >= db.nextEdge
<1>1. CASE db' = db
  BY <1>1
<1>2. CASE Commit
  <2>1. db'.nodes = tx.nodes /\ db'.edges = tx.edges
    BY <1>2, CommitIs
  <2>2. DOMAIN tx.nodes = NodeKeys /\ DOMAIN tx.edges = EdgeKeys
    BY GoodIs DEF Inv
  <2>3. /\ Own(db.nodes, tx.nodes, db.nextNode, ids.node)
        /\ Own(db.edges, tx.edges, db.nextEdge, ids.edge)
    BY DEF Inv, TxnOK
  <2> QED
    BY <2>1, <2>2, <2>3 DEF Own
<1>3. ASSUME NEW name \in Names, CreatePlane(name)
      PROVE  db'.nodes = db.nodes /\ db'.edges = db.edges
  BY <1>3, CreatePlaneIs
<1>4. ASSUME NEW name \in Names, NEW p \in PlaneIds, RenamePlane(p, name)
      PROVE  db'.nodes = db.nodes /\ db'.edges = db.edges
  BY <1>4, RenamePlaneIs
<1>5. ASSUME NEW p \in PlaneIds, DropPlane(p)
      PROVE  /\ \A k \in NodeKeys : db'.nodes[k] # None => db.nodes[k] # None
             /\ \A k \in EdgeKeys : db'.edges[k] # None => db.edges[k] # None
  BY <1>5, DropPlaneIsGood
<1>6. CASE RestoreStep
  BY <1>6, RestoreIs
<1>7. \/ db' = db \/ Commit \/ RestoreStep
      \/ \E name \in Names : CreatePlane(name)
      \/ \E name \in Names, p \in PlaneIds : RenamePlane(p, name)
      \/ \E p \in PlaneIds : DropPlane(p)
  BY DEF Next, vars, Begin, CreateNode, CreateEdge, DeleteNode, DeleteEdge, Touch, SetLabels,
         SetEdgeType, BulkUpsert, BulkRefused, BulkLoadEdge, Abort, Staged
<1> QED
  BY <1>1, <1>2, <1>3, <1>4, <1>5, <1>6, <1>7

LEMMA InvAlways ==
  ASSUME OwnSnapshots
  PROVE  Spec => []Inv
<1>1. Init => Inv
  BY InitGood
<1>2. Inv /\ [Next]_vars => Inv'
  BY StepKeeps
<1> QED
  BY <1>1, <1>2, PTL DEF Spec

-------------------------------------------------------------------------------
(* The adjacency tables are the edge records in both directions, and every   *)
(* edge has its two nodes, at every point of a transaction and in every      *)
(* commit: what insert_edge, delete_edge, set_edge_type, delete_node,        *)
(* drop_plane, the bulk loads and restore write is consistent for any number *)
(* of planes, nodes and edges.                                               *)
THEOREM AdjacencyIsExact ==
  ASSUME OwnSnapshots
  PROVE  Spec => []AdjacencyExact
<1>1. Inv => AdjacencyExact
  BY DEF Inv, Good, EdgesOK, AdjacencyExact
<1> QED
  BY <1>1, InvAlways, PTL

(* Found by its id, by its key, by a scan of its labels or, a plane, by its  *)
(* name: what the tables beside the records say is what the records say, and *)
(* no label id has two names, whatever the dictionary holds.                 *)
THEOREM LookupsAreExact ==
  ASSUME OwnSnapshots
  PROVE  Spec => []LookupsExact
<1>1. Inv => LookupsExact
  <2> SUFFICES ASSUME Inv
               PROVE  LookupsExact
    OBVIOUS
  <2>1. NodeTablesMirror(db) /\ NodeTablesMirror(tx)
    BY DEF Inv, Good, NodesOK
  <2>2. LabelsDistinct
    BY DEF Inv, Good, NodesOK, DictOK, LabelsDistinct
  <2>3. \A p \in PlaneIds, n \in Names : db.planeNames[n] = p <=> db.planes[p] = n
    BY DEF Inv, Good, PlanesOK
  <2> QED
    BY <2>1, <2>2, <2>3 DEF LookupsExact
<1> QED
  BY <1>1, InvAlways, PTL

(* A store that takes over a snapshot of this one holds the graph that was   *)
(* saved, its planes, identifier counters and sequence, though its label ids *)
(* are its own: apply_frame and restore undo what the frames wrote.          *)
THEOREM SnapshotsRestore ==
  ASSUME OwnSnapshots
  PROVE  Spec => []RestoreFaithful
<1>1. Inv => RestoreFaithful
  BY RestoredFrames DEF Inv, RestoreFaithful
<1> QED
  BY <1>1, InvAlways, PTL

(* A node or edge id that a commit brings in was reserved by its transaction *)
(* (IdBatch::take, or in bulk), at or above the counter of the commit before *)
(* and below its own: no id of an earlier commit comes back, though its node *)
(* was deleted, its plane dropped or the store restored in between.          *)
THEOREM IdentifiersAreFresh ==
  ASSUME OwnSnapshots
  PROVE  Spec => IdsNeverReused
<1> DEFINE OnlyNew ==
      /\ \A k \in PlaneIds \X NodeIds : db'.nodes[k] # None =>
            k[2] < db'.nextNode /\ (db.nodes[k] = None => k[2] >= db.nextNode)
      /\ \A k \in PlaneIds \X EdgeIds : db'.edges[k] # None =>
            k[2] < db'.nextEdge /\ (db.edges[k] = None => k[2] >= db.nextEdge)
<1>1. Inv /\ Inv' /\ [Next]_vars => OnlyNew
  <2> SUFFICES ASSUME Inv, Inv', [Next]_vars
               PROVE  OnlyNew
    OBVIOUS
  <2>1. /\ \A k \in NodeKeys : db'.nodes[k] # None => k[2] < db'.nextNode
        /\ \A k \in EdgeKeys : db'.edges[k] # None => k[2] < db'.nextEdge
    BY DEF Inv, Good, NodesOK, EdgesOK
  <2> QED
    BY <2>1, StepIsFresh DEF NodeKeys, EdgeKeys
<1>2. Inv /\ Inv' /\ [Next]_vars => [OnlyNew]_vars
  BY <1>1
<1>3. Spec => [][Next]_vars
  BY DEF Spec
<1> HIDE DEF OnlyNew
<1>4. Spec => [][OnlyNew]_vars
  BY <1>2, <1>3, InvAlways, PTL
<1> QED
  BY <1>4 DEF OnlyNew, IdsNeverReused

-------------------------------------------------------------------------------
(* GraphCache: the invariant.                                                *)

NoRace == "racing" \notin Modes

(* The first snapshot from which sequences tell snapshots apart.             *)
Lo == IF mode = "fresh" THEN 1 ELSE era

Ordered ==
    \A i, j \in 1..Latest : Lo <= i /\ i <= j =>
        /\ hist[i].seq <= hist[j].seq
        /\ hist[i].seq = hist[j].seq => hist[i].data = hist[j].data

(* An entry is what every snapshot of its sequence holds, and no later       *)
(* commit will have that sequence and other data.                            *)
CacheFits ==
    MayRead =>
        \A k \in CacheKeys : cache[k] # Absent =>
            /\ cache[k].seq <= Now.seq
            /\ \A i \in 1..Latest : Lo <= i /\ hist[i].seq = cache[k].seq =>
                  hist[i].data[k] = cache[k].val

Trusted(r) == mode = "fresh" \/ rd[r].gen = gen

(* A reader of the current generation began after the last foreign commit;   *)
(* one that is about to insert still is of it, unless everything is fresh.   *)
ReaderFits(r) ==
    /\ rd[r].gen <= gen
    /\ rd[r].pc = "token" => \A k \in CacheKeys : rd[r].l1[k] = Unread
    /\ mode = "quiet" /\ landing = "bumped" /\ rd[r].pc # "idle" => rd[r].gen < gen
    /\ rd[r].pc \in {"open", "checked"} /\ MayRead /\ Trusted(r) => Lo <= rd[r].snap
    /\ rd[r].pc = "checked" =>
          /\ rd[r].l1[rd[r].key] \in Values
          /\ mode = "quiet" => landing = "none" /\ rd[r].gen = gen

CacheInv ==
    /\ TypeOK /\ mode \in {"fresh", "quiet"}
    /\ Ordered /\ CacheFits
    /\ \A r \in Readers : ReaderFits(r)
    /\ ReadsExact

-------------------------------------------------------------------------------
(* What commits do to the history.                                           *)

(* h is the history with one more state, after copies of the present one.    *)
Extends(h, s) ==
    /\ h \in Seq(State) /\ Len(h) > Latest
    /\ h[Len(h)] = s
    /\ \A i \in 1..Latest : h[i] = hist[i]
    /\ \A i \in 1..Len(h) : Latest < i /\ i < Len(h) => h[i] = Now

Newer(s) == s = Now \/ s.seq > Now.seq

LEMMA NowIn ==
  ASSUME TypeOK
  PROVE  Latest \in Nat /\ Latest >= 1 /\ Now \in State /\ \A i \in 1..Latest : hist[i] \in State
  BY DEF TypeOK, Latest, Now

LEMMA Appended ==
  ASSUME TypeOK, NEW s \in State
  PROVE  Extends(Append(hist, s), s)
  BY DEF TypeOK, Extends, Latest

LEMMA Lifted ==
  ASSUME TypeOK, NEW s \in State, NEW e \in Nat, e > Latest
  PROVE  Extends(LiftedTo(e, s), s)
<1>1. LiftedTo(e, s) \in [1..e -> State]
  BY NowIn DEF LiftedTo
<1>2. LiftedTo(e, s) \in Seq(State) /\ Len(LiftedTo(e, s)) = e
  BY <1>1
<1> QED
  BY <1>2, NowIn DEF LiftedTo, Extends

LEMMA Written ==
  ASSUME TypeOK, NEW k \in CacheKeys, NEW v \in OrAbsent(Values)
  PROVE  LET s == [seq |-> Now.seq + 1, data |-> [Now.data EXCEPT ![k] = v]]
         IN  s \in State /\ Newer(s)
  BY NowIn DEF State, Data, Newer

(* A commit of this store has a new sequence, or leaves the state as it was. *)
OwnCommit ==
    /\ \E s \in State : Extends(hist', s) /\ Newer(s)
    /\ UNCHANGED <<cache, gen, landing, rd, era, mode>>

(* A foreign one does so when it is fresh.                                   *)
ForeignCommit ==
    /\ LandForeign(hist')
    /\ \E s \in State : Extends(hist', s) /\ (mode = "fresh" => Newer(s))

LEMMA CommitCases ==
  ASSUME TypeOK
  PROVE  /\ \A k \in CacheKeys, v \in OrAbsent(Values) :
               /\ Write(k, v) => OwnCommit
               /\ ApplyReplicated(k, v) => ForeignCommit
         /\ RecordQuery => OwnCommit
         /\ ApplyUnstamped => ForeignCommit
         /\ \A image \in Images : RestoreImage(image) => ForeignCommit
<1>1. ASSUME NEW k \in CacheKeys, NEW v \in OrAbsent(Values), Write(k, v)
      PROVE  OwnCommit
  BY <1>1, Written, Appended DEF Write, OwnCommit
<1>2. ASSUME NEW k \in CacheKeys, NEW v \in OrAbsent(Values), ApplyReplicated(k, v)
      PROVE  ForeignCommit
  BY <1>2, Written, Appended DEF ApplyReplicated, ForeignCommit, LandForeign
<1>3. ASSUME RecordQuery
      PROVE  OwnCommit
  BY <1>3, NowIn, Appended DEF RecordQuery, OwnCommit, Newer
<1>4. ASSUME ApplyUnstamped
      PROVE  ForeignCommit
  BY <1>4, NowIn, Appended DEF ApplyUnstamped, ForeignCommit, Newer, LandForeign
<1>5. ASSUME NEW image \in Images, RestoreImage(image)
      PROVE  ForeignCommit
  <2> DEFINE at == IF image.seq > Latest THEN image.seq ELSE Latest + 1
  <2>1. image \in State
    BY CacheAssumption
  <2>2. at \in Nat /\ at > Latest
    BY <2>1, NowIn DEF State
  <2>3. LandForeign(LiftedTo(at, image)) /\ (mode = "fresh" => Newer(image))
    BY <1>5 DEF RestoreImage, Newer
  <2> HIDE DEF at
  <2>4. hist' = LiftedTo(at, image)
    BY <2>3 DEF LandForeign
  <2> QED
    BY <2>1, <2>2, <2>3, <2>4, Lifted DEF ForeignCommit
<1> QED
  BY <1>1, <1>2, <1>3, <1>4, <1>5

-------------------------------------------------------------------------------
(* The invariant.                                                            *)

LEMMA CacheInitInv ==
  ASSUME NoRace, CacheInit
  PROVE  CacheInv
<1>1. TypeOK
  BY DEF CacheInit, TypeOK, State, Data, OrAbsent, Latest, Idle, Reader
<1>2. mode \in {"fresh", "quiet"}
  BY CacheAssumption DEF CacheInit, NoRace, AllModes
<1> QED
  BY <1>1, <1>2 DEF CacheInit, CacheInv, Ordered, CacheFits, ReaderFits, ReadsExact, Latest, Idle, Lo

(* A reader's snapshot stays where it is.                                    *)
LEMMA CommitType ==
  ASSUME TypeOK, OwnCommit \/ ForeignCommit
  PROVE  TypeOK'
  BY NowIn DEF TypeOK, OwnCommit, ForeignCommit, LandForeign, Extends, Latest

LEMMA StoredIn ==
  ASSUME TypeOK, NEW r \in Readers, rd[r].pc \in {"open", "checked"}
  PROVE  /\ ReaderSeq(r) \in Nat
         /\ \A k \in CacheKeys : Stored(r, k) \in OrAbsent(Values)
  BY NowIn DEF TypeOK, ReaderSeq, Stored, State, Data

(* The steps that leave the history alone.                                   *)
LEMMA NextCases ==
  ASSUME TypeOK, [CacheNext]_cacheVars
  PROVE  \/ OwnCommit \/ ForeignCommit
         \/ BumpGeneration \/ ClearEntries \/ \E k \in CacheKeys : Evict(k)
         \/ \E r \in Readers :
               \/ Token(r) \/ StoreEntry(r) \/ Close(r)
               \/ \E e \in 1..Latest : OpenAt(r, e) /\ (e = Latest \/ mode = "fresh")
               \/ \E k \in CacheKeys : ReadHit(r, k) \/ ReadMiss(r, k)
         \/ UNCHANGED cacheVars
<1>1. ASSUME NEW r \in Readers, Open(r)
      PROVE  \E e \in 1..Latest : OpenAt(r, e) /\ (e = Latest \/ mode = "fresh")
  BY <1>1, NowIn DEF Open
<1>2. ASSUME NEW r \in Readers, NEW t, OpenAsOf(r, t)
      PROVE  \E e \in 1..Latest : OpenAt(r, e) /\ (e = Latest \/ mode = "fresh")
  <2>1. ResolveAsOf(hist, t) \in 1..Latest
    BY <1>2 DEF OpenAsOf, OpenAt
  <2> QED
    BY <1>2, <2>1 DEF OpenAsOf
<1> QED
  BY <1>1, <1>2, CommitCases DEF CacheNext

LEMMA HistoryCases ==
  ASSUME TypeOK, [CacheNext]_cacheVars
  PROVE  OwnCommit \/ ForeignCommit \/ UNCHANGED <<hist, era, mode>>
<1>1. CASE BumpGeneration \/ ClearEntries \/ \E k \in CacheKeys : Evict(k)
  BY <1>1 DEF BumpGeneration, ClearEntries, Evict
<1>2. ASSUME NEW r \in Readers, Token(r) \/ StoreEntry(r) \/ Close(r)
      PROVE  UNCHANGED <<hist, era, mode>>
  BY <1>2 DEF Token, StoreEntry, Close
<1>3. ASSUME NEW r \in Readers, NEW e, OpenAt(r, e)
      PROVE  UNCHANGED <<hist, era, mode>>
  BY <1>3 DEF OpenAt
<1>4. ASSUME NEW r \in Readers, NEW k \in CacheKeys, ReadHit(r, k) \/ ReadMiss(r, k)
      PROVE  UNCHANGED <<hist, era, mode>>
  BY <1>4 DEF ReadHit, ReadMiss
<1>5. CASE UNCHANGED cacheVars
  BY <1>5 DEF cacheVars
<1> QED
  BY <1>1, <1>2, <1>3, <1>4, <1>5, NextCases

LEMMA TypeStep ==
  ASSUME CacheInv, [CacheNext]_cacheVars
  PROVE  TypeOK'
<1> USE DEF CacheInv
<1>1. ASSUME OwnCommit \/ ForeignCommit
      PROVE  TypeOK'
  BY <1>1, CommitType
<1>2. CASE BumpGeneration
  BY <1>2 DEF BumpGeneration, TypeOK, Latest
<1>3. CASE ClearEntries
  BY <1>3 DEF ClearEntries, TypeOK, Latest, OrAbsent
<1>4. ASSUME NEW k \in CacheKeys, Evict(k)
      PROVE  TypeOK'
  BY <1>4 DEF Evict, TypeOK, Latest, OrAbsent
<1>5. ASSUME NEW r \in Readers, Token(r)
      PROVE  TypeOK'
  BY <1>5 DEF Token, TypeOK, Latest, Idle, Reader, OrAbsent
<1>6. ASSUME NEW r \in Readers, NEW e \in 1..Latest, OpenAt(r, e)
      PROVE  TypeOK'
  <2>1. rd[r] \in Reader /\ e \in Nat
    BY <1>6, NowIn DEF OpenAt, TypeOK
  <2>2. rd' = [rd EXCEPT ![r] = [rd[r] EXCEPT !.pc = "open", !.snap = e]]
    BY <1>6 DEF OpenAt, TypeOK
  <2>3. [rd[r] EXCEPT !.pc = "open", !.snap = e] \in Reader
    BY <2>1 DEF Reader
  <2> QED
    BY <1>6, <2>2, <2>3 DEF OpenAt, TypeOK, Latest
<1>7. ASSUME NEW r \in Readers, NEW k \in CacheKeys, ReadHit(r, k)
      PROVE  TypeOK'
  <2>1. rd[r] \in Reader /\ cache[k].val \in Values
    BY <1>7 DEF ReadHit, Hit, TypeOK, OrAbsent, Entry
  <2>2. rd' = [rd EXCEPT ![r] = [rd[r] EXCEPT !.l1[k] = cache[k].val]]
    BY <1>7 DEF ReadHit, TypeOK
  <2>3. [rd[r] EXCEPT !.l1[k] = cache[k].val] \in Reader
    BY <2>1 DEF Reader, OrAbsent
  <2>4. UNCHANGED <<hist, cache, gen, landing, era, mode>>
    BY <1>7 DEF ReadHit
  <2> QED
    BY <2>1, <2>2, <2>3, <2>4 DEF TypeOK, Latest, Reader
<1>8. ASSUME NEW r \in Readers, NEW k \in CacheKeys, ReadMiss(r, k)
      PROVE  TypeOK'
  <2> DEFINE new == [rd[r] EXCEPT !.l1[k] = Stored(r, k),
                                  !.pc = IF Accepts(r, k) THEN "checked" ELSE "open",
                                  !.key = IF Accepts(r, k) THEN k ELSE Absent]
  <2>1. rd[r] \in Reader /\ Stored(r, k) \in OrAbsent(Values)
    BY <1>8, StoredIn DEF ReadMiss, TypeOK
  <2>2. rd' = [rd EXCEPT ![r] = new]
    BY <1>8 DEF ReadMiss, TypeOK
  <2>3. /\ new \in Reader /\ new.snap = rd[r].snap
        /\ new.pc = "checked" => new.key = k
    BY <2>1 DEF Reader, OrAbsent
  <2>4. rd[r].pc = "open" /\ UNCHANGED <<hist, cache, gen, landing, era, mode>>
    BY <1>8 DEF ReadMiss
  <2> HIDE DEF new
  <2> QED
    BY <2>2, <2>3, <2>4 DEF TypeOK, Latest
<1>9. ASSUME NEW r \in Readers, StoreEntry(r)
      PROVE  TypeOK'
  <2>1. rd' = [rd EXCEPT ![r] = [rd[r] EXCEPT !.pc = "open", !.key = Absent]]
    BY <1>9 DEF StoreEntry, TypeOK
  <2>2. [rd[r] EXCEPT !.pc = "open", !.key = Absent] \in Reader
    <3>1. rd[r] \in Reader
      BY DEF TypeOK
    <3> QED
      BY <3>1 DEF Reader, OrAbsent
  <2>3. [seq |-> ReaderSeq(r), val |-> rd[r].l1[rd[r].key]] \in Entry
    BY <1>9, StoredIn DEF StoreEntry, ReaderFits, Entry
  <2>4. cache' \in [CacheKeys -> OrAbsent(Entry)]
    BY <1>9, <2>3 DEF StoreEntry, TypeOK, OrAbsent
  <2> QED
    BY <1>9, <2>1, <2>2, <2>4 DEF StoreEntry, TypeOK, Latest
<1>10. ASSUME NEW r \in Readers, Close(r)
      PROVE  TypeOK'
  BY <1>10 DEF Close, TypeOK, Latest, Idle, Reader, OrAbsent
<1>11. CASE UNCHANGED cacheVars
  BY <1>11 DEF cacheVars, TypeOK, Latest
<1> QED
  BY <1>1, <1>2, <1>3, <1>4, <1>5, <1>6, <1>7, <1>8, <1>9, <1>10, <1>11, NextCases

LEMMA LoIn ==
  ASSUME TypeOK
  PROVE  Lo \in 1..Latest
  BY NowIn DEF Lo, TypeOK

(* Of an extended history: the old snapshots, copies of the last, the new.   *)
LEMMA ExtendedBy ==
  ASSUME TypeOK, NEW h, NEW s \in State, Extends(h, s), Newer(s)
  PROVE  /\ Len(h) \in Nat
         /\ \A i \in 1..Len(h) :
               /\ h[i] \in State
               /\ \/ i <= Latest /\ h[i] = hist[i]
                  \/ i > Latest /\ h[i] = Now
                  \/ i = Len(h) /\ i > Latest /\ h[i].seq > Now.seq
  BY NowIn DEF Extends, Newer

LEMMA ExtendedOrder ==
  ASSUME TypeOK, Ordered, NEW h, NEW s \in State, Extends(h, s), Newer(s)
  PROVE  \A i, j \in 1..Len(h) : Lo <= i /\ i <= j =>
             /\ h[i].seq <= h[j].seq
             /\ h[i].seq = h[j].seq => h[i].data = h[j].data
<1> SUFFICES ASSUME NEW i \in 1..Len(h), NEW j \in 1..Len(h), Lo <= i, i <= j
             PROVE  /\ h[i].seq <= h[j].seq
                    /\ h[i].seq = h[j].seq => h[i].data = h[j].data
  OBVIOUS
<1>1. h[i].seq \in Nat /\ h[j].seq \in Nat /\ Now.seq \in Nat
  BY ExtendedBy, NowIn DEF State
<1>2. i <= Latest => /\ h[i] = hist[i] /\ h[i].seq <= Now.seq
                     /\ h[i].seq = Now.seq => h[i].data = Now.data
  BY ExtendedBy, NowIn, LoIn DEF Ordered, Now
<1>3. CASE j <= Latest
  BY <1>3, ExtendedBy, NowIn, LoIn DEF Ordered
<1>4. CASE j > Latest
  BY <1>1, <1>2, <1>4, ExtendedBy, NowIn
<1> QED
  BY <1>3, <1>4, NowIn, ExtendedBy

(* A commit sequence goes on determining a snapshot.                         *)
LEMMA OrderedStep ==
  ASSUME CacheInv, [CacheNext]_cacheVars
  PROVE  Ordered'
<1> USE DEF CacheInv
<1>1. CASE OwnCommit
  <2>1. Lo' = Lo
    BY <1>1 DEF OwnCommit, Lo
  <2> QED
    BY <1>1, <2>1, ExtendedOrder DEF OwnCommit, Ordered, Latest
<1>2. CASE ForeignCommit
  <2>1. PICK s \in State : Extends(hist', s) /\ (mode = "fresh" => Newer(s))
    BY <1>2 DEF ForeignCommit
  <2>2. CASE mode = "fresh"
    <3>1. Lo' = Lo
      BY <1>2, <2>2 DEF ForeignCommit, LandForeign, Lo
    <3> QED
      BY <2>1, <2>2, <3>1, ExtendedOrder DEF Ordered, Latest
  <2>3. CASE mode = "quiet"
    <3>1. Lo' = Latest'
      BY <1>2, <2>3 DEF ForeignCommit, LandForeign, Lo, Latest
    <3> QED
      BY <2>1, <3>1, NowIn DEF Ordered, Extends, State, Latest
  <2> QED
    BY <2>2, <2>3
<1>3. CASE UNCHANGED <<hist, era, mode>>
  BY <1>3 DEF Ordered, Lo, Latest
<1>4. OwnCommit \/ ForeignCommit \/ UNCHANGED <<hist, era, mode>>
  BY HistoryCases
<1> QED
  BY <1>1, <1>2, <1>3, <1>4

(* A commit does not come to have the sequence of an entry and other data.   *)
LEMMA ExtendedFits ==
  ASSUME TypeOK, CacheFits, MayRead, NEW h, NEW s \in State, Extends(h, s), Newer(s),
         NEW k \in CacheKeys, cache[k] # Absent
  PROVE  /\ cache[k].seq <= h[Len(h)].seq
         /\ \A i \in 1..Len(h) : Lo <= i /\ h[i].seq = cache[k].seq =>
               h[i].data[k] = cache[k].val
<1>1. /\ cache[k].seq \in Nat /\ cache[k].seq <= Now.seq
      /\ \A i \in 1..Latest : Lo <= i /\ hist[i].seq = cache[k].seq =>
            hist[i].data[k] = cache[k].val
  BY DEF CacheFits, TypeOK, OrAbsent, Entry
<1>2. Now.seq \in Nat /\ (Now.seq = cache[k].seq => Now.data[k] = cache[k].val)
  BY <1>1, NowIn, LoIn DEF Now, State
<1>3. s.seq \in Nat /\ s.seq >= Now.seq /\ h[Len(h)] = s
  BY <1>2 DEF Extends, Newer, State
<1>4. ASSUME NEW i \in 1..Len(h), Lo <= i, h[i].seq = cache[k].seq
      PROVE  h[i].data[k] = cache[k].val
  BY <1>1, <1>2, <1>4, ExtendedBy, NowIn
<1> QED
  BY <1>1, <1>2, <1>3, <1>4

(* What is inserted is what the reader's snapshot holds.                     *)
LEMMA CacheStep ==
  ASSUME CacheInv, [CacheNext]_cacheVars
  PROVE  CacheFits'
<1> USE DEF CacheInv
<1>0. Lo \in 1..Latest
  BY LoIn
<1>1. CASE OwnCommit
  <2>1. Lo' = Lo /\ MayRead' = MayRead /\ cache' = cache
    BY <1>1 DEF OwnCommit, Lo, MayRead
  <2> QED
    BY <1>1, <2>1, ExtendedFits DEF OwnCommit, CacheFits, Latest, Now
<1>2. CASE ForeignCommit
  <2>1. MayRead' => mode = "fresh" /\ Lo' = Lo /\ MayRead /\ cache' = cache
    BY <1>2 DEF ForeignCommit, LandForeign, Lo, MayRead
  <2> QED
    BY <1>2, <2>1, ExtendedFits DEF ForeignCommit, CacheFits, Latest, Now
<1>3. CASE BumpGeneration
  BY <1>3 DEF BumpGeneration, CacheFits, MayRead, Lo, Latest, Now
<1>4. CASE ClearEntries
  BY <1>4 DEF ClearEntries, CacheFits
<1>5. ASSUME NEW k \in CacheKeys, Evict(k)
      PROVE  CacheFits'
  BY <1>5 DEF Evict, CacheFits, MayRead, Lo, Latest, Now, TypeOK
<1>6. ASSUME NEW r \in Readers, StoreEntry(r)
      PROVE  CacheFits'
  <2> DEFINE k == rd[r].key
  <2>1. k \in CacheKeys /\ rd[r].snap \in 1..Latest /\ MayRead
    BY <1>6 DEF StoreEntry, TypeOK
  <2>2. Trusted(r) /\ Lo <= rd[r].snap
    BY <1>6 DEF StoreEntry, ReaderFits, Trusted
  <2>3. rd[r].l1[k] = Stored(r, k)
    BY <1>6, <2>1, <2>2, CacheAssumption
       DEF StoreEntry, ReaderFits, ReadsExact, Trusted, OrAbsent
  <2>4. ReaderSeq(r) <= Now.seq
    BY <2>1, <2>2, NowIn DEF Ordered, ReaderSeq, Now
  <2>5. \A i \in 1..Latest : Lo <= i /\ hist[i].seq = ReaderSeq(r) => hist[i].data[k] = Stored(r, k)
    BY <1>0, <2>1, <2>2, NowIn DEF Ordered, ReaderSeq, Stored
  <2>6. /\ cache' = [cache EXCEPT ![k] = [seq |-> ReaderSeq(r), val |-> Stored(r, k)]]
        /\ UNCHANGED <<hist, landing, era, mode>>
    BY <1>6, <2>3 DEF StoreEntry
  <2> HIDE DEF k
  <2> QED
    BY <2>1, <2>4, <2>5, <2>6 DEF CacheFits, MayRead, Lo, Latest, Now, TypeOK
<1>7. CASE UNCHANGED <<hist, cache, landing, era, mode>>
  BY <1>7 DEF CacheFits, MayRead, Lo, Latest, Now
<1> QED
  BY <1>1, <1>2, <1>3, <1>4, <1>5, <1>6, <1>7, NextCases
     DEF cacheVars, Token, OpenAt, ReadHit, ReadMiss, Close

(* Only the reader that steps changes, and only so.                          *)
LEMMA ReaderStep ==
  ASSUME CacheInv, [CacheNext]_cacheVars
  PROVE  /\ \A r \in Readers : ReaderFits(r)'
         /\ ReadsExact'
<1> SUFFICES ASSUME NEW q \in Readers
             PROVE  /\ ReaderFits(q)'
                    /\ rd'[q].pc \in {"open", "checked"} /\ Trusted(q)' =>
                          \A k \in CacheKeys : rd'[q].l1[k] # Unread => rd'[q].l1[k] = Stored(q, k)'
  BY DEF ReadsExact, Trusted
<1> DEFINE Reads == \A k \in CacheKeys : rd'[q].l1[k] # Unread => rd'[q].l1[k] = Stored(q, k)'
<1> USE DEF CacheInv
<1>0. /\ rd[q] \in Reader /\ gen \in Nat /\ gen' \in Nat
      /\ rd[q].pc \in {"open", "checked"} => rd[q].snap \in 1..Latest
  BY TypeStep DEF TypeOK
<1>1. CASE OwnCommit
  <2>1. UNCHANGED <<gen, landing, rd, era, mode>>
    BY <1>1 DEF OwnCommit
  <2>2. \A i \in 1..Latest : hist'[i] = hist[i]
    BY <1>1 DEF OwnCommit, Extends
  <2> QED
    BY <1>0, <2>1, <2>2 DEF ReaderFits, ReadsExact, Trusted, MayRead, Lo, Stored
<1>2. CASE ForeignCommit
  <2>1. UNCHANGED <<gen, rd, mode>> /\ landing' = "landed" /\ MayLand
    BY <1>2 DEF ForeignCommit, LandForeign
  <2>2. \A i \in 1..Latest : hist'[i] = hist[i]
    BY <1>2 DEF ForeignCommit, Extends
  <2> QED
    BY <1>0, <2>1, <2>2 DEF ReaderFits, ReadsExact, Trusted, MayRead, MayLand, Lo, Stored
<1>3. CASE BumpGeneration
  BY <1>0, <1>3 DEF BumpGeneration, ReaderFits, ReadsExact, Trusted, MayRead, Lo, Stored, Reader
<1>4. CASE ClearEntries
  BY <1>0, <1>4 DEF ClearEntries, ReaderFits, ReadsExact, Trusted, MayRead, Lo, Stored, Reader
<1>5. ASSUME NEW k \in CacheKeys, Evict(k)
      PROVE  ReaderFits(q)' /\ (rd'[q].pc \in {"open", "checked"} /\ Trusted(q)' => Reads)
  BY <1>0, <1>5 DEF Evict, ReaderFits, ReadsExact, Trusted, MayRead, Lo, Stored
<1>6. ASSUME NEW r \in Readers, Token(r)
      PROVE  ReaderFits(q)' /\ (rd'[q].pc \in {"open", "checked"} /\ Trusted(q)' => Reads)
  BY <1>0, <1>6 DEF Token, TypeOK, Idle, ReaderFits, ReadsExact, Trusted, MayRead, Lo, Stored
<1>7. ASSUME NEW r \in Readers, NEW e \in 1..Latest, OpenAt(r, e), e = Latest \/ mode = "fresh"
      PROVE  ReaderFits(q)' /\ (rd'[q].pc \in {"open", "checked"} /\ Trusted(q)' => Reads)
  BY <1>0, <1>7, LoIn DEF OpenAt, TypeOK, ReaderFits, ReadsExact, Trusted, MayRead, Lo, Stored
<1>8. ASSUME NEW r \in Readers, NEW k \in CacheKeys, ReadHit(r, k)
      PROVE  ReaderFits(q)' /\ (rd'[q].pc \in {"open", "checked"} /\ Trusted(q)' => Reads)
  BY <1>0, <1>8 DEF ReadHit, Hit, ReaderSeq, CacheFits, TypeOK, ReaderFits, ReadsExact, Trusted,
                    MayRead, Lo, Stored, Reader
<1>9. ASSUME NEW r \in Readers, NEW k \in CacheKeys, ReadMiss(r, k)
      PROVE  ReaderFits(q)' /\ (rd'[q].pc \in {"open", "checked"} /\ Trusted(q)' => Reads)
  <2>1. rd' = [rd EXCEPT ![r] = [rd[r] EXCEPT
                   !.l1[k] = Stored(r, k),
                   !.pc = IF Accepts(r, k) THEN "checked" ELSE "open",
                   !.key = IF Accepts(r, k) THEN k ELSE Absent]]
    BY <1>9 DEF ReadMiss, TypeOK
  <2>2. UNCHANGED <<hist, gen, landing, era, mode>>
    BY <1>9 DEF ReadMiss
  <2>3. CASE q # r
    BY <1>0, <2>1, <2>2, <2>3 DEF TypeOK, ReaderFits, ReadsExact, Trusted, MayRead, Lo, Stored
  <2>4. CASE q = r
    <3>1. /\ rd'[q].gen = rd[q].gen /\ rd'[q].snap = rd[q].snap
          /\ rd'[q].pc = IF Accepts(q, k) THEN "checked" ELSE "open"
          /\ rd'[q].key = IF Accepts(q, k) THEN k ELSE Absent
          /\ rd'[q].l1 = [rd[q].l1 EXCEPT ![k] = Stored(q, k)]
      BY <1>0, <2>1, <2>4 DEF TypeOK, Reader
    <3>2. rd[q].pc = "open" /\ MayRead /\ Stored(q, k) \in OrAbsent(Values)
      BY <1>9, <2>4, StoredIn DEF ReadMiss
    <3>3. Reads \/ ~ Trusted(q)
      BY <1>0, <2>2, <3>1, <3>2 DEF ReadsExact, Trusted, Stored, Reader
    <3>4. Accepts(q, k) => rd'[q].l1[rd'[q].key] \in Values /\ rd[q].gen = gen
      BY <1>0, <3>1, <3>2 DEF Accepts, OrAbsent, Reader
    <3>5. ReaderFits(q)'
      BY <1>0, <2>2, <3>1, <3>2, <3>4 DEF ReaderFits, Trusted, MayRead, Lo
    <3> QED
      BY <2>2, <3>1, <3>3, <3>5 DEF Trusted
  <2> QED
    BY <2>3, <2>4
<1>10. ASSUME NEW r \in Readers, StoreEntry(r)
      PROVE  ReaderFits(q)' /\ (rd'[q].pc \in {"open", "checked"} /\ Trusted(q)' => Reads)
  BY <1>0, <1>10 DEF StoreEntry, TypeOK, ReaderFits, ReadsExact, Trusted, MayRead, Lo, Stored
<1>11. ASSUME NEW r \in Readers, Close(r)
      PROVE  ReaderFits(q)' /\ (rd'[q].pc \in {"open", "checked"} /\ Trusted(q)' => Reads)
  BY <1>0, <1>11 DEF Close, TypeOK, Idle, ReaderFits, ReadsExact, Trusted, MayRead, Lo, Stored
<1>12. CASE UNCHANGED cacheVars
  BY <1>0, <1>12 DEF cacheVars, ReaderFits, ReadsExact, Trusted, MayRead, Lo, Stored
<1> QED
  BY <1>1, <1>2, <1>3, <1>4, <1>5, <1>6, <1>7, <1>8, <1>9, <1>10, <1>11, <1>12, NextCases

LEMMA CacheInvInductive ==
  ASSUME NoRace
  PROVE  CacheSpec => []CacheInv
<1>1. CacheInit => CacheInv
  BY CacheInitInv
<1>2. CacheInv /\ [CacheNext]_cacheVars => CacheInv'
  <2> SUFFICES ASSUME CacheInv, [CacheNext]_cacheVars
               PROVE  CacheInv'
    OBVIOUS
  <2>1. mode' = mode
    BY HistoryCases DEF CacheInv, OwnCommit, ForeignCommit, LandForeign
  <2> QED
    BY <2>1, TypeStep, OrderedStep, CacheStep, ReaderStep DEF CacheInv
<1> QED
  BY <1>1, <1>2, PTL DEF CacheSpec

(* "an insert that races this call is either refused (it saw the new         *)
(* generation) or wiped (it landed before the clear)" (api/cache/store.rs):  *)
(* whatever commits, restores, notes, evictions and other readers do in      *)
(* between, every record a query was served, from the shared cache, from its *)
(* own map or from storage, is the one of the snapshot it opened.            *)
THEOREM CachedReadsExact ==
  ASSUME NoRace
  PROVE  CacheSpec => []ReadsExact
  BY CacheInvInductive, PTL DEF CacheInv

-------------------------------------------------------------------------------
(* Time travel.  The recursion of the halving is shown to have a solution by *)
(* naming one; what the halving finds in the window at hand then follows     *)
(* from what it finds in the narrower one.                                   *)

(* e is the last in lo..hi at or before the target, or lo if none is.        *)
Found(h, target, e, lo, hi) ==
    /\ e \in lo..hi /\ (e = lo \/ h[e].seq <= target)
    /\ \A i \in (e + 1)..hi : h[i].seq > target

(* Sequences that do not go back.                                            *)
Rising(h, N) ==
    /\ N \in Nat /\ \A i \in 1..N : h[i].seq \in Nat
    /\ \A i, j \in 1..N : i <= j => h[i].seq <= h[j].seq

Mid(lo, hi) == lo + (hi - lo + 1) \div 2

LEMMA MidIn ==
  ASSUME NEW lo \in Nat, NEW hi \in Nat, lo < hi
  PROVE  Mid(lo, hi) \in (lo + 1)..hi
  BY DEF Mid

LEMMA FoundExists ==
  ASSUME NEW h, NEW N, Rising(h, N), NEW target \in Nat,
         NEW lo \in 1..N, NEW hi \in 1..N, lo <= hi
  PROVE  \E e : Found(h, target, e, lo, hi)
<1> DEFINE S == {hi - i : i \in {j \in lo..hi : j = lo \/ h[j].seq <= target}}
<1>1. N \in Nat /\ lo \in lo..hi
  BY DEF Rising
<1>2. S \in SUBSET Nat /\ S # {}
  BY <1>1
<1>3. PICK n \in S : \A m \in S : n <= m
  BY <1>2, LeastExists
<1>4. PICK e \in lo..hi : n = hi - e /\ (e = lo \/ h[e].seq <= target)
  OBVIOUS
<1>5. ASSUME NEW i \in (e + 1)..hi, ~ (h[i].seq > target)
      PROVE  FALSE
  <2>1. i \in lo..hi /\ i \in 1..N /\ i > e
    BY <1>1, <1>4
  <2>2. h[i].seq <= target
    BY <1>5, <2>1 DEF Rising
  <2>3. hi - i \in S
    BY <2>1, <2>2
  <2>4. n <= hi - i
    BY <1>3, <2>3
  <2> QED
    BY <1>1, <1>4, <2>1, <2>4
<1> QED
  BY <1>4, <1>5 DEF Found

LEMMA FoundOnce ==
  ASSUME NEW h, NEW N, Rising(h, N), NEW target \in Nat,
         NEW lo \in 1..N, NEW hi \in 1..N, NEW e, NEW f,
         Found(h, target, e, lo, hi), Found(h, target, f, lo, hi)
  PROVE  e = f
<1>1. ASSUME NEW x \in lo..hi, NEW y \in lo..hi, x < y,
             Found(h, target, x, lo, hi), Found(h, target, y, lo, hi)
      PROVE  FALSE
  <2>1. N \in Nat
    BY DEF Rising
  <2>2. y # lo /\ y \in (x + 1)..hi /\ y \in 1..N
    BY <1>1, <2>1
  <2>3. h[y].seq <= target /\ h[y].seq > target /\ h[y].seq \in Nat
    BY <1>1, <2>2 DEF Found, Rising
  <2> QED
    BY <2>3
<1>2. e \in lo..hi /\ f \in lo..hi
  BY DEF Found
<1>3. e < f \/ f < e \/ e = f
  BY <1>2
<1> QED
  BY <1>1, <1>2, <1>3

(* The half that is searched holds what the whole does.                      *)
LEMMA FoundInHalf ==
  ASSUME NEW h, NEW N, Rising(h, N), NEW target \in Nat,
         NEW lo \in 1..N, NEW hi \in 1..N, lo < hi, NEW e
  PROVE  LET mid == Mid(lo, hi)
         IN  /\ h[mid].seq <= target /\ Found(h, target, e, mid, hi) =>
                   Found(h, target, e, lo, hi)
             /\ ~ (h[mid].seq <= target) /\ Found(h, target, e, lo, mid - 1) =>
                   Found(h, target, e, lo, hi)
<1> DEFINE mid == Mid(lo, hi)
<1>1. N \in Nat /\ mid \in (lo + 1)..hi
  BY MidIn DEF Rising
<1> HIDE DEF mid
<1>2. mid \in 1..N /\ mid - 1 \in lo..hi
  BY <1>1
<1>3. ASSUME h[mid].seq <= target, Found(h, target, e, mid, hi)
      PROVE  Found(h, target, e, lo, hi)
  BY <1>1, <1>3 DEF Found
<1>4. ASSUME ~ (h[mid].seq <= target), Found(h, target, e, lo, mid - 1)
      PROVE  Found(h, target, e, lo, hi)
  <2>1. /\ e \in lo..mid - 1 /\ (e = lo \/ h[e].seq <= target)
        /\ \A i \in (e + 1)..(mid - 1) : h[i].seq > target
    BY <1>4 DEF Found
  <2>2. ASSUME NEW i \in (e + 1)..hi
        PROVE  h[i].seq > target
    <3>1. CASE i <= mid - 1
      BY <1>1, <2>1, <3>1
    <3>2. CASE i >= mid
      <4>1. i \in 1..N
        BY <1>1, <2>1
      <4>2. h[mid].seq <= h[i].seq /\ h[i].seq \in Nat /\ h[mid].seq \in Nat
        BY <1>2, <3>2, <4>1 DEF Rising
      <4> QED
        BY <1>4, <4>2
    <3> QED
      BY <1>1, <2>1, <3>1, <3>2
  <2> QED
    BY <1>1, <2>1, <2>2 DEF Found
<1> QED
  BY <1>3, <1>4 DEF mid

LEMMA HalvingFinds ==
  ASSUME NEW h, Rising(h, Len(h)), Len(h) >= 1, NEW target \in Nat
  PROVE  Found(h, target, Halving(h, target), 1, Len(h))
<1> DEFINE N == Len(h)
           D == (1..N) \X (1..N)
           F(e, lo, hi) == Found(h, target, e, lo, hi)
           Half(f) == [w \in D |-> IF w[1] >= w[2] THEN w[1]
                                   ELSE IF h[Mid(w[1], w[2])].seq <= target
                                     THEN f[<<Mid(w[1], w[2]), w[2]>>]
                                     ELSE f[<<w[1], Mid(w[1], w[2]) - 1>>]]
           at == CHOOSE f : f = Half(f)
           LastIn(w) == IF w[1] >= w[2] THEN w[1] ELSE CHOOSE e : F(e, w[1], w[2])
           last == [w \in D |-> LastIn(w)]
<1>1. N \in Nat /\ N >= 1
  BY DEF Rising
<1>2. Halving(h, target) = at[<<1, N>>]
  BY DEF Halving, Mid
<1>3. ASSUME NEW lo \in 1..N, NEW hi \in 1..N, lo <= hi
      PROVE  F(last[<<lo, hi>>], lo, hi)
  <2>1. <<lo, hi>> \in D /\ last[<<lo, hi>>] = LastIn(<<lo, hi>>)
    OBVIOUS
  <2>2. CASE lo = hi
    <3>1. LastIn(<<lo, hi>>) = lo
      BY <1>1, <2>2
    <3> QED
      BY <1>1, <2>1, <2>2, <3>1 DEF Found
  <2>3. CASE lo < hi
    <3>1. LastIn(<<lo, hi>>) = CHOOSE e : F(e, lo, hi)
      BY <1>1, <2>3
    <3>2. \E e : F(e, lo, hi)
      BY <1>3, FoundExists
    <3> HIDE DEF F, last, LastIn
    <3> QED
      BY <2>1, <3>1, <3>2
  <2> QED
    BY <1>1, <1>3, <2>2, <2>3
<1>4. ASSUME NEW lo \in 1..N, NEW hi \in 1..N, lo < hi
      PROVE  /\ Mid(lo, hi) \in 1..N /\ Mid(lo, hi) <= hi /\ lo < Mid(lo, hi)
             /\ Mid(lo, hi) - 1 \in 1..N /\ lo <= Mid(lo, hi) - 1
  <2>1. Mid(lo, hi) \in (lo + 1)..hi
    BY <1>1, <1>4, MidIn
  <2> QED
    BY <1>1, <2>1
<1>5. ASSUME NEW w \in D
      PROVE  last[w] = IF w[1] >= w[2] THEN w[1]
                       ELSE IF h[Mid(w[1], w[2])].seq <= target
                         THEN last[<<Mid(w[1], w[2]), w[2]>>]
                         ELSE last[<<w[1], Mid(w[1], w[2]) - 1>>]
  <2> DEFINE lo == w[1]
             hi == w[2]
             mid == Mid(lo, hi)
  <2>1. lo \in 1..N /\ hi \in 1..N /\ w = <<lo, hi>>
    OBVIOUS
  <2>2. CASE lo >= hi
    BY <2>2
  <2>3. CASE lo < hi
    <3>1. /\ mid \in 1..N /\ mid <= hi /\ lo < mid /\ mid - 1 \in 1..N /\ lo <= mid - 1
      BY <1>4, <2>1, <2>3
    <3>2. /\ F(last[w], lo, hi) /\ F(last[<<mid, hi>>], mid, hi)
          /\ F(last[<<lo, mid - 1>>], lo, mid - 1)
      <4>1. lo <= hi
        BY <1>1, <2>1, <2>3
      <4> HIDE DEF F, last, mid, lo, hi
      <4>2. F(last[<<lo, hi>>], lo, hi)
        BY <1>3, <2>1, <4>1
      <4>3. F(last[<<mid, hi>>], mid, hi)
        BY <1>3, <2>1, <3>1
      <4>4. F(last[<<lo, mid - 1>>], lo, mid - 1)
        BY <1>3, <2>1, <3>1
      <4> QED
        BY <2>1, <4>2, <4>3, <4>4
    <3>3. CASE h[mid].seq <= target
      <4>1. F(last[<<mid, hi>>], lo, hi)
        BY <2>1, <2>3, <3>2, <3>3, FoundInHalf
      <4>2. last[w] = last[<<mid, hi>>]
        BY <2>1, <3>2, <4>1, FoundOnce
      <4> QED
        BY <1>1, <2>1, <2>3, <3>3, <4>2
    <3>4. CASE ~ (h[mid].seq <= target)
      <4>1. F(last[<<lo, mid - 1>>], lo, hi)
        BY <2>1, <2>3, <3>2, <3>4, FoundInHalf
      <4>2. last[w] = last[<<lo, mid - 1>>]
        BY <2>1, <3>2, <4>1, FoundOnce
      <4> QED
        BY <1>1, <2>1, <2>3, <3>4, <4>2
    <3> QED
      BY <3>3, <3>4
  <2> QED
    BY <1>1, <2>1, <2>2, <2>3
<1>6. last = Half(last)
  <2>1. last = [w \in D |-> last[w]]
    OBVIOUS
  <2> HIDE DEF last, D
  <2> QED
    BY <1>5, <2>1
<1>7. at = Half(at)
  <2> HIDE DEF Half, last
  <2> QED
    BY <1>6
<1> HIDE DEF at, last
<1>8. ASSUME NEW lo \in 1..N, NEW hi \in 1..N
      PROVE  at[<<lo, hi>>] = IF lo >= hi THEN lo
                              ELSE IF h[Mid(lo, hi)].seq <= target THEN at[<<Mid(lo, hi), hi>>]
                              ELSE at[<<lo, Mid(lo, hi) - 1>>]
  <2> DEFINE H == Half(at)
  <2>1. H[<<lo, hi>>] = IF lo >= hi THEN lo
                        ELSE IF h[Mid(lo, hi)].seq <= target THEN at[<<Mid(lo, hi), hi>>]
                        ELSE at[<<lo, Mid(lo, hi) - 1>>]
    OBVIOUS
  <2>2. at = H
    BY <1>7
  <2> HIDE DEF H
  <2> QED
    BY <2>1, <2>2
<1> HIDE DEF Half
<1> DEFINE Bad == {n \in 0..N : \E lo, hi \in 1..N : /\ lo <= hi /\ n = hi - lo
                                                    /\ ~ F(at[<<lo, hi>>], lo, hi)}
<1>9. Bad = {}
  <2> SUFFICES ASSUME Bad # {} PROVE FALSE
    OBVIOUS
  <2>1. Bad \in SUBSET Nat
    BY <1>1
  <2>2. PICK n \in Bad : \A m \in Bad : n <= m
    BY <2>1, LeastExists
  <2>3. PICK lo \in 1..N, hi \in 1..N : lo <= hi /\ n = hi - lo /\ ~ F(at[<<lo, hi>>], lo, hi)
    OBVIOUS
  <2>4. ASSUME NEW x \in 1..N, NEW y \in 1..N, x <= y, y - x < hi - lo
        PROVE  F(at[<<x, y>>], x, y)
    <3>1. y - x \in 0..N /\ ~ (n <= y - x)
      BY <1>1, <2>3, <2>4
    <3>2. y - x \notin Bad
      BY <2>2, <3>1
    <3> HIDE DEF F
    <3> QED
      BY <2>4, <3>1, <3>2
  <2>5. CASE lo = hi
    <3>1. lo >= hi
      BY <1>1, <2>5
    <3>2. at[<<lo, hi>>] = lo
      BY <1>8, <3>1
    <3> QED
      BY <1>1, <2>3, <2>5, <3>2 DEF Found
  <2>6. CASE lo < hi
    <3> DEFINE mid == Mid(lo, hi)
    <3>1. /\ mid \in 1..N /\ mid <= hi /\ lo < mid /\ mid - 1 \in 1..N /\ lo <= mid - 1
      BY <1>4, <2>6
    <3>2. at[<<lo, hi>>] = IF h[mid].seq <= target THEN at[<<mid, hi>>] ELSE at[<<lo, mid - 1>>]
      BY <1>1, <1>8, <2>6
    <3> HIDE DEF mid
    <3>3. F(at[<<mid, hi>>], mid, hi) /\ F(at[<<lo, mid - 1>>], lo, mid - 1)
      BY <1>1, <2>4, <3>1
    <3>4. F(at[<<lo, hi>>], lo, hi)
      BY <2>6, <3>2, <3>3, FoundInHalf DEF mid
    <3> QED
      BY <2>3, <3>4
  <2> QED
    BY <1>1, <2>3, <2>5, <2>6
<1>10. F(at[<<1, N>>], 1, N)
  <2>1. 1 \in 1..N /\ N \in 1..N /\ 1 <= N /\ N - 1 \in 0..N
    BY <1>1
  <2> HIDE DEF F
  <2> QED
    BY <1>9, <2>1
<1> QED
  BY <1>2, <1>10

(* resolve_as_of finds the latest snapshot whose commit sequence is not past  *)
(* the target, or says that there is none, whatever notes of the query       *)
(* history and lifted sequences lie in between: search_at_or_before halves a *)
(* history whose sequences do not go back.                                   *)
THEOREM ResolvedAsOfIsExact ==
  ASSUME NoRace
  PROVE  CacheSpec => []AsOfExact
<1>1. CacheInv => AsOfExact
  <2> SUFFICES ASSUME CacheInv, mode = "fresh", NEW target \in 0..MaxSnapshot
               PROVE  LET e == ResolveAsOf(hist, target)
                      IN  IF e = Absent THEN \A i \in 1..Latest : hist[i].seq > target
                          ELSE /\ hist[e].seq <= target
                               /\ \A i \in (e + 1)..Latest : hist[i].seq > target
    BY DEF AsOfExact
  <2>1. Latest \in Nat /\ Latest >= 1 /\ (\A i \in 1..Latest : hist[i].seq \in Nat)
        /\ target \in Nat /\ 1 \in 1..Latest
    BY NowIn, CacheAssumption DEF CacheInv, State
  <2>2. \A i, j \in 1..Latest : i <= j => hist[i].seq <= hist[j].seq
    BY <2>1 DEF CacheInv, Ordered, Lo
  <2>3. CASE hist[1].seq > target
    <3>1. ResolveAsOf(hist, target) = Absent
      BY <2>3 DEF ResolveAsOf
    <3>2. ASSUME NEW i \in 1..Latest PROVE hist[i].seq > target
      <4>1. hist[1].seq <= hist[i].seq /\ hist[1].seq \in Nat /\ hist[i].seq \in Nat
        BY <2>1, <2>2
      <4> QED
        BY <2>1, <2>3, <4>1
    <3> QED
      BY <3>1, <3>2
  <2>4. CASE ~ (hist[1].seq > target)
    <3> DEFINE e == Halving(hist, target)
    <3>1. ResolveAsOf(hist, target) = e
      BY <2>4 DEF ResolveAsOf
    <3>2. Rising(hist, Len(hist)) /\ Len(hist) >= 1
      BY <2>1, <2>2 DEF Rising, Latest
    <3>3. Found(hist, target, e, 1, Latest)
      BY <2>1, <3>2, HalvingFinds DEF Latest
    <3> HIDE DEF e
    <3>4. e \in 1..Latest /\ e # Absent
      BY <2>1, <3>3, CacheAssumption DEF Found
    <3>5. hist[e].seq <= target /\ \A i \in (e + 1)..Latest : hist[i].seq > target
      BY <2>1, <2>4, <3>3 DEF Found
    <3> QED
      BY <3>1, <3>4, <3>5
  <2> QED
    BY <2>3, <2>4
<1> QED
  BY <1>1, CacheInvInductive, PTL
===============================================================================
