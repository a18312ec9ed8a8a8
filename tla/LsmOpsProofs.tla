----------------------------- MODULE LsmOpsProofs -----------------------------
(****************************************************************************)
(* What a read finds, for every set of entries: sources laid in order of    *)
(* their sequences read like the union of them, and compaction's garbage    *)
(* collection changes nothing for a snapshot at or above its floor.         *)
(****************************************************************************)
EXTENDS LsmOps, TLAPS, WellFoundedInduction

(* At most one operation per key and sequence.                               *)
Unique(X) == \A e, f \in X : e.key = f.key /\ e.seq = f.seq => e = f

(* Everything in X is newer than everything in Y.                            *)
Above(X, Y) == \A e \in X, f \in Y : f.seq < e.seq

IsNewest(X, k, s, e) ==
    /\ e \in Visible(X, k, s)
    /\ \A f \in Visible(X, k, s) : f.seq <= e.seq

Runs(ssts) == UNION {ssts[i] : i \in DOMAIN ssts}

(* The sources of a store: runs ordered by age, the memtable on top.         *)
Layered(mem, ssts) ==
    /\ \A i, j \in DOMAIN ssts : i < j => Above(ssts[j], ssts[i])
    /\ \A i \in DOMAIN ssts : Above(mem, ssts[i])

-------------------------------------------------------------------------------
(* A non-empty set of naturals has a least element ...                       *)
LEMMA LeastExists ==
  ASSUME NEW S \in SUBSET Nat, S # {}
  PROVE  \E x \in S : \A y \in S : x <= y
<1>1. PICK x \in S : \A y \in S : ~ (<<y, x>> \in OpToRel(<, Nat))
  BY NatLessThanWellFounded, WFMin
<1>2. ASSUME NEW y \in S
      PROVE  x <= y
  <2>1. ~ (<<y, x>> \in OpToRel(<, Nat))
    BY <1>1
  <2>2. ~ (y < x)
    BY <2>1 DEF OpToRel
  <2> QED
    BY <2>2
<1> QED
  BY <1>2

(* ... and a bounded one a greatest.                                         *)
LEMMA GreatestExists ==
  ASSUME NEW S \in SUBSET Nat, S # {}, NEW n \in Nat, \A x \in S : x <= n
  PROVE  \E x \in S : \A y \in S : y <= x
<1> DEFINE D == {d \in Nat : n - d \in S}
<1>1. PICK z \in S : z <= n
  OBVIOUS
<1>2. n - z \in Nat /\ n - (n - z) = z
  BY <1>1
<1>3. D \in SUBSET Nat /\ D # {}
  BY <1>1, <1>2
<1>4. PICK d \in D : \A y \in D : d <= y
  BY <1>3, LeastExists
<1>5. n - d \in S /\ d \in Nat
  OBVIOUS
<1>6. ASSUME NEW y \in S
      PROVE  y <= n - d
  <2>1. y \in Nat /\ y <= n
    OBVIOUS
  <2>2. n - y \in Nat /\ n - (n - y) = y
    BY <2>1
  <2>3. n - y \in D
    BY <2>2
  <2>4. d <= n - y
    BY <1>4, <2>3
  <2> QED
    BY <1>5, <2>1, <2>2, <2>4
<1> QED
  BY <1>5, <1>6

(* mem_op and Sst::get find a newest visible version whenever there is one.  *)
LEMMA NewestExists ==
  ASSUME NEW X \in SUBSET Entry, NEW k, NEW s \in Nat, Visible(X, k, s) # {}
  PROVE  \E e : IsNewest(X, k, s, e)
<1> DEFINE S == {e.seq : e \in Visible(X, k, s)}
<1>1. S \in SUBSET Nat /\ S # {} /\ \A x \in S : x <= s
  BY DEF Visible, Entry
<1>2. PICK x \in S : \A y \in S : y <= x
  BY <1>1, GreatestExists
<1>3. PICK e \in Visible(X, k, s) : e.seq = x
  OBVIOUS
<1> QED
  BY <1>2, <1>3 DEF IsNewest

(* The newest version decides.                                               *)
LEMMA ResolveIs ==
  ASSUME NEW X \in SUBSET Entry, Unique(X), NEW k, NEW s \in Nat, NEW e,
         IsNewest(X, k, s, e)
  PROVE  Resolve(X, k, s) = e.op
<1> DEFINE V == Visible(X, k, s)
           n == Newest(V)
<1>1. e \in V /\ \A f \in V : f.seq <= e.seq
  BY DEF IsNewest
<1>2. n \in V /\ \A f \in V : f.seq <= n.seq
  BY <1>1 DEF Newest
<1>3. n.seq = e.seq /\ n.key = e.key /\ n \in X /\ e \in X
  BY <1>1, <1>2 DEF Visible, Entry
<1>4. n = e
  BY <1>3 DEF Unique
<1> QED
  BY <1>1, <1>4 DEF Resolve

(* A newer source hides an older one wherever it has a visible version.      *)
LEMMA ResolveHidden ==
  ASSUME NEW A \in SUBSET Entry, NEW C \in SUBSET Entry, Unique(C),
         A \subseteq C, \A e \in A, f \in C : f \in A \/ f.seq < e.seq,
         NEW k, NEW s \in Nat, Visible(A, k, s) # {}
  PROVE  Resolve(C, k, s) = Resolve(A, k, s)
<1>1. PICK e : IsNewest(A, k, s, e)
  BY NewestExists
<1>2. IsNewest(C, k, s, e)
  BY <1>1 DEF IsNewest, Visible, Entry
<1>3. Unique(A)
  BY DEF Unique
<1>4. Resolve(A, k, s) = e.op
  BY <1>1, <1>3, ResolveIs
<1>5. Resolve(C, k, s) = e.op
  BY <1>2, ResolveIs
<1> QED
  BY <1>4, <1>5

(* ... and is transparent elsewhere.                                         *)
LEMMA ResolveBeneath ==
  ASSUME NEW A, NEW B, NEW k, NEW s, Visible(A, k, s) = {}
  PROVE  Resolve(A \cup B, k, s) = Resolve(B, k, s)
<1>1. Visible(A \cup B, k, s) = Visible(B, k, s)
  BY DEF Visible
<1> QED
  BY <1>1 DEF Resolve

-------------------------------------------------------------------------------
(* committed_get stops at the first source from the newest; because the      *)
(* sources are ordered by age it finds what the union of them holds.         *)
THEOREM GetReadsTheUnion ==
  ASSUME NEW mem \in SUBSET Entry, NEW ssts \in Seq(SUBSET Entry),
         Layered(mem, ssts), Unique(mem \cup Runs(ssts)),
         NEW k, NEW s \in Nat
  PROVE  CommittedGet(mem, ssts, k, s) = Resolve(mem \cup Runs(ssts), k, s)
<1> DEFINE hits == {i \in DOMAIN ssts : Visible(ssts[i], k, s) # {}}
<1>0. Runs(ssts) \in SUBSET Entry
  BY DEF Runs
<1>1. /\ Visible(mem, k, s) # {} =>
            Resolve(mem \cup Runs(ssts), k, s) = Resolve(mem, k, s)
      /\ Visible(mem, k, s) = {} =>
            Resolve(mem \cup Runs(ssts), k, s) = Resolve(Runs(ssts), k, s)
  <2> DEFINE C == mem \cup Runs(ssts)
  <2>1. /\ C \in SUBSET Entry /\ Unique(C) /\ mem \subseteq C
        /\ \A e \in mem, f \in C : f \in mem \/ f.seq < e.seq
    BY <1>0 DEF Layered, Above, Runs
  <2>2. Visible(mem, k, s) = {} => Resolve(C, k, s) = Resolve(Runs(ssts), k, s)
    BY ResolveBeneath
  <2> HIDE DEF C
  <2>3. Visible(mem, k, s) # {} => Resolve(C, k, s) = Resolve(mem, k, s)
    BY <2>1, ResolveHidden
  <2> QED
    BY <2>2, <2>3 DEF C
<1>2. CASE hits = {}
  <2>1. Visible(Runs(ssts), k, s) = {}
    BY <1>2 DEF Visible, Runs
  <2> QED
    BY <1>1, <1>2, <2>1 DEF CommittedGet, Resolve
<1>3. CASE hits # {}
  <2> DEFINE l == Largest(hits)
  <2>1. hits \in SUBSET Nat /\ Len(ssts) \in Nat /\ \A i \in hits : i <= Len(ssts)
    OBVIOUS
  <2>2. \E x \in hits : \A y \in hits : y <= x
    BY <1>3, <2>1, GreatestExists
  <2>3. l \in hits /\ \A y \in hits : y <= l
    BY <2>2 DEF Largest
  <2> HIDE DEF l
  <2>4. l \in DOMAIN ssts /\ ssts[l] \in SUBSET Entry /\ Visible(ssts[l], k, s) # {}
    BY <2>3
  <2>5. PICK e : IsNewest(ssts[l], k, s, e)
    BY <2>4, NewestExists
  <2>6. e \in Visible(Runs(ssts), k, s)
    BY <2>4, <2>5 DEF IsNewest, Visible, Runs
  <2>7. ASSUME NEW f \in Visible(Runs(ssts), k, s)
        PROVE  f.seq <= e.seq
    <3>1. PICK i \in DOMAIN ssts : f \in ssts[i]
      BY DEF Visible, Runs
    <3>2. i \in hits /\ f \in Visible(ssts[i], k, s)
      BY <3>1 DEF Visible
    <3>3. i <= l /\ i \in Nat /\ l \in Nat
      BY <2>3, <2>4, <3>2
    <3>4. CASE i = l
      BY <2>5, <3>2, <3>4 DEF IsNewest
    <3>5. CASE i < l
      <4>1. e \in ssts[l] /\ e \in Entry /\ f \in Entry
        BY <2>4, <2>5, <3>1 DEF IsNewest, Visible
      <4>2. f.seq < e.seq
        BY <2>4, <3>1, <3>5, <4>1 DEF Layered, Above
      <4> QED
        BY <4>1, <4>2 DEF Entry
    <3> QED
      BY <3>3, <3>4, <3>5
  <2>8. IsNewest(Runs(ssts), k, s, e)
    BY <2>6, <2>7 DEF IsNewest
  <2>9. Unique(Runs(ssts)) /\ Unique(ssts[l])
    BY <2>4 DEF Unique, Runs
  <2>10. Resolve(Runs(ssts), k, s) = e.op
    BY <1>0, <2>8, <2>9, ResolveIs
  <2>11. Resolve(ssts[l], k, s) = e.op
    BY <2>4, <2>5, <2>9, ResolveIs
  <2> QED
    BY <1>1, <1>3, <2>10, <2>11 DEF CommittedGet, l
<1> QED
  BY <1>2, <1>3

(* gc_versions forgets only what no snapshot at or above its floor can see:  *)
(* a superseded version, or a tombstone with nothing left beneath it.        *)
THEOREM GcKeepsReadsAboveFloor ==
  ASSUME NEW M \in SUBSET Entry, Unique(M), NEW floor \in Nat,
         NEW k, NEW s \in Nat, floor <= s
  PROVE  Resolve(GcVersions(M, floor), k, s) = Resolve(M, k, s)
<1> DEFINE kept == KeptVersions(M, floor)
           G == GcVersions(M, floor)
<1>1. G \subseteq kept /\ kept \subseteq M
  BY DEF GcVersions, KeptVersions
<1>2. Unique(G) /\ G \in SUBSET Entry
  BY <1>1 DEF Unique
<1>3. CASE Visible(M, k, s) = {}
  <2>1. Visible(G, k, s) = {}
    BY <1>1, <1>3 DEF Visible
  <2> QED
    BY <1>3, <2>1 DEF Resolve
<1>4. CASE Visible(M, k, s) # {}
  <2>1. PICK e : IsNewest(M, k, s, e)
    BY <1>4, NewestExists
  <2>2. e \in M /\ e \in Entry /\ e.key = k /\ e.seq <= s
    BY <2>1 DEF IsNewest, Visible
  <2>3. e \in kept
    BY <2>1, <2>2 DEF IsNewest, Visible, KeptVersions, Entry
  <2>4. Resolve(M, k, s) = e.op
    BY <2>1, ResolveIs
  <2>5. CASE LoneTombstone(kept, floor, e)
    <3>1. Visible(G, k, s) = {}
      BY <1>1, <2>2, <2>5 DEF LoneTombstone, Visible, GcVersions
    <3> QED
      BY <2>4, <2>5, <3>1 DEF LoneTombstone, Resolve
  <2>6. CASE ~ LoneTombstone(kept, floor, e)
    <3>1. e \in G
      BY <2>3, <2>6 DEF GcVersions
    <3>2. IsNewest(G, k, s, e)
      BY <1>1, <2>1, <3>1 DEF IsNewest, Visible
    <3> QED
      BY <1>2, <2>4, <3>2, ResolveIs
  <2> QED
    BY <2>5, <2>6
<1> QED
  BY <1>3, <1>4

(* MergeIter emits every entry of the runs when none is in two of them.      *)
LEMMA MergeIsUnion ==
  ASSUME NEW ssts, Unique(Runs(ssts))
  PROVE  Merge(ssts) = Runs(ssts)
  BY DEF Merge, Runs, Unique

-------------------------------------------------------------------------------
(* range and get.                                                            *)

(* The runs that hold a version of k visible at s, and what the topmost of   *)
(* the first n says.                                                         *)
Hits(ssts, k, s) == {i \in DOMAIN ssts : Visible(ssts[i], k, s) # {}}
Top(ssts, k, s, n) ==
    LET below == {i \in Hits(ssts, k, s) : i <= n}
    IN  IF below = {} THEN Del ELSE Resolve(ssts[Largest(below)], k, s)

Over(below, source, s) ==
    [k \in Keys |-> IF Visible(source, k, s) = {} THEN below[k] ELSE Resolve(source, k, s)]

LEMMA LargestIs ==
  ASSUME NEW S, NEW i \in S, S \subseteq Nat, \A j \in S : j <= i
  PROVE  Largest(S) = i
<1>1. Largest(S) \in S /\ \A j \in S : j <= Largest(S)
  BY DEF Largest
<1>2. Largest(S) \in Nat /\ i \in Nat /\ Largest(S) <= i /\ i <= Largest(S)
  BY <1>1
<1> QED
  BY <1>2

(* One more run on top.                                                      *)
LEMMA TopGrows ==
  ASSUME NEW S, NEW ssts \in Seq(S), NEW k, NEW s, NEW n \in 1..Len(ssts)
  PROVE  Top(ssts, k, s, n) = IF Visible(ssts[n], k, s) = {} THEN Top(ssts, k, s, n - 1)
                              ELSE Resolve(ssts[n], k, s)
<1> DEFINE upto == {i \in Hits(ssts, k, s) : i <= n}
           before == {i \in Hits(ssts, k, s) : i <= n - 1}
<1>1. DOMAIN ssts = 1..Len(ssts) /\ Len(ssts) \in Nat /\ n \in Nat
  OBVIOUS
<1>2. \A i \in Hits(ssts, k, s) : i \in Nat
  BY <1>1 DEF Hits
<1>3. CASE Visible(ssts[n], k, s) = {}
  <2>1. n \notin Hits(ssts, k, s)
    BY <1>3 DEF Hits
  <2>2. upto = before
    BY <1>1, <1>2, <2>1
  <2> QED
    BY <1>3, <2>2 DEF Top
<1>4. CASE Visible(ssts[n], k, s) # {}
  <2>1. n \in upto /\ upto \subseteq Nat /\ \A j \in upto : j <= n
    BY <1>1, <1>2, <1>4 DEF Hits
  <2>2. Largest(upto) = n
    BY <2>1, LargestIs
  <2> QED
    BY <1>4, <2>1, <2>2 DEF Top
<1> QED
  BY <1>3, <1>4

LEMMA TopOfNone ==
  ASSUME NEW S, NEW ssts \in Seq(S), NEW k, NEW s
  PROVE  Top(ssts, k, s, 0) = Del
<1>1. \A i \in Hits(ssts, k, s) : i \in Nat /\ i >= 1
  BY DEF Hits
<1>2. {i \in Hits(ssts, k, s) : i <= 0} = {}
  BY <1>1
<1> QED
  BY <1>2 DEF Top

(* committed_values lays the runs over each other from the oldest, get looks *)
(* at them from the newest: whatever the runs hold, they agree.              *)
THEOREM RangeIsGet ==
  ASSUME NEW S, NEW mem, NEW ssts \in Seq(S), NEW s
  PROVE  CommittedValues(mem, ssts, s) = [k \in Keys |-> CommittedGet(mem, ssts, k, s)]
<1> DEFINE N == Len(ssts)
           Laid(f) == [n \in 0..N |-> IF n = 0 THEN [k \in Keys |-> Del]
                                      ELSE Over(f[n - 1], ssts[n], s)]
           upTo == CHOOSE f : f = Laid(f)
           tops == [n \in 0..N |-> [k \in Keys |-> Top(ssts, k, s, n)]]
<1>1. N \in Nat /\ DOMAIN ssts = 1..N
  OBVIOUS
<1>2. CommittedValues(mem, ssts, s) = Over(upTo[N], mem, s)
  BY DEF CommittedValues, Over
<1>3. ASSUME NEW n \in 0..N
      PROVE  tops[n] = IF n = 0 THEN [k \in Keys |-> Del] ELSE Over(tops[n - 1], ssts[n], s)
  <2>1. CASE n = 0
    BY <1>1, <2>1, TopOfNone
  <2>2. CASE n # 0
    <3>1. n \in 1..N /\ n - 1 \in 0..N
      BY <1>1, <2>2
    <3>2. ASSUME NEW k \in Keys
          PROVE  tops[n][k] = IF Visible(ssts[n], k, s) = {} THEN tops[n - 1][k]
                              ELSE Resolve(ssts[n], k, s)
      BY <3>1, TopGrows
    <3>3. tops[n] = [k \in Keys |-> tops[n][k]]
      OBVIOUS
    <3> HIDE DEF tops
    <3> QED
      BY <2>2, <3>2, <3>3 DEF Over
  <2> QED
    BY <2>1, <2>2
<1>4. tops = Laid(tops)
  <2>1. tops = [n \in 0..N |-> tops[n]]
    OBVIOUS
  <2> HIDE DEF tops
  <2> QED
    BY <1>3, <2>1
<1>5. upTo = Laid(upTo)
  <2> HIDE DEF Laid, tops
  <2> QED
    BY <1>4
<1> HIDE DEF upTo
<1>6. \A n \in 0..N : upTo[n] = IF n = 0 THEN [k \in Keys |-> Del]
                                ELSE Over(upTo[n - 1], ssts[n], s)
  <2> DEFINE L == Laid(upTo)
  <2>1. \A n \in 0..N : L[n] = IF n = 0 THEN [k \in Keys |-> Del]
                               ELSE Over(upTo[n - 1], ssts[n], s)
    OBVIOUS
  <2>2. upTo = L
    BY <1>5
  <2> HIDE DEF L
  <2> QED
    BY <2>1, <2>2
<1> HIDE DEF tops, Laid
<1>7. \A n \in 0..N : upTo[n] = tops[n]
  <2> DEFINE B == {n \in 0..N : upTo[n] # tops[n]}
  <2> SUFFICES ASSUME B # {}
               PROVE  FALSE
    OBVIOUS
  <2>1. B \in SUBSET Nat
    BY <1>1
  <2>2. PICK n \in B : \A m \in B : n <= m
    BY <2>1, LeastExists
  <2>3. n \in 0..N /\ upTo[n] # tops[n]
    OBVIOUS
  <2>4. n # 0
    BY <1>3, <1>6, <2>3
  <2>5. n - 1 \in 0..N /\ ~ (n <= n - 1)
    BY <1>1, <2>3, <2>4
  <2>6. upTo[n - 1] = tops[n - 1]
    BY <2>2, <2>5
  <2> QED
    BY <1>3, <1>6, <2>3, <2>4, <2>6
<1>8. ASSUME NEW k \in Keys
      PROVE  upTo[N][k] = Top(ssts, k, s, N)
  <2>1. N \in 0..N
    BY <1>1
  <2>2. upTo[N] = tops[N]
    BY <1>7, <2>1
  <2>3. tops[N] = [l \in Keys |-> Top(ssts, l, s, N)]
    BY <2>1 DEF tops
  <2> QED
    BY <2>2, <2>3
<1>9. ASSUME NEW k \in Keys
      PROVE  CommittedGet(mem, ssts, k, s) =
                IF Visible(mem, k, s) = {} THEN Top(ssts, k, s, N) ELSE Resolve(mem, k, s)
  <2>1. {i \in Hits(ssts, k, s) : i <= N} = Hits(ssts, k, s)
    BY <1>1 DEF Hits
  <2> QED
    BY <2>1 DEF CommittedGet, Top, Hits
<1> QED
  BY <1>2, <1>8, <1>9 DEF Over
===============================================================================
