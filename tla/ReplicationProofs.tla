---------------------------- MODULE ReplicationProofs --------------------------
(****************************************************************************)
(* A follower applies the master's batches in the master's order and serves *)
(* what the master published, for any number of keys, batches, lost         *)
(* connections and restarts and for queues of any capacity.                 *)
(*                                                                          *)
(* The argument: what is on its way to the replica, from the apply loop's   *)
(* queue back to the broadcast, is one unbroken run of the master's         *)
(* batches, the ones after a position lo.  A subscribed receiver's run ends *)
(* at the master's last batch; every other run is broken off at the end     *)
(* only.  The replica stands at a position that the run continues.          *)
(****************************************************************************)
EXTENDS Replication, TLAPS

(* Neither of the two windows in which a subscription comes too late.        *)
NoRace == Races = {}

Data == [Keys -> Nat]

(* What the master's data was after each batch, the one logged included.     *)
Hist == IF pend = NoBatch THEN past ELSE Append(past, Applied(pend, content))

Base ==
    /\ mseq \in Nat /\ mgraph \in Nat /\ 1 <= mgraph /\ mgraph <= Len(past)
    /\ past \in Seq(Data) /\ Len(past) >= 1 /\ content = past[Len(past)]
    /\ IF pend = NoBatch THEN Len(past) = mseq
       ELSE pend \in Batch /\ pend.seq = mseq /\ Len(past) = mseq - 1

(* A key holds the number of the last batch that wrote it.                   *)
History(h) ==
    /\ h \in Seq(Data)
    /\ \A n \in 1..Len(h) : \A k \in Keys : h[n][k] <= n
    /\ \A n \in 1..Len(h) : \A m \in 1..n : \A k \in Keys : h[m][k] <= h[n][k]
    /\ \A n \in 1..Len(h) : \A k \in Keys : h[Len(h)][k] <= n => h[n][k] = h[Len(h)][k]

Faithful(b, h) == b.seq \in 2..Len(h) /\ h[b.seq] = Applied(b, h[b.seq - 1])

Queue(q, from, h) ==
    /\ q \in Seq(Batch)
    /\ \A i \in 1..Len(q) : q[i].seq = from + i /\ Faithful(q[i], h)

Stream(lo) ==
    /\ lo \in Nat /\ 1 <= lo
    /\ Queue(tail, lo, Hist)
    /\ Queue(backlog, lo + Len(tail), Hist)
    /\ Queue(raw, lo + Len(tail) + Len(backlog), Hist)
    /\ Queue(feed, lo + Len(tail) + Len(backlog) + Len(raw), Hist)
    /\ lo + Len(tail) + Len(backlog) + Len(raw) + Len(feed) <= mseq
    /\ sub = "subscribed" => lo + Len(tail) + Len(backlog) + Len(raw) + Len(feed) = mseq
    /\ sub = "upgraded" \/ fpc = "down" =>
          feed = <<>> /\ raw = <<>> /\ backlog = <<>> /\ tail = <<>>
    /\ fpc = "down" => sub = "none"
    /\ fpc \in {"connected", "pulled"} => tail = <<>>
    /\ fpc = "pulled" => image.seq \in Nat
    /\ fpc = "live" => floor \in Nat
    /\ fpc = "live" /\ tail # <<>> => floor <= lo

(* at: the position of the pulled data, then that of the replica.  A         *)
(* snapshot that carries an older sequence makes the replica apply batches   *)
(* that it has: what they wrote is either the last word on its key already   *)
(* or will be overwritten by a batch after at.                               *)
Cutover(lo, at) ==
    /\ fpc = "connected" => lo <= Len(past)
    /\ fpc \in {"pulled", "live"} => sub # "upgraded"
    /\ fpc = "pulled" =>
          /\ at \in 1..Len(past) /\ lo <= at
          /\ image.data = Hist[at] /\ pulled = Hist[at]
          /\ image.seq \in 1..at /\ (aligned => image.seq = at)
    /\ fpc = "live" =>
          /\ at \in 1..mseq /\ floor <= at /\ lo <= at
          /\ lo = at \/ (at = floor /\ tail = <<>>)
          /\ replica \in Data
          /\ \A k \in Keys : Hist[mseq][k] > at \/ replica[k] = Hist[mseq][k]
          /\ aligned => floor >= 1 /\ replica = Hist[at] /\ pulled = Hist[floor]

Pos(lo, at) == Base /\ History(Hist) /\ Stream(lo) /\ (NoRace => Cutover(lo, at))

Inv == \E lo, at \in Nat : Pos(lo, at)

-------------------------------------------------------------------------------
(* Queues of consecutive batches.                                            *)

LEMMA EmptyQueue == \A from, h : Queue(<<>>, from, h)
  BY DEF Queue

LEMMA QueueHead ==
  ASSUME NEW q, NEW from \in Nat, NEW h, Queue(q, from, h), q # <<>>
  PROVE  /\ Head(q) \in Batch /\ Head(q).seq = from + 1 /\ Faithful(Head(q), h)
         /\ Queue(Tail(q), from + 1, h) /\ Len(Tail(q)) = Len(q) - 1 /\ Len(q) >= 1
<1>1. q \in Seq(Batch) /\ Len(q) \in Nat /\ Len(q) >= 1 /\ 1 \in 1..Len(q)
  BY DEF Queue
<1>2. Head(q) = q[1] /\ Head(q) \in Batch
  BY <1>1
<1>3. Head(q).seq = from + 1 /\ Faithful(Head(q), h)
  BY <1>1, <1>2 DEF Queue
<1>4. /\ Tail(q) \in Seq(Batch) /\ Len(Tail(q)) = Len(q) - 1
      /\ \A i \in 1..Len(Tail(q)) : Tail(q)[i] = q[i + 1] /\ i + 1 \in 1..Len(q)
  BY <1>1
<1>5. ASSUME NEW i \in 1..Len(Tail(q))
      PROVE  Tail(q)[i].seq = from + 1 + i /\ Faithful(Tail(q)[i], h)
  <2>1. Tail(q)[i] = q[i + 1] /\ i + 1 \in 1..Len(q) /\ i \in Nat
    BY <1>1, <1>4
  <2>2. q[i + 1].seq = from + (i + 1) /\ Faithful(q[i + 1], h)
    BY <2>1 DEF Queue
  <2> QED
    BY <2>1, <2>2
<1> QED
  BY <1>1, <1>2, <1>3, <1>4, <1>5 DEF Queue

LEMMA QueueAppend ==
  ASSUME NEW q, NEW from \in Nat, NEW h, Queue(q, from, h), NEW b \in Batch,
         b.seq = from + Len(q) + 1, Faithful(b, h)
  PROVE  Queue(Append(q, b), from, h) /\ Len(Append(q, b)) = Len(q) + 1
         /\ Append(q, b) # <<>>
<1>1. q \in Seq(Batch) /\ Len(q) \in Nat
  BY DEF Queue
<1>2. /\ Append(q, b) \in Seq(Batch) /\ Len(Append(q, b)) = Len(q) + 1
      /\ Append(q, b)[Len(q) + 1] = b
      /\ \A i \in 1..Len(q) : Append(q, b)[i] = q[i]
  BY <1>1
<1>3. ASSUME NEW i \in 1..Len(Append(q, b))
      PROVE  Append(q, b)[i].seq = from + i /\ Faithful(Append(q, b)[i], h)
  <2>1. i \in 1..Len(q) \/ i = Len(q) + 1
    BY <1>1, <1>2
  <2>2. CASE i \in 1..Len(q)
    <3>1. Append(q, b)[i] = q[i]
      BY <1>2, <2>2
    <3> QED
      BY <2>2, <3>1 DEF Queue
  <2>3. CASE i = Len(q) + 1
    <3>1. Append(q, b)[i] = b
      BY <1>2, <2>3
    <3> QED
      BY <1>1, <2>3, <3>1
  <2> QED
    BY <2>1, <2>2, <2>3
<1> QED
  BY <1>1, <1>2, <1>3 DEF Queue

LEMMA QueuePrefix ==
  ASSUME NEW q, NEW from \in Nat, NEW h, Queue(q, from, h), NEW n \in 0..Len(q)
  PROVE  Queue(SubSeq(q, 1, n), from, h) /\ Len(SubSeq(q, 1, n)) = n
<1>1. q \in Seq(Batch) /\ Len(q) \in Nat /\ n \in Nat /\ n <= Len(q)
  BY DEF Queue
<1>2. /\ SubSeq(q, 1, n) \in Seq(Batch) /\ Len(SubSeq(q, 1, n)) = n
      /\ \A i \in 1..n : SubSeq(q, 1, n)[i] = q[i] /\ i \in 1..Len(q)
  BY <1>1
<1> QED
  BY <1>2 DEF Queue

LEMMA QueueStays ==
  ASSUME NEW q, NEW from \in Nat, NEW h \in Seq(Data), NEW c, Queue(q, from, h)
  PROVE  Queue(q, from, Append(h, c))
<1>1. ASSUME NEW b, Faithful(b, h)
      PROVE  Faithful(b, Append(h, c))
  <2>1. /\ b.seq \in 1..Len(h) /\ b.seq - 1 \in 1..Len(h) /\ b.seq \in 2..Len(h) + 1
        /\ Len(h) \in Nat /\ Len(Append(h, c)) = Len(h) + 1
    BY <1>1 DEF Faithful
  <2>2. Append(h, c)[b.seq] = h[b.seq] /\ Append(h, c)[b.seq - 1] = h[b.seq - 1]
    BY <2>1
  <2> QED
    BY <1>1, <2>1, <2>2 DEF Faithful
<1> QED
  BY <1>1 DEF Queue

(* A batch more in the history.                                              *)
LEMMA HistoryGrows ==
  ASSUME NEW h, History(h), Len(h) >= 1, NEW b, b.seq = Len(h) + 1
  PROVE  LET g == Append(h, Applied(b, h[Len(h)]))
         IN  /\ History(g) /\ Len(g) = Len(h) + 1 /\ g[Len(g)] = Applied(b, h[Len(h)])
             /\ \A n \in 1..Len(h) : g[n] = h[n]
<1> DEFINE N == Len(h)
           c == Applied(b, h[N])
           g == Append(h, c)
<1>1. h \in Seq(Data) /\ N \in Nat /\ N >= 1 /\ N \in 1..N
  BY DEF History
<1>2. h[N] \in Data
  BY <1>1
<1>3. c \in Data /\ \A k \in Keys : c[k] = IF k = b.key THEN N + 1 ELSE h[N][k]
  BY <1>1, <1>2 DEF Applied, Data
<1>4. \A k \in Keys : h[N][k] \in Nat /\ h[N][k] <= N
  BY <1>1, <1>2 DEF History, Data
<1> HIDE DEF c
<1>5. /\ g \in Seq(Data) /\ Len(g) = N + 1 /\ g[N + 1] = c
      /\ \A n \in 1..N : g[n] = h[n]
  BY <1>1, <1>3
<1>6. \A n \in 1..N : h[n] \in Data /\ \A k \in Keys : h[n][k] \in Nat
  BY <1>1 DEF Data
<1> HIDE DEF g
<1>7. ASSUME NEW n \in 1..Len(g), NEW k \in Keys
      PROVE  /\ g[n][k] <= n
             /\ \A m \in 1..n : g[m][k] <= g[n][k]
             /\ g[Len(g)][k] <= n => g[n][k] = g[Len(g)][k]
  <2>1. n \in 1..N \/ n = N + 1
    BY <1>1, <1>5
  <2>2. CASE n \in 1..N
    <3>1. g[n] = h[n] /\ n <= N /\ n \in Nat
      BY <1>1, <1>5, <2>2
    <3>2. g[n][k] <= n
      BY <2>2, <3>1 DEF History
    <3>3. ASSUME NEW m \in 1..n
          PROVE  g[m][k] <= g[n][k]
      <4>1. m \in 1..N
        BY <1>1, <2>2
      <4> QED
        BY <1>5, <2>2, <3>1, <4>1 DEF History
    <3>4. ASSUME c[k] <= n
          PROVE  g[n][k] = c[k]
      <4>1. c[k] = h[N][k]
        BY <1>1, <1>3, <3>1, <3>4
      <4> QED
        BY <2>2, <3>1, <3>4, <4>1 DEF History
    <3> QED
      BY <1>5, <3>2, <3>3, <3>4
  <2>3. CASE n = N + 1
    <3>1. g[n] = c
      BY <1>5, <2>3
    <3>2. c[k] <= n
      BY <1>1, <1>3, <1>4, <2>3
    <3>3. ASSUME NEW m \in 1..n
          PROVE  g[m][k] <= g[n][k]
      <4>1. CASE m = N + 1
        BY <1>1, <1>3, <1>4, <1>5, <3>1, <4>1
      <4>2. CASE m \in 1..N
        <5>1. h[m][k] <= h[N][k] /\ h[m][k] \in Nat /\ g[m] = h[m]
          BY <1>1, <1>5, <1>6, <4>2 DEF History
        <5> QED
          BY <1>1, <1>3, <1>4, <3>1, <5>1
      <4> QED
        BY <1>1, <2>3, <4>1, <4>2
    <3> QED
      BY <1>5, <2>3, <3>1, <3>2, <3>3
  <2> QED
    BY <2>1, <2>2, <2>3
<1>8. History(g)
  BY <1>5, <1>7 DEF History
<1> QED
  BY <1>5, <1>8 DEF g, c

-------------------------------------------------------------------------------
LEMMA HistIs ==
  ASSUME Base
  PROVE  /\ Hist \in Seq(Data) /\ Len(Hist) = mseq /\ mseq \in Nat /\ mseq >= 1
         /\ Len(past) \in Nat /\ Len(past) >= 1 /\ Len(past) <= mseq
         /\ \A n \in 1..Len(past) : Hist[n] = past[n]
         /\ pend = NoBatch => Hist = past /\ Len(past) = mseq
         /\ pend # NoBatch => Hist[mseq] = Applied(pend, content) /\ Len(past) = mseq - 1
         /\ content \in Data /\ content = Hist[Len(past)]
<1>1. /\ past \in Seq(Data) /\ Len(past) \in Nat /\ Len(past) >= 1 /\ content = past[Len(past)]
      /\ mseq \in Nat
  BY DEF Base
<1>2. content \in Data
  BY <1>1
<1>3. CASE pend = NoBatch
  BY <1>1, <1>2, <1>3 DEF Base, Hist
<1>4. CASE pend # NoBatch
  <2> DEFINE c == Applied(pend, content)
  <2>1. /\ pend \in Batch /\ pend.seq = mseq /\ Len(past) = mseq - 1
    BY <1>4 DEF Base
  <2>2. c \in Data
    BY <1>1, <1>2, <2>1 DEF Applied, Data
  <2>3. Hist = Append(past, c)
    BY <1>4 DEF Hist
  <2> HIDE DEF c
  <2>4. /\ Hist \in Seq(Data) /\ Len(Hist) = Len(past) + 1 /\ Hist[Len(past) + 1] = c
        /\ \A n \in 1..Len(past) : Hist[n] = past[n]
    BY <1>1, <2>2, <2>3
  <2>5. mseq = Len(past) + 1 /\ Len(past) \in 1..Len(past)
    BY <1>1, <2>1
  <2> QED
    BY <1>1, <1>2, <1>4, <2>1, <2>4, <2>5 DEF c
<1> QED
  BY <1>3, <1>4

LEMMA MasterRests ==
  ASSUME Base, History(Hist), UNCHANGED masterVars
  PROVE  Base' /\ Hist' = Hist /\ History(Hist)'
<1>1. UNCHANGED <<mseq, mgraph, content, pend, past>>
  BY DEF masterVars
<1>2. Base' /\ Hist' = Hist
  BY <1>1 DEF Base, Hist
<1> QED
  BY <1>2

(* A publication makes the history no longer, it was there from the log on.  *)
LEMMA MasterPublishes ==
  ASSUME Base, History(Hist), pend # NoBatch, Published, UNCHANGED mseq
  PROVE  /\ Base' /\ Hist' = Hist /\ History(Hist)'
         /\ Len(past') = Len(past) + 1
<1> DEFINE c == Applied(pend, content)
<1>1. /\ content' = c /\ past' = Append(past, c) /\ pend' = NoBatch
      /\ mgraph' \in {mgraph, mgraph + 1}
  BY DEF Published
<1>2. /\ pend.seq = mseq /\ Len(past) = mseq - 1 /\ past \in Seq(Data) /\ mgraph \in Nat
      /\ 1 <= mgraph /\ mgraph <= Len(past) /\ Len(past) \in Nat /\ mseq \in Nat
  BY DEF Base
<1>3. c \in Data
  BY <1>2, HistIs DEF Applied, Data
<1> HIDE DEF c
<1>4. /\ past' \in Seq(Data) /\ Len(past') = Len(past) + 1 /\ past'[Len(past')] = c
  BY <1>1, <1>2, <1>3
<1>5. Base'
  BY <1>1, <1>2, <1>4 DEF Base
<1>6. Hist' = Hist
  BY <1>1 DEF Hist, c
<1> QED
  BY <1>4, <1>5, <1>6

LEMMA MasterLogs ==
  ASSUME Base, History(Hist), NEW k \in Keys \cup {NoKey}, NEW stamped \in BOOLEAN,
         LogAndNotify(k, stamped)
  PROVE  /\ Base' /\ History(Hist)' /\ mseq' = mseq + 1 /\ pend = NoBatch
         /\ Hist' = Append(Hist, Applied(pend', Hist[mseq]))
         /\ Len(Hist') = mseq + 1 /\ Hist'[mseq + 1] = Applied(pend', Hist[mseq])
         /\ \A n \in 1..mseq : Hist'[n] = Hist[n]
         /\ pend' \in Batch /\ pend'.seq = mseq + 1 /\ Faithful(pend', Hist')
         /\ pend' # NoBatch /\ UNCHANGED past
<1> DEFINE b == pend'
<1>1. /\ pend = NoBatch /\ mseq < MaxSeq /\ mseq' = mseq + 1
      /\ b = [seq |-> mseq + 1, key |-> k, stamped |-> stamped]
      /\ UNCHANGED <<mgraph, content, past>>
  BY DEF LogAndNotify
<1>2. mseq \in Nat /\ mseq >= 1 /\ Len(past) = mseq /\ Hist = past /\ Len(Hist) = mseq
      /\ content = Hist[mseq] /\ MaxSeq \in Nat
  BY <1>1, HistIs, ReplicationAssumption
<1>3. b \in Batch /\ b.seq = mseq + 1
  BY <1>1, <1>2 DEF Batch
<1>4. b # NoBatch
  BY <1>2, <1>3 DEF NoBatch
<1>5. Hist' = Append(Hist, Applied(b, Hist[mseq]))
  BY <1>1, <1>2, <1>4 DEF Hist
<1>6. Base'
  BY <1>1, <1>2, <1>3, <1>4 DEF Base
<1> HIDE DEF b
<1>7. /\ History(Hist') /\ Len(Hist') = mseq + 1 /\ Hist'[mseq + 1] = Applied(b, Hist[mseq])
      /\ \A n \in 1..mseq : Hist'[n] = Hist[n]
  <2> DEFINE h == Hist
  <2>1. History(h) /\ Len(h) = mseq
    BY <1>2
  <2> HIDE DEF h
  <2>2. LET g == Append(h, Applied(b, h[Len(h)]))
        IN  /\ History(g) /\ Len(g) = Len(h) + 1 /\ g[Len(g)] = Applied(b, h[Len(h)])
            /\ \A n \in 1..Len(h) : g[n] = h[n]
    BY <1>2, <1>3, <2>1, HistoryGrows
  <2> QED
    BY <1>5, <2>1, <2>2 DEF h
<1>8. Faithful(b, Hist')
  <2>1. b.seq \in 2..Len(Hist') /\ b.seq - 1 = mseq /\ mseq \in 1..mseq
    BY <1>2, <1>3, <1>7
  <2>2. Hist'[b.seq - 1] = Hist[mseq]
    BY <1>7, <2>1
  <2> QED
    BY <1>3, <1>7, <2>1, <2>2 DEF Faithful
<1> QED
  BY <1>1, <1>3, <1>4, <1>5, <1>6, <1>7, <1>8 DEF b

LEMMA StreamLens ==
  ASSUME NEW lo, Stream(lo)
  PROVE  /\ Len(tail) \in Nat /\ Len(backlog) \in Nat /\ Len(raw) \in Nat /\ Len(feed) \in Nat
         /\ lo \in Nat /\ lo >= 1
         /\ tail \in Seq(Batch) /\ backlog \in Seq(Batch) /\ raw \in Seq(Batch)
         /\ feed \in Seq(Batch)
         /\ (tail = <<>> => Len(tail) = 0) /\ (backlog = <<>> => Len(backlog) = 0)
         /\ (raw = <<>> => Len(raw) = 0) /\ (feed = <<>> => Len(feed) = 0)
<1>1. /\ tail \in Seq(Batch) /\ backlog \in Seq(Batch) /\ raw \in Seq(Batch)
      /\ feed \in Seq(Batch) /\ lo \in Nat /\ lo >= 1
  BY DEF Stream, Queue
<1> QED
  BY <1>1

(* The master logs a batch: a receiver that keeps up gets it.                *)
LEMMA Logging ==
  ASSUME NEW lo \in Nat, NEW at \in Nat, Pos(lo, at),
         NEW k \in Keys \cup {NoKey}, NEW stamped \in BOOLEAN, LogAndNotify(k, stamped)
  PROVE  Pos(lo, at)'
<1>0. Base /\ History(Hist) /\ Stream(lo) /\ (NoRace => Cutover(lo, at))
  BY DEF Pos
<1>1. /\ Base' /\ History(Hist)' /\ mseq' = mseq + 1 /\ pend = NoBatch
      /\ Hist' = Append(Hist, Applied(pend', Hist[mseq]))
      /\ Len(Hist') = mseq + 1 /\ Hist'[mseq + 1] = Applied(pend', Hist[mseq])
      /\ (\A n \in 1..mseq : Hist'[n] = Hist[n])
      /\ pend' \in Batch /\ pend'.seq = mseq + 1 /\ Faithful(pend', Hist')
      /\ pend' # NoBatch /\ UNCHANGED past
  BY <1>0, MasterLogs
<1>2. /\ UNCHANGED <<raw, backlog, tail, fpc, image, floor, rseq, replica, pulled, aligned>>
      /\ Broadcast(pend')
  BY DEF LogAndNotify, queues, replicaVars
<1>3. \/ UNCHANGED <<feed, sub>> /\ sub # "subscribed"
      \/ feed' = Append(feed, pend') /\ sub = "subscribed" /\ UNCHANGED sub
      \/ feed' = <<>> /\ sub = "subscribed" /\ sub' = "lagged"
  BY <1>2 DEF Broadcast
<1>4. /\ Hist \in Seq(Data) /\ mseq \in Nat /\ mseq >= 1 /\ Len(past) = mseq
      /\ mseq \in 1..mseq /\ Len(Hist) = mseq
  BY <1>0, <1>1, HistIs
<1> DEFINE T == lo + Len(tail) + Len(backlog) + Len(raw)
           h == Hist
           g == Hist'
<1>5. T \in Nat /\ lo + Len(tail) \in Nat /\ lo + Len(tail) + Len(backlog) \in Nat
  BY <1>0, StreamLens
<1>6. /\ Queue(tail, lo, g) /\ Queue(backlog, lo + Len(tail), g)
      /\ Queue(raw, lo + Len(tail) + Len(backlog), g) /\ Queue(feed, T, g)
  <2>1. /\ Queue(tail, lo, h) /\ Queue(backlog, lo + Len(tail), h)
        /\ Queue(raw, lo + Len(tail) + Len(backlog), h) /\ Queue(feed, T, h)
    BY <1>0 DEF Stream
  <2>2. h \in Seq(Data) /\ g = Append(h, Applied(pend', h[mseq]))
    BY <1>1, <1>4
  <2> HIDE DEF h, g, T
  <2> QED
    BY <1>5, <2>1, <2>2, QueueStays
<1>7. Queue(feed', T, g)
  <2>1. CASE sub = "subscribed" /\ feed' = Append(feed, pend')
    <3>1. pend'.seq = T + Len(feed) + 1
      BY <1>0, <1>1, <1>4, <2>1 DEF Stream
    <3> HIDE DEF T, g
    <3>2. Faithful(pend', g)
      BY <1>1 DEF g
    <3> QED
      BY <1>1, <1>5, <1>6, <2>1, <3>1, <3>2, QueueAppend
  <2> QED
    BY <1>3, <1>6, <2>1, EmptyQueue
<1>8. /\ T + Len(feed') <= mseq + 1 /\ (sub' = "subscribed" => T + Len(feed') = mseq + 1)
  <2>1. /\ T + Len(feed) <= mseq /\ (sub = "subscribed" => T + Len(feed) = mseq)
        /\ Len(feed) \in Nat /\ feed \in Seq(Batch)
    BY <1>0, StreamLens DEF Stream
  <2> HIDE DEF T
  <2>2. CASE feed' = Append(feed, pend') /\ sub = "subscribed"
    <3>1. Len(feed') = Len(feed) + 1
      BY <1>1, <2>1, <2>2
    <3> QED
      BY <1>4, <1>5, <2>1, <2>2, <3>1
  <2>3. CASE feed' = <<>> /\ sub' = "lagged"
    BY <1>4, <1>5, <2>1, <2>3
  <2>4. CASE UNCHANGED <<feed, sub>> /\ sub # "subscribed"
    BY <1>4, <1>5, <2>1, <2>4
  <2> QED
    BY <1>3, <2>2, <2>3, <2>4
<1>9. Stream(lo)'
  <2>1. sub' = "upgraded" \/ fpc' = "down" => UNCHANGED <<feed, sub>>
    BY <1>0, <1>2, <1>3 DEF Stream
  <2> QED
    BY <1>0, <1>1, <1>2, <1>6, <1>7, <1>8, <2>1 DEF Stream
<1>10. ASSUME NoRace PROVE Cutover(lo, at)'
  <2>1. Cutover(lo, at)
    BY <1>0, <1>10
  <2>2. fpc \in {"pulled", "live"} => sub' # "upgraded"
    BY <1>3, <2>1 DEF Cutover
  <2>3. CASE fpc = "live"
    <3>1. /\ at \in 1..mseq /\ floor <= at /\ lo <= at /\ floor \in Nat
          /\ (lo = at \/ (at = floor /\ tail = <<>>)) /\ replica \in Data
          /\ (\A j \in Keys : Hist[mseq][j] > at \/ replica[j] = Hist[mseq][j])
          /\ (aligned => floor >= 1 /\ replica = Hist[at] /\ pulled = Hist[floor])
      BY <1>0, <2>1, <2>3 DEF Cutover, Stream
    <3>2. at \in 1..mseq + 1 /\ Hist'[at] = Hist[at]
          /\ (floor >= 1 => Hist'[floor] = Hist[floor])
      BY <1>1, <1>4, <3>1
    <3>3. ASSUME NEW j \in Keys
          PROVE  Hist'[mseq + 1][j] > at \/ replica[j] = Hist'[mseq + 1][j]
      <4>1. Hist'[mseq + 1][j] = IF j = pend'.key THEN mseq + 1 ELSE Hist[mseq][j]
        BY <1>1 DEF Applied
      <4>2. at < mseq + 1
        BY <1>4, <3>1
      <4> QED
        BY <3>1, <4>1, <4>2
    <3> QED
      BY <1>1, <1>2, <2>2, <2>3, <3>1, <3>2, <3>3 DEF Cutover
  <2>4. CASE fpc = "pulled"
    <3>1. at \in 1..Len(past) /\ Hist'[at] = Hist[at]
      BY <1>1, <1>4, <2>1, <2>4 DEF Cutover
    <3> QED
      BY <1>1, <1>2, <2>1, <2>2, <2>4, <3>1 DEF Cutover
  <2>5. CASE fpc \notin {"live", "pulled"}
    BY <1>1, <1>2, <2>1, <2>5 DEF Cutover
  <2> QED
    BY <2>3, <2>4, <2>5
<1> QED
  <2>1. NoRace => Cutover(lo, at)'
    BY <1>10
  <2> QED
    BY <1>1, <1>9, <2>1 DEF Pos, NoRace

(* Steps that change no queue and none of the follower's state but            *)
(* possibly close the socket; the master rests, publishes or restarts.       *)
LEMMA Closing ==
  ASSUME NEW lo \in Nat, NEW at \in Nat, Pos(lo, at),
         Base', Hist' = Hist, History(Hist)', UNCHANGED <<mseq, backlog, tail>>,
         Len(past') \in Nat, Len(past') >= Len(past),
         UNCHANGED <<fpc, image, floor, rseq, replica, pulled, aligned>>,
         \/ UNCHANGED <<feed, raw, sub>>
         \/ UNCHANGED <<feed, raw>> /\ sub \in {"lagged", "closed"} /\ sub' = "closed"
         \/ /\ sub # "none" /\ sub' = "closed" /\ feed' = <<>>
            /\ \E n \in 0..Len(raw) : raw' = SubSeq(raw, 1, n)
  PROVE  Pos(lo, at)'
<1>0. Base /\ History(Hist) /\ Stream(lo) /\ (NoRace => Cutover(lo, at))
  BY DEF Pos
<1>1. sub' = sub \/ sub' = "closed"
  OBVIOUS
<1>2. Len(past) \in Nat
  BY <1>0, HistIs
<1>3. Stream(lo)'
  <2>1. CASE UNCHANGED <<feed, raw>>
    BY <1>0, <1>1, <2>1 DEF Stream
  <2>2. CASE /\ sub # "none" /\ sub' = "closed" /\ feed' = <<>>
             /\ \E n \in 0..Len(raw) : raw' = SubSeq(raw, 1, n)
    <3>1. PICK n \in 0..Len(raw) : raw' = SubSeq(raw, 1, n)
      BY <2>2
    <3> DEFINE T == lo + Len(tail) + Len(backlog)
               h == Hist
    <3>2. /\ T \in Nat /\ Len(raw) \in Nat /\ Len(feed) \in Nat /\ raw \in Seq(Batch)
          /\ Queue(raw, T, h) /\ T + Len(raw) + Len(feed) <= mseq /\ mseq \in Nat
      <4>1. T \in Nat /\ Len(raw) \in Nat /\ Len(feed) \in Nat /\ raw \in Seq(Batch)
        BY <1>0, StreamLens
      <4>2. Queue(raw, T, h) /\ T + Len(raw) + Len(feed) <= mseq
        BY <1>0 DEF Stream
      <4> QED
        BY <1>0, <4>1, <4>2 DEF Base
    <3> HIDE DEF T, h
    <3>3. Queue(raw', T, h) /\ Len(raw') = n
      BY <3>1, <3>2, QueuePrefix
    <3>4. /\ Queue(feed', T + Len(raw'), h) /\ T + Len(raw') + Len(feed') <= mseq
          /\ (raw = <<>> => raw' = <<>>)
      <4>1. Queue(feed', T + Len(raw'), h)
        BY <2>2, EmptyQueue
      <4>2. T + Len(raw') + Len(feed') <= mseq
        BY <2>2, <3>1, <3>2, <3>3
      <4>3. raw = <<>> => raw' = <<>>
        BY <3>1, <3>2
      <4> QED
        BY <4>1, <4>2, <4>3
    <3> QED
      BY <1>0, <2>2, <3>3, <3>4 DEF Stream, T, h
  <2> QED
    BY <2>1, <2>2
<1>4. ASSUME NoRace PROVE Cutover(lo, at)'
  <2>1. Cutover(lo, at)
    BY <1>0, <1>4
  <2>2. fpc = "connected" => lo <= Len(past')
    BY <1>2, <2>1 DEF Cutover
  <2>3. at \in 1..Len(past) => at \in 1..Len(past')
    BY <1>2
  <2> QED
    BY <1>1, <2>1, <2>2, <2>3 DEF Cutover
<1> QED
  <2>1. NoRace => Cutover(lo, at)'
    BY <1>4
  <2> QED
    BY <1>3, <2>1 DEF Pos, NoRace

LEMMA NewPos ==
  ASSUME NEW lo \in Nat, NEW at \in Nat, Pos(lo, at), UNCHANGED masterVars,
         NEW l \in Nat, NEW a \in Nat, Stream(l)', NoRace => Cutover(l, a)'
  PROVE  Pos(l, a)'
<1>1. Base' /\ History(Hist)'
  BY MasterRests DEF Pos
<1> QED
  BY <1>1 DEF Pos, NoRace

LEMMA Still ==
  ASSUME NEW lo \in Nat, NEW at \in Nat, Pos(lo, at), UNCHANGED masterVars
  PROVE  /\ Hist' = Hist /\ UNCHANGED <<mseq, mgraph, content, pend, past>>
         /\ Base /\ History(Hist) /\ Stream(lo) /\ (NoRace => Cutover(lo, at))
  BY MasterRests DEF Pos, masterVars

LEMMA Subscribing ==
  ASSUME NEW lo \in Nat, NEW at \in Nat, Pos(lo, at), Subscribe
  PROVE  \E l \in Nat : Pos(l, at)'
<1>1. /\ sub = "upgraded" /\ sub' = "subscribed" /\ UNCHANGED masterVars
      /\ UNCHANGED <<feed, raw, backlog, tail, fpc, image, floor, replica, pulled, aligned>>
      /\ (NoRace => pend = NoBatch)
  BY DEF Subscribe, queues, replicaVars, NoRace
<1>2. /\ Hist' = Hist /\ UNCHANGED <<mseq, mgraph, content, pend, past>>
      /\ Base /\ History(Hist) /\ Stream(lo) /\ (NoRace => Cutover(lo, at))
  BY <1>1, Still
<1>3. feed = <<>> /\ raw = <<>> /\ backlog = <<>> /\ tail = <<>> /\ fpc # "down"
  BY <1>1, <1>2 DEF Stream
<1>4. mseq \in Nat /\ mseq >= 1 /\ (pend = NoBatch => Len(past) = mseq)
  BY <1>2, HistIs
<1> PICK l \in Nat : l = mseq
  BY <1>4
<1>5. Stream(l)'
  BY <1>1, <1>2, <1>3, <1>4, EmptyQueue DEF Stream
<1>6. NoRace => Cutover(l, at)'
  BY <1>1, <1>2, <1>4 DEF Cutover
<1> QED
  BY <1>1, <1>4, <1>5, <1>6, NewPos

(* What the steps that only move a batch from queue to queue leave alone.    *)
Moves == /\ UNCHANGED masterVars
         /\ UNCHANGED <<sub, fpc, image, floor, replica, pulled, aligned>>

LEMMA CutoverStays ==
  ASSUME NEW lo \in Nat, NEW at \in Nat, Pos(lo, at), Moves, tail' = tail
  PROVE  NoRace => Cutover(lo, at)'
<1>1. /\ Hist' = Hist /\ UNCHANGED <<mseq, mgraph, content, pend, past>>
      /\ (NoRace => Cutover(lo, at))
  BY Still DEF Moves
<1> QED
  BY <1>1 DEF Moves, Cutover

LEMMA Sending ==
  ASSUME NEW lo \in Nat, NEW at \in Nat, Pos(lo, at), Send
  PROVE  Pos(lo, at)'
<1>1. /\ sub = "subscribed" /\ feed # <<>> /\ raw' = Append(raw, Head(feed))
      /\ feed' = Tail(feed) /\ Moves /\ UNCHANGED <<backlog, tail>>
  BY DEF Send, Moves, replicaVars
<1>2. /\ Hist' = Hist /\ UNCHANGED <<mseq, mgraph, content, pend, past>>
      /\ Base /\ History(Hist) /\ Stream(lo)
  BY <1>1, Still DEF Moves
<1> DEFINE T == lo + Len(tail) + Len(backlog)
           h == Hist
<1>3. /\ Queue(raw, T, h) /\ Queue(feed, T + Len(raw), h)
      /\ T + Len(raw) + Len(feed) = mseq
  BY <1>1, <1>2 DEF Stream
<1>4. T \in Nat /\ Len(raw) \in Nat /\ Len(feed) \in Nat /\ mseq \in Nat
  BY <1>2, StreamLens DEF Base
<1> HIDE DEF T, h
<1>5. /\ Head(feed) \in Batch /\ Head(feed).seq = T + Len(raw) + 1 /\ Faithful(Head(feed), h)
      /\ Queue(Tail(feed), T + Len(raw) + 1, h) /\ Len(Tail(feed)) = Len(feed) - 1
  BY <1>1, <1>3, <1>4, QueueHead
<1>6. Queue(raw', T, h) /\ Len(raw') = Len(raw) + 1
  BY <1>1, <1>3, <1>4, <1>5, QueueAppend
<1>7. T + Len(raw') = T + Len(raw) + 1
  BY <1>4, <1>6
<1>8. Queue(feed', T + Len(raw'), h) /\ T + Len(raw') + Len(feed') = mseq
  <2>1. T + Len(raw) + 1 + (Len(feed) - 1) = mseq
    BY <1>3, <1>4
  <2> QED
    BY <1>1, <1>5, <1>7, <2>1
<1>9. Stream(lo)'
  <2>1. lo + Len(tail) + Len(backlog) + Len(raw') + Len(feed') <= mseq
    BY <1>4, <1>8 DEF T
  <2> QED
    BY <1>1, <1>2, <1>6, <1>8, <2>1 DEF Stream, T, h, Moves
<1> QED
  BY <1>1, <1>9, CutoverStays, NewPos DEF Moves

LEMMA Buffering ==
  ASSUME NEW lo \in Nat, NEW at \in Nat, Pos(lo, at), Buffer
  PROVE  Pos(lo, at)'
<1>1. /\ raw # <<>> /\ backlog' = Append(backlog, Head(raw)) /\ raw' = Tail(raw)
      /\ Moves /\ UNCHANGED <<feed, tail>> /\ fpc \in {"connected", "pulled"}
  BY DEF Buffer, Moves, replicaVars
<1>2. /\ Hist' = Hist /\ UNCHANGED <<mseq, mgraph, content, pend, past>>
      /\ Base /\ History(Hist) /\ Stream(lo)
  BY <1>1, Still DEF Moves
<1> DEFINE T == lo + Len(tail)
           h == Hist
<1>3. /\ Queue(backlog, T, h) /\ Queue(raw, T + Len(backlog), h)
      /\ Queue(feed, T + Len(backlog) + Len(raw), h)
  BY <1>2 DEF Stream
<1>4. T \in Nat /\ Len(raw) \in Nat /\ Len(backlog) \in Nat /\ mseq \in Nat
  BY <1>2, StreamLens DEF Base
<1> HIDE DEF T, h
<1>5. /\ Head(raw) \in Batch /\ Head(raw).seq = T + Len(backlog) + 1 /\ Faithful(Head(raw), h)
      /\ Queue(Tail(raw), T + Len(backlog) + 1, h) /\ Len(Tail(raw)) = Len(raw) - 1
  BY <1>1, <1>3, <1>4, QueueHead
<1>6. Queue(backlog', T, h) /\ Len(backlog') = Len(backlog) + 1
  BY <1>1, <1>3, <1>4, <1>5, QueueAppend
<1>7. /\ T + Len(backlog') = T + Len(backlog) + 1
      /\ T + Len(backlog') + Len(raw') = T + Len(backlog) + Len(raw)
  BY <1>1, <1>4, <1>5, <1>6
<1>8. Queue(raw', T + Len(backlog'), h) /\ Queue(feed', T + Len(backlog') + Len(raw'), h)
  BY <1>1, <1>3, <1>5, <1>7
<1>9. Stream(lo)'
  <2>1. /\ lo + Len(tail) + Len(backlog') + Len(raw')
             = lo + Len(tail) + Len(backlog) + Len(raw)
    BY <1>7 DEF T
  <2>2. sub # "upgraded" /\ fpc # "down"
    BY <1>1, <1>2 DEF Stream
  <2> QED
    BY <1>1, <1>2, <1>6, <1>8, <2>1, <2>2 DEF Stream, T, h, Moves
<1> QED
  BY <1>1, <1>9, CutoverStays, NewPos DEF Moves

-------------------------------------------------------------------------------
(* The follower.                                                             *)

LEMMA Connecting ==
  ASSUME NEW lo \in Nat, NEW at \in Nat, Pos(lo, at), Connect
  PROVE  Pos(1, at)'
<1>1. /\ fpc = "down" /\ fpc' = "connected" /\ sub' = "upgraded" /\ UNCHANGED masterVars
      /\ UNCHANGED <<feed, raw, backlog, tail>>
  BY DEF Connect, queues
<1>2. /\ Hist' = Hist /\ UNCHANGED <<mseq, past>> /\ Base /\ Stream(lo)
  BY <1>1, Still
<1>3. feed = <<>> /\ raw = <<>> /\ backlog = <<>> /\ tail = <<>>
  BY <1>1, <1>2 DEF Stream
<1>4. mseq \in Nat /\ mseq >= 1 /\ Len(past) >= 1
  BY <1>2, HistIs
<1>5. Stream(1)'
  BY <1>1, <1>2, <1>3, <1>4, EmptyQueue DEF Stream
<1>6. Cutover(1, at)'
  BY <1>1, <1>2, <1>4 DEF Cutover
<1> QED
  BY <1>1, <1>5, <1>6, NewPos

(* A session is over: nothing is on its way any more.                        *)
LEMMA SessionOver ==
  ASSUME NEW lo \in Nat, NEW at \in Nat, Pos(lo, at), UNCHANGED masterVars,
         Session("down") \/ Session("exited")
  PROVE  Pos(1, at)'
<1>1. /\ fpc' \in {"down", "exited"} /\ sub' = "none"
      /\ feed' = <<>> /\ raw' = <<>> /\ backlog' = <<>> /\ tail' = <<>>
  BY DEF Session
<1>2. Hist' = Hist /\ UNCHANGED <<mseq, past>> /\ Base
  BY Still
<1>3. mseq \in Nat /\ mseq >= 1
  BY <1>2, HistIs
<1>4. Stream(1)'
  BY <1>1, <1>2, <1>3, EmptyQueue DEF Stream
<1>5. Cutover(1, at)'
  BY <1>1 DEF Cutover
<1> QED
  BY <1>4, <1>5, NewPos

LEMMA Pulling ==
  ASSUME NEW lo \in Nat, NEW at \in Nat, Pos(lo, at), Pull
  PROVE  \E a \in Nat : Pos(lo, a)'
<1>1. /\ fpc = "connected" /\ fpc' = "pulled" /\ UNCHANGED masterVars
      /\ UNCHANGED <<feed, sub, raw, backlog, tail, floor>>
      /\ image' = [seq |-> mgraph, data |-> content] /\ pulled' = content
      /\ (NoRace => sub # "upgraded")
  BY DEF Pull, queues, NoRace
<1>2. /\ Hist' = Hist /\ UNCHANGED <<mseq, past>> /\ Base /\ Stream(lo)
      /\ (NoRace => Cutover(lo, at))
  BY <1>1, Still
<1>3. /\ Len(past) \in Nat /\ Len(past) >= 1 /\ content = Hist[Len(past)]
      /\ Len(past) = (IF pend = NoBatch THEN mseq ELSE mseq - 1)
      /\ mgraph \in 1..Len(past)
  BY <1>2, HistIs DEF Base
<1> PICK a \in Nat : a = Len(past)
  BY <1>3
<1>4. image'.seq = mgraph /\ image'.data = content
  BY <1>1
<1>5. Stream(lo)'
  BY <1>1, <1>2, <1>3, <1>4 DEF Stream
<1>6. aligned' => mgraph = a
  <2> DEFINE own == IF pend = NoBatch THEN mseq ELSE mseq - 1
  <2>1. aligned' = (mgraph = own)
    BY DEF Pull
  <2>2. own = a
    BY <1>3
  <2> HIDE DEF own
  <2> QED
    BY <2>1, <2>2, Zenon
<1>7. ASSUME NoRace PROVE Cutover(lo, a)'
  <2>1. lo <= Len(past) /\ sub # "upgraded"
    BY <1>1, <1>2, <1>7 DEF Cutover
  <2>2. a \in 1..Len(past) /\ mgraph \in 1..a
    BY <1>3
  <2>3. image'.data = Hist[a] /\ pulled' = Hist[a]
    BY <1>1, <1>3, <1>4
  <2> QED
    BY <1>1, <1>2, <1>4, <1>6, <2>1, <2>2, <2>3 DEF Cutover
<1>8. Pos(lo, a)'
  BY <1>1, <1>5, <1>7, NewPos
<1> QED
  BY <1>8

(* The replica stands at the snapshot, or where the stream begins if the     *)
(* sequence that the snapshot carries is older.                              *)
LEMMA Restoring ==
  ASSUME NEW lo \in Nat, NEW at \in Nat, Pos(lo, at), Restore
  PROVE  \E a \in Nat : Pos(lo, a)'
<1>1. /\ fpc = "pulled" /\ fpc' = "live" /\ UNCHANGED masterVars
      /\ UNCHANGED <<feed, sub, raw, backlog, tail, pulled, aligned>>
      /\ replica' = image.data /\ floor' = image.seq
  BY DEF Restore, queues
<1>2. /\ Hist' = Hist /\ UNCHANGED <<mseq, past>> /\ Base /\ History(Hist) /\ Stream(lo)
      /\ (NoRace => Cutover(lo, at))
  BY <1>1, Still
<1>3. image.seq \in Nat /\ tail = <<>>
  BY <1>1, <1>2 DEF Stream
<1> DEFINE a == IF lo <= image.seq THEN image.seq ELSE lo
<1>4. Stream(lo)'
  BY <1>1, <1>2, <1>3 DEF Stream
<1> PICK b \in Nat : b = a
  BY <1>3
<1>5. ASSUME NoRace PROVE Cutover(lo, b)'
  <2>1. /\ at \in 1..Len(past) /\ lo <= at /\ image.data = Hist[at] /\ pulled = Hist[at]
        /\ image.seq \in 1..at /\ (aligned => image.seq = at) /\ sub # "upgraded"
    BY <1>1, <1>2, <1>5 DEF Cutover
  <2>2. /\ Hist \in Seq(Data) /\ mseq \in Nat /\ mseq >= 1 /\ Len(past) \in Nat
        /\ Len(past) <= mseq /\ Len(Hist) = mseq
    BY <1>2, HistIs
  <2>3. at \in 1..mseq /\ mseq \in 1..mseq /\ lo >= 1
    BY <1>2, <2>1, <2>2, StreamLens
  <2>4. /\ b \in 1..mseq /\ b <= at /\ image.seq <= b /\ lo <= b /\ (lo = b \/ b = image.seq)
        /\ (image.seq = at => b = at)
    BY <1>3, <2>1, <2>2, <2>3
  <2>5. Hist[at] \in Data /\ Hist[mseq] \in Data
    BY <2>2, <2>3
  <2>6. ASSUME NEW k \in Keys
        PROVE  Hist[mseq][k] > b \/ Hist[at][k] = Hist[mseq][k]
    <3>1. Hist[mseq][k] \in Nat
      BY <2>5 DEF Data
    <3>2. Hist[mseq][k] <= at => Hist[at][k] = Hist[mseq][k]
      BY <1>2, <2>2, <2>3 DEF History
    <3> QED
      BY <2>4, <3>1, <3>2
  <2> QED
    BY <1>1, <1>2, <1>3, <2>1, <2>4, <2>5, <2>6 DEF Cutover
<1>6. Pos(lo, b)'
  BY <1>1, <1>4, <1>5, NewPos
<1> QED
  BY <1>6

(* A batch reaches the front: it joins the apply loop's queue or is skipped. *)
LEMMA Delivering ==
  ASSUME NEW lo \in Nat, NEW at \in Nat, Pos(lo, at), fpc = "live", Moves,
         NEW b \in Batch, b.seq = lo + Len(tail) + 1, Faithful(b, Hist), Deliver(b)
  PROVE  \E l \in Nat :
            /\ l >= 1 /\ Queue(tail', l, Hist) /\ l + Len(tail') = lo + Len(tail) + 1
            /\ Len(tail') \in Nat /\ (tail' # <<>> => floor <= l)
            /\ NoRace => Cutover(l, at)'
<1>1. /\ Hist' = Hist /\ UNCHANGED <<mseq, past>> /\ Stream(lo)
      /\ (NoRace => Cutover(lo, at))
  BY Still DEF Moves
<1>2. /\ Queue(tail, lo, Hist) /\ Len(tail) \in Nat /\ lo >= 1 /\ floor \in Nat
      /\ (tail # <<>> => floor <= lo) /\ (tail = <<>> => Len(tail) = 0)
  BY <1>1, StreamLens DEF Stream
<1>3. CASE b.seq > floor
  <2>1. tail' = Append(tail, b)
    BY <1>3 DEF Deliver
  <2>2. Queue(tail', lo, Hist) /\ Len(tail') = Len(tail) + 1 /\ tail' # <<>>
    BY <1>2, <2>1, QueueAppend
  <2>3. floor <= lo
    BY <1>2, <1>3
  <2>4. ASSUME NoRace PROVE Cutover(lo, at)'
    <3>1. Cutover(lo, at)
      BY <1>1, <2>4
    <3>2. lo = at
      BY <2>3, <3>1 DEF Cutover
    <3> QED
      BY <1>1, <3>1, <3>2 DEF Cutover, Moves
  <2> QED
    BY <1>2, <2>2, <2>3, <2>4
<1>4. CASE b.seq <= floor
  <2>1. tail' = tail
    BY <1>2, <1>4 DEF Deliver
  <2>2. tail = <<>> /\ lo + 1 <= floor
    BY <1>2, <1>4
  <2>3. Queue(tail', lo + 1, Hist)
    BY <2>1, <2>2, EmptyQueue
  <2>4. ASSUME NoRace PROVE Cutover(lo + 1, at)'
    <3>1. Cutover(lo, at)
      BY <1>1, <2>4
    <3>2. floor <= at
      BY <3>1 DEF Cutover
    <3>3. lo + 1 <= at /\ lo # at
      BY <1>2, <2>2, <3>2
    <3> QED
      BY <1>1, <2>1, <2>2, <3>1, <3>2, <3>3 DEF Cutover, Moves
  <2> QED
    BY <1>2, <2>1, <2>2, <2>3, <2>4
<1> QED
  BY <1>2, <1>3, <1>4

LEMMA Draining ==
  ASSUME NEW lo \in Nat, NEW at \in Nat, Pos(lo, at), DrainBacklog
  PROVE  \E l \in Nat : Pos(l, at)'
<1>1. /\ fpc = "live" /\ backlog # <<>> /\ Deliver(Head(backlog)) /\ backlog' = Tail(backlog)
      /\ Moves /\ UNCHANGED <<feed, raw>>
  BY DEF DrainBacklog, Moves, replicaVars
<1>2. /\ Hist' = Hist /\ UNCHANGED <<mseq, past>> /\ Base /\ Stream(lo)
  BY <1>1, Still DEF Moves
<1> DEFINE T == lo + Len(tail)
           h == Hist
<1>3. /\ Queue(backlog, T, h) /\ Queue(raw, T + Len(backlog), h)
      /\ Queue(feed, T + Len(backlog) + Len(raw), h)
  BY <1>2 DEF Stream
<1>4. T \in Nat /\ Len(raw) \in Nat /\ Len(backlog) \in Nat /\ mseq \in Nat
  BY <1>2, StreamLens DEF Base
<1> HIDE DEF T, h
<1>5. /\ Head(backlog) \in Batch /\ Head(backlog).seq = T + 1 /\ Faithful(Head(backlog), h)
      /\ Queue(Tail(backlog), T + 1, h) /\ Len(Tail(backlog)) = Len(backlog) - 1
  BY <1>1, <1>3, <1>4, QueueHead
<1>6. PICK l \in Nat :
            /\ l >= 1 /\ Queue(tail', l, Hist) /\ l + Len(tail') = lo + Len(tail) + 1
            /\ Len(tail') \in Nat /\ (tail' # <<>> => floor <= l)
            /\ NoRace => Cutover(l, at)'
  <2> DEFINE b == Head(backlog)
  <2>1. b \in Batch /\ b.seq = lo + Len(tail) + 1 /\ Faithful(b, Hist) /\ Deliver(b)
    BY <1>1, <1>5 DEF T, h
  <2> HIDE DEF b
  <2> QED
    BY <1>1, <2>1, Delivering
<1>7. /\ l + Len(tail') = T + 1
      /\ l + Len(tail') + Len(backlog') = T + Len(backlog)
  BY <1>1, <1>4, <1>5, <1>6 DEF T
<1>8. /\ Queue(backlog', l + Len(tail'), h)
      /\ Queue(raw', l + Len(tail') + Len(backlog'), h)
      /\ Queue(feed', l + Len(tail') + Len(backlog') + Len(raw'), h)
  BY <1>1, <1>3, <1>5, <1>7
<1>9. Stream(l)'
  <2>1. l + Len(tail') + Len(backlog') = lo + Len(tail) + Len(backlog)
    BY <1>7 DEF T
  <2>2. sub # "upgraded"
    BY <1>1, <1>2 DEF Stream
  <2> QED
    BY <1>1, <1>2, <1>6, <1>8, <2>1, <2>2 DEF Stream, h, Moves
<1>10. Pos(l, at)'
  BY <1>1, <1>6, <1>9, NewPos DEF Moves
<1> QED
  BY <1>10

LEMMA Forwarding ==
  ASSUME NEW lo \in Nat, NEW at \in Nat, Pos(lo, at), Forward
  PROVE  \E l \in Nat : Pos(l, at)'
<1>1. /\ fpc = "live" /\ backlog = <<>> /\ raw # <<>> /\ Deliver(Head(raw)) /\ raw' = Tail(raw)
      /\ Moves /\ UNCHANGED <<feed, backlog>>
  BY DEF Forward, Moves, replicaVars
<1>2. /\ Hist' = Hist /\ UNCHANGED <<mseq, past>> /\ Base /\ Stream(lo)
  BY <1>1, Still DEF Moves
<1> DEFINE T == lo + Len(tail)
           h == Hist
<1>3. T \in Nat /\ Len(raw) \in Nat /\ Len(backlog) = 0 /\ mseq \in Nat
  BY <1>1, <1>2, StreamLens DEF Base
<1>4. Queue(raw, T, h) /\ Queue(feed, T + Len(raw), h)
  <2>1. /\ Queue(raw, T + Len(backlog), h) /\ Queue(feed, T + Len(backlog) + Len(raw), h)
    BY <1>2 DEF Stream
  <2>2. T + Len(backlog) = T
    BY <1>3
  <2> QED
    BY <2>1, <2>2
<1> HIDE DEF T, h
<1>5. /\ Head(raw) \in Batch /\ Head(raw).seq = T + 1 /\ Faithful(Head(raw), h)
      /\ Queue(Tail(raw), T + 1, h) /\ Len(Tail(raw)) = Len(raw) - 1
  BY <1>1, <1>3, <1>4, QueueHead
<1>6. PICK l \in Nat :
            /\ l >= 1 /\ Queue(tail', l, Hist) /\ l + Len(tail') = lo + Len(tail) + 1
            /\ Len(tail') \in Nat /\ (tail' # <<>> => floor <= l)
            /\ NoRace => Cutover(l, at)'
  <2> DEFINE b == Head(raw)
  <2>1. b \in Batch /\ b.seq = lo + Len(tail) + 1 /\ Faithful(b, Hist) /\ Deliver(b)
    BY <1>1, <1>5 DEF T, h
  <2> HIDE DEF b
  <2> QED
    BY <1>1, <2>1, Delivering
<1>7. /\ l + Len(tail') + Len(backlog') = T + 1
      /\ l + Len(tail') + Len(backlog') + Len(raw') = T + Len(raw)
  BY <1>1, <1>3, <1>5, <1>6 DEF T
<1>8. /\ Queue(backlog', l + Len(tail'), h)
      /\ Queue(raw', l + Len(tail') + Len(backlog'), h)
      /\ Queue(feed', l + Len(tail') + Len(backlog') + Len(raw'), h)
  BY <1>1, <1>4, <1>5, <1>7, EmptyQueue
<1>9. Stream(l)'
  <2>1. l + Len(tail') + Len(backlog') + Len(raw')
          = lo + Len(tail) + Len(backlog) + Len(raw)
    BY <1>3, <1>7 DEF T
  <2>2. sub # "upgraded"
    BY <1>1, <1>2 DEF Stream
  <2> QED
    BY <1>1, <1>2, <1>6, <1>8, <2>1, <2>2 DEF Stream, h, Moves
<1>10. Pos(l, at)'
  BY <1>1, <1>6, <1>9, NewPos DEF Moves
<1> QED
  BY <1>10

LEMMA Applying ==
  ASSUME NEW lo \in Nat, NEW at \in Nat, Pos(lo, at), Apply
  PROVE  Pos(lo + 1, at + 1)'
<1>1. /\ fpc = "live" /\ tail # <<>> /\ replica' = Applied(Head(tail), replica)
      /\ tail' = Tail(tail) /\ UNCHANGED masterVars
      /\ UNCHANGED <<feed, sub, raw, backlog, fpc, image, floor, pulled, aligned>>
  BY DEF Apply
<1>2. /\ Hist' = Hist /\ UNCHANGED <<mseq, past>> /\ Base /\ History(Hist) /\ Stream(lo)
      /\ (NoRace => Cutover(lo, at))
  BY <1>1, Still
<1> DEFINE h == Hist
           b == Head(tail)
<1>3. /\ Len(tail) \in Nat /\ Len(backlog) \in Nat /\ Len(raw) \in Nat /\ Len(feed) \in Nat
      /\ lo >= 1 /\ Queue(tail, lo, h) /\ floor \in Nat /\ floor <= lo
  BY <1>1, <1>2, StreamLens DEF Stream
<1>4. b.seq = lo + 1 /\ Faithful(b, h) /\ Queue(tail', lo + 1, h) /\ Len(tail') = Len(tail) - 1
  <2> HIDE DEF h
  <2> QED
    BY <1>1, <1>3, QueueHead
<1>5. lo + 1 + Len(tail') = lo + Len(tail)
  BY <1>3, <1>4
<1>6. Stream(lo + 1)'
  BY <1>1, <1>2, <1>3, <1>4, <1>5 DEF Stream
<1>7. ASSUME NoRace PROVE Cutover(lo + 1, at + 1)'
  <2>1. /\ lo = at /\ at \in 1..mseq /\ replica \in Data /\ sub # "upgraded"
        /\ (\A k \in Keys : h[mseq][k] > at \/ replica[k] = h[mseq][k])
        /\ (aligned => floor >= 1 /\ replica = h[at] /\ pulled = h[floor])
    BY <1>1, <1>2, <1>7 DEF Cutover
  <2>2. h \in Seq(Data) /\ mseq \in Nat /\ Len(h) = mseq
    BY <1>2, HistIs
  <2>3. /\ b.seq = at + 1 /\ at + 1 \in 1..mseq /\ h[at + 1] = Applied(b, h[at])
        /\ mseq \in 1..mseq
    BY <1>4, <2>1, <2>2 DEF Faithful
  <2>4. replica' \in Data /\ \A k \in Keys :
           replica'[k] = IF k = b.key THEN at + 1 ELSE replica[k]
    BY <1>1, <2>1, <2>3 DEF Applied, Data
  <2> HIDE DEF h, b
  <2>5. ASSUME NEW k \in Keys
        PROVE  h[mseq][k] > at + 1 \/ replica'[k] = h[mseq][k]
    <3>1. h[mseq][k] \in Nat /\ h[at][k] \in Nat
      <4>1. h[mseq] \in Data /\ h[at] \in Data
        BY <2>1, <2>2, <2>3
      <4> QED
        BY <4>1 DEF Data
    <3>2. CASE h[mseq][k] = at + 1
      <4>1. h[at + 1][k] = at + 1
        BY <1>2, <2>2, <2>3, <3>2 DEF History, h
      <4>2. h[at][k] <= at
        BY <1>2, <2>1, <2>2 DEF History, h
      <4>3. h[at + 1][k] = IF k = b.key THEN b.seq ELSE h[at][k]
        BY <2>3 DEF Applied
      <4> QED
        BY <2>4, <3>1, <3>2, <4>1, <4>2, <4>3
    <3>3. CASE h[mseq][k] <= at
      <4>1. replica[k] = h[mseq][k]
        BY <2>1, <3>1, <3>3
      <4>2. k # b.key
        <5>1. h[at + 1][k] <= h[mseq][k]
          BY <1>2, <2>2, <2>3 DEF History, h
        <5>2. h[at + 1][k] = IF k = b.key THEN b.seq ELSE h[at][k]
          BY <2>3 DEF Applied
        <5> QED
          BY <2>3, <3>1, <3>3, <5>1, <5>2
      <4> QED
        BY <2>4, <4>1, <4>2
    <3> QED
      BY <3>1, <3>2, <3>3
  <2>6. aligned => replica' = h[at + 1]
    BY <1>1, <2>1, <2>3 DEF b
  <2>7. floor <= at + 1
    BY <1>3, <2>1
  <2> QED
    BY <1>1, <1>2, <2>1, <2>3, <2>4, <2>5, <2>6, <2>7 DEF Cutover, h
<1> QED
  BY <1>1, <1>6, <1>7, NewPos

-------------------------------------------------------------------------------
LEMMA InitInv == Init => Inv
<1> SUFFICES ASSUME Init PROVE Pos(1, 1)
  BY DEF Inv
<1>1. /\ mseq = 1 /\ mgraph = 1 /\ content = Empty /\ pend = NoBatch /\ past = <<Empty>>
      /\ feed = <<>> /\ sub = "none" /\ raw = <<>> /\ backlog = <<>> /\ tail = <<>>
      /\ fpc = "down"
  BY DEF Init
<1>2. Empty \in Data /\ \A k \in Keys : Empty[k] = 0
  BY DEF Empty, Data
<1>3. past \in Seq(Data) /\ Len(past) = 1 /\ past[1] = Empty
  BY <1>1, <1>2
<1>4. Base
  BY <1>1, <1>3 DEF Base
<1>5. Hist = past
  BY <1>1 DEF Hist
<1>6. History(past)
  <2>1. \A n \in 1..1 : n = 1
    OBVIOUS
  <2>2. \A n \in 1..Len(past) : past[n] = Empty /\ n = 1
    BY <1>3, <2>1
  <2> QED
    BY <1>2, <1>3, <2>2 DEF History
<1>7. Stream(1)
  BY <1>1, EmptyQueue DEF Stream
<1>8. Cutover(1, 1)
  BY <1>1 DEF Cutover
<1> QED
  BY <1>4, <1>5, <1>6, <1>7, <1>8 DEF Pos

LEMMA StepInv == Inv /\ [Next]_vars => Inv'
<1> SUFFICES ASSUME Inv, [Next]_vars PROVE Inv'
  OBVIOUS
<1> PICK lo \in Nat, at \in Nat : Pos(lo, at)
  BY DEF Inv
<1>1. SUFFICES \E l \in Nat, a \in Nat : Pos(l, a)'
  BY DEF Inv
<1>2. ASSUME NEW k \in Keys, GraphWrite(k) PROVE Pos(lo, at)'
  BY <1>2, Logging DEF GraphWrite
<1>3. CASE RecordQuery
  BY <1>3, Logging DEF RecordQuery
<1>4. /\ Base /\ History(Hist) /\ Len(past) \in Nat
  BY HistIs DEF Pos
<1>5. CASE Publish
  <2>1. /\ pend # NoBatch /\ Published
        /\ UNCHANGED <<mseq, feed, sub, raw, backlog, tail>>
        /\ UNCHANGED <<fpc, image, floor, rseq, replica, pulled, aligned>>
    BY <1>5 DEF Publish, queues, replicaVars
  <2>2. /\ Base' /\ Hist' = Hist /\ History(Hist)' /\ Len(past') = Len(past) + 1
    BY <1>4, <2>1, MasterPublishes
  <2>3. Len(past') \in Nat /\ Len(past') >= Len(past)
    BY <1>4, <2>2
  <2>4. Pos(lo, at)'
    BY <2>1, <2>2, <2>3, Closing
  <2> QED
    BY <2>4
<1>6. ASSUME UNCHANGED masterVars
      PROVE  /\ Base' /\ Hist' = Hist /\ History(Hist)' /\ UNCHANGED mseq
             /\ Len(past') \in Nat /\ Len(past') >= Len(past)
  <2>1. Base' /\ Hist' = Hist /\ History(Hist)'
    BY <1>4, <1>6, MasterRests
  <2>2. UNCHANGED <<mseq, past>>
    BY <1>6 DEF masterVars
  <2> QED
    BY <1>4, <2>1, <2>2
<1>7. CASE LagCloses
  <2>1. /\ sub = "lagged" /\ sub' = "closed" /\ UNCHANGED masterVars
        /\ UNCHANGED <<feed, raw, backlog, tail>>
        /\ UNCHANGED <<fpc, image, floor, rseq, replica, pulled, aligned>>
    BY <1>7 DEF LagCloses, queues, replicaVars
  <2>2. Pos(lo, at)'
    BY <1>6, <2>1, Closing
  <2> QED
    BY <2>2
<1>8. CASE ConnectionLost \/ MasterRestarts
  <2>1. /\ sub # "none" /\ sub' = "closed" /\ feed' = <<>>
        /\ \E n \in 0..Len(raw) : raw' = SubSeq(raw, 1, n)
        /\ UNCHANGED <<backlog, tail>>
        /\ UNCHANGED <<fpc, image, floor, rseq, replica, pulled, aligned>>
    BY <1>8 DEF ConnectionLost, MasterRestarts, Lose, replicaVars
  <2>2. UNCHANGED masterVars \/ (pend # NoBatch /\ Published /\ UNCHANGED mseq)
    BY <1>8 DEF ConnectionLost, MasterRestarts
  <2>3. CASE pend # NoBatch /\ Published /\ UNCHANGED mseq
    <3>1. /\ Base' /\ Hist' = Hist /\ History(Hist)' /\ Len(past') = Len(past) + 1
      BY <1>4, <2>3, MasterPublishes
    <3>2. Len(past') \in Nat /\ Len(past') >= Len(past)
      BY <1>4, <3>1
    <3>3. Pos(lo, at)'
      BY <2>1, <2>3, <3>1, <3>2, Closing
    <3> QED
      BY <3>3
  <2>4. CASE UNCHANGED masterVars
    <3>1. Pos(lo, at)'
      BY <1>6, <2>1, <2>4, Closing
    <3> QED
      BY <3>1
  <2> QED
    BY <2>2, <2>3, <2>4
<1>9. CASE BootstrapFails \/ ApplyRefused \/ StreamEnds
  <2>1. UNCHANGED masterVars /\ (Session("down") \/ Session("exited"))
    BY <1>9 DEF BootstrapFails, ApplyRefused, StreamEnds, Resync
  <2>2. Pos(1, at)'
    BY <2>1, SessionOver
  <2> QED
    BY <2>2
<1>10. CASE Subscribe \/ Send \/ Buffer \/ DrainBacklog \/ Forward
  <2>1. \E l \in Nat : Pos(l, at)'
    BY <1>10, Subscribing, Sending, Buffering, Draining, Forwarding
  <2> QED
    BY <2>1
<1>11. CASE Connect \/ Pull \/ Restore \/ Apply
  <2>1. CASE Connect
    BY <2>1, Connecting
  <2>2. CASE Pull \/ Restore
    BY <2>2, Pulling, Restoring
  <2>3. CASE Apply
    BY <2>3, Applying
  <2> QED
    BY <1>11, <2>1, <2>2, <2>3
<1>12. CASE UNCHANGED vars
  <2>1. /\ UNCHANGED masterVars /\ UNCHANGED <<feed, raw, sub, backlog, tail>>
        /\ UNCHANGED <<fpc, image, floor, rseq, replica, pulled, aligned>>
    BY <1>12 DEF vars, queues, replicaVars
  <2>2. Pos(lo, at)'
    BY <1>6, <2>1, Closing
  <2> QED
    BY <2>2
<1> QED
  BY <1>2, <1>3, <1>5, <1>7, <1>8, <1>9, <1>10, <1>11, <1>12
     DEF Next, Master, Pipeline, Faults

LEMMA AlwaysInv == Spec => []Inv
  BY InitInv, StepInv, PTL DEF Spec

LEMMA QueuesJoin ==
  ASSUME NEW q, NEW r, NEW from \in Nat, NEW h, Queue(q, from, h), Queue(r, from + Len(q), h)
  PROVE  Queue(q \o r, from, h) /\ Len(q \o r) = Len(q) + Len(r)
<1>1. q \in Seq(Batch) /\ r \in Seq(Batch) /\ Len(q) \in Nat /\ Len(r) \in Nat
  BY DEF Queue
<1>2. q \o r \in Seq(Batch) /\ Len(q \o r) = Len(q) + Len(r)
  BY <1>1
<1>3. ASSUME NEW i \in 1..Len(q \o r)
      PROVE  (q \o r)[i].seq = from + i /\ Faithful((q \o r)[i], h)
  <2>1. CASE i \in 1..Len(q)
    <3>1. (q \o r)[i] = q[i]
      BY <1>1, <1>2, <2>1
    <3> QED
      BY <2>1, <3>1 DEF Queue
  <2>2. CASE i \notin 1..Len(q)
    <3>1. /\ i - Len(q) \in 1..Len(r) /\ (q \o r)[i] = r[i - Len(q)]
          /\ from + Len(q) + (i - Len(q)) = from + i
      BY <1>1, <1>2, <2>2
    <3>2. /\ r[i - Len(q)].seq = from + Len(q) + (i - Len(q))
          /\ Faithful(r[i - Len(q)], h)
      BY <3>1 DEF Queue
    <3> QED
      BY <3>1, <3>2
  <2> QED
    BY <2>1, <2>2
<1> QED
  BY <1>2, <1>3 DEF Queue

(* Whatever the schedule, the subscription windows included, the batches on  *)
(* their way through forward_tail's queues are in the master's order: a      *)
(* backlog is drained before live batches are forwarded, a receiver that     *)
(* lagged is cut off and a lost connection loses an end of what it carried.  *)
THEOREM BatchesInOrder == Spec => []InOrder
<1>1. Inv => InOrder
  <2> SUFFICES ASSUME Inv PROVE InOrder
    OBVIOUS
  <2> PICK lo \in Nat, at \in Nat : Pos(lo, at)
    BY DEF Inv
  <2> DEFINE h == Hist
  <2>1. /\ Queue(tail, lo, h)
        /\ Queue(backlog, lo + Len(tail), h)
        /\ Queue(raw, lo + Len(tail) + Len(backlog), h)
        /\ Queue(feed, lo + Len(tail) + Len(backlog) + Len(raw), h)
    BY DEF Pos, Stream
  <2>2. Len(tail) \in Nat /\ Len(backlog) \in Nat /\ Len(raw) \in Nat
    BY StreamLens DEF Pos
  <2> HIDE DEF h
  <2>3. Queue(tail \o backlog, lo, h) /\ Len(tail \o backlog) = Len(tail) + Len(backlog)
    BY <2>1, QueuesJoin
  <2>4. /\ Queue(tail \o backlog \o raw, lo, h)
        /\ Len(tail \o backlog \o raw) = Len(tail) + Len(backlog) + Len(raw)
    <3>1. lo + Len(tail) + Len(backlog) = lo + Len(tail \o backlog)
      BY <2>2, <2>3
    <3> QED
      BY <2>1, <2>3, <3>1, QueuesJoin
  <2> DEFINE s == tail \o backlog \o raw \o feed
  <2>5. Queue(s, lo, h)
    <3>1. lo + Len(tail) + Len(backlog) + Len(raw) = lo + Len(tail \o backlog \o raw)
      BY <2>2, <2>4
    <3> QED
      BY <2>1, <2>4, <3>1, QueuesJoin
  <2> HIDE DEF s
  <2>6. ASSUME NEW i \in 1..Len(s), NEW j \in 1..Len(s), i < j
        PROVE  s[i].seq < s[j].seq
    <3>1. s[i].seq = lo + i /\ s[j].seq = lo + j
      BY <2>5 DEF Queue
    <3> QED
      BY <2>6, <3>1
  <2> QED
    BY <2>6 DEF InOrder, s
<1> QED
  BY <1>1, AlwaysInv, PTL

(* "nothing committed on the master during the pull is ever missed", if the  *)
(* subscription is there before the snapshot is taken and does not fall      *)
(* between a commit's notification and its publication: a live follower      *)
(* that has received everything has the master's data, also from a snapshot  *)
(* that carries an older sequence than its data.                             *)
THEOREM NoBatchMissed ==
  ASSUME NoRace
  PROVE  Spec => []NothingMissed
<1>1. Inv => NothingMissed
  <2> SUFFICES ASSUME Inv, fpc = "live", sub = "subscribed", pend = NoBatch,
                      feed = <<>>, raw = <<>>, backlog = <<>>, tail = <<>>
               PROVE  replica = content
    BY DEF NothingMissed
  <2> PICK lo \in Nat, at \in Nat : Pos(lo, at)
    BY DEF Inv
  <2>1. Base /\ History(Hist) /\ Stream(lo) /\ Cutover(lo, at)
    BY DEF Pos
  <2>2. /\ Hist \in Seq(Data) /\ mseq \in 1..mseq /\ mseq \in Nat /\ Len(Hist) = mseq
        /\ content = Hist[mseq] /\ content \in Data
    BY <2>1, HistIs
  <2>3. lo = mseq
    BY <2>1, <2>2, StreamLens DEF Stream
  <2>4. at = mseq /\ replica \in Data
        /\ \A k \in Keys : Hist[mseq][k] > at \/ replica[k] = Hist[mseq][k]
    BY <2>1, <2>2, <2>3 DEF Cutover
  <2>5. \A k \in Keys : content[k] <= mseq /\ content[k] \in Nat
    BY <2>1, <2>2 DEF History, Data
  <2>6. ASSUME NEW k \in Keys PROVE replica[k] = content[k]
    <3>1. content[k] > mseq \/ replica[k] = content[k]
      BY <2>2, <2>4
    <3> QED
      BY <2>2, <2>5, <3>1
  <2> QED
    BY <2>2, <2>4, <2>6 DEF Data
<1> QED
  BY <1>1, AlwaysInv, PTL

(* A live replica of a snapshot that carries the engine's own sequence       *)
(* serves a state that the master published, none older than the snapshot:   *)
(* apply_replicated takes no batch twice and none out of turn, whatever was  *)
(* lost, cut off or refused.                                                 *)
THEOREM ReplicaIsAPrefix ==
  ASSUME NoRace
  PROVE  Spec => []PrefixConsistent
<1>1. Inv => PrefixConsistent
  <2> SUFFICES ASSUME Inv, fpc = "live", aligned
               PROVE  /\ \/ replica = Applied(pend, content)
                         \/ \E n \in 1..Len(past) : replica = past[n]
                      /\ \A k \in Keys : replica[k] >= pulled[k]
    BY DEF PrefixConsistent
  <2> PICK lo \in Nat, at \in Nat : Pos(lo, at)
    BY DEF Inv
  <2>1. Base /\ History(Hist) /\ Stream(lo) /\ Cutover(lo, at)
    BY DEF Pos
  <2>2. /\ at \in 1..mseq /\ floor <= at /\ floor >= 1 /\ floor \in Nat
        /\ replica = Hist[at] /\ pulled = Hist[floor]
    BY <2>1 DEF Cutover, Stream
  <2>3. /\ Hist \in Seq(Data) /\ mseq \in Nat /\ Len(Hist) = mseq /\ Len(past) \in Nat
        /\ (\A n \in 1..Len(past) : Hist[n] = past[n])
        /\ (pend = NoBatch => Len(past) = mseq)
        /\ (pend # NoBatch => Hist[mseq] = Applied(pend, content) /\ Len(past) = mseq - 1)
    BY <2>1, HistIs
  <2>4. \A k \in Keys : replica[k] >= pulled[k]
    <3>1. ASSUME NEW k \in Keys PROVE replica[k] >= pulled[k]
      <4>1. at \in 1..Len(Hist) /\ floor \in 1..at /\ floor \in 1..Len(Hist)
        BY <2>2, <2>3
      <4>2. Hist[floor][k] <= Hist[at][k]
        BY <2>1, <4>1 DEF History
      <4>3. Hist[floor][k] \in Nat /\ Hist[at][k] \in Nat
        <5>1. Hist[floor] \in Data /\ Hist[at] \in Data
          BY <2>3, <4>1
        <5> QED
          BY <5>1 DEF Data
      <4> QED
        BY <2>2, <4>2, <4>3
    <3> QED
      BY <3>1
  <2>5. CASE at \in 1..Len(past)
    <3>1. replica = past[at]
      BY <2>2, <2>3, <2>5
    <3> QED
      BY <2>4, <2>5, <3>1
  <2>6. CASE at \notin 1..Len(past)
    <3>1. at = mseq /\ pend # NoBatch
      BY <2>2, <2>3, <2>6
    <3> QED
      BY <2>2, <2>3, <2>4, <3>1
  <2> QED
    BY <2>5, <2>6
<1> QED
  BY <1>1, AlwaysInv, PTL
===============================================================================
