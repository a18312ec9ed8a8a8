------------------------------ MODULE Replication ------------------------------
(****************************************************************************)
(* Raw-WAL replication, `serve --follow` (web/src/follow.rs, the /ws/wal    *)
(* and /snapshot handlers of web/src/server.rs, the CLI's follow loop).     *)
(*                                                                          *)
(* A master commits; each commit is handed to the WAL observer after its    *)
(* fsync and before it is published.  A follower opens the socket, pulls a  *)
(* snapshot, restores it and applies the batches past the snapshot.  The    *)
(* database is abstracted to the sequence of the last write of each key:    *)
(* every write is told apart from every other.  One follower is enough:     *)
(* followers share nothing but the master.                                  *)
(*                                                                          *)
(* The master keeps two sequences: the engine's, one per batch, and the     *)
(* graph's, one per graph write (with_write_unstamped moves only the        *)
(* former).  A batch carries the engine's; a snapshot carries the graph's.  *)
(****************************************************************************)
EXTENDS Naturals, Sequences

CONSTANTS
    Keys,
    FeedCap,      \* CHANGE_FEED_CAPACITY: batches the broadcast keeps
    RawCap,       \* the socket's buffers and REPLICATION_QUEUE (raw_tx)
    BacklogCap,   \* PULL_BACKLOG_OPS; a batch here is one op
    TailCap,      \* REPLICATION_QUEUE (tail_tx)
    Unstamped,    \* whether the master records queries in its history
    Races,        \* which of the two windows below the schedule may hit
    MaxSeq,       \* bound on the master's batches
    MaxLosses     \* bound on lost connections, failed pulls, master restarts

NoKey == "no graph key"

(* "lateSubscribe": the snapshot is taken before the task that the upgrade   *)
(* spawned has subscribed.  "midCommit": it subscribes between a commit's    *)
(* notification and its publication.                                         *)
ASSUME ReplicationAssumption ==
    /\ NoKey \notin Keys
    /\ {FeedCap, RawCap, BacklogCap, TailCap} \subseteq Nat \ {0}
    /\ Unstamped \in BOOLEAN
    /\ Races \subseteq {"lateSubscribe", "midCommit"}
    /\ MaxSeq \in Nat /\ MaxLosses \in Nat

VARIABLES
    mseq,       \* the master's engine sequence, last batch logged
    mgraph,     \* graph::read_commit_seq, as published
    content,    \* the master's published data
    pend,       \* the batch logged and notified, not yet published; or none
    feed,       \* what the follower's broadcast receiver has not read yet
    sub,        \* the master's end of the socket, ws_wal_task
    raw,        \* socket and raw queue, as one bounded stream
    backlog,    \* forward_tail's backlog
    tail,       \* the apply loop's queue
    fpc,        \* the follower
    image,      \* the snapshot body pulled
    floor,      \* the cutover
    rseq,       \* the replica's engine sequence
    replica,    \* the replica's data
    losses,     \* connections lost so far
    past,       \* history: the contents the master has published, one a batch
    pulled,     \* history: the data of the image
    aligned     \* history: the image carries the engine's own sequence

masterVars == <<mseq, mgraph, content, pend, past>>
queues == <<raw, backlog, tail>>
replicaVars == <<fpc, image, floor, rseq, replica, pulled, aligned>>
vars == <<masterVars, feed, sub, queues, replicaVars, losses>>

NoBatch == [seq |-> 0, key |-> NoKey, stamped |-> FALSE]
Batch == [seq : 1..MaxSeq, key : Keys \cup {NoKey}, stamped : BOOLEAN]
Content == [Keys -> 0..MaxSeq]
Empty == [k \in Keys |-> 0]
NoImage == [seq |-> 0, data |-> Empty]

(* A batch's ops over a content.                                             *)
Applied(b, c) == [k \in Keys |-> IF k = b.key THEN b.seq ELSE c[k]]

(* A fresh store has committed once, its own bootstrap (Database::init).     *)
Init ==
    /\ mseq = 1 /\ mgraph = 1
    /\ content = Empty
    /\ pend = NoBatch
    /\ past = <<Empty>>
    /\ feed = <<>> /\ sub = "none"
    /\ raw = <<>> /\ backlog = <<>> /\ tail = <<>>
    /\ fpc = "down"
    /\ image = NoImage
    /\ floor = 0 /\ rseq = 1
    /\ replica = Empty
    /\ losses = 0
    /\ pulled = Empty /\ aligned = TRUE

-------------------------------------------------------------------------------
(* The master.                                                               *)

(* The observer's broadcast send: a receiver that would keep more than the   *)
(* channel's capacity has lagged.                                            *)
Broadcast(b) ==
    CASE sub # "subscribed" -> UNCHANGED <<feed, sub>>
      [] sub = "subscribed" /\ Len(feed) < FeedCap ->
            feed' = Append(feed, b) /\ UNCHANGED sub
      [] OTHER -> feed' = <<>> /\ sub' = "lagged"

(* durable_commit, fsync and notification ...                                *)
LogAndNotify(k, stamped) ==
    /\ pend = NoBatch
    /\ mseq < MaxSeq
    /\ mseq' = mseq + 1
    /\ pend' = [seq |-> mseq + 1, key |-> k, stamped |-> stamped]
    /\ Broadcast(pend')
    /\ UNCHANGED <<mgraph, content, past, queues, replicaVars, losses>>

GraphWrite(k) == LogAndNotify(k, TRUE)

(* record_query: a batch that writes nothing a snapshot holds and leaves the *)
(* graph's sequence where it is.                                             *)
RecordQuery == Unstamped /\ LogAndNotify(NoKey, FALSE)

Published ==
    /\ content' = Applied(pend, content)
    /\ mgraph' = IF pend.stamped THEN mgraph + 1 ELSE mgraph
    /\ past' = Append(past, content')
    /\ pend' = NoBatch

(* ... and publication to the memtable.                                      *)
Publish ==
    /\ pend # NoBatch
    /\ Published
    /\ UNCHANGED <<mseq, feed, sub, queues, replicaVars, losses>>

-------------------------------------------------------------------------------
(* The master's end of the socket.                                           *)

(* ws_wal_task runs some time after the upgrade's response has been sent.    *)
Subscribe ==
    /\ sub = "upgraded"
    /\ pend = NoBatch \/ "midCommit" \in Races
    /\ sub' = "subscribed"
    /\ UNCHANGED <<masterVars, feed, queues, replicaVars, losses>>

Send ==
    /\ sub = "subscribed"
    /\ feed # <<>>
    /\ Len(raw) < RawCap
    /\ raw' = Append(raw, Head(feed))
    /\ feed' = Tail(feed)
    /\ UNCHANGED <<masterVars, sub, backlog, tail, replicaVars, losses>>

(* Slip: a receiver that fell behind goes on from the oldest batch it kept.  *)
LagIgnored ==
    /\ sub = "lagged"
    /\ sub' = "subscribed"
    /\ UNCHANGED <<masterVars, feed, queues, replicaVars, losses>>

(* RecvError::Lagged: the socket is closed, what it had not sent is gone.    *)
LagCloses ==
    /\ sub = "lagged"
    /\ sub' = "closed"
    /\ UNCHANGED <<masterVars, feed, queues, replicaVars, losses>>

(* The connection breaks; of what is in flight some beginning arrives.       *)
Lose ==
    /\ losses < MaxLosses
    /\ sub \in {"upgraded", "subscribed", "lagged"}
    /\ losses' = losses + 1
    /\ sub' = "closed"
    /\ feed' = <<>>
    /\ \E n \in 0..Len(raw) : raw' = SubSeq(raw, 1, n)

ConnectionLost ==
    /\ Lose
    /\ UNCHANGED <<masterVars, backlog, tail, replicaVars>>

(* The master stops and reopens: a batch it had logged is in its log.        *)
MasterRestarts ==
    /\ Lose
    /\ IF pend # NoBatch
          THEN Published /\ UNCHANGED mseq
          ELSE UNCHANGED masterVars
    /\ UNCHANGED <<backlog, tail, replicaVars>>

-------------------------------------------------------------------------------
(* The follower's bootstrap.                                                 *)

Connect ==
    /\ fpc = "down"
    /\ fpc' = "connected"
    /\ sub' = "upgraded"
    /\ UNCHANGED <<masterVars, feed, queues, image, floor, rseq, replica,
                   pulled, aligned, losses>>

(* GET /snapshot: Database::snapshot in one read transaction.                *)
Pull ==
    /\ fpc = "connected"
    /\ sub # "upgraded" \/ "lateSubscribe" \in Races
    /\ fpc' = "pulled"
    /\ image' = [seq |-> mgraph, data |-> content]
    /\ pulled' = content
    /\ aligned' = (mgraph = IF pend = NoBatch THEN mseq ELSE mseq - 1)
    /\ UNCHANGED <<masterVars, feed, sub, queues, floor, rseq, replica, losses>>

(* Slip: the cutover is one past the snapshot.                               *)
RestoreCutsHigh ==
    /\ fpc = "pulled"
    /\ fpc' = "live"
    /\ rseq' = IF rseq + 1 > image.seq THEN rseq + 1 ELSE image.seq
    /\ replica' = image.data
    /\ floor' = image.seq + 1
    /\ image' = NoImage
    /\ UNCHANGED <<masterVars, feed, sub, queues, pulled, aligned, losses>>

(* Database::restore into the empty store, at the snapshot's sequence or the *)
(* next free one; then the cutover is sent.                                  *)
Restore ==
    /\ fpc = "pulled"
    /\ fpc' = "live"
    /\ rseq' = IF rseq + 1 > image.seq THEN rseq + 1 ELSE image.seq
    /\ replica' = image.data
    /\ floor' = image.seq
    /\ image' = NoImage
    /\ UNCHANGED <<masterVars, feed, sub, queues, pulled, aligned, losses>>

(* Everything the session held goes with it.                                 *)
Session(next) ==
    /\ fpc' = next
    /\ sub' = "none"
    /\ feed' = <<>>
    /\ raw' = <<>> /\ backlog' = <<>> /\ tail' = <<>>
    /\ image' = NoImage
    /\ floor' = 0 /\ pulled' = Empty /\ aligned' = TRUE

(* A pull or a restore that fails is an error of `serve`: the process ends.  *)
BootstrapFails ==
    /\ fpc \in {"connected", "pulled"}
    /\ losses < MaxLosses
    /\ losses' = losses + 1
    /\ Session("exited")
    /\ UNCHANGED <<masterVars, rseq, replica>>

-------------------------------------------------------------------------------
(* forward_tail and run_live_tail.                                           *)

(* Before the cutover is known.                                              *)
Buffer ==
    /\ fpc \in {"connected", "pulled"}
    /\ raw # <<>>
    /\ Len(backlog) < BacklogCap
    /\ backlog' = Append(backlog, Head(raw))
    /\ raw' = Tail(raw)
    /\ UNCHANGED <<masterVars, feed, sub, tail, replicaVars, losses>>

(* Past the cutover a batch waits for room in the tail; others are skipped.  *)
Deliver(b) ==
    IF b.seq > floor
       THEN Len(tail) < TailCap /\ tail' = Append(tail, b)
       ELSE UNCHANGED tail

DrainBacklog ==
    /\ fpc = "live"
    /\ backlog # <<>>
    /\ Deliver(Head(backlog))
    /\ backlog' = Tail(backlog)
    /\ UNCHANGED <<masterVars, feed, sub, raw, replicaVars, losses>>

(* Slip: live batches overtake the backlog.                                  *)
ForwardFirst ==
    /\ fpc = "live"
    /\ raw # <<>>
    /\ Deliver(Head(raw))
    /\ raw' = Tail(raw)
    /\ UNCHANGED <<masterVars, feed, sub, backlog, replicaVars, losses>>

Forward ==
    /\ fpc = "live"
    /\ backlog = <<>>
    /\ raw # <<>>
    /\ Deliver(Head(raw))
    /\ raw' = Tail(raw)
    /\ UNCHANGED <<masterVars, feed, sub, backlog, replicaVars, losses>>

(* Database::apply_replicated at the batch's own sequence.                   *)
Apply ==
    /\ fpc = "live"
    /\ tail # <<>>
    /\ Head(tail).seq > rseq
    /\ rseq' = Head(tail).seq
    /\ replica' = Applied(Head(tail), replica)
    /\ tail' = Tail(tail)
    /\ UNCHANGED <<masterVars, feed, sub, raw, backlog, fpc, image, floor,
                   pulled, aligned, losses>>

(* The directory is wiped (prepare_follower_dir) and a fresh store opened.   *)
Resync ==
    /\ Session("down")
    /\ rseq' = 1
    /\ replica' = Empty
    /\ UNCHANGED <<masterVars, losses>>

(* Slip: a refused batch is dropped and the tail goes on.                    *)
ApplySkipsRefused ==
    /\ fpc = "live"
    /\ tail # <<>>
    /\ Head(tail).seq <= rseq
    /\ tail' = Tail(tail)
    /\ UNCHANGED <<masterVars, feed, sub, raw, backlog, replicaVars, losses>>

(* Error::Conflict: a batch at or below the replica's own sequence.          *)
ApplyRefused ==
    /\ fpc = "live"
    /\ tail # <<>>
    /\ Head(tail).seq <= rseq
    /\ Resync

(* The socket is closed and everything it delivered has been applied.        *)
StreamEnds ==
    /\ fpc = "live"
    /\ sub = "closed"
    /\ raw = <<>> /\ backlog = <<>> /\ tail = <<>>
    /\ Resync

-------------------------------------------------------------------------------
Master == (\E k \in Keys : GraphWrite(k)) \/ RecordQuery \/ Publish

(* The steps the two processes' own schedulers see to.                       *)
Pipeline ==
    \/ Subscribe \/ Send \/ LagCloses
    \/ Connect \/ Pull \/ Restore
    \/ Buffer \/ DrainBacklog \/ Forward
    \/ Apply \/ ApplyRefused \/ StreamEnds

Faults == ConnectionLost \/ MasterRestarts \/ BootstrapFails

Next == Master \/ Pipeline \/ Faults

Spec == Init /\ [][Next]_vars

Fairness ==
    /\ WF_vars(Publish)
    /\ WF_vars(Subscribe) /\ WF_vars(Send) /\ WF_vars(LagCloses)
    /\ WF_vars(Connect) /\ WF_vars(Pull) /\ WF_vars(Restore)
    /\ WF_vars(DrainBacklog) /\ WF_vars(Forward)
    /\ WF_vars(Apply) /\ WF_vars(ApplyRefused) /\ WF_vars(StreamEnds)

FairSpec == Spec /\ Fairness

-------------------------------------------------------------------------------
(* Properties.                                                               *)

(* Every variable has its type and every queue its bound.                    *)
TypeOK ==
    /\ mseq \in 1..MaxSeq /\ mgraph \in 1..MaxSeq
    /\ {content, replica, pulled} \subseteq Content
    /\ pend \in Batch \cup {NoBatch}
    /\ past \in Seq(Content)
    /\ \A q \in {feed, raw, backlog, tail} : q \in Seq(Batch)
    /\ Len(feed) <= FeedCap /\ Len(raw) <= RawCap
    /\ Len(backlog) <= BacklogCap /\ Len(tail) <= TailCap
    /\ sub \in {"none", "upgraded", "subscribed", "lagged", "closed"}
    /\ fpc \in {"down", "connected", "pulled", "live", "exited"}
    /\ image \in [seq : 0..MaxSeq, data : Content]
    /\ {floor, rseq} \subseteq 0..MaxSeq + 1
    /\ losses \in 0..MaxLosses /\ aligned \in BOOLEAN

(* follow.rs: "nothing committed on the master during the pull is ever       *)
(* missed".  When a live follower has nothing more to receive, its data is   *)
(* the master's.                                                             *)
NothingMissed ==
    /\ fpc = "live" /\ sub = "subscribed"
    /\ pend = NoBatch
    /\ feed = <<>> /\ raw = <<>> /\ backlog = <<>> /\ tail = <<>>
    => replica = content

(* A live replica always shows a state the master published, and none older  *)
(* than its snapshot, whatever was lost, skipped or refused on the way: no   *)
(* batch is left out of the middle and none is applied twice.  This needs a  *)
(* snapshot whose sequence is the engine's: no query recorded before it.     *)
PrefixConsistent ==
    fpc = "live" /\ aligned =>
        /\ replica = Applied(pend, content) \/ \E n \in 1..Len(past) : replica = past[n]
        /\ \A k \in Keys : replica[k] >= pulled[k]

(* Batches reach the replica in the master's order at every stage of the     *)
(* pipeline, also when the backlog is drained while live batches arrive.     *)
InOrder ==
    LET stream == tail \o backlog \o raw \o feed
    IN  \A i, j \in 1..Len(stream) : i < j => stream[i].seq < stream[j].seq

(* Once the master rests and no connection is lost, the follower ends up     *)
(* live with the master's data, unless its process ended.                    *)
EventuallyCaughtUp ==
    <>[](fpc = "exited" \/ (fpc = "live" /\ replica = content))
===============================================================================
