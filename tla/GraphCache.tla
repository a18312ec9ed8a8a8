------------------------------ MODULE GraphCache ------------------------------
(****************************************************************************)
(* The cache of decoded records that all queries share (api/cache/), the    *)
(* reader that a query reads through, time travel by commit sequence, and   *)
(* the commits that move the sequence: a write bumps it, a note in the      *)
(* query history leaves it alone, a replicated batch or a restore lands a   *)
(* foreign one and flushes the cache afterwards.                            *)
(*                                                                          *)
(* hist[e] is what a read at the engine's snapshot e sees.  A record is any *)
(* cached thing: a node, an edge, one adjacency list.  An entry too heavy   *)
(* for the cache is one that is evicted at once.                            *)
(****************************************************************************)
EXTENDS Integers, Sequences

CONSTANTS
    Absent, Unread,
    CacheKeys, Values,
    Readers,
    Images,       \* the snapshots that may be restored: [seq, data]
    Modes,        \* which interleavings are explored, see below
    MaxSnapshot

(* "fresh": a restore lands above every sequence the store has had, and      *)
(* everything interleaves.  "quiet": a restore may land on a sequence that   *)
(* the store has had, readers wait while a foreign commit lands, and nobody  *)
(* travels in time.  "racing": as "quiet", but an insert into the cache that *)
(* has passed its check may be overtaken by the foreign commit.              *)
AllModes == {"fresh", "quiet", "racing"}

OrAbsent(S) == S \cup {Absent}
Data == [CacheKeys -> OrAbsent(Values)]
State == [seq : Nat, data : Data]

ASSUME CacheAssumption ==
    /\ Absent \notin Values /\ Absent \notin Nat /\ Unread \notin OrAbsent(Values)
    /\ Images \subseteq State
    /\ Modes \subseteq AllModes
    /\ MaxSnapshot \in Nat

VARIABLES
    hist,      \* the store at each engine sequence
    cache,     \* GraphCache.cache: an entry [seq, val] or Absent
    gen,       \* GraphCache.generation
    landing,   \* a foreign commit: "none", then "landed", then "bumped"
    rd,        \* the readers
    era,       \* the snapshot of the last foreign commit (auxiliary)
    mode       \* fixed at the beginning

cacheVars == <<hist, cache, gen, landing, rd, era, mode>>

Latest == Len(hist)
Entry == [seq : Nat, val : Values]

Idle == [pc |-> "idle", gen |-> 0, snap |-> 0, l1 |-> [k \in CacheKeys |-> Unread], key |-> Absent]
Reader == [pc : {"idle", "token", "open", "checked"}, gen : Nat, snap : Nat,
           l1 : [CacheKeys -> OrAbsent(Values) \cup {Unread}], key : OrAbsent(CacheKeys)]

CacheInit ==
    /\ hist = <<[seq |-> 1, data |-> [k \in CacheKeys |-> Absent]]>>
    /\ cache = [k \in CacheKeys |-> Absent]
    /\ gen = 0
    /\ landing = "none"
    /\ rd = [r \in Readers |-> Idle]
    /\ era = 1
    /\ mode \in Modes

-------------------------------------------------------------------------------
(* Commits.                                                                  *)

HasRoom == Latest < MaxSnapshot
Now == hist[Latest]

(* The readers' side of "quiet" and "racing": not while a commit lands.      *)
MayRead == mode = "fresh" \/ landing = "none"

(* The committer's side of "quiet": no insert is past its check.             *)
MayLand == landing = "none" /\ (mode = "quiet" => \A r \in Readers : rd[r].pc # "checked")

(* with_write.                                                               *)
Write(k, v) ==
    /\ HasRoom
    /\ hist' = Append(hist, [seq |-> Now.seq + 1, data |-> [Now.data EXCEPT ![k] = v]])
    /\ UNCHANGED <<cache, gen, landing, rd, era, mode>>

(* with_write_unstamped: the query history.                                  *)
RecordQuery ==
    /\ HasRoom
    /\ hist' = Append(hist, Now)
    /\ UNCHANGED <<cache, gen, landing, rd, era, mode>>

(* A foreign commit is visible from here; the cache is cleared after it.     *)
LandForeign(h) ==
    /\ MayLand
    /\ hist' = h
    /\ landing' = "landed"
    /\ era' = Len(h)
    /\ UNCHANGED <<cache, gen, rd, mode>>

(* apply_replicated: the next batch of the master, stamped or not.           *)
ApplyReplicated(k, v) ==
    /\ HasRoom
    /\ LandForeign(Append(hist, [seq |-> Now.seq + 1, data |-> [Now.data EXCEPT ![k] = v]]))

ApplyUnstamped ==
    /\ HasRoom
    /\ LandForeign(Append(hist, Now))

(* commit_at_least: the numbers that are skipped read as what was before.    *)
LiftedTo(e, s) == [i \in 1..e |-> IF i = e THEN s ELSE IF i <= Latest THEN hist[i] ELSE Now]

(* restore into a store that looks empty.                                    *)
RestoreImage(image) ==
    LET at == IF image.seq > Latest THEN image.seq ELSE Latest + 1
    IN  /\ at <= MaxSnapshot
        /\ \A k \in CacheKeys : Now.data[k] = Absent
        /\ mode = "fresh" => image.seq > Now.seq
        /\ LandForeign(LiftedTo(at, image))

(* invalidate_all: the generation moves first.                               *)
BumpGeneration ==
    /\ landing = "landed"
    /\ gen' = gen + 1
    /\ landing' = "bumped"
    /\ UNCHANGED <<hist, cache, rd, era, mode>>

ClearEntries ==
    /\ landing = "bumped"
    /\ cache' = [k \in CacheKeys |-> Absent]
    /\ landing' = "none"
    /\ UNCHANGED <<hist, gen, rd, era, mode>>

Evict(k) ==
    /\ cache[k] # Absent
    /\ cache' = [cache EXCEPT ![k] = Absent]
    /\ UNCHANGED <<hist, gen, landing, rd, era, mode>>

-------------------------------------------------------------------------------
(* Time travel.                                                              *)

(* Slip: a sequence equal to the target is passed over.                      *)
HalvingStrict(h, target) ==
    LET at[w \in (1..Len(h)) \X (1..Len(h))] ==
            LET lo == w[1]
                hi == w[2]
                mid == lo + (hi - lo + 1) \div 2
            IN  IF lo >= hi THEN lo
                ELSE IF h[mid].seq < target THEN at[<<mid, hi>>]
                ELSE at[<<lo, mid - 1>>]
    IN  at[<<1, Len(h)>>]

(* search_at_or_before over the snapshots lo..hi, by halving.                *)
Halving(h, target) ==
    LET at[w \in (1..Len(h)) \X (1..Len(h))] ==
            LET lo == w[1]
                hi == w[2]
                mid == lo + (hi - lo + 1) \div 2
            IN  IF lo >= hi THEN lo
                ELSE IF h[mid].seq <= target THEN at[<<mid, hi>>]
                ELSE at[<<lo, mid - 1>>]
    IN  at[<<1, Len(h)>>]

(* resolve_as_of, Absent where it errors.                                      *)
ResolveAsOf(h, target) == IF h[1].seq > target THEN Absent ELSE Halving(h, target)

-------------------------------------------------------------------------------
(* with_reader and CachedReader.                                             *)

(* The generation is captured before the snapshot opens.                     *)
Token(r) ==
    /\ rd[r].pc = "idle" /\ MayRead
    /\ rd' = [rd EXCEPT ![r] = [Idle EXCEPT !.pc = "token", !.gen = gen]]
    /\ UNCHANGED <<hist, cache, gen, landing, era, mode>>

(* begin_read_at refuses what is not a snapshot of the store.                *)
OpenAt(r, e) ==
    /\ rd[r].pc = "token" /\ MayRead
    /\ e \in 1..Latest
    /\ rd' = [rd EXCEPT ![r].pc = "open", ![r].snap = e]
    /\ UNCHANGED <<hist, cache, gen, landing, era, mode>>

Open(r) == OpenAt(r, Latest)

(* A handle that has resolved an earlier point.                              *)
OpenAsOf(r, target) ==
    /\ mode = "fresh"
    /\ ResolveAsOf(hist, target) # Absent
    /\ OpenAt(r, ResolveAsOf(hist, target))

ReaderSeq(r) == hist[rd[r].snap].seq
Stored(r, k) == hist[rd[r].snap].data[k]

(* Slip: an entry is served whatever its stamp.                              *)
HitUnstamped(r, k) == cache[k] # Absent

(* GraphCache::node, edge, adj: only an entry of the reader's own sequence.  *)
Hit(r, k) == cache[k] # Absent /\ cache[k].seq = ReaderSeq(r)

(* Second read of a key: from the query's own map, a miss included.          *)
ReadHit(r, k) ==
    /\ rd[r].pc = "open" /\ MayRead
    /\ rd[r].l1[k] = Unread /\ Hit(r, k)
    /\ rd' = [rd EXCEPT ![r].l1[k] = cache[k].val]
    /\ UNCHANGED <<hist, cache, gen, landing, era, mode>>

(* Only records that exist are put, and only by a reader of this generation. *)
Accepts(r, k) == Stored(r, k) # Absent /\ rd[r].gen = gen

(* A miss: the record is read and, once the insert has passed its check,     *)
(* stored by StoreEntry.                                                     *)
ReadMiss(r, k) ==
    /\ rd[r].pc = "open" /\ MayRead
    /\ rd[r].l1[k] = Unread /\ ~ Hit(r, k)
    /\ rd' = [rd EXCEPT ![r].l1[k] = Stored(r, k),
                        ![r].pc = IF Accepts(r, k) THEN "checked" ELSE "open",
                        ![r].key = IF Accepts(r, k) THEN k ELSE Absent]
    /\ UNCHANGED <<hist, cache, gen, landing, era, mode>>

StoreEntry(r) ==
    /\ rd[r].pc = "checked" /\ MayRead
    /\ cache' = [cache EXCEPT ![rd[r].key] =
                    [seq |-> ReaderSeq(r), val |-> rd[r].l1[rd[r].key]]]
    /\ rd' = [rd EXCEPT ![r].pc = "open", ![r].key = Absent]
    /\ UNCHANGED <<hist, gen, landing, era, mode>>

Close(r) ==
    /\ rd[r].pc = "open"
    /\ rd' = [rd EXCEPT ![r] = Idle]
    /\ UNCHANGED <<hist, cache, gen, landing, era, mode>>

CacheNext ==
    \/ \E k \in CacheKeys, v \in OrAbsent(Values) : Write(k, v) \/ ApplyReplicated(k, v)
    \/ RecordQuery \/ ApplyUnstamped
    \/ \E image \in Images : RestoreImage(image)
    \/ BumpGeneration \/ ClearEntries
    \/ \E k \in CacheKeys : Evict(k)
    \/ \E r \in Readers :
          \/ Token(r) \/ Open(r)
          \/ \E target \in 0..MaxSnapshot : OpenAsOf(r, target)
          \/ \E k \in CacheKeys : ReadHit(r, k) \/ ReadMiss(r, k)
          \/ StoreEntry(r) \/ Close(r)

CacheSpec == CacheInit /\ [][CacheNext]_cacheVars

-------------------------------------------------------------------------------
TypeOK ==
    /\ hist \in Seq(State) /\ hist # <<>>
    /\ cache \in [CacheKeys -> OrAbsent(Entry)]
    /\ gen \in Nat
    /\ landing \in {"none", "landed", "bumped"}
    /\ rd \in [Readers -> Reader]
    /\ \A r \in Readers :
          /\ rd[r].pc \in {"open", "checked"} => rd[r].snap \in 1..Latest
          /\ rd[r].pc = "checked" => rd[r].key \in CacheKeys
    /\ era \in 1..Latest
    /\ mode \in Modes

(* "an insert that races this call is either refused (it saw the new         *)
(* generation) or wiped (it landed before the clear)": whatever was read, a  *)
(* query sees the records of its own snapshot, from the cache, from its own  *)
(* map or from storage, live or travelling.  A reader that was open when a   *)
(* restore landed on a used sequence is left out: see StraddlersExact.       *)
ReadsExact ==
    \A r \in Readers : rd[r].pc \in {"open", "checked"} /\ (mode = "fresh" \/ rd[r].gen = gen) =>
        \A k \in CacheKeys : rd[r].l1[k] # Unread => rd[r].l1[k] = Stored(r, k)

(* "a reader's seq always matches the storage snapshot it sees": also for a   *)
(* reader that was open when a restore landed on its sequence.  The          *)
(* generation keeps it from inserting, not from being served what others     *)
(* insert.                                                                   *)
StraddlersExact ==
    \A r \in Readers : rd[r].pc \in {"open", "checked"} =>
        \A k \in CacheKeys : rd[r].l1[k] # Unread => rd[r].l1[k] = Stored(r, k)

(* "Largest snapshot in [floor, latest] whose probe value is <= target":     *)
(* halving finds it, whatever notes and lifted sequences lie in between, as  *)
(* long as sequences do not go back.                                         *)
AsOfExact ==
    mode = "fresh" =>
    \A target \in 0..MaxSnapshot :
        LET e == ResolveAsOf(hist, target)
        IN  IF e = Absent THEN \A i \in 1..Latest : hist[i].seq > target
            ELSE hist[e].seq <= target /\ \A i \in (e + 1)..Latest : hist[i].seq > target
===============================================================================
