-------------------------------- MODULE LsmOps --------------------------------
(****************************************************************************)
(* The pure part of the native engine: what a read finds in the memtable    *)
(* and the runs, and what compaction keeps of the runs it merges            *)
(* (crates/dr-strange-core/src/storage/native/mod.rs and native/sst.rs).    *)
(*                                                                          *)
(* A source (the memtable, or one SST run) is a set of entries: an          *)
(* operation on a user key, stamped with the sequence of the transaction    *)
(* that wrote it.  Table number and key bytes are one model key.  A read    *)
(* that reports "no value" yields Del, as a tombstone does (Op::into_value).*)
(****************************************************************************)
EXTENDS Naturals, Sequences

CONSTANTS
    Keys,     \* (table, user key) pairs
    Values,   \* what a Put may carry
    Del       \* the tombstone, and "no value" as the result of a read

ASSUME DelAssumption == Del \notin Values

Ops == Values \cup {Del}

Entry == [key : Keys, seq : Nat, op : Ops]

(* The versions of a key that a reader pinned at s may see.  Both mem_op and *)
(* Sst::get walk them newest first and take the first with seq <= snapshot.  *)
Visible(source, k, s) == {e \in source : e.key = k /\ e.seq <= s}

Newest(versions) == CHOOSE e \in versions : \A f \in versions : f.seq <= e.seq

(* What a set of versions says of k as of s, whichever source each is in.    *)
Resolve(source, k, s) ==
    IF Visible(source, k, s) = {} THEN Del ELSE Newest(Visible(source, k, s)).op

Largest(S) == CHOOSE i \in S : \A j \in S : j <= i

(* Slip: a tombstone in the memtable is taken for "not here, look further".   *)
CommittedGetPastTombstone(mem, ssts, k, s) ==
    LET hits == {i \in DOMAIN ssts : Visible(ssts[i], k, s) # {}}
    IN  IF Resolve(mem, k, s) # Del THEN Resolve(mem, k, s)
        ELSE IF hits = {} THEN Del
        ELSE Resolve(ssts[Largest(hits)], k, s)

(* committed_get: the memtable, then the runs newest first; the first source *)
(* that holds a visible version decides.                                     *)
CommittedGet(mem, ssts, k, s) ==
    LET hits == {i \in DOMAIN ssts : Visible(ssts[i], k, s) # {}}
    IN  IF Visible(mem, k, s) # {} THEN Resolve(mem, k, s)
        ELSE IF hits = {} THEN Del
        ELSE Resolve(ssts[Largest(hits)], k, s)

(* committed_values: the runs are laid over each other oldest first, the     *)
(* memtable last, and the surviving tombstones dropped.                      *)
CommittedValues(mem, ssts, s) ==
    LET over(below, source) ==
            [k \in Keys |-> IF Visible(source, k, s) = {} THEN below[k]
                            ELSE Resolve(source, k, s)]
        upTo[n \in 0..Len(ssts)] ==
            IF n = 0 THEN [k \in Keys |-> Del] ELSE over(upTo[n - 1], ssts[n])
    IN  over(upTo[Len(ssts)], mem)

(* MergeIter: every entry of every run once; of two with the same key and    *)
(* sequence the later run's is the one emitted.                              *)
Merge(runs) ==
    {e \in UNION {runs[i] : i \in DOMAIN runs} :
        \E i \in DOMAIN runs :
            /\ e \in runs[i]
            /\ \A j \in DOMAIN runs : \A f \in runs[j] :
                  f.key = e.key /\ f.seq = e.seq /\ j > i => f = e}

(* gc_versions: per key, the versions above the floor and the newest at or   *)
(* below it ...                                                              *)
KeptVersions(merged, floor) ==
    {e \in merged :
        ~ \E f \in merged : f.key = e.key /\ f.seq > e.seq /\ f.seq <= floor}

(* ... of which a tombstone that is all that is left of its key goes too.    *)
LoneTombstone(kept, floor, e) ==
    /\ e.op = Del
    /\ e.seq <= floor
    /\ \A f \in kept : f.key = e.key => f = e

GcVersions(merged, floor) ==
    LET kept == KeptVersions(merged, floor)
    IN  {e \in kept : ~LoneTombstone(kept, floor, e)}

(* A transaction's staged writes (at most one per key) stamped with its seq. *)
Stamp(batch, s) ==
    {[key |-> k, seq |-> s, op |-> batch[k]] : k \in DOMAIN batch}

(* The non-empty batches: some keys, an operation for each.                  *)
Batches == UNION {[D -> Ops] : D \in (SUBSET Keys) \ {{}}}
===============================================================================
