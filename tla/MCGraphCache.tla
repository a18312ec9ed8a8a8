----------------------------- MODULE MCGraphCache -----------------------------
(* GraphCache for TLC: snapshots at a low and at a higher sequence.          *)
EXTENDS GraphCache, TLC

CONSTANTS k, v1, v2, r1, r2

SmallImages == {[seq |-> s, data |-> [x \in CacheKeys |-> v2]] : s \in {2, 4}}
ReaderSymmetry == Permutations(Readers)
===============================================================================
