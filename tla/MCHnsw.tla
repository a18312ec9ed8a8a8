-------------------------------- MODULE MCHnsw --------------------------------
(* The vector index, with three ids and a batch of three built by two       *)
(* threads, then up to one more change, or up to four changes one by one.   *)
EXTENDS Hnsw, TLC

CONSTANTS t1, t2, a, b, c

Symmetry == Permutations(Threads) \cup Permutations(Ids)
===============================================================================
