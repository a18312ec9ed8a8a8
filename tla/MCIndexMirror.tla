---------------------------- MODULE MCIndexMirror ----------------------------
(* IndexMirror for TLC: which operations a run lets overlap.                 *)
EXTENDS IndexMirror

CONSTANTS n1, n2, a, b, w1, w2

NoOverlap == {}
OverlapWriters == {"writers"}
==============================================================================
