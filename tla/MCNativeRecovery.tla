--------------------------- MODULE MCNativeRecovery ---------------------------
(* NativeRecovery for TLC: the stores a run may start from.                  *)
EXTENDS NativeRecovery, TLC

CONSTANTS k1, k2, v1

(* Two runs of an earlier release: k1 written, then deleted and k2 written.  *)
OldRun(n, format) ==
    IF n = 1 THEN File(1, {[key |-> k1, seq |-> 1, op |-> v1]}, 1, format)
    ELSE File(2, {[key |-> k1, seq |-> 2, op |-> Del],
                  [key |-> k2, seq |-> 2, op |-> v1]}, 2, format)

NewStore == {<<>>}
MixedStore == {<<OldRun(1, TRUE), OldRun(2, FALSE)>>}
NewOrOldStore == NewStore \cup {<<OldRun(1, TRUE), OldRun(2, TRUE)>>}
===============================================================================
