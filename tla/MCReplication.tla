---------------------------- MODULE MCReplication ----------------------------
(* Replication for TLC: queues of one or two batches, so that each is full   *)
(* and each lags.                                                            *)
EXTENDS Replication

CONSTANTS k1, k2

None == {}
LateSubscribe == {"lateSubscribe"}
==============================================================================
