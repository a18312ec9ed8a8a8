----------------------------- MODULE SnapshotStore -----------------------------
(****************************************************************************)
(* What the storage engine promises its callers (storage/engine.rs): one    *)
(* map from keys to values, changed by a whole batch at a time, and readers *)
(* each of which keeps, for as long as it is open, the map it was opened on.*)
(* There are no versions, runs or files here.                               *)
(****************************************************************************)
EXTENDS LsmOps

CONSTANTS Readers, Closed   \* Closed: the view of a reader that is not open

VARIABLES
    db,     \* the committed map
    view    \* view[r]: the map reader r sees, or Closed

vars == <<db, view>>

Contents == [Keys -> Ops]

Init ==
    /\ db = [k \in Keys |-> Del]
    /\ view = [r \in Readers |-> Closed]

(* A commit is all or nothing, and no open reader notices it.                *)
Commit ==
    /\ \E batch \in Batches :
          db' = [k \in Keys |-> IF k \in DOMAIN batch THEN batch[k] ELSE db[k]]
    /\ UNCHANGED view

Begin(r) ==
    /\ view[r] = Closed
    /\ view' = [view EXCEPT ![r] = db]
    /\ UNCHANGED db

End(r) ==
    /\ view[r] # Closed
    /\ view' = [view EXCEPT ![r] = Closed]
    /\ UNCHANGED db

Next == Commit \/ \E r \in Readers : Begin(r) \/ End(r)

Spec == Init /\ [][Next]_vars
================================================================================
