----------------------------- MODULE MCWriteGate -----------------------------
(* WriteGate for TLC: three writers, so that a notified thread can race both *)
(* a newcomer and a waiter whose deadline has passed.                        *)
EXTENDS WriteGate
=============================================================================
