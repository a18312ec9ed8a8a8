----------------------------- MODULE MCWatchLoop ------------------------------
(* WatchLoop for TLC.                                                        *)
EXTENDS WatchLoop

CONSTANTS a
===============================================================================
