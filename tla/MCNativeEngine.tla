---------------------------- MODULE MCNativeEngine ----------------------------
(* NativeEngine for TLC.  Small thresholds make every other commit flush and *)
(* compact, so that readers of every age meet every stage of maintenance.    *)
EXTENDS NativeEngine, TLC

ReaderSymmetry == Permutations(Readers)
KeySymmetry == Permutations(Keys)
===============================================================================
