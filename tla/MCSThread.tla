----------------------------- MODULE MCSThread -----------------------------
(* Instances of SThread for TLC. *)
EXTENDS SThread, TLC

ThreadSymmetry == Permutations(Thread)
=============================================================================
