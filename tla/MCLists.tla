------------------------------ MODULE MCLists -------------------------------
(* Instances of Lists for TLC. *)
EXTENDS Lists, TLC

ChunkSymmetry == Permutations(Chunk)
=============================================================================
