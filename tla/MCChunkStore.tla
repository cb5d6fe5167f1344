----------------------------- MODULE MCChunkStore -----------------------------
(***************************************************************************)
(* ChunkStore for TLC.  Orders are interchangeable, and so are levels; the *)
(* chunks are numbers.                                                     *)
(***************************************************************************)
EXTENDS ChunkStore

IdAndLevelSymmetry == Permutations(OrderIds) \cup Permutations(Levels)

=============================================================================
