---------------------------- MODULE MCLadderReplace ----------------------------
(***************************************************************************)
(* LadderReplace for TLC.  Orders are interchangeable.                     *)
(***************************************************************************)
EXTENDS LadderReplace

MCLevels == {"Bid", "Ask"} \X (0 .. 2)

\* Of a chunk that no level has only the next link counts: allocChunk writes the rest
\* before anything reads it.
ChunkView == [c \in Chunks |-> IF chunk[c].live = 0 THEN <<chunk[c].next>> ELSE chunk[c]]
BookView == <<ChunkView, len, used, freeChunk, live, lvl, loc, ladder, op>>

IdSymmetry == Permutations(OrderIds)

=============================================================================
