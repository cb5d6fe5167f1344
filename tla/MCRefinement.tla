---------------------------- MODULE MCRefinement ----------------------------
(***************************************************************************)
(* OrderBookRefinement for TLC; neither specification orders the ids.      *)
(***************************************************************************)
EXTENDS OrderBookRefinement

IdSymmetry == Permutations(OrderIds)

=============================================================================
