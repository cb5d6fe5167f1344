----------------------------- MODULE MCOrderBook -----------------------------
(***************************************************************************)
(* OrderBook for TLC.  The ids are interchangeable: no definition of the   *)
(* book orders them.                                                       *)
(***************************************************************************)
EXTENDS OrderBook

IdSymmetry == Permutations(OrderIds)

=============================================================================
