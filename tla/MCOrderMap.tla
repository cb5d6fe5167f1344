------------------------------ MODULE MCOrderMap ------------------------------
(***************************************************************************)
(* OrderMap for TLC.  Keys, values and tags are compared and nothing else; *)
(* slots are numbers and are not interchangeable.                          *)
(***************************************************************************)
EXTENDS OrderMap, TLC

KeySymmetry == Permutations(Keys)

=============================================================================
