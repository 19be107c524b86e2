-------------------------- MODULE MCStockInterest --------------------------
(***************************************************************************)
(* Model-checking instances of StockInterest.                              *)
(***************************************************************************)
EXTENDS StockInterest, TLC

CONSTANTS i1, i2, i3, w1

\* Row ids are interchangeable.
RowSymmetry == Permutations(Period)

\* From yesterday to today.
Backdated == {-1, 0}
=============================================================================
