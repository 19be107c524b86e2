---------------------------- MODULE MCSaleStock -----------------------------
(***************************************************************************)
(* Model-checking instances of SaleStock.                                  *)
(***************************************************************************)
EXTENDS SaleStock, TLC

CONSTANTS s1, s2, k1, k2, w1, w2

\* Sales, cars and workers are interchangeable.
Symmetric == Permutations(Sale) \cup Permutations(Stock) \cup Permutations(Worker)
=============================================================================
