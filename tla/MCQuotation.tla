---------------------------- MODULE MCQuotation ----------------------------
(***************************************************************************)
(* Model-checking instances of Quotation.                                  *)
(***************************************************************************)
EXTENDS Quotation, TLC

CONSTANTS q1, q2, s1, s2, w1, w2

\* Quotations, sales and requests are interchangeable.
Symmetric == Permutations(Quote) \cup Permutations(Sale) \cup Permutations(Worker)
=============================================================================
