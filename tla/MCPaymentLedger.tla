-------------------------- MODULE MCPaymentLedger --------------------------
(***************************************************************************)
(* Model-checking instances of PaymentLedger.                              *)
(***************************************************************************)
EXTENDS PaymentLedger, TLC

CONSTANTS p1, p2, w1, w2

\* Receipts and workers are interchangeable.
Symmetric == Permutations(Payment) \cup Permutations(Worker)

\* What the violation run needs.
VoidOps == {"convertToSale", "voidPayment"}
=============================================================================
