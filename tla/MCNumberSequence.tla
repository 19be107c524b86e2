------------------------- MODULE MCNumberSequence --------------------------
(***************************************************************************)
(* Model-checking instances of NumberSequence.                             *)
(***************************************************************************)
EXTENDS NumberSequence, TLC

CONSTANTS w1, w2, w3, r1, r2

\* Requests and row ids are interchangeable.
Symmetric == Permutations(Worker) \cup Permutations(Row)

\* Every kind of document.
AllKinds == DOMAIN generatorsOf
=============================================================================
