----------------------------- MODULE UnitLedger -----------------------------
(***************************************************************************)
(* What the sales module promises about the showroom, with no tables, no   *)
(* handlers and no concurrency: every car is either free or held by one    *)
(* sale, a sale holds at most one car, a car is handed over only to the    *)
(* sale that holds it, and a car that was handed over stays with that sale *)
(* until the sale gives it up or the car is struck off the books; a car    *)
(* that was struck off never comes back.                                   *)
(*                                                                         *)
(* SaleStock implements this specification (SaleStock!UnitPromise) when    *)
(* requests on one sale do not overlap.                                    *)
(***************************************************************************)
CONSTANTS Sale, Stock, NoSale

VARIABLES
    holder,      \* the sale that holds each car, or NoSale
    delivered,   \* the cars that were handed over to their holder
    gone         \* the cars that were struck off the books

vars == <<holder, delivered, gone>>

Free(k) == holder[k] = NoSale

HoldsNothing(s) == \A k \in Stock : holder[k] # s

Init ==
    /\ holder = [k \in Stock |-> NoSale]
    /\ delivered = {}
    /\ gone = {}

\* A sale without a car takes a free one.
Book(s, k) ==
    /\ Free(k) /\ k \notin gone
    /\ HoldsNothing(s)
    /\ holder' = [holder EXCEPT ![k] = s]
    /\ UNCHANGED <<delivered, gone>>

\* A sale swaps the car it holds, not yet handed over, for a free one.
Exchange(s, j, k) ==
    /\ holder[j] = s
    /\ j \notin delivered
    /\ Free(k) /\ k \notin gone
    /\ holder' = [holder EXCEPT ![j] = NoSale, ![k] = s]
    /\ UNCHANGED <<delivered, gone>>

\* The car is handed over to the sale that holds it.
Deliver(k) ==
    /\ ~Free(k)
    /\ k \notin delivered
    /\ delivered' = delivered \cup {k}
    /\ UNCHANGED <<holder, gone>>

\* The sale is cancelled or deleted and the car goes back on the floor.
Release(k) ==
    /\ ~Free(k)
    /\ holder' = [holder EXCEPT ![k] = NoSale]
    /\ delivered' = delivered \ {k}
    /\ UNCHANGED gone

\* Cars are struck off, whoever holds them.
StrikeOff(ks) ==
    /\ holder' = [k \in Stock |-> IF k \in ks THEN NoSale ELSE holder[k]]
    /\ delivered' = delivered \ ks
    /\ gone' = gone \cup ks

Next ==
    \/ \E s \in Sale, k \in Stock : Book(s, k)
    \/ \E s \in Sale, j, k \in Stock : Exchange(s, j, k)
    \/ \E k \in Stock : Deliver(k) \/ Release(k)
    \/ \E ks \in SUBSET Stock : StrikeOff(ks)

Spec == Init /\ [][Next]_vars
=============================================================================
