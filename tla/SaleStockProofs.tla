--------------------------- MODULE SaleStockProofs --------------------------
(***************************************************************************)
(* Theorems about SaleStock, for every set of sales, cars and workers.     *)
(*                                                                         *)
(* Two of them hold whatever overlaps (types, and one sale per car).  The  *)
(* agreement of the two tables needs requests on one sale not to overlap:  *)
(* then what a request has read is still what the rows hold when it        *)
(* commits, but for a car that was purged meanwhile, whose row the commit  *)
(* does not find (SnapshotsFresh).  That is the strengthening that makes   *)
(* the agreement inductive, and from it follows that the two tables behave *)
(* like the abstract showroom of UnitLedger.                               *)
(***************************************************************************)
EXTENDS SaleStock, TLAPS

SaleRequests ==
    {"assignStock", "updateSaleStock", "updateSaleResend", "updateSaleStatus", "deleteSale"}

\* What the reads of a handler guarantee about the request it leaves behind,
\* for as long as the request is in flight.
Shape(r) ==
    /\ r.op \in SaleRequests => r.sale \in Sale
    /\ r.op \notin SaleRequests => r.sale = NoSale
    /\ r.op = "idle" => r.stock = NoStock
    /\ r.op \in {"createSale", "convertToSale"} => r.to \in {"RESERVED", "PREPARING"}
    /\ r.op = "createSale" => r.to = "RESERVED"
    /\ r.op \in {"assignStock", "updateSaleStock"} =>
          r.stock \in Stock /\ r.seen \in {"RESERVED", "PREPARING"} /\ r.to = r.seen
    /\ r.op = "updateSaleResend" => r.link \in Stock /\ r.seen \in LiveStatuses
    /\ r.op = "updateSaleStatus" =>
          <<r.seen, r.to>> \in validTransitions /\ (r.to = "DELIVERED" => r.link \in Stock)
    /\ r.op = "deleteSale" => r.seen \in {"RESERVED", "PREPARING", "DELIVERED"}
    /\ r.op = "updateStockStatus" => r.stock \in Stock /\ r.to \in SellableStatuses
    /\ r.op = "deleteStock" => r.stock \in Stock

\* What a request has read is what the rows still hold, unless the car it has
\* read was purged.
Fresh(r) ==
    /\ r.op \in SaleRequests =>
          /\ saleStatus[r.sale] = r.seen
          /\ \/ saleStock[r.sale] = r.link
             \/ /\ saleStock[r.sale] = NoStock
                /\ r.link \in Stock /\ stockStatus[r.link] = "PURGED"
    /\ r.op = "updateStockStatus" => stockStatus[r.stock] \in SellableStatuses \cup {"PURGED"}

RequestsShaped == \A w \in Worker : Shape(inflight[w])
SnapshotsFresh == \A w \in Worker : Fresh(inflight[w])
NoCollision == \A v, w \in Worker : v # w => ~Collide(inflight[v], inflight[w])
-----------------------------------------------------------------------------
\* A commit that finds the car it has read finds it on the sale.
LEMMA FoundIsFresh ==
  ASSUME NEW r, Fresh(r), r.op \in SaleRequests, RowFound(r.link)
  PROVE  saleStatus[r.sale] = r.seen /\ saleStock[r.sale] = r.link
  BY NullAssumption DEF Fresh, RowFound, Registered, StockStatuses

LEMMA IdleIsRequest == Idle \in Request /\ Shape(Idle) /\ Fresh(Idle)
  BY DEF Idle, Request, Shape, Fresh, SaleRequests

\* Whatever handler begins, it leaves a well-shaped request that has just been
\* read.
LEMMA BeginShape ==
  ASSUME TypeOK, NEW w \in Worker, BeginSome(w)
  PROVE  \E r \in Request : Shape(r) /\ Fresh(r) /\ Begin(w, r)
<1> USE DEF Request, Shape, Fresh, SaleRequests, Handlers, Idle, SaleStatuses,
            LiveStatuses, StockStatuses, SellableStatuses
<1>1. ASSUME NEW k \in Stock \cup {NoStock}, BeginCreateSale(w, k)
      PROVE  \E r \in Request : Shape(r) /\ Fresh(r) /\ Begin(w, r)
  BY <1>1 DEF BeginCreateSale
<1>2. ASSUME NEW k \in Stock \cup {NoStock}, NEW i \in {"RESERVED", "PREPARING"},
             BeginConvertToSale(w, k, i)
      PROVE  \E r \in Request : Shape(r) /\ Fresh(r) /\ Begin(w, r)
  BY <1>2 DEF BeginConvertToSale
<1>3. ASSUME NEW s \in Sale, NEW k \in Stock, BeginAssignStock(w, s, k)
      PROVE  \E r \in Request : Shape(r) /\ Fresh(r) /\ Begin(w, r)
  BY <1>3 DEF BeginAssignStock, Reassign, TypeOK
<1>4. ASSUME NEW s \in Sale, NEW k \in Stock, BeginUpdateSaleStock(w, s, k)
      PROVE  \E r \in Request : Shape(r) /\ Fresh(r) /\ Begin(w, r)
  BY <1>4 DEF BeginUpdateSaleStock, Reassign, TypeOK
<1>5. ASSUME NEW s \in Sale, BeginUpdateSaleResend(w, s)
      PROVE  \E r \in Request : Shape(r) /\ Fresh(r) /\ Begin(w, r)
  BY <1>5 DEF BeginUpdateSaleResend, TypeOK
<1>6. ASSUME NEW s \in Sale, BeginDeleteSale(w, s)
      PROVE  \E r \in Request : Shape(r) /\ Fresh(r) /\ Begin(w, r)
  BY <1>6 DEF BeginDeleteSale, TypeOK
<1>7. ASSUME NEW s \in Sale, NEW to \in SaleStatuses, BeginUpdateSaleStatus(w, s, to)
      PROVE  \E r \in Request : Shape(r) /\ Fresh(r) /\ Begin(w, r)
  BY <1>7 DEF BeginUpdateSaleStatus, TypeOK, validTransitions
<1>8. ASSUME NEW k \in Stock, BeginDeleteStock(w, k)
      PROVE  \E r \in Request : Shape(r) /\ Fresh(r) /\ Begin(w, r)
  BY <1>8 DEF BeginDeleteStock, TypeOK, Registered
<1>9. ASSUME NEW k \in Stock, NEW to \in SellableStatuses, BeginUpdateStockStatus(w, k, to)
      PROVE  \E r \in Request : Shape(r) /\ Fresh(r) /\ Begin(w, r)
  BY <1>9 DEF BeginUpdateStockStatus, TypeOK
<1>10. QED
  BY <1>1, <1>2, <1>3, <1>4, <1>5, <1>6, <1>7, <1>8, <1>9 DEF BeginSome
-----------------------------------------------------------------------------
LEMMA InitTyped == Init => TypeOK /\ RequestsShaped
  BY IdleIsRequest DEF Init, TypeOK, RequestsShaped

\* Types and shapes are preserved by every step, whatever overlaps.
LEMMA StepTyped == TypeOK /\ RequestsShaped /\ [Next]_vars => (TypeOK /\ RequestsShaped)'
<1> SUFFICES ASSUME TypeOK, RequestsShaped, [Next]_vars
             PROVE  TypeOK' /\ RequestsShaped'
  OBVIOUS
<1> USE IdleIsRequest DEF TypeOK, RequestsShaped, saleRows, stockRows
<1>1. ASSUME NEW w \in Worker, BeginSome(w) PROVE TypeOK' /\ RequestsShaped'
  <2>1. PICK r \in Request : Shape(r) /\ Begin(w, r)
    BY <1>1, BeginShape
  <2>2. QED BY <2>1 DEF Begin
<1>2. ASSUME NEW w \in Worker, FailRequest(w) PROVE TypeOK' /\ RequestsShaped'
  BY <1>2 DEF FailRequest, Finish
<1>3. ASSUME NEW w \in Worker, CommitSome(w) PROVE TypeOK' /\ RequestsShaped'
  <2> DEFINE r == inflight[w]
  <2>0. r \in Request /\ Shape(r)
    OBVIOUS
  <2>1. CommitSome(w) => inflight' = [inflight EXCEPT ![w] = Idle]
    BY DEF CommitSome, Finish, CommitCreateSale, CommitConvertToSale, CommitReassign,
           CommitUpdateSaleResend, CommitUpdateSaleStatus, CommitDeleteSale,
           CommitUpdateStockStatus, CommitDeleteStock
  <2>2. RequestsShaped' /\ inflight' \in [Worker -> Request]
    BY <1>3, <2>1
  <2> USE DEF Request, LiveStatuses, SaleStatuses, StockStatuses, SellableStatuses,
              Shape, SaleRequests
  <2>3. ASSUME NEW s \in Sale, CommitCreateSale(w, s) PROVE TypeOK'
    <3>1. r.to \in {"RESERVED", "PREPARING"} /\ r.stock \in Stock \cup {NoStock}
      BY <2>0, <2>3 DEF CommitCreateSale
    <3>2. stockStatus' \in [Stock -> StockStatuses \cup {"NONE", "PURGED"}]
      BY <3>1, <2>3 DEF CommitCreateSale, SetStock
    <3>3. QED
      BY <3>1, <3>2, <2>2, <2>3 DEF CommitCreateSale
  <2>4. ASSUME NEW s \in Sale, CommitConvertToSale(w, s) PROVE TypeOK'
    <3>1. r.to \in {"RESERVED", "PREPARING"} /\ r.stock \in Stock \cup {NoStock}
      BY <2>0, <2>4 DEF CommitConvertToSale
    <3>2. stockStatus' \in [Stock -> StockStatuses \cup {"NONE", "PURGED"}]
      BY <3>1, <2>4 DEF CommitConvertToSale, SetStock
    <3>3. QED
      BY <3>1, <3>2, <2>2, <2>4 DEF CommitConvertToSale
  <2>5. CASE CommitReassign(w)
    BY <2>0, <2>2, <2>5 DEF CommitReassign
  <2>6. CASE CommitUpdateSaleResend(w)
    BY <2>0, <2>2, <2>6 DEF CommitUpdateSaleResend
  <2>7. CASE CommitUpdateSaleStatus(w)
    <3>1. r.to \in SaleStatuses /\ r.sale \in Sale /\ r.link \in Stock \cup {NoStock}
      BY <2>0, <2>7 DEF CommitUpdateSaleStatus, validTransitions
    <3>2. StockStatusFor(r.to) \in StockStatuses
      BY DEF StockStatusFor
    <3>3. stockStatus' \in [Stock -> StockStatuses \cup {"NONE", "PURGED"}]
      BY <3>1, <3>2, <2>7 DEF CommitUpdateSaleStatus, SetStock
    <3>4. soldBy' \in [Stock -> Sale \cup {NoSale}]
      BY <3>1, <2>7 DEF CommitUpdateSaleStatus, StampSoldDate
    <3>5. QED
      BY <3>1, <3>3, <3>4, <2>2, <2>7 DEF CommitUpdateSaleStatus
  <2>8. CASE CommitDeleteSale(w)
    <3>1. stockStatus' \in [Stock -> StockStatuses \cup {"NONE", "PURGED"}]
      BY <2>0, <2>8 DEF CommitDeleteSale, SetStock
    <3>2. QED
      BY <3>1, <2>0, <2>2, <2>8 DEF CommitDeleteSale
  <2>9. CASE CommitUpdateStockStatus(w)
    BY <2>0, <2>2, <2>9 DEF CommitUpdateStockStatus, SetStock
  <2>10. CASE CommitDeleteStock(w)
    BY <2>0, <2>2, <2>10 DEF CommitDeleteStock
  <2>11. QED
    BY <1>3, <2>2, <2>3, <2>4, <2>5, <2>6, <2>7, <2>8, <2>9, <2>10 DEF CommitSome
<1>4. ASSUME NEW k \in Stock, NEW st \in SellableStatuses, CreateStock(k, st)
      PROVE  TypeOK' /\ RequestsShaped'
  BY <1>4 DEF CreateStock, SetStock, SellableStatuses, StockStatuses
<1>5. ASSUME NEW ks \in SUBSET Stock, DeleteVehicle(ks) PROVE TypeOK' /\ RequestsShaped'
  BY <1>5 DEF DeleteVehicle
<1>6. CASE UNCHANGED vars
  BY <1>6 DEF vars
<1>7. QED
  BY <1>1, <1>2, <1>3, <1>4, <1>5, <1>6 DEF Next

\* Every variable keeps its type, for every set of sales, cars and workers.
THEOREM TypeCorrect == Spec => []TypeOK
<1>1. Spec => [](TypeOK /\ RequestsShaped)
  BY InitTyped, StepTyped, PTL DEF Spec
<1>2. QED BY <1>1, PTL
-----------------------------------------------------------------------------
\* Beginning or failing a request writes no row.
LEMMA RowsUntouched ==
  ASSUME NEW w \in Worker, BeginSome(w) \/ FailRequest(w)
  PROVE  UNCHANGED <<saleStatus, saleStock, stockStatus, deleted, soldBy>>
<1> USE DEF Begin, saleRows, stockRows
<1>1. CASE FailRequest(w)
  BY <1>1 DEF FailRequest
<1>2. CASE BeginSome(w)
  BY <1>2 DEF BeginSome, BeginCreateSale, BeginConvertToSale, BeginAssignStock,
         BeginUpdateSaleStock, BeginUpdateSaleResend, BeginDeleteSale,
         BeginUpdateSaleStatus, BeginDeleteStock, BeginUpdateStockStatus
<1>3. QED BY <1>1, <1>2

\* The unique index keeps every car on at most one sale through every step,
\* whatever overlaps.
LEMMA StepUnique ==
  TypeOK /\ RequestsShaped /\ UniqueLink /\ [Next]_vars => UniqueLink'
<1> SUFFICES ASSUME TypeOK, RequestsShaped, UniqueLink, [Next]_vars
             PROVE  UniqueLink'
  OBVIOUS
<1> USE DEF UniqueLink
<1>1. CASE UNCHANGED saleStock
  BY <1>1
<1>2. ASSUME NEW s \in Sale, NEW k \in Stock \cup {NoStock}, LinkAllowed(s, k),
             saleStock' = [saleStock EXCEPT ![s] = k]
      PROVE  UniqueLink'
  BY <1>2 DEF LinkAllowed, TypeOK
<1>3. ASSUME NEW w \in Worker, CommitSome(w) PROVE UniqueLink'
  <2> DEFINE r == inflight[w]
  <2>0. r \in Request /\ Shape(r)
    BY DEF TypeOK, RequestsShaped
  <2>t. r.stock \in Stock \cup {NoStock} /\ r.link \in Stock \cup {NoStock}
    BY <2>0 DEF Request
  <2>n. \A s \in Sale : LinkAllowed(s, NoStock)
    BY DEF LinkAllowed
  <2>1. ASSUME NEW s \in Sale, CommitCreateSale(w, s) \/ CommitConvertToSale(w, s)
        PROVE  UniqueLink'
    BY <1>2, <2>1, <2>t DEF CommitCreateSale, CommitConvertToSale
  <2>2. CASE CommitReassign(w)
    BY <1>2, <2>2, <2>0, <2>t DEF CommitReassign, Shape, SaleRequests
  <2>3. CASE CommitUpdateSaleResend(w)
    BY <1>2, <2>3, <2>0, <2>t DEF CommitUpdateSaleResend, Shape, SaleRequests
  <2>4. CASE CommitUpdateSaleStatus(w)
    <3>1. r.sale \in Sale
      BY <2>4, <2>0 DEF CommitUpdateSaleStatus, Shape, SaleRequests
    <3>2. \/ UNCHANGED saleStock
          \/ saleStock' = [saleStock EXCEPT ![r.sale] = NoStock]
      BY <2>4 DEF CommitUpdateSaleStatus
    <3>3. QED BY <1>1, <1>2, <3>1, <3>2, <2>n
  <2>5. CASE CommitDeleteSale(w)
    BY <1>2, <2>5, <2>0, <2>n DEF CommitDeleteSale, Shape, SaleRequests
  <2>6. CASE CommitUpdateStockStatus(w) \/ CommitDeleteStock(w)
    BY <1>1, <2>6 DEF CommitUpdateStockStatus, CommitDeleteStock, saleRows
  <2>7. QED
    BY <1>3, <2>1, <2>2, <2>3, <2>4, <2>5, <2>6 DEF CommitSome
<1>4. ASSUME NEW w \in Worker, BeginSome(w) \/ FailRequest(w) PROVE UniqueLink'
  BY <1>1, <1>4, RowsUntouched
<1>5. ASSUME NEW k \in Stock, NEW st \in SellableStatuses, CreateStock(k, st)
      PROVE  UniqueLink'
  BY <1>1, <1>5 DEF CreateStock, saleRows
<1>6. ASSUME NEW ks \in SUBSET Stock, DeleteVehicle(ks) PROVE UniqueLink'
  BY <1>6 DEF DeleteVehicle, TypeOK
<1>7. QED
  BY <1>1, <1>3, <1>4, <1>5, <1>6 DEF Next, vars

\* No interleaving of any number of requests puts a car on two sales.
THEOREM LinksUnique == Spec => []UniqueLink
<1>1. Init => UniqueLink
  BY NullAssumption DEF Init, UniqueLink
<1>2. Spec => [](TypeOK /\ RequestsShaped /\ UniqueLink)
  BY <1>1, InitTyped, StepTyped, StepUnique, PTL DEF Spec
<1>3. QED BY <1>2, PTL
-----------------------------------------------------------------------------
\* No step marks a car SOLD and leaves its sold date null.
LEMMA StepStamped ==
  TypeOK /\ RequestsShaped /\ SoldIsStamped /\ [Next]_vars => SoldIsStamped'
<1> SUFFICES ASSUME TypeOK, RequestsShaped, SoldIsStamped, [Next]_vars
             PROVE  SoldIsStamped'
  OBVIOUS
<1> USE NullAssumption DEF SoldIsStamped
<1>1. CASE UNCHANGED <<stockStatus, soldBy>>
  BY <1>1
<1>2. ASSUME UNCHANGED soldBy,
             \A k \in Stock : stockStatus'[k] \in {stockStatus[k], "AVAILABLE", "DEMO",
                                                   "RESERVED", "PREPARING"}
      PROVE  SoldIsStamped'
  BY <1>2
<1>3. ASSUME NEW w \in Worker, CommitSome(w) PROVE SoldIsStamped'
  <2> DEFINE r == inflight[w]
  <2>0. r \in Request /\ Shape(r)
    BY DEF TypeOK, RequestsShaped
  <2>1. ASSUME NEW s \in Sale, CommitCreateSale(w, s) \/ CommitConvertToSale(w, s)
        PROVE  SoldIsStamped'
    BY <1>1, <1>2, <2>1, <2>0 DEF CommitCreateSale, CommitConvertToSale, SetStock, TypeOK
  <2>2. CASE CommitReassign(w)
    BY <1>2, <2>2, <2>0 DEF CommitReassign, Shape
  <2>3. CASE CommitUpdateSaleResend(w)
    BY <1>1, <2>3 DEF CommitUpdateSaleResend, stockRows
  <2>4. CASE CommitUpdateSaleStatus(w)
    <3>1. CASE r.link = NoStock
      BY <1>1, <2>4, <3>1 DEF CommitUpdateSaleStatus
    <3>2. CASE r.link # NoStock
      <4>1. r.sale \in Sale /\ r.link \in Stock /\ <<r.seen, r.to>> \in validTransitions
        BY <2>4, <2>0, <3>2 DEF CommitUpdateSaleStatus, Shape, SaleRequests, Request
      <4>2. stockStatus' = [stockStatus EXCEPT ![r.link] = StockStatusFor(r.to)]
        BY <2>4, <3>2 DEF CommitUpdateSaleStatus, SetStock
      <4>3. StampSoldDate(r.sale, r.link, r.to)
        BY <2>4, <3>2 DEF CommitUpdateSaleStatus
      <4>4. \A k \in Stock : k # r.link => stockStatus'[k] = stockStatus[k] /\ soldBy'[k] = soldBy[k]
        BY <4>1, <4>2, <4>3 DEF StampSoldDate, TypeOK
      <4>5. StockStatusFor(r.to) = "SOLD" => r.to \in {"DELIVERED", "COMPLETED"}
        BY DEF StockStatusFor
      <4>6. r.to \in {"DELIVERED", "COMPLETED"} => soldBy'[r.link] # NoSale
        BY <4>1, <4>3 DEF StampSoldDate, TypeOK
      <4>7. stockStatus'[r.link] = StockStatusFor(r.to)
        BY <4>1, <4>2 DEF TypeOK
      <4>8. QED BY <4>4, <4>5, <4>6, <4>7
    <3>3. QED BY <3>1, <3>2
  <2>5. CASE CommitDeleteSale(w)
    BY <1>1, <1>2, <2>5 DEF CommitDeleteSale, SetStock, TypeOK
  <2>6. CASE CommitUpdateStockStatus(w)
    BY <1>2, <2>6, <2>0 DEF CommitUpdateStockStatus, SetStock, TypeOK, Shape, SellableStatuses
  <2>7. CASE CommitDeleteStock(w)
    BY <1>1, <2>7 DEF CommitDeleteStock
  <2>8. QED
    BY <1>3, <2>1, <2>2, <2>3, <2>4, <2>5, <2>6, <2>7 DEF CommitSome
<1>4. ASSUME NEW w \in Worker, BeginSome(w) \/ FailRequest(w) PROVE SoldIsStamped'
  BY <1>1, <1>4, RowsUntouched
<1>5. ASSUME NEW k \in Stock, NEW st \in SellableStatuses, CreateStock(k, st)
      PROVE  SoldIsStamped'
  BY <1>2, <1>5 DEF CreateStock, SetStock, SellableStatuses, TypeOK
<1>6. ASSUME NEW ks \in SUBSET Stock, DeleteVehicle(ks) PROVE SoldIsStamped'
  BY <1>6 DEF DeleteVehicle, TypeOK
<1>7. QED
  BY <1>1, <1>3, <1>4, <1>5, <1>6 DEF Next, vars

\* A car marked SOLD has a sold date, whatever overlaps.
THEOREM SoldCarsAreStamped == Spec => []SoldIsStamped
<1>1. Init => SoldIsStamped
  BY DEF Init, SoldIsStamped
<1>2. Spec => [](TypeOK /\ RequestsShaped /\ SoldIsStamped)
  BY <1>1, InitTyped, StepTyped, StepStamped, PTL DEF Spec
<1>3. QED BY <1>2, PTL
-----------------------------------------------------------------------------
(***************************************************************************)
(* From here on, requests on one sale do not overlap.                      *)
(***************************************************************************)

\* The agreement of the sale table and the stock table.
TablesAgree ==
    /\ UniqueLink
    /\ HeldUnitsAreLinked
    /\ StatusesAgree
    /\ DeliveredOwnsItsUnit

OrderlyInv == TypeOK /\ RequestsShaped /\ TablesAgree /\ SnapshotsFresh /\ NoCollision

\* A sale that is linked to a car is live, and the car is held.
LEMMA LinkedIsHeld ==
  ASSUME TypeOK, TablesAgree, NEW s \in Sale, saleStock[s] # NoStock
  PROVE  /\ saleStatus[s] \in LiveStatuses
         /\ saleStock[s] \in Stock
         /\ stockStatus[saleStock[s]] \in HeldStatuses
  BY DEF TablesAgree, StatusesAgree, HeldStatuses, LiveStatuses, TypeOK

\* A commit changes only the row of its own sale, or inserts a new one, and
\* only the car it names or one that some sale holds.
LEMMA CommitFootprint ==
  ASSUME OrderlyInv, NEW w \in Worker, CommitSome(w)
  PROVE  /\ \A s \in Sale : \/ s = inflight[w].sale
                            \/ saleStatus[s] = "NONE"
                            \/ saleStatus'[s] = saleStatus[s] /\ saleStock'[s] = saleStock[s]
         /\ \A k \in Stock : \/ k = inflight[w].stock
                             \/ \E s \in Sale : saleStock[s] = k
                             \/ stockStatus'[k] = stockStatus[k]
<1> DEFINE r == inflight[w]
<1>0. TypeOK /\ r \in Request /\ Shape(r) /\ Fresh(r)
  BY DEF OrderlyInv, TypeOK, RequestsShaped, SnapshotsFresh
<1> USE DEF TypeOK, SetStock
<1>1. ASSUME NEW s \in Sale, CommitCreateSale(w, s) \/ CommitConvertToSale(w, s)
      PROVE  /\ \A t \in Sale : \/ saleStatus[t] = "NONE"
                                \/ saleStatus'[t] = saleStatus[t] /\ saleStock'[t] = saleStock[t]
             /\ \A k \in Stock : k = r.stock \/ stockStatus'[k] = stockStatus[k]
  BY <1>0, <1>1 DEF CommitCreateSale, CommitConvertToSale
<1>2. ASSUME CommitReassign(w)
      PROVE  /\ \A s \in Sale : \/ s = r.sale
                                \/ saleStatus'[s] = saleStatus[s] /\ saleStock'[s] = saleStock[s]
             /\ \A k \in Stock : k = r.stock \/ k = r.link \/ stockStatus'[k] = stockStatus[k]
  BY <1>0, <1>2 DEF CommitReassign
<1>3. ASSUME CommitUpdateSaleResend(w) \/ CommitUpdateSaleStatus(w) \/ CommitDeleteSale(w)
      PROVE  /\ \A s \in Sale : \/ s = r.sale
                                \/ saleStatus'[s] = saleStatus[s] /\ saleStock'[s] = saleStock[s]
             /\ \A k \in Stock : k = r.link \/ stockStatus'[k] = stockStatus[k]
  BY <1>0, <1>3 DEF CommitUpdateSaleResend, CommitUpdateSaleStatus, CommitDeleteSale, stockRows
<1>4. ASSUME CommitUpdateStockStatus(w) \/ CommitDeleteStock(w)
      PROVE  /\ UNCHANGED <<saleStatus, saleStock>>
             /\ \A k \in Stock : k = r.stock \/ stockStatus'[k] = stockStatus[k]
  BY <1>0, <1>4 DEF CommitUpdateStockStatus, CommitDeleteStock, saleRows
<1>5. CommitReassign(w) \/ CommitUpdateSaleResend(w) \/ CommitUpdateSaleStatus(w) \/ CommitDeleteSale(w)
      => \A k \in Stock : k = r.link => \E s \in Sale : saleStock[s] = k
  BY <1>0, FoundIsFresh DEF CommitReassign, CommitUpdateSaleResend, CommitUpdateSaleStatus,
              CommitDeleteSale, Shape, SaleRequests
<1>6. QED
  BY <1>1, <1>2, <1>3, <1>4, <1>5 DEF CommitSome

\* No commit writes the row of a purged car, for it does not find it.
LEMMA PurgedStay ==
  ASSUME TypeOK, RequestsShaped, NEW w \in Worker, CommitSome(w),
         NEW k \in Stock, stockStatus[k] = "PURGED"
  PROVE  stockStatus'[k] = "PURGED" /\ soldBy'[k] = soldBy[k]
<1> DEFINE r == inflight[w]
<1>0. r \in Request /\ Shape(r)
  BY DEF TypeOK, RequestsShaped
<1>1. /\ ~Sellable(k)
      /\ \A j \in Stock \cup {NoStock} : RowFound(j) => j # k
      /\ ~Registered(k)
  BY NullAssumption DEF Sellable, SellableStatuses, RowFound, Registered, StockStatuses
<1> USE DEF TypeOK, SetStock
<1>2. ASSUME NEW s \in Sale, CommitCreateSale(w, s) PROVE stockStatus'[k] = "PURGED" /\ soldBy'[k] = soldBy[k]
  BY <1>1, <1>2 DEF CommitCreateSale
<1>3. ASSUME NEW s \in Sale, CommitConvertToSale(w, s) PROVE stockStatus'[k] = "PURGED" /\ soldBy'[k] = soldBy[k]
  BY <1>0, <1>1, <1>3 DEF CommitConvertToSale, Request
<1>4. CASE CommitReassign(w)
  BY <1>0, <1>1, <1>4 DEF CommitReassign, Request
<1>5. CASE CommitUpdateSaleStatus(w)
  BY <1>0, <1>1, <1>5 DEF CommitUpdateSaleStatus, StampSoldDate, Request
<1>6. CASE CommitDeleteSale(w)
  BY <1>0, <1>1, <1>6 DEF CommitDeleteSale, Request
<1>7. CASE CommitUpdateStockStatus(w)
  BY <1>1, <1>7 DEF CommitUpdateStockStatus
<1>8. CASE CommitUpdateSaleResend(w) \/ CommitDeleteStock(w)
  BY <1>8 DEF CommitUpdateSaleResend, CommitDeleteStock, stockRows
<1>9. QED
  BY <1>2, <1>3, <1>4, <1>5, <1>6, <1>7, <1>8 DEF CommitSome

LEMMA PurgedStays ==
  ASSUME OrderlyInv, NEW w \in Worker, CommitSome(w)
  PROVE  \A k \in Stock : stockStatus[k] = "PURGED" =>
             stockStatus'[k] = "PURGED" /\ soldBy'[k] = soldBy[k]
  BY PurgedStay DEF OrderlyInv

\* What the other requests have read is still true after a commit.
LEMMA CommitKeepsSnapshots ==
  ASSUME OrderlyInv, NEW w \in Worker, CommitSome(w)
  PROVE  SnapshotsFresh' /\ NoCollision'
<1>1. inflight' = [inflight EXCEPT ![w] = Idle]
  BY DEF CommitSome, Finish, CommitCreateSale, CommitConvertToSale, CommitReassign,
         CommitUpdateSaleResend, CommitUpdateSaleStatus, CommitDeleteSale,
         CommitUpdateStockStatus, CommitDeleteStock
<1>2. \A v \in Worker : v # w => inflight'[v] = inflight[v]
  BY <1>1 DEF OrderlyInv, TypeOK
<1>3. inflight'[w] = Idle
  BY <1>1 DEF OrderlyInv, TypeOK
<1>4. NoCollision'
  <2>1. ASSUME NEW v \in Worker PROVE ~Collide(Idle, inflight[v]) /\ ~Collide(inflight[v], Idle)
    BY NullAssumption DEF OrderlyInv, Collide, Idle, RequestsShaped, Shape
  <2>2. ASSUME NEW u \in Worker, NEW v \in Worker, u # v
        PROVE  ~Collide(inflight'[u], inflight'[v])
    BY <1>2, <1>3, <2>1, <2>2 DEF OrderlyInv, NoCollision
  <2>3. QED BY <2>2 DEF NoCollision, Collide
<1>5. ASSUME NEW v \in Worker, v # w PROVE Fresh(inflight[v])'
  <2> DEFINE q == inflight[v]
  <2>1. q \in Request /\ Shape(q) /\ Fresh(q) /\ ~Collide(inflight[w], q)
    BY <1>5 DEF OrderlyInv, TypeOK, RequestsShaped, SnapshotsFresh, NoCollision
  <2>2. CASE q.op \in SaleRequests
    <3>1. q.sale \in Sale /\ q.sale # inflight[w].sale /\ saleStatus[q.sale] # "NONE"
      BY <2>1, <2>2, NullAssumption
         DEF Shape, Fresh, Collide, SaleRequests, validTransitions, LiveStatuses
    <3>2. saleStatus'[q.sale] = saleStatus[q.sale] /\ saleStock'[q.sale] = saleStock[q.sale]
      BY <3>1, CommitFootprint
    <3>3. q.link \in Stock /\ stockStatus[q.link] = "PURGED" => stockStatus'[q.link] = "PURGED"
      BY PurgedStay DEF OrderlyInv
    <3>4. QED BY <1>2, <1>5, <2>1, <2>2, <3>2, <3>3 DEF Fresh, SaleRequests
  <2>3. CASE q.op = "updateStockStatus"
    <3>1. q.stock \in Stock /\ q.stock # inflight[w].stock
      BY <2>1, <2>3 DEF Shape, Collide
    <3>2. ~ \E s \in Sale : saleStock[s] = q.stock
      BY <2>1, <2>3, <3>1, LinkedIsHeld, NullAssumption
         DEF Fresh, HeldStatuses, SellableStatuses, OrderlyInv
    <3>3. stockStatus'[q.stock] = stockStatus[q.stock]
      BY <3>1, <3>2, CommitFootprint
    <3>4. QED BY <1>2, <1>5, <2>1, <2>3, <3>3 DEF Fresh, SaleRequests
  <2>4. QED BY <1>2, <1>5, <2>2, <2>3 DEF Fresh
<1>6. Fresh(inflight[w])'
  BY <1>3 DEF Fresh, Idle, SaleRequests
<1>7. QED BY <1>4, <1>5, <1>6 DEF SnapshotsFresh
-----------------------------------------------------------------------------
\* createSale and convertToSale insert a sale whose car nobody holds.
LEMMA InsertAgrees ==
  ASSUME OrderlyInv, NEW w \in Worker, NEW s \in Sale,
         CommitCreateSale(w, s) \/ CommitConvertToSale(w, s)
  PROVE  HeldUnitsAreLinked' /\ StatusesAgree' /\ DeliveredOwnsItsUnit'
<1> DEFINE r == inflight[w]
           k == r.stock
<1> USE DEF OrderlyInv
<1>0. /\ r \in Request /\ Shape(r) /\ k \in Stock \cup {NoStock}
      /\ r.to \in {"RESERVED", "PREPARING"}
  BY DEF TypeOK, RequestsShaped, Request, Shape, CommitCreateSale, CommitConvertToSale
<1>1. saleStatus[s] = "NONE" /\ saleStock[s] = NoStock
  BY LinkedIsHeld DEF LiveStatuses, CommitCreateSale, CommitConvertToSale
<1>2. /\ saleStatus' = [saleStatus EXCEPT ![s] = r.to]
      /\ saleStock' = [saleStock EXCEPT ![s] = k]
      /\ LinkAllowed(s, k)
      /\ UNCHANGED soldBy
      /\ \/ k = NoStock /\ UNCHANGED stockStatus
         \/ k # NoStock /\ stockStatus' = [stockStatus EXCEPT ![k] = "RESERVED"]
  BY DEF CommitCreateSale, CommitConvertToSale, SetStock
<1>3. /\ saleStatus'[s] = r.to /\ saleStock'[s] = k
      /\ \A t \in Sale : t # s => saleStatus'[t] = saleStatus[t] /\ saleStock'[t] = saleStock[t]
      /\ \A j \in Stock : stockStatus'[j] = IF j = k THEN "RESERVED" ELSE stockStatus[j]
  BY <1>0, <1>2, NullAssumption DEF TypeOK
<1>4. \A t \in Sale : t # s /\ saleStock[t] # NoStock => saleStock[t] # k
  BY <1>2 DEF LinkAllowed
<1>5. HeldUnitsAreLinked'
  BY <1>0, <1>1, <1>3, <1>4, NullAssumption DEF TablesAgree, HeldUnitsAreLinked, HeldStatuses
<1>6. StatusesAgree'
  <2>1. ASSUME NEW t \in Sale, t # s, saleStock[t] # NoStock
        PROVE  stockStatus'[saleStock[t]] = stockStatus[saleStock[t]]
    BY <1>3, <1>4, <2>1 DEF TypeOK
  <2>2. k # NoStock => k \in Stock /\ stockStatus'[k] = "RESERVED"
    BY <1>0, <1>3
  <2>3. QED BY <1>0, <1>3, <2>1, <2>2 DEF TablesAgree, StatusesAgree
<1>7. DeliveredOwnsItsUnit'
  <2>1. \A t \in Sale : saleStatus'[t] \in {"DELIVERED", "COMPLETED"} => t # s
    BY <1>0, <1>3
  <2>2. \A j \in Stock : stockStatus[j] = "PURGED" => stockStatus'[j] = "PURGED"
    BY PurgedStays DEF CommitSome
  <2>3. QED BY <1>2, <1>3, <2>1, <2>2 DEF TablesAgree, DeliveredOwnsItsUnit
<1>8. QED BY <1>5, <1>6, <1>7

\* assignStock and updateSale swap the car the sale still holds for a free one.
LEMMA ReassignAgrees ==
  ASSUME OrderlyInv, NEW w \in Worker, CommitReassign(w)
  PROVE  HeldUnitsAreLinked' /\ StatusesAgree' /\ DeliveredOwnsItsUnit'
<1> DEFINE r == inflight[w]
           s == r.sale
           k == r.stock
<1> USE DEF OrderlyInv
<1>0. /\ s \in Sale /\ k \in Stock
      /\ r.seen \in {"RESERVED", "PREPARING"} /\ r.to = r.seen
      /\ saleStatus[s] = r.seen /\ saleStock[s] = r.link
  BY FoundIsFresh
     DEF CommitReassign, TypeOK, RequestsShaped, SnapshotsFresh, Shape, SaleRequests
<1>1. stockStatus[k] \in SellableStatuses
  BY DEF CommitReassign, Sellable
<1>2. \A t \in Sale : saleStock[t] # k
  BY <1>0, <1>1, LinkedIsHeld, NullAssumption DEF SellableStatuses, HeldStatuses
<1>3. /\ UNCHANGED <<saleStatus, soldBy>>
      /\ saleStock'[s] = k
      /\ \A t \in Sale : t # s => saleStock'[t] = saleStock[t]
      /\ \A j \in Stock : stockStatus'[j] = IF j = k THEN r.to
                                            ELSE IF j = r.link THEN "AVAILABLE"
                                            ELSE stockStatus[j]
  BY <1>0 DEF CommitReassign, TypeOK
<1>4. \A t \in Sale : t # s /\ saleStock[t] # NoStock => saleStock[t] # r.link
  BY <1>0 DEF TablesAgree, UniqueLink
<1>5. HeldUnitsAreLinked'
  <2>1. ASSUME NEW j \in Stock
        PROVE  stockStatus'[j] \in HeldStatuses <=> \E t \in Sale : saleStock'[t] = j
    <3>1. CASE j = k
      BY <1>0, <1>3, <3>1 DEF HeldStatuses
    <3>2. CASE j # k /\ j = r.link
      BY <1>0, <1>3, <1>4, <3>2, NullAssumption DEF HeldStatuses
    <3>3. CASE j # k /\ j # r.link
      BY <1>0, <1>3, <3>3 DEF TablesAgree, HeldUnitsAreLinked
    <3>4. QED BY <3>1, <3>2, <3>3
  <2>2. QED BY <2>1 DEF HeldUnitsAreLinked, HeldStatuses
<1>6. StatusesAgree'
  <2>1. ASSUME NEW t \in Sale, t # s, saleStock[t] # NoStock
        PROVE  stockStatus'[saleStock[t]] = stockStatus[saleStock[t]]
    BY <1>2, <1>3, <1>4, <2>1 DEF TypeOK
  <2>2. stockStatus'[k] = saleStatus[s]
    BY <1>0, <1>3
  <2>3. QED BY <1>0, <1>3, <2>1, <2>2 DEF TablesAgree, StatusesAgree
<1>7. DeliveredOwnsItsUnit'
  <2>1. \A j \in Stock : stockStatus[j] = "PURGED" => stockStatus'[j] = "PURGED"
    BY PurgedStays DEF CommitSome
  <2>2. QED BY <1>0, <1>3, <2>1 DEF TablesAgree, DeliveredOwnsItsUnit
<1>8. QED BY <1>5, <1>6, <1>7

\* A status change moves the sale and the car it still holds together.
LEMMA StatusAgrees ==
  ASSUME OrderlyInv, NEW w \in Worker, CommitUpdateSaleStatus(w)
  PROVE  HeldUnitsAreLinked' /\ StatusesAgree' /\ DeliveredOwnsItsUnit'
<1> DEFINE r == inflight[w]
           s == r.sale
           k == r.link
<1> USE DEF OrderlyInv
<1>0. /\ s \in Sale /\ k \in Stock \cup {NoStock}
      /\ <<r.seen, r.to>> \in validTransitions
      /\ r.to = "DELIVERED" => k \in Stock
      /\ saleStatus[s] = r.seen /\ saleStock[s] = k
  BY FoundIsFresh
     DEF CommitUpdateSaleStatus, TypeOK, RequestsShaped, SnapshotsFresh, Shape,
         SaleRequests, Request
<1>1. /\ saleStatus'[s] = r.to
      /\ \A t \in Sale : t # s => saleStatus'[t] = saleStatus[t]
  BY <1>0 DEF CommitUpdateSaleStatus, TypeOK
<1>2. \A t \in Sale : t # s /\ saleStock[t] # NoStock => saleStock[t] # k
  BY <1>0 DEF TablesAgree, UniqueLink
<1>3. CASE k = NoStock
  <2>1. UNCHANGED <<saleStock, stockStatus, soldBy>>
    BY <1>3 DEF CommitUpdateSaleStatus
  <2>2. r.to \in {"DELIVERED", "COMPLETED"} => saleStatus[s] = "DELIVERED"
    BY <1>0, <1>3, NullAssumption DEF validTransitions
  <2>3. HeldUnitsAreLinked'
    BY <2>1 DEF TablesAgree, HeldUnitsAreLinked
  <2>4. StatusesAgree'
    BY <1>0, <1>1, <1>3, <2>1 DEF TablesAgree, StatusesAgree
  <2>5. DeliveredOwnsItsUnit'
    BY <1>1, <2>1, <2>2 DEF TablesAgree, DeliveredOwnsItsUnit
  <2>6. QED BY <2>3, <2>4, <2>5
<1>4. CASE k # NoStock
  <2>0. k \in Stock
    BY <1>0, <1>4
  <2>1. /\ stockStatus' = [stockStatus EXCEPT ![k] = StockStatusFor(r.to)]
        /\ StampSoldDate(s, k, r.to)
        /\ saleStock' = IF r.to = "CANCELLED" THEN [saleStock EXCEPT ![s] = NoStock] ELSE saleStock
    BY <1>4 DEF CommitUpdateSaleStatus, SetStock
  <2>2. /\ stockStatus'[k] = StockStatusFor(r.to)
        /\ \A j \in Stock : j # k => stockStatus'[j] = stockStatus[j] /\ soldBy'[j] = soldBy[j]
    BY <2>0, <2>1 DEF TypeOK, StampSoldDate
  <2>3. /\ saleStock'[s] = IF r.to = "CANCELLED" THEN NoStock ELSE k
        /\ \A t \in Sale : t # s => saleStock'[t] = saleStock[t]
    BY <1>0, <2>1 DEF TypeOK
  <2>4. /\ r.to = "CANCELLED" => StockStatusFor(r.to) = "AVAILABLE"
        /\ r.to = "PREPARING" => StockStatusFor(r.to) = "PREPARING"
        /\ r.to \in {"DELIVERED", "COMPLETED"} => StockStatusFor(r.to) = "SOLD"
        /\ r.to \in {"CANCELLED", "PREPARING", "DELIVERED", "COMPLETED"}
    BY <1>0 DEF StockStatusFor, validTransitions
  <2>5. HeldUnitsAreLinked'
    <3>1. ASSUME NEW j \in Stock
          PROVE  stockStatus'[j] \in HeldStatuses <=> \E t \in Sale : saleStock'[t] = j
      <4>1. CASE j = k
        BY <1>0, <1>2, <1>4, <2>2, <2>3, <2>4, <4>1 DEF HeldStatuses
      <4>2. CASE j # k
        <5>1. (\E t \in Sale : saleStock'[t] = j) <=> (\E t \in Sale : saleStock[t] = j)
          BY <1>0, <2>3, <4>2, NullAssumption
        <5>2. QED BY <2>2, <4>2, <5>1 DEF TablesAgree, HeldUnitsAreLinked
      <4>3. QED BY <4>1, <4>2
    <3>2. QED BY <3>1 DEF HeldUnitsAreLinked, HeldStatuses
  <2>6. StatusesAgree'
    <3>1. ASSUME NEW t \in Sale, t # s, saleStock[t] # NoStock
          PROVE  stockStatus'[saleStock[t]] = stockStatus[saleStock[t]]
      BY <1>2, <2>2, <3>1 DEF TypeOK
    <3>2. saleStock'[s] # NoStock =>
            <<saleStatus'[s], stockStatus'[k]>> \in
              {<<"PREPARING", "PREPARING">>, <<"DELIVERED", "SOLD">>, <<"COMPLETED", "SOLD">>}
      BY <1>1, <2>2, <2>3, <2>4
    <3>3. QED BY <1>0, <1>1, <2>3, <3>1, <3>2 DEF TablesAgree, StatusesAgree
  <2>7. DeliveredOwnsItsUnit'
    <3> DEFINE Owns(t, j) == /\ soldBy[j] = t
                             /\ \/ saleStock[t] = j
                                \/ saleStock[t] = NoStock /\ stockStatus[j] = "PURGED"
               OwnsNext(t, j) == /\ soldBy'[j] = t
                                 /\ \/ saleStock'[t] = j
                                    \/ saleStock'[t] = NoStock /\ stockStatus'[j] = "PURGED"
    <3>1. ASSUME NEW t \in Sale, t # s, saleStatus'[t] \in {"DELIVERED", "COMPLETED"}
          PROVE  \E j \in Stock : OwnsNext(t, j)
      <4>0. saleStatus[t] \in {"DELIVERED", "COMPLETED"}
        BY <1>1, <3>1
      <4>1. PICK j \in Stock : Owns(t, j)
        BY <4>0 DEF TablesAgree, DeliveredOwnsItsUnit
      <4>2. stockStatus[j] = "PURGED" => stockStatus'[j] = "PURGED" /\ soldBy'[j] = soldBy[j]
        BY PurgedStays DEF CommitSome
      <4>3. saleStock[t] = j => j # k
        BY <1>2, <1>4, <3>1, NullAssumption
      <4>4. OwnsNext(t, j)
        BY <2>2, <2>3, <3>1, <4>1, <4>2, <4>3
      <4>5. QED BY <4>4
    <3>2. ASSUME r.to \in {"DELIVERED", "COMPLETED"}
          PROVE  saleStock'[s] = k /\ soldBy'[k] = s
      <4>1. saleStock'[s] = k
        BY <2>3, <3>2
      <4>2. CASE r.to = "DELIVERED"
        BY <1>4, <2>0, <2>1, <4>1, <4>2 DEF StampSoldDate, TypeOK
      <4>3. CASE r.to = "COMPLETED"
        <5>1. soldBy[k] = s
          BY <1>0, <1>4, <4>3 DEF TablesAgree, DeliveredOwnsItsUnit, validTransitions
        <5>2. QED BY <1>0, <1>4, <2>1, <4>1, <4>3, <5>1, NullAssumption DEF StampSoldDate
      <4>4. QED BY <3>2, <4>2, <4>3
    <3>3. QED BY <1>1, <2>0, <3>1, <3>2 DEF DeliveredOwnsItsUnit
  <2>8. QED BY <2>5, <2>6, <2>7
<1>5. QED BY <1>3, <1>4

\* Deleting a sale puts the car it still holds back on the floor.
LEMMA DeleteAgrees ==
  ASSUME OrderlyInv, NEW w \in Worker, CommitDeleteSale(w)
  PROVE  HeldUnitsAreLinked' /\ StatusesAgree' /\ DeliveredOwnsItsUnit'
<1> DEFINE r == inflight[w]
           s == r.sale
           k == r.link
<1> USE DEF OrderlyInv
<1>0. s \in Sale /\ k \in Stock \cup {NoStock} /\ saleStock[s] = k
  BY FoundIsFresh
     DEF CommitDeleteSale, TypeOK, RequestsShaped, SnapshotsFresh, Shape,
         SaleRequests, Request
<1>1. /\ saleStatus'[s] = "DELETED" /\ saleStock'[s] = NoStock
      /\ \A t \in Sale : t # s => saleStatus'[t] = saleStatus[t] /\ saleStock'[t] = saleStock[t]
      /\ UNCHANGED soldBy
      /\ \A j \in Stock : stockStatus'[j] = IF j = k THEN "AVAILABLE" ELSE stockStatus[j]
  BY <1>0, NullAssumption DEF CommitDeleteSale, SetStock, TypeOK
<1>2. \A t \in Sale : t # s /\ saleStock[t] # NoStock => saleStock[t] # k
  BY <1>0 DEF TablesAgree, UniqueLink
<1>3. HeldUnitsAreLinked'
  <2>1. ASSUME NEW j \in Stock
        PROVE  stockStatus'[j] \in HeldStatuses <=> \E t \in Sale : saleStock'[t] = j
    <3>1. CASE j = k
      BY <1>0, <1>1, <1>2, <3>1, NullAssumption DEF HeldStatuses
    <3>2. CASE j # k
      <4>1. (\E t \in Sale : saleStock'[t] = j) <=> (\E t \in Sale : saleStock[t] = j)
        BY <1>0, <1>1, <3>2, NullAssumption
      <4>2. QED BY <1>1, <3>2, <4>1 DEF TablesAgree, HeldUnitsAreLinked
    <3>3. QED BY <3>1, <3>2
  <2>2. QED BY <2>1 DEF HeldUnitsAreLinked, HeldStatuses
<1>4. StatusesAgree'
  <2>1. ASSUME NEW t \in Sale, t # s, saleStock[t] # NoStock
        PROVE  stockStatus'[saleStock[t]] = stockStatus[saleStock[t]]
    BY <1>1, <1>2, <2>1 DEF TypeOK
  <2>2. QED BY <1>1, <2>1 DEF TablesAgree, StatusesAgree
<1>5. DeliveredOwnsItsUnit'
  <2>1. \A j \in Stock : stockStatus[j] = "PURGED" => stockStatus'[j] = "PURGED"
    BY PurgedStays DEF CommitSome
  <2>2. QED BY <1>1, <2>1 DEF TablesAgree, DeliveredOwnsItsUnit
<1>6. QED BY <1>3, <1>4, <1>5

\* A re-save writes the link the sale still has.
LEMMA ResendChangesNothing ==
  ASSUME OrderlyInv, NEW w \in Worker, CommitUpdateSaleResend(w)
  PROVE  UNCHANGED <<saleStatus, saleStock, stockStatus, deleted, soldBy>>
<1>1. inflight[w].sale \in Sale /\ saleStock[inflight[w].sale] = inflight[w].link
  BY FoundIsFresh
     DEF OrderlyInv, TypeOK, CommitUpdateSaleResend, RequestsShaped, SnapshotsFresh, Shape,
         SaleRequests
<1>2. QED BY <1>1 DEF OrderlyInv, TypeOK, CommitUpdateSaleResend, stockRows

\* A manual status change, and a new car, only touch cars nobody holds.
LEMMA FloorAgrees ==
  ASSUME TypeOK, TablesAgree, NEW k \in Stock, NEW st \in SellableStatuses,
         stockStatus[k] \notin HeldStatuses \cup {"PURGED"},
         SetStock(k, st), UNCHANGED <<saleStatus, saleStock, soldBy>>
  PROVE  HeldUnitsAreLinked' /\ StatusesAgree' /\ DeliveredOwnsItsUnit'
<1>1. \A s \in Sale : saleStock[s] # k
  BY DEF TablesAgree, HeldUnitsAreLinked
<1>2. \A j \in Stock : stockStatus'[j] = IF j = k THEN st ELSE stockStatus[j]
  BY DEF SetStock, TypeOK
<1>3. HeldUnitsAreLinked'
  BY <1>1, <1>2 DEF TablesAgree, HeldUnitsAreLinked, HeldStatuses, SellableStatuses
<1>4. StatusesAgree'
  BY <1>1, <1>2 DEF TablesAgree, StatusesAgree, TypeOK
<1>5. DeliveredOwnsItsUnit'
  BY <1>2 DEF TablesAgree, DeliveredOwnsItsUnit
<1>6. QED BY <1>3, <1>4, <1>5

\* The purge takes each purged car from the sale that holds it, and a request
\* that has read the car will not find it.
LEMMA PurgeAgrees ==
  ASSUME OrderlyInv, NEW ks \in SUBSET Stock, DeleteVehicle(ks)
  PROVE  /\ HeldUnitsAreLinked' /\ StatusesAgree' /\ DeliveredOwnsItsUnit'
         /\ SnapshotsFresh' /\ NoCollision'
<1> USE DEF OrderlyInv
<1>1. /\ \A s \in Sale : saleStock'[s] = IF saleStock[s] \in ks THEN NoStock ELSE saleStock[s]
      /\ \A k \in Stock : stockStatus'[k] = IF k \in ks THEN "PURGED" ELSE stockStatus[k]
      /\ UNCHANGED <<saleStatus, soldBy, inflight>>
  BY DEF DeleteVehicle, TypeOK
<1>2. HeldUnitsAreLinked'
  <2>1. ASSUME NEW k \in Stock
        PROVE  stockStatus'[k] \in HeldStatuses <=> \E s \in Sale : saleStock'[s] = k
    <3>1. CASE k \in ks
      BY <1>1, <3>1, NullAssumption DEF HeldStatuses
    <3>2. CASE k \notin ks
      <4>1. (\E s \in Sale : saleStock'[s] = k) <=> (\E s \in Sale : saleStock[s] = k)
        BY <1>1, <3>2, NullAssumption
      <4>2. QED BY <1>1, <3>2, <4>1 DEF TablesAgree, HeldUnitsAreLinked
    <3>3. QED BY <3>1, <3>2
  <2>2. QED BY <2>1 DEF HeldUnitsAreLinked, HeldStatuses
<1>3. StatusesAgree'
  BY <1>1 DEF TablesAgree, StatusesAgree, TypeOK
<1>4. DeliveredOwnsItsUnit'
  BY <1>1 DEF TablesAgree, DeliveredOwnsItsUnit
<1>5. SnapshotsFresh'
  <2>1. ASSUME NEW w \in Worker PROVE Fresh(inflight[w])'
    <3> DEFINE r == inflight[w]
    <3>1. Fresh(r) /\ Shape(r) /\ r \in Request
      BY DEF SnapshotsFresh, RequestsShaped, TypeOK
    <3>2. CASE r.op \in SaleRequests
      BY <1>1, <3>1, <3>2, NullAssumption DEF Fresh, SaleRequests, Shape, Request
    <3>3. CASE r.op = "updateStockStatus"
      BY <1>1, <3>1, <3>3 DEF Fresh, SaleRequests, Shape
    <3>4. QED BY <1>1, <3>2, <3>3 DEF Fresh
  <2>2. QED BY <2>1 DEF SnapshotsFresh
<1>6. NoCollision'
  BY <1>1 DEF NoCollision, Collide
<1>7. QED BY <1>2, <1>3, <1>4, <1>5, <1>6
-----------------------------------------------------------------------------
LEMMA InitOrderly == Init => OrderlyInv
<1> SUFFICES ASSUME Init PROVE OrderlyInv
  OBVIOUS
<1>1. TypeOK /\ RequestsShaped
  BY InitTyped
<1>2. TablesAgree
  BY NullAssumption DEF Init, TablesAgree, UniqueLink, HeldUnitsAreLinked, HeldStatuses,
                        StatusesAgree, DeliveredOwnsItsUnit
<1>3. SnapshotsFresh /\ NoCollision
  BY IdleIsRequest DEF Init, SnapshotsFresh, NoCollision, Collide, Idle
<1>4. QED BY <1>1, <1>2, <1>3 DEF OrderlyInv

\* A commit keeps the tables in agreement.
LEMMA CommitAgrees ==
  ASSUME OrderlyInv, NEW w \in Worker, CommitSome(w)
  PROVE  HeldUnitsAreLinked' /\ StatusesAgree' /\ DeliveredOwnsItsUnit'
<1> USE DEF OrderlyInv, TablesAgree
<1>1. CASE CommitUpdateSaleResend(w)
  BY <1>1, ResendChangesNothing
     DEF HeldUnitsAreLinked, StatusesAgree, DeliveredOwnsItsUnit
<1>2. CASE CommitUpdateStockStatus(w)
  <2> DEFINE r == inflight[w]
  <2>1. /\ r.stock \in Stock /\ r.to \in SellableStatuses
        /\ stockStatus[r.stock] \in SellableStatuses
    BY <1>2 DEF CommitUpdateStockStatus, RequestsShaped, SnapshotsFresh, Shape, Fresh,
                Registered, StockStatuses, SellableStatuses
  <2>2. stockStatus[r.stock] \notin HeldStatuses \cup {"PURGED"}
    BY <2>1 DEF SellableStatuses, HeldStatuses
  <2>3. SetStock(r.stock, r.to) /\ UNCHANGED <<saleStatus, saleStock, soldBy>>
    BY <1>2 DEF CommitUpdateStockStatus, saleRows
  <2>4. QED BY <2>1, <2>2, <2>3, FloorAgrees
<1>3. CASE CommitDeleteStock(w)
  BY <1>3 DEF CommitDeleteStock, saleRows, HeldUnitsAreLinked, StatusesAgree,
              DeliveredOwnsItsUnit
<1>4. QED
  BY <1>1, <1>2, <1>3, InsertAgrees, ReassignAgrees, StatusAgrees, DeleteAgrees DEF CommitSome

LEMMA StepOrderly ==
  ASSUME SameRowOverlap = FALSE
  PROVE  OrderlyInv /\ [Next]_vars => OrderlyInv'
<1> SUFFICES ASSUME OrderlyInv, [Next]_vars PROVE OrderlyInv'
  OBVIOUS
<1>1. TypeOK' /\ RequestsShaped' /\ UniqueLink'
  BY StepTyped, StepUnique DEF OrderlyInv, TablesAgree
<1> DEFINE Goal == HeldUnitsAreLinked' /\ StatusesAgree' /\ DeliveredOwnsItsUnit'
                   /\ SnapshotsFresh' /\ NoCollision'
<1>2. ASSUME NEW w \in Worker, CommitSome(w) PROVE Goal
  BY <1>2, CommitAgrees, CommitKeepsSnapshots
<1>3. ASSUME UNCHANGED <<saleStatus, saleStock, stockStatus, soldBy>>
      PROVE  HeldUnitsAreLinked' /\ StatusesAgree' /\ DeliveredOwnsItsUnit'
  BY <1>3 DEF OrderlyInv, TablesAgree, HeldUnitsAreLinked, StatusesAgree, DeliveredOwnsItsUnit
<1>4. ASSUME NEW w \in Worker, BeginSome(w) PROVE Goal
  <2>1. PICK r \in Request : Shape(r) /\ Fresh(r) /\ Begin(w, r)
    BY <1>4, BeginShape DEF OrderlyInv
  <2>2. UNCHANGED <<saleStatus, saleStock, stockStatus, deleted, soldBy>>
    BY <1>4, RowsUntouched
  <2>3. /\ inflight'[w] = r
        /\ \A v \in Worker : v # w => inflight'[v] = inflight[v]
        /\ \A v \in Worker : v # w => ~Collide(inflight[v], r)
    BY <2>1 DEF Begin, OrderlyInv, TypeOK
  <2>4. SnapshotsFresh'
    BY <2>1, <2>2, <2>3 DEF OrderlyInv, SnapshotsFresh, Fresh
  <2>5. \A v \in Worker : v # w => ~Collide(r, inflight[v])
    BY <2>3 DEF Collide
  <2>6. NoCollision'
    BY <2>3, <2>5 DEF OrderlyInv, NoCollision, Collide
  <2>7. QED BY <1>3, <2>2, <2>4, <2>6
<1>5. ASSUME NEW w \in Worker, FailRequest(w) PROVE Goal
  <2>1. UNCHANGED <<saleStatus, saleStock, stockStatus, deleted, soldBy>>
    BY <1>5, RowsUntouched
  <2>2. /\ inflight'[w] = Idle
        /\ \A v \in Worker : v # w => inflight'[v] = inflight[v]
    BY <1>5 DEF FailRequest, Finish, OrderlyInv, TypeOK
  <2>3. SnapshotsFresh'
    BY <2>1, <2>2 DEF OrderlyInv, SnapshotsFresh, Fresh, Idle, SaleRequests
  <2>4. \A v \in Worker : ~Collide(Idle, inflight[v]) /\ ~Collide(inflight[v], Idle)
    BY NullAssumption DEF OrderlyInv, Collide, Idle, RequestsShaped, Shape
  <2>5. NoCollision'
    BY <2>2, <2>4 DEF OrderlyInv, NoCollision, Collide
  <2>6. QED BY <1>3, <2>1, <2>3, <2>5
<1>6. ASSUME NEW k \in Stock, NEW st \in SellableStatuses, CreateStock(k, st) PROVE Goal
  <2>1. stockStatus[k] = "NONE" /\ SetStock(k, st)
        /\ UNCHANGED <<saleStatus, saleStock, soldBy, inflight>>
    BY <1>6 DEF CreateStock, saleRows
  <2>2. HeldUnitsAreLinked' /\ StatusesAgree' /\ DeliveredOwnsItsUnit'
    BY <2>1, FloorAgrees DEF HeldStatuses, OrderlyInv
  <2>3. \A j \in Stock : stockStatus'[j] = IF j = k THEN st ELSE stockStatus[j]
    BY <2>1 DEF SetStock, OrderlyInv, TypeOK
  <2>4. SnapshotsFresh'
    BY <2>1, <2>3 DEF OrderlyInv, SnapshotsFresh, Fresh, RequestsShaped, Shape, SellableStatuses
  <2>5. NoCollision'
    BY <2>1 DEF OrderlyInv, NoCollision, Collide
  <2>6. QED BY <2>2, <2>4, <2>5
<1>7. ASSUME NEW ks \in SUBSET Stock, DeleteVehicle(ks) PROVE Goal
  BY <1>7, PurgeAgrees
<1>8. CASE UNCHANGED vars
  BY <1>1, <1>8 DEF vars, OrderlyInv, TablesAgree, HeldUnitsAreLinked, StatusesAgree,
                    DeliveredOwnsItsUnit, SnapshotsFresh, Fresh, NoCollision, Collide
<1>9. QED
  BY <1>1, <1>2, <1>4, <1>5, <1>6, <1>7, <1>8 DEF Next, OrderlyInv, TablesAgree

\* When requests on one sale do not overlap, any number of requests on
\* different sales, racing for the same cars, keep the sale table and the
\* stock table in agreement.
THEOREM OrderlyTablesAgree ==
  ASSUME SameRowOverlap = FALSE
  PROVE  Spec => [](HeldUnitsAreLinked /\ StatusesAgree /\ DeliveredOwnsItsUnit)
<1>1. OrderlyInv /\ [Next]_vars => OrderlyInv'
  BY StepOrderly
<1>2. OrderlyInv => HeldUnitsAreLinked /\ StatusesAgree /\ DeliveredOwnsItsUnit
  BY DEF OrderlyInv, TablesAgree
<1>3. QED BY <1>1, <1>2, InitOrderly, PTL DEF Spec

\* So the status of a car never contradicts that of the sale it is linked to.
THEOREM OrderlyStatusesAgree ==
  ASSUME SameRowOverlap = FALSE
  PROVE  Spec => []StatusesAgree
<1>1. Spec => [](HeldUnitsAreLinked /\ StatusesAgree /\ DeliveredOwnsItsUnit)
  BY OrderlyTablesAgree
<1>2. QED BY <1>1, PTL

\* And a sale that is delivered still has the car whose sold date it stamped,
\* or had it until the row of that car was purged.
THEOREM DeliveredKeepsItsUnit ==
  ASSUME SameRowOverlap = FALSE
  PROVE  Spec => []DeliveredOwnsItsUnit
<1>1. Spec => [](HeldUnitsAreLinked /\ StatusesAgree /\ DeliveredOwnsItsUnit)
  BY OrderlyTablesAgree
<1>2. QED BY <1>1, PTL
-----------------------------------------------------------------------------
\* A step that links a sale to a car finds the car on the floor, or is one of
\* the two handlers that do not claim.
LEMMA StepBooksFloor ==
  ASSUME TypeOK, RequestsShaped, [Next]_vars
  PROVE  FloorStep
<1> USE DEF Sellable
<1>1. CASE UNCHANGED saleStock
  BY <1>1 DEF FloorStep
<1>2. CASE saleStock' # saleStock
  <2>0. ASSUME NEW ks \in SUBSET Stock, DeleteVehicle(ks) PROVE FloorStep
    BY <2>0 DEF DeleteVehicle, TypeOK, FloorStep
  <2> SUFFICES ASSUME \E w \in Worker : CommitSome(w) PROVE FloorStep
    BY <1>2, <2>0, RowsUntouched DEF Next, CreateStock, saleRows, vars
  <2>1. PICK w \in Worker : CommitSome(w)
    OBVIOUS
  <2> DEFINE r == inflight[w]
  <2>2. r \in Request /\ Shape(r)
    BY DEF TypeOK, RequestsShaped
  <2>3. CASE r.op \in {"convertToSale", "updateSaleResend"}
    <3>1. inflight'[w] = Idle
      BY <2>1, <2>3 DEF CommitSome, Finish, CommitCreateSale, CommitConvertToSale, CommitReassign,
         CommitUpdateSaleResend, CommitUpdateSaleStatus, CommitDeleteSale,
         CommitUpdateStockStatus, CommitDeleteStock, TypeOK
    <3> QED BY <2>3, <3>1 DEF FloorStep
  <2>4. ASSUME NEW t \in Sale, CommitCreateSale(w, t) PROVE FloorStep
    BY <2>2, <2>4 DEF CommitCreateSale, TypeOK, Request, FloorStep
  <2>5. CASE CommitReassign(w)
    BY <2>2, <2>5 DEF CommitReassign, TypeOK, Shape, SaleRequests, FloorStep
  <2>6. CASE CommitUpdateSaleStatus(w) \/ CommitDeleteSale(w)
    BY <2>2, <2>6 DEF CommitUpdateSaleStatus, CommitDeleteSale, TypeOK, Shape, SaleRequests, FloorStep
  <2>7. CASE CommitUpdateStockStatus(w) \/ CommitDeleteStock(w)
    BY <1>2, <2>7 DEF CommitUpdateStockStatus, CommitDeleteStock, saleRows
  <2> QED BY <2>1, <2>3, <2>4, <2>5, <2>6, <2>7
       DEF CommitSome, CommitConvertToSale, CommitUpdateSaleResend
<1> QED BY <1>1, <1>2

\* Whatever else is in flight, createSale, assignStock and updateSale never
\* take a car that is held or soft-deleted.
THEOREM ClaimsBookTheFloor == Spec => OnlyFloorUnitsAreBooked
<1> DEFINE Inv == TypeOK /\ RequestsShaped
<1>1. Init => Inv
  BY InitTyped
<1>2. Inv /\ [Next]_vars => Inv'
  BY StepTyped
<1>3. Inv /\ [Next]_vars => [FloorStep]_vars
  BY StepBooksFloor
<1>4. QED BY <1>1, <1>2, <1>3, PTL DEF Spec, OnlyFloorUnitsAreBooked
-----------------------------------------------------------------------------
(***************************************************************************)
(* SaleStock implements UnitLedger, for every set of sales, cars and       *)
(* workers, when requests on one sale do not overlap: each transaction is  *)
(* one step of the abstract showroom, or none.                             *)
(***************************************************************************)

\* The holder of a car is the sale linked to it.
HolderIsLink ==
    \A k \in Stock :
        /\ \A s \in Sale : saleStock[s] = k => heldBy[k] = s
        /\ (\A s \in Sale : saleStock[s] # k) => heldBy[k] = NoSale

LEMMA HolderOfLink == UniqueLink => HolderIsLink
<1> SUFFICES ASSUME UniqueLink, NEW k \in Stock
             PROVE  /\ \A s \in Sale : saleStock[s] = k => heldBy[k] = s
                    /\ (\A s \in Sale : saleStock[s] # k) => heldBy[k] = NoSale
  BY DEF HolderIsLink
<1>1. ASSUME NEW s \in Sale, saleStock[s] = k PROVE heldBy[k] = s
  <2>1. heldBy[k] \in Sale /\ saleStock[heldBy[k]] = k
    BY <1>1 DEF heldBy
  <2>2. QED BY <1>1, <2>1, NullAssumption DEF UniqueLink
<1>2. ASSUME \A s \in Sale : saleStock[s] # k PROVE heldBy[k] = NoSale
  BY <1>2 DEF heldBy
<1>3. QED BY <1>1, <1>2

LEMMA HeldByDomain ==
  /\ heldBy = [k \in Stock |-> heldBy[k]]
  /\ heldBy' = [k \in Stock |-> heldBy'[k]]
<1>1. heldBy = [k \in Stock |-> heldBy[k]]
  BY DEF heldBy
<1>2. heldBy' = [k \in Stock |-> heldBy'[k]]
  BY DEF heldBy
<1>3. QED BY <1>1, <1>2
-----------------------------------------------------------------------------
\* A transaction that moves no link and marks no car SOLD or not SOLD is a
\* stutter of the showroom: none of them purges a car.
LEMMA NothingMoves ==
  ASSUME HolderIsLink, HolderIsLink', UNCHANGED <<saleStock, purged>>,
         \A k \in Stock : stockStatus'[k] = "SOLD" <=> stockStatus[k] = "SOLD"
  PROVE  UNCHANGED <<heldBy, handedOver, purged>>
<1>1. heldBy' = heldBy
  BY DEF heldBy
<1>2. handedOver' = handedOver
  BY DEF handedOver
<1>3. QED BY <1>1, <1>2

\* A commit purges no car.
LEMMA CommitPurgesNothing ==
  ASSUME TypeOK, RequestsShaped, NEW w \in Worker, CommitSome(w)
  PROVE  UNCHANGED purged
<1> DEFINE r == inflight[w]
<1>0. r \in Request /\ Shape(r)
  BY DEF TypeOK, RequestsShaped
<1>1. ASSUME NEW k \in Stock, stockStatus[k] # "PURGED" PROVE stockStatus'[k] # "PURGED"
  <2> USE DEF TypeOK, SetStock
  <2>1. ASSUME NEW s \in Sale, CommitCreateSale(w, s) \/ CommitConvertToSale(w, s)
        PROVE  stockStatus'[k] # "PURGED"
    BY <1>1, <2>1 DEF CommitCreateSale, CommitConvertToSale
  <2>2. CASE CommitReassign(w)
    BY <1>0, <1>1, <2>2 DEF CommitReassign, Shape
  <2>3. CASE CommitUpdateSaleStatus(w)
    BY <1>1, <2>3 DEF CommitUpdateSaleStatus, StockStatusFor
  <2>4. CASE CommitDeleteSale(w)
    BY <1>1, <2>4 DEF CommitDeleteSale
  <2>5. CASE CommitUpdateStockStatus(w)
    BY <1>0, <1>1, <2>5 DEF CommitUpdateStockStatus, Shape, SellableStatuses
  <2>6. CASE CommitUpdateSaleResend(w) \/ CommitDeleteStock(w)
    BY <1>1, <2>6 DEF CommitUpdateSaleResend, CommitDeleteStock, stockRows
  <2>7. QED BY <2>1, <2>2, <2>3, <2>4, <2>5, <2>6 DEF CommitSome
<1>2. QED BY <1>1, PurgedStay DEF purged

\* A sale without a car is linked to one that nobody holds.
LEMMA BookMaps ==
  ASSUME TypeOK, HolderIsLink, HolderIsLink', NEW s \in Sale, NEW k \in Stock,
         saleStock[s] = NoStock, saleStock' = [saleStock EXCEPT ![s] = k],
         \A t \in Sale : saleStock[t] # k, UNCHANGED <<handedOver, purged>>, k \notin purged
  PROVE  Ledger!Book(s, k)
<1>1. \A t \in Sale : saleStock'[t] = IF t = s THEN k ELSE saleStock[t]
  BY DEF TypeOK
<1>2. heldBy[k] = NoSale /\ heldBy'[k] = s
  BY <1>1 DEF HolderIsLink
<1>3. \A j \in Stock : j # k => heldBy'[j] = heldBy[j]
  <2>1. SUFFICES ASSUME NEW j \in Stock, j # k PROVE heldBy'[j] = heldBy[j]
    OBVIOUS
  <2>2. \A t \in Sale : saleStock'[t] = j <=> saleStock[t] = j
    BY <1>1, <2>1, NullAssumption
  <2>3. CASE \E t \in Sale : saleStock[t] = j
    BY <2>2, <2>3 DEF HolderIsLink
  <2>4. CASE \A t \in Sale : saleStock[t] # j
    BY <2>2, <2>4 DEF HolderIsLink
  <2>5. QED BY <2>3, <2>4
<1>4. heldBy' = [heldBy EXCEPT ![k] = s]
  BY <1>2, <1>3, HeldByDomain
<1>5. \A j \in Stock : heldBy[j] # s
  <2>1. SUFFICES ASSUME NEW j \in Stock PROVE heldBy[j] # s
    OBVIOUS
  <2>2. CASE \E t \in Sale : saleStock[t] = j
    BY <2>2, NullAssumption DEF HolderIsLink
  <2>3. CASE \A t \in Sale : saleStock[t] # j
    BY <2>3, NullAssumption DEF HolderIsLink
  <2>4. QED BY <2>2, <2>3
<1>6. QED BY <1>2, <1>4, <1>5 DEF Ledger!Book, Ledger!Free, Ledger!HoldsNothing

\* A sale swaps the car it holds for one that nobody holds.
LEMMA ExchangeMaps ==
  ASSUME TypeOK, HolderIsLink, HolderIsLink', NEW s \in Sale, NEW j \in Stock, NEW k \in Stock,
         saleStock[s] = j, saleStock' = [saleStock EXCEPT ![s] = k],
         \A t \in Sale : saleStock[t] # k, \A t \in Sale : saleStock[t] = j => t = s,
         j \notin handedOver, UNCHANGED <<handedOver, purged>>, k \notin purged
  PROVE  Ledger!Exchange(s, j, k)
<1>0. j # k
  OBVIOUS
<1>1. \A t \in Sale : saleStock'[t] = IF t = s THEN k ELSE saleStock[t]
  BY DEF TypeOK
<1>2. /\ heldBy[k] = NoSale /\ heldBy'[k] = s
      /\ heldBy[j] = s /\ heldBy'[j] = NoSale
  BY <1>0, <1>1 DEF HolderIsLink
<1>3. \A i \in Stock \ {j, k} : heldBy'[i] = heldBy[i]
  <2>1. SUFFICES ASSUME NEW i \in Stock \ {j, k} PROVE heldBy'[i] = heldBy[i]
    OBVIOUS
  <2>2. \A t \in Sale : saleStock'[t] = i <=> saleStock[t] = i
    BY <1>1, <2>1
  <2>3. CASE \E t \in Sale : saleStock[t] = i
    BY <2>2, <2>3 DEF HolderIsLink
  <2>4. CASE \A t \in Sale : saleStock[t] # i
    BY <2>2, <2>4 DEF HolderIsLink
  <2>5. QED BY <2>3, <2>4
<1>4. heldBy' = [heldBy EXCEPT ![j] = NoSale, ![k] = s]
  BY <1>0, <1>2, <1>3, HeldByDomain
<1>5. QED BY <1>2, <1>4 DEF Ledger!Exchange, Ledger!Free

\* The sale gives its car up.
LEMMA ReleaseMaps ==
  ASSUME TypeOK, HolderIsLink, HolderIsLink', NEW s \in Sale, NEW k \in Stock,
         saleStock[s] = k, saleStock' = [saleStock EXCEPT ![s] = NoStock],
         \A t \in Sale : saleStock[t] = k => t = s,
         handedOver' = handedOver \ {k}, UNCHANGED purged
  PROVE  Ledger!Release(k)
<1>1. \A t \in Sale : saleStock'[t] = IF t = s THEN NoStock ELSE saleStock[t]
  BY DEF TypeOK
<1>2. heldBy[k] = s /\ heldBy'[k] = NoSale
  BY <1>1, NullAssumption DEF HolderIsLink
<1>3. \A i \in Stock \ {k} : heldBy'[i] = heldBy[i]
  <2>1. SUFFICES ASSUME NEW i \in Stock \ {k} PROVE heldBy'[i] = heldBy[i]
    OBVIOUS
  <2>2. \A t \in Sale : saleStock'[t] = i <=> saleStock[t] = i
    BY <1>1, <2>1, NullAssumption
  <2>3. CASE \E t \in Sale : saleStock[t] = i
    BY <2>2, <2>3 DEF HolderIsLink
  <2>4. CASE \A t \in Sale : saleStock[t] # i
    BY <2>2, <2>4 DEF HolderIsLink
  <2>5. QED BY <2>3, <2>4
<1>4. heldBy' = [heldBy EXCEPT ![k] = NoSale]
  BY <1>2, <1>3, HeldByDomain
<1>5. QED BY <1>2, <1>4, NullAssumption DEF Ledger!Release, Ledger!Free
-----------------------------------------------------------------------------
LEMMA InsertMaps ==
  ASSUME OrderlyInv, HolderIsLink, HolderIsLink', NEW w \in Worker, NEW s \in Sale,
         CommitCreateSale(w, s) \/ CommitConvertToSale(w, s)
  PROVE  Ledger!Next \/ UNCHANGED <<heldBy, handedOver, purged>>
<1> DEFINE k == inflight[w].stock
<1> USE DEF OrderlyInv
<1>p. UNCHANGED purged
  BY CommitPurgesNothing DEF CommitSome
<1>1. saleStatus[s] = "NONE" /\ saleStock[s] = NoStock /\ k \in Stock \cup {NoStock}
  BY LinkedIsHeld
     DEF LiveStatuses, CommitCreateSale, CommitConvertToSale, TypeOK, Request
<1>2. CASE k = NoStock
  <2>1. UNCHANGED <<saleStock, stockStatus>>
    BY <1>1, <1>2 DEF CommitCreateSale, CommitConvertToSale, TypeOK
  <2>2. QED BY <1>p, <2>1, NothingMoves
<1>3. CASE k # NoStock
  <2>1. /\ k \in Stock
        /\ saleStock' = [saleStock EXCEPT ![s] = k]
        /\ stockStatus' = [stockStatus EXCEPT ![k] = "RESERVED"]
        /\ \A t \in Sale : saleStock[t] # k
    BY <1>1, <1>3 DEF CommitCreateSale, CommitConvertToSale, SetStock, LinkAllowed
  <2>2. stockStatus[k] # "SOLD"
    BY <2>1 DEF TablesAgree, HeldUnitsAreLinked, HeldStatuses
  <2>3. UNCHANGED handedOver
    BY <2>1, <2>2 DEF handedOver, TypeOK
  <2>p. k \notin purged
    BY <1>3 DEF CommitCreateSale, CommitConvertToSale, RowFound, Registered, Sellable,
                SellableStatuses, StockStatuses, purged
  <2>4. Ledger!Book(s, k)
    BY <1>1, <1>p, <2>1, <2>3, <2>p, BookMaps
  <2>5. QED BY <2>1, <2>4 DEF Ledger!Next
<1>4. QED BY <1>2, <1>3

LEMMA ReassignMaps ==
  ASSUME OrderlyInv, HolderIsLink, HolderIsLink', NEW w \in Worker, CommitReassign(w)
  PROVE  Ledger!Next
<1> DEFINE r == inflight[w]
           s == r.sale
           k == r.stock
<1> USE DEF OrderlyInv
<1>p. UNCHANGED purged
  BY CommitPurgesNothing DEF CommitSome
<1>0. /\ s \in Sale /\ k \in Stock /\ r.to \in {"RESERVED", "PREPARING"}
      /\ saleStatus[s] \in {"RESERVED", "PREPARING"} /\ saleStock[s] = r.link
  BY FoundIsFresh
     DEF CommitReassign, TypeOK, RequestsShaped, SnapshotsFresh, Shape, SaleRequests
<1>1. stockStatus[k] \in SellableStatuses
  BY DEF CommitReassign, Sellable
<1>2. \A t \in Sale : saleStock[t] # k
  BY <1>0, <1>1, LinkedIsHeld, NullAssumption DEF SellableStatuses, HeldStatuses
<1>3. /\ saleStock' = [saleStock EXCEPT ![s] = k]
      /\ \A j \in Stock : stockStatus'[j] = IF j = k THEN r.to
                                            ELSE IF j = r.link THEN "AVAILABLE"
                                            ELSE stockStatus[j]
  BY DEF CommitReassign
<1>4. r.link # NoStock => r.link \in Stock /\ stockStatus[r.link] # "SOLD"
  BY <1>0 DEF TypeOK, TablesAgree, StatusesAgree
<1>5. UNCHANGED handedOver
  BY <1>0, <1>1, <1>3, <1>4, NullAssumption DEF handedOver, SellableStatuses
<1>q. k \notin purged
  BY <1>1 DEF SellableStatuses, purged
<1>6. CASE r.link = NoStock
  <2>1. Ledger!Book(s, k)
    BY <1>0, <1>2, <1>3, <1>5, <1>6, <1>p, <1>q, BookMaps
  <2>2. QED BY <1>0, <2>1 DEF Ledger!Next
<1>7. CASE r.link # NoStock
  <2>1. \A t \in Sale : saleStock[t] = r.link => t = s
    BY <1>0, <1>7 DEF TablesAgree, UniqueLink
  <2>2. r.link \notin handedOver
    BY <1>4, <1>7 DEF handedOver
  <2>3. Ledger!Exchange(s, r.link, k)
    BY <1>0, <1>2, <1>3, <1>4, <1>5, <1>7, <1>p, <1>q, <2>1, <2>2, ExchangeMaps
  <2>4. QED BY <1>0, <1>4, <1>7, <2>3 DEF Ledger!Next
<1>8. QED BY <1>6, <1>7

LEMMA StatusMaps ==
  ASSUME OrderlyInv, HolderIsLink, HolderIsLink', NEW w \in Worker, CommitUpdateSaleStatus(w)
  PROVE  Ledger!Next \/ UNCHANGED <<heldBy, handedOver, purged>>
<1> DEFINE r == inflight[w]
           s == r.sale
           k == r.link
<1> USE DEF OrderlyInv
<1>p. UNCHANGED purged
  BY CommitPurgesNothing DEF CommitSome
<1>0. /\ s \in Sale /\ k \in Stock \cup {NoStock}
      /\ <<r.seen, r.to>> \in validTransitions
      /\ saleStatus[s] = r.seen /\ saleStock[s] = k
  BY FoundIsFresh
     DEF CommitUpdateSaleStatus, TypeOK, RequestsShaped, SnapshotsFresh, Shape,
         SaleRequests, Request
<1>1. CASE k = NoStock
  BY <1>1, <1>p, NothingMoves DEF CommitUpdateSaleStatus
<1>2. CASE k # NoStock
  <2>0. k \in Stock
    BY <1>0, <1>2
  <2>1. /\ stockStatus' = [stockStatus EXCEPT ![k] = StockStatusFor(r.to)]
        /\ saleStock' = IF r.to = "CANCELLED" THEN [saleStock EXCEPT ![s] = NoStock] ELSE saleStock
    BY <1>2 DEF CommitUpdateSaleStatus, SetStock
  <2>2. \A j \in Stock : stockStatus'[j] = IF j = k THEN StockStatusFor(r.to) ELSE stockStatus[j]
    BY <2>1 DEF TypeOK
  <2>3. heldBy[k] = s /\ \A t \in Sale : saleStock[t] = k => t = s
    BY <1>0, <1>2, <2>0 DEF HolderIsLink, TablesAgree, UniqueLink
  <2>4. CASE r.to = "PREPARING"
    <3>1. StockStatusFor(r.to) = "PREPARING" /\ stockStatus[k] # "SOLD"
      BY <1>0, <1>2, <2>4 DEF StockStatusFor, validTransitions, TablesAgree, StatusesAgree
    <3>2. UNCHANGED saleStock
      BY <2>1, <2>4
    <3>3. QED BY <1>p, <2>2, <3>1, <3>2, NothingMoves
  <2>5. CASE r.to = "DELIVERED"
    <3>1. StockStatusFor(r.to) = "SOLD" /\ stockStatus[k] # "SOLD"
      BY <1>0, <1>2, <2>5 DEF StockStatusFor, validTransitions, TablesAgree, StatusesAgree
    <3>2. handedOver' = handedOver \cup {k} /\ k \notin handedOver
      BY <2>0, <2>2, <3>1 DEF handedOver
    <3>3. UNCHANGED heldBy
      BY <2>1, <2>5 DEF heldBy
    <3>4. QED
      BY <1>0, <1>p, <2>0, <2>3, <3>2, <3>3, NullAssumption
         DEF Ledger!Next, Ledger!Deliver, Ledger!Free
  <2>6. CASE r.to = "COMPLETED"
    <3>1. StockStatusFor(r.to) = "SOLD" /\ stockStatus[k] = "SOLD"
      BY <1>0, <1>2, <2>6 DEF StockStatusFor, validTransitions, TablesAgree, StatusesAgree
    <3>2. UNCHANGED saleStock
      BY <2>1, <2>6
    <3>3. QED BY <1>p, <2>2, <3>1, <3>2, NothingMoves
  <2>7. CASE r.to = "CANCELLED"
    <3>1. StockStatusFor(r.to) = "AVAILABLE"
      BY <2>7 DEF StockStatusFor
    <3>2. handedOver' = handedOver \ {k}
      BY <2>0, <2>2, <3>1 DEF handedOver
    <3>3. Ledger!Release(k)
      BY <1>0, <1>p, <2>0, <2>1, <2>3, <2>7, <3>2, ReleaseMaps
    <3>4. QED BY <2>0, <3>3 DEF Ledger!Next
  <2>8. QED BY <1>0, <2>4, <2>5, <2>6, <2>7 DEF validTransitions
<1>3. QED BY <1>1, <1>2

LEMMA DeleteMaps ==
  ASSUME OrderlyInv, HolderIsLink, HolderIsLink', NEW w \in Worker, CommitDeleteSale(w)
  PROVE  Ledger!Next \/ UNCHANGED <<heldBy, handedOver, purged>>
<1> DEFINE s == inflight[w].sale
           k == inflight[w].link
<1> USE DEF OrderlyInv
<1>p. UNCHANGED purged
  BY CommitPurgesNothing DEF CommitSome
<1>0. s \in Sale /\ k \in Stock \cup {NoStock} /\ saleStock[s] = k
  BY FoundIsFresh
     DEF CommitDeleteSale, TypeOK, RequestsShaped, SnapshotsFresh, Shape,
         SaleRequests, Request
<1>1. saleStock' = [saleStock EXCEPT ![s] = NoStock]
  BY DEF CommitDeleteSale
<1>2. CASE k = NoStock
  <2>1. UNCHANGED <<saleStock, stockStatus>>
    BY <1>0, <1>1, <1>2 DEF CommitDeleteSale, TypeOK
  <2>2. QED BY <1>p, <2>1, NothingMoves
<1>3. CASE k # NoStock
  <2>1. k \in Stock /\ \A t \in Sale : saleStock[t] = k => t = s
    BY <1>0, <1>3 DEF TablesAgree, UniqueLink
  <2>2. handedOver' = handedOver \ {k}
    BY <1>3, <2>1 DEF CommitDeleteSale, SetStock, handedOver, TypeOK
  <2>3. Ledger!Release(k)
    BY <1>0, <1>1, <1>p, <2>1, <2>2, ReleaseMaps
  <2>4. QED BY <2>1, <2>3 DEF Ledger!Next
<1>4. QED BY <1>2, <1>3

\* The purge strikes the purged cars off the showroom's books.
LEMMA PurgeMaps ==
  ASSUME OrderlyInv, HolderIsLink, HolderIsLink', NEW ks \in SUBSET Stock, DeleteVehicle(ks)
  PROVE  Ledger!Next
<1> USE DEF OrderlyInv
<1>1. /\ \A s \in Sale : saleStock'[s] = IF saleStock[s] \in ks THEN NoStock ELSE saleStock[s]
      /\ \A k \in Stock : stockStatus'[k] = IF k \in ks THEN "PURGED" ELSE stockStatus[k]
  BY DEF DeleteVehicle, TypeOK
<1>2. handedOver' = handedOver \ ks /\ purged' = purged \cup ks
  BY <1>1 DEF handedOver, purged
<1>3. ASSUME NEW k \in Stock
      PROVE  heldBy'[k] = IF k \in ks THEN NoSale ELSE heldBy[k]
  <2>1. CASE k \in ks
    BY <1>1, <2>1, NullAssumption DEF HolderIsLink
  <2>2. CASE k \notin ks
    <3>1. \A s \in Sale : saleStock'[s] = k <=> saleStock[s] = k
      BY <1>1, <2>2, NullAssumption
    <3>2. CASE \E s \in Sale : saleStock[s] = k
      BY <2>2, <3>1, <3>2 DEF HolderIsLink
    <3>3. CASE \A s \in Sale : saleStock[s] # k
      BY <2>2, <3>1, <3>3 DEF HolderIsLink
    <3>4. QED BY <3>2, <3>3
  <2>3. QED BY <2>1, <2>2
<1>4. heldBy' = [k \in Stock |-> IF k \in ks THEN NoSale ELSE heldBy[k]]
  BY <1>3, HeldByDomain
<1>5. Ledger!StrikeOff(ks)
  BY <1>2, <1>4 DEF Ledger!StrikeOff
<1>6. QED BY <1>5 DEF Ledger!Next

LEMMA StepImplements ==
  ASSUME SameRowOverlap = FALSE, OrderlyInv, [Next]_vars, HolderIsLink, HolderIsLink'
  PROVE  Ledger!Next \/ UNCHANGED <<heldBy, handedOver, purged>>
<1> USE DEF OrderlyInv
<1>1. ASSUME UNCHANGED <<saleStock, stockStatus>>
      PROVE  UNCHANGED <<heldBy, handedOver, purged>>
  BY <1>1, NothingMoves DEF purged
<1>2. ASSUME NEW k \in Stock, NEW st \in SellableStatuses, stockStatus[k] \notin {"SOLD", "PURGED"},
             SetStock(k, st), UNCHANGED saleStock
      PROVE  UNCHANGED <<heldBy, handedOver, purged>>
  BY <1>2, NothingMoves DEF SetStock, TypeOK, SellableStatuses, purged
<1>3. ASSUME NEW w \in Worker, CommitSome(w)
      PROVE  Ledger!Next \/ UNCHANGED <<heldBy, handedOver, purged>>
  <2>1. CASE CommitUpdateSaleResend(w)
    BY <1>1, <2>1, ResendChangesNothing
  <2>2. CASE CommitUpdateStockStatus(w)
    <3>1. /\ inflight[w].stock \in Stock /\ inflight[w].to \in SellableStatuses
          /\ stockStatus[inflight[w].stock] \in SellableStatuses
      BY <2>2 DEF CommitUpdateStockStatus, RequestsShaped, SnapshotsFresh, Shape, Fresh,
                  Registered, StockStatuses, SellableStatuses
    <3>2. QED BY <1>2, <2>2, <3>1 DEF CommitUpdateStockStatus, saleRows, SellableStatuses
  <2>3. CASE CommitDeleteStock(w)
    BY <1>1, <2>3 DEF CommitDeleteStock, saleRows
  <2>4. QED
    BY <1>3, <2>1, <2>2, <2>3, InsertMaps, ReassignMaps, StatusMaps, DeleteMaps DEF CommitSome
<1>4. ASSUME NEW w \in Worker, BeginSome(w) \/ FailRequest(w)
      PROVE  UNCHANGED <<heldBy, handedOver, purged>>
  BY <1>1, <1>4, RowsUntouched
<1>5. ASSUME NEW k \in Stock, NEW st \in SellableStatuses, CreateStock(k, st)
      PROVE  UNCHANGED <<heldBy, handedOver, purged>>
  BY <1>2, <1>5 DEF CreateStock, saleRows
<1>6. QED
  BY <1>1, <1>3, <1>4, <1>5, PurgeMaps DEF Next, vars

\* The sale and stock tables behave like the abstract showroom when requests
\* on one sale do not overlap.
THEOREM ImplementsUnitLedger ==
  ASSUME SameRowOverlap = FALSE
  PROVE  Spec => UnitPromise
<1>1. Init => Ledger!Init
  BY NullAssumption DEF Init, Ledger!Init, heldBy, handedOver, purged
<1>2. OrderlyInv /\ [Next]_vars => OrderlyInv'
  BY StepOrderly
<1>3. OrderlyInv => HolderIsLink
  BY HolderOfLink DEF OrderlyInv, TablesAgree
<1>4. OrderlyInv /\ HolderIsLink /\ HolderIsLink' /\ [Next]_vars => [Ledger!Next]_(Ledger!vars)
  BY StepImplements DEF Ledger!vars
<1>5. QED
  BY <1>1, <1>2, <1>3, <1>4, InitOrderly, PTL DEF Spec, UnitPromise, Ledger!Spec
=============================================================================
