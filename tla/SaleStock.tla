----------------------------- MODULE SaleStock ------------------------------
(***************************************************************************)
(* The sale and stock tables and the API handlers that write them          *)
(* (sales.service.ts, stock.service.ts, the sale half of                   *)
(* quotations.service.ts#convertToSale, and the purge of soft-deleted cars *)
(* in vehicles.service.ts#deleteVehicle).                                  *)
(*                                                                         *)
(* Every handler has the same shape: it reads rows with `db.*`, checks     *)
(* them, and only then runs a `db.$transaction` (or a single update) whose *)
(* writes are computed from what was READ, not from what the rows hold by  *)
(* then.  So a handler is two actions here: Begin<Handler>, the reads and  *)
(* the checks, which leaves a request in `inflight`, and                   *)
(* Commit<Handler>, the transaction.  Other requests run in between.       *)
(*                                                                         *)
(* The transaction is one step.  It runs at READ COMMITTED, but each one   *)
(* is a list of blind writes to rows it keeps locked until it commits,     *)
(* plus conditional `updateMany` claims that PostgreSQL re-evaluates on    *)
(* the locked row, so two of them behave as if run one after the other; a  *)
(* lock cycle, a lost connection, a unique violation or a `throw` is       *)
(* FailRequest, which rolls everything back.                               *)
(***************************************************************************)
CONSTANTS
    Sale,            \* sale ids (cuid): bounds how many sales are ever created
    Stock,           \* stock ids: bounds how many cars are ever registered
    Worker,          \* requests the API serves at the same time
    NoSale, NoStock, \* SQL NULL
    Ops,             \* the handlers in use
    SameRowOverlap   \* may two requests on one sale (or a manual status
                     \* change and a claim of the same car) be in flight at
                     \* once?  The code does not prevent it.

Handlers == {"createSale", "convertToSale", "updateSaleStock", "updateSaleResend",
             "updateSaleStatus", "deleteSale", "assignStock",
             "createStock", "updateStockStatus", "deleteStock", "deleteVehicle"}

ASSUME NullAssumption == NoSale \notin Sale /\ NoStock \notin Stock
ASSUME OpsAssumption == Ops \subseteq Handlers
ASSUME OverlapAssumption == SameRowOverlap \in BOOLEAN

VARIABLES
    saleStatus,   \* Sale.status; "NONE" before the insert, "DELETED" after the delete
    saleStock,    \* Sale.stockId
    stockStatus,  \* Stock.status; "NONE" before the insert, "PURGED" once
                  \* the row is gone with its vehicle model
    deleted,      \* the cars with Stock.deletedAt set
    soldBy,       \* the sale whose hand-over stamped Stock.soldDate and
                  \* actualSalePrice, NoSale while soldDate is null; what
                  \* a purged row held last
    inflight      \* what each worker's request has read and is about to commit

vars == <<saleStatus, saleStock, stockStatus, deleted, soldBy, inflight>>
stockRows == <<stockStatus, deleted, soldBy>>
saleRows == <<saleStatus, saleStock>>
-----------------------------------------------------------------------------
LiveStatuses == {"RESERVED", "PREPARING", "DELIVERED", "COMPLETED"}
SaleStatuses == LiveStatuses \cup {"CANCELLED"}
StockStatuses == {"AVAILABLE", "DEMO", "RESERVED", "PREPARING", "SOLD"}
SellableStatuses == {"AVAILABLE", "DEMO"}

Exists(s) == saleStatus[s] \in SaleStatuses
Registered(k) == stockStatus[k] \in StockStatuses
\* An update by id, or a link, of the car finds its row.
RowFound(k) == k # NoStock => Registered(k)
\* Mutant: the claim forgets deletedAt.
SellableEvenDeleted(k) == stockStatus[k] \in SellableStatuses
Sellable(k) == stockStatus[k] \in SellableStatuses /\ k \notin deleted

\* The transitions updateSaleStatus accepts.
validTransitions ==
    {<<"RESERVED", "PREPARING">>, <<"RESERVED", "CANCELLED">>,
     <<"PREPARING", "DELIVERED">>, <<"PREPARING", "CANCELLED">>,
     <<"DELIVERED", "COMPLETED">>, <<"DELIVERED", "CANCELLED">>}

\* What a handler carries from its reads into its transaction: the row it is
\* about, the car it names, the status it will write, and the status and the
\* stockId it saw.
Request ==
    [op : Handlers \cup {"idle"}, sale : Sale \cup {NoSale}, stock : Stock \cup {NoStock},
     to : SaleStatuses \cup StockStatuses \cup {"NONE"},
     seen : SaleStatuses \cup StockStatuses \cup {"NONE"}, link : Stock \cup {NoStock}]

Idle == [op |-> "idle", sale |-> NoSale, stock |-> NoStock,
         to |-> "NONE", seen |-> "NONE", link |-> NoStock]

\* Two requests that address the same row.
Collide(q, r) ==
    \/ q.sale # NoSale /\ q.sale = r.sale
    \/ /\ "updateStockStatus" \in {q.op, r.op}
       /\ q.stock = r.stock

Begin(w, r) ==
    /\ r.op \in Ops
    /\ inflight[w] = Idle
    /\ SameRowOverlap \/ \A v \in Worker \ {w} : ~Collide(inflight[v], r)
    /\ inflight' = [inflight EXCEPT ![w] = r]
    /\ UNCHANGED <<saleRows, stockRows>>

Finish(w) == inflight' = [inflight EXCEPT ![w] = Idle]

\* The transaction throws or the process dies: nothing was written.
FailRequest(w) ==
    /\ inflight[w] # Idle
    /\ Finish(w)
    /\ UNCHANGED <<saleRows, stockRows>>
-----------------------------------------------------------------------------
\* Mutant: sales.stock_id is not unique.
LinkUnchecked(s, k) == TRUE

\* The unique index on sales.stock_id lets sale s hold car k.
LinkAllowed(s, k) == k # NoStock => \A t \in Sale \ {s} : saleStock[t] # k

\* Status writes on the cars of a transaction: car k gets status st.
SetStock(k, st) == stockStatus' = [stockStatus EXCEPT ![k] = st]

\* createSale: the car, if one is named, must be sellable when read ...
BeginCreateSale(w, k) ==
    /\ k # NoStock => Sellable(k)
    /\ Begin(w, [Idle EXCEPT !.op = "createSale", !.stock = k, !.to = "RESERVED"])

\* ... and again when it is claimed (updateMany ... status in SELLABLE).
CommitCreateSale(w, s) ==
    LET r == inflight[w] IN
    /\ r.op = "createSale"
    /\ saleStatus[s] = "NONE"
    /\ LinkAllowed(s, r.stock)
    /\ saleStatus' = [saleStatus EXCEPT ![s] = r.to]
    /\ saleStock' = [saleStock EXCEPT ![s] = r.stock]
    /\ \/ r.stock = NoStock /\ UNCHANGED stockStatus
       \/ r.stock # NoStock /\ Sellable(r.stock) /\ SetStock(r.stock, "RESERVED")
    /\ UNCHANGED <<deleted, soldBy>>
    /\ Finish(w)

\* convertToSale of an accepted quotation: the car is named by the client and
\* is not looked at, neither when read nor when reserved.
BeginConvertToSale(w, k, initial) ==
    /\ RowFound(k)
    /\ initial \in {"RESERVED", "PREPARING"}
    /\ Begin(w, [Idle EXCEPT !.op = "convertToSale", !.stock = k, !.to = initial])

CommitConvertToSale(w, s) ==
    LET r == inflight[w] IN
    /\ r.op = "convertToSale"
    /\ saleStatus[s] = "NONE"
    /\ LinkAllowed(s, r.stock) /\ RowFound(r.stock)
    /\ saleStatus' = [saleStatus EXCEPT ![s] = r.to]
    /\ saleStock' = [saleStock EXCEPT ![s] = r.stock]
    /\ \/ r.stock = NoStock /\ UNCHANGED stockStatus
       \/ r.stock # NoStock /\ SetStock(r.stock, "RESERVED")
    /\ UNCHANGED <<deleted, soldBy>>
    /\ Finish(w)
-----------------------------------------------------------------------------
\* The sale a stock change is about must not have been delivered or cancelled.
Reassign(s, k, op) ==
    [op |-> op, sale |-> s, stock |-> k,
     to |-> IF saleStatus[s] = "PREPARING" THEN "PREPARING" ELSE "RESERVED",
     seen |-> saleStatus[s], link |-> saleStock[s]]

\* Mutant: a delivered sale may be given another car.
BeginAssignAnyStatus(w, s, k) ==
    /\ saleStatus[s] \in LiveStatuses
    /\ Begin(w, Reassign(s, k, "assignStock"))

BeginAssignStock(w, s, k) ==
    /\ saleStatus[s] \in {"RESERVED", "PREPARING"}
    /\ Begin(w, Reassign(s, k, "assignStock"))

\* updateSale whose payload names another car than the one read.
BeginUpdateSaleStock(w, s, k) ==
    /\ saleStatus[s] \in {"RESERVED", "PREPARING"}
    /\ k # saleStock[s]
    /\ Begin(w, Reassign(s, k, "updateSaleStock"))

\* Claim the new car if it is still sellable, release the car that was READ,
\* link the sale.  The sale row only has to exist.
CommitReassign(w) ==
    LET r == inflight[w] IN
    /\ r.op \in {"assignStock", "updateSaleStock"}
    /\ Exists(r.sale)
    /\ Sellable(r.stock)
    /\ LinkAllowed(r.sale, r.stock) /\ RowFound(r.link)
    /\ stockStatus' = [k \in Stock |-> IF k = r.stock THEN r.to
                                       ELSE IF k = r.link THEN "AVAILABLE"
                                       ELSE stockStatus[k]]
    /\ saleStock' = [saleStock EXCEPT ![r.sale] = r.stock]
    /\ UNCHANGED <<saleStatus, deleted, soldBy>>
    /\ Finish(w)

\* updateSale whose payload repeats the stockId that was read (the form sends
\* every field on every save).
BeginUpdateSaleResend(w, s) ==
    /\ saleStatus[s] \in LiveStatuses
    /\ saleStock[s] # NoStock
    /\ Begin(w, [Idle EXCEPT !.op = "updateSaleResend", !.sale = s,
                             !.seen = saleStatus[s], !.link = saleStock[s]])

\* Mutant: an empty stockId in the payload reaches the update.
CommitResendWipes(w) ==
    /\ inflight[w].op = "updateSaleResend"
    /\ Exists(inflight[w].sale)
    /\ saleStock' = [saleStock EXCEPT ![inflight[w].sale] = NoStock]
    /\ UNCHANGED <<saleStatus, stockRows>>
    /\ Finish(w)

CommitUpdateSaleResend(w) ==
    LET r == inflight[w] IN
    /\ r.op = "updateSaleResend"
    /\ Exists(r.sale)
    /\ LinkAllowed(r.sale, r.link) /\ RowFound(r.link)
    /\ saleStock' = [saleStock EXCEPT ![r.sale] = r.link]
    /\ UNCHANGED <<saleStatus, stockRows>>
    /\ Finish(w)
-----------------------------------------------------------------------------
BeginUpdateSaleStatus(w, s, to) ==
    /\ <<saleStatus[s], to>> \in validTransitions
    /\ to = "DELIVERED" => saleStock[s] # NoStock
    /\ Begin(w, [Idle EXCEPT !.op = "updateSaleStatus", !.sale = s, !.to = to,
                             !.seen = saleStatus[s], !.link = saleStock[s]])

\* Mutant: the sale's status is copied to the car.
StatusCopied(to) == to

\* What the new status does to the car that was READ with the sale.
StockStatusFor(to) ==
    CASE to = "PREPARING" -> "PREPARING"
      [] to \in {"DELIVERED", "COMPLETED"} -> "SOLD"
      [] OTHER -> "AVAILABLE"

\* Mutant: an old soldDate survives a new delivery.
StampIfMissing(s, k, to) ==
    IF to \in {"DELIVERED", "COMPLETED"} /\ soldBy[k] = NoSale
    THEN soldBy' = [soldBy EXCEPT ![k] = s]
    ELSE UNCHANGED soldBy

\* DELIVERED stamps soldDate; COMPLETED stamps it only where it is missing.
StampSoldDate(s, k, to) ==
    IF to = "DELIVERED" \/ (to = "COMPLETED" /\ soldBy[k] = NoSale)
    THEN soldBy' = [soldBy EXCEPT ![k] = s]
    ELSE UNCHANGED soldBy

CommitUpdateSaleStatus(w) ==
    LET r == inflight[w] IN
    /\ r.op = "updateSaleStatus"
    /\ Exists(r.sale) /\ RowFound(r.link)
    /\ saleStatus' = [saleStatus EXCEPT ![r.sale] = r.to]
    /\ \/ /\ r.link = NoStock
          /\ UNCHANGED <<saleStock, stockStatus, soldBy>>
       \/ /\ r.link # NoStock
          /\ SetStock(r.link, StockStatusFor(r.to))
          /\ StampSoldDate(r.sale, r.link, r.to)
          /\ saleStock' = IF r.to = "CANCELLED"
                          THEN [saleStock EXCEPT ![r.sale] = NoStock]
                          ELSE saleStock
    /\ UNCHANGED deleted
    /\ Finish(w)

\* Mutant: completed and cancelled sales can be deleted.
BeginDeleteAnySale(w, s) ==
    /\ Exists(s)
    /\ Begin(w, [Idle EXCEPT !.op = "deleteSale", !.sale = s,
                             !.seen = saleStatus[s], !.link = saleStock[s]])

BeginDeleteSale(w, s) ==
    /\ saleStatus[s] \in {"RESERVED", "PREPARING", "DELIVERED"}
    /\ Begin(w, [Idle EXCEPT !.op = "deleteSale", !.sale = s,
                             !.seen = saleStatus[s], !.link = saleStock[s]])

CommitDeleteSale(w) ==
    LET r == inflight[w] IN
    /\ r.op = "deleteSale"
    /\ Exists(r.sale) /\ RowFound(r.link)
    /\ \/ r.link = NoStock /\ UNCHANGED stockStatus
       \/ r.link # NoStock /\ SetStock(r.link, "AVAILABLE")
    /\ saleStatus' = [saleStatus EXCEPT ![r.sale] = "DELETED"]
    /\ saleStock' = [saleStock EXCEPT ![r.sale] = NoStock]
    /\ UNCHANGED <<deleted, soldBy>>
    /\ Finish(w)
-----------------------------------------------------------------------------
\* A new car enters the showroom; only AVAILABLE or DEMO is accepted.
CreateStock(k, st) ==
    /\ "createStock" \in Ops
    /\ stockStatus[k] = "NONE"
    /\ st \in SellableStatuses
    /\ SetStock(k, st)
    /\ UNCHANGED <<saleRows, deleted, soldBy, inflight>>

\* Mutant: the manual status change does not look at the current status.
BeginManualUnchecked(w, k, to) ==
    /\ Registered(k)
    /\ to \in SellableStatuses
    /\ Begin(w, [Idle EXCEPT !.op = "updateStockStatus", !.stock = k,
                             !.to = to, !.seen = stockStatus[k]])

\* The manual switch AVAILABLE <-> DEMO (same status is a no-op that still
\* writes); the row is updated whatever its status has become.
BeginUpdateStockStatus(w, k, to) ==
    /\ stockStatus[k] \in SellableStatuses
    /\ to \in SellableStatuses
    /\ Begin(w, [Idle EXCEPT !.op = "updateStockStatus", !.stock = k,
                             !.to = to, !.seen = stockStatus[k]])

CommitUpdateStockStatus(w) ==
    LET r == inflight[w] IN
    /\ r.op = "updateStockStatus"
    /\ Registered(r.stock)
    /\ SetStock(r.stock, r.to)
    /\ UNCHANGED <<saleRows, deleted, soldBy>>
    /\ Finish(w)

\* Soft delete: refused only for a car that was read as SOLD.
BeginDeleteStock(w, k) ==
    /\ Registered(k)
    /\ stockStatus[k] # "SOLD"
    /\ Begin(w, [Idle EXCEPT !.op = "deleteStock", !.stock = k, !.seen = stockStatus[k]])

CommitDeleteStock(w) ==
    LET r == inflight[w] IN
    /\ r.op = "deleteStock"
    /\ Registered(r.stock)
    /\ deleted' = deleted \cup {r.stock}
    /\ UNCHANGED <<saleRows, stockStatus, soldBy>>
    /\ Finish(w)

\* Mutant: the purge leaves the links of the purged cars where they are.
DeleteVehicleKeepsLinks(ks) ==
    /\ "deleteVehicle" \in Ops
    /\ ks # {} /\ ks \subseteq deleted
    /\ stockStatus' = [k \in Stock |-> IF k \in ks THEN "PURGED" ELSE stockStatus[k]]
    /\ deleted' = deleted \ ks
    /\ UNCHANGED <<saleRows, soldBy, inflight>>

\* deleteVehicle of a model with no live car and no sale of its own purges
\* the model's soft-deleted cars and unlinks the sales that hold them.  Which
\* model a car or a sale has is left out, so any soft-deleted cars may go
\* together, held or not: a conversion links a car of any model, and
\* updateStock gives a held car another one.
DeleteVehicle(ks) ==
    /\ "deleteVehicle" \in Ops
    /\ ks # {} /\ ks \subseteq deleted
    /\ saleStock' = [s \in Sale |-> IF saleStock[s] \in ks THEN NoStock ELSE saleStock[s]]
    /\ stockStatus' = [k \in Stock |-> IF k \in ks THEN "PURGED" ELSE stockStatus[k]]
    /\ deleted' = deleted \ ks
    /\ UNCHANGED <<saleStatus, soldBy, inflight>>
-----------------------------------------------------------------------------
Init ==
    /\ saleStatus = [s \in Sale |-> "NONE"]
    /\ saleStock = [s \in Sale |-> NoStock]
    /\ stockStatus = [k \in Stock |-> "NONE"]
    /\ deleted = {}
    /\ soldBy = [k \in Stock |-> NoSale]
    /\ inflight = [w \in Worker |-> Idle]

BeginSome(w) ==
    \/ \E k \in Stock \cup {NoStock} :
          \/ BeginCreateSale(w, k)
          \/ \E initial \in {"RESERVED", "PREPARING"} : BeginConvertToSale(w, k, initial)
    \/ \E s \in Sale, k \in Stock : BeginAssignStock(w, s, k) \/ BeginUpdateSaleStock(w, s, k)
    \/ \E s \in Sale : BeginUpdateSaleResend(w, s) \/ BeginDeleteSale(w, s)
    \/ \E s \in Sale, to \in SaleStatuses : BeginUpdateSaleStatus(w, s, to)
    \/ \E k \in Stock :
          \/ BeginDeleteStock(w, k)
          \/ \E to \in SellableStatuses : BeginUpdateStockStatus(w, k, to)

CommitSome(w) ==
    \/ \E s \in Sale : CommitCreateSale(w, s) \/ CommitConvertToSale(w, s)
    \/ CommitReassign(w)
    \/ CommitUpdateSaleResend(w)
    \/ CommitUpdateSaleStatus(w)
    \/ CommitDeleteSale(w)
    \/ CommitUpdateStockStatus(w)
    \/ CommitDeleteStock(w)

Next ==
    \/ \E w \in Worker : BeginSome(w) \/ CommitSome(w) \/ FailRequest(w)
    \/ \E k \in Stock, st \in SellableStatuses : CreateStock(k, st)
    \/ \E ks \in SUBSET Stock : DeleteVehicle(ks)

Spec == Init /\ [][Next]_vars
-----------------------------------------------------------------------------
(***************************************************************************)
(* Properties.                                                             *)
(***************************************************************************)

\* Every variable has its type.
TypeOK ==
    /\ saleStatus \in [Sale -> SaleStatuses \cup {"NONE", "DELETED"}]
    /\ saleStock \in [Sale -> Stock \cup {NoStock}]
    /\ stockStatus \in [Stock -> StockStatuses \cup {"NONE", "PURGED"}]
    /\ deleted \subseteq Stock
    /\ soldBy \in [Stock -> Sale \cup {NoSale}]
    /\ inflight \in [Worker -> Request]

\* No car is on two sales, however the requests that book, convert, swap,
\* re-save, cancel and delete interleave.
UniqueLink ==
    \A s, t \in Sale : saleStock[s] # NoStock /\ saleStock[s] = saleStock[t] => s = t

HeldStatuses == {"RESERVED", "PREPARING", "SOLD"}

\* The two tables say the same about who holds what: a car is reserved, being
\* prepared or sold exactly while some sale is linked to it.  A car that is
\* held by nobody can never be sold again; a car on the floor that a sale is
\* linked to can be promised twice.
HeldUnitsAreLinked ==
    \A k \in Stock : stockStatus[k] \in HeldStatuses <=> \E s \in Sale : saleStock[s] = k

\* The status of a car follows the status of its sale through every handler.
\* A sale converted from a quotation as a direct sale starts PREPARING with a
\* RESERVED car.
StatusesAgree ==
    \A s \in Sale : saleStock[s] # NoStock =>
        <<saleStatus[s], stockStatus[saleStock[s]]>> \in
            {<<"RESERVED", "RESERVED">>, <<"PREPARING", "PREPARING">>,
             <<"PREPARING", "RESERVED">>, <<"DELIVERED", "SOLD">>, <<"COMPLETED", "SOLD">>}

\* A delivered or completed sale still has its car, and the sold date and the
\* sale price on that car were stamped by this sale and not by an earlier
\* buyer whose delivered sale was cancelled.  A sale can lose its car in one
\* way only: the car was soft-deleted before the hand-over (deleteStock
\* refuses only a SOLD one) and its row was purged with its vehicle model
\* afterwards; even then the purged row was the one this sale had stamped.
DeliveredOwnsItsUnit ==
    \A s \in Sale : saleStatus[s] \in {"DELIVERED", "COMPLETED"} =>
        \E k \in Stock : /\ soldBy[k] = s
                         /\ \/ saleStock[s] = k
                            \/ saleStock[s] = NoStock /\ stockStatus[k] = "PURGED"

\* Whatever races, a car marked SOLD has a sold date (the interest accrual and
\* the claim reports end at it).
SoldIsStamped ==
    \A k \in Stock : stockStatus[k] = "SOLD" => soldBy[k] # NoSale

\* A sale moves only along validTransitions; COMPLETED and CANCELLED are final
\* ("Cannot change status of cancelled or completed sale") and such sales are
\* not deleted either.
LifecycleStep ==
    \A s \in Sale : saleStatus'[s] # saleStatus[s] =>
        \/ saleStatus[s] = "NONE" /\ saleStatus'[s] \in {"RESERVED", "PREPARING"}
        \/ <<saleStatus[s], saleStatus'[s]>> \in validTransitions
        \/ saleStatus[s] \in {"RESERVED", "PREPARING", "DELIVERED"} /\ saleStatus'[s] = "DELETED"

LifecycleFollowed == [][LifecycleStep]_vars

\* "Re-sending the same stockId is a no-op for inventory": saving a sale with
\* the car it was loaded with does not move any link.
ResendStep == \A w \in Worker : CommitUpdateSaleResend(w) => UNCHANGED saleStock

ResendIsNoOp == [][ResendStep]_vars

\* "Claim availability inside the transaction ... so concurrent assignStock /
\* updateSale cannot double-book the unit": whatever else is in flight, the
\* handlers that claim a car only ever link one that is on the floor at that
\* moment, neither held nor soft-deleted.  The two that do not claim are the
\* conversion of a quotation and a save that repeats the car it read.
FloorStep ==
    \A s \in Sale : saleStock'[s] \notin {saleStock[s], NoStock} =>
       \/ /\ stockStatus[saleStock'[s]] \in SellableStatuses
          /\ saleStock'[s] \notin deleted
       \/ \E w \in Worker : /\ inflight[w].op \in {"convertToSale", "updateSaleResend"}
                            /\ inflight'[w] = Idle

OnlyFloorUnitsAreBooked == [][FloorStep]_vars

\* The abstract showroom this module implements.
heldBy == [k \in Stock |->
             IF \E s \in Sale : saleStock[s] = k
             THEN CHOOSE s \in Sale : saleStock[s] = k
             ELSE NoSale]
handedOver == {k \in Stock : stockStatus[k] = "SOLD"}
purged == {k \in Stock : stockStatus[k] = "PURGED"}

Ledger == INSTANCE UnitLedger WITH holder <- heldBy, delivered <- handedOver, gone <- purged

\* The sale and stock tables together behave like UnitLedger.
UnitPromise == Ledger!Spec
=============================================================================
