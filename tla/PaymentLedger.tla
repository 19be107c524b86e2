--------------------------- MODULE PaymentLedger ---------------------------
(***************************************************************************)
(* The balance of one sale and the receipts against it                     *)
(* (payments.service.ts, and the money fields of sales.service.ts and      *)
(* quotations.service.ts#convertToSale).  Receipts of different sales      *)
(* never meet, so one sale is enough.                                      *)
(*                                                                         *)
(* createPayment checks and writes inside one Serializable transaction: if *)
(* the sale row changed after its snapshot, PostgreSQL refuses the write,  *)
(* so what commits is one step on the current row.  updatePayment and      *)
(* voidPayment check the receipt before their READ COMMITTED transaction,  *)
(* which writes the receipt row (and keeps it locked), reads the sale and  *)
(* writes back an absolute paidAmount and remainingAmount: three steps.    *)
(* updateSale computes remainingAmount before a single UPDATE: two steps.  *)
(*                                                                         *)
(* Amounts are whole numbers of satang.  The status of the sale is left    *)
(* out: no payment handler looks at it.                                    *)
(***************************************************************************)
EXTENDS Integers, FiniteSets, Functions

CONSTANTS
    Payment,               \* payment ids: bounds how many receipts are issued
    Worker,                \* requests the API serves at the same time
    Amounts,               \* amounts a receipt may have
    Totals, Fees, Deposits,\* totalAmount, buyerFees and depositAmount of the form
    Ops,                   \* the handlers in use
    SaleOverlap            \* may any two requests on the sale be in flight at
                           \* once?  The code does not prevent it; FALSE leaves
                           \* only concurrent createPayment requests.

Handlers == {"createSale", "convertToSale", "updateSale", "deleteSale",
             "createPayment", "updatePayment", "voidPayment"}

ASSUME AmountsAssumption ==
    /\ Amounts \subseteq Nat \ {0}
    /\ Totals \subseteq Nat \ {0}
    /\ Fees \subseteq Nat
    /\ Deposits \subseteq Nat
ASSUME LedgerOpsAssumption == Ops \subseteq Handlers /\ SaleOverlap \in BOOLEAN
\* Only finitely many receipts are ever issued, so they can be summed up.
ASSUME ReceiptsFinite == IsFiniteSet(Payment)

VARIABLES
    saleRow,     \* "NONE" before the insert, "PRESENT", "DELETED"
    total,       \* Sale.totalAmount
    fees,        \* the buyer-charged fees (insurance, compulsory, registration)
    deposit,     \* Sale.depositAmount, the agreed deposit
    paid,        \* Sale.paidAmount
    remaining,   \* Sale.remainingAmount
    pay,         \* the payment rows: status, amount, paymentType (one of
                 \* CAR_PAYMENT_TYPES or another), saleId (the sale or null)
    inflight     \* what each worker's request has read so far

saleVars == <<saleRow, total, fees, deposit, paid, remaining>>
terms == <<saleRow, total, fees, deposit>>
vars == <<saleRow, total, fees, deposit, paid, remaining, pay, inflight>>
-----------------------------------------------------------------------------
SaleRows == {"NONE", "PRESENT", "DELETED"}
PaymentTypes == {"CAR", "OTHER"}
SaleIds == {"sale", "null"}

PaymentRow == [status : {"NONE", "ACTIVE", "VOIDED"}, amount : Nat,
               type : PaymentTypes, saleId : SaleIds]

NoRow == [status |-> "NONE", amount |-> 0, type |-> "OTHER", saleId |-> "null"]

Receipt(amount, type, saleId) ==
    [status |-> "ACTIVE", amount |-> amount, type |-> type, saleId |-> saleId]

\* What a request carries from its checks: the new receipt; the edit or voiding
\* of receipt pay, with the saleId it read, by how much paidAmount moves (diff)
\* and, once its transaction has read the sale, what it saw of it; or the terms
\* updateSale will write, with the balance if it recalculates.
Seen == [row : SaleRows \cup {"unread"}, paid : Int, due : Int]
Unread == [row |-> "unread", paid |-> 0, due |-> 0]

NewReceipt == [op : {"createPayment"}, amount : Nat, type : PaymentTypes, saleId : SaleIds]
ReceiptEdit == [op : {"updatePayment", "voidPayment"}, pay : Payment, amount : Nat,
                type : PaymentTypes, saleId : SaleIds, diff : Int, seen : Seen]
NewTerms == [op : {"updateSale"}, total : Nat, fees : Nat, deposit : Nat,
             balance : {"keep", "recalculate"}, remaining : Int]

Idle == [op |-> "idle"]
Request == {Idle} \cup NewReceipt \cup ReceiptEdit \cup NewTerms

Present == saleRow = "PRESENT"
due == total + fees

\* The part of an amount that counts towards the car price.
Counted(amount, type) == IF type = "CAR" THEN amount ELSE 0

Begin(w, r) ==
    /\ r.op \in Ops
    /\ inflight[w] = Idle
    /\ SaleOverlap \/ \A v \in Worker \ {w} :
          \/ inflight[v] = Idle
          \/ inflight[v].op = "createPayment" /\ r.op = "createPayment"
    /\ inflight' = [inflight EXCEPT ![w] = r]
    /\ UNCHANGED <<saleVars, pay>>

Finish(w) == inflight' = [inflight EXCEPT ![w] = Idle]

\* The check fails, the transaction throws or the process dies.
FailRequest(w) ==
    /\ inflight[w] # Idle
    /\ Finish(w)
    /\ UNCHANGED <<saleVars, pay>>

\* One transaction at a time holds the lock on a payment row.
Locked(p) ==
    \E v \in Worker : /\ inflight[v].op \in {"updatePayment", "voidPayment"}
                      /\ inflight[v].pay = p
                      /\ inflight[v].seen.row # "unread"
-----------------------------------------------------------------------------
\* createSale: the agreed deposit is taken off the balance although nothing has
\* been paid yet.
CreateSale(t, f, d) ==
    /\ "createSale" \in Ops
    /\ saleRow = "NONE"
    /\ saleRow' = "PRESENT"
    /\ total' = t /\ fees' = f /\ deposit' = d
    /\ paid' = 0
    /\ remaining' = t + f - d
    /\ UNCHANGED <<pay, inflight>>

\* Mutant: the deposit receipt is written, the sale does not count it.
ConvertUncounted(t, d, p) ==
    /\ "convertToSale" \in Ops
    /\ saleRow = "NONE"
    /\ saleRow' = "PRESENT"
    /\ total' = t /\ fees' = 0 /\ deposit' = d
    /\ paid' = 0
    /\ remaining' = t - d
    /\ d > 0 /\ pay[p].status = "NONE" /\ pay' = [pay EXCEPT ![p] = Receipt(d, "CAR", "sale")]
    /\ UNCHANGED inflight

\* convertToSale: no fees; the deposit, if any, is a receipt of its own.
ConvertToSale(t, d, p) ==
    /\ "convertToSale" \in Ops
    /\ saleRow = "NONE"
    /\ saleRow' = "PRESENT"
    /\ total' = t /\ fees' = 0 /\ deposit' = d
    /\ paid' = d
    /\ remaining' = t - d
    /\ \/ d = 0 /\ UNCHANGED pay
       \/ /\ d > 0
          /\ pay[p].status = "NONE"
          /\ pay' = [pay EXCEPT ![p] = Receipt(d, "CAR", "sale")]
    /\ UNCHANGED inflight

\* The balance updateSale writes: nothing when the form re-sends the terms it
\* loaded, total + fees - paid when one of them changed.
Changed(t, f, d) == t # total \/ f # fees \/ d # deposit

\* What updateSale will write.
Terms(t, f, d) ==
    [op |-> "updateSale", total |-> t, fees |-> f, deposit |-> d,
     balance |-> IF Changed(t, f, d) THEN "recalculate" ELSE "keep",
     remaining |-> t + f - paid]

BeginUpdateSale(w, t, f, d) ==
    /\ Present
    /\ Changed(t, f, d) => d <= t /\ t + f - paid >= 0
    /\ Begin(w, Terms(t, f, d))

CommitUpdateSale(w) ==
    LET r == inflight[w] IN
    /\ r.op = "updateSale"
    /\ Present
    /\ total' = r.total /\ fees' = r.fees /\ deposit' = r.deposit
    /\ remaining' = IF r.balance = "recalculate" THEN r.remaining ELSE remaining
    /\ UNCHANGED <<saleRow, paid, pay>>
    /\ Finish(w)

\* deleteSale: the receipts stay, with sale_id set to NULL, which waits for the
\* payment rows that a transaction holds.
DeleteSale ==
    /\ "deleteSale" \in Ops
    /\ Present
    /\ \A p \in Payment : pay[p].saleId = "sale" => ~Locked(p)
    /\ saleRow' = "DELETED"
    /\ pay' = [p \in Payment |-> [pay[p] EXCEPT !.saleId = "null"]]
    /\ UNCHANGED <<total, fees, deposit, paid, remaining, inflight>>
-----------------------------------------------------------------------------
\* The check outside the transaction, repeated inside.
Affordable(a, type, saleId) ==
    saleId = "sale" => Present /\ (type = "CAR" => a <= remaining)

BeginCreatePayment(w, a, type, saleId) ==
    /\ Affordable(a, type, saleId)
    /\ Begin(w, [op |-> "createPayment", amount |-> a, type |-> type, saleId |-> saleId])

\* Mutant: only the friendly check before the transaction is left.
CommitCreateUnchecked(w, p) ==
    LET r == inflight[w] IN
    /\ r.op = "createPayment"
    /\ r.saleId = "sale" => Present
    /\ pay[p].status = "NONE"
    /\ pay' = [pay EXCEPT ![p] = Receipt(r.amount, r.type, r.saleId)]
    /\ IF r.saleId = "sale" /\ r.type = "CAR"
       THEN paid' = paid + r.amount /\ remaining' = due - paid'
       ELSE UNCHANGED <<paid, remaining>>
    /\ UNCHANGED terms
    /\ Finish(w)

CommitCreatePayment(w, p) ==
    LET r == inflight[w] IN
    /\ r.op = "createPayment"
    /\ Affordable(r.amount, r.type, r.saleId)
    /\ pay[p].status = "NONE"
    /\ pay' = [pay EXCEPT ![p] = Receipt(r.amount, r.type, r.saleId)]
    /\ IF r.saleId = "sale" /\ r.type = "CAR"
       THEN paid' = paid + r.amount /\ remaining' = due - paid'
       ELSE UNCHANGED <<paid, remaining>>
    /\ UNCHANGED terms
    /\ Finish(w)

\* What a check leaves behind of receipt p.
Edit(op, p, amount, type, diff) ==
    [op |-> op, pay |-> p, amount |-> amount, type |-> type, saleId |-> pay[p].saleId,
     diff |-> diff, seen |-> Unread]

Voiding(p) ==
    Edit("voidPayment", p, pay[p].amount, pay[p].type,
         0 - Counted(pay[p].amount, pay[p].type))

\* updatePayment gives receipt p the amount a and the type; a rise of what
\* counts must fit the balance as read here, before the transaction.
BeginUpdatePayment(w, p, a, type) ==
    LET diff == Counted(a, type) - Counted(pay[p].amount, pay[p].type) IN
    /\ pay[p].status = "ACTIVE"
    /\ pay[p].saleId = "sale" /\ diff > 0 => diff <= remaining
    /\ Begin(w, Edit("updatePayment", p, a, type, diff))

\* Mutant: a voided receipt can be voided again.
BeginVoidAnyPayment(w, p) ==
    /\ pay[p].status # "NONE"
    /\ Begin(w, Voiding(p))

BeginVoidPayment(w, p) ==
    /\ pay[p].status = "ACTIVE"
    /\ Begin(w, Voiding(p))

Now == [row |-> saleRow, paid |-> paid, due |-> due]

\* The transaction updates the payment row, waiting for its lock, and reads the
\* sale.
ReadBalance(w) ==
    LET r == inflight[w] IN
    /\ r.op \in {"updatePayment", "voidPayment"}
    /\ r.seen.row = "unread"
    /\ ~Locked(r.pay)
    /\ inflight' = [inflight EXCEPT ![w] = [r EXCEPT !.seen = Now]]
    /\ UNCHANGED <<saleVars, pay>>

\* Mutant: the balance is left for the next payment to fix.
SettlePaidOnly(r) ==
    IF r.saleId = "sale" /\ r.seen.row = "PRESENT" /\ r.diff # 0
    THEN paid' = r.seen.paid + r.diff /\ UNCHANGED remaining
    ELSE UNCHANGED <<paid, remaining>>

\* The absolute write of the balance, from what was read of the sale.
Settle(r) ==
    IF r.saleId = "sale" /\ r.seen.row = "PRESENT" /\ r.diff # 0
    THEN /\ paid' = r.seen.paid + r.diff
         /\ remaining' = r.seen.due - (r.seen.paid + r.diff)
    ELSE UNCHANGED <<paid, remaining>>

\* Mutant: the difference is written instead of the amount.
AmendedByDiff(row, r) ==
    [status |-> row.status, amount |-> r.diff, type |-> r.type, saleId |-> row.saleId]

\* The edit does not touch the status the row has by then.
Amended(row, r) ==
    [status |-> row.status, amount |-> r.amount, type |-> r.type, saleId |-> row.saleId]

CommitUpdatePayment(w) ==
    LET r == inflight[w] IN
    /\ r.op = "updatePayment" /\ r.seen.row # "unread"
    /\ pay' = [pay EXCEPT ![r.pay] = Amended(@, r)]
    /\ Settle(r)
    /\ UNCHANGED terms
    /\ Finish(w)

CommitVoidPayment(w) ==
    LET r == inflight[w] IN
    /\ r.op = "voidPayment" /\ r.seen.row # "unread"
    /\ pay' = [pay EXCEPT ![r.pay] = [@ EXCEPT !.status = "VOIDED"]]
    /\ Settle(r)
    /\ UNCHANGED terms
    /\ Finish(w)
-----------------------------------------------------------------------------
Init ==
    /\ saleRow = "NONE"
    /\ total = 0 /\ fees = 0 /\ deposit = 0
    /\ paid = 0 /\ remaining = 0
    /\ pay = [p \in Payment |-> NoRow]
    /\ inflight = [w \in Worker |-> Idle]

OpenSale ==
    \E t \in Totals, d \in Deposits :
       \/ \E f \in Fees : CreateSale(t, f, d)
       \/ \E p \in Payment : ConvertToSale(t, d, p)

BeginSome(w) ==
    \/ \E t \in Totals, f \in Fees, d \in Deposits : BeginUpdateSale(w, t, f, d)
    \/ \E a \in Amounts, type \in PaymentTypes, saleId \in SaleIds :
          BeginCreatePayment(w, a, type, saleId)
    \/ \E p \in Payment, a \in Amounts, type \in PaymentTypes : BeginUpdatePayment(w, p, a, type)
    \/ \E p \in Payment : BeginVoidPayment(w, p)

CommitSome(w) ==
    \/ CommitUpdateSale(w)
    \/ \E p \in Payment : CommitCreatePayment(w, p)
    \/ CommitUpdatePayment(w)
    \/ CommitVoidPayment(w)

Next ==
    \/ OpenSale
    \/ DeleteSale
    \/ \E w \in Worker : BeginSome(w) \/ ReadBalance(w) \/ CommitSome(w) \/ FailRequest(w)

Spec == Init /\ [][Next]_vars
-----------------------------------------------------------------------------
(***************************************************************************)
(* Properties.                                                             *)
(***************************************************************************)

\* Every variable has its type.
TypeOK ==
    /\ saleRow \in SaleRows
    /\ total \in Nat /\ fees \in Nat /\ deposit \in Nat
    /\ paid \in Int /\ remaining \in Int
    /\ pay \in [Payment -> PaymentRow]
    /\ inflight \in [Worker -> Request]

\* What a receipt contributes to paidAmount.
Contribution(row) ==
    IF row.status = "ACTIVE" /\ row.saleId = "sale" THEN Counted(row.amount, row.type) ELSE 0

PaidUp == SumFunction([p \in Payment |-> Contribution(pay[p])])

\* "`paidAmount` is the single source of truth for what the customer has
\* actually settled": it is the sum of the receipts in force.
PaidIsWhatWasPaid ==
    Present => paid = PaidUp

\* "Invariant: remainingAmount = totalAmount + totalFees - paidAmount", with one
\* exception that the comment does not name: until the first receipt or the first
\* change of the terms a sale keeps the balance createSale gave it, less the
\* agreed deposit; from then on the stated invariant holds.
BalanceExplained ==
    Present => remaining = due - paid \/ (paid = 0 /\ remaining = due - deposit)

\* Nobody pays more than is owed, by whatever mix of new receipts, corrected
\* receipts and changed terms.  The exception is a sale opened with a deposit
\* above its price, which neither createSale nor convertToSale refuses; it lasts
\* until the deposit is corrected.
NeverOverdrawn == Present /\ deposit <= total => remaining >= 0

\* paidAmount moves with the receipts and never otherwise: a step changes what
\* at most one receipt contributes, and paidAmount by exactly that much.  (The
\* step that deletes the sale lets go of all its receipts.)
PaidFollowsStep ==
    saleRow' # "DELETED" =>
       \/ /\ paid' = paid
          /\ \A p \in Payment : Contribution(pay'[p]) = Contribution(pay[p])
       \/ \E p \in Payment :
             /\ paid' - paid = Contribution(pay'[p]) - Contribution(pay[p])
             /\ \A q \in Payment \ {p} : Contribution(pay'[q]) = Contribution(pay[q])

PaidFollowsReceipts == [][PaidFollowsStep]_vars
=============================================================================
