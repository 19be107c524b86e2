\* Two requests void the same receipt.  The receipts may run out.
CONSTANTS
    p1 = p1
    p2 = p2
    w1 = w1
    w2 = w2
    Payment = {p1, p2}
    Worker = {w1, w2}
    Amounts = {1, 2}
    Totals = {2, 3}
    Fees = {0, 1}
    Deposits = {0, 1}
    Ops <- VoidOps
    SaleOverlap = TRUE
SPECIFICATION Spec
SYMMETRY Symmetric
INVARIANT PaidIsWhatWasPaid
CHECK_DEADLOCK FALSE
