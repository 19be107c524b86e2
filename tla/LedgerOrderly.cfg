\* Only createPayment requests overlap.
CONSTANTS
    p1 = p1
    p2 = p2
    w1 = w1
    w2 = w2
    Payment = {p1, p2}
    Worker = {w1, w2}
    Amounts = {1, 2}
    Totals = {2, 3}
    Fees = {0, 1}
    Deposits = {0, 1, 3}
    Ops <- Handlers
    SaleOverlap = FALSE
SPECIFICATION Spec
SYMMETRY Symmetric
INVARIANT TypeOK
INVARIANT PaidIsWhatWasPaid
INVARIANT BalanceExplained
INVARIANT NeverOverdrawn
PROPERTY PaidFollowsReceipts
