\* Requests on the car one after the other; each may be dated back.
CONSTANTS
    i1 = i1
    i2 = i2
    i3 = i3
    w1 = w1
    Period = {i1, i2, i3}
    Worker = {w1}
    LastDay = 1
    Shifts <- Backdated
    Rates = {1}
    Starts = {0, 1}
    Cost = 4
    Amounts = {2}
    MaxPayments = 2
    Financed = TRUE
    Ops <- Handlers
    Overlap = FALSE
SPECIFICATION Spec
SYMMETRY RowSymmetry
CHECK_DEADLOCK FALSE
INVARIANT TypeOK
INVARIANT DebtBooks
PROPERTY OnlyInitializeRunsTwo
PROPERTY StoppingKeepsInterest
PROPERTY ReadingIsNeutral
