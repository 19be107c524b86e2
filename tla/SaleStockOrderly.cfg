\* Requests on one sale do not overlap; requests on different sales do.
CONSTANTS
    s1 = s1
    s2 = s2
    k1 = k1
    k2 = k2
    w1 = w1
    w2 = w2
    Sale = {s1, s2}
    Stock = {k1, k2}
    Worker = {w1, w2}
    NoSale = NoSale
    NoStock = NoStock
    Ops <- Handlers
    SameRowOverlap = FALSE
SPECIFICATION Spec
SYMMETRY Symmetric
INVARIANT TypeOK
INVARIANT UniqueLink
INVARIANT HeldUnitsAreLinked
INVARIANT StatusesAgree
INVARIANT DeliveredOwnsItsUnit
PROPERTY LifecycleFollowed
PROPERTY ResendIsNoOp
PROPERTY UnitPromise
PROPERTY OnlyFloorUnitsAreBooked
