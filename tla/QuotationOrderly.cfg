\* Requests on one quotation do not overlap.
CONSTANTS
    q1 = q1
    q2 = q2
    s1 = s1
    s2 = s2
    w1 = w1
    w2 = w2
    Quote = {q1, q2}
    Sale = {s1, s2}
    Worker = {w1, w2}
    NoQuote = NoQuote
    NoSale = NoSale
    Prices = {2, 3}
    Discounts = {0, 1}
    QuoteOverlap = FALSE
SPECIFICATION Spec
SYMMETRY Symmetric
CHECK_DEADLOCK FALSE
INVARIANT TypeOK
INVARIANT OneSalePerQuotation
INVARIANT SoldAtQuotedPrice
INVARIANT LinkPointsBack
