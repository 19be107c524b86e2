\* The same requests; what an edit of the campaign guards is not guarded elsewhere.
CONSTANTS
    c1 = c1
    c2 = c2
    m1 = m1
    m2 = m2
    k1 = k1
    s1 = s1
    w1 = w1
    NoCampaign = NoCampaign
    NoModel = NoModel
    NoCar = NoCar
    Campaign = {c1, c2}
    Model = {m1, m2}
    Car = {k1}
    Sale = {s1}
    Worker = {w1}
    Days <- SaleDay
    Windows <- OneWindow
    Forms <- DraftOrActive
    Overlap = FALSE
SPECIFICATION Spec
CHECK_DEADLOCK FALSE
PROPERTY ModelsInUseStay
