-------------------------- MODULE QuotationProofs --------------------------
(***************************************************************************)
(* Type correctness, links that point back whatever overlaps, and, while   *)
(* requests on one quotation do not overlap, one sale per quotation at the *)
(* quoted price, for any number of quotations, sales and requests.         *)
(***************************************************************************)
EXTENDS Quotation, TLAPS

Busy(w) == inflight[w] # Idle

LEMMA InitTyped == Init => TypeOK
  BY DEF Init, TypeOK

LEMMA SnapshotTyped ==
  ASSUME TypeOK, NEW q \in Quote, Exists(q), NEW to \in Statuses,
         NEW op \in {"status", "convert", "delete"}
  PROVE  Snapshot(op, q, to) \in Request
  BY DEF TypeOK, Snapshot, Request, Exists

LEMMA BeginTyped ==
  ASSUME TypeOK, NEW w \in Worker, BeginSome(w)
  PROVE  \E r \in Request : Begin(w, r)
<1>1. PICK q \in Quote :
        \/ \E writes \in SUBSET Columns \ {{}},
              p \in Prices \cup {quoted[q]}, d \in Discounts \cup {discount[q]} :
              BeginUpdateQuotation(w, q, p, d, writes)
        \/ \E to \in Statuses : BeginUpdateQuotationStatus(w, q, to)
        \/ BeginConvertToSale(w, q)
        \/ BeginDeleteQuotation(w, q)
  BY DEF BeginSome
<1>2. ASSUME NEW writes \in SUBSET Columns \ {{}},
             NEW p \in Prices \cup {quoted[q]}, NEW d \in Discounts \cup {discount[q]},
             BeginUpdateQuotation(w, q, p, d, writes)
      PROVE  \E r \in Request : Begin(w, r)
  <2>1. p \in Int /\ d \in Int /\ p - d \in Int
    BY QuoteAmounts DEF TypeOK
  <2> QED BY <1>2, <2>1 DEF BeginUpdateQuotation, Request, Statuses
<1>3. ASSUME NEW to \in Statuses, BeginUpdateQuotationStatus(w, q, to)
      PROVE  \E r \in Request : Begin(w, r)
  BY <1>3, SnapshotTyped DEF BeginUpdateQuotationStatus, validTransitions, Exists, Statuses
<1>4. ASSUME BeginConvertToSale(w, q) PROVE \E r \in Request : Begin(w, r)
  BY <1>4, SnapshotTyped DEF BeginConvertToSale, Exists, Statuses
<1>5. ASSUME BeginDeleteQuotation(w, q) PROVE \E r \in Request : Begin(w, r)
  BY <1>5, SnapshotTyped DEF BeginDeleteQuotation, Exists, Statuses
<1> QED BY <1>1, <1>2, <1>3, <1>4, <1>5

\* A request that is not idle is a typed one.
LEMMA BusyTyped ==
  ASSUME TypeOK, NEW w \in Worker, inflight[w].op # "idle"
  PROVE  inflight[w] \in Request /\ Busy(w)
  BY DEF TypeOK, Idle, Busy

LEMMA StepTyped == TypeOK /\ [Next]_vars => TypeOK'
<1> SUFFICES ASSUME TypeOK, [Next]_vars PROVE TypeOK'
  OBVIOUS
<1>1. ASSUME NEW q \in Quote, NEW p \in Prices, NEW d \in Discounts, CreateQuotation(q, p, d)
      PROVE  TypeOK'
  <2>1. p \in Int /\ d \in Int /\ p - d \in Int
    BY QuoteAmounts
  <2> QED BY <1>1, <2>1 DEF CreateQuotation, TypeOK, links, Statuses
<1>2. ASSUME NEW w \in Worker, BeginSome(w) PROVE TypeOK'
  BY <1>2, BeginTyped DEF Begin, TypeOK, prices, links
<1>3. ASSUME NEW w \in Worker, CommitUpdateQuotation(w) PROVE TypeOK'
  <2>1. inflight[w] \in Request
    BY <1>3, BusyTyped DEF CommitUpdateQuotation
  <2> QED BY <1>3, <2>1 DEF CommitUpdateQuotation, TypeOK, Request, Finish, links
<1>4. ASSUME NEW w \in Worker, CommitUpdateQuotationStatus(w) PROVE TypeOK'
  <2>1. inflight[w] \in Request
    BY <1>4, BusyTyped DEF CommitUpdateQuotationStatus
  <2> QED BY <1>4, <2>1 DEF CommitUpdateQuotationStatus, TypeOK, Request, Finish, links, prices
<1>5. ASSUME NEW w \in Worker, NEW s \in Sale, CommitConvertToSale(w, s) PROVE TypeOK'
  <2>1. inflight[w] \in Request
    BY <1>5, BusyTyped DEF CommitConvertToSale
  <2> QED BY <1>5, <2>1 DEF CommitConvertToSale, TypeOK, Request, Finish, prices
<1>6. ASSUME NEW w \in Worker, CommitDeleteQuotation(w) PROVE TypeOK'
  <2>1. inflight[w] \in Request
    BY <1>6, BusyTyped DEF CommitDeleteQuotation
  <2> QED BY <1>6, <2>1 DEF CommitDeleteQuotation, TypeOK, Request, Finish, prices
<1>7. ASSUME NEW w \in Worker, FailRequest(w) PROVE TypeOK'
  BY <1>7 DEF FailRequest, TypeOK, Finish, prices, links
<1>8. ASSUME NEW s \in Sale, DeleteSale(s) PROVE TypeOK'
  BY <1>8 DEF DeleteSale, TypeOK, prices
<1>9. CASE UNCHANGED vars
  BY <1>9 DEF vars, TypeOK
<1> QED BY <1>1, <1>2, <1>3, <1>4, <1>5, <1>6, <1>7, <1>8, <1>9
     DEF Next, CommitSome, CreateNewVersion

\* Every variable keeps its type.
THEOREM QuotationTyped == Spec => []TypeOK
  BY InitTyped, StepTyped, PTL DEF Spec
-----------------------------------------------------------------------------
LEMMA StepLinked == TypeOK /\ LinkPointsBack /\ [Next]_vars => LinkPointsBack'
<1> SUFFICES ASSUME TypeOK, LinkPointsBack, [Next]_vars PROVE LinkPointsBack'
  OBVIOUS
<1>1. ASSUME UNCHANGED <<saleId, madeFrom>> PROVE LinkPointsBack'
  BY <1>1 DEF LinkPointsBack
<1>2. ASSUME NEW w \in Worker, NEW s \in Sale, CommitConvertToSale(w, s) PROVE LinkPointsBack'
  <2>1. inflight[w].quote \in Quote
    BY <1>2, BusyTyped DEF CommitConvertToSale, Request
  <2>2. /\ saleId' = [saleId EXCEPT ![inflight[w].quote] = s]
        /\ madeFrom' = [madeFrom EXCEPT ![s] = inflight[w].quote] /\ madeFrom[s] = NoQuote
    BY <1>2 DEF CommitConvertToSale
  <2> SUFFICES ASSUME NEW q \in Quote, saleId'[q] # NoSale PROVE madeFrom'[saleId'[q]] = q
    BY DEF LinkPointsBack
  <2>3. CASE q = inflight[w].quote
    BY <2>1, <2>2, <2>3 DEF TypeOK
  <2>4. CASE q # inflight[w].quote
    <3>1. saleId'[q] = saleId[q] /\ madeFrom[saleId[q]] = q /\ saleId[q] \in Sale
      BY <2>2, <2>4 DEF TypeOK, LinkPointsBack
    <3>2. saleId[q] # s
      BY <3>1, <2>2, QuoteNulls
    <3> QED BY <2>2, <3>1, <3>2 DEF TypeOK
  <2> QED BY <2>3, <2>4
<1>3. ASSUME NEW w \in Worker, CommitDeleteQuotation(w) PROVE LinkPointsBack'
  BY <1>3 DEF CommitDeleteQuotation, LinkPointsBack, TypeOK
<1>4. ASSUME NEW s \in Sale, DeleteSale(s) PROVE LinkPointsBack'
  BY <1>4 DEF DeleteSale, LinkPointsBack, TypeOK
<1>5. ASSUME NEW w \in Worker, BeginSome(w) PROVE LinkPointsBack'
  BY <1>1, <1>5, BeginTyped DEF Begin, links
<1>6. ASSUME NEW q \in Quote, NEW p \in Prices, NEW d \in Discounts, CreateQuotation(q, p, d)
      PROVE  LinkPointsBack'
  BY <1>1, <1>6 DEF CreateQuotation, links
<1>7. ASSUME NEW w \in Worker,
             CommitUpdateQuotation(w) \/ CommitUpdateQuotationStatus(w) \/ FailRequest(w)
      PROVE  LinkPointsBack'
  BY <1>1, <1>7 DEF CommitUpdateQuotation, CommitUpdateQuotationStatus, FailRequest, links
<1>8. CASE UNCHANGED vars
  BY <1>1, <1>8 DEF vars
<1> QED BY <1>2, <1>3, <1>4, <1>5, <1>6, <1>7, <1>8 DEF Next, CommitSome, CreateNewVersion

\* Whatever overlaps, a quotation's sale_id names the sale that was made from it.
THEOREM LinksPointBack == Spec => []LinkPointsBack
<1>1. Init => TypeOK /\ LinkPointsBack
  BY InitTyped DEF Init, LinkPointsBack
<1>2. TypeOK /\ LinkPointsBack /\ [Next]_vars => (TypeOK /\ LinkPointsBack)'
  BY StepTyped, StepLinked
<1> QED BY <1>1, <1>2, PTL DEF Spec
-----------------------------------------------------------------------------
(***************************************************************************)
(* Requests on one quotation in order.  A commit writes what its request   *)
(* read, so the properties are inductive only with this: what a request    *)
(* read is still so.                                                       *)
(***************************************************************************)

Fresh(r) ==
    /\ status[r.quote] = r.seen
    /\ r.op = "update" => /\ r.seen = "DRAFT"
                          /\ r.final = r.quoted - r.discount
                          /\ "quotedPrice" \notin r.writes => r.quoted = quoted[r.quote]
                          /\ "discountAmount" \notin r.writes => r.discount = discount[r.quote]
    /\ r.op = "convert" => r.seen = "ACCEPTED" /\ r.to = "CONVERTED" /\ r.final = final[r.quote]
    /\ r.op = "delete" => r.seen = "DRAFT"
    /\ r.op = "status" => <<r.seen, r.to>> \in validTransitions

AllFresh == \A w \in Worker : Busy(w) => Fresh(inflight[w])

NoCollision ==
    \A v, w \in Worker : v # w /\ Busy(v) /\ Busy(w) => inflight[v].quote # inflight[w].quote

RowsRight == OneSalePerQuotation /\ SoldAtQuotedPrice /\ FinalPriceIsNet

OrderlyQuotations == TypeOK /\ NoCollision /\ AllFresh /\ RowsRight

LEMMA InitOrderly == Init => OrderlyQuotations
  BY InitTyped DEF Init, OrderlyQuotations, NoCollision, AllFresh, RowsRight, Busy,
     OneSalePerQuotation, SoldAtQuotedPrice, FinalPriceIsNet, Exists, Statuses

\* What a request reads is so when it has read it.
LEMMA BeginFresh ==
  ASSUME TypeOK, NEW w \in Worker, BeginSome(w)
  PROVE  \E r \in Request : Begin(w, r) /\ Fresh(r)
<1>1. PICK q \in Quote :
        \/ \E writes \in SUBSET Columns \ {{}},
              p \in Prices \cup {quoted[q]}, d \in Discounts \cup {discount[q]} :
              BeginUpdateQuotation(w, q, p, d, writes)
        \/ \E to \in Statuses : BeginUpdateQuotationStatus(w, q, to)
        \/ BeginConvertToSale(w, q)
        \/ BeginDeleteQuotation(w, q)
  BY DEF BeginSome
<1>2. ASSUME NEW writes \in SUBSET Columns \ {{}},
             NEW p \in Prices \cup {quoted[q]}, NEW d \in Discounts \cup {discount[q]},
             BeginUpdateQuotation(w, q, p, d, writes)
      PROVE  \E r \in Request : Begin(w, r) /\ Fresh(r)
  <2> DEFINE u == [op |-> "update", quote |-> q, seen |-> "DRAFT", to |-> "DRAFT",
                   writes |-> writes, quoted |-> p, discount |-> d, final |-> p - d]
  <2>1. p \in Int /\ d \in Int /\ p - d \in Int
    BY QuoteAmounts DEF TypeOK
  <2>2. u \in Request
    BY <2>1 DEF Request, Statuses
  <2>3. Begin(w, u) /\ Fresh(u)
    BY <1>2 DEF BeginUpdateQuotation, Fresh
  <2> QED BY <2>2, <2>3
<1>3. ASSUME NEW to \in Statuses, BeginUpdateQuotationStatus(w, q, to)
      PROVE  \E r \in Request : Begin(w, r) /\ Fresh(r)
  <2>1. Exists(q)
    BY <1>3 DEF BeginUpdateQuotationStatus, validTransitions, Exists, Statuses
  <2>2. Fresh(Snapshot("status", q, to))
    BY <1>3 DEF BeginUpdateQuotationStatus, Fresh, Snapshot
  <2> QED BY <1>3, <2>1, <2>2, SnapshotTyped DEF BeginUpdateQuotationStatus
<1>4. ASSUME BeginConvertToSale(w, q) PROVE \E r \in Request : Begin(w, r) /\ Fresh(r)
  <2>1. Exists(q) /\ "CONVERTED" \in Statuses
    BY <1>4 DEF BeginConvertToSale, Exists, Statuses
  <2>2. Fresh(Snapshot("convert", q, "CONVERTED"))
    BY <1>4 DEF BeginConvertToSale, Fresh, Snapshot
  <2> QED BY <1>4, <2>1, <2>2, SnapshotTyped DEF BeginConvertToSale
<1>5. ASSUME BeginDeleteQuotation(w, q) PROVE \E r \in Request : Begin(w, r) /\ Fresh(r)
  <2>1. Exists(q) /\ "DRAFT" \in Statuses
    BY <1>5 DEF BeginDeleteQuotation, Exists, Statuses
  <2>2. Fresh(Snapshot("delete", q, "DRAFT"))
    BY <1>5 DEF BeginDeleteQuotation, Fresh, Snapshot
  <2> QED BY <1>5, <2>1, <2>2, SnapshotTyped DEF BeginDeleteQuotation
<1> QED BY <1>1, <1>2, <1>3, <1>4, <1>5

\* The others' reads stay so while one request writes its own quotation.
LEMMA OthersStayFresh ==
  ASSUME TypeOK, NoCollision, AllFresh, NEW w \in Worker, Busy(w), Finish(w),
         \A q \in Quote \ {inflight[w].quote} :
            /\ status'[q] = status[q] /\ quoted'[q] = quoted[q]
            /\ discount'[q] = discount[q] /\ final'[q] = final[q]
  PROVE  NoCollision' /\ AllFresh'
<1>1. inflight'[w] = Idle /\ \A v \in Worker \ {w} : inflight'[v] = inflight[v]
  BY DEF Finish, TypeOK
<1>2. NoCollision'
  BY <1>1 DEF NoCollision, Busy
<1>3. ASSUME NEW v \in Worker, Busy(v)' PROVE Fresh(inflight[v])' /\ v # w
  <2>1. v # w /\ inflight'[v] = inflight[v] /\ Busy(v)
    BY <1>1, <1>3 DEF Busy
  <2>2. inflight[v].quote \in Quote \ {inflight[w].quote}
    BY <2>1 DEF NoCollision, TypeOK, Request, Busy
  <2>3. Fresh(inflight[v])
    BY <2>1 DEF AllFresh
  <2> QED BY <2>1, <2>2, <2>3 DEF Fresh
<1> QED BY <1>2, <1>3 DEF AllFresh

\* Nobody has in flight a quotation that does not exist.
LEMMA OnlyExistingInFlight ==
  ASSUME TypeOK, AllFresh, NEW w \in Worker, Busy(w)
  PROVE  Exists(inflight[w].quote) /\ inflight[w].quote \in Quote
  BY DEF TypeOK, AllFresh, Busy, Fresh, Request, Exists

LEMMA CreateKeepsOrder ==
  ASSUME OrderlyQuotations, NEW q \in Quote, NEW p \in Prices, NEW d \in Discounts,
         CreateQuotation(q, p, d)
  PROVE  NoCollision' /\ AllFresh' /\ RowsRight'
<1> USE DEF OrderlyQuotations
<1>1. status[q] = "NONE" /\ inflight' = inflight /\ UNCHANGED <<saleId, madeFrom, salePrice>>
  BY DEF CreateQuotation, links
<1>2. \A o \in Quote \ {q} : /\ status'[o] = status[o] /\ quoted'[o] = quoted[o]
                             /\ discount'[o] = discount[o] /\ final'[o] = final[o]
  BY DEF CreateQuotation, TypeOK
<1>3. NoCollision'
  BY <1>1 DEF NoCollision, Busy
<1>4. ASSUME NEW v \in Worker, Busy(v)' PROVE Fresh(inflight[v])'
  <2>1. inflight[v].quote \in Quote \ {q} /\ Fresh(inflight[v])
    BY <1>1, <1>4, OnlyExistingInFlight DEF Busy, Exists, Statuses, AllFresh
  <2> QED BY <1>1, <1>2, <2>1 DEF Fresh
<1>5. \A s \in Sale : madeFrom[s] # q
  BY <1>1, QuoteNulls DEF RowsRight, SoldAtQuotedPrice
<1>6. OneSalePerQuotation'
  BY <1>1 DEF RowsRight, OneSalePerQuotation
<1>7. SoldAtQuotedPrice'
  BY <1>1, <1>2, <1>5 DEF RowsRight, SoldAtQuotedPrice, TypeOK
<1>8. FinalPriceIsNet'
  <2>1. quoted'[q] = p /\ discount'[q] = d /\ final'[q] = p - d
    BY DEF CreateQuotation, TypeOK
  <2> QED BY <1>2, <2>1 DEF RowsRight, FinalPriceIsNet, Exists
<1> QED BY <1>3, <1>4, <1>6, <1>7, <1>8 DEF AllFresh, RowsRight

LEMMA UpdateKeepsOrder ==
  ASSUME OrderlyQuotations, NEW w \in Worker, CommitUpdateQuotation(w)
  PROVE  NoCollision' /\ AllFresh' /\ RowsRight'
<1> DEFINE r == inflight[w]
<1> USE DEF OrderlyQuotations
<1>1. r \in Request /\ Busy(w) /\ Fresh(r) /\ r.op = "update"
  BY BusyTyped DEF CommitUpdateQuotation, AllFresh
<1>2. r.quote \in Quote /\ r.quoted \in Int /\ r.discount \in Int
  BY <1>1 DEF Request
<1>3. Finish(w) /\ UNCHANGED <<status, saleId, madeFrom, salePrice>>
  BY DEF CommitUpdateQuotation, links
<1>4. /\ quoted'[r.quote] = r.quoted /\ discount'[r.quote] = r.discount
      /\ final'[r.quote] = r.quoted - r.discount
  BY <1>1, <1>2 DEF CommitUpdateQuotation, TypeOK, Fresh
<1>5. \A o \in Quote \ {r.quote} : quoted'[o] = quoted[o] /\ discount'[o] = discount[o] /\ final'[o] = final[o]
  BY <1>2 DEF CommitUpdateQuotation, TypeOK
<1>6. NoCollision' /\ AllFresh'
  BY <1>1, <1>3, <1>5, OthersStayFresh
<1>7. \A s \in Sale : madeFrom[s] # r.quote
  BY <1>1, <1>2, QuoteNulls DEF RowsRight, SoldAtQuotedPrice, Fresh
<1>8. OneSalePerQuotation'
  BY <1>3 DEF RowsRight, OneSalePerQuotation
<1>9. SoldAtQuotedPrice'
  BY <1>3, <1>5, <1>7 DEF RowsRight, SoldAtQuotedPrice, TypeOK
<1>10. FinalPriceIsNet'
  BY <1>3, <1>4, <1>5 DEF RowsRight, FinalPriceIsNet, Exists
<1> QED BY <1>6, <1>8, <1>9, <1>10 DEF RowsRight

\* A status change and the deletion of a draft: neither is of a converted
\* quotation, so no sale is concerned.
LEMMA MoveKeepsOrder ==
  ASSUME OrderlyQuotations, NEW w \in Worker,
         CommitUpdateQuotationStatus(w) \/ CommitDeleteQuotation(w)
  PROVE  NoCollision' /\ AllFresh' /\ RowsRight'
<1> DEFINE r == inflight[w]
<1> USE DEF OrderlyQuotations
<1>1. r \in Request /\ Busy(w) /\ Fresh(r) /\ r.op \in {"status", "delete"}
  BY BusyTyped DEF CommitUpdateQuotationStatus, CommitDeleteQuotation, AllFresh
<1>2. r.quote \in Quote
  BY <1>1 DEF Request
<1>3. Finish(w) /\ UNCHANGED <<quoted, discount, final, madeFrom, salePrice>>
  BY DEF CommitUpdateQuotationStatus, CommitDeleteQuotation, links, prices
<1>4. \A o \in Quote \ {r.quote} : status'[o] = status[o] /\ saleId'[o] = saleId[o]
  BY <1>2 DEF CommitUpdateQuotationStatus, CommitDeleteQuotation, TypeOK, links
<1>5. NoCollision' /\ AllFresh'
  BY <1>1, <1>3, <1>4, OthersStayFresh
<1>6. Exists(r.quote) /\ status[r.quote] # "CONVERTED"
  BY <1>1, <1>2, OnlyExistingInFlight DEF Fresh, validTransitions
<1>7. \A s \in Sale : madeFrom[s] # r.quote
  BY <1>2, <1>6, QuoteNulls DEF RowsRight, SoldAtQuotedPrice
<1>8. OneSalePerQuotation'
  BY <1>3 DEF RowsRight, OneSalePerQuotation
<1>9. SoldAtQuotedPrice'
  BY <1>3, <1>4, <1>7 DEF RowsRight, SoldAtQuotedPrice, TypeOK
<1>10. FinalPriceIsNet'
  BY <1>3, <1>4, <1>6 DEF RowsRight, FinalPriceIsNet, Exists
<1> QED BY <1>5, <1>8, <1>9, <1>10 DEF RowsRight

LEMMA ConvertKeepsOrder ==
  ASSUME OrderlyQuotations, NEW w \in Worker, NEW s \in Sale, CommitConvertToSale(w, s)
  PROVE  NoCollision' /\ AllFresh' /\ RowsRight'
<1> DEFINE r == inflight[w]
<1> USE DEF OrderlyQuotations
<1>1. r \in Request /\ Busy(w) /\ Fresh(r) /\ r.op = "convert"
  BY BusyTyped DEF CommitConvertToSale, AllFresh
<1>2. r.quote \in Quote /\ r.to = "CONVERTED" /\ r.final = final[r.quote] /\ status[r.quote] = "ACCEPTED"
  BY <1>1 DEF Request, Fresh
<1>3. Finish(w) /\ UNCHANGED <<quoted, discount, final>> /\ madeFrom[s] = NoQuote
  BY DEF CommitConvertToSale, prices
<1>4. \A o \in Quote \ {r.quote} : status'[o] = status[o] /\ saleId'[o] = saleId[o]
  BY <1>2 DEF CommitConvertToSale, TypeOK
<1>5. \A t \in Sale \ {s} : madeFrom'[t] = madeFrom[t] /\ salePrice'[t] = salePrice[t]
  BY DEF CommitConvertToSale, TypeOK
<1>6. /\ madeFrom'[s] = r.quote /\ salePrice'[s] = final[r.quote]
      /\ status'[r.quote] = "CONVERTED" /\ saleId'[r.quote] = s
  BY <1>2 DEF CommitConvertToSale, TypeOK
<1>7. NoCollision' /\ AllFresh'
  BY <1>1, <1>3, <1>4, OthersStayFresh
<1>8. \A t \in Sale : madeFrom[t] # r.quote
  BY <1>2, QuoteNulls DEF RowsRight, SoldAtQuotedPrice
<1>9. OneSalePerQuotation'
  BY <1>5, <1>6, <1>8 DEF RowsRight, OneSalePerQuotation
<1>10. final[r.quote] = quoted[r.quote] - discount[r.quote]
  BY <1>2 DEF RowsRight, FinalPriceIsNet, Exists, Statuses
<1>11. SoldAtQuotedPrice'
  <2> SUFFICES ASSUME NEW t \in Sale, madeFrom'[t] # NoQuote
               PROVE  /\ saleId'[madeFrom'[t]] = t
                      /\ status'[madeFrom'[t]] = "CONVERTED"
                      /\ salePrice'[t] = quoted'[madeFrom'[t]] - discount'[madeFrom'[t]]
    BY DEF SoldAtQuotedPrice
  <2>1. CASE t = s
    BY <1>3, <1>6, <1>10, <2>1
  <2>2. CASE t # s
    <3>1. madeFrom'[t] = madeFrom[t] /\ madeFrom[t] \in Quote \ {r.quote} /\ salePrice'[t] = salePrice[t]
      BY <1>5, <1>8, <2>2 DEF TypeOK
    <3> QED BY <1>3, <1>4, <3>1 DEF RowsRight, SoldAtQuotedPrice
  <2> QED BY <2>1, <2>2
<1>12. FinalPriceIsNet'
  BY <1>2, <1>3, <1>4, <1>10 DEF RowsRight, FinalPriceIsNet, Exists
<1> QED BY <1>7, <1>9, <1>11, <1>12 DEF RowsRight

LEMMA DeleteSaleKeepsOrder ==
  ASSUME OrderlyQuotations, NEW s \in Sale, DeleteSale(s)
  PROVE  NoCollision' /\ AllFresh' /\ RowsRight'
<1> USE DEF OrderlyQuotations
<1>1. UNCHANGED <<status, quoted, discount, final, salePrice, inflight>>
  BY DEF DeleteSale, prices
<1>2. madeFrom'[s] = NoQuote /\ \A t \in Sale \ {s} : madeFrom'[t] = madeFrom[t]
  BY DEF DeleteSale, TypeOK
<1>3. \A q \in Quote : saleId[q] # s => saleId'[q] = saleId[q]
  BY DEF DeleteSale
<1>4. NoCollision' /\ AllFresh'
  BY <1>1 DEF NoCollision, AllFresh, Busy, Fresh
<1>5. OneSalePerQuotation' /\ FinalPriceIsNet'
  BY <1>1, <1>2 DEF RowsRight, OneSalePerQuotation, FinalPriceIsNet, Exists
<1>6. SoldAtQuotedPrice'
  <2> SUFFICES ASSUME NEW t \in Sale, madeFrom'[t] # NoQuote
               PROVE  /\ saleId'[madeFrom'[t]] = t
                      /\ status'[madeFrom'[t]] = "CONVERTED"
                      /\ salePrice'[t] = quoted'[madeFrom'[t]] - discount'[madeFrom'[t]]
    BY DEF SoldAtQuotedPrice
  <2>1. t # s /\ madeFrom'[t] = madeFrom[t] /\ madeFrom[t] \in Quote
    BY <1>2 DEF TypeOK
  <2>2. saleId[madeFrom[t]] = t
    BY <2>1 DEF RowsRight, SoldAtQuotedPrice
  <2> QED BY <1>1, <1>3, <2>1, <2>2 DEF RowsRight, SoldAtQuotedPrice
<1> QED BY <1>4, <1>5, <1>6 DEF RowsRight

LEMMA StepOrderly ==
  ASSUME QuoteOverlap = FALSE, OrderlyQuotations, [Next]_vars
  PROVE  OrderlyQuotations'
<1> USE DEF OrderlyQuotations
<1>1. TypeOK'
  BY StepTyped
<1>2. ASSUME NEW w \in Worker, BeginSome(w) PROVE NoCollision' /\ AllFresh' /\ RowsRight'
  <2>1. PICK r \in Request : Begin(w, r) /\ Fresh(r)
    BY <1>2, BeginFresh
  <2>2. UNCHANGED <<status, quoted, discount, final, saleId, madeFrom, salePrice>>
    BY <2>1 DEF Begin, prices, links
  <2>3. inflight'[w] = r /\ \A v \in Worker \ {w} : inflight'[v] = inflight[v]
    BY <2>1 DEF Begin, TypeOK
  <2>4. \A v \in Worker : Busy(v) => inflight[v].quote # r.quote
    BY <2>1 DEF Begin, Busy
  <2>5. NoCollision'
    BY <2>3, <2>4 DEF NoCollision, Busy
  <2>6. AllFresh'
    BY <2>1, <2>2, <2>3 DEF AllFresh, Fresh, Busy
  <2>7. RowsRight'
    BY <2>2 DEF RowsRight, OneSalePerQuotation, SoldAtQuotedPrice, FinalPriceIsNet, Exists
  <2> QED BY <2>5, <2>6, <2>7
<1>3. ASSUME NEW w \in Worker, FailRequest(w) PROVE NoCollision' /\ AllFresh' /\ RowsRight'
  <2>1. UNCHANGED <<status, quoted, discount, final, saleId, madeFrom, salePrice>> /\ Finish(w) /\ Busy(w)
    BY <1>3 DEF FailRequest, prices, links, Busy
  <2>2. NoCollision' /\ AllFresh'
    BY <2>1, OthersStayFresh
  <2>3. RowsRight'
    BY <2>1 DEF RowsRight, OneSalePerQuotation, SoldAtQuotedPrice, FinalPriceIsNet, Exists
  <2> QED BY <2>2, <2>3
<1>4. CASE UNCHANGED vars
  <2>1. UNCHANGED <<status, quoted, discount, final, inflight>>
    BY <1>4 DEF vars
  <2>2. NoCollision'
    BY <2>1 DEF NoCollision, Busy
  <2>3. ASSUME NEW v \in Worker, Busy(v)' PROVE Fresh(inflight[v])'
    <3>1. Fresh(inflight[v])
      BY <2>1, <2>3 DEF AllFresh, Busy
    <3> QED BY <2>1, <3>1 DEF Fresh
  <2>4. RowsRight'
    BY <1>4 DEF vars, RowsRight, OneSalePerQuotation, SoldAtQuotedPrice, FinalPriceIsNet, Exists
  <2> QED BY <1>1, <2>2, <2>3, <2>4 DEF AllFresh
<1>5. ASSUME NEW w \in Worker, CommitSome(w) PROVE NoCollision' /\ AllFresh' /\ RowsRight'
  BY <1>5, UpdateKeepsOrder, MoveKeepsOrder, ConvertKeepsOrder DEF CommitSome
<1>6. ASSUME NEW q \in Quote, NEW p \in Prices, NEW d \in Discounts, CreateQuotation(q, p, d)
      PROVE  NoCollision' /\ AllFresh' /\ RowsRight'
  BY <1>6, CreateKeepsOrder
<1>7. ASSUME NEW s \in Sale, DeleteSale(s) PROVE NoCollision' /\ AllFresh' /\ RowsRight'
  BY <1>7, DeleteSaleKeepsOrder
<1>8. NoCollision' /\ AllFresh' /\ RowsRight'
  BY <1>2, <1>3, <1>4, <1>5, <1>6, <1>7 DEF Next, CreateNewVersion
<1> QED BY <1>1, <1>8

\* When requests on one quotation do not overlap, a quotation is turned into at
\* most one sale, for the price quoted less the discount.
THEOREM OrderlyQuotationsSellOnce ==
  ASSUME QuoteOverlap = FALSE
  PROVE  Spec => [](OneSalePerQuotation /\ SoldAtQuotedPrice /\ FinalPriceIsNet)
<1>1. OrderlyQuotations /\ [Next]_vars => OrderlyQuotations'
  BY StepOrderly
<1>2. OrderlyQuotations => OneSalePerQuotation /\ SoldAtQuotedPrice /\ FinalPriceIsNet
  BY DEF OrderlyQuotations, RowsRight
<1> QED BY <1>1, <1>2, InitOrderly, PTL DEF Spec

=============================================================================
