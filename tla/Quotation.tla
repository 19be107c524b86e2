----------------------------- MODULE Quotation -----------------------------
(***************************************************************************)
(* The quotations of a customer, from draft to sale                        *)
(* (quotations.service.ts).                                                *)
(*                                                                         *)
(* As in the other services, a handler checks the row it read and then     *)
(* writes the row by its id, whatever it has become: Begin<Handler> is the *)
(* reads and the checks, Commit<Handler> the write.  Creating a quotation  *)
(* checks nothing that another request here could change, so it is one     *)
(* step.                                                                   *)
(*                                                                         *)
(* Left out: the version number (createQuotation writes 1 whatever there   *)
(* is), the vehicle, the notes and validUntil, which nothing acts upon.    *)
(***************************************************************************)
EXTENDS Integers

CONSTANTS
    Quote,          \* quotation ids: bounds how many are ever created
    Sale,           \* sale ids: bounds how many are made of them
    Worker,         \* requests the API serves at the same time
    NoQuote, NoSale,\* SQL NULL
    Prices,         \* quotedPrice and
    Discounts,      \* discountAmount of a form
    QuoteOverlap    \* may two requests on one quotation be in flight at once?
                    \* The code does not prevent it.

ASSUME QuoteNulls == NoQuote \notin Quote /\ NoSale \notin Sale
ASSUME QuoteAmounts == Prices \subseteq Nat /\ Discounts \subseteq Nat
ASSUME QuoteOverlapAssumption == QuoteOverlap \in BOOLEAN

VARIABLES
    status,      \* Quotation.status; "NONE" before the insert, "DELETED" after the delete
    quoted, discount, final,   \* quotedPrice, discountAmount, finalPrice
    saleId,      \* Quotation.saleId
    madeFrom,    \* the quotation a sale was made from; NoQuote for no such sale
    salePrice,   \* totalAmount the sale was made with
    inflight     \* what each worker's request has read and is about to write

vars == <<status, quoted, discount, final, saleId, madeFrom, salePrice, inflight>>
prices == <<quoted, discount, final>>
links == <<saleId, madeFrom, salePrice>>
-----------------------------------------------------------------------------
Statuses == {"DRAFT", "SENT", "ACCEPTED", "REJECTED", "EXPIRED", "CONVERTED"}
Columns == {"quotedPrice", "discountAmount"}

Exists(q) == status[q] \in Statuses

\* updateQuotationStatus; the controller does not take CONVERTED.
validTransitions ==
    {<<"DRAFT", "SENT">>, <<"SENT", "ACCEPTED">>, <<"SENT", "REJECTED">>, <<"SENT", "EXPIRED">>}

\* The quotation, the status it had, the status to write, the columns to write
\* and the prices: those of the form and, where it leaves one out, as read.
Request ==
    [op : {"update", "status", "convert", "delete"}, quote : Quote,
     seen : Statuses, to : Statuses, writes : SUBSET Columns,
     quoted : Int, discount : Int, final : Int]
Idle == [op |-> "idle"]

Begin(w, r) ==
    /\ inflight[w] = Idle
    /\ QuoteOverlap \/ \A v \in Worker : inflight[v] # Idle => inflight[v].quote # r.quote
    /\ inflight' = [inflight EXCEPT ![w] = r]
    /\ UNCHANGED <<status, prices, links>>

Finish(w) == inflight' = [inflight EXCEPT ![w] = Idle]

FailRequest(w) ==
    /\ inflight[w] # Idle
    /\ Finish(w)
    /\ UNCHANGED <<status, prices, links>>
-----------------------------------------------------------------------------
\* createQuotation.
CreateQuotation(q, p, d) ==
    /\ status[q] = "NONE"
    /\ status' = [status EXCEPT ![q] = "DRAFT"]
    /\ quoted' = [quoted EXCEPT ![q] = p]
    /\ discount' = [discount EXCEPT ![q] = d]
    /\ final' = [final EXCEPT ![q] = p - d]
    /\ UNCHANGED <<links, inflight>>

\* createNewVersion of quotation o in any status: a draft of its own, with the
\* prices of o where the form gives none.
CreateNewVersion(o, q, p, d) ==
    /\ Exists(o)
    /\ CreateQuotation(q, p, d)

\* updateQuotation: finalPrice is computed from the prices as read.  It reads the
\* row twice, for the status and then for the prices; here that is one step.
BeginUpdateQuotation(w, q, p, d, writes) ==
    /\ status[q] = "DRAFT"
    /\ "quotedPrice" \in writes \/ p = quoted[q]
    /\ "discountAmount" \in writes \/ d = discount[q]
    /\ Begin(w, [op |-> "update", quote |-> q, seen |-> "DRAFT", to |-> "DRAFT",
                 writes |-> writes, quoted |-> p, discount |-> d, final |-> p - d])

CommitUpdateQuotation(w) ==
    LET r == inflight[w] IN
    /\ r.op = "update"
    /\ Exists(r.quote)
    /\ quoted' = IF "quotedPrice" \in r.writes THEN [quoted EXCEPT ![r.quote] = r.quoted] ELSE quoted
    /\ discount' = IF "discountAmount" \in r.writes
                   THEN [discount EXCEPT ![r.quote] = r.discount] ELSE discount
    /\ final' = [final EXCEPT ![r.quote] = r.final]
    /\ UNCHANGED <<status, links>>
    /\ Finish(w)

\* What a handler other than updateQuotation reads of quotation q.
Snapshot(op, q, to) ==
    [op |-> op, quote |-> q, seen |-> status[q], to |-> to, writes |-> {},
     quoted |-> quoted[q], discount |-> discount[q], final |-> final[q]]

BeginUpdateQuotationStatus(w, q, to) ==
    /\ <<status[q], to>> \in validTransitions
    /\ Begin(w, Snapshot("status", q, to))

CommitUpdateQuotationStatus(w) ==
    LET r == inflight[w] IN
    /\ r.op = "status"
    /\ Exists(r.quote)
    /\ status' = [status EXCEPT ![r.quote] = r.to]
    /\ UNCHANGED <<prices, links>>
    /\ Finish(w)

\* Mutant: a quotation that was converted can be converted again.
BeginConvertAgain(w, q) ==
    /\ status[q] \in {"ACCEPTED", "CONVERTED"}
    /\ Begin(w, Snapshot("convert", q, "CONVERTED"))

\* convertToSale.
BeginConvertToSale(w, q) ==
    /\ status[q] = "ACCEPTED"
    /\ Begin(w, Snapshot("convert", q, "CONVERTED"))

\* Mutant: the list price is charged, without the discount.
CommitConvertAtListPrice(w, s) ==
    LET r == inflight[w] IN
    /\ r.op = "convert"
    /\ Exists(r.quote)
    /\ madeFrom[s] = NoQuote
    /\ madeFrom' = [madeFrom EXCEPT ![s] = r.quote]
    /\ salePrice' = [salePrice EXCEPT ![s] = r.quoted]
    /\ status' = [status EXCEPT ![r.quote] = r.to]
    /\ saleId' = [saleId EXCEPT ![r.quote] = s]
    /\ UNCHANGED prices
    /\ Finish(w)

\* The new sale s at the price that was read; the quotation's status and its
\* link to a sale are overwritten.
CommitConvertToSale(w, s) ==
    LET r == inflight[w] IN
    /\ r.op = "convert"
    /\ Exists(r.quote)
    /\ madeFrom[s] = NoQuote
    /\ madeFrom' = [madeFrom EXCEPT ![s] = r.quote]
    /\ salePrice' = [salePrice EXCEPT ![s] = r.final]
    /\ status' = [status EXCEPT ![r.quote] = r.to]
    /\ saleId' = [saleId EXCEPT ![r.quote] = s]
    /\ UNCHANGED prices
    /\ Finish(w)

\* Mutant: nobody asks whether the quotation exists.
BeginDeleteUnchecked(w, q) == Begin(w, Snapshot("delete", q, "DRAFT"))

BeginDeleteQuotation(w, q) ==
    /\ status[q] = "DRAFT"
    /\ Begin(w, Snapshot("delete", q, "DRAFT"))

CommitDeleteQuotation(w) ==
    LET r == inflight[w] IN
    /\ r.op = "delete"
    /\ Exists(r.quote)
    /\ status' = [status EXCEPT ![r.quote] = "DELETED"]
    /\ saleId' = [saleId EXCEPT ![r.quote] = NoSale]
    /\ UNCHANGED <<prices, madeFrom, salePrice>>
    /\ Finish(w)

\* Mutant: the foreign key does not reset sale_id.
DeleteSaleKeepsLink(s) ==
    /\ madeFrom[s] # NoQuote
    /\ madeFrom' = [madeFrom EXCEPT ![s] = NoQuote]
    /\ UNCHANGED <<status, prices, saleId, salePrice, inflight>>

\* deleteSale of the sales service: the foreign key sets sale_id to NULL, the
\* quotation stays CONVERTED.
DeleteSale(s) ==
    /\ madeFrom[s] # NoQuote
    /\ madeFrom' = [madeFrom EXCEPT ![s] = NoQuote]
    /\ saleId' = [q \in Quote |-> IF saleId[q] = s THEN NoSale ELSE saleId[q]]
    /\ UNCHANGED <<status, prices, salePrice, inflight>>
-----------------------------------------------------------------------------
Init ==
    /\ status = [q \in Quote |-> "NONE"]
    /\ quoted = [q \in Quote |-> 0]
    /\ discount = [q \in Quote |-> 0]
    /\ final = [q \in Quote |-> 0]
    /\ saleId = [q \in Quote |-> NoSale]
    /\ madeFrom = [s \in Sale |-> NoQuote]
    /\ salePrice = [s \in Sale |-> 0]
    /\ inflight = [w \in Worker |-> Idle]

BeginSome(w) ==
    \E q \in Quote :
       \/ \E writes \in SUBSET Columns \ {{}},
             p \in Prices \cup {quoted[q]}, d \in Discounts \cup {discount[q]} :
             BeginUpdateQuotation(w, q, p, d, writes)
       \/ \E to \in Statuses : BeginUpdateQuotationStatus(w, q, to)
       \/ BeginConvertToSale(w, q)
       \/ BeginDeleteQuotation(w, q)

CommitSome(w) ==
    \/ CommitUpdateQuotation(w)
    \/ CommitUpdateQuotationStatus(w)
    \/ \E s \in Sale : CommitConvertToSale(w, s)
    \/ CommitDeleteQuotation(w)

Next ==
    \/ \E q \in Quote, p \in Prices, d \in Discounts :
          CreateQuotation(q, p, d) \/ \E o \in Quote : CreateNewVersion(o, q, p, d)
    \/ \E w \in Worker : BeginSome(w) \/ CommitSome(w) \/ FailRequest(w)
    \/ \E s \in Sale : DeleteSale(s)

Spec == Init /\ [][Next]_vars
-----------------------------------------------------------------------------
(***************************************************************************)
(* Properties.                                                             *)
(***************************************************************************)

\* Every variable has its type.
TypeOK ==
    /\ status \in [Quote -> Statuses \cup {"NONE", "DELETED"}]
    /\ quoted \in [Quote -> Int] /\ discount \in [Quote -> Int] /\ final \in [Quote -> Int]
    /\ saleId \in [Quote -> Sale \cup {NoSale}]
    /\ madeFrom \in [Sale -> Quote \cup {NoQuote}]
    /\ salePrice \in [Sale -> Int]
    /\ inflight \in [Worker -> Request \cup {Idle}]

\* "Quotation | Reservation | 1:1 (optional)": a quotation is turned into one
\* sale at most, however often the button is pressed.
OneSalePerQuotation ==
    \A s, t \in Sale : madeFrom[s] # NoQuote /\ madeFrom[s] = madeFrom[t] => s = t

\* The sale_id of a quotation names the sale that was made from it: it does not
\* outlive the sale and is never taken over by another quotation.
LinkPointsBack ==
    \A q \in Quote : saleId[q] # NoSale => madeFrom[saleId[q]] = q

\* The customer pays what was quoted: the terms of a quotation are those its
\* sale was made with, so they did not change between acceptance and
\* conversion, nor after it.
SoldAtQuotedPrice ==
    \A s \in Sale : madeFrom[s] # NoQuote =>
        /\ saleId[madeFrom[s]] = s
        /\ status[madeFrom[s]] = "CONVERTED"
        /\ salePrice[s] = quoted[madeFrom[s]] - discount[madeFrom[s]]

\* finalPrice is the quoted price less the discount, although the three columns
\* are written by forms that may carry only one of them.
FinalPriceIsNet == \A q \in Quote : Exists(q) => final[q] = quoted[q] - discount[q]

=============================================================================
