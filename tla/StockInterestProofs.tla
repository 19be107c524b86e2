------------------------- MODULE StockInterestProofs -------------------------
(***************************************************************************)
(* The interest history keeps its types whatever overlaps, for any number  *)
(* of rows, requests, days, rates and payments.  When requests on the car  *)
(* follow each other, a second running period comes only from giving a     *)
(* stopped car a first one, the debt is what its payments add up to, and   *)
(* the row that the detail page writes changes neither page nor the        *)
(* statistics, over any number of rows.                                    *)
(***************************************************************************)
EXTENDS StockInterest, SequenceTheorems, WellFoundedInduction, TLAPS

\* The three kinds of request, and the handlers that keep a snapshot.
Dated == {"updateRate", "stop", "resume", "initialize", "initializeRate", "materialize", "recalculate"}
DatedRequests == [op : Dated, seen : Snapshot, day : Int, date : Int, rate : Nat]
PayRequests == [op : {"payDebt"}, seen : Snapshot, date : Int, left : Nat, accrued : Nat,
                principal : Nat, interest : Nat]

LEMMA Kinds ==
  ASSUME NEW r \in Requests
  PROVE  /\ r.op \in Dated => r \in DatedRequests
         /\ r.op = "payDebt" => r \in PayRequests
         /\ r.op = "initializeDebt" => r.amount \in Nat
         /\ r.op = "updateStock" => r.rate \in Nat /\ r.start \in Int
         /\ r.op = "idle" <=> r = Idle
BY DEF Requests, Dated, DatedRequests, PayRequests, Idle

LEMMA SeenTyped == TypeOK => Seen \in Snapshot
BY DEF TypeOK, Seen, Snapshot

LEMMA Days_ == \A a, b \in Int : Days(a, b) \in Nat
BY DEF Days

LEMMA InterestNat == \A a, b, c \in Nat : Interest(a, b, c) \in Nat
<1> TAKE a, b, c \in Nat
<1>1. a * b \in Nat OBVIOUS
<1>2. (a * b) * c \in Nat BY <1>1
<1>3. QED BY <1>2 DEF Interest

LEMMA RowsTyped ==
  /\ NoRow \in Row
  /\ \A d \in Int, r, n \in Nat : OpenRow(d, r, n) \in Row
  /\ \A d, e \in Int, r, n \in Nat : ClosedRow(d, e, r, n) \in Row
  /\ \A s \in Snapshot, d \in Int : ImplicitClosed(s, d) \in Row /\ ImplicitRow(s, d) \in Row
<1>1. NoRow \in Row /\ NoDay \in Int
  BY DEF NoRow, Row, NoDay
<1>2. \A d \in Int, r, n \in Nat : OpenRow(d, r, n) \in Row
  BY <1>1 DEF OpenRow, Row
<1>3. \A d, e \in Int, r, n \in Nat : ClosedRow(d, e, r, n) \in Row
  <2> TAKE d, e \in Int, r, n \in Nat
  <2>1. Interest(n, r, Days(d, e)) \in Nat
    BY Days_, InterestNat
  <2>2. QED BY <2>1 DEF ClosedRow, Row
<1>4. ASSUME NEW s \in Snapshot, NEW d \in Int PROVE ImplicitClosed(s, d) \in Row /\ ImplicitRow(s, d) \in Row
  <2>1. s.start \in Int /\ s.sold \in Int /\ s.rate \in Nat /\ s.calc.at \in Int /\ Cost \in Nat
    BY InterestNumbers DEF Snapshot, Calc
  <2>2. AccrualEnd(s, d) \in Int
    BY <2>1 DEF AccrualEnd, SoldOr
  <2>3. \A e \in Int : ImplicitClosed(s, e) \in Row
    BY <1>1, <1>3, <2>1 DEF ImplicitClosed
  <2>4. ImplicitRow(s, d) \in Row
    BY <1>1, <1>2, <2>1, <2>2, <2>3 DEF ImplicitRow
  <2>5. QED BY <2>3, <2>4
<1>5. QED BY <1>1, <1>2, <1>3, <1>4

Table == [Period -> Row]

LEMMA Filed ==
  ASSUME NEW table \in Table, NEW closed \in Row, NEW open \in Row, File(table, closed, open)
  PROVE  periods' \in Table
BY DEF File, Free, Table

LEMMA FiledClosed ==
  ASSUME NEW table \in Table, NEW closed \in Row, FileClosed(table, closed)
  PROVE  periods' \in Table
BY DEF FileClosed, Free, Table

LEMMA ClosedAtTyped ==
  ASSUME periods \in Table, NEW s \in Snapshot, NEW a \in Period, NEW d \in Int
  PROVE  ClosedAt(s, a, d) \in Table
<1>1. s.periods[a] \in Row
  BY DEF Snapshot
<1>2. s.periods[a].from \in Int /\ s.periods[a].rate \in Nat /\ s.periods[a].principal \in Nat
  BY <1>1 DEF Row
<1>3. ClosedRow(s.periods[a].from, d, s.periods[a].rate, s.periods[a].principal) \in Row
  BY <1>2, RowsTyped
<1>4. QED BY <1>3 DEF ClosedAt, Table

LEMMA ActiveRows == \A table : ActiveIn(table) \subseteq Period /\ OnFile(table) \subseteq Period /\ Free(table) \subseteq Period
BY DEF ActiveIn, OnFile, Free

\* A payment never takes more principal than is left.
PaymentsFit == \A w \in Worker : inflight[w].op = "payDebt" => inflight[w].principal <= inflight[w].left

\* The books by named parts, for steps that change few of them.
CarTyped == start \in Int /\ sold \in Int /\ rate \in Nat /\ calc \in Calc /\ debt \in Debt
RequestsTyped == inflight \in [Worker -> Requests] /\ PaymentsFit
Typed == /\ today \in 0..LastDay /\ CarTyped /\ periods \in Table /\ payments \in Seq(DebtPayment)
         /\ RequestsTyped

LEMMA TypedIsTypeOK == Typed <=> TypeOK /\ PaymentsFit
BY DEF Typed, TypeOK, CarTyped, RequestsTyped, Table

LEMMA DatesTyped == \A d \in Dates : d \in Nat
BY InterestNumbers DEF Dates
-----------------------------------------------------------------------------
LEMMA Begun ==
  ASSUME Typed, NEW w \in Worker, NEW r \in Requests, Begin(w, r),
         r.op = "payDebt" => r.principal <= r.left
  PROVE  Typed'
<1>1. inflight' = [inflight EXCEPT ![w] = r] /\ UNCHANGED <<today, start, sold, rate, calc, debt, periods, payments>>
  BY DEF Begin, carVars
<1>2. RequestsTyped'
  BY <1>1 DEF Typed, RequestsTyped, PaymentsFit
<1>3. CarTyped'
  BY <1>1 DEF Typed, CarTyped
<1>4. QED BY <1>1, <1>2, <1>3 DEF Typed

LEMMA Finished ==
  ASSUME Typed, NEW w \in Worker, Finish(w)
  PROVE  RequestsTyped'
<1>1. Idle \in Requests /\ Idle.op # "payDebt"
  BY DEF Requests, Idle
<1>2. QED BY <1>1 DEF Finish, Typed, RequestsTyped, PaymentsFit

LEMMA BeginsTyped ==
  ASSUME Typed, NEW w \in Worker, NEW d \in Int, NEW r \in Nat,
         \/ BeginUpdateRate(w, d, r) \/ BeginStop(w, d) \/ BeginResume(w, d, r)
         \/ BeginInitialize(w, d, r) \/ BeginMaterialize(w) \/ BeginRecalculate(w)
  PROVE  Typed'
<1>1. today \in Int /\ Seen \in Snapshot
  BY SeenTyped, TypedIsTypeOK, InterestNumbers DEF Typed
<1>2. PICK op \in Dated, e \in Int, q \in Nat : Begin(w, Request(op, today, e, q))
  <2>1. CASE BeginUpdateRate(w, d, r) BY <2>1 DEF BeginUpdateRate, Dated
  <2>2. CASE BeginStop(w, d) BY <2>2 DEF BeginStop, Dated
  <2>3. CASE BeginResume(w, d, r) BY <2>3 DEF BeginResume, Dated
  <2>4. CASE BeginInitialize(w, d, r) BY <2>4 DEF BeginInitialize, Dated
  <2>5. CASE BeginMaterialize(w) BY <1>1, <2>5 DEF BeginMaterialize, Dated
  <2>6. CASE BeginRecalculate(w) BY <1>1, <2>6 DEF BeginRecalculate, Dated
  <2>7. QED BY <2>1, <2>2, <2>3, <2>4, <2>5, <2>6
<1>3. Request(op, today, e, q) \in DatedRequests /\ Request(op, today, e, q).op = op
  BY <1>1 DEF Request, DatedRequests
<1>4. DatedRequests \subseteq Requests /\ op # "payDebt"
  BY DEF DatedRequests, Requests, Dated
<1>5. QED BY <1>2, <1>3, <1>4, Begun

LEMMA BeginPayTyped ==
  ASSUME Typed, NEW w \in Worker, NEW d \in Int, NEW n \in Nat,
         NEW t \in {"AUTO", "PRINCIPAL_ONLY", "INTEREST_ONLY"}, BeginPayDebt(w, d, t, n)
  PROVE  Typed'
<1> DEFINE left == LeftBefore(Seen)
<1>1. Seen \in Snapshot
  BY SeenTyped, TypedIsTypeOK
<1>2. Seen.debt \in Debt /\ Seen.start \in Int /\ Seen.rate \in Nat /\ Seen.periods \in Table
  BY <1>1 DEF Snapshot, Table
<1>3. left \in Nat
  BY <1>2, InterestNumbers DEF LeftBefore, Debt
<1>4. AccruedAt(Seen, d) \subseteq Nat
  <2>1. ASSUME NEW a \in ActiveIn(Seen.periods)
        PROVE  Interest(Seen.periods[a].principal, Seen.periods[a].rate, Days(Seen.periods[a].from, d)) \in Nat
    <3>1. Seen.periods[a] \in Row
      BY <1>2, <2>1, ActiveRows DEF Table
    <3>2. Seen.periods[a].principal \in Nat /\ Seen.periods[a].rate \in Nat /\ Seen.periods[a].from \in Int
      BY <3>1 DEF Row
    <3>3. QED BY <3>2, Days_, InterestNat
  <2>2. Interest(left, Seen.rate, Days(Seen.start, d)) \in Nat
    BY <1>2, <1>3, Days_, InterestNat
  <2>3. QED BY <2>1, <2>2 DEF AccruedAt
<1> HIDE DEF left
<1>5. PICK accrued \in AccruedAt(Seen, d) :
         /\ Payable(t, n, left, accrued)
         /\ Begin(w, PayRequest("payDebt", d, left, accrued, Split(t, n, left, accrued).principal,
                                Split(t, n, left, accrued).interest))
  BY DEF BeginPayDebt, left
<1> DEFINE split == Split(t, n, left, accrued)
           req == PayRequest("payDebt", d, left, accrued, split.principal, split.interest)
<1>6. accrued \in Nat /\ split.principal \in Nat /\ split.interest \in Nat /\ split.principal <= left
  <2>0. accrued \in Nat BY <1>4
  <2>1. CASE t = "AUTO" BY <1>3, <2>0, <1>5, <2>1 DEF Split, Payable
  <2>2. CASE t = "PRINCIPAL_ONLY" BY <1>3, <2>0, <1>5, <2>2 DEF Split, Payable
  <2>3. CASE t = "INTEREST_ONLY" BY <1>3, <2>0, <1>5, <2>3 DEF Split, Payable
  <2>4. QED BY <2>0, <2>1, <2>2, <2>3
<1>7. Begin(w, req)
  BY <1>5
<1> HIDE DEF split
<1>8. req \in PayRequests /\ req.principal <= req.left
  BY <1>1, <1>3, <1>6 DEF PayRequest, PayRequests
<1>9. PayRequests \subseteq Requests
  BY DEF PayRequests, Requests
<1> HIDE DEF req
<1>10. QED BY <1>7, <1>8, <1>9, Begun

LEMMA CommitRateTyped ==
  ASSUME Typed, NEW w \in Worker, CommitUpdateRate(w)
  PROVE  Typed'
<1> DEFINE r == inflight[w]
           s == r.seen
           open == OpenRow(r.date, r.rate, Cost)
<1>1. r \in DatedRequests
  BY Kinds DEF Typed, RequestsTyped, CommitUpdateRate, Dated
<1>2. s \in Snapshot /\ r.date \in Int /\ r.rate \in Nat /\ r.date - 1 \in Int
  BY <1>1 DEF DatedRequests
<1> HIDE DEF r
<1>3. open \in Row /\ ImplicitClosed(s, r.date - 1) \in Row /\ NoRow \in Row
  BY <1>2, RowsTyped, InterestNumbers
<1>4. \/ \E a \in ActiveIn(s.periods) : File(ClosedAt(s, a, r.date - 1), NoRow, open)
      \/ File(periods, IF OnFile(s.periods) = {} THEN ImplicitClosed(s, r.date - 1) ELSE NoRow, open)
  BY DEF CommitUpdateRate, r
<1>5. /\ rate' = r.rate /\ UNCHANGED <<today, start, sold, calc, debt, payments>> /\ Finish(w)
  BY DEF CommitUpdateRate, r
<1> HIDE DEF s, open
<1>6. periods' \in Table
  <2>1. periods \in Table BY DEF Typed
  <2>2. CASE \E a \in ActiveIn(s.periods) : File(ClosedAt(s, a, r.date - 1), NoRow, open)
    <3>1. PICK a \in ActiveIn(s.periods) : File(ClosedAt(s, a, r.date - 1), NoRow, open)
      BY <2>2
    <3>2. ClosedAt(s, a, r.date - 1) \in Table
      BY <1>2, <2>1, ClosedAtTyped, ActiveRows
    <3>3. QED BY <1>3, <3>1, <3>2, Filed
  <2>3. CASE File(periods, IF OnFile(s.periods) = {} THEN ImplicitClosed(s, r.date - 1) ELSE NoRow, open)
    BY <1>3, <2>1, <2>3, Filed
  <2>4. QED BY <1>4, <2>2, <2>3
<1>7. CarTyped'
  BY <1>2, <1>5 DEF Typed, CarTyped
<1>8. QED BY <1>5, <1>6, <1>7, Finished DEF Typed

LEMMA StoppedTyped == Running \in Calc /\ \A d \in Int : StoppedAt(d) \in Calc
BY DEF Running, StoppedAt, Calc, NoDay

LEMMA CommitStopTyped ==
  ASSUME Typed, NEW w \in Worker, CommitStop(w)
  PROVE  Typed'
<1> DEFINE r == inflight[w]
           s == r.seen
           closed == IF ImplicitSource(s) THEN ClosedRow(s.start, r.date, s.rate, Cost) ELSE NoRow
<1>1. r \in DatedRequests
  BY Kinds DEF Typed, RequestsTyped, CommitStop, Dated
<1>2. s \in Snapshot /\ r.date \in Int /\ s.start \in Int /\ s.rate \in Nat
  BY <1>1 DEF DatedRequests, Snapshot
<1> HIDE DEF r
<1>3. closed \in Row
  BY <1>2, RowsTyped, InterestNumbers
<1>4. \/ \E a \in ActiveIn(s.periods) : periods' = ClosedAt(s, a, r.date)
      \/ FileClosed(periods, closed)
  BY DEF CommitStop, r
<1>5. /\ calc' = StoppedAt(r.date) /\ UNCHANGED <<today, start, sold, rate, debt, payments>> /\ Finish(w)
  BY DEF CommitStop, r
<1> HIDE DEF s, closed
<1>6. periods' \in Table
  BY <1>2, <1>3, <1>4, ActiveRows, ClosedAtTyped, FiledClosed DEF Typed
<1>7. CarTyped'
  BY <1>2, <1>5, StoppedTyped DEF Typed, CarTyped
<1>8. QED BY <1>5, <1>6, <1>7, Finished DEF Typed

LEMMA CommitResumeTyped ==
  ASSUME Typed, NEW w \in Worker, CommitResume(w)
  PROVE  Typed'
<1> DEFINE r == inflight[w]
           s == r.seen
           until == IF s.calc.at # NoDay THEN s.calc.at ELSE r.date - 1
           closed == IF OnFile(s.periods) = {} THEN ImplicitClosed(s, until) ELSE NoRow
<1>1. r \in DatedRequests
  BY Kinds DEF Typed, RequestsTyped, CommitResume, Dated
<1>2. s \in Snapshot /\ r.date \in Int /\ r.rate \in Nat /\ s.calc.at \in Int
  BY <1>1 DEF DatedRequests, Snapshot, Calc
<1> HIDE DEF r
<1>3. until \in Int
  BY <1>2
<1>4. closed \in Row /\ OpenRow(r.date, r.rate, Cost) \in Row
  BY <1>2, <1>3, RowsTyped, InterestNumbers
<1>5. File(periods, closed, OpenRow(r.date, r.rate, Cost))
  BY DEF CommitResume, r
<1>6. /\ calc' = Running /\ rate' = r.rate
      /\ UNCHANGED <<today, start, sold, debt, payments>> /\ Finish(w)
  BY DEF CommitResume, r
<1> HIDE DEF s, closed
<1>7. periods' \in Table
  BY <1>4, <1>5, Filed DEF Typed
<1>8. CarTyped'
  BY <1>2, <1>6, StoppedTyped DEF Typed, CarTyped
<1>9. QED BY <1>6, <1>7, <1>8, Finished DEF Typed

LEMMA CommitInitializeTyped ==
  ASSUME Typed, NEW w \in Worker, CommitInitialize(w) \/ CommitInitializeRate(w)
  PROVE  Typed'
<1>1. inflight[w] \in DatedRequests
  BY Kinds DEF Typed, RequestsTyped, CommitInitialize, CommitInitializeRate, Dated
<1>2. inflight[w].date \in Int /\ inflight[w].rate \in Nat
  BY <1>1 DEF DatedRequests
<1>3. CASE CommitInitialize(w)
  <2>1. OpenRow(inflight[w].date, inflight[w].rate, Cost) \in Row /\ NoRow \in Row
    BY <1>2, RowsTyped, InterestNumbers
  <2>2. periods' \in Table
    BY <1>3, <2>1, Filed DEF CommitInitialize, Typed
  <2>3. UNCHANGED <<today, start, sold, rate, calc, debt, payments>>
    BY <1>3 DEF CommitInitialize, carVars
  <2>4. inflight' = [inflight EXCEPT ![w] = [inflight[w] EXCEPT !.op = "initializeRate"]]
    BY <1>3 DEF CommitInitialize
  <2>5. [inflight[w] EXCEPT !.op = "initializeRate"] \in DatedRequests
        /\ [inflight[w] EXCEPT !.op = "initializeRate"].op # "payDebt"
    BY <1>1 DEF DatedRequests, Dated
  <2>6. RequestsTyped'
    <3>1. DatedRequests \subseteq Requests
      BY DEF DatedRequests, Requests, Dated
    <3>2. QED BY <2>4, <2>5, <3>1 DEF Typed, RequestsTyped, PaymentsFit
  <2>7. CarTyped'
    BY <2>3 DEF Typed, CarTyped
  <2>8. QED BY <2>2, <2>3, <2>6, <2>7 DEF Typed
<1>4. CASE CommitInitializeRate(w)
  <2>1. /\ rate' = inflight[w].rate /\ UNCHANGED <<today, start, sold, calc, debt, periods, payments>>
        /\ Finish(w)
    BY <1>4 DEF CommitInitializeRate
  <2>2. CarTyped'
    BY <1>2, <2>1 DEF Typed, CarTyped
  <2>3. QED BY <2>1, <2>2, Finished DEF Typed
<1>5. QED BY <1>3, <1>4

LEMMA CommitMaterializeTyped ==
  ASSUME Typed, NEW w \in Worker, CommitMaterialize(w)
  PROVE  Typed'
<1>1. inflight[w] \in DatedRequests
  BY Kinds DEF Typed, RequestsTyped, CommitMaterialize, Dated
<1>2. ImplicitRow(inflight[w].seen, inflight[w].day) \in Row
  BY <1>1, RowsTyped DEF DatedRequests
<1>3. UNCHANGED <<today, start, sold, rate, calc, debt, payments>> /\ Finish(w)
  BY DEF CommitMaterialize, carVars
<1>4. periods' \in Table
  BY <1>2, ActiveRows DEF CommitMaterialize, Typed, Table
<1>5. CarTyped'
  BY <1>3 DEF Typed, CarTyped
<1>6. QED BY <1>3, <1>4, <1>5, Finished DEF Typed

LEMMA CommitRecalculateTyped ==
  ASSUME Typed, NEW w \in Worker, CommitRecalculate(w)
  PROVE  Typed'
<1>1. inflight[w] \in DatedRequests
  BY Kinds DEF Typed, RequestsTyped, CommitRecalculate, Dated
<1> DEFINE s == inflight[w].seen
<1>2. s.periods \in [Period -> Row]
  BY <1>1 DEF DatedRequests, Snapshot
<1>3. UNCHANGED <<today, start, sold, rate, calc, debt, payments>> /\ Finish(w)
      /\ periods' = [p \in Period |-> Recomputed(periods[p], s.periods[p])]
  BY DEF CommitRecalculate, carVars
<1> HIDE DEF s
<1>4. ASSUME NEW p \in Period PROVE Recomputed(periods[p], s.periods[p]) \in Row
  <2>1. periods[p] \in Row /\ s.periods[p] \in Row
    BY <1>2 DEF Typed, Table
  <2>2. Interest(s.periods[p].principal, s.periods[p].rate, Days(s.periods[p].from, s.periods[p].to)) \in Nat
    BY <2>1, Days_, InterestNat DEF Row
  <2>3. QED BY <2>1, <2>2 DEF Recomputed, Row
<1>5. periods' \in Table
  BY <1>3, <1>4 DEF Table
<1>6. CarTyped'
  BY <1>3 DEF Typed, CarTyped
<1>7. QED BY <1>3, <1>5, <1>6, Finished DEF Typed

LEMMA DeletePeriodTyped ==
  ASSUME Typed, NEW p \in Period, DeletePeriod(p)
  PROVE  Typed'
<1>1. UNCHANGED <<today, start, sold, rate, calc, debt, payments, inflight>>
  BY DEF DeletePeriod, carVars
<1>2. periods' \in Table
  BY DEF DeletePeriod, Typed, Table, Row, NoDay
<1>3. CarTyped' /\ RequestsTyped'
  BY <1>1 DEF Typed, CarTyped, RequestsTyped, PaymentsFit
<1>4. QED BY <1>1, <1>2, <1>3 DEF Typed

LEMMA InitializeDebtTyped ==
  ASSUME Typed, NEW w \in Worker, NEW n \in Nat, BeginInitializeDebt(w, n) \/ CommitInitializeDebt(w)
  PROVE  Typed'
<1>1. CASE BeginInitializeDebt(w, n)
  <2>1. DebtRequest(n) \in Requests /\ DebtRequest(n).op = "initializeDebt"
    BY DEF DebtRequest, Requests
  <2>2. QED BY <1>1, <2>1, Begun DEF BeginInitializeDebt
<1>2. CASE CommitInitializeDebt(w)
  <2>1. inflight[w].amount \in Nat /\ debt.interest \in Nat
    BY <1>2, Kinds DEF CommitInitializeDebt, Typed, RequestsTyped, CarTyped, Debt
  <2>2. debt' \in Debt
    BY <1>2, <2>1 DEF CommitInitializeDebt, Debt
  <2>3. UNCHANGED <<today, start, sold, rate, calc, periods, payments>> /\ Finish(w)
    BY <1>2 DEF CommitInitializeDebt
  <2>4. CarTyped'
    BY <2>2, <2>3 DEF Typed, CarTyped
  <2>5. QED BY <2>3, <2>4, Finished DEF Typed
<1>3. QED BY <1>1, <1>2

LEMMA CommitPayTyped ==
  ASSUME Typed, NEW w \in Worker, CommitPayDebt(w)
  PROVE  Typed'
<1> DEFINE r == inflight[w]
           s == r.seen
<1>1. r \in PayRequests /\ r.principal <= r.left
  BY Kinds DEF Typed, RequestsTyped, PaymentsFit, CommitPayDebt
<1>2. /\ s \in Snapshot /\ r.date \in Int /\ r.left \in Nat /\ r.principal \in Nat /\ r.interest \in Nat
      /\ r.left - r.principal \in Nat /\ r.date + 1 \in Int /\ s.rate \in Nat
  BY <1>1 DEF PayRequests, Snapshot
<1>3. s.debt.paid \in Nat /\ s.debt.interest \in Nat /\ s.periods \in Table
  BY <1>2 DEF Snapshot, Debt, Table
<1>4. debt.amount \in Nat /\ debt.status \in {"NO_DEBT", "ACTIVE", "PAID_OFF"}
  BY DEF Typed, CarTyped, Debt
<1>5. /\ payments' = Append(payments, [before |-> r.left, after |-> r.left - r.principal,
                                       principal |-> r.principal, interest |-> r.interest])
      /\ debt' = DebtAfter(r) /\ PayRows(r)
      /\ calc' = IF PaysOff(r) THEN StoppedAt(r.date) ELSE calc
      /\ UNCHANGED <<today, start, sold, rate>> /\ Finish(w)
  BY DEF CommitPayDebt
<1> HIDE DEF r
<1>6. debt' \in Debt
  <2> DEFINE status == IF PaysOff(r) THEN "PAID_OFF" ELSE IF InitsDebt(s) THEN "ACTIVE" ELSE debt.status
             amount == IF InitsDebt(s) THEN Cost ELSE debt.amount
  <2>1. debt' = [status |-> status, amount |-> amount, paid |-> s.debt.paid + r.principal,
                 interest |-> s.debt.interest + r.interest, left |-> r.left - r.principal]
    BY <1>5 DEF DebtAfter
  <2>2. status \in {"NO_DEBT", "ACTIVE", "PAID_OFF"} /\ amount \in Nat
    BY <1>4, InterestNumbers
  <2>3. s.debt.paid + r.principal \in Nat /\ s.debt.interest + r.interest \in Nat
    BY <1>2, <1>3
  <2> HIDE DEF status, amount
  <2>4. QED BY <1>2, <2>1, <2>2, <2>3 DEF Debt
<1>7. payments' \in Seq(DebtPayment)
  <2>1. [before |-> r.left, after |-> r.left - r.principal, principal |-> r.principal,
         interest |-> r.interest] \in DebtPayment
    BY <1>2 DEF DebtPayment
  <2>2. QED BY <1>5, <2>1, AppendProperties DEF Typed
<1>8. CarTyped'
  BY <1>2, <1>5, <1>6, StoppedTyped DEF Typed, CarTyped
<1>9. periods' \in Table
  <2> DEFINE n == r.left - r.principal
             closed == IF OnFile(s.periods) = {} THEN ImplicitClosed(s, r.date) ELSE NoRow
  <2>1. periods \in Table /\ closed \in Row /\ NoRow \in Row
    BY <1>2, RowsTyped DEF Typed
  <2>2. \A p \in ActiveIn(s.periods) : /\ ClosedAt(s, p, r.date) \in Table
                                       /\ OpenRow(r.date + 1, s.periods[p].rate, n) \in Row
    <3> TAKE p \in ActiveIn(s.periods)
    <3>1. p \in Period /\ s.periods[p].rate \in Nat
      BY <1>3, ActiveRows DEF Table, Row
    <3>2. QED BY <1>2, <2>1, <3>1, ClosedAtTyped, RowsTyped
  <2>3. OpenRow(r.date + 1, s.rate, n) \in Row
    BY <1>2, RowsTyped
  <2>4. \/ \E p \in ActiveIn(s.periods) : periods' = ClosedAt(s, p, r.date)
        \/ FileClosed(periods, closed)
        \/ \E p \in ActiveIn(s.periods) :
              File(ClosedAt(s, p, r.date), NoRow, OpenRow(r.date + 1, s.periods[p].rate, n))
        \/ File(periods, NoRow, OpenRow(r.date + 1, s.rate, n))
        \/ UNCHANGED periods
    BY <1>5 DEF PayRows
  <2> HIDE DEF s, n, closed
  <2>5. QED BY <2>1, <2>2, <2>3, <2>4, Filed, FiledClosed
<1>10. QED BY <1>5, <1>7, <1>8, <1>9, Finished DEF Typed

LEMMA CarStepsTyped ==
  ASSUME Typed, NEW w \in Worker, NEW r \in Nat, NEW d \in Int,
         BeginUpdateStock(w, r, d) \/ CommitUpdateStock(w) \/ FailRequest(w) \/ Deliver \/ NextDay
  PROVE  Typed'
<1>1. CASE BeginUpdateStock(w, r, d)
  <2>1. StockRequest(r, d) \in Requests /\ StockRequest(r, d).op = "updateStock"
    BY DEF StockRequest, Requests
  <2>2. QED BY <1>1, <2>1, Begun DEF BeginUpdateStock
<1>2. CASE CommitUpdateStock(w)
  <2>1. inflight[w].rate \in Nat /\ inflight[w].start \in Int
    BY <1>2, Kinds DEF CommitUpdateStock, Typed, RequestsTyped
  <2>2. /\ rate' = inflight[w].rate /\ start' = inflight[w].start
        /\ UNCHANGED <<today, sold, calc, debt, periods, payments>> /\ Finish(w)
    BY <1>2 DEF CommitUpdateStock
  <2>3. CarTyped'
    BY <2>1, <2>2 DEF Typed, CarTyped
  <2>4. QED BY <2>2, <2>3, Finished DEF Typed
<1>3. CASE FailRequest(w)
  <2>1. UNCHANGED <<today, start, sold, rate, calc, debt, periods, payments>> /\ Finish(w)
    BY <1>3 DEF FailRequest, carVars
  <2>2. CarTyped'
    BY <2>1 DEF Typed, CarTyped
  <2>3. QED BY <2>1, <2>2, Finished DEF Typed
<1>4. CASE Deliver
  <2>1. sold' = today /\ UNCHANGED <<today, start, rate, calc, debt, periods, payments, inflight>>
    BY <1>4 DEF Deliver
  <2>2. CarTyped' /\ RequestsTyped'
    BY <2>1, InterestNumbers DEF Typed, CarTyped, RequestsTyped, PaymentsFit
  <2>3. QED BY <2>1, <2>2 DEF Typed
<1>5. CASE NextDay
  <2>1. today' \in 0..LastDay /\ UNCHANGED <<start, sold, rate, calc, debt, periods, payments, inflight>>
    BY <1>5, InterestNumbers DEF NextDay, carVars, Typed
  <2>2. CarTyped' /\ RequestsTyped'
    BY <2>1 DEF Typed, CarTyped, RequestsTyped, PaymentsFit
  <2>3. QED BY <2>1, <2>2 DEF Typed
<1>6. QED BY <1>1, <1>2, <1>3, <1>4, <1>5

LEMMA StepTyped == Typed /\ [Next]_vars => Typed'
<1> SUFFICES ASSUME Typed, [Next]_vars PROVE Typed'
  OBVIOUS
<1>1. /\ Rates \subseteq Nat /\ Amounts \subseteq Nat /\ Amounts \cup {0} \subseteq Nat /\ Dates \subseteq Int
      /\ NoDay \in Int /\ Starts \cup {NoDay} \subseteq Int /\ start \in Int
  BY DatesTyped, InterestNumbers DEF NoDay, Typed, CarTyped
<1>2. ASSUME NEW w \in Worker, Periods(w) PROVE Typed'
  <2>1. 0 \in Nat OBVIOUS
  <2>2. QED
    BY <1>1, <1>2, <2>1, BeginsTyped, CommitRateTyped, CommitStopTyped, CommitResumeTyped,
       CommitInitializeTyped, CommitMaterializeTyped, CommitRecalculateTyped DEF Periods
<1>3. ASSUME NEW w \in Worker, DebtSteps(w) PROVE Typed'
  <2>1. 0 \in Nat OBVIOUS
  <2>2. QED BY <1>1, <1>3, <2>1, InitializeDebtTyped, BeginPayTyped, CommitPayTyped DEF DebtSteps
<1>4. ASSUME NEW w \in Worker,
             \/ \E r \in Rates, d \in Starts \cup {NoDay} : BeginUpdateStock(w, r, d)
             \/ CommitUpdateStock(w) \/ FailRequest(w)
      PROVE Typed'
  <2>1. 0 \in Nat /\ 0 \in Int OBVIOUS
  <2>2. QED BY <1>1, <1>4, <2>1, CarStepsTyped
<1>5. CASE Deliver \/ NextDay
  <2>1. UNCHANGED <<start, rate, calc, debt, periods, payments, inflight>>
    BY <1>5 DEF Deliver, NextDay, carVars
  <2>2. sold' \in Int /\ today' \in 0..LastDay
    BY <1>5, InterestNumbers DEF Deliver, NextDay, carVars, Typed, CarTyped
  <2>3. CarTyped' /\ RequestsTyped'
    BY <2>1, <2>2 DEF Typed, CarTyped, RequestsTyped, PaymentsFit
  <2>4. QED BY <2>1, <2>2, <2>3 DEF Typed
<1>6. CASE UNCHANGED vars
  <2>1. UNCHANGED <<today, start, sold, rate, calc, debt, periods, payments, inflight>>
    BY <1>6 DEF vars
  <2>2. CarTyped' /\ RequestsTyped'
    BY <2>1 DEF Typed, CarTyped, RequestsTyped, PaymentsFit
  <2>3. QED BY <2>1, <2>2 DEF Typed
<1>7. QED BY <1>2, <1>3, <1>4, <1>5, <1>6, DeletePeriodTyped DEF Next

LEMMA InitTyped == Init => Typed
<1> SUFFICES ASSUME Init PROVE Typed
  OBVIOUS
<1>1. CarTyped
  BY InterestNumbers, StoppedTyped DEF Init, CarTyped, NoDay, NoDebt, Debt
<1>2. periods \in Table
  BY RowsTyped DEF Init, Table
<1>3. RequestsTyped
  BY DEF Init, RequestsTyped, PaymentsFit, Requests, Idle
<1>4. today \in 0..LastDay /\ payments \in Seq(DebtPayment)
  BY InterestNumbers DEF Init
<1>5. QED BY <1>1, <1>2, <1>3, <1>4 DEF Typed

\* The car, its history, its debt and the requests keep their types whatever
\* overlaps: no payment leaves a negative debt, no row a negative interest.
THEOREM InterestTyped == Spec => []TypeOK
BY InitTyped, StepTyped, TypedIsTypeOK, PTL DEF Spec

-----------------------------------------------------------------------------
\* One request at a time: what it has read is what the rows still say, and what
\* it has been asked still fits them.
Single == \A v, w \in Worker : inflight[v] # Idle /\ inflight[w] # Idle => v = w
WithSnapshot == {"updateRate", "stop", "resume", "initialize", "materialize", "recalculate", "payDebt"}
Current == \A w \in Worker : inflight[w].op \in WithSnapshot => inflight[w].seen = Seen
Fits(r) ==
    /\ r.op = "updateRate" => calc.state = "running"
    /\ r.op = "resume" => calc.state = "stopped" /\ debt.status # "PAID_OFF"
    /\ r.op = "initialize" => OnFile(periods) = {}
    /\ r.op = "payDebt" => debt.status # "PAID_OFF"
    /\ r.op \in {"stop", "payDebt"} => r.date # NoDay
Asked == \A w \in Worker : Fits(inflight[w])
StoppedOnADay == calc.state = "stopped" => calc.at # NoDay
Turns == Typed /\ Single /\ Current /\ Asked /\ StoppedOnADay

\* A step that does not open a second row, nor one on a stopped car.
Keeps == OneOpenPeriod => OneOpenPeriod'

Open(table) == {p \in Period : table[p].state = "open"}
OneOpen(table) == \A p, q \in Open(table) : p = q

LEMMA OpenRows == /\ \A d, r, n : OpenRow(d, r, n).state = "open"
                  /\ \A d, e, r, n : ClosedRow(d, e, r, n).state = "closed"
                  /\ NoRow.state = "none"
                  /\ \A s, d : ImplicitClosed(s, d) = NoRow \/ ImplicitClosed(s, d).state = "closed"
BY DEF OpenRow, ClosedRow, NoRow, ImplicitClosed

LEMMA ActiveIsOpen ==
  ASSUME NEW table \in Table, OneOpen(table)
  PROVE  ActiveIn(table) = Open(table)
<1>1. \A p \in Period : table[p].from \in Int
  BY DEF Table, Row
<1>2. \A p, q \in Period : table[p].state = "open" /\ table[q].state = "open" => table[q].from <= table[p].from
  <2> TAKE p, q \in Period
  <2>1. table[p].state = "open" /\ table[q].state = "open" => p = q
    BY DEF OneOpen, Open
  <2>2. table[p].from <= table[p].from
    BY <1>1
  <2>3. QED BY <2>1, <2>2
<1>3. QED BY <1>2 DEF ActiveIn, Open

LEMMA FiledOpens ==
  ASSUME NEW table \in Table, NEW closed \in Row, NEW open \in Row, File(table, closed, open),
         closed = NoRow \/ closed.state = "closed", Open(table) = {}
  PROVE  OneOpen(periods')
<1>1. PICK p \in Period : \/ periods' = [table EXCEPT ![p] = open]
                          \/ \E q \in Period \ {p} : closed # NoRow /\ periods' = [table EXCEPT ![p] = open, ![q] = closed]
  BY DEF File, Free
<1>2. \A q \in Period \ {p} : table[q].state # "open"
  BY DEF Open
<1>3. \A q \in Period \ {p} : periods'[q].state # "open"
  <2>1. CASE periods' = [table EXCEPT ![p] = open]
    BY <1>2, <2>1 DEF Table
  <2>2. CASE \E q \in Period \ {p} : closed # NoRow /\ periods' = [table EXCEPT ![p] = open, ![q] = closed]
    BY <1>2, <2>2 DEF Table
  <2>3. QED BY <1>1, <2>1, <2>2
<1>4. QED BY <1>3 DEF OneOpen, Open

LEMMA FiledCloses ==
  ASSUME NEW table \in Table, NEW closed \in Row, FileClosed(table, closed),
         closed = NoRow \/ closed.state = "closed"
  PROVE  Open(periods') = Open(table)
BY DEF FileClosed, Free, Open, Table

LEMMA ClosedIsNotOpen ==
  ASSUME periods \in Table, NEW s, NEW a \in Period, NEW d
  PROVE  Open(ClosedAt(s, a, d)) = Open(periods) \ {a}
BY OpenRows DEF ClosedAt, Open, Table

LEMMA OneOpenIs ==
  OneOpenPeriod <=> /\ OneOpen(periods)
                    /\ calc.state = "stopped" => Open(periods) = {}
                    /\ debt.status = "PAID_OFF" => calc.state = "stopped"
BY DEF OneOpenPeriod, OneOpen, Open

LEMMA StatesOf == Typed => calc.state \in {"running", "stopped"} /\ debt.status \in {"NO_DEBT", "ACTIVE", "PAID_OFF"}
BY DEF Typed, CarTyped, Calc, Debt
-----------------------------------------------------------------------------
LEMMA TurnBegins ==
  ASSUME Turns, Overlap = FALSE, NEW w \in Worker, NEW r, Begin(w, r), Typed', Fits(r),
         r.op \in WithSnapshot => r.seen = Seen
  PROVE  Turns' /\ Keeps
<1>1. inflight' = [inflight EXCEPT ![w] = r] /\ UNCHANGED <<start, sold, rate, calc, debt, periods>>
      /\ \A v \in Worker \ {w} : inflight[v] = Idle
  BY DEF Begin, carVars, Quiet
<1>2. inflight'[w] = r /\ \A v \in Worker \ {w} : inflight'[v] = Idle
  BY <1>1 DEF Turns, Typed, RequestsTyped
<1>3. Single'
  BY <1>2 DEF Single
<1>4. Current'
  BY <1>1, <1>2 DEF Current, Seen, Idle, WithSnapshot
<1>5. Asked'
  BY <1>1, <1>2 DEF Asked, Fits, Idle
<1>6. Keeps
  BY <1>1 DEF Keeps, OneOpenPeriod
<1>7. StoppedOnADay'
  BY <1>1 DEF Turns, StoppedOnADay
<1>8. QED BY <1>3, <1>4, <1>5, <1>6, <1>7 DEF Turns

LEMMA TurnEnds ==
  ASSUME Turns, NEW w \in Worker, inflight[w] # Idle, Finish(w), Typed', StoppedOnADay'
  PROVE  Turns'
<1>1. \A v \in Worker : inflight'[v] = Idle
  BY DEF Turns, Single, Finish, Typed, RequestsTyped
<1>2. Single' /\ Current' /\ Asked'
  BY <1>1 DEF Single, Current, Asked, Fits, Idle, WithSnapshot
<1>3. QED BY <1>2 DEF Turns

\* Nothing but the day, or nothing at all.
LEMMA TurnWaits ==
  ASSUME Turns, Typed', UNCHANGED <<start, sold, rate, calc, debt, periods, inflight>>
  PROVE  Turns' /\ Keeps
<1>1. Turns'
  BY DEF Turns, Single, Current, Seen, Asked, Fits, StoppedOnADay
<1>2. Keeps
  BY DEF Keeps, OneOpenPeriod
<1>3. QED BY <1>1, <1>2

\* A step between two requests.
LEMMA TurnBetween ==
  ASSUME Turns, Typed', \A v \in Worker : inflight[v] = Idle, UNCHANGED inflight,
         StoppedOnADay'
  PROVE  Turns'
BY DEF Turns, Single, Current, Asked, Fits, Idle, WithSnapshot

LEMMA BeginsInTurn ==
  ASSUME Turns, Typed', Overlap = FALSE,
         NEW w \in Worker, NEW d \in Nat, NEW r \in Nat, NEW e,
         \/ BeginUpdateRate(w, d, r) \/ BeginStop(w, d) \/ BeginResume(w, d, r)
         \/ BeginInitialize(w, e, r) \/ BeginMaterialize(w) \/ BeginRecalculate(w)
  PROVE  Turns' /\ Keeps
<1>0. d # NoDay
  BY DEF NoDay
<1>1. PICK q : Begin(w, q) /\ Fits(q) /\ q.seen = Seen
  <2>1. CASE BeginUpdateRate(w, d, r) BY <2>1 DEF BeginUpdateRate, Fits, Request
  <2>2. CASE BeginStop(w, d) BY <1>0, <2>2 DEF BeginStop, Fits, Request
  <2>3. CASE BeginResume(w, d, r) BY <2>3 DEF BeginResume, Fits, Request
  <2>4. CASE BeginInitialize(w, e, r)
    BY <2>4 DEF BeginInitialize, Fits, Request
  <2>5. CASE BeginMaterialize(w) BY <2>5 DEF BeginMaterialize, Fits, Request
  <2>6. CASE BeginRecalculate(w) BY <2>6 DEF BeginRecalculate, Fits, Request
  <2>7. QED BY <2>1, <2>2, <2>3, <2>4, <2>5, <2>6
<1>2. QED BY <1>1, TurnBegins

LEMMA BeginPayInTurn ==
  ASSUME Turns, Typed', Overlap = FALSE, NEW w \in Worker, NEW d \in Nat, NEW t, NEW n,
         BeginPayDebt(w, d, t, n)
  PROVE  Turns' /\ Keeps
<1>0. d # NoDay
  BY DEF NoDay
<1>1. PICK q : Begin(w, q) /\ q.op = "payDebt" /\ q.date = d /\ q.seen = Seen /\ debt.status # "PAID_OFF"
  BY DEF BeginPayDebt, PayRequest
<1>2. Fits(q)
  BY <1>0, <1>1 DEF Fits
<1>3. QED BY <1>1, <1>2, TurnBegins

\* What every commit of a request with a snapshot starts from.
LEMMA AtCommit ==
  ASSUME Turns, NEW w \in Worker, inflight[w].op \in WithSnapshot
  PROVE  /\ inflight[w].seen = Seen /\ inflight[w].seen.periods = periods /\ inflight[w].seen.calc = calc
         /\ inflight[w].seen.debt = debt /\ inflight[w] # Idle /\ Fits(inflight[w])
         /\ periods \in Table /\ Seen \in Snapshot
         /\ OneOpenPeriod => OneOpen(periods) /\ ActiveIn(periods) = Open(periods)
<1>1. inflight[w].seen = Seen /\ Fits(inflight[w]) /\ inflight[w] # Idle /\ periods \in Table
  BY DEF Turns, Current, Asked, Typed, Idle, WithSnapshot
<1>2. Seen \in Snapshot
  BY SeenTyped, TypedIsTypeOK DEF Turns
<1>3. OneOpenPeriod => OneOpen(periods) /\ ActiveIn(periods) = Open(periods)
  BY <1>1, OneOpenIs, ActiveIsOpen
<1>4. QED BY <1>1, <1>2, <1>3 DEF Seen

LEMMA CommitRateInTurn ==
  ASSUME Turns, Typed', NEW w \in Worker, CommitUpdateRate(w)
  PROVE  Turns' /\ Keeps
<1> DEFINE r == inflight[w]
           open == OpenRow(r.date, r.rate, Cost)
           closed == IF OnFile(periods) = {} THEN ImplicitClosed(Seen, r.date - 1) ELSE NoRow
<1>0. r.op = "updateRate" /\ r.op \in WithSnapshot
  BY DEF CommitUpdateRate, WithSnapshot
<1>1. /\ r.seen = Seen /\ r.seen.periods = periods /\ r # Idle /\ Fits(r)
      /\ periods \in Table /\ Seen \in Snapshot
      /\ OneOpenPeriod => OneOpen(periods) /\ ActiveIn(periods) = Open(periods)
  BY <1>0, AtCommit
<1>2. r.date \in Int /\ r.rate \in Nat /\ r.date - 1 \in Int
  <2>1. r \in DatedRequests
    BY <1>0, Kinds DEF Turns, Typed, RequestsTyped, Dated
  <2>2. QED BY <2>1 DEF DatedRequests
<1>3. /\ open \in Row /\ open.state = "open" /\ NoRow \in Row /\ closed \in Row
      /\ closed = NoRow \/ closed.state = "closed"
  BY <1>1, <1>2, RowsTyped, OpenRows, InterestNumbers
<1>4. \/ \E a \in ActiveIn(periods) : File(ClosedAt(Seen, a, r.date - 1), NoRow, open)
      \/ ActiveIn(periods) = {} /\ File(periods, closed, open)
  BY <1>1 DEF CommitUpdateRate
<1>5. UNCHANGED <<calc, debt>> /\ Finish(w) /\ calc.state = "running"
  BY <1>0, <1>1 DEF CommitUpdateRate, Fits
<1> HIDE DEF r, open, closed
<1>6. ASSUME OneOpenPeriod PROVE OneOpen(periods')
  <2>0. OneOpen(periods) /\ ActiveIn(periods) = Open(periods)
    BY <1>1, <1>6
  <2>1. CASE \E a \in Open(periods) : File(ClosedAt(Seen, a, r.date - 1), NoRow, open)
    <3>1. PICK a \in Open(periods) : File(ClosedAt(Seen, a, r.date - 1), NoRow, open)
      BY <2>1
    <3>2. a \in Period BY DEF Open
    <3>3. ClosedAt(Seen, a, r.date - 1) \in Table
      BY <1>1, <1>2, <3>2, ClosedAtTyped
    <3>4. Open(ClosedAt(Seen, a, r.date - 1)) = {}
      BY <1>1, <2>0, <3>2, ClosedIsNotOpen DEF OneOpen
    <3>5. QED BY <1>3, <3>1, <3>3, <3>4, FiledOpens
  <2>2. CASE Open(periods) = {} /\ File(periods, closed, open)
    BY <1>1, <1>3, <2>2, FiledOpens
  <2>3. QED BY <1>4, <2>0, <2>1, <2>2
<1>7. Keeps
  BY <1>5, <1>6 DEF Keeps, OneOpenPeriod, OneOpen, Open
<1>8. StoppedOnADay'
  BY <1>5 DEF Turns, StoppedOnADay
<1>9. QED BY <1>1, <1>5, <1>7, <1>8, TurnEnds DEF r

LEMMA CommitStopInTurn ==
  ASSUME Turns, Typed', NEW w \in Worker, CommitStop(w)
  PROVE  Turns' /\ Keeps
<1> DEFINE r == inflight[w]
           closed == IF ImplicitSource(Seen) THEN ClosedRow(Seen.start, r.date, Seen.rate, Cost) ELSE NoRow
<1>0. r.op = "stop" /\ r.op \in WithSnapshot
  BY DEF CommitStop, WithSnapshot
<1>1. /\ r.seen = Seen /\ r.seen.periods = periods /\ r # Idle /\ Fits(r)
      /\ periods \in Table /\ Seen \in Snapshot
      /\ OneOpenPeriod => OneOpen(periods) /\ ActiveIn(periods) = Open(periods)
  BY <1>0, AtCommit
<1>2. r.date \in Int /\ Seen.start \in Int /\ Seen.rate \in Nat
  <2>1. r \in DatedRequests
    BY <1>0, Kinds DEF Turns, Typed, RequestsTyped, Dated
  <2>2. QED BY <1>1, <2>1 DEF DatedRequests, Snapshot
<1>3. closed \in Row /\ (closed = NoRow \/ closed.state = "closed")
  BY <1>2, RowsTyped, OpenRows, InterestNumbers
<1>4. \/ \E a \in ActiveIn(periods) : periods' = ClosedAt(Seen, a, r.date)
      \/ ActiveIn(periods) = {} /\ FileClosed(periods, closed)
  BY <1>1 DEF CommitStop
<1>5. calc' = StoppedAt(r.date) /\ UNCHANGED debt /\ Finish(w) /\ r.date # NoDay
  BY <1>0, <1>1 DEF CommitStop, Fits
<1> HIDE DEF r, closed
<1>6. ASSUME OneOpenPeriod PROVE Open(periods') = {}
  <2>0. OneOpen(periods) /\ ActiveIn(periods) = Open(periods)
    BY <1>1, <1>6
  <2>1. CASE \E a \in Open(periods) : periods' = ClosedAt(Seen, a, r.date)
    <3>1. PICK a \in Open(periods) : periods' = ClosedAt(Seen, a, r.date)
      BY <2>1
    <3>2. a \in Period BY DEF Open
    <3>3. QED BY <1>1, <2>0, <3>1, <3>2, ClosedIsNotOpen DEF OneOpen
  <2>2. CASE Open(periods) = {} /\ FileClosed(periods, closed)
    BY <1>1, <1>3, <2>2, FiledCloses
  <2>3. QED BY <1>4, <2>0, <2>1, <2>2
<1>7. calc'.state = "stopped" /\ calc'.at # NoDay
  BY <1>5 DEF StoppedAt
<1>8. Keeps
  BY <1>6, <1>7 DEF Keeps, OneOpenPeriod, Open
<1>9. StoppedOnADay'
  BY <1>7 DEF StoppedOnADay
<1>10. QED BY <1>1, <1>5, <1>8, <1>9, TurnEnds DEF r

LEMMA CommitResumeInTurn ==
  ASSUME Turns, Typed', NEW w \in Worker, CommitResume(w)
  PROVE  Turns' /\ Keeps
<1> DEFINE r == inflight[w]
           until == IF r.seen.calc.at # NoDay THEN r.seen.calc.at ELSE r.date - 1
           closed == IF OnFile(r.seen.periods) = {} THEN ImplicitClosed(r.seen, until) ELSE NoRow
           open == OpenRow(r.date, r.rate, Cost)
<1>0. r.op = "resume" /\ r.op \in WithSnapshot
  BY DEF CommitResume, WithSnapshot
<1>1. /\ r.seen = Seen /\ r.seen.calc = calc /\ r # Idle /\ Fits(r)
      /\ periods \in Table /\ Seen \in Snapshot
  BY <1>0, AtCommit
<1>2. r.date \in Int /\ r.rate \in Nat /\ calc.at \in Int
  <2>1. r \in DatedRequests
    BY <1>0, Kinds DEF Turns, Typed, RequestsTyped, Dated
  <2>2. QED BY <2>1 DEF DatedRequests, Turns, Typed, CarTyped, Calc
<1>3. until \in Int
  BY <1>1, <1>2
<1> HIDE DEF until
<1>4. closed \in Row /\ (closed = NoRow \/ closed.state = "closed") /\ open \in Row
  BY <1>1, <1>2, <1>3, RowsTyped, OpenRows, InterestNumbers
<1>5. File(periods, closed, open) /\ calc' = Running /\ UNCHANGED debt /\ Finish(w)
  BY DEF CommitResume, until
<1>6. calc.state = "stopped" /\ debt.status # "PAID_OFF" /\ (OneOpenPeriod => Open(periods) = {})
  BY <1>0, <1>1, OneOpenIs DEF Fits
<1> HIDE DEF r, closed, open
<1>7. OneOpenPeriod => OneOpen(periods')
  BY <1>1, <1>4, <1>5, <1>6, FiledOpens
<1>8. Keeps
  BY <1>5, <1>6, <1>7 DEF Keeps, OneOpenPeriod, OneOpen, Open, Running
<1>9. StoppedOnADay'
  BY <1>5 DEF StoppedOnADay, Running
<1>10. QED BY <1>1, <1>5, <1>8, <1>9, TurnEnds DEF r

LEMMA CommitInitializeInTurn ==
  ASSUME Turns, Typed', NEW w \in Worker, CommitInitialize(w)
  PROVE  Turns' /\ (Keeps \/ InitializesStopped)
<1> DEFINE r == inflight[w]
           open == OpenRow(r.date, r.rate, Cost)
           next == [r EXCEPT !.op = "initializeRate"]
<1>0. r.op = "initialize" /\ r.op \in WithSnapshot
  BY DEF CommitInitialize, WithSnapshot
<1>1. r # Idle /\ Fits(r) /\ periods \in Table
  BY <1>0, AtCommit
<1>2. r.date \in Int /\ r.rate \in Nat
  <2>1. r \in DatedRequests
    BY <1>0, Kinds DEF Turns, Typed, RequestsTyped, Dated
  <2>2. QED BY <2>1 DEF DatedRequests
<1>3. open \in Row /\ NoRow \in Row
  BY <1>2, RowsTyped, InterestNumbers
<1>4. File(periods, NoRow, open) /\ UNCHANGED <<start, sold, rate, calc, debt>>
      /\ inflight' = [inflight EXCEPT ![w] = next]
  BY DEF CommitInitialize, carVars
<1>5. Open(periods) = {} /\ calc.state \in {"running", "stopped"}
  BY <1>0, <1>1, StatesOf DEF Fits, Open, OnFile, Turns
<1>6. OneOpen(periods')
  BY <1>1, <1>3, <1>4, <1>5, FiledOpens
<1>7. StoppedOnADay' /\ (calc.state = "running" => Keeps)
  BY <1>4, <1>5, <1>6 DEF Keeps, OneOpenPeriod, OneOpen, Open, StoppedOnADay, Turns
<1>8. \A v \in Worker : inflight'[v] = IF v = w THEN next ELSE Idle
  BY <1>1, <1>4 DEF Turns, Single, Typed, RequestsTyped
<1>9. next.op = "initializeRate"
  <2>1. r \in DatedRequests
    BY <1>0, Kinds DEF Turns, Typed, RequestsTyped, Dated
  <2>2. QED BY <2>1 DEF DatedRequests
<1> HIDE DEF r, next
<1>10. Single' /\ Current' /\ Asked'
  <2>1. \A v \in Worker : inflight'[v].op \in {"initializeRate", "idle"}
    BY <1>8, <1>9 DEF Idle
  <2>2. Single'
    BY <1>8 DEF Single
  <2>3. Current' /\ Asked'
    BY <2>1 DEF Current, Asked, Fits, WithSnapshot
  <2>4. QED BY <2>2, <2>3
<1>11. calc.state = "stopped" => InitializesStopped
  BY <1>0, <1>8, <1>9 DEF InitializesStopped, r
<1>12. QED BY <1>5, <1>7, <1>10, <1>11 DEF Turns

LEMMA CommitMaterializeInTurn ==
  ASSUME Turns, Typed', NEW w \in Worker, CommitMaterialize(w)
  PROVE  Turns' /\ Keeps
<1> DEFINE r == inflight[w]
           row == ImplicitRow(r.seen, r.day)
<1>0. r.op = "materialize" /\ r.op \in WithSnapshot
  BY DEF CommitMaterialize, WithSnapshot
<1>1. r.seen.calc = calc /\ r # Idle /\ periods \in Table
  BY <1>0, AtCommit
<1>2. UNCHANGED <<calc, debt>> /\ Finish(w)
  BY DEF CommitMaterialize, carVars
<1>3. calc.state = "stopped" => row.state # "open"
  <2> SUFFICES ASSUME calc.state = "stopped" PROVE row.state # "open"
    OBVIOUS
  <2>1. calc.at # NoDay
    BY DEF Turns, StoppedOnADay
  <2>2. row = ImplicitClosed(r.seen, AccrualEnd(r.seen, r.day))
    BY <1>1, <2>1 DEF ImplicitRow
  <2>3. QED BY <2>2, OpenRows
<1> HIDE DEF r, row
<1>4. UNCHANGED periods \/ (OnFile(periods) = {} /\ \E p \in Period : periods' = [periods EXCEPT ![p] = row])
  BY DEF CommitMaterialize, Free, r, row
<1>5. Keeps
  <2>1. CASE UNCHANGED periods
    BY <1>2, <2>1 DEF Keeps, OneOpenPeriod
  <2>2. CASE OnFile(periods) = {} /\ \E p \in Period : periods' = [periods EXCEPT ![p] = row]
    <3>1. PICK p \in Period : periods' = [periods EXCEPT ![p] = row]
      BY <2>2
    <3>2. \A q \in Period : periods[q].state # "open"
      BY <2>2 DEF OnFile
    <3>3. \A q \in Period : periods'[q].state = "open" => q = p /\ calc.state # "stopped"
      BY <1>1, <1>3, <3>1, <3>2 DEF Table
    <3>4. QED BY <1>2, <3>3 DEF Keeps, OneOpenPeriod
  <2>3. QED BY <1>4, <2>1, <2>2
<1>6. StoppedOnADay'
  BY <1>2 DEF Turns, StoppedOnADay
<1>7. QED BY <1>1, <1>2, <1>5, <1>6, TurnEnds DEF r

LEMMA CommitRecalculateInTurn ==
  ASSUME Turns, Typed', NEW w \in Worker, CommitRecalculate(w)
  PROVE  Turns' /\ Keeps
<1>1. inflight[w] # Idle /\ Finish(w) /\ UNCHANGED <<calc, debt>>
      /\ periods' = [p \in Period |-> Recomputed(periods[p], inflight[w].seen.periods[p])]
  BY DEF CommitRecalculate, carVars, Idle
<1>2. \A p \in Period : periods'[p].state = periods[p].state
  BY <1>1 DEF Recomputed
<1>3. Keeps
  BY <1>1, <1>2 DEF Keeps, OneOpenPeriod
<1>4. StoppedOnADay'
  BY <1>1 DEF Turns, StoppedOnADay
<1>5. QED BY <1>1, <1>3, <1>4, TurnEnds

LEMMA CommitPayInTurn ==
  ASSUME Turns, Typed', NEW w \in Worker, CommitPayDebt(w)
  PROVE  Turns' /\ Keeps
<1> DEFINE r == inflight[w]
           n == r.left - r.principal
           closed == IF OnFile(periods) = {} THEN ImplicitClosed(Seen, r.date) ELSE NoRow
<1>0. r.op = "payDebt" /\ r.op \in WithSnapshot
  BY DEF CommitPayDebt, WithSnapshot
<1>1. /\ r.seen = Seen /\ r.seen.periods = periods /\ r.seen.calc = calc /\ r # Idle /\ Fits(r)
      /\ periods \in Table /\ Seen \in Snapshot
      /\ OneOpenPeriod => OneOpen(periods) /\ ActiveIn(periods) = Open(periods)
  BY <1>0, AtCommit
<1>2. r.date \in Int /\ r.date + 1 \in Int /\ n \in Nat /\ Seen.rate \in Nat
  <2>1. r \in PayRequests /\ r.principal <= r.left
    BY <1>0, Kinds DEF Turns, Typed, RequestsTyped, PaymentsFit
  <2>2. QED BY <1>1, <2>1 DEF PayRequests, Snapshot
<1>3. closed \in Row /\ (closed = NoRow \/ closed.state = "closed") /\ NoRow \in Row
  BY <1>1, <1>2, RowsTyped, OpenRows
<1>4. debt.status # "PAID_OFF" /\ r.date # NoDay
  BY <1>0, <1>1 DEF Fits
<1>5. /\ calc' = IF PaysOff(r) THEN StoppedAt(r.date) ELSE calc
      /\ debt' = DebtAfter(r) /\ PayRows(r) /\ Finish(w)
  BY DEF CommitPayDebt
<1>6. debt'.status = "PAID_OFF" => PaysOff(r)
  BY <1>4, <1>5 DEF DebtAfter
<1>7. calc.state \in {"running", "stopped"}
  BY StatesOf DEF Turns
<1>8. StoppedOnADay'
  BY <1>4, <1>5 DEF Turns, StoppedOnADay, StoppedAt
<1>9. Turns'
  BY <1>1, <1>5, <1>8, TurnEnds
<1>10. SUFFICES ASSUME OneOpenPeriod PROVE OneOpenPeriod'
  BY <1>9 DEF Keeps
<1>11. OneOpen(periods) /\ ActiveIn(periods) = Open(periods)
  BY <1>1, <1>10
<1>12. \A a \in Open(periods) : a \in Period /\ Open(ClosedAt(Seen, a, r.date)) = {}
                               /\ ClosedAt(Seen, a, r.date) \in Table
  <2> TAKE a \in Open(periods)
  <2>1. a \in Period BY DEF Open
  <2>2. Open(ClosedAt(Seen, a, r.date)) = {}
    BY <1>1, <1>11, <2>1, ClosedIsNotOpen DEF OneOpen
  <2>3. QED BY <1>1, <1>2, <2>1, <2>2, ClosedAtTyped
<1>13. CASE PaysOff(r)
  <2>1. \/ \E a \in Open(periods) : periods' = ClosedAt(Seen, a, r.date)
        \/ Open(periods) = {} /\ FileClosed(periods, closed)
    BY <1>1, <1>11, <1>13, <1>5 DEF PayRows
  <2>2. calc'.state = "stopped"
    BY <1>5, <1>13 DEF StoppedAt
  <2> HIDE DEF r, closed
  <2>3. Open(periods') = {}
    BY <1>1, <1>3, <1>12, <2>1, FiledCloses
  <2>4. QED BY <2>2, <2>3 DEF OneOpenPeriod, Open
<1>14. CASE ~PaysOff(r)
  <2>1. \/ /\ calc.state = "running"
           /\ \/ \E a \in Open(periods) :
                    File(ClosedAt(Seen, a, r.date), NoRow, OpenRow(r.date + 1, periods[a].rate, n))
              \/ Open(periods) = {} /\ File(periods, NoRow, OpenRow(r.date + 1, Seen.rate, n))
        \/ UNCHANGED periods
    BY <1>1, <1>5, <1>11, <1>14 DEF PayRows
  <2>2. \A a \in Open(periods) : OpenRow(r.date + 1, periods[a].rate, n) \in Row
    <3> TAKE a \in Open(periods)
    <3>1. periods[a].rate \in Nat
      BY <1>1, <1>12 DEF Table, Row
    <3>2. QED BY <1>2, <3>1, RowsTyped
  <2>3. OpenRow(r.date + 1, Seen.rate, n) \in Row
    BY <1>2, RowsTyped
  <2>4. calc' = calc /\ debt'.status # "PAID_OFF"
    BY <1>5, <1>6, <1>14
  <2> HIDE DEF r, n, closed
  <2>5. CASE UNCHANGED periods
    BY <1>10, <2>4, <2>5 DEF OneOpenPeriod
  <2>6. CASE /\ calc.state = "running"
             /\ \/ \E a \in Open(periods) :
                      File(ClosedAt(Seen, a, r.date), NoRow, OpenRow(r.date + 1, periods[a].rate, n))
                \/ Open(periods) = {} /\ File(periods, NoRow, OpenRow(r.date + 1, Seen.rate, n))
    <3>1. OneOpen(periods')
      BY <1>1, <1>3, <1>12, <2>2, <2>3, <2>6, FiledOpens
    <3>2. QED BY <2>4, <2>6, <3>1 DEF OneOpenPeriod, OneOpen, Open
  <2>7. QED BY <2>1, <2>5, <2>6
<1>15. QED BY <1>13, <1>14

LEMMA OthersInTurn ==
  ASSUME Turns, Typed', Overlap = FALSE, NEW w \in Worker,
         \/ CommitInitializeRate(w) \/ (\E n \in Amounts \cup {0} : BeginInitializeDebt(w, n))
         \/ CommitInitializeDebt(w)
         \/ (\E r \in Rates, d \in Starts \cup {NoDay} : BeginUpdateStock(w, r, d))
         \/ CommitUpdateStock(w) \/ FailRequest(w)
  PROVE  Turns' /\ Keeps
<1>1. CASE CommitInitializeRate(w) \/ CommitInitializeDebt(w) \/ CommitUpdateStock(w) \/ FailRequest(w)
  <2>1. inflight[w] # Idle /\ Finish(w) /\ UNCHANGED <<calc, periods>>
        /\ (debt' = debt \/ debt'.status = "ACTIVE")
    BY <1>1 DEF CommitInitializeRate, CommitInitializeDebt, CommitUpdateStock, FailRequest, carVars, Idle
  <2>2. Keeps
    BY <2>1 DEF Keeps, OneOpenPeriod
  <2>3. StoppedOnADay'
    BY <2>1 DEF Turns, StoppedOnADay
  <2>4. QED BY <2>1, <2>2, <2>3, TurnEnds
<1>2. CASE \E n \in Amounts \cup {0} : BeginInitializeDebt(w, n)
  <2>1. PICK n \in Amounts \cup {0} : Begin(w, DebtRequest(n))
    BY <1>2 DEF BeginInitializeDebt
  <2>2. Fits(DebtRequest(n)) /\ DebtRequest(n).op \notin WithSnapshot
    BY DEF Fits, DebtRequest, WithSnapshot
  <2>3. QED BY <2>1, <2>2, TurnBegins
<1>3. CASE \E r \in Rates, d \in Starts \cup {NoDay} : BeginUpdateStock(w, r, d)
  <2>1. PICK r \in Rates, d \in Starts \cup {NoDay} : Begin(w, StockRequest(r, d))
    BY <1>3 DEF BeginUpdateStock
  <2>2. Fits(StockRequest(r, d)) /\ StockRequest(r, d).op \notin WithSnapshot
    BY DEF Fits, StockRequest, WithSnapshot
  <2>3. QED BY <2>1, <2>2, TurnBegins
<1>4. QED BY <1>1, <1>2, <1>3

LEMMA BetweenInTurn ==
  ASSUME Turns, Typed', Overlap = FALSE, Deliver \/ NextDay \/ (\E p \in Period : DeletePeriod(p))
  PROVE  Turns' /\ Keeps
<1>1. CASE Deliver
  <2>1. (\A v \in Worker : inflight[v] = Idle) /\ UNCHANGED <<calc, debt, periods, inflight>>
    BY <1>1 DEF Deliver
  <2>2. Keeps
    BY <2>1 DEF Keeps, OneOpenPeriod
  <2>3. StoppedOnADay'
    BY <2>1 DEF Turns, StoppedOnADay
  <2>4. QED BY <2>1, <2>2, <2>3, TurnBetween
<1>2. CASE NextDay
  BY <1>2, TurnWaits DEF NextDay, carVars
<1>3. ASSUME NEW p \in Period, DeletePeriod(p) PROVE Turns' /\ Keeps
  <2>1. (\A v \in Worker : inflight[v] = Idle) /\ UNCHANGED <<calc, debt, inflight>>
    BY <1>3 DEF DeletePeriod, carVars
  <2>2. \A q \in Period : periods'[q].state = "open" => periods[q].state = "open"
    BY <1>3 DEF DeletePeriod, Turns, Typed, Table
  <2>3. Keeps
    BY <2>1, <2>2 DEF Keeps, OneOpenPeriod
  <2>4. StoppedOnADay'
    BY <2>1 DEF Turns, StoppedOnADay
  <2>5. QED BY <2>1, <2>3, <2>4, TurnBetween
<1>4. QED BY <1>1, <1>2, <1>3

LEMMA StepInTurn ==
  ASSUME Overlap = FALSE, Turns, [Next]_vars
  PROVE  Turns' /\ (Keeps \/ InitializesStopped)
<1>0. Typed'
  BY StepTyped DEF Turns
<1>1. Rates \subseteq Nat /\ Dates \subseteq Nat /\ 0 \in Nat
  BY DatesTyped, InterestNumbers
<1> DEFINE Good == Turns' /\ (Keeps \/ InitializesStopped)
<1>2. ASSUME NEW w \in Worker, Periods(w) PROVE Good
  <2>1. CASE CommitInitialize(w)
    BY <1>0, <2>1, CommitInitializeInTurn
  <2>2. CASE CommitUpdateRate(w) \/ CommitStop(w) \/ CommitResume(w) \/ CommitInitializeRate(w)
             \/ CommitMaterialize(w) \/ CommitRecalculate(w)
    BY <1>0, <2>2, CommitRateInTurn, CommitStopInTurn, CommitResumeInTurn, OthersInTurn,
       CommitMaterializeInTurn, CommitRecalculateInTurn
  <2>3. QED BY <1>0, <1>1, <1>2, <2>1, <2>2, BeginsInTurn DEF Periods
<1>3. ASSUME NEW w \in Worker, DebtSteps(w) PROVE Good
  BY <1>0, <1>1, <1>3, OthersInTurn, BeginPayInTurn, CommitPayInTurn DEF DebtSteps
<1>4. CASE UNCHANGED vars
  BY <1>0, <1>4, TurnWaits DEF vars
<1>5. ASSUME NEW w \in Worker,
             \/ \E r \in Rates, d \in Starts \cup {NoDay} : BeginUpdateStock(w, r, d)
             \/ CommitUpdateStock(w) \/ FailRequest(w)
      PROVE  Good
  BY <1>0, <1>5, OthersInTurn
<1>6. CASE Deliver \/ NextDay \/ (\E p \in Period : DeletePeriod(p))
  BY <1>0, <1>6, BetweenInTurn
<1>7. QED BY <1>2, <1>3, <1>4, <1>5, <1>6 DEF Next

LEMMA InitInTurn == Init => Turns
<1> SUFFICES ASSUME Init PROVE Turns
  OBVIOUS
<1>1. Single /\ Current /\ Asked
  BY DEF Init, Single, Current, Asked, Fits, Idle, WithSnapshot
<1>2. StoppedOnADay
  BY DEF Init, StoppedOnADay, Running
<1>3. QED BY <1>1, <1>2, InitTyped DEF Turns

\* When requests on the car follow each other, whatever is stopped, resumed, dated
\* back, paid or deleted, and in whatever order: a step that gives a car a second
\* running period, or a first one while its calculation is stopped, is
\* initializeInterestPeriod on a car that is stopped.
THEOREM OnlyInitializeBreaks ==
  ASSUME Overlap = FALSE
  PROVE  Spec => OnlyInitializeRunsTwo
<1>1. Turns /\ [Next]_vars => Turns' /\ [PeriodStep]_vars
  BY StepInTurn DEF PeriodStep, Keeps
<1>2. QED BY <1>1, InitInTurn, PTL DEF Spec, OnlyInitializeRunsTwo
-----------------------------------------------------------------------------
(***************************************************************************)
(* What a recursive function computes, by its least counterexample.        *)
(***************************************************************************)
\* f adds up the interest of the first n payments of a list.
AddsUp(list, n, f) == f = [i \in 0..n |-> IF i = 0 THEN 0 ELSE f[i - 1] + list[i].interest]

LEMMA InterestIs ==
  ASSUME NEW list
  PROVE  InterestOf(list) = (CHOOSE f : AddsUp(list, Len(list), f))[Len(list)]
BY DEF InterestOf, AddsUp

\* A set of numbers has a least one.
LEMMA Least ==
  ASSUME NEW B \in SUBSET Nat, B # {}
  PROVE  \E n \in B : \A m \in B : n <= m
<1>1. PICK n \in B : \A m \in B : ~(<<m, n>> \in OpToRel(<, Nat))
  BY NatLessThanWellFounded, WFMin, Zenon
<1>2. \A m \in B : ~(m < n)
  BY <1>1 DEF OpToRel
<1>3. QED BY <1>2

LEMMA AddsUpTo ==
  ASSUME NEW list, NEW n \in Nat
  PROVE  \E f : AddsUp(list, n, f)
<1> DEFINE B == {k \in Nat : ~\E f : AddsUp(list, k, f)}
<1> SUFFICES ASSUME B # {} PROVE FALSE
  OBVIOUS
<1>0. B \in SUBSET Nat
  OBVIOUS
<1> HIDE DEF B
<1>1. PICK k \in B : \A m \in B : k <= m
  BY <1>0, Least
<1>2. k \in Nat /\ ~\E f : AddsUp(list, k, f)
  BY DEF B
<1>3. k # 0
  <2>1. AddsUp(list, 0, [i \in 0..0 |-> 0])
    BY DEF AddsUp
  <2>2. QED BY <1>2, <2>1
<1>4. PICK f : AddsUp(list, k - 1, f)
  BY <1>1, <1>2, <1>3 DEF B
<1> DEFINE g == [i \in 0..k |-> IF i = k THEN f[k - 1] + list[k].interest ELSE f[i]]
<1>5. AddsUp(list, k, g)
  <2>1. ASSUME NEW i \in 0..k
        PROVE  g[i] = IF i = 0 THEN 0 ELSE g[i - 1] + list[i].interest
    <3>1. CASE i = k
      BY <1>2, <1>3, <3>1
    <3>2. CASE i # k
      <4>1. i \in 0..(k - 1) /\ g[i] = f[i] /\ (i # 0 => g[i - 1] = f[i - 1])
        BY <1>2, <3>2
      <4>2. f[i] = IF i = 0 THEN 0 ELSE f[i - 1] + list[i].interest
        BY <1>4, <4>1 DEF AddsUp
      <4>3. QED BY <4>1, <4>2
    <3>3. QED BY <3>1, <3>2
  <2> HIDE DEF g
  <2>2. g = [i \in 0..k |-> g[i]]
    BY DEF g
  <2>3. QED BY <2>1, <2>2 DEF AddsUp
<1>6. QED BY <1>2, <1>5

\* Two of them agree as far as the lists do.
LEMMA AddsUpAgree ==
  ASSUME NEW list, NEW more, NEW n \in Nat, NEW m \in Nat, n <= m,
         \A i \in 1..n : list[i] = more[i],
         NEW f, AddsUp(list, n, f), NEW g, AddsUp(more, m, g), NEW k \in 0..n
  PROVE  f[k] = g[k]
<1> DEFINE B == {i \in Nat : i <= n /\ f[i] # g[i]}
<1> SUFFICES ASSUME B # {} PROVE FALSE
  OBVIOUS
<1>0. B \in SUBSET Nat
  OBVIOUS
<1> HIDE DEF B
<1>1. PICK i \in B : \A j \in B : i <= j
  BY <1>0, Least
<1>2. i \in 0..n /\ i \in 0..m /\ f[i] # g[i]
  BY DEF B
<1>3. /\ f[i] = IF i = 0 THEN 0 ELSE f[i - 1] + list[i].interest
      /\ g[i] = IF i = 0 THEN 0 ELSE g[i - 1] + more[i].interest
  BY <1>2 DEF AddsUp
<1>4. i # 0 => i - 1 \in Nat /\ i - 1 <= n /\ i - 1 \notin B
  BY <1>1, <1>2
<1>5. i # 0 => f[i - 1] = g[i - 1] /\ list[i] = more[i]
  BY <1>2, <1>4 DEF B
<1>6. QED BY <1>2, <1>3, <1>5

LEMMA InterestByFold ==
  ASSUME NEW list, Len(list) \in Nat, NEW f, AddsUp(list, Len(list), f)
  PROVE  InterestOf(list) = f[Len(list)]
<1> DEFINE h == CHOOSE g : AddsUp(list, Len(list), g)
<1>1. AddsUp(list, Len(list), h)
  OBVIOUS
<1> HIDE DEF h
<1>2. f[Len(list)] = h[Len(list)]
  BY <1>1, AddsUpAgree
<1>3. QED BY <1>2, InterestIs DEF h

\* Without payments there is no interest; a new payment adds its own.
LEMMA InterestOfNone == InterestOf(<<>>) = 0
<1>1. Len(<<>>) = 0
  OBVIOUS
<1>2. AddsUp(<<>>, 0, [i \in 0..0 |-> 0])
  BY DEF AddsUp
<1>3. QED BY <1>1, <1>2, InterestByFold

LEMMA InterestOfMore ==
  ASSUME NEW list \in Seq(DebtPayment), NEW e \in DebtPayment
  PROVE  InterestOf(Append(list, e)) = InterestOf(list) + e.interest
<1> DEFINE more == Append(list, e)  n == Len(list)
<1>1. /\ n \in Nat /\ n + 1 \in Nat /\ Len(more) = n + 1 /\ more[n + 1] = e
      /\ \A i \in 1..n : list[i] = more[i]
  BY AppendProperties
<1> HIDE DEF more, n
<1>2. PICK f : AddsUp(list, n, f)
  BY <1>1, AddsUpTo
<1>3. PICK g : AddsUp(more, n + 1, g)
  BY <1>1, AddsUpTo
<1>4. InterestOf(list) = f[n] /\ InterestOf(more) = g[n + 1]
  BY <1>1, <1>2, <1>3, InterestByFold DEF n
<1>5. f[n] = g[n]
  BY <1>1, <1>2, <1>3, AddsUpAgree
<1>6. g[n + 1] = g[n] + more[n + 1].interest
  BY <1>1, <1>3 DEF AddsUp
<1>7. QED BY <1>1, <1>4, <1>5, <1>6 DEF more

\* The readers add up the open rows, of which there is one at most, and the
\* closed ones: the library's sum of nothing and of one number.
Unfolds(f, S, g) ==
    g = [s \in SUBSET S |->
           IF s = {} THEN 0 ELSE f[CHOOSE x \in s : TRUE] + g[s \ {CHOOSE x \in s : TRUE}]]

LEMMA SumIsFold ==
  ASSUME NEW f, NEW S
  PROVE  SumFunctionOnSet(f, S) = (CHOOSE g : Unfolds(f, S, g))[S]
BY DEF SumFunctionOnSet, FoldFunctionOnSet, MapThenFoldSet, Unfolds

LEMMA SumOfNone == ASSUME NEW f PROVE SumFunctionOnSet(f, {}) = 0
<1>1. Unfolds(f, {}, [s \in SUBSET {} |-> 0])
  BY DEF Unfolds
<1> DEFINE g == CHOOSE h : Unfolds(f, {}, h)
<1>2. Unfolds(f, {}, g)
  BY <1>1
<1> HIDE DEF g
<1>3. g[{}] = 0
  BY <1>2 DEF Unfolds
<1>4. QED BY <1>3, SumIsFold DEF g

LEMMA SumOfOne ==
  ASSUME NEW f, NEW p, f[p] \in Int
  PROVE  SumFunctionOnSet(f, {p}) = f[p]
<1>1. \A s \in SUBSET {p} : s = {} \/ (s = {p} /\ (CHOOSE x \in s : TRUE) = p /\ s \ {p} = {})
  OBVIOUS
<1> DEFINE one == [s \in SUBSET {p} |-> IF s = {} THEN 0 ELSE f[p]]
<1>2. Unfolds(f, {p}, one)
  <2>1. ASSUME NEW s \in SUBSET {p}
        PROVE  one[s] = IF s = {} THEN 0 ELSE f[CHOOSE x \in s : TRUE] + one[s \ {CHOOSE x \in s : TRUE}]
    BY <1>1
  <2> HIDE DEF one
  <2>2. one = [s \in SUBSET {p} |-> one[s]]
    BY DEF one
  <2>3. QED BY <2>1, <2>2 DEF Unfolds
<1> DEFINE g == CHOOSE h : Unfolds(f, {p}, h)
<1>3. Unfolds(f, {p}, g)
  BY <1>2
<1> HIDE DEF g, one
<1>4. g[{}] = 0 /\ g[{p}] = f[p] + g[{}]
  <2>1. {} \in SUBSET {p} /\ {p} \in SUBSET {p}
    OBVIOUS
  <2>2. QED BY <1>1, <1>3, <2>1 DEF Unfolds
<1>5. SumFunctionOnSet(f, {p}) = g[{p}]
  BY SumIsFold DEF g
<1>6. QED BY <1>4, <1>5
-----------------------------------------------------------------------------
(***************************************************************************)
(* The books of the debt.                                                  *)
(***************************************************************************)

\* One request at a time, on what it has read.
Serial == Typed /\ Single /\ Current

\* What a request on the debt has been asked still fits the debt.
BookFits(r) ==
    /\ r.op = "payDebt" => r.left = LeftBefore(r.seen) /\ r.seen.debt.status # "PAID_OFF"
    /\ r.op = "initializeDebt" => debt.status = "NO_DEBT" \/ debt.amount = 0

\* A debt that was never started has no payments and no amount; one of 0 has
\* payments of interest alone; one of more is paid off when nothing is left, so
\* that no payment follows its last.
DebtStarted ==
    /\ debt.status = "NO_DEBT" => debt.amount = 0 /\ payments = <<>>
    /\ debt.amount = 0 => /\ debt.paid = 0 /\ debt.left = 0
                          /\ \A i \in 1..Len(payments) : payments[i].before = 0
    /\ debt.status = "ACTIVE" /\ debt.left = 0 => debt.amount = 0

\* The payments before the next one leave it the whole debt.
WholeAfter(list, i) == i = 0 \/ list[i].before = 0

LEMMA BooksAre ==
  DebtBooks <=>
    /\ debt.paid + debt.left = debt.amount
    /\ \A i \in 1..Len(payments) :
          /\ payments[i].before = payments[i].after + payments[i].principal
          /\ WholeAfter(payments, i - 1) => payments[i].before \in {0, debt.amount}
          /\ ~WholeAfter(payments, i - 1) => payments[i].before = payments[i - 1].after
    /\ WholeAfter(payments, Len(payments)) => debt.left = debt.amount
    /\ ~WholeAfter(payments, Len(payments)) => debt.left = payments[Len(payments)].after
    /\ debt.interest = InterestOf(payments)
BY DEF DebtBooks, WholeAfter

Books == DebtBooks /\ DebtStarted /\ \A w \in Worker : BookFits(inflight[w])

\* No request is dated in the future, and the period that the detail page is
\* about to write is one that it has found.
NoFuture == \A k \in Shifts : k <= 0

PastFits(r) ==
    /\ r.op \in {"stop", "payDebt"} => r.date <= today
    /\ r.op = "materialize" => /\ r.day \in Int /\ r.day <= today /\ r.seen.start # NoDay
                               /\ AccruesWithoutPeriods(r.seen)
                               /\ ImplicitRow(r.seen, r.day) # NoRow
                               /\ r.seen.calc.state = "stopped" => r.seen.calc.at <= r.day

\* A calculation is stopped on a day that has been.
StoppedBefore == calc.state = "stopped" => calc.at <= today

LEMMA DatesPast == NoFuture /\ Typed => \A d \in Dates : d <= today
BY InterestNumbers DEF NoFuture, Typed, Dates
-----------------------------------------------------------------------------
(***************************************************************************)
(* What a step does to the requests: one is made, one ends, the two        *)
(* statements of initialize take turns, or none is there.                  *)
(***************************************************************************)
Made(w, r) == /\ Begin(w, r) /\ BookFits(r) /\ (NoFuture /\ StoppedBefore => PastFits(r))
              /\ r.op \in WithSnapshot => r.seen = Seen
Ended(w) == /\ inflight[w] # Idle /\ Finish(w) /\ UNCHANGED today
            /\ UNCHANGED <<debt, payments>> \/ CommitPayDebt(w) \/ CommitInitializeDebt(w)
            /\ UNCHANGED calc \/ CommitStop(w) \/ CommitResume(w) \/ CommitPayDebt(w)
            /\ inflight[w].op = "materialize" => CommitMaterialize(w) \/ FailRequest(w)
Halfway(w) == /\ inflight[w].op = "initialize"
              /\ inflight' = [inflight EXCEPT ![w].op = "initializeRate"]
              /\ UNCHANGED <<today, calc, debt, payments>>
Between == (\A v \in Worker : inflight[v] = Idle) /\ UNCHANGED <<today, inflight, calc, debt, payments>>
Waits == /\ today' \in {today, today + 1}
         /\ UNCHANGED <<start, sold, rate, calc, debt, periods, payments, inflight>>

LEMMA BeginsMake ==
  ASSUME Typed, NEW w \in Worker, NEW d \in Int, NEW e, NEW r,
         \/ BeginUpdateRate(w, d, r) \/ BeginStop(w, d) \/ BeginResume(w, d, r)
         \/ BeginInitialize(w, e, r) \/ BeginMaterialize(w) \/ BeginRecalculate(w)
  PROVE  \E q : Made(w, q)
<1>0. today \in Int
  BY InterestNumbers DEF Typed
<1>1. PICK op, f, g :
         /\ op \in Dated
         /\ Begin(w, Request(op, today, f, g))
         /\ op = "stop" => f <= today
         /\ op = "materialize" => /\ start # NoDay /\ AccruesWithoutPeriods(Seen)
                                  /\ ImplicitRow(Seen, today) # NoRow
  <2>1. CASE BeginUpdateRate(w, d, r) BY <2>1 DEF BeginUpdateRate, Dated
  <2>2. CASE BeginStop(w, d) BY <1>0, <2>2 DEF BeginStop, Dated
  <2>3. CASE BeginResume(w, d, r) BY <2>3 DEF BeginResume, Dated
  <2>4. CASE BeginInitialize(w, e, r) BY <2>4 DEF BeginInitialize, Dated
  <2>5. CASE BeginMaterialize(w) BY <2>5 DEF BeginMaterialize, Dated
  <2>6. CASE BeginRecalculate(w) BY <2>6 DEF BeginRecalculate, Dated
  <2>7. QED BY <2>1, <2>2, <2>3, <2>4, <2>5, <2>6
<1> DEFINE q == Request(op, today, f, g)
<1>2. q.op = op /\ q.seen = Seen /\ q.day = today /\ q.date = f /\ Seen.start = start /\ Seen.calc = calc
  BY DEF Request, Seen
<1>3. Begin(w, q)
  BY <1>1
<1> HIDE DEF q
<1>4. BookFits(q)
  BY <1>1, <1>2 DEF BookFits, Dated
<1>5. StoppedBefore => PastFits(q)
  BY <1>0, <1>1, <1>2 DEF PastFits, StoppedBefore, Dated
<1>6. QED BY <1>2, <1>3, <1>4, <1>5 DEF Made

LEMMA DebtBeginsMake ==
  ASSUME Typed, NEW w \in Worker, NEW d, NoFuture => d <= today, NEW e, NEW t, NEW n,
         \/ BeginInitializeDebt(w, n)
         \/ BeginPayDebt(w, d, t, n) \/ BeginUpdateStock(w, n, e)
  PROVE  \E q : Made(w, q)
<1>1. CASE BeginInitializeDebt(w, n)
  <2>1. DebtRequest(n).op = "initializeDebt"
    BY DEF DebtRequest
  <2>2. Made(w, DebtRequest(n))
    BY <1>1, <2>1 DEF BeginInitializeDebt, Made, BookFits, PastFits, WithSnapshot
  <2>3. QED BY <2>2
<1>2. CASE BeginPayDebt(w, d, t, n)
  <2>1. /\ debt.status # "PAID_OFF"
        /\ \E accrued, p, i : Begin(w, PayRequest("payDebt", d, LeftBefore(Seen), accrued, p, i))
    BY <1>2 DEF BeginPayDebt
  <2>0. PICK accrued, p, i : Begin(w, PayRequest("payDebt", d, LeftBefore(Seen), accrued, p, i))
    BY <2>1
  <2> DEFINE q == PayRequest("payDebt", d, LeftBefore(Seen), accrued, p, i)
  <2>2. Begin(w, q) /\ q.op = "payDebt" /\ q.seen = Seen /\ q.left = LeftBefore(Seen) /\ q.date = d
    BY <2>0 DEF PayRequest
  <2> HIDE DEF q
  <2>3. Made(w, q)
    BY <2>1, <2>2 DEF Made, BookFits, PastFits, Seen
  <2>4. QED BY <2>3
<1>3. CASE BeginUpdateStock(w, n, e)
  <2>1. Made(w, StockRequest(n, e))
    BY <1>3 DEF BeginUpdateStock, StockRequest, Made, BookFits, PastFits, WithSnapshot
  <2>2. QED BY <2>1
<1>4. QED BY <1>1, <1>2, <1>3

LEMMA CommitsEnd ==
  ASSUME NEW w \in Worker,
         \/ CommitUpdateRate(w) \/ CommitStop(w) \/ CommitResume(w) \/ CommitInitializeRate(w)
         \/ CommitMaterialize(w) \/ CommitRecalculate(w) \/ CommitInitializeDebt(w)
         \/ CommitPayDebt(w) \/ CommitUpdateStock(w) \/ FailRequest(w)
  PROVE  Ended(w)
<1>0. ASSUME inflight[w].op # "idle", inflight[w].op # "materialize", Finish(w), UNCHANGED <<today, debt, payments>>,
             UNCHANGED calc \/ CommitStop(w) \/ CommitResume(w)
      PROVE  Ended(w)
  BY <1>0 DEF Ended, Idle
<1>1. CASE CommitUpdateRate(w)
  BY <1>0, <1>1 DEF CommitUpdateRate
<1>2. CASE CommitStop(w)
  <2>1. /\ inflight[w].op = "stop" /\ Finish(w) /\ UNCHANGED <<today, debt, payments>>
    BY <1>2 DEF CommitStop
  <2>2. QED BY <1>0, <1>2, <2>1
<1>3. CASE CommitResume(w)
  <2>1. /\ inflight[w].op = "resume" /\ Finish(w) /\ UNCHANGED <<today, debt, payments>>
    BY <1>3 DEF CommitResume
  <2>2. QED BY <1>0, <1>3, <2>1
<1>4. CASE CommitInitializeRate(w)
  BY <1>0, <1>4 DEF CommitInitializeRate
<1>5. CASE CommitMaterialize(w)
  BY <1>5 DEF CommitMaterialize, Ended, Idle, carVars
<1>6. CASE CommitRecalculate(w)
  BY <1>0, <1>6 DEF CommitRecalculate, carVars
<1>7. CASE CommitUpdateStock(w)
  BY <1>0, <1>7 DEF CommitUpdateStock
<1>8. CASE FailRequest(w)
  BY <1>8 DEF FailRequest, Ended, carVars
<1>9. CASE CommitInitializeDebt(w)
  BY <1>9 DEF CommitInitializeDebt, Ended, Idle
<1>10. CASE CommitPayDebt(w)
  BY <1>10 DEF CommitPayDebt, Ended, Idle
<1>11. QED BY <1>1, <1>2, <1>3, <1>4, <1>5, <1>6, <1>7, <1>8, <1>9, <1>10

LEMMA Moves ==
  ASSUME Typed, Overlap = FALSE, [Next]_vars
  PROVE  \/ \E w \in Worker : (\E q : Made(w, q)) \/ Ended(w) \/ Halfway(w)
         \/ Between
         \/ Waits
<1>1. ASSUME NEW w \in Worker, Periods(w)
      PROVE  (\E q : Made(w, q)) \/ Ended(w) \/ Halfway(w)
  <2>1. CASE CommitInitialize(w)
    BY <2>1 DEF CommitInitialize, Halfway, carVars
  <2>2. \A d \in Dates : d \in Int
    BY DatesTyped
  <2>3. today \in Int
    BY InterestNumbers DEF Typed
  <2>4. QED BY <1>1, <2>1, <2>2, <2>3, BeginsMake, CommitsEnd DEF Periods
<1>2. ASSUME NEW w \in Worker, DebtSteps(w)
      PROVE  (\E q : Made(w, q)) \/ Ended(w)
  <2>1. \A d \in Dates : NoFuture => d <= today
    BY DatesPast
  <2>2. ASSUME NEW n \in Amounts \cup {0}, BeginInitializeDebt(w, n) PROVE \E q : Made(w, q)
    <3>1. NoFuture => today <= today
      BY InterestNumbers DEF Typed
    <3>2. QED BY <2>2, <3>1, DebtBeginsMake
  <2>3. ASSUME NEW d \in Dates, NEW k, NEW n, BeginPayDebt(w, d, k, n) PROVE \E q : Made(w, q)
    BY <2>1, <2>3, DebtBeginsMake
  <2>4. QED BY <1>2, <2>2, <2>3, CommitsEnd DEF DebtSteps
<1>3. ASSUME NEW w \in Worker,
             \/ \E r \in Rates, d \in Starts \cup {NoDay} : BeginUpdateStock(w, r, d)
             \/ CommitUpdateStock(w) \/ FailRequest(w)
      PROVE  (\E q : Made(w, q)) \/ Ended(w)
  <2>1. NoFuture => today <= today
    BY InterestNumbers DEF Typed
  <2>2. QED BY <1>3, <2>1, DebtBeginsMake, CommitsEnd
<1>4. CASE Deliver \/ (\E p \in Period : DeletePeriod(p))
  BY <1>4 DEF Deliver, DeletePeriod, Between, carVars
<1>5. CASE NextDay \/ UNCHANGED vars
  BY <1>5 DEF NextDay, vars, Waits, carVars
<1>6. QED BY <1>1, <1>2, <1>3, <1>4, <1>5 DEF Next

\* In each case the requests that are left are the one just made, or what was
\* there and has still read the current rows.
LEMMA StepSerial ==
  ASSUME Overlap = FALSE, Serial, [Next]_vars
  PROVE  Serial'
<1>0. Typed' /\ inflight \in [Worker -> Requests]
  BY StepTyped DEF Serial, Typed, RequestsTyped
<1>1. ASSUME NEW w \in Worker, NEW q, Made(w, q) PROVE Single' /\ Current'
  <2>1. inflight' = [inflight EXCEPT ![w] = q] /\ UNCHANGED <<start, sold, rate, calc, debt, periods>>
        /\ \A v \in Worker \ {w} : inflight[v] = Idle
    BY <1>1 DEF Made, Begin, Quiet, carVars
  <2>2. \A v \in Worker : inflight'[v] = IF v = w THEN q ELSE Idle
    BY <1>0, <2>1
  <2>3. Seen' = Seen
    BY <2>1 DEF Seen
  <2>4. q.op \in WithSnapshot => q.seen = Seen
    BY <1>1 DEF Made
  <2>5. QED BY <2>2, <2>3, <2>4 DEF Single, Current, Idle, WithSnapshot
<1>2. ASSUME NEW w \in Worker, Ended(w) PROVE Single' /\ Current'
  <2>1. \A v \in Worker : inflight'[v] = Idle
    BY <1>0, <1>2 DEF Ended, Finish, Serial, Single
  <2>2. QED BY <2>1 DEF Single, Current, Idle, WithSnapshot
<1>3. ASSUME NEW w \in Worker, Halfway(w) PROVE Single' /\ Current'
  <2> DEFINE q == [inflight[w] EXCEPT !.op = "initializeRate"]
  <2>1. inflight[w] \in DatedRequests /\ inflight[w] # Idle
    BY <1>0, <1>3, Kinds DEF Halfway, Dated, Idle
  <2>2. q.op = "initializeRate"
    BY <2>1 DEF DatedRequests
  <2>3. \A v \in Worker : inflight'[v] = IF v = w THEN q ELSE Idle
    BY <1>0, <1>3, <2>1 DEF Halfway, Serial, Single
  <2> HIDE DEF q
  <2>4. QED BY <2>2, <2>3 DEF Single, Current, Idle, WithSnapshot
<1>4. CASE Between
  <2>1. \A v \in Worker : inflight'[v] = Idle
    BY <1>4 DEF Between
  <2>2. QED BY <1>0, <2>1 DEF Serial, Single, Current, Idle, WithSnapshot
<1>5. CASE Waits
  <2>1. inflight' = inflight /\ Seen' = Seen
    BY <1>5 DEF Waits, Seen
  <2>2. \A v, w \in Worker : inflight[v] # Idle /\ inflight[w] # Idle => v = w
    BY DEF Serial, Single
  <2>3. \A w \in Worker : inflight[w].op \in WithSnapshot => inflight[w].seen = Seen
    BY DEF Serial, Current
  <2>4. Single'
    BY <2>1, <2>2 DEF Single
  <2>5. Current'
    BY <2>1, <2>3 DEF Current
  <2>6. QED BY <1>0, <2>4, <2>5 DEF Serial
<1>6. QED BY <1>0, <1>1, <1>2, <1>3, <1>4, <1>5, Moves DEF Serial

\* The books of a car that has had one more payment.
LEMMA PaymentBooks ==
  ASSUME Serial, Typed', Books, NEW w \in Worker, CommitPayDebt(w)
  PROVE  DebtBooks' /\ DebtStarted'
<1> DEFINE r == inflight[w]
           n == Len(payments)
           last == [before |-> r.left, after |-> r.left - r.principal,
                    principal |-> r.principal, interest |-> r.interest]
<1>1. r \in PayRequests /\ r.principal <= r.left
  BY Kinds DEF Serial, Typed, RequestsTyped, PaymentsFit, CommitPayDebt
<1>2. r.left \in Nat /\ r.principal \in Nat /\ r.interest \in Nat /\ r.left - r.principal \in Nat
  BY <1>1 DEF PayRequests
<1>3. r.seen = Seen /\ r.left = LeftBefore(Seen) /\ r.seen.debt = debt
  BY DEF Serial, Current, CommitPayDebt, WithSnapshot, Books, BookFits, Seen
<1>4. debt \in Debt /\ payments \in Seq(DebtPayment) /\ n \in Nat
  BY DEF Serial, Typed, CarTyped
<1>5. /\ debt.amount \in Nat /\ debt.paid \in Nat /\ debt.interest \in Nat /\ debt.left \in Nat
      /\ debt.status \in {"NO_DEBT", "ACTIVE", "PAID_OFF"} /\ Cost \in Nat /\ Cost # 0
  BY <1>4, InterestNumbers, CostIsPositive DEF Debt
<1>6. r.left = IF debt.status = "NO_DEBT" THEN Cost ELSE debt.left
  BY <1>3 DEF LeftBefore, InitsDebt
<1>0. debt.status # "PAID_OFF" /\ (debt'.status = "ACTIVE" => ~PaysOff(r))
  BY <1>3, <1>5 DEF Books, BookFits, CommitPayDebt, DebtAfter, InitsDebt
<1>7. /\ payments' = Append(payments, last)
      /\ debt'.status # "NO_DEBT"
      /\ debt'.amount = IF debt.status = "NO_DEBT" THEN Cost ELSE debt.amount
      /\ debt'.paid = debt.paid + r.principal
      /\ debt'.interest = debt.interest + r.interest
      /\ debt'.left = r.left - r.principal
  BY <1>3, <1>5 DEF CommitPayDebt, DebtAfter, InitsDebt
<1>8. last \in DebtPayment
  BY <1>2 DEF DebtPayment
<1>9. /\ Len(payments') = n + 1 /\ payments'[n + 1] = last
      /\ \A i \in 1..n : payments'[i] = payments[i]
  BY <1>4, <1>7, <1>8, AppendProperties
<1>10. /\ last.before = r.left /\ last.after = r.left - r.principal
       /\ last.principal = r.principal /\ last.interest = r.interest
  OBVIOUS
<1> HIDE DEF r, last, n
<1>11. /\ debt.paid + debt.left = debt.amount
       /\ \A i \in 1..n : /\ payments[i].before = payments[i].after + payments[i].principal
                          /\ WholeAfter(payments, i - 1) => payments[i].before \in {0, debt.amount}
                          /\ ~WholeAfter(payments, i - 1) => payments[i].before = payments[i - 1].after
       /\ WholeAfter(payments, n) => debt.left = debt.amount
       /\ ~WholeAfter(payments, n) => debt.left = payments[n].after
       /\ debt.interest = InterestOf(payments)
  BY BooksAre DEF Books, n
<1>12. /\ debt.status = "NO_DEBT" => debt.amount = 0 /\ n = 0
       /\ debt.amount = 0 => debt.paid = 0 /\ debt.left = 0 /\ \A i \in 1..n : payments[i].before = 0
       /\ debt.status = "ACTIVE" /\ debt.left = 0 => debt.amount = 0
       /\ debt.status # "PAID_OFF"
  BY <1>0, <1>3, <1>4, EmptySeq DEF Books, DebtStarted, n
<1>13. debt'.paid + debt'.left = debt'.amount
  BY <1>2, <1>5, <1>6, <1>7, <1>11, <1>12
<1>14. \A i \in 0..n : WholeAfter(payments', i) = WholeAfter(payments, i)
  <2> TAKE i \in 0..n
  <2>1. i # 0 => i \in 1..n
    BY <1>4
  <2>2. QED BY <1>9, <2>1 DEF WholeAfter
<1>15. r.left = 0 <=> debt'.amount = 0
  BY <1>2, <1>5, <1>6, <1>7, <1>12
<1>16. ASSUME NEW i \in 1..(n + 1)
       PROVE  /\ payments'[i].before = payments'[i].after + payments'[i].principal
              /\ WholeAfter(payments', i - 1) => payments'[i].before \in {0, debt'.amount}
              /\ ~WholeAfter(payments', i - 1) => payments'[i].before = payments'[i - 1].after
  <2>1. CASE i = n + 1
    <3>1. payments'[i].before = payments'[i].after + payments'[i].principal
      BY <1>2, <1>9, <1>10, <2>1
    <3>2. i - 1 = n /\ n \in 0..n
      BY <1>4, <2>1
    <3>3. WholeAfter(payments, n) => r.left = debt'.amount
      BY <1>6, <1>7, <1>11
    <3>4. ASSUME ~WholeAfter(payments, n) PROVE r.left = debt.left /\ payments'[n] = payments[n]
      <4>1. n \in 1..n
        BY <1>4, <3>4 DEF WholeAfter
      <4>2. debt.status # "NO_DEBT"
        BY <1>12, <4>1
      <4>3. QED BY <1>6, <1>9, <4>1, <4>2
    <3>5. QED BY <1>9, <1>10, <1>11, <1>14, <2>1, <3>1, <3>2, <3>3, <3>4
  <2>2. CASE i # n + 1
    <3>1. i \in 1..n /\ i - 1 \in 0..n /\ n # 0
      BY <1>4, <2>2
    <3>2. debt'.amount = debt.amount
      BY <1>7, <1>12, <3>1
    <3>3. ~WholeAfter(payments, i - 1) => i - 1 \in 1..n
      BY <3>1 DEF WholeAfter
    <3>4. QED BY <1>9, <1>11, <1>14, <3>1, <3>2, <3>3
  <2>3. QED BY <2>1, <2>2
<1>17. debt'.interest = InterestOf(payments')
  BY <1>4, <1>7, <1>8, <1>10, <1>11, InterestOfMore
<1>18. /\ WholeAfter(payments', n + 1) => debt'.left = debt'.amount
       /\ ~WholeAfter(payments', n + 1) => debt'.left = payments'[n + 1].after
  <2>1. n + 1 # 0
    BY <1>4
  <2>2. WholeAfter(payments', n + 1) <=> r.left = 0
    BY <1>9, <1>10, <2>1 DEF WholeAfter
  <2>3. r.left = 0 => debt'.left = 0
    BY <1>2, <1>7
  <2>4. QED BY <1>7, <1>9, <1>10, <1>15, <2>2, <2>3
<1>19. DebtBooks'
  <2>1. /\ debt'.paid + debt'.left = debt'.amount
        /\ \A i \in 1..Len(payments') :
              /\ payments'[i].before = payments'[i].after + payments'[i].principal
              /\ WholeAfter(payments', i - 1) => payments'[i].before \in {0, debt'.amount}
              /\ ~WholeAfter(payments', i - 1) => payments'[i].before = payments'[i - 1].after
        /\ WholeAfter(payments', n + 1) => debt'.left = debt'.amount
        /\ ~WholeAfter(payments', n + 1) => debt'.left = payments'[n + 1].after
        /\ debt'.interest = InterestOf(payments')
    BY <1>9, <1>13, <1>16, <1>17, <1>18
  <2>2. QED BY <1>9, <2>1 DEF DebtBooks, WholeAfter
<1>20. debt'.amount = 0 => debt'.paid = 0 /\ debt'.left = 0 /\ \A i \in 1..(n + 1) : payments'[i].before = 0
  <2> SUFFICES ASSUME debt'.amount = 0
               PROVE  debt'.paid = 0 /\ debt'.left = 0 /\ \A i \in 1..(n + 1) : payments'[i].before = 0
    OBVIOUS
  <2>1. debt.amount = 0 /\ r.left = 0 /\ r.principal = 0
    BY <1>2, <1>5, <1>7, <1>15
  <2>2. \A i \in 1..(n + 1) : i \in 1..n \/ i = n + 1
    BY <1>4
  <2>3. QED BY <1>7, <1>9, <1>10, <1>12, <2>1, <2>2
<1>21. debt'.status = "ACTIVE" => debt'.left # 0
  BY <1>2, <1>7, <1>0 DEF PaysOff
<1>22. QED BY <1>7, <1>9, <1>19, <1>20, <1>21 DEF DebtStarted

\* The books of a car whose debt has just been started.
LEMMA StartBooks ==
  ASSUME Serial, Typed', Books, NEW w \in Worker, CommitInitializeDebt(w)
  PROVE  DebtBooks' /\ DebtStarted'
<1>1. inflight[w].amount \in Nat /\ (debt.status = "NO_DEBT" \/ debt.amount = 0)
  BY Kinds DEF Serial, Typed, RequestsTyped, CommitInitializeDebt, Books, BookFits
<1>2. \A i \in 1..Len(payments) : payments[i].before = 0
  BY <1>1 DEF Books, DebtStarted
<1>3. /\ debt.interest = InterestOf(payments)
      /\ \A i \in 1..Len(payments) : payments[i].before = payments[i].after + payments[i].principal
  BY DEF Books, DebtBooks
<1>4. /\ debt'.status = "ACTIVE" /\ debt'.amount = inflight[w].amount /\ debt'.paid = 0
      /\ debt'.interest = debt.interest /\ debt'.left = inflight[w].amount /\ payments' = payments
  BY DEF CommitInitializeDebt
<1>5. Len(payments) \in Nat
  BY DEF Serial, Typed
<1>6. \A i \in 0..Len(payments) : WholeAfter(payments', i)
  <2> TAKE i \in 0..Len(payments)
  <2>1. i # 0 => i \in 1..Len(payments)
    BY <1>5
  <2>2. QED BY <1>2, <1>4, <2>1 DEF WholeAfter
<1>7. DebtBooks'
  <2>1. \A i \in 1..Len(payments') : WholeAfter(payments', i - 1) /\ payments'[i].before \in {0, debt'.amount}
    BY <1>2, <1>4, <1>5, <1>6
  <2>2. WholeAfter(payments', Len(payments'))
    BY <1>4, <1>5, <1>6
  <2>3. debt'.paid + debt'.left = debt'.amount
    BY <1>1, <1>4
  <2>4. QED BY <1>3, <1>4, <2>1, <2>2, <2>3 DEF DebtBooks, WholeAfter
<1>8. QED BY <1>1, <1>2, <1>4, <1>7 DEF DebtStarted

\* The books stay when debt and payments do.
LEMMA BooksStay ==
  ASSUME DebtBooks, DebtStarted, UNCHANGED <<debt, payments>>
  PROVE  DebtBooks' /\ DebtStarted'
BY DEF DebtBooks, DebtStarted

LEMMA StepBooks ==
  ASSUME Overlap = FALSE, Serial, Books, [Next]_vars
  PROVE  Books'
<1>0. Typed' /\ inflight \in [Worker -> Requests] /\ DebtBooks /\ DebtStarted
      /\ \A w \in Worker : BookFits(inflight[w])
  BY StepTyped DEF Serial, Typed, RequestsTyped, Books
<1>1. ASSUME NEW w \in Worker, NEW q, Made(w, q) PROVE Books'
  <2>1. inflight' = [inflight EXCEPT ![w] = q] /\ UNCHANGED <<debt, payments>> /\ BookFits(q)
    BY <1>1 DEF Made, Begin, carVars
  <2>2. \A v \in Worker : inflight'[v] = q \/ inflight'[v] = inflight[v]
    BY <1>0, <2>1
  <2>3. \A v \in Worker : BookFits(inflight[v])' 
    BY <1>0, <2>1, <2>2 DEF BookFits, LeftBefore, InitsDebt
  <2>4. QED BY <1>0, <2>1, <2>3, BooksStay DEF Books
<1>2. ASSUME NEW w \in Worker, Ended(w) PROVE Books'
  <2>1. \A v \in Worker : inflight'[v] = Idle
    BY <1>0, <1>2 DEF Ended, Finish, Serial, Single
  <2>2. \A v \in Worker : BookFits(inflight[v])'
    BY <2>1 DEF BookFits, Idle
  <2>3. DebtBooks' /\ DebtStarted'
    BY <1>0, <1>2, BooksStay, PaymentBooks, StartBooks DEF Ended
  <2>4. QED BY <2>2, <2>3 DEF Books
<1>3. ASSUME NEW w \in Worker, Halfway(w) PROVE Books'
  <2> DEFINE q == [inflight[w] EXCEPT !.op = "initializeRate"]
  <2>1. inflight[w] \in DatedRequests
    BY <1>0, <1>3, Kinds DEF Halfway, Dated
  <2>2. q.op = "initializeRate"
    BY <2>1 DEF DatedRequests
  <2>3. \A v \in Worker : inflight'[v] = q \/ inflight'[v] = inflight[v]
    BY <1>0, <1>3 DEF Halfway
  <2>4. UNCHANGED <<debt, payments>>
    BY <1>3 DEF Halfway
  <2> HIDE DEF q
  <2>5. \A v \in Worker : BookFits(inflight[v])'
    BY <1>0, <2>2, <2>3, <2>4 DEF BookFits, LeftBefore, InitsDebt
  <2>6. QED BY <1>0, <2>4, <2>5, BooksStay DEF Books
<1>4. CASE Between \/ Waits
  <2>1. UNCHANGED <<debt, payments, inflight>>
    BY <1>4 DEF Between, Waits
  <2>2. \A v \in Worker : BookFits(inflight[v])'
    BY <1>0, <2>1 DEF BookFits, LeftBefore, InitsDebt
  <2>3. QED BY <1>0, <2>1, <2>2, BooksStay DEF Books
<1>5. QED BY <1>1, <1>2, <1>3, <1>4, Moves DEF Serial

LEMMA InitBooks == Init => Serial /\ Books
<1> SUFFICES ASSUME Init PROVE Serial /\ Books
  OBVIOUS
<1>1. Serial
  BY InitTyped DEF Init, Serial, Single, Current, Idle, WithSnapshot
<1>2. DebtBooks
  <2>1. payments = <<>> /\ Len(payments) = 0 /\ 1..0 = {} /\ debt = NoDebt
    BY DEF Init
  <2>2. QED BY <2>1, InterestOfNone DEF DebtBooks, NoDebt
<1>3. DebtStarted /\ \A w \in Worker : BookFits(inflight[w])
  BY DEF Init, DebtStarted, NoDebt, BookFits, Idle
<1>4. QED BY <1>1, <1>2, <1>3 DEF Books

\* When requests on the car follow each other, its debt is what its payment rows
\* say, however the payments are split, dated or mixed with other changes of the
\* car, and however often a debt of 0 is started again: each starts from what the
\* one before left, and paid, remaining and interest add up.
THEOREM DebtIsItsPayments ==
  ASSUME Overlap = FALSE
  PROVE  Spec => []DebtBooks
<1>1. Serial /\ Books /\ [Next]_vars => (Serial /\ Books)'
  BY StepSerial, StepBooks
<1>2. Books => DebtBooks
  BY DEF Books
<1>3. QED BY <1>1, <1>2, InitBooks, PTL DEF Spec
-----------------------------------------------------------------------------
(***************************************************************************)
(* Opening the detail page, when no request is dated in the future.        *)
(***************************************************************************)

Past == StoppedBefore /\ \A w \in Worker : PastFits(inflight[w])

LEMMA StepPast ==
  ASSUME NoFuture, Overlap = FALSE, Turns, Past, [Next]_vars
  PROVE  Past'
<1>0. /\ Typed /\ Typed' /\ inflight \in [Worker -> Requests] /\ Single
      /\ today \in Int /\ calc.at \in Int
      /\ \A w \in Worker : PastFits(inflight[w])
  BY StepTyped, InterestNumbers DEF Turns, Typed, RequestsTyped, CarTyped, Calc, Past
<1>1. ASSUME NEW w \in Worker, NEW q, Made(w, q) PROVE Past'
  <2>1. inflight' = [inflight EXCEPT ![w] = q] /\ UNCHANGED <<today, calc>> /\ PastFits(q)
    BY <1>1 DEF Made, Begin, carVars, Past
  <2>2. \A v \in Worker : inflight'[v] = q \/ inflight'[v] = inflight[v]
    BY <1>0, <2>1
  <2>3. \A v \in Worker : PastFits(inflight[v])'
    BY <1>0, <2>1, <2>2 DEF PastFits, AccruesWithoutPeriods
  <2>4. QED BY <2>1, <2>3 DEF Past, StoppedBefore
<1>2. ASSUME NEW w \in Worker, Ended(w) PROVE Past'
  <2>1. \A v \in Worker : inflight'[v] = Idle
    BY <1>0, <1>2 DEF Ended, Finish, Single
  <2>2. \A v \in Worker : PastFits(inflight[v])'
    BY <2>1 DEF PastFits, Idle
  <2>3. calc'.state = "stopped" => calc'.at <= today'
    <3>1. CASE UNCHANGED calc
      BY <1>2, <3>1 DEF Ended, Past, StoppedBefore
    <3>2. CASE CommitResume(w)
      BY <3>2 DEF CommitResume, Running
    <3>3. CASE CommitStop(w)
      BY <1>0, <1>2, <3>3 DEF CommitStop, StoppedAt, PastFits, Ended
    <3>4. CASE CommitPayDebt(w)
      <4>1. inflight[w].date <= today /\ today' = today
        BY <1>0, <1>2, <3>4 DEF CommitPayDebt, PastFits, Ended
      <4>2. calc' = StoppedAt(inflight[w].date) \/ UNCHANGED calc
        BY <3>4 DEF CommitPayDebt
      <4>3. QED BY <3>1, <4>1, <4>2 DEF StoppedAt
    <3>5. QED BY <1>2, <3>1, <3>2, <3>3, <3>4 DEF Ended
  <2>4. QED BY <2>2, <2>3 DEF Past, StoppedBefore
<1>3. ASSUME NEW w \in Worker, Halfway(w) PROVE Past'
  <2> DEFINE q == [inflight[w] EXCEPT !.op = "initializeRate"]
  <2>1. inflight[w] \in DatedRequests
    BY <1>0, <1>3, Kinds DEF Halfway, Dated
  <2>2. q.op = "initializeRate"
    BY <2>1 DEF DatedRequests
  <2>3. \A v \in Worker : inflight'[v] = q \/ inflight'[v] = inflight[v]
    BY <1>0, <1>3 DEF Halfway
  <2>4. UNCHANGED <<today, calc>>
    BY <1>3 DEF Halfway
  <2> HIDE DEF q
  <2>5. \A v \in Worker : PastFits(inflight[v])'
    BY <1>0, <2>2, <2>3, <2>4 DEF PastFits, AccruesWithoutPeriods
  <2>6. QED BY <2>4, <2>5 DEF Past, StoppedBefore
<1>4. CASE Between \/ Waits
  <2>1. UNCHANGED <<inflight, calc>> /\ today' \in Int /\ today <= today'
    BY <1>0, <1>4 DEF Between, Waits
  <2>2. ASSUME NEW v \in Worker PROVE PastFits(inflight[v])'
    <3>1. PastFits(inflight[v])
      BY <1>0
    <3>2. inflight[v].op \in {"stop", "payDebt"} => inflight[v].date \in Int
      BY <1>0, Kinds DEF Dated, DatedRequests, PayRequests
    <3>3. QED BY <1>0, <2>1, <3>1, <3>2 DEF PastFits, AccruesWithoutPeriods
  <2>3. QED BY <1>0, <2>1, <2>2 DEF Past, StoppedBefore
<1>5. QED BY <1>0, <1>1, <1>2, <1>3, <1>4, Moves

LEMMA InitPast == Init => Past
BY DEF Init, Past, StoppedBefore, Running, PastFits, Idle

\* The day a stretch without rows ends at, the day the page was opened or a later
\* one, is the same once the car is sold or its calculation stopped.
LEMMA StoppedEnd ==
  ASSUME NEW s \in Snapshot, NEW d \in Int, NEW e \in Int, d <= e,
         s.calc.state = "stopped", s.calc.at # NoDay, s.sold # NoDay \/ s.calc.at <= d
  PROVE  AccrualEnd(s, d) = AccrualEnd(s, e)
BY DEF Snapshot, Calc, AccrualEnd, SoldOr

\* The closed rows of a table when there is none or one.
LEMMA ClosedTotals ==
  ASSUME NEW table, NEW rows, rows = {p \in Period : table[p].state = "closed"}
  PROVE  /\ rows = {} => SumFunction([p \in rows |-> table[p].interest]) = 0
         /\ \A a : rows = {a} /\ table[a].interest \in Nat =>
               SumFunction([p \in rows |-> table[p].interest]) = table[a].interest
<1> DEFINE f == [p \in rows |-> table[p].interest]
<1>1. DOMAIN f = rows /\ \A a \in rows : f[a] = table[a].interest
  OBVIOUS
<1> HIDE DEF f
<1>2. rows = {} => SumFunction(f) = 0
  BY <1>1, SumOfNone DEF SumFunction
<1>3. ASSUME NEW a, rows = {a}, table[a].interest \in Nat PROVE SumFunction(f) = table[a].interest
  <2>1. f[a] = table[a].interest /\ f[a] \in Int
    BY <1>1, <1>3
  <2>2. SumFunctionOnSet(f, {a}) = f[a]
    BY <2>1, SumOfOne
  <2>3. QED BY <1>1, <1>3, <2>1, <2>2 DEF SumFunction
<1>4. QED BY <1>2, <1>3 DEF f

\* What the row shows, by itself or as the implicit period that it was.
Shown(principal, day) == Interest(principal, rate, Days(start, AccrualEnd(Seen, day)))

\* A car without rows shows its implicit period alone.
LEMMA ShownWithout ==
  ASSUME OnFile(periods) = {}, start # NoDay, AccruesWithoutPeriods(Seen)
  PROVE  /\ ClosedTotal = 0 /\ \A d : ActiveInterest(d) = 0
         /\ \A n : Implicit(n) = Shown(n, today)
<1>1. ActiveIn(periods) = {} /\ {q \in Period : periods[q].state = "closed"} = {}
  BY DEF ActiveIn, OnFile
<1>2. ClosedTotal = 0
  BY <1>1, ClosedTotals DEF ClosedTotal, InState
<1>3. QED BY <1>1, <1>2 DEF ActiveInterest, Implicit, Shown

\* A table of one row: the sum of its closed rows, and its active row.
LEMMA OneRow ==
  ASSUME NEW table \in Table, NEW p \in Period,
         \A q \in Period : q # p => table[q].state \notin {"open", "closed"}
  PROVE  LET rows == {q \in Period : table[q].state = "closed"}
             total == SumFunction([q \in rows |-> table[q].interest])
         IN  /\ table[p].state = "closed" => total = table[p].interest /\ ActiveIn(table) = {}
             /\ table[p].state = "open" => total = 0 /\ ActiveIn(table) = {p}
<1> DEFINE rows == {q \in Period : table[q].state = "closed"}
<1>1. table[p].interest \in Nat /\ table[p].from \in Int
  BY DEF Table, Row
<1>2. ASSUME table[p].state = "closed"
      PROVE  SumFunction([q \in rows |-> table[q].interest]) = table[p].interest /\ ActiveIn(table) = {}
  <2>1. rows = {p} /\ ActiveIn(table) = {}
    BY <1>2 DEF ActiveIn
  <2> HIDE DEF rows
  <2>2. SumFunction([q \in rows |-> table[q].interest]) = table[p].interest
    BY <1>1, <2>1, ClosedTotals DEF rows
  <2>3. QED BY <2>1, <2>2
<1>3. ASSUME table[p].state = "open"
      PROVE  SumFunction([q \in rows |-> table[q].interest]) = 0 /\ ActiveIn(table) = {p}
  <2>1. rows = {} /\ ActiveIn(table) = {p}
    BY <1>1, <1>3 DEF ActiveIn
  <2> HIDE DEF rows
  <2>2. SumFunction([q \in rows |-> table[q].interest]) = 0
    BY <2>1, ClosedTotals DEF rows
  <2>3. QED BY <2>1, <2>2
<1>4. QED BY <1>2, <1>3

\* The row that the page writes shows what was shown without it.
LEMMA WritingIsNeutral ==
  ASSUME Turns, Typed', NEW w \in Worker, CommitMaterialize(w), PastFits(inflight[w]),
         OnFile(periods) = {}
  PROVE  /\ Displayed' = Displayed
         /\ sold = NoDay \/ calc.state = "stopped" =>
               /\ debt.status # "PAID_OFF" => Counted' = Counted
               /\ Remaining = Cost => Summarised' = Summarised
<1> DEFINE r == inflight[w]
           row == ImplicitRow(Seen, r.day)
<1>0. r.op = "materialize" /\ r.op \in WithSnapshot
  BY DEF CommitMaterialize, WithSnapshot
<1>1. r.seen = Seen /\ periods \in Table /\ Seen \in Snapshot
  BY <1>0, AtCommit
<1>2. /\ r.day \in Int /\ r.day <= today /\ start # NoDay /\ AccruesWithoutPeriods(Seen)
      /\ row # NoRow /\ (calc.state = "stopped" => calc.at <= r.day)
      /\ Seen.start = start /\ Seen.rate = rate /\ Seen.calc = calc /\ Seen.sold = sold
      /\ Seen.debt = debt
  BY <1>0, <1>1 DEF PastFits, Seen
<1>3. PICK p \in Period : periods' = [periods EXCEPT ![p] = row]
  BY <1>1 DEF CommitMaterialize, Free
<1>4. UNCHANGED <<today, start, sold, rate, calc, debt>>
  BY DEF CommitMaterialize, carVars
<1>5. /\ today \in Int /\ start \in Int /\ rate \in Nat /\ calc.state \in {"running", "stopped"}
      /\ Cost \in Nat
  BY StatesOf, InterestNumbers DEF Turns, Typed, CarTyped
<1> HIDE DEF r, row
<1>6. /\ periods'[p] = row /\ periods' \in Table
      /\ \A q \in Period : q # p => periods'[q].state \notin {"open", "closed"}
  BY <1>1, <1>3 DEF Table, OnFile, Typed
<1>7. /\ ClosedTotal = 0 /\ \A d : ActiveInterest(d) = 0
      /\ \A n : Implicit(n) = Shown(n, today)
  BY <1>2, ShownWithout
<1>8. AccrualEnd(Seen, today) \in Int /\ Shown(Cost, today) \in Nat
  <2>1. AccrualEnd(Seen, today) \in Int
    BY <1>1, <1>5 DEF AccrualEnd, SoldOr, Snapshot, Calc
  <2>2. Days(start, AccrualEnd(Seen, today)) \in Nat
    BY <1>5, <2>1, Days_
  <2>3. QED BY <1>5, <2>1, <2>2, InterestNat DEF Shown
<1>9. Displayed = Shown(Cost, today)
  BY <1>7, <1>8 DEF Displayed
<1>10. Counted = IF debt.status = "PAID_OFF" THEN 0 ELSE Shown(Cost, today)
  BY <1>7, <1>8 DEF Counted
<1>11. Remaining = Cost => Summarised = Shown(Cost, today)
  BY <1>7, <1>8 DEF Summarised
<1>12. CASE calc.state = "stopped"
  <2>1. calc.at # NoDay
    BY <1>12 DEF Turns, StoppedOnADay
  <2>2. row = ImplicitClosed(Seen, AccrualEnd(Seen, r.day))
    BY <1>2, <1>12, <2>1 DEF ImplicitRow, row
  <2>3. AccrualEnd(Seen, r.day) = AccrualEnd(Seen, today)
    BY <1>1, <1>2, <1>5, <1>12, <2>1, StoppedEnd
  <2>4. row.state = "closed" /\ row.interest = Shown(Cost, today)
    BY <1>2, <2>2, <2>3 DEF ImplicitClosed, ClosedRow, Shown
  <2>5. /\ ClosedTotal' = Shown(Cost, today) /\ \A d : ActiveInterest(d)' = 0
        /\ \A n : Implicit(n)' = 0
    <3>1. SumFunction([q \in {q \in Period : periods'[q].state = "closed"} |-> periods'[q].interest])
             = periods'[p].interest /\ ActiveIn(periods') = {}
      BY <1>6, <2>4, OneRow
    <3>2. ClosedTotal' = Shown(Cost, today)
      BY <1>6, <2>4, <3>1 DEF ClosedTotal, InState
    <3>3. \A d : ActiveInterest(d)' = 0
      BY <3>1 DEF ActiveInterest
    <3>4. \A n : Implicit(n)' = 0
      BY <1>6, <2>4 DEF Implicit, OnFile
    <3>5. QED BY <3>2, <3>3, <3>4
  <2>6. OnFile(periods') # {} /\ ~Accruing'
    BY <1>4, <1>6, <1>12, <2>4 DEF OnFile, Accruing
  <2>7. Displayed' = Shown(Cost, today)
    BY <1>8, <2>5, <2>6 DEF Displayed
  <2>8. Counted' = Shown(Cost, today)
    BY <1>8, <2>5, <2>6 DEF Counted
  <2>9. Summarised' = Shown(Cost, today)
    BY <1>8, <2>5 DEF Summarised
  <2>10. QED BY <1>9, <1>10, <1>11, <2>7, <2>8, <2>9
<1>13. CASE calc.state = "running"
  <2>1. /\ AccrualEnd(Seen, today) = SoldOr(Seen, today)
        /\ row = OpenRow(start, rate, Cost)
    BY <1>2, <1>13 DEF AccrualEnd, ImplicitRow, row
  <2>2. row.state = "open" /\ row.from = start /\ row.rate = rate /\ row.principal = Cost
    BY <2>1 DEF OpenRow
  <2>3. /\ ClosedTotal' = 0 /\ \A d : ActiveInterest(d)' = OpenInterest(p, d)'
        /\ \A n : Implicit(n)' = 0
    <3>1. SumFunction([q \in {q \in Period : periods'[q].state = "closed"} |-> periods'[q].interest]) = 0
          /\ ActiveIn(periods') = {p}
      BY <1>6, <2>2, OneRow
    <3>2. ClosedTotal' = 0
      BY <3>1 DEF ClosedTotal, InState
    <3>3. ASSUME NEW d PROVE ActiveInterest(d)' = OpenInterest(p, d)'
      <4>1. {OpenInterest(q, d)' : q \in ActiveIn(periods')} = {OpenInterest(p, d)'} /\ ActiveIn(periods') # {}
        BY <3>1
      <4>2. ActiveInterest(d)' = CHOOSE n \in {OpenInterest(q, d)' : q \in ActiveIn(periods')} : TRUE
        BY <4>1 DEF ActiveInterest
      <4>3. QED BY <4>1, <4>2
    <3>4. \A n : Implicit(n)' = 0
      BY <1>6, <2>2 DEF Implicit, OnFile
    <3>5. QED BY <3>2, <3>3, <3>4
  <2>4. OpenInterest(p, SoldOr(Seen, today))' = Shown(Cost, today)
    BY <1>4, <1>6, <2>1, <2>2 DEF OpenInterest, Shown, SoldOr, Seen
  <2>5. sold = NoDay => OpenInterest(p, today)' = Shown(Cost, today)
    BY <1>2, <1>4, <1>6, <2>1, <2>2 DEF OpenInterest, Shown, SoldOr
  <2>6. OnFile(periods') # {} /\ Accruing'
    BY <1>2, <1>4, <1>6, <1>13, <2>2 DEF OnFile, Accruing, AccruesWithoutPeriods
  <2>7. ActiveInterest(SoldOr(Seen, today))' = Shown(Cost, today)
    BY <2>3, <2>4
  <2>8. sold = NoDay => ActiveInterest(today)' = Shown(Cost, today)
    BY <2>3, <2>5
  <2>9. Displayed' = Shown(Cost, today)
    BY <1>8, <2>3, <2>6, <2>7 DEF Displayed
  <2>10. sold = NoDay => Counted' = Shown(Cost, today)
    BY <1>8, <2>3, <2>6, <2>8 DEF Counted
  <2>11. sold = NoDay => Summarised' = Shown(Cost, today)
    BY <1>8, <2>3, <2>8 DEF Summarised
  <2>12. QED BY <1>9, <1>10, <1>11, <1>13, <2>9, <2>10, <2>11
<1>14. QED BY <1>5, <1>12, <1>13

LEMMA StepNeutral ==
  ASSUME NoFuture, Overlap = FALSE, Turns, Past, [Next]_vars
  PROVE  NeutralStep \/ UNCHANGED vars
<1> SUFFICES ASSUME NEW w \in Worker, inflight[w].op = "materialize", inflight'[w] = Idle
             PROVE  /\ Displayed' = Displayed
                    /\ sold = NoDay \/ calc.state = "stopped" =>
                          /\ debt.status # "PAID_OFF" => Counted' = Counted
                          /\ Remaining = Cost => Summarised' = Summarised
  BY DEF NeutralStep
<1>0. /\ Typed /\ inflight \in [Worker -> Requests] /\ Single /\ inflight[w] # Idle
      /\ PastFits(inflight[w]) /\ Typed'
  BY StepTyped DEF Turns, Typed, RequestsTyped, Past, Idle
<1>1. CommitMaterialize(w) \/ FailRequest(w)
  <2>1. ASSUME NEW v \in Worker, NEW q, Made(v, q) PROVE FALSE
    BY <1>0, <2>1 DEF Made, Begin
  <2>2. ASSUME NEW v \in Worker, Halfway(v) PROVE FALSE
    BY <1>0, <2>2 DEF Halfway, Idle, Single
  <2>3. ~Between /\ ~Waits
    BY <1>0 DEF Between, Waits, Idle
  <2>4. ASSUME NEW v \in Worker, Ended(v) PROVE v = w
    BY <1>0, <2>4 DEF Ended, Single
  <2>5. PICK v \in Worker : Ended(v)
    BY <1>0, <2>1, <2>2, <2>3, Moves
  <2>6. QED BY <2>4, <2>5 DEF Ended
<1>2. CASE UNCHANGED <<today, carVars, periods>>
  <2>1. UNCHANGED <<today, start, sold, rate, calc, debt, periods>> /\ Seen' = Seen
    BY <1>2 DEF carVars, Seen
  <2>2. ClosedTotal' = ClosedTotal /\ Accruing' = Accruing /\ Remaining' = Remaining
    BY <2>1 DEF ClosedTotal, InState, Accruing, Remaining
  <2>3. \A n : Implicit(n)' = Implicit(n)
    BY <2>1 DEF Implicit
  <2>4. \A d : ActiveInterest(d)' = ActiveInterest(d)
    BY <2>1 DEF ActiveInterest, OpenInterest
  <2>5. Displayed' = Displayed
    BY <2>1, <2>2, <2>3, <2>4 DEF Displayed
  <2>6. Counted' = Counted
    BY <2>1, <2>2, <2>3, <2>4 DEF Counted
  <2>7. Summarised' = Summarised
    BY <2>1, <2>2, <2>3, <2>4 DEF Summarised
  <2>8. QED BY <2>5, <2>6, <2>7
<1>3. CASE CommitMaterialize(w) /\ OnFile(periods) = {}
  BY <1>0, <1>3, WritingIsNeutral
<1>4. QED BY <1>1, <1>2, <1>3 DEF CommitMaterialize, FailRequest

\* When requests on the car follow each other and none is dated in the future,
\* opening the detail page of a car writes a row and changes nothing on the list,
\* and nothing in the statistics or the debt summary but in the cases that
\* NeutralStep excepts.
THEOREM ReadingChangesNothing ==
  ASSUME Overlap = FALSE, NoFuture
  PROVE  Spec => ReadingIsNeutral
<1>1. Turns /\ Past /\ [Next]_vars => (Turns /\ Past)'
  BY StepInTurn, StepPast
<1>2. Turns /\ Past /\ [Next]_vars => [NeutralStep]_vars
  BY StepNeutral
<1>3. QED BY <1>1, <1>2, InitInTurn, InitPast, PTL DEF Spec, ReadingIsNeutral
=============================================================================
