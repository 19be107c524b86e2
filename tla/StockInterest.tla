--------------------------- MODULE StockInterest ---------------------------
(***************************************************************************)
(* The interest history and the debt of one car in stock                   *)
(* (interest.service.ts, interest.dates.ts, interest.stop.ts,              *)
(* interest.recalc.ts, stock-interest-display.ts).  Requests on different  *)
(* cars never meet, so one car is enough; the bulk endpoints call the same *)
(* handlers car by car.                                                    *)
(*                                                                         *)
(* Every handler reads the car with its periods, decides and computes from *)
(* that snapshot, and writes in a transaction that checks nothing again:   *)
(* a Begin action and a Commit action.  Materialising the implicit period  *)
(* looks once more under a row lock; initializeInterestPeriod writes in    *)
(* two statements without a transaction.                                   *)
(*                                                                         *)
(* Days are whole numbers, money is whole satang, and the annual rate over *)
(* 365 is one whole number, so that interest is principal * rate * days;   *)
(* rounding is left out.  The cost the car's principal base selects is the *)
(* constant Cost.                                                          *)
(***************************************************************************)
EXTENDS Integers, Sequences, Functions

CONSTANTS
    Period,            \* ids of interest_periods rows: bounds how many are made
    Worker,            \* requests on the car the API serves at the same time
    LastDay,           \* the last day of the model
    Shifts,            \* days from today that a request may be dated
    Rates,             \* daily rates
    Cost,              \* baseCost, or the total cost, of the car
    Amounts,           \* amounts of a payment, or of a debt that is not 0
    MaxPayments,       \* bounds how many debt payments are recorded
    Financed,          \* does the car have a finance provider?
    Ops,               \* the handlers in use
    Starts,            \* days that a car's order or arrival date may be
    Overlap            \* may two requests on the car be in flight at once?

Handlers == {"updateRate", "stop", "resume", "initialize", "materialize", "recalculate",
             "deletePeriod", "initializeDebt", "payDebt", "updateStock", "deliver"}

ASSUME InterestNumbers ==
    /\ LastDay \in Nat /\ Shifts \subseteq Int /\ Rates \subseteq Nat /\ Starts \subseteq Int
    /\ Cost \in Nat /\ Amounts \subseteq Nat \ {0} /\ MaxPayments \in Nat
\* CreateStockSchema and UpdateStockSchema: "Base cost must be positive".
ASSUME CostIsPositive == Cost # 0
ASSUME InterestFlags == Financed \in BOOLEAN /\ Overlap \in BOOLEAN

VARIABLES
    today,
    start,     \* orderDate, or else arrivalDate, of the car
    sold,      \* Stock.soldDate
    rate,      \* Stock.interestRate
    calc,      \* Stock.stopInterestCalc and interestStoppedAt
    debt,      \* Stock.debtStatus, debtAmount, paidDebtAmount,
               \* paidInterestAmount and remainingDebt
    periods,   \* the interest_periods rows of the car
    payments,  \* the stock_debt_payments rows of the car, oldest first
    inflight   \* what each worker's request has read and was asked

carVars == <<start, sold, rate, calc, debt>>
vars == <<today, start, sold, rate, calc, debt, periods, payments, inflight>>
-----------------------------------------------------------------------------
\* dayBefore of the first day is -1; a missing date is further back.
NoDay == -2

Calc == [state : {"running", "stopped"}, at : Int]
Running == [state |-> "running", at |-> NoDay]
StoppedAt(day) == [state |-> "stopped", at |-> day]

Debt == [status : {"NO_DEBT", "ACTIVE", "PAID_OFF"}, amount : Nat, paid : Nat,
         interest : Nat, left : Nat]
NoDebt == [status |-> "NO_DEBT", amount |-> 0, paid |-> 0, interest |-> 0, left |-> 0]

Row == [state : {"none", "open", "closed", "deleted"}, from : Int, to : Int,
        rate : Nat, principal : Nat, interest : Nat]
NoRow == [state |-> "none", from |-> NoDay, to |-> NoDay, rate |-> 0,
          principal |-> 0, interest |-> 0]

DebtPayment == [before : Nat, after : Nat, principal : Nat, interest : Nat]

\* Mutant: the difference, as if every stretch ended after it starts.
DaysSigned(from, to) == to - from

\* daysBetween: the distance of two days, whichever comes first.
Days(from, to) == IF from <= to THEN to - from ELSE from - to

\* The interest of a stretch.  (Named apart so that proofs need not open it.)
Interest(principal, r, days) == principal * r * days

OpenRow(from, r, principal) ==
    [state |-> "open", from |-> from, to |-> NoDay, rate |-> r,
     principal |-> principal, interest |-> 0]

ClosedRow(from, to, r, principal) ==
    [state |-> "closed", from |-> from, to |-> to, rate |-> r, principal |-> principal,
     interest |-> Interest(principal, r, Days(from, to))]

OnFile(table) == {p \in Period : table[p].state \in {"open", "closed"}}
Free(table) == {p \in Period : table[p].state = "none"}

\* find(p => !p.endDate) over the rows, latest start first.
ActiveIn(table) ==
    {p \in Period : /\ table[p].state = "open"
                    /\ \A q \in Period : table[q].state = "open" => table[q].from <= table[p].from}

Snapshot == [start : Int, sold : Int, rate : Nat, calc : Calc, debt : Debt,
             periods : [Period -> Row]]
Seen == [start |-> start, sold |-> sold, rate |-> rate, calc |-> calc, debt |-> debt,
         periods |-> periods]

\* canAccrueWithoutPeriods
AccruesWithoutPeriods(s) ==
    s.debt.status # "PAID_OFF" \/ (s.calc.state = "stopped" /\ s.calc.at # NoDay)

\* implicitAccrualEndDate
SoldOr(s, day) == IF s.sold # NoDay THEN s.sold ELSE day
AccrualEnd(s, day) ==
    IF s.calc.state = "stopped" /\ s.calc.at # NoDay /\ s.calc.at < SoldOr(s, day)
    THEN s.calc.at ELSE SoldOr(s, day)

\* buildImplicitClosedPeriod: what a car without rows has accrued up to a day,
\* or NoRow when it has no start date or the stretch is empty.
ImplicitClosed(s, to) ==
    IF s.start = NoDay \/ to < s.start THEN NoRow
    ELSE ClosedRow(s.start, to, s.rate, Cost)

\* Mutant: the stretch is closed at today even if the calculation was stopped.
ImplicitRowToToday(s, day) ==
    IF s.calc.state = "stopped" THEN ImplicitClosed(s, day) ELSE OpenRow(s.start, s.rate, Cost)

\* buildImplicitDisplayPeriod and implicitPeriodWriteFields.
ImplicitRow(s, day) ==
    IF s.calc.state = "stopped" /\ s.calc.at # NoDay
    THEN ImplicitClosed(s, AccrualEnd(s, day))
    ELSE IF AccrualEnd(s, day) < s.start THEN NoRow ELSE OpenRow(s.start, s.rate, Cost)
-----------------------------------------------------------------------------
Idle == [op |-> "idle"]

\* A request: the snapshot, the day it was made, the day it is dated, its rate,
\* and for a payment the split of its amount.
Request(op, day, date, r) ==
    [op |-> op, seen |-> Seen, day |-> day, date |-> date, rate |-> r]

PayRequest(op, date, left, accrued, principal, interest) ==
    [op |-> op, seen |-> Seen, date |-> date, left |-> left, accrued |-> accrued,
     principal |-> principal, interest |-> interest]

DebtRequest(amount) == [op |-> "initializeDebt", amount |-> amount]
StockRequest(r, d) == [op |-> "updateStock", rate |-> r, start |-> d]

Requests ==
    {Idle}
    \cup [op : {"updateRate", "stop", "resume", "initialize", "initializeRate", "materialize",
                "recalculate"}, seen : Snapshot, day : Int, date : Int, rate : Nat]
    \cup [op : {"payDebt"}, seen : Snapshot, date : Int, left : Nat, accrued : Nat,
          principal : Nat, interest : Nat]
    \cup [op : {"initializeDebt"}, amount : Nat]
    \cup [op : {"updateStock"}, rate : Nat, start : Int]

Quiet(w) == Overlap \/ \A v \in Worker \ {w} : inflight[v] = Idle

Begin(w, r) ==
    /\ inflight[w] = Idle
    /\ Quiet(w)
    /\ inflight' = [inflight EXCEPT ![w] = r]
    /\ UNCHANGED <<today, carVars, periods, payments>>

Finish(w) == inflight' = [inflight EXCEPT ![w] = Idle]

\* The transaction throws (a row it updates by id is gone) or the process dies.
FailRequest(w) ==
    /\ inflight[w] # Idle
    /\ Finish(w)
    /\ UNCHANGED <<today, carVars, periods, payments>>

\* Dates a request may carry: today by default.
Dates == {d \in 0..(LastDay + 1) : \E k \in Shifts : d = today + k}

\* Insert an open row and, unless it is NoRow, a closed one.
File(table, closed, open) ==
    \E p \in Free(table) :
       \/ closed = NoRow /\ periods' = [table EXCEPT ![p] = open]
       \/ /\ closed # NoRow
          /\ \E q \in Free(table) \ {p} :
                periods' = [table EXCEPT ![p] = open, ![q] = closed]

FileClosed(table, closed) ==
    \/ closed = NoRow /\ periods' = table
    \/ /\ closed # NoRow
       /\ \E p \in Free(table) : periods' = [table EXCEPT ![p] = closed]

\* interestPeriod.update by id, with the interest computed from the row as read.
ClosedAt(s, a, to) ==
    [periods EXCEPT ![a] =
        ClosedRow(s.periods[a].from, to, s.periods[a].rate, s.periods[a].principal)]
-----------------------------------------------------------------------------
\* updateInterestRate: the effective date is not compared with anything.
BeginUpdateRate(w, d, r) ==
    /\ "updateRate" \in Ops
    /\ calc.state = "running"
    /\ debt.status # "PAID_OFF"
    /\ Begin(w, Request("updateRate", today, d, r))

CommitUpdateRate(w) ==
    LET r == inflight[w]
        s == r.seen
        open == OpenRow(r.date, r.rate, Cost)
    IN
    /\ r.op = "updateRate"
    /\ \/ \E a \in ActiveIn(s.periods) :
             /\ a \in OnFile(periods)
             /\ File(ClosedAt(s, a, r.date - 1), NoRow, open)
       \/ /\ ActiveIn(s.periods) = {}
          /\ File(periods, IF OnFile(s.periods) = {} THEN ImplicitClosed(s, r.date - 1)
                           ELSE NoRow, open)
    /\ rate' = r.rate
    /\ UNCHANGED <<today, start, sold, calc, debt, payments>>
    /\ Finish(w)

\* resolveStopPeriodSource: the active row, or the implicit stretch of a car
\* without rows; otherwise nothing is closed.
ImplicitSource(s) == OnFile(s.periods) = {} /\ s.debt.status # "PAID_OFF" /\ s.start # NoDay

\* stopInterestCalculation: a stop date, when given, lies between the start of
\* what it closes and today.
BeginStop(w, d) ==
    /\ "stop" \in Ops
    /\ d # today => /\ d <= today
                    /\ \A a \in ActiveIn(periods) : periods[a].from <= d
                    /\ ImplicitSource(Seen) => start <= d
    /\ Begin(w, Request("stop", today, d, 0))

\* Mutant: the closing row is left to the next reader.
CommitStopOnly(w) ==
    LET r == inflight[w] IN
    /\ r.op = "stop"
    /\ calc' = StoppedAt(r.date)
    /\ UNCHANGED <<today, start, sold, rate, debt, periods, payments>>
    /\ Finish(w)

CommitStop(w) ==
    LET r == inflight[w]
        s == r.seen
    IN
    /\ r.op = "stop"
    /\ \/ \E a \in ActiveIn(s.periods) :
             a \in OnFile(periods) /\ periods' = ClosedAt(s, a, r.date)
       \/ /\ ActiveIn(s.periods) = {}
          /\ FileClosed(periods, IF ImplicitSource(s) THEN ClosedRow(s.start, r.date, s.rate, Cost)
                                 ELSE NoRow)
    /\ calc' = StoppedAt(r.date)
    /\ UNCHANGED <<today, start, sold, rate, debt, payments>>
    /\ Finish(w)

\* Mutant: nobody asks whether the calculation is stopped.
BeginResumeUnchecked(w, d, r) ==
    /\ "resume" \in Ops
    /\ debt.status # "PAID_OFF"
    /\ d <= today
    /\ Begin(w, Request("resume", today, d, r))

\* resumeInterestCalculation: any start date but a future one.
BeginResume(w, d, r) ==
    /\ "resume" \in Ops
    /\ calc.state = "stopped"
    /\ debt.status # "PAID_OFF"
    /\ d <= today
    /\ Begin(w, Request("resume", today, d, r))

CommitResume(w) ==
    LET r == inflight[w]
        s == r.seen
        until == IF s.calc.at # NoDay THEN s.calc.at ELSE r.date - 1
    IN
    /\ r.op = "resume"
    /\ File(periods, IF OnFile(s.periods) = {} THEN ImplicitClosed(s, until) ELSE NoRow,
            OpenRow(r.date, r.rate, Cost))
    /\ calc' = Running
    /\ rate' = r.rate
    /\ UNCHANGED <<today, start, sold, debt, payments>>
    /\ Finish(w)

\* initializeInterestPeriod asks only that there is no row, not whether the
\* calculation is stopped.  The insert and the update of the car's rate are two
\* statements; the process may die between them.
BeginInitialize(w, d, r) ==
    /\ "initialize" \in Ops
    /\ OnFile(periods) = {}
    /\ Begin(w, Request("initialize", today, d, r))

CommitInitialize(w) ==
    LET r == inflight[w] IN
    /\ r.op = "initialize"
    /\ File(periods, NoRow, OpenRow(r.date, r.rate, Cost))
    /\ inflight' = [inflight EXCEPT ![w].op = "initializeRate"]
    /\ UNCHANGED <<today, carVars, payments>>

CommitInitializeRate(w) ==
    LET r == inflight[w] IN
    /\ r.op = "initializeRate"
    /\ rate' = r.rate
    /\ UNCHANGED <<today, start, sold, calc, debt, periods, payments>>
    /\ Finish(w)

\* materializeImplicitHistoryPeriod, for a detail page that read no rows.
BeginMaterialize(w) ==
    /\ "materialize" \in Ops
    /\ OnFile(periods) = {}
    /\ rate > 0 /\ start # NoDay
    /\ AccruesWithoutPeriods(Seen)
    /\ ImplicitRow(Seen, today) # NoRow
    /\ Begin(w, Request("materialize", today, today, 0))

CommitMaterialize(w) ==
    LET r == inflight[w] IN
    /\ r.op = "materialize"
    /\ \/ OnFile(periods) # {} /\ UNCHANGED periods
       \/ /\ OnFile(periods) = {}
          /\ \E p \in Free(periods) :
                periods' = [periods EXCEPT ![p] = ImplicitRow(r.seen, r.day)]
    /\ UNCHANGED <<today, carVars, payments>>
    /\ Finish(w)

\* recalculateInterestPeriods: days and interest of every row that was closed
\* when read; one that is gone makes the transaction fail.
BeginRecalculate(w) ==
    /\ "recalculate" \in Ops
    /\ Begin(w, Request("recalculate", today, today, 0))

Recomputed(now, was) ==
    IF was.state # "closed" THEN now
    ELSE [state |-> now.state, from |-> now.from, to |-> now.to, rate |-> now.rate,
          principal |-> now.principal,
          interest |-> Interest(was.principal, was.rate, Days(was.from, was.to))]

CommitRecalculate(w) ==
    LET s == inflight[w].seen IN
    /\ inflight[w].op = "recalculate"
    /\ \A p \in Period : s.periods[p].state = "closed" => p \in OnFile(periods)
    /\ periods' = [p \in Period |-> Recomputed(periods[p], s.periods[p])]
    /\ UNCHANGED <<today, carVars, payments>>
    /\ Finish(w)

\* deleteInterestPeriod: any row may go.
DeletePeriod(p) ==
    /\ "deletePeriod" \in Ops
    /\ Overlap \/ \A v \in Worker : inflight[v] = Idle
    /\ p \in OnFile(periods)
    /\ periods' = [periods EXCEPT ![p] = [state |-> "deleted", from |-> NoDay, to |-> NoDay,
                                          rate |-> 0, principal |-> 0, interest |-> 0]]
    /\ UNCHANGED <<today, carVars, payments, inflight>>
-----------------------------------------------------------------------------
\* initializeDebt: a debt of 0 is accepted, and may be started again.
BeginInitializeDebt(w, amount) ==
    /\ "initializeDebt" \in Ops
    /\ debt.status = "NO_DEBT" \/ debt.amount = 0
    /\ Begin(w, DebtRequest(amount))

CommitInitializeDebt(w) ==
    LET r == inflight[w] IN
    /\ r.op = "initializeDebt"
    /\ debt' = [status |-> "ACTIVE", amount |-> r.amount, paid |-> 0,
                interest |-> debt.interest, left |-> r.amount]
    /\ UNCHANGED <<today, start, sold, rate, calc, periods, payments>>
    /\ Finish(w)

\* recordDebtPayment starts the debt of a financed car that has none.
InitsDebt(s) == s.debt.status = "NO_DEBT"
LeftBefore(s) == IF InitsDebt(s) THEN Cost ELSE s.debt.left

\* The interest due on a day: of the active row (of either, when two start on
\* one day) or, without rows, of the remaining debt since the start date.
AccruedAt(s, d) ==
    IF s.calc.state = "stopped" THEN {0}
    ELSE IF ActiveIn(s.periods) # {}
    THEN {Interest(s.periods[a].principal, s.periods[a].rate, Days(s.periods[a].from, d)) :
             a \in ActiveIn(s.periods)}
    ELSE IF OnFile(s.periods) = {} /\ s.start # NoDay
    THEN {Interest(LeftBefore(s), s.rate, Days(s.start, d))}
    ELSE {0}

\* PRINCIPAL_ONLY, INTEREST_ONLY, and AUTO: interest first.
Split(type, amount, left, accrued) ==
    CASE type = "PRINCIPAL_ONLY" -> [principal |-> amount, interest |-> 0]
      [] type = "INTEREST_ONLY"  -> [principal |-> 0, interest |-> amount]
      [] type = "AUTO" -> IF amount >= accrued
                          THEN [principal |-> amount - accrued, interest |-> accrued]
                          ELSE [principal |-> 0, interest |-> amount]

Payable(type, amount, left, accrued) ==
    CASE type = "PRINCIPAL_ONLY" -> amount <= left
      [] type = "INTEREST_ONLY"  -> amount <= accrued
      [] type = "AUTO"           -> amount <= left + accrued

BeginPayDebt(w, d, type, amount) ==
    LET left == LeftBefore(Seen) IN
    /\ "payDebt" \in Ops /\ Len(payments) < MaxPayments
    /\ debt.status # "PAID_OFF"
    /\ debt.status = "NO_DEBT" => Financed
    /\ \E accrued \in AccruedAt(Seen, d) :
          LET split == Split(type, amount, left, accrued) IN
          /\ Payable(type, amount, left, accrued)
          /\ Begin(w, PayRequest("payDebt", d, left, accrued, split.principal, split.interest))

\* Paid off once at most one satang is left.
PaysOff(r) == r.left - r.principal <= 1

\* Mutant: the whole payment counts as principal paid.
DebtAfterWhole(r) ==
    [status   |-> IF PaysOff(r) THEN "PAID_OFF"
                  ELSE IF InitsDebt(r.seen) THEN "ACTIVE" ELSE debt.status,
     amount   |-> IF InitsDebt(r.seen) THEN Cost ELSE debt.amount,
     paid     |-> r.seen.debt.paid + r.principal + r.interest,
     interest |-> r.seen.debt.interest + r.interest,
     left     |-> r.left - r.principal]

DebtAfter(r) ==
    [status   |-> IF PaysOff(r) THEN "PAID_OFF"
                  ELSE IF InitsDebt(r.seen) THEN "ACTIVE" ELSE debt.status,
     amount   |-> IF InitsDebt(r.seen) THEN Cost ELSE debt.amount,
     paid     |-> r.seen.debt.paid + r.principal,
     interest |-> r.seen.debt.interest + r.interest,
     left     |-> r.left - r.principal]

\* What the payment does to the rows: paid off, the accrual is closed on the
\* payment date; a part of the principal, it goes on from the next day on what
\* is left, unless it is stopped.
PayRows(r) ==
    LET s == r.seen
        a == ActiveIn(s.periods)
    IN
    \/ /\ PaysOff(r)
       /\ \/ \E p \in a : p \in OnFile(periods) /\ periods' = ClosedAt(s, p, r.date)
          \/ /\ a = {}
             /\ FileClosed(periods, IF OnFile(s.periods) = {} THEN ImplicitClosed(s, r.date)
                                    ELSE NoRow)
    \/ /\ ~PaysOff(r) /\ r.principal > 0 /\ s.calc.state = "running"
       /\ \/ \E p \in a :
                /\ p \in OnFile(periods)
                /\ File(ClosedAt(s, p, r.date), NoRow,
                        OpenRow(r.date + 1, s.periods[p].rate, r.left - r.principal))
          \/ a = {} /\ File(periods, NoRow, OpenRow(r.date + 1, s.rate, r.left - r.principal))
    \/ /\ ~PaysOff(r) /\ (r.principal = 0 \/ s.calc.state = "stopped")
       /\ UNCHANGED periods

\* recordDebtPayment, the transaction.
CommitPayDebt(w) ==
    LET r == inflight[w] IN
    /\ r.op = "payDebt"
    /\ payments' = Append(payments, [before |-> r.left, after |-> r.left - r.principal,
                                     principal |-> r.principal, interest |-> r.interest])
    /\ debt' = DebtAfter(r)
    /\ PayRows(r)
    /\ calc' = IF PaysOff(r) THEN StoppedAt(r.date) ELSE calc
    /\ UNCHANGED <<today, start, sold, rate>>
    /\ Finish(w)
-----------------------------------------------------------------------------
\* stock.service.ts#updateStock: the rate and the dates on the stock form, until
\* the car is sold; the rows are left alone.
BeginUpdateStock(w, r, d) ==
    /\ "updateStock" \in Ops
    /\ sold = NoDay
    /\ Begin(w, StockRequest(r, d))

CommitUpdateStock(w) ==
    LET r == inflight[w] IN
    /\ r.op = "updateStock"
    /\ rate' = r.rate /\ start' = r.start
    /\ UNCHANGED <<today, sold, calc, debt, periods, payments>>
    /\ Finish(w)

\* sales.service.ts#updateSaleStatus: the car is delivered.
Deliver ==
    /\ "deliver" \in Ops
    /\ Overlap \/ \A v \in Worker : inflight[v] = Idle
    /\ sold = NoDay /\ sold' = today
    /\ UNCHANGED <<today, start, rate, calc, debt, periods, payments, inflight>>

NextDay ==
    /\ today < LastDay
    /\ today' = today + 1
    /\ UNCHANGED <<carVars, periods, payments, inflight>>

Init ==
    /\ today = 0 /\ sold = NoDay
    /\ start \in Starts \cup {NoDay} /\ rate \in Rates
    /\ calc = Running /\ debt = NoDebt
    /\ periods = [p \in Period |-> NoRow]
    /\ payments = <<>>
    /\ inflight = [w \in Worker |-> Idle]

Periods(w) ==
    \/ \E d \in Dates, r \in Rates : \/ BeginUpdateRate(w, d, r)
                                     \/ BeginResume(w, d, r)
    \/ \E d \in (Dates \cup {start}) \ {NoDay}, r \in Rates : BeginInitialize(w, d, r)
    \/ \E d \in Dates : BeginStop(w, d)
    \/ CommitUpdateRate(w) \/ CommitStop(w) \/ CommitResume(w)
    \/ CommitInitialize(w) \/ CommitInitializeRate(w)
    \/ BeginMaterialize(w) \/ CommitMaterialize(w)
    \/ BeginRecalculate(w) \/ CommitRecalculate(w)

DebtSteps(w) ==
    \/ \E n \in Amounts \cup {0} : BeginInitializeDebt(w, n)
    \/ CommitInitializeDebt(w)
    \/ \E d \in Dates, t \in {"AUTO", "PRINCIPAL_ONLY", "INTEREST_ONLY"}, n \in Amounts :
          BeginPayDebt(w, d, t, n)
    \/ CommitPayDebt(w)

Next ==
    \/ \E w \in Worker : \/ Periods(w)
                         \/ DebtSteps(w)
                         \/ \E r \in Rates, d \in Starts \cup {NoDay} : BeginUpdateStock(w, r, d)
                         \/ CommitUpdateStock(w)
                         \/ FailRequest(w)
    \/ \E p \in Period : DeletePeriod(p)
    \/ Deliver
    \/ NextDay

Spec == Init /\ [][Next]_vars
-----------------------------------------------------------------------------
\* What the pages show.  A car without rows: the list and the statistics count
\* the days between its start date and the end of its accrual whichever comes
\* first, the detail page shows nothing when the start is the later one.
Accruing == calc.state = "running" /\ debt.status # "PAID_OFF"

InState(state) == {p \in Period : periods[p].state = state}

ClosedTotal == SumFunction([p \in InState("closed") |-> periods[p].interest])

OpenInterest(p, day) ==
    Interest(periods[p].principal, periods[p].rate, Days(periods[p].from, day))

\* (Of one of them, when two active rows start on one day.)
ActiveInterest(day) ==
    IF ActiveIn(periods) = {} THEN 0
    ELSE CHOOSE n \in {OpenInterest(p, day) : p \in ActiveIn(periods)} : TRUE

Implicit(principal) ==
    IF OnFile(periods) = {} /\ AccruesWithoutPeriods(Seen) /\ start # NoDay
    THEN Interest(principal, rate, Days(start, AccrualEnd(Seen, today))) ELSE 0

\* resolveStockInterestDisplay, for the list and the report: every closed row,
\* and the open one while interest is calculated.
Displayed ==
    ClosedTotal + (IF Accruing THEN ActiveInterest(SoldOr(Seen, today)) ELSE 0) + Implicit(Cost)

\* getStockInterestDetail: every open row runs until today, stopped or not.
Detailed ==
    ClosedTotal
    + SumFunction([p \in InState("open") |-> OpenInterest(p, today)])
    + (IF start <= AccrualEnd(Seen, today) THEN Implicit(Cost) ELSE 0)

\* getInterestStats, the car's part of the total: the open row runs until today.
Counted ==
    IF OnFile(periods) = {} /\ debt.status = "PAID_OFF" THEN 0
    ELSE ClosedTotal + ActiveInterest(today) + Implicit(Cost)

\* getDebtSummary: the interest that has accrued, on the debt that remains.
Remaining ==
    IF Financed /\ debt.status = "NO_DEBT" /\ debt.amount = 0 THEN Cost - debt.paid
    ELSE debt.left
Summarised == ClosedTotal + ActiveInterest(today) + Implicit(Remaining)
-----------------------------------------------------------------------------
\* The tables and the requests keep their types.
TypeOK ==
    /\ today \in 0..LastDay
    /\ start \in Int /\ sold \in Int /\ rate \in Nat
    /\ calc \in Calc /\ debt \in Debt
    /\ periods \in [Period -> Row]
    /\ payments \in Seq(DebtPayment)
    /\ inflight \in [Worker -> Requests]

\* A car has one running period at most, and none once its calculation is
\* stopped or its debt paid off: the list shows one open row, the handlers close
\* only one, and resuming adds one.
OneOpenPeriod ==
    /\ \A p, q \in Period : periods[p].state = "open" /\ periods[q].state = "open" => p = q
    /\ calc.state = "stopped" => \A p \in Period : periods[p].state # "open"
    /\ debt.status = "PAID_OFF" => calc.state = "stopped"

\* Whatever is stopped, resumed, dated back, paid, deleted or read, in any order,
\* that is lost in one way only: a car whose calculation is stopped is given a
\* first period, which initializeInterestPeriod does not refuse.
InitializesStopped ==
    calc.state = "stopped"
    /\ \E w \in Worker : inflight[w].op = "initialize" /\ inflight'[w].op = "initializeRate"
PeriodStep == OneOpenPeriod => OneOpenPeriod' \/ InitializesStopped
OnlyInitializeRunsTwo == [][PeriodStep]_vars

\* The interest of a list of payments.
InterestOf(list) ==
    LET upTo[i \in 0..Len(list)] == IF i = 0 THEN 0 ELSE upTo[i - 1] + list[i].interest
    IN  upTo[Len(list)]

\* The car's debt is what its payment rows say: each starts from what the one
\* before left, the last leaves remainingDebt, and paid and remaining add up to
\* the debt.  A debt of 0 may be started again: after payments that were made
\* towards it, of interest alone, the next starts from the whole new debt.
DebtBooks ==
    LET whole(i) == i = 0 \/ payments[i].before = 0 IN
    /\ debt.paid + debt.left = debt.amount
    /\ \A i \in 1..Len(payments) :
          /\ payments[i].before = payments[i].after + payments[i].principal
          /\ IF whole(i - 1) THEN payments[i].before \in {0, debt.amount}
             ELSE payments[i].before = payments[i - 1].after
    /\ debt.left = IF whole(Len(payments)) THEN debt.amount ELSE payments[Len(payments)].after
    /\ debt.interest = InterestOf(payments)

\* Stopping the interest of a car as of today, by hand or by paying off its debt,
\* loses none of what it has accrued and adds none, whether the running period is
\* a row or the implicit one, which must then be written: the list shows the same
\* amount before and after, and so does the detail page, unless the start date is
\* still ahead.  (interest.stop.ts: otherwise "the accrual silently disappears".)
\* When two rows run from one day on, the list may show another than the one
\* that is closed.
StoppingStep ==
    /\ calc.state = "running" /\ calc' = StoppedAt(today) /\ sold = NoDay
    /\ \A p, q \in ActiveIn(periods) : p = q
    => /\ Displayed' = Displayed
       /\ start <= today => Detailed' = Detailed
StoppingKeepsInterest == [][StoppingStep]_vars

\* Opening the detail page of a car writes a row.  The list shows the same
\* interest afterwards; so do the statistics, unless the car was sold while its
\* interest ran, or paid off; and so does the debt summary, unless it was sold
\* while its interest ran, or the debt that remains is not the whole cost.
NeutralStep ==
    (\E w \in Worker : inflight[w].op = "materialize" /\ inflight'[w] = Idle)
       => /\ Displayed' = Displayed
          /\ sold = NoDay \/ calc.state = "stopped" =>
                /\ debt.status # "PAID_OFF" => Counted' = Counted
                /\ Remaining = Cost => Summarised' = Summarised
ReadingIsNeutral == [][NeutralStep]_vars

=============================================================================
