------------------------ MODULE PaymentLedgerProofs ------------------------
(***************************************************************************)
(* Theorems about PaymentLedger, for every set of receipts, amounts, terms *)
(* and workers.                                                            *)
(*                                                                         *)
(* The balance stays explained whatever payment requests overlap, as long  *)
(* as nobody changes the terms of the sale meanwhile.  That nobody         *)
(* overpays, and that paidAmount moves only with the receipts, need the    *)
(* requests on a sale not to overlap, new receipts excepted: then what a   *)
(* request has read still holds when it commits (Fresh).  From the last of *)
(* these, and what a sum over the receipts does when one of them changes,  *)
(* paidAmount is the sum of the receipts.                                  *)
(***************************************************************************)
EXTENDS PaymentLedger, FiniteSetTheorems, WellFoundedInduction, TLAPS

Edits == {"updatePayment", "voidPayment"}

-----------------------------------------------------------------------------
LEMMA CountedType == \A a \in Nat, type \in PaymentTypes : Counted(a, type) \in Nat
  BY DEF Counted

LEMMA ReceiptType ==
  \A a \in Nat, type \in PaymentTypes, saleId \in SaleIds :
     Receipt(a, type, saleId) \in PaymentRow
  BY DEF Receipt, PaymentRow

\* The op of a request tells what else it carries.
LEMMA RequestKinds ==
  ASSUME NEW r \in Request
  PROVE  /\ r.op = "idle" => r = Idle
         /\ r.op = "createPayment" => r \in NewReceipt
         /\ r.op \in Edits => r \in ReceiptEdit
         /\ r.op = "updateSale" => r \in NewTerms
         /\ r.op \in {"idle", "createPayment", "updatePayment", "voidPayment", "updateSale"}
  BY DEF Request, Idle, NewReceipt, ReceiptEdit, NewTerms, Edits

LEMMA EditType ==
  ASSUME TypeOK, NEW p \in Payment, NEW op \in Edits,
         NEW a \in Nat, NEW type \in PaymentTypes, NEW diff \in Int
  PROVE  Edit(op, p, a, type, diff) \in ReceiptEdit
<1>1. Unread \in Seen
  BY DEF Unread, Seen
<1>2. pay[p].saleId \in SaleIds
  BY DEF TypeOK, PaymentRow
<1>3. QED BY <1>1, <1>2 DEF Edit, ReceiptEdit, Edits

LEMMA VoidingType ==
  ASSUME TypeOK, NEW p \in Payment
  PROVE  Voiding(p) \in ReceiptEdit
<1>1. pay[p].amount \in Nat /\ pay[p].type \in PaymentTypes
  BY DEF TypeOK, PaymentRow
<1>2. QED BY <1>1, EditType, CountedType DEF Voiding, Edits

\* Whatever handler begins, it leaves a request of its kind.
LEMMA BeginType ==
  ASSUME TypeOK, NEW w \in Worker, BeginSome(w)
  PROVE  \E r \in Request : Begin(w, r)
<1> USE AmountsAssumption
<1>1. ASSUME NEW t \in Totals, NEW f \in Fees, NEW d \in Deposits, BeginUpdateSale(w, t, f, d)
      PROVE  \E r \in Request : Begin(w, r)
  <2>1. t + f - paid \in Int
    BY DEF TypeOK
  <2>2. Terms(t, f, d) \in NewTerms
    BY <2>1 DEF Terms, NewTerms
  <2>3. QED BY <1>1, <2>2 DEF BeginUpdateSale, Request
<1>2. ASSUME NEW a \in Amounts, NEW type \in PaymentTypes, NEW saleId \in SaleIds,
             BeginCreatePayment(w, a, type, saleId)
      PROVE  \E r \in Request : Begin(w, r)
  BY <1>2 DEF BeginCreatePayment, Request, NewReceipt
<1>3. ASSUME NEW p \in Payment, NEW a \in Amounts, NEW type \in PaymentTypes,
             BeginUpdatePayment(w, p, a, type)
      PROVE  \E r \in Request : Begin(w, r)
  <2>1. /\ Counted(a, type) \in Nat
        /\ Counted(pay[p].amount, pay[p].type) \in Nat
    BY CountedType DEF TypeOK, PaymentRow
  <2> DEFINE e == Edit("updatePayment", p, a, type,
                       Counted(a, type) - Counted(pay[p].amount, pay[p].type))
  <2>2. e \in ReceiptEdit
    BY <2>1, EditType DEF Edits
  <2>3. Begin(w, e)
    BY <1>3 DEF BeginUpdatePayment
  <2> HIDE DEF e
  <2>4. QED BY <2>2, <2>3 DEF Request
<1>4. ASSUME NEW p \in Payment, BeginVoidPayment(w, p)
      PROVE  \E r \in Request : Begin(w, r)
  BY <1>4, VoidingType DEF BeginVoidPayment, Request
<1>5. QED
  BY <1>1, <1>2, <1>3, <1>4 DEF BeginSome

LEMMA IdleType == Idle \in Request
  BY DEF Request

\* What the transaction reads fits its request.
LEMMA ReadType ==
  ASSUME TypeOK, NEW r \in ReceiptEdit
  PROVE  Now \in Seen /\ [r EXCEPT !.seen = Now] \in ReceiptEdit
<1>1. Now \in Seen
  BY DEF TypeOK, Now, Seen, due
<1>2. QED BY <1>1 DEF ReceiptEdit

\* Settling writes integers.
LEMMA SettleType ==
  ASSUME TypeOK, NEW r \in ReceiptEdit, Settle(r)
  PROVE  paid' \in Int /\ remaining' \in Int
  BY DEF TypeOK, ReceiptEdit, Seen, Settle

LEMMA StepTyped == TypeOK /\ [Next]_vars => TypeOK'
<1> SUFFICES ASSUME TypeOK, [Next]_vars
             PROVE  TypeOK'
  OBVIOUS
<1> USE IdleType, AmountsAssumption DEF TypeOK, SaleRows
<1>1. CASE OpenSale
  <2>1. ASSUME NEW t \in Totals, NEW f \in Fees, NEW d \in Deposits, CreateSale(t, f, d)
        PROVE  TypeOK'
    BY <2>1 DEF CreateSale
  <2>2. ASSUME NEW t \in Totals, NEW d \in Deposits, NEW p \in Payment, ConvertToSale(t, d, p)
        PROVE  TypeOK'
    BY <2>2, ReceiptType DEF ConvertToSale, PaymentTypes, SaleIds
  <2>3. QED BY <1>1, <2>1, <2>2 DEF OpenSale
<1>2. CASE DeleteSale
  <2>1. pay' \in [Payment -> PaymentRow]
    BY <1>2 DEF DeleteSale, PaymentRow, SaleIds
  <2>2. QED BY <1>2, <2>1 DEF DeleteSale
<1>3. ASSUME NEW w \in Worker, BeginSome(w) PROVE TypeOK'
  <2>1. PICK r \in Request : Begin(w, r)
    BY <1>3, BeginType
  <2>2. QED BY <2>1 DEF Begin, saleVars
<1>4. ASSUME NEW w \in Worker, ReadBalance(w) PROVE TypeOK'
  <2> DEFINE q == [inflight[w] EXCEPT !.seen = Now]
  <2>1. inflight[w] \in ReceiptEdit
    BY <1>4, RequestKinds DEF ReadBalance, Edits
  <2>2. q \in Request
    BY <2>1, ReadType DEF Request
  <2>3. inflight' = [inflight EXCEPT ![w] = q] /\ UNCHANGED <<saleVars, pay>>
    BY <1>4 DEF ReadBalance
  <2> HIDE DEF q
  <2>4. QED BY <2>2, <2>3 DEF saleVars
<1>5. ASSUME NEW w \in Worker, CommitSome(w) PROVE TypeOK'
  <2> DEFINE r == inflight[w]
  <2>0. r \in Request
    OBVIOUS
  <2>1. inflight' = [inflight EXCEPT ![w] = Idle]
    BY <1>5 DEF CommitSome, CommitUpdateSale, CommitCreatePayment, CommitUpdatePayment,
                CommitVoidPayment, Finish
  <2>2. inflight' \in [Worker -> Request]
    BY <2>1
  <2>3. CASE CommitUpdateSale(w)
    <3>1. r \in NewTerms
      BY <2>0, <2>3, RequestKinds DEF CommitUpdateSale
    <3>2. QED BY <3>1, <2>2, <2>3 DEF CommitUpdateSale, NewTerms
  <2>4. ASSUME NEW p \in Payment, CommitCreatePayment(w, p) PROVE TypeOK'
    <3>1. r \in NewReceipt
      BY <2>0, <2>4, RequestKinds DEF CommitCreatePayment
    <3>2. r.amount \in Nat /\ r.type \in PaymentTypes /\ r.saleId \in SaleIds
      BY <3>1 DEF NewReceipt
    <3>3. pay' \in [Payment -> PaymentRow]
      BY <3>2, <2>4, ReceiptType DEF CommitCreatePayment
    <3>4. QED
      BY <3>2, <3>3, <2>2, <2>4 DEF CommitCreatePayment, terms, due
  <2>5. CASE CommitUpdatePayment(w)
    <3>1. r \in ReceiptEdit
      BY <2>0, <2>5, RequestKinds DEF CommitUpdatePayment, Edits
    <3>2. r.pay \in Payment /\ Amended(pay[r.pay], r) \in PaymentRow
      BY <3>1 DEF Amended, PaymentRow, ReceiptEdit
    <3>3. pay' \in [Payment -> PaymentRow]
      BY <3>2, <2>5 DEF CommitUpdatePayment
    <3>4. QED
      BY <3>1, <3>3, <2>2, <2>5, SettleType DEF CommitUpdatePayment, terms
  <2>6. CASE CommitVoidPayment(w)
    <3>1. r \in ReceiptEdit
      BY <2>0, <2>6, RequestKinds DEF CommitVoidPayment, Edits
    <3>2. r.pay \in Payment /\ [pay[r.pay] EXCEPT !.status = "VOIDED"] \in PaymentRow
      BY <3>1 DEF PaymentRow, ReceiptEdit
    <3>3. pay' \in [Payment -> PaymentRow]
      BY <3>2, <2>6 DEF CommitVoidPayment
    <3>4. QED
      BY <3>1, <3>3, <2>2, <2>6, SettleType DEF CommitVoidPayment, terms
  <2>7. QED
    BY <1>5, <2>3, <2>4, <2>5, <2>6 DEF CommitSome
<1>6. ASSUME NEW w \in Worker, FailRequest(w) PROVE TypeOK'
  BY <1>6 DEF FailRequest, Finish, saleVars
<1>7. CASE UNCHANGED vars
  BY <1>7 DEF vars
<1>8. QED
  BY <1>1, <1>2, <1>3, <1>4, <1>5, <1>6, <1>7 DEF Next

LEMMA InitTyped == Init => TypeOK
  BY IdleType DEF Init, TypeOK, NoRow, PaymentRow, SaleRows, PaymentTypes, SaleIds

LEMMA AlwaysTyped == Spec => []TypeOK
<1>1. QED BY InitTyped, StepTyped, PTL DEF Spec

\* Every reachable state is well typed, whatever overlaps.
THEOREM LedgerTypeCorrect == Spec => []TypeOK
<1>1. QED BY AlwaysTyped, PTL
-----------------------------------------------------------------------------
(***************************************************************************)
(* Payments overlap, the terms of the sale do not change.                  *)
(***************************************************************************)

\* What a transaction saw of the amount due is still due.
DueFresh(r) ==
    /\ r.op # "updateSale"
    /\ r.op \in Edits /\ r.seen.row = "PRESENT" =>
          saleRow # "NONE" /\ (Present => r.seen.due = due)

AllDueFresh == \A w \in Worker : DueFresh(inflight[w])

PaymentsInv == TypeOK /\ BalanceExplained /\ AllDueFresh

LEMMA BeginDueFresh ==
  ASSUME TypeOK, "updateSale" \notin Ops, NEW w \in Worker, BeginSome(w)
  PROVE  \E r \in Request : Begin(w, r) /\ DueFresh(r)
<1>1. PICK r \in Request : Begin(w, r)
  BY BeginType
<1>2. r.op # "updateSale"
  BY <1>1 DEF Begin
<1>3. r.op \in Edits => r.seen.row = "unread"
  <2>1. ASSUME NEW q, Begin(w, q) PROVE q = r
    <3>1. inflight'[w] = r /\ inflight'[w] = q
      BY <1>1, <2>1 DEF Begin, TypeOK
    <3>2. QED BY <3>1
  <2>2. ASSUME NEW t \in Totals, NEW f \in Fees, NEW d \in Deposits, BeginUpdateSale(w, t, f, d)
        PROVE  FALSE
    BY <2>2 DEF BeginUpdateSale, Begin, Terms
  <2>3. ASSUME NEW a \in Amounts, NEW type \in PaymentTypes, NEW saleId \in SaleIds,
               BeginCreatePayment(w, a, type, saleId)
        PROVE  r.op = "createPayment"
    BY <2>1, <2>3 DEF BeginCreatePayment
  <2>4. ASSUME NEW p \in Payment, NEW a \in Amounts, NEW type \in PaymentTypes,
               BeginUpdatePayment(w, p, a, type)
        PROVE  r.seen = Unread
    BY <2>1, <2>4 DEF BeginUpdatePayment, Edit
  <2>5. ASSUME NEW p \in Payment, BeginVoidPayment(w, p)
        PROVE  r.seen = Unread
    BY <2>1, <2>5 DEF BeginVoidPayment, Voiding, Edit
  <2>6. QED BY <2>2, <2>3, <2>4, <2>5 DEF BeginSome, Unread, Edits
<1>4. QED BY <1>1, <1>2, <1>3 DEF DueFresh

LEMMA IdleDueFresh == DueFresh(Idle)
  BY DEF DueFresh, Idle, Edits

LEMMA PaymentsStep ==
  ASSUME "updateSale" \notin Ops
  PROVE  PaymentsInv /\ [Next]_vars => PaymentsInv'
<1> SUFFICES ASSUME PaymentsInv, [Next]_vars
             PROVE  BalanceExplained' /\ AllDueFresh'
  BY StepTyped DEF PaymentsInv
<1> USE DEF PaymentsInv
<1>0. TypeOK'
  BY StepTyped
<1>1. CASE OpenSale
  <2>1. saleRow = "NONE" /\ UNCHANGED inflight
    BY <1>1 DEF OpenSale, CreateSale, ConvertToSale
  <2>2. AllDueFresh'
    BY <2>1 DEF AllDueFresh, DueFresh, Present
  <2>3. BalanceExplained'
    <3>1. ASSUME NEW t \in Totals, NEW f \in Fees, NEW d \in Deposits, CreateSale(t, f, d)
          PROVE  BalanceExplained'
      <4>1. t \in Int /\ f \in Int /\ d \in Int
        BY AmountsAssumption
      <4>2. due' = t + f /\ paid' = 0 /\ remaining' = t + f - d /\ deposit' = d
        BY <3>1, <4>1 DEF CreateSale, due
      <4>3. QED BY <4>1, <4>2 DEF BalanceExplained
    <3>2. ASSUME NEW t \in Totals, NEW d \in Deposits, NEW p \in Payment, ConvertToSale(t, d, p)
          PROVE  BalanceExplained'
      <4>1. t \in Int /\ d \in Int
        BY AmountsAssumption
      <4>2. due' = t /\ paid' = d /\ remaining' = t - d
        BY <3>2, <4>1 DEF ConvertToSale, due
      <4>3. QED BY <4>2 DEF BalanceExplained
    <3>3. QED BY <1>1, <3>1, <3>2 DEF OpenSale
  <2>4. QED BY <2>2, <2>3
<1>2. CASE DeleteSale
  BY <1>2 DEF DeleteSale, BalanceExplained, AllDueFresh, DueFresh, Present
<1>3. ASSUME NEW w \in Worker, BeginSome(w) PROVE BalanceExplained' /\ AllDueFresh'
  <2>1. PICK r \in Request : Begin(w, r) /\ DueFresh(r)
    BY <1>3, BeginDueFresh
  <2>2. UNCHANGED <<saleVars, pay>> /\ inflight' = [inflight EXCEPT ![w] = r]
    BY <2>1 DEF Begin
  <2>3. \A v \in Worker : inflight'[v] = IF v = w THEN r ELSE inflight[v]
    BY <2>2 DEF TypeOK
  <2>4. QED
    BY <2>1, <2>2, <2>3 DEF AllDueFresh, DueFresh, BalanceExplained, saleVars, Present, due
<1>4. ASSUME NEW w \in Worker, ReadBalance(w) PROVE BalanceExplained' /\ AllDueFresh'
  <2> DEFINE q == [inflight[w] EXCEPT !.seen = Now]
  <2>1. inflight[w] \in ReceiptEdit
    BY <1>4, RequestKinds DEF ReadBalance, Edits, TypeOK
  <2>2. q.op = inflight[w].op /\ q.seen = Now
    BY <2>1 DEF ReceiptEdit
  <2>3. UNCHANGED <<saleVars, pay>> /\ inflight' = [inflight EXCEPT ![w] = q]
    BY <1>4 DEF ReadBalance
  <2> HIDE DEF q
  <2>4. \A v \in Worker : inflight'[v] = IF v = w THEN q ELSE inflight[v]
    BY <2>3 DEF TypeOK
  <2>5. DueFresh(q)
    BY <2>2 DEF DueFresh, Now, AllDueFresh, Present
  <2>6. QED
    BY <2>3, <2>4, <2>5 DEF AllDueFresh, DueFresh, BalanceExplained, saleVars, Present, due
<1>5. ASSUME NEW w \in Worker, CommitSome(w) PROVE BalanceExplained' /\ AllDueFresh'
  <2> DEFINE r == inflight[w]
  <2>0. r \in Request /\ DueFresh(r)
    BY DEF TypeOK, AllDueFresh
  <2>1. ~CommitUpdateSale(w)
    BY <2>0 DEF CommitUpdateSale, DueFresh
  <2>2. /\ inflight' = [inflight EXCEPT ![w] = Idle]
        /\ UNCHANGED terms
    BY <1>5, <2>1 DEF CommitSome, CommitCreatePayment, CommitUpdatePayment,
                      CommitVoidPayment, Finish
  <2>3. \A v \in Worker : inflight'[v] = IF v = w THEN Idle ELSE inflight[v]
    BY <2>2 DEF TypeOK
  <2>4. AllDueFresh'
    BY <2>2, <2>3, IdleDueFresh DEF AllDueFresh, DueFresh, terms, Present, due, Idle, Edits
  <2>5. ASSUME NEW p \in Payment, CommitCreatePayment(w, p) PROVE BalanceExplained'
    BY <2>2, <2>5 DEF CommitCreatePayment, BalanceExplained, Present, terms, due, TypeOK
  <2>6. ASSUME r \in ReceiptEdit, Settle(r) PROVE BalanceExplained'
    <3>1. Present /\ r.seen.row = "PRESENT" => r.seen.due = due
      BY <2>0, <2>6 DEF DueFresh, ReceiptEdit, Edits
    <3>2. r.diff \in Int /\ r.seen.paid \in Int
      BY <2>6 DEF ReceiptEdit, Seen
    <3>3. QED
      BY <3>1, <3>2, <2>2, <2>6 DEF Settle, BalanceExplained, Present, terms, due, TypeOK
  <2>7. CASE CommitUpdatePayment(w)
    <3>1. r \in ReceiptEdit
      BY <2>0, <2>7, RequestKinds DEF CommitUpdatePayment, Edits
    <3>2. Settle(r)
      BY <2>7 DEF CommitUpdatePayment
    <3>3. QED BY <2>4, <2>6, <3>1, <3>2
  <2>8. CASE CommitVoidPayment(w)
    <3>1. r \in ReceiptEdit
      BY <2>0, <2>8, RequestKinds DEF CommitVoidPayment, Edits
    <3>2. Settle(r)
      BY <2>8 DEF CommitVoidPayment
    <3>3. QED BY <2>4, <2>6, <3>1, <3>2
  <2>9. QED
    BY <1>5, <2>1, <2>4, <2>5, <2>7, <2>8 DEF CommitSome
<1>6. ASSUME NEW w \in Worker, FailRequest(w) PROVE BalanceExplained' /\ AllDueFresh'
  <2>1. UNCHANGED <<saleVars, pay>> /\ inflight' = [inflight EXCEPT ![w] = Idle]
    BY <1>6 DEF FailRequest, Finish
  <2>2. \A v \in Worker : inflight'[v] = IF v = w THEN Idle ELSE inflight[v]
    BY <2>1 DEF TypeOK
  <2>3. QED
    BY <2>1, <2>2 DEF AllDueFresh, DueFresh, BalanceExplained, saleVars, Present, due, Idle, Edits
<1>7. CASE UNCHANGED vars
  BY <1>7 DEF vars, AllDueFresh, DueFresh, BalanceExplained, Present, due
<1>8. QED
  BY <1>1, <1>2, <1>3, <1>4, <1>5, <1>6, <1>7 DEF Next

\* However the requests that issue, correct and void receipts overlap, the
\* balance of a sale whose terms nobody changes is the one the code states, or
\* still the one it was created with.
THEOREM PaymentsKeepTheBalance ==
  ASSUME "updateSale" \notin Ops
  PROVE  Spec => []BalanceExplained
<1>1. Init => PaymentsInv
  BY InitTyped DEF Init, PaymentsInv, BalanceExplained, AllDueFresh, DueFresh, Present, Idle, Edits
<1>2. PaymentsInv /\ [Next]_vars => PaymentsInv'
  BY PaymentsStep
<1>3. PaymentsInv => BalanceExplained
  BY DEF PaymentsInv
<1>4. QED BY <1>1, <1>2, <1>3, PTL DEF Spec
-----------------------------------------------------------------------------
(***************************************************************************)
(* Requests on the sale do not overlap, new receipts excepted.             *)
(***************************************************************************)

\* By how much an edit of a receipt moves what it contributes.
Change(r, row) ==
    IF r.op = "voidPayment"
    THEN 0 - Counted(row.amount, row.type)
    ELSE Counted(r.amount, r.type) - Counted(row.amount, row.type)

\* What the request to edit a receipt has read still holds.
EditFresh(r) ==
    /\ pay[r.pay].status = "ACTIVE"
    /\ pay[r.pay].saleId = "sale" => r.saleId = "sale"
    /\ r.saleId = "sale" => saleRow # "NONE" /\ (Present => pay[r.pay].saleId = "sale")
    /\ r.diff = Change(r, pay[r.pay])
    /\ r.saleId = "sale" /\ Present /\ r.diff > 0 => r.diff <= remaining
    /\ r.saleId = "sale" /\ Present /\ r.seen.row # "unread" => r.seen = Now

\* So does what the request to change the terms has read.
TermsFresh(r) ==
    /\ saleRow # "NONE"
    /\ Present => IF r.balance = "recalculate"
                  THEN r.remaining = r.total + r.fees - paid /\ r.remaining >= 0
                  ELSE r.total = total /\ r.fees = fees /\ r.deposit = deposit

Fresh(r) ==
    /\ r.op \in Edits => EditFresh(r)
    /\ r.op = "updateSale" => TermsFresh(r)

AllFresh == \A w \in Worker : Fresh(inflight[w])

Quiet(r) == r.op \in {"idle", "createPayment"}

Alone ==
    \A v, w \in Worker : v # w =>
       \/ inflight[v] = Idle
       \/ inflight[w] = Idle
       \/ inflight[v].op = "createPayment" /\ inflight[w].op = "createPayment"

LinksPresent == \A p \in Payment : pay[p].saleId = "sale" => Present

BalanceSound ==
    BalanceExplained /\ NeverOverdrawn /\ (saleRow = "NONE" => paid = 0)

OrderlyLedger == TypeOK /\ LinksPresent /\ BalanceSound /\ Alone /\ AllFresh

LEMMA IdleQuiet == Quiet(Idle)
  BY DEF Quiet, Idle

\* While one request commits, the others carry nothing that can go stale.
LEMMA OthersQuiet ==
  ASSUME TypeOK, Alone, NEW w \in Worker, inflight[w] # Idle,
         NEW v \in Worker \ {w}
  PROVE  Quiet(inflight[v])
  BY IdleQuiet DEF Alone, Quiet

\* The balance leaves room for what the checks let through.
LEMMA Room ==
  ASSUME TypeOK, BalanceSound, Present
  PROVE  /\ remaining <= due - paid /\ due \in Nat
         /\ deposit <= total => 0 <= due - paid
  BY DEF TypeOK, BalanceSound, BalanceExplained, NeverOverdrawn, due

LEMMA BeginFresh ==
  ASSUME TypeOK, LinksPresent, NEW w \in Worker, BeginSome(w)
  PROVE  \E r \in Request : Begin(w, r) /\ Fresh(r)
<1> USE AmountsAssumption
<1>1. ASSUME NEW t \in Totals, NEW f \in Fees, NEW d \in Deposits, BeginUpdateSale(w, t, f, d)
      PROVE  \E r \in Request : Begin(w, r) /\ Fresh(r)
  <2> DEFINE r == Terms(t, f, d)
  <2>1. t + f - paid \in Int
    BY DEF TypeOK
  <2>2. r \in NewTerms
    BY <2>1 DEF Terms, NewTerms
  <2>3. Begin(w, r) /\ Present /\ (Changed(t, f, d) => t + f - paid >= 0)
    BY <1>1 DEF BeginUpdateSale
  <2>4. /\ r.op = "updateSale" /\ r.total = t /\ r.fees = f /\ r.deposit = d
        /\ r.remaining = t + f - paid
        /\ r.balance = IF Changed(t, f, d) THEN "recalculate" ELSE "keep"
    BY DEF Terms
  <2> HIDE DEF r
  <2>5. TermsFresh(r)
    BY <2>3, <2>4 DEF TermsFresh, Changed, Present
  <2>6. QED BY <2>2, <2>3, <2>4, <2>5 DEF Request, Fresh, Edits
<1>2. ASSUME NEW a \in Amounts, NEW type \in PaymentTypes, NEW saleId \in SaleIds,
             BeginCreatePayment(w, a, type, saleId)
      PROVE  \E r \in Request : Begin(w, r) /\ Fresh(r)
  BY <1>2 DEF BeginCreatePayment, Request, NewReceipt, Fresh, Edits
<1>3. ASSUME NEW p \in Payment, NEW op \in Edits, NEW a \in Nat, NEW type \in PaymentTypes,
             NEW diff \in Int, Begin(w, Edit(op, p, a, type, diff)),
             pay[p].status = "ACTIVE",
             pay[p].saleId = "sale" /\ diff > 0 => diff <= remaining,
             diff = Change(Edit(op, p, a, type, diff), pay[p])
      PROVE  \E r \in Request : Begin(w, r) /\ Fresh(r)
  <2> DEFINE r == Edit(op, p, a, type, diff)
  <2>1. r \in ReceiptEdit
    BY EditType
  <2>2. /\ r.op \in Edits /\ r.pay = p /\ r.saleId = pay[p].saleId /\ r.diff = diff
        /\ r.seen.row = "unread"
    BY DEF Edit, Unread
  <2>3. Begin(w, r) /\ diff = Change(r, pay[p])
    BY <1>3
  <2> HIDE DEF r
  <2>4. EditFresh(r)
    BY <1>3, <2>2, <2>3 DEF EditFresh, LinksPresent, Present
  <2>5. QED BY <2>1, <2>2, <2>3, <2>4 DEF Request, Fresh, Edits
<1>4. \A p \in Payment : /\ pay[p].amount \in Nat /\ pay[p].type \in PaymentTypes
                          /\ Counted(pay[p].amount, pay[p].type) \in Nat
  BY CountedType DEF TypeOK, PaymentRow
<1>5. ASSUME NEW p \in Payment, NEW a \in Amounts, NEW type \in PaymentTypes,
             BeginUpdatePayment(w, p, a, type)
      PROVE  \E r \in Request : Begin(w, r) /\ Fresh(r)
  <2> DEFINE diff == Counted(a, type) - Counted(pay[p].amount, pay[p].type)
  <2>1. diff \in Int
    BY <1>4, CountedType
  <2>2. /\ pay[p].status = "ACTIVE"
        /\ pay[p].saleId = "sale" /\ diff > 0 => diff <= remaining
        /\ Begin(w, Edit("updatePayment", p, a, type, diff))
    BY <1>5 DEF BeginUpdatePayment
  <2>3. diff = Change(Edit("updatePayment", p, a, type, diff), pay[p])
    BY DEF Change, Edit
  <2> HIDE DEF diff
  <2>4. QED BY <1>3, <2>1, <2>2, <2>3 DEF Edits
<1>6. ASSUME NEW p \in Payment, BeginVoidPayment(w, p)
      PROVE  \E r \in Request : Begin(w, r) /\ Fresh(r)
  <2> DEFINE diff == 0 - Counted(pay[p].amount, pay[p].type)
  <2>1. diff \in Int /\ ~(diff > 0)
    BY <1>4
  <2>2. /\ pay[p].status = "ACTIVE"
        /\ Begin(w, Edit("voidPayment", p, pay[p].amount, pay[p].type, diff))
    BY <1>6 DEF BeginVoidPayment, Voiding
  <2>3. diff = Change(Edit("voidPayment", p, pay[p].amount, pay[p].type, diff), pay[p])
    BY DEF Change, Edit
  <2> HIDE DEF diff
  <2>4. QED BY <1>3, <1>4, <2>1, <2>2, <2>3 DEF Edits
<1>7. QED
  BY <1>1, <1>2, <1>5, <1>6 DEF BeginSome

\* The transaction that edits or voids a receipt moves paidAmount by what the
\* receipt contributes, and the balance with it.
LEMMA EditCommit ==
  ASSUME OrderlyLedger, NEW w \in Worker, NEW row \in PaymentRow,
         inflight[w].op \in Edits, inflight[w].seen.row # "unread",
         Settle(inflight[w]), UNCHANGED terms,
         pay' = [pay EXCEPT ![inflight[w].pay] = row],
         row.saleId = pay[inflight[w].pay].saleId,
         Contribution(row) - Contribution(pay[inflight[w].pay]) =
            IF row.saleId = "sale" THEN inflight[w].diff ELSE 0
  PROVE  /\ inflight[w].pay \in Payment
         /\ LinksPresent' /\ BalanceSound'
         /\ saleRow # "DELETED" =>
               paid' - paid = Contribution(row) - Contribution(pay[inflight[w].pay])
<1> DEFINE r == inflight[w]
<1>0. r \in ReceiptEdit /\ EditFresh(r)
  BY RequestKinds DEF OrderlyLedger, TypeOK, AllFresh, Fresh
<1>1. r.pay \in Payment /\ r.diff \in Int
  BY <1>0 DEF ReceiptEdit
<1>2. paid \in Int /\ remaining \in Int /\ due \in Nat /\ due' = due /\ Present' = Present
      /\ saleRow' = saleRow /\ total' = total /\ deposit' = deposit
  BY DEF OrderlyLedger, TypeOK, terms, due, Present
<1>3. LinksPresent'
  BY <1>1, <1>2 DEF OrderlyLedger, TypeOK, LinksPresent
<1>4. CASE Present /\ r.saleId = "sale"
  <2>1. r.seen.row = "PRESENT" /\ r.seen.paid = paid /\ r.seen.due = due
    BY <1>0, <1>4 DEF EditFresh, Now, Present
  <2>2. row.saleId = "sale"
    BY <1>0, <1>4 DEF EditFresh
  <2>3. CASE r.diff = 0
    <3>1. paid' = paid /\ remaining' = remaining
      BY <2>3 DEF Settle, terms
    <3>2. BalanceSound'
      BY <3>1, <1>2 DEF OrderlyLedger, BalanceSound, BalanceExplained, NeverOverdrawn
    <3>3. QED BY <3>1, <3>2, <2>2, <2>3, <1>1, <1>2, <1>3
  <2>4. CASE r.diff # 0
    <3>1. paid' = paid + r.diff /\ remaining' = due - (paid + r.diff)
      BY <1>4, <2>1, <2>4 DEF Settle
    <3>2. deposit <= total => r.diff <= due - paid
      <4>1. remaining <= due - paid /\ (deposit <= total => 0 <= due - paid)
        BY <1>4, Room DEF OrderlyLedger
      <4>2. r.diff > 0 => r.diff <= remaining
        BY <1>0, <1>4 DEF EditFresh
      <4>3. QED BY <4>1, <4>2, <1>1, <1>2
    <3>3. remaining' = due' - paid' /\ (deposit <= total => remaining' >= 0)
      BY <3>1, <3>2, <1>1, <1>2
    <3>4. BalanceSound'
      BY <3>3, <1>2, <1>4 DEF BalanceSound, BalanceExplained, NeverOverdrawn, Present
    <3>5. paid' - paid = r.diff
      BY <3>1, <1>1, <1>2
    <3>6. QED BY <3>4, <3>5, <2>2, <1>1, <1>3
  <2>5. QED BY <2>3, <2>4
<1>5. CASE r.saleId # "sale"
  <2>1. paid' = paid /\ remaining' = remaining
    BY <1>5 DEF Settle, terms
  <2>2. row.saleId # "sale"
    BY <1>0, <1>5 DEF EditFresh
  <2>3. BalanceSound'
    BY <2>1, <1>2 DEF OrderlyLedger, BalanceSound, BalanceExplained, NeverOverdrawn
  <2>4. QED BY <2>1, <2>2, <2>3, <1>1, <1>2, <1>3
<1>6. CASE ~Present /\ r.saleId = "sale"
  <2>1. saleRow = "DELETED"
    BY <1>0, <1>6 DEF EditFresh, OrderlyLedger, TypeOK, SaleRows, Present
  <2>2. BalanceSound'
    BY <2>1, <1>2, <1>6 DEF BalanceSound, BalanceExplained, NeverOverdrawn
  <2>3. QED BY <2>1, <2>2, <1>1, <1>3
<1>7. QED BY <1>4, <1>5, <1>6

\* The row a correction or a voiding leaves behind.
LEMMA AmendedRow ==
  ASSUME OrderlyLedger, NEW w \in Worker, CommitUpdatePayment(w)
  PROVE  LET r == inflight[w]  row == Amended(pay[r.pay], r) IN
         /\ r.pay \in Payment /\ row \in PaymentRow /\ row.saleId = pay[r.pay].saleId
         /\ pay[r.pay].status = "ACTIVE"
         /\ Contribution(row) - Contribution(pay[r.pay]) =
               IF row.saleId = "sale" THEN r.diff ELSE 0
<1> DEFINE r == inflight[w]  old == pay[r.pay]  row == Amended(old, r)
<1>1. r.op = "updatePayment" /\ r \in ReceiptEdit /\ EditFresh(r)
  BY RequestKinds DEF OrderlyLedger, TypeOK, AllFresh, Fresh, CommitUpdatePayment, Edits
<1>2. r.pay \in Payment /\ r.amount \in Nat /\ r.type \in PaymentTypes
  BY <1>1 DEF ReceiptEdit
<1>3. old \in PaymentRow /\ old.amount \in Nat /\ old.type \in PaymentTypes
  BY <1>2 DEF OrderlyLedger, TypeOK, PaymentRow
<1>4. row \in PaymentRow /\ row.saleId = old.saleId /\ row.status = old.status
      /\ row.amount = r.amount /\ row.type = r.type
  BY <1>2, <1>3 DEF Amended, PaymentRow
<1>5. old.status = "ACTIVE" /\ r.diff = Counted(r.amount, r.type) - Counted(old.amount, old.type)
  BY <1>1 DEF EditFresh, Change
<1>6. Counted(r.amount, r.type) \in Nat /\ Counted(old.amount, old.type) \in Nat
  BY <1>2, <1>3, CountedType
<1> HIDE DEF old, row
<1>7. Contribution(row) - Contribution(old) = IF row.saleId = "sale" THEN r.diff ELSE 0
  BY <1>4, <1>5, <1>6 DEF Contribution
<1>8. QED BY <1>2, <1>4, <1>5, <1>7 DEF old, row

LEMMA VoidedRow ==
  ASSUME OrderlyLedger, NEW w \in Worker, CommitVoidPayment(w)
  PROVE  LET r == inflight[w]  row == [pay[r.pay] EXCEPT !.status = "VOIDED"] IN
         /\ r.pay \in Payment /\ row \in PaymentRow /\ row.saleId = pay[r.pay].saleId
         /\ pay[r.pay].status = "ACTIVE"
         /\ Contribution(row) - Contribution(pay[r.pay]) =
               IF row.saleId = "sale" THEN r.diff ELSE 0
<1> DEFINE r == inflight[w]  old == pay[r.pay]  row == [old EXCEPT !.status = "VOIDED"]
<1>1. r.op = "voidPayment" /\ r \in ReceiptEdit /\ EditFresh(r)
  BY RequestKinds DEF OrderlyLedger, TypeOK, AllFresh, Fresh, CommitVoidPayment, Edits
<1>2. r.pay \in Payment
  BY <1>1 DEF ReceiptEdit
<1>3. old \in PaymentRow /\ old.amount \in Nat /\ old.type \in PaymentTypes
  BY <1>2 DEF OrderlyLedger, TypeOK, PaymentRow
<1>4. row \in PaymentRow /\ row.saleId = old.saleId /\ row.status = "VOIDED"
  BY <1>3 DEF PaymentRow
<1>5. old.status = "ACTIVE" /\ r.diff = 0 - Counted(old.amount, old.type)
  BY <1>1 DEF EditFresh, Change
<1>6. Counted(old.amount, old.type) \in Nat
  BY <1>3, CountedType
<1> HIDE DEF old, row
<1>7. Contribution(row) - Contribution(old) = IF row.saleId = "sale" THEN r.diff ELSE 0
  BY <1>4, <1>5, <1>6 DEF Contribution
<1>8. QED BY <1>2, <1>4, <1>5, <1>7 DEF old, row

\* A new receipt counts what it says and fits the balance.
LEMMA CreateCommit ==
  ASSUME OrderlyLedger, NEW w \in Worker, NEW p \in Payment, CommitCreatePayment(w, p)
  PROVE  LET r == inflight[w]  row == Receipt(r.amount, r.type, r.saleId) IN
         /\ pay' = [pay EXCEPT ![p] = row] /\ pay[p].status = "NONE"
         /\ LinksPresent' /\ BalanceSound'
         /\ paid' - paid = Contribution(row) - Contribution(pay[p])
<1> DEFINE r == inflight[w]  row == Receipt(r.amount, r.type, r.saleId)
<1>1. r \in NewReceipt
  BY RequestKinds DEF OrderlyLedger, TypeOK, CommitCreatePayment
<1>2. r.amount \in Nat /\ r.type \in PaymentTypes /\ r.saleId \in SaleIds
  BY <1>1 DEF NewReceipt
<1>3. /\ Affordable(r.amount, r.type, r.saleId) /\ pay[p].status = "NONE"
      /\ pay' = [pay EXCEPT ![p] = row]
      /\ IF r.saleId = "sale" /\ r.type = "CAR"
         THEN paid' = paid + r.amount /\ remaining' = due - paid'
         ELSE UNCHANGED <<paid, remaining>>
      /\ UNCHANGED terms
  BY DEF CommitCreatePayment
<1>4. row.saleId = r.saleId /\ row.status = "ACTIVE" /\ row.amount = r.amount /\ row.type = r.type
  BY DEF Receipt
<1> HIDE DEF row
<1>5. paid \in Int /\ remaining \in Int /\ due \in Nat /\ due' = due /\ Present' = Present
      /\ saleRow' = saleRow /\ total' = total /\ deposit' = deposit
  BY <1>3 DEF OrderlyLedger, TypeOK, terms, due, Present
<1>6. LinksPresent'
  BY <1>3, <1>4, <1>5 DEF OrderlyLedger, TypeOK, LinksPresent, Affordable
<1>7. Contribution(pay[p]) = 0
  BY <1>3 DEF Contribution
<1>8. CASE r.saleId = "sale" /\ r.type = "CAR"
  <2>1. Present /\ r.amount <= remaining /\ remaining <= due - paid
    BY <1>3, <1>8, Room DEF Affordable, OrderlyLedger
  <2>2. paid' = paid + r.amount /\ remaining' = due - paid'
    BY <1>3, <1>8
  <2>3. remaining' = due' - paid' /\ remaining' >= 0
    BY <2>1, <2>2, <1>2, <1>5
  <2>4. BalanceSound'
    BY <2>1, <2>3, <1>5 DEF BalanceSound, BalanceExplained, NeverOverdrawn, Present
  <2>5. Contribution(row) = r.amount
    BY <1>4, <1>8 DEF Contribution, Counted
  <2>6. paid' - paid = Contribution(row) - Contribution(pay[p])
    BY <2>2, <2>5, <1>2, <1>5, <1>7
  <2>7. QED BY <2>4, <2>6, <1>3, <1>6 DEF row
<1>9. CASE ~(r.saleId = "sale" /\ r.type = "CAR")
  <2>1. paid' = paid /\ remaining' = remaining
    BY <1>3, <1>9
  <2>2. BalanceSound'
    BY <2>1, <1>5 DEF OrderlyLedger, BalanceSound, BalanceExplained, NeverOverdrawn
  <2>3. Contribution(row) = 0
    BY <1>4, <1>9 DEF Contribution, Counted
  <2>4. QED BY <2>1, <2>2, <2>3, <1>3, <1>5, <1>6, <1>7 DEF row
<1>10. QED BY <1>8, <1>9

\* A commit takes one request off the list; the others carry nothing stale.
LEMMA CommitLeavesFresh ==
  ASSUME TypeOK, Alone, NEW w \in Worker, inflight[w] # Idle,
         inflight' = [inflight EXCEPT ![w] = Idle]
  PROVE  Alone' /\ AllFresh'
<1>1. \A v \in Worker : inflight'[v] = IF v = w THEN Idle ELSE inflight[v]
  BY DEF TypeOK
<1>2. \A v \in Worker : Quiet(inflight'[v])
  BY <1>1, OthersQuiet, IdleQuiet
<1>3. AllFresh'
  BY <1>2 DEF AllFresh, Fresh, Quiet, Edits
<1>4. Alone'
  BY <1>1 DEF Alone
<1>5. QED BY <1>3, <1>4

\* A new request is alone with its kind, and has just read what it carries.
LEMMA BeginKeepsAlone ==
  ASSUME TypeOK, Alone, SaleOverlap = FALSE, NEW w \in Worker, NEW r, Begin(w, r)
  PROVE  Alone'
<1>1. inflight' = [inflight EXCEPT ![w] = r] /\ \A v \in Worker \ {w} :
          inflight[v] = Idle \/ (inflight[v].op = "createPayment" /\ r.op = "createPayment")
  BY DEF Begin
<1>2. \A v \in Worker : inflight'[v] = IF v = w THEN r ELSE inflight[v]
  BY <1>1 DEF TypeOK
<1>3. QED BY <1>1, <1>2 DEF Alone

\* While the rows stay, so does what a request has read.
LEMMA FreshStays ==
  ASSUME UNCHANGED <<saleVars, pay>>, NEW r
  PROVE  Fresh(r)' <=> Fresh(r)
<1>1. /\ saleRow' = saleRow /\ total' = total /\ fees' = fees /\ deposit' = deposit
      /\ paid' = paid /\ remaining' = remaining /\ pay' = pay
  BY DEF saleVars
<1>2. QED BY <1>1 DEF Fresh, EditFresh, TermsFresh, Change, Now, due, Present

LEMMA SoundStays ==
  ASSUME UNCHANGED <<saleVars, pay>>, LinksPresent, BalanceSound
  PROVE  LinksPresent' /\ BalanceSound'
  BY DEF saleVars, LinksPresent, BalanceSound, BalanceExplained, NeverOverdrawn, Present, due

\* The insert of the sale meets no request that has read it.
LEMMA OpenKeepsOrder ==
  ASSUME OrderlyLedger, OpenSale
  PROVE  LinksPresent' /\ BalanceSound' /\ Alone' /\ AllFresh'
<1> USE DEF OrderlyLedger
<1>1. /\ saleRow = "NONE" /\ saleRow' = "PRESENT" /\ UNCHANGED inflight
      /\ \A p \in Payment : pay[p].status = "ACTIVE" => pay'[p] = pay[p]
  BY DEF OpenSale, CreateSale, ConvertToSale, TypeOK
<1>2. LinksPresent' /\ Alone'
  BY <1>1 DEF LinksPresent, Alone, Present
<1>3. AllFresh'
  <2> SUFFICES ASSUME NEW w \in Worker PROVE Fresh(inflight[w])'
    BY <1>1 DEF AllFresh
  <2> DEFINE r == inflight[w]
  <2>1. r \in Request /\ Fresh(r)
    BY DEF TypeOK, AllFresh
  <2>2. r.op # "updateSale"
    BY <2>1, <1>1 DEF Fresh, TermsFresh
  <2>3. CASE r.op \in Edits
    <3>1. r \in ReceiptEdit /\ EditFresh(r)
      BY <2>1, <2>3, RequestKinds DEF Fresh
    <3>2. r.pay \in Payment /\ r.saleId # "sale" /\ pay'[r.pay] = pay[r.pay]
      BY <3>1, <1>1 DEF EditFresh, ReceiptEdit
    <3>3. pay[r.pay].status = "ACTIVE" /\ pay[r.pay].saleId # "sale" /\ r.diff = Change(r, pay[r.pay])
      BY <3>1, <3>2 DEF EditFresh
    <3>4. EditFresh(r)'
      BY <3>2, <3>3, <1>1 DEF EditFresh
    <3>5. QED BY <3>4, <2>2, <1>1 DEF Fresh
  <2>4. QED BY <2>2, <2>3, <1>1 DEF Fresh
<1>4. BalanceSound'
  <2>1. ASSUME NEW t \in Totals, NEW f \in Fees, NEW d \in Deposits, CreateSale(t, f, d)
        PROVE  BalanceSound'
    <3>1. t \in Nat /\ f \in Nat /\ d \in Nat
      BY AmountsAssumption
    <3>2. due' = t + f /\ paid' = 0 /\ remaining' = t + f - d /\ deposit' = d /\ total' = t
      BY <2>1, <3>1 DEF CreateSale, due
    <3>3. QED BY <1>1, <3>1, <3>2 DEF BalanceSound, BalanceExplained, NeverOverdrawn
  <2>2. ASSUME NEW t \in Totals, NEW d \in Deposits, NEW p \in Payment, ConvertToSale(t, d, p)
        PROVE  BalanceSound'
    <3>1. t \in Nat /\ d \in Nat
      BY AmountsAssumption
    <3>2. due' = t /\ paid' = d /\ remaining' = t - d /\ deposit' = d /\ total' = t
      BY <2>2, <3>1 DEF ConvertToSale, due
    <3>3. QED BY <1>1, <3>1, <3>2 DEF BalanceSound, BalanceExplained, NeverOverdrawn
  <2>3. QED BY <2>1, <2>2 DEF OpenSale
<1>5. QED BY <1>2, <1>3, <1>4

\* The delete lets go of the receipts; requests in flight see it gone.
LEMMA DeleteKeepsOrder ==
  ASSUME OrderlyLedger, DeleteSale
  PROVE  LinksPresent' /\ BalanceSound' /\ Alone' /\ AllFresh'
<1> USE DEF OrderlyLedger
<1>1. /\ saleRow' = "DELETED" /\ ~Present' /\ UNCHANGED inflight
      /\ pay' = [p \in Payment |-> [pay[p] EXCEPT !.saleId = "null"]]
  BY DEF DeleteSale, Present
<1>2. \A p \in Payment : /\ pay'[p].saleId = "null" /\ pay'[p].status = pay[p].status
                          /\ pay'[p].amount = pay[p].amount /\ pay'[p].type = pay[p].type
  <2>1. \A p \in Payment : pay[p] \in PaymentRow
    BY DEF TypeOK
  <2>2. QED BY <1>1, <2>1 DEF PaymentRow
<1>3. LinksPresent' /\ BalanceSound' /\ Alone'
  BY <1>1, <1>2 DEF LinksPresent, BalanceSound, BalanceExplained, NeverOverdrawn, Alone
<1>4. AllFresh'
  <2> SUFFICES ASSUME NEW w \in Worker PROVE Fresh(inflight[w])'
    BY <1>1 DEF AllFresh
  <2> DEFINE r == inflight[w]
  <2>1. r \in Request /\ Fresh(r)
    BY DEF TypeOK, AllFresh
  <2>2. r.op = "updateSale" => TermsFresh(r)'
    BY <1>1 DEF TermsFresh
  <2>3. CASE r.op \in Edits
    <3>1. r \in ReceiptEdit /\ EditFresh(r)
      BY <2>1, <2>3, RequestKinds DEF Fresh
    <3>2. r.pay \in Payment
      BY <3>1 DEF ReceiptEdit
    <3>3. Change(r, pay'[r.pay]) = Change(r, pay[r.pay])
      BY <3>2, <1>2 DEF Change
    <3>4. EditFresh(r)'
      BY <3>1, <3>2, <3>3, <1>1, <1>2 DEF EditFresh
    <3>5. QED BY <3>4, <2>2, <1>1 DEF Fresh
  <2>4. QED BY <2>2, <2>3, <1>1 DEF Fresh
<1>5. QED BY <1>3, <1>4

LEMMA CommitKeepsOrder ==
  ASSUME OrderlyLedger, NEW w \in Worker, CommitSome(w)
  PROVE  LinksPresent' /\ BalanceSound' /\ Alone' /\ AllFresh'
<1> DEFINE r == inflight[w]
<1>1. r \in Request /\ Fresh(r)
  BY DEF OrderlyLedger, TypeOK, AllFresh
<1>2. r.op # "idle" /\ inflight' = [inflight EXCEPT ![w] = Idle]
  BY DEF CommitSome, CommitUpdateSale, CommitCreatePayment, CommitUpdatePayment,
         CommitVoidPayment, Finish
<1>3. r # Idle
  BY <1>2 DEF Idle
<1>4. Alone' /\ AllFresh'
  BY <1>2, <1>3, CommitLeavesFresh DEF OrderlyLedger
<1>5. CASE CommitUpdateSale(w)
  <2>1. r \in NewTerms /\ TermsFresh(r) /\ Present
    BY <1>1, <1>5, RequestKinds DEF CommitUpdateSale, Fresh
  <2>2. /\ total' = r.total /\ fees' = r.fees /\ deposit' = r.deposit /\ paid' = paid
        /\ remaining' = IF r.balance = "recalculate" THEN r.remaining ELSE remaining
        /\ UNCHANGED <<saleRow, pay>>
    BY <1>5 DEF CommitUpdateSale
  <2>3. LinksPresent'
    BY <2>2 DEF OrderlyLedger, LinksPresent, Present
  <2>4. CASE r.balance = "recalculate"
    <3>1. remaining' = due' - paid' /\ remaining' >= 0
      <4>1. /\ r.total \in Nat /\ r.fees \in Nat /\ paid \in Int /\ r.remaining \in Int
            /\ r.remaining = r.total + r.fees - paid /\ r.remaining >= 0
        BY <2>1, <2>4 DEF TermsFresh, NewTerms, OrderlyLedger, TypeOK
      <4>2. due' = r.total + r.fees /\ paid' = paid /\ remaining' = r.remaining
        BY <2>2, <2>4 DEF due
      <4>3. QED BY <4>1, <4>2
    <3>2. QED
      BY <3>1, <2>1, <2>2, <2>3, <1>4 DEF BalanceSound, BalanceExplained, NeverOverdrawn, Present
  <2>5. CASE r.balance # "recalculate"
    <3>1. due' = due /\ deposit' = deposit /\ total' = total /\ paid' = paid /\ remaining' = remaining
      BY <2>1, <2>2, <2>5 DEF TermsFresh, due
    <3>2. BalanceSound'
      BY <3>1, <2>1, <2>2 DEF OrderlyLedger, BalanceSound, BalanceExplained, NeverOverdrawn
    <3>3. QED BY <3>2, <2>3, <1>4
  <2>6. QED BY <2>4, <2>5
<1>6. ASSUME NEW p \in Payment, CommitCreatePayment(w, p)
      PROVE  LinksPresent' /\ BalanceSound'
  BY <1>6, CreateCommit
<1>7. CASE CommitUpdatePayment(w)
  <2>1. /\ r.op \in Edits /\ r.seen.row # "unread" /\ Settle(r) /\ UNCHANGED terms
        /\ pay' = [pay EXCEPT ![r.pay] = Amended(pay[r.pay], r)]
    BY <1>7 DEF CommitUpdatePayment, Edits
  <2>2. QED BY <1>4, <1>7, <2>1, AmendedRow, EditCommit
<1>8. CASE CommitVoidPayment(w)
  <2>1. /\ r.op \in Edits /\ r.seen.row # "unread" /\ Settle(r) /\ UNCHANGED terms
        /\ pay' = [pay EXCEPT ![r.pay] = [pay[r.pay] EXCEPT !.status = "VOIDED"]]
    BY <1>8 DEF CommitVoidPayment, Edits
  <2>2. QED BY <1>4, <1>8, <2>1, VoidedRow, EditCommit
<1>9. QED BY <1>4, <1>5, <1>6, <1>7, <1>8 DEF CommitSome

LEMMA OrderlyStep ==
  ASSUME SaleOverlap = FALSE
  PROVE  OrderlyLedger /\ [Next]_vars => OrderlyLedger'
<1> SUFFICES ASSUME OrderlyLedger, [Next]_vars
             PROVE  LinksPresent' /\ BalanceSound' /\ Alone' /\ AllFresh'
  BY StepTyped DEF OrderlyLedger
<1>1. CASE OpenSale
  BY <1>1, OpenKeepsOrder
<1>2. CASE DeleteSale
  BY <1>2, DeleteKeepsOrder
<1>3. ASSUME NEW w \in Worker, BeginSome(w)
      PROVE  LinksPresent' /\ BalanceSound' /\ Alone' /\ AllFresh'
  <2>1. PICK r \in Request : Begin(w, r) /\ Fresh(r)
    BY <1>3, BeginFresh DEF OrderlyLedger
  <2>2. UNCHANGED <<saleVars, pay>> /\ inflight' = [inflight EXCEPT ![w] = r]
    BY <2>1 DEF Begin
  <2>3. \A v \in Worker : inflight'[v] = r \/ inflight'[v] = inflight[v]
    BY <2>2 DEF OrderlyLedger, TypeOK
  <2>4. \A v \in Worker : Fresh(inflight'[v])
    BY <2>1, <2>3 DEF OrderlyLedger, AllFresh
  <2>5. AllFresh'
    BY <2>2, <2>4, FreshStays DEF AllFresh
  <2>6. QED BY <2>1, <2>2, <2>5, BeginKeepsAlone, SoundStays DEF OrderlyLedger
<1>4. ASSUME NEW w \in Worker, ReadBalance(w)
      PROVE  LinksPresent' /\ BalanceSound' /\ Alone' /\ AllFresh'
  <2> DEFINE r == inflight[w]  q == [r EXCEPT !.seen = Now]
  <2>1. r \in ReceiptEdit /\ EditFresh(r) /\ r.op \in Edits
    BY <1>4, RequestKinds DEF ReadBalance, Edits, OrderlyLedger, TypeOK, AllFresh, Fresh
  <2>2. /\ q.op = r.op /\ q.pay = r.pay /\ q.saleId = r.saleId /\ q.diff = r.diff
        /\ q.amount = r.amount /\ q.type = r.type /\ q.seen = Now
    BY <2>1 DEF ReceiptEdit
  <2>3. UNCHANGED <<saleVars, pay>> /\ inflight' = [inflight EXCEPT ![w] = q]
    BY <1>4 DEF ReadBalance
  <2> HIDE DEF q
  <2>4. Fresh(q)
    <3>1. \A row : Change(q, row) = Change(r, row)
      BY <2>2 DEF Change
    <3>2. EditFresh(q)
      BY <3>1, <2>1, <2>2 DEF EditFresh
    <3>3. QED BY <3>2, <2>1, <2>2 DEF Fresh, Edits
  <2>5. \A v \in Worker : inflight'[v] = IF v = w THEN q ELSE inflight[v]
    BY <2>3 DEF OrderlyLedger, TypeOK
  <2>6. AllFresh'
    BY <2>3, <2>4, <2>5, FreshStays DEF OrderlyLedger, AllFresh
  <2>7. r # Idle
    BY <2>1 DEF Idle, Edits
  <2>8. Alone'
    BY <2>1, <2>2, <2>5, <2>7 DEF OrderlyLedger, Alone, Edits
  <2>9. QED BY <2>3, <2>6, <2>8, SoundStays DEF OrderlyLedger
<1>5. ASSUME NEW w \in Worker, CommitSome(w)
      PROVE  LinksPresent' /\ BalanceSound' /\ Alone' /\ AllFresh'
  BY <1>5, CommitKeepsOrder
<1>6. ASSUME NEW w \in Worker, FailRequest(w)
      PROVE  LinksPresent' /\ BalanceSound' /\ Alone' /\ AllFresh'
  BY <1>6, CommitLeavesFresh, SoundStays DEF FailRequest, Finish, OrderlyLedger
<1>7. CASE UNCHANGED vars
  <2>1. UNCHANGED <<saleVars, pay>> /\ UNCHANGED inflight
    BY <1>7 DEF vars, saleVars
  <2>2. QED BY <2>1, SoundStays, FreshStays DEF OrderlyLedger, Alone, AllFresh
<1>8. QED
  BY <1>1, <1>2, <1>3, <1>4, <1>5, <1>6, <1>7 DEF Next

LEMMA AlwaysOrderly ==
  ASSUME SaleOverlap = FALSE
  PROVE  Spec => []OrderlyLedger
<1>1. Init => OrderlyLedger
  BY InitTyped DEF Init, OrderlyLedger, LinksPresent, BalanceSound, BalanceExplained,
     NeverOverdrawn, Present, Alone, AllFresh, Fresh, Idle, Edits, NoRow
<1>2. OrderlyLedger /\ [Next]_vars => OrderlyLedger'
  BY OrderlyStep
<1>3. QED BY <1>1, <1>2, PTL DEF Spec

\* With requests that do not overlap, new receipts excepted, nobody ever pays
\* more than is owed and the balance stays explained, through corrections,
\* voidings and changes of the terms.
THEOREM OrderlyBalance ==
  ASSUME SaleOverlap = FALSE
  PROVE  Spec => [](BalanceExplained /\ NeverOverdrawn)
<1>1. OrderlyLedger => BalanceExplained /\ NeverOverdrawn
  BY DEF OrderlyLedger, BalanceSound
<1>2. QED BY <1>1, AlwaysOrderly, PTL

\* What a step does to the receipts.
LEMMA ReceiptsMove ==
  ASSUME OrderlyLedger, Next, ~DeleteSale
  PROVE  \/ UNCHANGED <<paid, pay>>
         \/ \E p \in Payment, row \in PaymentRow :
               /\ pay' = [pay EXCEPT ![p] = row]
               /\ pay[p].status # "VOIDED"
               /\ saleRow' # "DELETED" =>
                     paid' - paid = Contribution(row) - Contribution(pay[p])
         \/ saleRow = "NONE" /\ paid' = 0 /\ UNCHANGED pay
         \/ \E p \in Payment, row \in PaymentRow :
               /\ saleRow = "NONE"
               /\ pay' = [pay EXCEPT ![p] = row]
               /\ pay[p].status = "NONE"
               /\ paid' = Contribution(row)
<1>1. CASE OpenSale
  <2>1. ASSUME NEW t \in Totals, NEW f \in Fees, NEW d \in Deposits, CreateSale(t, f, d)
        PROVE  saleRow = "NONE" /\ paid' = 0 /\ UNCHANGED pay
    BY <2>1 DEF CreateSale
  <2>2. ASSUME NEW t \in Totals, NEW d \in Deposits, NEW p \in Payment, ConvertToSale(t, d, p)
        PROVE  saleRow = "NONE" /\ (\/ paid' = 0 /\ UNCHANGED pay
                                    \/ \E row \in PaymentRow :
                                          /\ pay' = [pay EXCEPT ![p] = row]
                                          /\ pay[p].status = "NONE"
                                          /\ paid' = Contribution(row))
    <3> DEFINE row == Receipt(d, "CAR", "sale")
    <3>1. d \in Nat
      BY AmountsAssumption
    <3>2. row \in PaymentRow
      BY <3>1, ReceiptType DEF PaymentTypes, SaleIds
    <3>3. Contribution(row) = d
      BY DEF Receipt, Contribution, Counted
    <3>4. /\ saleRow = "NONE" /\ paid' = d
          /\ \/ d = 0 /\ pay' = pay
             \/ pay[p].status = "NONE" /\ pay' = [pay EXCEPT ![p] = row]
      BY <2>2 DEF ConvertToSale
    <3> HIDE DEF row
    <3>5. CASE d = 0 /\ pay' = pay
      BY <3>4, <3>5
    <3>6. CASE pay[p].status = "NONE" /\ pay' = [pay EXCEPT ![p] = row]
      <4>1. paid' = Contribution(row)
        BY <3>3, <3>4
      <4>2. QED BY <4>1, <3>2, <3>4, <3>6
    <3>7. QED BY <3>4, <3>5, <3>6
  <2>3. QED BY <1>1, <2>1, <2>2 DEF OpenSale
<1>2. ASSUME NEW w \in Worker, BeginSome(w) PROVE UNCHANGED <<paid, pay>>
  <2>1. PICK r \in Request : Begin(w, r)
    BY <1>2, BeginType DEF OrderlyLedger
  <2>2. QED BY <2>1 DEF Begin, saleVars
<1>3. ASSUME NEW w \in Worker, ReadBalance(w) \/ FailRequest(w) PROVE UNCHANGED <<paid, pay>>
  BY <1>3 DEF ReadBalance, FailRequest, saleVars
<1>4. ASSUME NEW w \in Worker, CommitUpdateSale(w) PROVE UNCHANGED <<paid, pay>>
  BY <1>4 DEF CommitUpdateSale
<1>5. ASSUME NEW w \in Worker, NEW p \in Payment, CommitCreatePayment(w, p)
      PROVE  \E row \in PaymentRow :
               /\ pay' = [pay EXCEPT ![p] = row]
               /\ pay[p].status # "VOIDED"
               /\ saleRow' # "DELETED" =>
                     paid' - paid = Contribution(row) - Contribution(pay[p])
  <2> DEFINE r == inflight[w]  row == Receipt(r.amount, r.type, r.saleId)
  <2>1. r \in NewReceipt
    BY <1>5, RequestKinds DEF OrderlyLedger, TypeOK, CommitCreatePayment
  <2>2. row \in PaymentRow
    BY <2>1, ReceiptType DEF NewReceipt
  <2>3. /\ pay' = [pay EXCEPT ![p] = row] /\ pay[p].status = "NONE"
        /\ paid' - paid = Contribution(row) - Contribution(pay[p])
    BY <1>5, CreateCommit
  <2> HIDE DEF row
  <2>4. QED BY <2>2, <2>3
<1>6. ASSUME NEW w \in Worker, CommitUpdatePayment(w) \/ CommitVoidPayment(w)
      PROVE  \E p \in Payment, row \in PaymentRow :
               /\ pay' = [pay EXCEPT ![p] = row]
               /\ pay[p].status # "VOIDED"
               /\ saleRow' # "DELETED" =>
                     paid' - paid = Contribution(row) - Contribution(pay[p])
  <2> DEFINE r == inflight[w]
  <2>0. saleRow' = saleRow
    BY <1>6 DEF CommitUpdatePayment, CommitVoidPayment, terms
  <2>1. ASSUME NEW row \in PaymentRow, pay' = [pay EXCEPT ![r.pay] = row],
               pay[r.pay].status = "ACTIVE", row.saleId = pay[r.pay].saleId,
               Contribution(row) - Contribution(pay[r.pay]) =
                  IF row.saleId = "sale" THEN r.diff ELSE 0,
               r.op \in Edits, r.seen.row # "unread", Settle(r), UNCHANGED terms
        PROVE  \E p \in Payment, q \in PaymentRow :
                 /\ pay' = [pay EXCEPT ![p] = q]
                 /\ pay[p].status # "VOIDED"
                 /\ saleRow' # "DELETED" =>
                       paid' - paid = Contribution(q) - Contribution(pay[p])
    BY <2>0, <2>1, EditCommit
  <2>2. CASE CommitUpdatePayment(w)
    <3>1. /\ r.op \in Edits /\ r.seen.row # "unread" /\ Settle(r) /\ UNCHANGED terms
          /\ pay' = [pay EXCEPT ![r.pay] = Amended(pay[r.pay], r)]
      BY <2>2 DEF CommitUpdatePayment, Edits
    <3>2. QED BY <2>1, <2>2, <3>1, AmendedRow
  <2>3. CASE CommitVoidPayment(w)
    <3>1. /\ r.op \in Edits /\ r.seen.row # "unread" /\ Settle(r) /\ UNCHANGED terms
          /\ pay' = [pay EXCEPT ![r.pay] = [pay[r.pay] EXCEPT !.status = "VOIDED"]]
      BY <2>3 DEF CommitVoidPayment, Edits
    <3>2. QED BY <2>1, <2>3, <3>1, VoidedRow
  <2>4. QED BY <1>6, <2>2, <2>3
<1>7. QED
  BY <1>1, <1>2, <1>3, <1>4, <1>5, <1>6 DEF Next, CommitSome

\* In orderly operation paidAmount moves with the receipts and never otherwise.
THEOREM PaidTracksReceipts ==
  ASSUME SaleOverlap = FALSE
  PROVE  Spec => PaidFollowsReceipts
<1>1. OrderlyLedger /\ Next => PaidFollowsStep
  <2> SUFFICES ASSUME OrderlyLedger, Next, saleRow' # "DELETED" PROVE PaidFollowsStep
    BY DEF PaidFollowsStep
  <2>1. pay \in [Payment -> PaymentRow] /\ paid \in Int /\ (saleRow = "NONE" => paid = 0)
    BY DEF OrderlyLedger, TypeOK, BalanceSound
  <2>2. CASE UNCHANGED <<paid, pay>>
    BY <2>2 DEF PaidFollowsStep
  <2>3. ASSUME NEW p \in Payment, NEW row \in PaymentRow,
               pay' = [pay EXCEPT ![p] = row],
               paid' - paid = Contribution(row) - Contribution(pay[p])
        PROVE  PaidFollowsStep
    <3>1. pay'[p] = row /\ \A q \in Payment \ {p} : pay'[q] = pay[q]
      BY <2>1, <2>3
    <3>2. QED BY <2>3, <3>1 DEF PaidFollowsStep
  <2>4. CASE saleRow = "NONE" /\ paid' = 0 /\ UNCHANGED pay
    BY <2>1, <2>4 DEF PaidFollowsStep
  <2>5. ASSUME NEW p \in Payment, NEW row \in PaymentRow, saleRow = "NONE",
               pay' = [pay EXCEPT ![p] = row], pay[p].status = "NONE", paid' = Contribution(row)
        PROVE  PaidFollowsStep
    <3>1. pay'[p] = row /\ \A q \in Payment \ {p} : pay'[q] = pay[q]
      BY <2>1, <2>5
    <3>2. Contribution(row) \in Int /\ Contribution(pay[p]) = 0 /\ paid = 0
      BY <2>1, <2>5, CountedType DEF Contribution, PaymentRow
    <3>3. paid' - paid = Contribution(pay'[p]) - Contribution(pay[p])
      BY <2>5, <3>1, <3>2
    <3>4. QED BY <3>1, <3>3 DEF PaidFollowsStep
  <2>6. ~DeleteSale
    BY DEF DeleteSale
  <2>7. QED BY <2>2, <2>3, <2>4, <2>5, <2>6, ReceiptsMove
<1>2. UNCHANGED vars => PaidFollowsStep
  BY DEF vars, PaidFollowsStep
<1>3. OrderlyLedger /\ [Next]_vars => [PaidFollowsStep]_vars
  BY <1>1, <1>2
<1>4. Spec => [][PaidFollowsStep]_vars
  BY <1>3, AlwaysOrderly, PTL DEF Spec
<1>5. QED BY <1>4 DEF PaidFollowsReceipts

-----------------------------------------------------------------------------
(***************************************************************************)
(* Sums over a finite set.  The library's fold is a CHOOSE of a recursive  *)
(* function on the subsets.  That the function exists, and every fact about*)
(* the sum, is shown by looking at a smallest subset for which it fails.   *)
(***************************************************************************)

\* The element the fold takes out of s, and the function that it recurses with.
Pick(s) == CHOOSE x \in s : TRUE
Unfolds(f, S, g) == g = [s \in SUBSET S |-> IF s = {} THEN 0 ELSE f[Pick(s)] + g[s \ {Pick(s)}]]

LEMMA SumIsFold ==
  ASSUME NEW f, NEW S
  PROVE  SumFunctionOnSet(f, S) = (CHOOSE g : Unfolds(f, S, g))[S]
BY DEF SumFunctionOnSet, FoldFunctionOnSet, MapThenFoldSet, Unfolds, Pick

\* A family of subsets of a finite set has a smallest member.
LEMMA SmallestSet ==
  ASSUME NEW S, IsFiniteSet(S), NEW B \in SUBSET (SUBSET S), B # {}
  PROVE  \E T \in B : \A U \in B : U \subseteq T => U = T
<1>1. B \subseteq FiniteSubsetsOf(S)
  BY FS_FiniteSubsetsOfFinite
<1>2. PICK T \in B : \A U \in B : ~(<<U, T>> \in StrictSubsetOrdering(S))
  BY <1>1, FS_StrictSubsetOrderingWellFounded, WFMin
<1>3. QED BY <1>2 DEF StrictSubsetOrdering

\* Wherever the fold is defined it gives a subset the subset's own sum.
Right(f, S) ==
    /\ \E g : Unfolds(f, S, g)
    /\ \A g, T : Unfolds(f, S, g) /\ T \subseteq S => g[T] = SumFunctionOnSet(f, T)

LEMMA FoldRestricted ==
  ASSUME NEW f, NEW S, NEW g, Unfolds(f, S, g), NEW T \in SUBSET S
  PROVE  Unfolds(f, T, [s \in SUBSET T |-> g[s]])
<1>1. \A s \in SUBSET T : s # {} => Pick(s) \in s
  BY DEF Pick
<1>2. \A s \in SUBSET T : s \in SUBSET S /\ s \ {Pick(s)} \in SUBSET T
  OBVIOUS
<1>3. \A s \in SUBSET T :
        g[s] = IF s = {} THEN 0 ELSE f[Pick(s)] + [u \in SUBSET T |-> g[u]][s \ {Pick(s)}]
  BY <1>2 DEF Unfolds
<1>4. QED BY <1>3 DEF Unfolds

LEMMA FoldExists ==
  ASSUME NEW f, NEW S, IsFiniteSet(S)
  PROVE  Right(f, S)
<1> DEFINE B == {T \in SUBSET S : ~Right(f, T)}
<1> SUFFICES ASSUME B # {} PROVE FALSE
  OBVIOUS
<1>0. B \in SUBSET (SUBSET S)
  OBVIOUS
<1> HIDE DEF B
<1>1. PICK T \in B : \A U \in B : U \subseteq T => U = T
  BY <1>0, SmallestSet
<1>2. T \in SUBSET S /\ ~Right(f, T) /\ \A U \in SUBSET T : U # T => Right(f, U)
  BY <1>0, <1>1 DEF B
<1>3. \A s \in SUBSET T : s # {} => Pick(s) \in s /\ s \ {Pick(s)} \in SUBSET T /\ s \ {Pick(s)} # T
  BY DEF Pick
<1>4. ASSUME NEW U \in SUBSET T, U # T
      PROVE  /\ SumFunctionOnSet(f, {}) = 0
             /\ U # {} => SumFunctionOnSet(f, U) = f[Pick(U)] + SumFunctionOnSet(f, U \ {Pick(U)})
  <2>1. PICK g : Unfolds(f, U, g)
    BY <1>2, <1>4 DEF Right
  <2>2. \A V \in SUBSET U : g[V] = SumFunctionOnSet(f, V)
    BY <1>2, <1>4, <2>1 DEF Right
  <2>3. \A V \in SUBSET U : g[V] = IF V = {} THEN 0 ELSE f[Pick(V)] + g[V \ {Pick(V)}]
    BY <2>1 DEF Unfolds
  <2>4. {} \in SUBSET U /\ U \in SUBSET U /\ U \ {Pick(U)} \in SUBSET U
    OBVIOUS
  <2>5. QED BY <2>2, <2>3, <2>4
<1> DEFINE h == [s \in SUBSET T |-> IF s = {} THEN 0 ELSE f[Pick(s)] + SumFunctionOnSet(f, s \ {Pick(s)})]
<1>5. \A s \in SUBSET T : s # T => h[s] = SumFunctionOnSet(f, s)
  BY <1>4
<1>6. Unfolds(f, T, h)
  <2>1. \A s \in SUBSET T : s # {} => h[s \ {Pick(s)}] = SumFunctionOnSet(f, s \ {Pick(s)})
    BY <1>3, <1>5
  <2>2. h = [s \in SUBSET T |-> IF s = {} THEN 0 ELSE f[Pick(s)] + h[s \ {Pick(s)}]]
    BY <2>1
  <2>3. QED BY <2>2 DEF Unfolds
<1>7. ASSUME NEW g, Unfolds(f, T, g)
      PROVE  \A U \in SUBSET T : U # T => g[U] = SumFunctionOnSet(f, U)
  <2>1. ASSUME NEW U \in SUBSET T, U # T PROVE g[U] = SumFunctionOnSet(f, U)
    <3>1. Unfolds(f, U, [s \in SUBSET U |-> g[s]])
      BY <1>7, FoldRestricted
    <3>2. Right(f, U)
      BY <1>2, <2>1
    <3>3. [s \in SUBSET U |-> g[s]][U] = SumFunctionOnSet(f, U)
      BY <3>1, <3>2 DEF Right
    <3>4. QED BY <3>3
  <2>2. QED BY <2>1
<1>8. ASSUME NEW g, Unfolds(f, T, g) PROVE g = h
  <2>1. g = [s \in SUBSET T |-> IF s = {} THEN 0 ELSE f[Pick(s)] + g[s \ {Pick(s)}]]
    BY <1>8 DEF Unfolds
  <2>2. \A s \in SUBSET T : s # {} => g[s \ {Pick(s)}] = SumFunctionOnSet(f, s \ {Pick(s)})
    BY <1>3, <1>7, <1>8
  <2>3. QED BY <2>1, <2>2
<1>9. SumFunctionOnSet(f, T) = h[T]
  <2>1. Unfolds(f, T, CHOOSE g : Unfolds(f, T, g))
    BY <1>6
  <2>2. QED BY <1>8, <2>1, SumIsFold
<1>10. Right(f, T)
  <2>1. \A g, U : Unfolds(f, T, g) /\ U \subseteq T => g[U] = SumFunctionOnSet(f, U)
    BY <1>5, <1>8, <1>9
  <2>2. QED BY <1>6, <2>1 DEF Right
<1>11. QED BY <1>2, <1>10

LEMMA SumUnfolds ==
  ASSUME NEW f, NEW S, IsFiniteSet(S)
  PROVE  SumFunctionOnSet(f, S)
         = IF S = {} THEN 0 ELSE f[Pick(S)] + SumFunctionOnSet(f, S \ {Pick(S)})
<1>0. Right(f, S)
  BY FoldExists
<1>1. PICK g : Unfolds(f, S, g)
  BY <1>0 DEF Right
<1>2. \A V \in SUBSET S : g[V] = SumFunctionOnSet(f, V)
  BY <1>0, <1>1 DEF Right
<1>3. g[S] = IF S = {} THEN 0 ELSE f[Pick(S)] + g[S \ {Pick(S)}]
  BY <1>1 DEF Unfolds
<1>4. QED BY <1>2, <1>3

LEMMA SumEmpty == ASSUME NEW f PROVE SumFunctionOnSet(f, {}) = 0
BY SumUnfolds, FS_EmptySet

LEMMA SumInt ==
  ASSUME NEW f, NEW S, IsFiniteSet(S), \A x \in S : f[x] \in Int
  PROVE  SumFunctionOnSet(f, S) \in Int
<1> DEFINE B == {T \in SUBSET S : SumFunctionOnSet(f, T) \notin Int}
<1> SUFFICES ASSUME B # {} PROVE FALSE
  BY DEF B
<1>0. B \in SUBSET (SUBSET S)
  OBVIOUS
<1> HIDE DEF B
<1>1. PICK T \in B : \A U \in B : U \subseteq T => U = T
  BY <1>0, SmallestSet
<1>2. T \in SUBSET S /\ IsFiniteSet(T) /\ SumFunctionOnSet(f, T) \notin Int
  BY <1>0, <1>1, FS_Subset DEF B
<1>3. T # {} /\ Pick(T) \in T
  BY <1>2, SumEmpty DEF Pick
<1>4. SumFunctionOnSet(f, T) = f[Pick(T)] + SumFunctionOnSet(f, T \ {Pick(T)})
  BY <1>2, <1>3, SumUnfolds
<1>5. SumFunctionOnSet(f, T \ {Pick(T)}) \in Int
  BY <1>1, <1>2, <1>3 DEF B
<1>6. QED BY <1>2, <1>3, <1>4, <1>5

\* Any element may be taken out first.
LEMMA SumTake ==
  ASSUME NEW f, NEW S, IsFiniteSet(S), \A x \in S : f[x] \in Int, NEW x \in S
  PROVE  SumFunctionOnSet(f, S) = f[x] + SumFunctionOnSet(f, S \ {x})
<1> DEFINE Takes(T) == \A y \in T : SumFunctionOnSet(f, T) = f[y] + SumFunctionOnSet(f, T \ {y})
           B == {T \in SUBSET S : ~Takes(T)}
<1> SUFFICES ASSUME B # {} PROVE FALSE
  BY DEF B
<1>0. B \in SUBSET (SUBSET S)
  OBVIOUS
<1> HIDE DEF B
<1>1. PICK T \in B : \A U \in B : U \subseteq T => U = T
  BY <1>0, SmallestSet
<1>2. T \in SUBSET S /\ IsFiniteSet(T) /\ ~Takes(T)
  BY <1>0, <1>1, FS_Subset DEF B
<1>3. \A U \in SUBSET T : U # T => Takes(U)
  BY <1>1, <1>2 DEF B
<1>4. PICK y \in T : SumFunctionOnSet(f, T) # f[y] + SumFunctionOnSet(f, T \ {y})
  BY <1>2
<1> DEFINE z == Pick(T)
<1>5. z \in T /\ SumFunctionOnSet(f, T) = f[z] + SumFunctionOnSet(f, T \ {z})
  BY <1>2, <1>4, SumUnfolds DEF Pick
<1> HIDE DEF z, Takes
<1>6. y # z
  BY <1>4, <1>5
<1>7. /\ SumFunctionOnSet(f, T \ {z}) = f[y] + SumFunctionOnSet(f, (T \ {z}) \ {y})
      /\ SumFunctionOnSet(f, T \ {y}) = f[z] + SumFunctionOnSet(f, (T \ {y}) \ {z})
  <2>1. Takes(T \ {z}) /\ Takes(T \ {y})
    BY <1>3, <1>4, <1>5
  <2>2. y \in T \ {z} /\ z \in T \ {y}
    BY <1>4, <1>5, <1>6
  <2>3. QED BY <2>1, <2>2 DEF Takes
<1>8. (T \ {z}) \ {y} = (T \ {y}) \ {z}
  OBVIOUS
<1>9. SumFunctionOnSet(f, (T \ {y}) \ {z}) \in Int
  <2>1. IsFiniteSet((T \ {y}) \ {z}) /\ \A u \in (T \ {y}) \ {z} : f[u] \in Int
    BY <1>2, FS_Subset
  <2>2. QED BY <2>1, SumInt
<1>10. f[y] \in Int /\ f[z] \in Int
  BY <1>2, <1>4, <1>5
<1> DEFINE rest == SumFunctionOnSet(f, (T \ {y}) \ {z})
           whole == SumFunctionOnSet(f, T)
           noY == SumFunctionOnSet(f, T \ {y})
           noZ == SumFunctionOnSet(f, T \ {z})
<1>11. /\ rest \in Int /\ whole = f[z] + noZ /\ noZ = f[y] + rest /\ noY = f[z] + rest
       /\ whole # f[y] + noY
  BY <1>4, <1>5, <1>7, <1>8, <1>9
<1> HIDE DEF rest, whole, noY, noZ
<1>12. QED BY <1>10, <1>11

\* Equal summands, equal sums.
LEMMA SumSame ==
  ASSUME NEW f, NEW g, NEW S, IsFiniteSet(S), \A x \in S : f[x] = g[x]
  PROVE  SumFunctionOnSet(f, S) = SumFunctionOnSet(g, S)
<1> DEFINE B == {T \in SUBSET S : SumFunctionOnSet(f, T) # SumFunctionOnSet(g, T)}
<1> SUFFICES ASSUME B # {} PROVE FALSE
  BY DEF B
<1>0. B \in SUBSET (SUBSET S)
  OBVIOUS
<1> HIDE DEF B
<1>1. PICK T \in B : \A U \in B : U \subseteq T => U = T
  BY <1>0, SmallestSet
<1>2. T \in SUBSET S /\ IsFiniteSet(T) /\ SumFunctionOnSet(f, T) # SumFunctionOnSet(g, T)
  BY <1>0, <1>1, FS_Subset DEF B
<1>3. T # {} /\ Pick(T) \in T
  BY <1>2, SumEmpty DEF Pick
<1>4. SumFunctionOnSet(f, T \ {Pick(T)}) = SumFunctionOnSet(g, T \ {Pick(T)})
  BY <1>1, <1>2, <1>3 DEF B
<1>5. f[Pick(T)] = g[Pick(T)]
  BY <1>2, <1>3
<1>6. QED BY <1>2, <1>3, <1>4, <1>5, SumUnfolds

\* Nothing to add.
LEMMA SumOfNone ==
  ASSUME NEW f, NEW S, IsFiniteSet(S), \A x \in S : f[x] = 0
  PROVE  SumFunctionOnSet(f, S) = 0
<1> DEFINE B == {T \in SUBSET S : SumFunctionOnSet(f, T) # 0}
<1> SUFFICES ASSUME B # {} PROVE FALSE
  BY DEF B
<1>0. B \in SUBSET (SUBSET S)
  OBVIOUS
<1> HIDE DEF B
<1>1. PICK T \in B : \A U \in B : U \subseteq T => U = T
  BY <1>0, SmallestSet
<1>2. T \in SUBSET S /\ IsFiniteSet(T) /\ SumFunctionOnSet(f, T) # 0
  BY <1>0, <1>1, FS_Subset DEF B
<1>3. T # {} /\ Pick(T) \in T
  BY <1>2, SumEmpty DEF Pick
<1>4. SumFunctionOnSet(f, T \ {Pick(T)}) = 0 /\ f[Pick(T)] = 0
  BY <1>1, <1>2, <1>3 DEF B
<1>5. QED BY <1>2, <1>3, <1>4, SumUnfolds

\* One summand changes.
LEMMA SumChanges ==
  ASSUME NEW f, NEW g, NEW S, IsFiniteSet(S), NEW x \in S,
         \A y \in S : f[y] \in Int /\ g[y] \in Int, \A y \in S \ {x} : f[y] = g[y]
  PROVE  SumFunctionOnSet(g, S) = SumFunctionOnSet(f, S) + (g[x] - f[x])
<1>1. IsFiniteSet(S \ {x})
  BY FS_Subset
<1>2. /\ SumFunctionOnSet(f, S) = f[x] + SumFunctionOnSet(f, S \ {x})
      /\ SumFunctionOnSet(g, S) = g[x] + SumFunctionOnSet(g, S \ {x})
  BY SumTake
<1>3. SumFunctionOnSet(f, S \ {x}) = SumFunctionOnSet(g, S \ {x})
  BY <1>1, SumSame
<1>4. SumFunctionOnSet(f, S \ {x}) \in Int /\ f[x] \in Int /\ g[x] \in Int
  BY <1>1, SumInt
<1>5. QED BY <1>2, <1>3, <1>4

-----------------------------------------------------------------------------
(***************************************************************************)
(* paidAmount is the sum of the receipts in force.                         *)
(***************************************************************************)

\* A deleted sale does not come back.
LEMMA DeletedStays == saleRow = "DELETED" /\ [Next]_vars => saleRow' = "DELETED"
<1> SUFFICES ASSUME saleRow = "DELETED", [Next]_vars PROVE saleRow' = saleRow
  OBVIOUS
<1>1. ~OpenSale /\ ~DeleteSale
  BY DEF OpenSale, CreateSale, ConvertToSale, DeleteSale, Present
<1>2. ASSUME NEW w \in Worker, BeginSome(w) \/ ReadBalance(w) \/ CommitSome(w) \/ FailRequest(w)
      PROVE  saleRow' = saleRow
  <2>1. CASE BeginSome(w)
    BY <2>1 DEF BeginSome, BeginUpdateSale, BeginCreatePayment, BeginUpdatePayment,
       BeginVoidPayment, Begin, saleVars
  <2>2. CASE ReadBalance(w) \/ FailRequest(w)
    BY <2>2 DEF ReadBalance, FailRequest, saleVars
  <2>3. CASE CommitSome(w)
    BY <2>3 DEF CommitSome, CommitUpdateSale, CommitCreatePayment, CommitUpdatePayment,
       CommitVoidPayment, terms
  <2>4. QED BY <1>2, <2>1, <2>2, <2>3
<1>3. QED BY <1>1, <1>2 DEF Next, vars

\* Before the insert no receipt counts; after it the sum is kept.
PaidInv == saleRow # "DELETED" => paid = PaidUp

Contributions == [p \in Payment |-> Contribution(pay[p])]

\* What a step that respects PaidFollowsReceipts does to the sum.
LEMMA SumMoves ==
  ASSUME TypeOK, TypeOK', PaidFollowsStep, saleRow' # "DELETED", paid = PaidUp
  PROVE  paid' = PaidUp'
<1> DEFINE f == Contributions
           g == [p \in Payment |-> Contribution(pay'[p])]
<1>1. PaidUp = SumFunctionOnSet(f, Payment) /\ PaidUp' = SumFunctionOnSet(g, Payment)
  BY DEF PaidUp, SumFunction, Contributions
<1>2. \A p \in Payment : /\ f[p] = Contribution(pay[p]) /\ f[p] \in Int
                         /\ g[p] = Contribution(pay'[p]) /\ g[p] \in Int
  BY CountedType DEF TypeOK, Contribution, PaymentRow, Contributions
<1> HIDE DEF f, g
<1>3. paid \in Int /\ paid' \in Int
  BY DEF TypeOK
<1>4. CASE paid' = paid /\ \A p \in Payment : Contribution(pay'[p]) = Contribution(pay[p])
  <2>1. \A p \in Payment : f[p] = g[p]
    BY <1>2, <1>4
  <2>2. SumFunctionOnSet(f, Payment) = SumFunctionOnSet(g, Payment)
    BY <2>1, SumSame, ReceiptsFinite
  <2>3. QED BY <1>1, <1>4, <2>2
<1>5. ASSUME NEW p \in Payment,
             paid' - paid = Contribution(pay'[p]) - Contribution(pay[p]),
             \A q \in Payment \ {p} : Contribution(pay'[q]) = Contribution(pay[q])
      PROVE  paid' = PaidUp'
  <2>1. \A q \in Payment \ {p} : f[q] = g[q]
    BY <1>2, <1>5
  <2>2. SumFunctionOnSet(g, Payment) = SumFunctionOnSet(f, Payment) + (g[p] - f[p])
    BY <1>2, <2>1, SumChanges, ReceiptsFinite
  <2>3. paid' - paid = g[p] - f[p] /\ g[p] \in Int /\ f[p] \in Int
    BY <1>2, <1>5
  <2>4. QED BY <1>1, <1>3, <2>2, <2>3
<1>6. QED BY <1>4, <1>5 DEF PaidFollowsStep

\* Nothing is paid before the first receipt.
LEMMA InitPaid == Init => PaidInv
<1> SUFFICES ASSUME Init PROVE paid = PaidUp
  BY DEF PaidInv
<1> DEFINE f == Contributions
<1>1. PaidUp = SumFunctionOnSet(f, Payment)
  BY DEF PaidUp, SumFunction, Contributions
<1>2. \A p \in Payment : f[p] = 0
  BY DEF Contributions, Contribution, Init, NoRow
<1> HIDE DEF f
<1>3. SumFunctionOnSet(f, Payment) = 0
  BY <1>2, SumOfNone, ReceiptsFinite
<1>4. QED BY <1>1, <1>3 DEF Init

\* In orderly operation paidAmount is what the customer has settled: the sum of
\* the receipts in force, after any number of new receipts, corrections and
\* voidings.
THEOREM PaidIsTheReceipts ==
  ASSUME SaleOverlap = FALSE
  PROVE  Spec => []PaidIsWhatWasPaid
<1>1. OrderlyLedger /\ OrderlyLedger' /\ PaidInv
        /\ [Next]_vars /\ [PaidFollowsStep]_vars => PaidInv'
  <2> SUFFICES ASSUME OrderlyLedger, OrderlyLedger', PaidInv, [Next]_vars, [PaidFollowsStep]_vars,
                      saleRow' # "DELETED"
               PROVE  paid' = PaidUp'
    BY DEF PaidInv
  <2>1. CASE UNCHANGED vars
    BY <2>1 DEF vars, PaidInv, PaidUp, Contributions
  <2>2. CASE PaidFollowsStep
    BY <2>2, DeletedStays, SumMoves DEF PaidInv, OrderlyLedger
  <2>3. QED BY <2>1, <2>2
<1>2. PaidInv => PaidIsWhatWasPaid
  BY DEF PaidInv, PaidIsWhatWasPaid, Present
<1>3. QED
  BY <1>1, <1>2, InitPaid, AlwaysOrderly, PaidTracksReceipts, PTL DEF Spec, PaidFollowsReceipts
=============================================================================
