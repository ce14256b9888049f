--------------------------- MODULE FeeLedgerProofs ---------------------------
(***************************************************************************)
(* What FeeLedger guarantees for every number of invoices, requests and    *)
(* checkouts, however the requests interleave: its types, the numbering of *)
(* receipts, the single entry of a gateway payment, and that an invoice    *)
(* never shows more money than its receipts; and, served one at a time,    *)
(* that balance, money and status agree, that what an invoice shows is net *)
(* of what was returned, and that each invoice is an AccountBook.          *)
(***************************************************************************)
EXTENDS FeeLedger, SequenceTheorems, WellFoundedInduction, TLAPS

\* A request that has left the idle stage names an invoice, one that talks to the gateway
\* names a checkout, and one that refunds names a payment row on file.
RequestOK ==
    \A r \in Requests :
        /\ req[r].stage # "idle" => req[r].inv \in Invoices
        /\ req[r].stage = "gateway" => req[r].gid \in Checkouts
        /\ req[r].stage \in {"gateway", "refund", "refundTx"} => req[r].pay \in DOMAIN payments

Typed == TypeOK /\ RequestOK

LEMMA AtLeast0Nat == ASSUME NEW n \in Int PROVE AtLeast0(n) \in Nat
BY DEF AtLeast0

\* Rewriting the money columns of an invoice row with values of their types.
LEMMA MoneyRow ==
    ASSUME NEW row \in InvoiceRow, NEW paid \in Nat, NEW total \in Nat,
           NEW status \in FeeStatus \cup {"ABSENT"}, NEW byHand \in BOOLEAN
    PROVE  [row EXCEPT !.status = status, !.total = total, !.paid = paid,
                       !.byHand = byHand] \in InvoiceRow
BY DEF InvoiceRow

LEMMA NoInvoiceRow == NoInvoice \in InvoiceRow
BY DEF NoInvoice, InvoiceRow

\* Every row a handler keeps or writes back is an invoice row.
LEMMA KeptRow == ASSUME NEW row \in InvoiceRow PROVE MoneyColumns(row) \in InvoiceRow
<1>1. /\ row.status \in FeeStatus \cup {"ABSENT"} /\ row.total \in Nat /\ row.paid \in Nat
      /\ row.byHand \in BOOLEAN
  BY DEF InvoiceRow
<1> QED BY <1>1, NoInvoiceRow, MoneyRow, Zenon DEF MoneyColumns

LEMMA PaidRowType ==
    ASSUME NEW row \in InvoiceRow, NEW snap \in InvoiceRow, NEW amount \in Nat
    PROVE  PaidRow(row, snap, amount) \in InvoiceRow
<1> DEFINE paid == snap.paid + amount
           balance == AtLeast0(snap.total - paid)
           status == IF balance = 0 THEN "PAID" ELSE IF paid > 0 THEN "PARTIAL" ELSE snap.status
           byHand == balance # 0 /\ paid = 0 /\ snap.byHand
<1>1. paid \in Nat /\ balance \in Nat /\ byHand \in BOOLEAN
  BY DEF InvoiceRow, AtLeast0
<1>2. status \in FeeStatus \cup {"ABSENT"}
  BY DEF InvoiceRow, FeeStatus
<1>3. PaidRow(row, snap, amount)
        = [row EXCEPT !.paid = paid, !.balance = balance, !.status = status, !.byHand = byHand]
  BY DEF PaidRow
<1> HIDE DEF paid, balance, status, byHand
<1> QED BY <1>1, <1>2, <1>3 DEF InvoiceRow

LEMMA RefundedRowType ==
    ASSUME NEW row \in InvoiceRow, NEW snap \in InvoiceRow, NEW amount \in Nat
    PROVE  RefundedRow(row, snap, amount) \in InvoiceRow
<1> DEFINE paid == AtLeast0(snap.paid - amount)
           balance == AtLeast0(snap.total - paid)
           status == IF balance = 0 THEN "PAID" ELSE IF paid = 0 THEN "REFUNDED" ELSE "PARTIAL"
<1>1. paid \in Nat /\ balance \in Nat
  BY DEF InvoiceRow, AtLeast0
<1>2. status \in FeeStatus \cup {"ABSENT"}
  BY DEF FeeStatus
<1>3. RefundedRow(row, snap, amount)
        = [row EXCEPT !.paid = paid, !.balance = balance, !.status = status, !.byHand = FALSE]
  BY DEF RefundedRow
<1> HIDE DEF paid, balance, status
<1> QED BY <1>1, <1>2, <1>3 DEF InvoiceRow

LEMMA EditedRowType ==
    ASSUME NEW row \in InvoiceRow, NEW snap \in InvoiceRow,
           NEW input \in FeeStatus \cup {"KEEP"}
    PROVE  EditedRow(row, snap, input) \in InvoiceRow
<1> DEFINE total == InvoiceTotal(snap.charge, snap.late)
           balance == AtLeast0(total - snap.paid)
           status == IF input # "KEEP" THEN input
                     ELSE IF balance = 0 THEN "PAID"
                     ELSE IF snap.paid > 0 THEN "PARTIAL" ELSE snap.status
           byHand == input # "KEEP" \/ (balance # 0 /\ snap.paid = 0 /\ snap.byHand)
<1>1. total \in Nat /\ balance \in Nat /\ byHand \in BOOLEAN
  BY DEF InvoiceRow, AtLeast0, InvoiceTotal
<1>2. status \in FeeStatus \cup {"ABSENT"}
  BY DEF InvoiceRow, FeeStatus
<1>3. snap.charge \in Int /\ snap.late \in Nat /\ snap.pastDue \in BOOLEAN
  BY DEF InvoiceRow
<1>4. EditedRow(row, snap, input)
        = [row EXCEPT !.charge = snap.charge, !.late = snap.late, !.total = total,
                      !.balance = balance, !.pastDue = snap.pastDue, !.status = status,
                      !.byHand = byHand]
  BY DEF EditedRow
<1> HIDE DEF total, balance, status, byHand
<1> QED BY <1>1, <1>2, <1>3, <1>4 DEF InvoiceRow

LEMMA LateRowType ==
    ASSUME NEW row \in InvoiceRow, NEW snap \in InvoiceRow
    PROVE  LateRow(row, snap) \in InvoiceRow
<1> DEFINE total == InvoiceTotal(snap.charge, LateFee)
           balance == AtLeast0(total - snap.paid)
<1>1. total \in Nat /\ balance \in Nat
  BY FeeAssumption DEF InvoiceRow, AtLeast0, InvoiceTotal
<1>2. "OVERDUE" \in FeeStatus \cup {"ABSENT"} /\ LateFee \in Nat
  BY FeeAssumption DEF FeeStatus
<1>3. LateRow(row, snap) = [row EXCEPT !.late = LateFee, !.total = total,
                                       !.balance = balance, !.status = "OVERDUE",
                                       !.byHand = FALSE]
  BY DEF LateRow
<1> HIDE DEF total, balance
<1> QED BY <1>1, <1>2, <1>3 DEF InvoiceRow

LEMMA InitTyped == Init => Typed
<1> SUFFICES ASSUME Init PROVE Typed
  OBVIOUS
<1>1. NoInvoice \in InvoiceRow
  BY DEF NoInvoice, InvoiceRow
<1>2. Idle \in RequestState
  BY <1>1 DEF Idle, RequestState, Stages
<1>3. TypeOK
  <2>1. checkouts \in [Checkouts -> Checkout]
    BY DEF Init, Checkout
  <2>2. payments \in Seq(PaymentRow)
    BY DEF Init
  <2> QED BY <1>1, <1>2, <2>1, <2>2 DEF Init, TypeOK
<1>4. RequestOK
  BY DEF Init, RequestOK, Idle
<1> QED BY <1>3, <1>4 DEF Typed

\* A step that gives one request a well-formed record and touches nothing else.
LEMMA BeginTyped ==
    ASSUME Typed, NEW r \in Requests, NEW q \in RequestState, q.stage # "idle" => q.inv \in Invoices,
           q.stage = "gateway" => q.gid \in Checkouts,
           q.stage \in {"gateway", "refund", "refundTx"} => q.pay \in DOMAIN payments,
           req' = [req EXCEPT ![r] = q], UNCHANGED Books
    PROVE  Typed'
<1>1. TypeOK'
  BY DEF Typed, TypeOK, Books
<1>2. \A s \in Requests : req'[s] = IF s = r THEN q ELSE req[s]
  BY DEF Typed, TypeOK
<1>3. RequestOK'
  BY <1>2 DEF Typed, RequestOK, Books
<1> QED BY <1>1, <1>3 DEF Typed

LEMMA IdleTyped == Idle \in RequestState /\ Idle.stage = "idle"
BY NoInvoiceRow DEF Idle, RequestState, Stages

\* A step that ends a request leaves the other requests as they are.
LEMMA FinishTyped ==
    ASSUME Typed, NEW r \in Requests, Finish(r), DOMAIN payments \subseteq DOMAIN payments'
    PROVE  req' \in [Requests -> RequestState] /\ RequestOK'
<1>1. \A s \in Requests : req'[s] = IF s = r THEN Idle ELSE req[s]
  BY DEF Typed, TypeOK, Finish
<1>2. req' \in [Requests -> RequestState]
  BY IdleTyped DEF Typed, TypeOK, Finish
<1> QED BY <1>1, <1>2, IdleTyped DEF Typed, RequestOK

LEMMA ServeTyped == ASSUME Typed, NEW r \in Requests, Serve(r) PROVE Typed'
<1> USE FeeAssumption
<1>0. /\ req[r] \in RequestState
      /\ \A i \in Invoices : invoices[i] \in InvoiceRow
      /\ \A k \in DOMAIN payments : payments[k] \in PaymentRow /\ k \in Nat
  BY ElementOfSeq, LenProperties DEF Typed, TypeOK
<1>1. ASSUME NEW i \in Invoices, NEW a \in PayAmounts, NEW g \in Checkouts \cup {None},
             RecordPayment(r, i, a, g)
      PROVE  Typed'
  <2> DEFINE snap == MoneyColumns(invoices[i])
             q == [Idle EXCEPT !.stage = "checked", !.inv = i, !.amount = a, !.gid = g,
                               !.snap = snap]
  <2>1. snap \in InvoiceRow
    BY <1>0, KeptRow
  <2>2. req' = [req EXCEPT ![r] = q] /\ UNCHANGED Books
    BY <1>1 DEF RecordPayment, Begin
  <2> HIDE DEF snap
  <2>3. q \in RequestState /\ q.stage = "checked" /\ q.inv = i
    BY <2>1, IdleTyped DEF RequestState, Stages
  <2> HIDE DEF q
  <2> QED BY <2>2, <2>3, BeginTyped
<1>2. ASSUME NEW i \in Invoices, NEW g \in Checkouts, VerifyRazorpay(r, i, g) PROVE Typed'
  <2> DEFINE amount == invoices[i].balance
             q == [Idle EXCEPT !.stage = "submitted", !.inv = i, !.amount = amount, !.gid = g]
  <2>1. amount \in Nat
    BY <1>0 DEF InvoiceRow
  <2>2. req' = [req EXCEPT ![r] = q] /\ UNCHANGED Books
    BY <1>2 DEF VerifyRazorpay, Begin
  <2> HIDE DEF amount
  <2>3. q \in RequestState /\ q.stage = "submitted" /\ q.inv = i
    BY <2>1, IdleTyped DEF RequestState, Stages
  <2> HIDE DEF q
  <2> QED BY <2>2, <2>3, BeginTyped
<1>3. CASE CheckPayment(r)
  <2> DEFINE snap == MoneyColumns(invoices[req[r].inv])
             q == [req[r] EXCEPT !.stage = "checked", !.snap = snap]
  <2>1. req[r].inv \in Invoices
    BY <1>3 DEF CheckPayment, Typed, RequestOK
  <2>2. snap \in InvoiceRow
    BY <1>0, <2>1, KeptRow
  <2>3. req' = [req EXCEPT ![r] = q] /\ UNCHANGED Books
    BY <1>3 DEF CheckPayment, Typed, TypeOK
  <2> HIDE DEF snap
  <2>4. q \in RequestState /\ q.stage = "checked" /\ q.inv = req[r].inv
    BY <1>0, <2>2 DEF RequestState, Stages
  <2> HIDE DEF q
  <2> QED BY <2>1, <2>3, <2>4, BeginTyped
<1>4. CASE CountReceipts(r)
  <2> DEFINE n == Len(payments)
             q == [req[r] EXCEPT !.stage = "counted", !.count = n]
  <2>1. req[r].inv \in Invoices /\ n \in Nat
    BY <1>4, LenProperties DEF CountReceipts, Typed, TypeOK, RequestOK
  <2>2. req' = [req EXCEPT ![r] = q] /\ UNCHANGED Books
    BY <1>4 DEF CountReceipts, Typed, TypeOK
  <2> HIDE DEF n
  <2>3. q \in RequestState /\ q.stage = "counted" /\ q.inv = req[r].inv
    BY <1>0, <2>1 DEF RequestState, Stages
  <2> HIDE DEF q
  <2> QED BY <2>1, <2>2, <2>3, BeginTyped
<1>5. CASE CommitPayment(r)
  <2> DEFINE p == [inv |-> req[r].inv, amount |-> req[r].amount, receipt |-> req[r].count + 1,
                   gid |-> req[r].gid, status |-> "CAPTURED", refund |-> 0]
  <2>1. req[r].inv \in Invoices
    BY <1>5 DEF CommitPayment, Typed, RequestOK
  <2>2. p \in PaymentRow
    BY <1>0, <2>1 DEF PaymentRow, PaymentStatus, RequestState
  <2>3. payments' \in Seq(PaymentRow) /\ DOMAIN payments \subseteq DOMAIN payments'
    <3>1. payments' = Append(payments, p) /\ payments \in Seq(PaymentRow)
      BY <1>5 DEF CommitPayment, Typed, TypeOK
    <3> HIDE DEF p
    <3> QED BY <2>2, <3>1, LenProperties
  <2>4. invoices' \in [Invoices -> InvoiceRow]
    <3>1. PaidRow(invoices[req[r].inv], req[r].snap, req[r].amount) \in InvoiceRow
      BY <1>0, <2>1, PaidRowType DEF RequestState
    <3> QED BY <1>5, <3>1 DEF CommitPayment, Typed, TypeOK
  <2>5. received' \in [Invoices -> Nat]
    BY <1>0, <1>5, <2>1 DEF CommitPayment, Typed, TypeOK, RequestState
  <2>6. RequestOK' /\ req' \in [Requests -> RequestState]
    BY <1>5, <2>3, FinishTyped DEF CommitPayment
  <2> QED BY <1>5, <2>3, <2>4, <2>5, <2>6 DEF CommitPayment, Typed, TypeOK
<1>6. ASSUME NEW k \in DOMAIN payments, NEW a \in PayAmounts, RefundPayment(r, k, a)
      PROVE  Typed'
  <2> DEFINE stage == IF payments[k].gid # None THEN "gateway" ELSE "refund"
             q == [Idle EXCEPT !.stage = stage, !.inv = payments[k].inv,
                               !.gid = payments[k].gid, !.amount = a, !.pay = k]
  <2>1. stage \in {"gateway", "refund"} /\ (stage = "gateway" => payments[k].gid # None)
    OBVIOUS
  <2>2. /\ payments[k].inv \in Invoices
        /\ payments[k].gid \in Checkouts \cup {None}
        /\ a \in Nat /\ k \in Nat
    BY <1>0 DEF PaymentRow
  <2>3. req' = [req EXCEPT ![r] = q] /\ UNCHANGED Books
    BY <1>6 DEF RefundPayment, Begin
  <2> HIDE DEF stage
  <2>4. /\ q \in RequestState /\ q.stage = stage /\ q.inv = payments[k].inv
        /\ q.gid = payments[k].gid /\ q.pay = k
    BY <2>1, <2>2, IdleTyped DEF RequestState, Stages
  <2> HIDE DEF q
  <2> QED BY <2>1, <2>2, <2>3, <2>4, BeginTyped
<1>7. CASE GatewayRefund(r)
  <2>1. req[r].gid \in Checkouts /\ req[r].amount \in Nat
    BY <1>0, <1>7 DEF GatewayRefund, Typed, RequestOK, RequestState
  <2>2. checkouts' \in [Checkouts -> Checkout]
    <3> DEFINE g == req[r].gid
               n == checkouts[g].refunded + req[r].amount
               c == [checkouts[g] EXCEPT !.refunded = n]
    <3>1. checkouts[g] \in Checkout /\ n \in Nat
      BY <2>1 DEF Typed, TypeOK, Checkout
    <3>2. checkouts' = [checkouts EXCEPT ![g] = c]
      BY <1>7 DEF GatewayRefund
    <3> HIDE DEF n
    <3>3. c \in Checkout
      BY <3>1 DEF Checkout
    <3> HIDE DEF c
    <3> QED BY <3>2, <3>3 DEF Typed, TypeOK
  <2>3. req' \in [Requests -> RequestState]
    BY <1>0, <1>7 DEF GatewayRefund, Typed, TypeOK, RequestState, Stages
  <2>4. RequestOK'
    BY <1>7 DEF GatewayRefund, Typed, TypeOK, RequestOK, RequestState
  <2> QED BY <1>7, <2>2, <2>3, <2>4 DEF GatewayRefund, Typed, TypeOK
<1>8. CASE BeginRefundTx(r)
  <2> DEFINE snap == MoneyColumns(invoices[req[r].inv])
             q == [req[r] EXCEPT !.stage = "refundTx", !.snap = snap]
  <2>1. req[r].inv \in Invoices /\ req[r].pay \in DOMAIN payments
    BY <1>8 DEF BeginRefundTx, Typed, RequestOK
  <2>2. snap \in InvoiceRow
    BY <1>0, <2>1, KeptRow
  <2>3. req' = [req EXCEPT ![r] = q] /\ UNCHANGED Books
    BY <1>8 DEF BeginRefundTx, Typed, TypeOK
  <2> HIDE DEF snap
  <2>4. q \in RequestState /\ q.stage = "refundTx" /\ q.inv = req[r].inv /\ q.pay = req[r].pay
    BY <1>0, <2>2 DEF RequestState, Stages
  <2> HIDE DEF q
  <2> QED BY <2>1, <2>3, <2>4, BeginTyped
<1>9. CASE CommitRefund(r)
  <2> DEFINE k == req[r].pay
             status == IF req[r].amount = payments[k].amount
                       THEN "REFUNDED" ELSE "PARTIALLY_REFUNDED"
             p == [payments[k] EXCEPT !.status = status, !.refund = req[r].amount]
  <2>1. req[r].inv \in Invoices /\ k \in DOMAIN payments
    BY <1>9 DEF CommitRefund, Typed, RequestOK
  <2>2. p \in PaymentRow
    <3>1. status \in PaymentStatus /\ payments[k] \in PaymentRow /\ req[r].amount \in Nat
      BY <1>0, <2>1 DEF PaymentStatus, RequestState
    <3> HIDE DEF status
    <3> QED BY <3>1 DEF PaymentRow
  <2>3. payments' \in Seq(PaymentRow) /\ DOMAIN payments' = DOMAIN payments
    <3>1. payments' = [payments EXCEPT ![k] = p]
      BY <1>9 DEF CommitRefund
    <3>2. k \in 1 .. Len(payments) /\ payments \in Seq(PaymentRow)
      BY <2>1, LenProperties DEF Typed, TypeOK
    <3> HIDE DEF p, k
    <3> QED BY <2>2, <3>1, <3>2, ExceptSeq, LenProperties
  <2>4. invoices' \in [Invoices -> InvoiceRow]
    <3>1. RefundedRow(invoices[req[r].inv], req[r].snap, req[r].amount) \in InvoiceRow
      BY <1>0, <2>1, RefundedRowType DEF RequestState
    <3> QED BY <1>9, <3>1 DEF CommitRefund, Typed, TypeOK
  <2>5. returned' \in [Invoices -> Nat]
    BY <1>0, <1>9, <2>1 DEF CommitRefund, Typed, TypeOK, RequestState
  <2>6. RequestOK' /\ req' \in [Requests -> RequestState]
    BY <1>9, <2>3, FinishTyped DEF CommitRefund
  <2> QED BY <1>9, <2>3, <2>4, <2>5, <2>6 DEF CommitRefund, Typed, TypeOK
<1>10. ASSUME NEW i \in Invoices, NEW c \in Charges, NEW late \in {0, LateFee},
              NEW due \in {FALSE, invoices[i].pastDue}, NEW s \in StatusInputs,
              UpdateInvoice(r, i, c, late, due, s)
       PROVE  Typed'
  <2> DEFINE snap == [invoices[i] EXCEPT !.charge = c, !.late = late, !.pastDue = due,
                                         !.total = 0, !.balance = 0]
             q == [Idle EXCEPT !.stage = "update", !.inv = i, !.status = s, !.snap = snap]
  <2>1. snap \in InvoiceRow
    <3>1. c \in Int /\ late \in Nat /\ invoices[i] \in InvoiceRow
      BY <1>0
    <3>2. invoices[i].pastDue \in BOOLEAN
      BY <3>1 DEF InvoiceRow
    <3>3. due \in BOOLEAN
      BY <3>2, Zenon
    <3> QED BY <3>1, <3>3 DEF InvoiceRow
  <2>2. req' = [req EXCEPT ![r] = q] /\ UNCHANGED Books
    BY <1>10 DEF UpdateInvoice, Begin
  <2> HIDE DEF snap
  <2>3. q \in RequestState /\ q.stage = "update" /\ q.inv = i
    BY <2>1, IdleTyped DEF RequestState, Stages
  <2> HIDE DEF q
  <2> QED BY <2>2, <2>3, BeginTyped
<1>11. CASE CommitUpdate(r)
  <2>1. req[r].inv \in Invoices
    BY <1>11 DEF CommitUpdate, Typed, RequestOK
  <2>2. EditedRow(invoices[req[r].inv], req[r].snap, req[r].status) \in InvoiceRow
    BY <1>0, <2>1, EditedRowType DEF RequestState
  <2>3. invoices' \in [Invoices -> InvoiceRow]
    BY <1>11, <2>2 DEF CommitUpdate, Typed, TypeOK
  <2>4. RequestOK' /\ req' \in [Requests -> RequestState]
    BY <1>11, FinishTyped DEF CommitUpdate
  <2> QED BY <1>11, <2>3, <2>4 DEF CommitUpdate, Typed, TypeOK
<1>12. ASSUME NEW i \in Invoices, VoidInvoice(r, i) PROVE Typed'
  <2> DEFINE q == [Idle EXCEPT !.stage = "void", !.inv = i]
  <2>1. req' = [req EXCEPT ![r] = q] /\ UNCHANGED Books
    BY <1>12 DEF VoidInvoice, Begin
  <2>2. q \in RequestState /\ q.stage = "void" /\ q.inv = i
    BY IdleTyped DEF RequestState, Stages
  <2> HIDE DEF q
  <2> QED BY <2>1, <2>2, BeginTyped
<1>13. CASE CommitVoid(r)
  <2>1. invoices' \in [Invoices -> InvoiceRow]
    <3> DEFINE i == req[r].inv
               row == [invoices[i] EXCEPT !.status = "CANCELLED", !.balance = 0,
                                          !.byHand = FALSE]
    <3>1. i \in Invoices /\ invoices[i] \in InvoiceRow
      BY <1>0, <1>13 DEF CommitVoid, Typed, RequestOK
    <3>2. invoices' = [invoices EXCEPT ![i] = row]
      BY <1>13 DEF CommitVoid
    <3>3. row \in InvoiceRow
      BY <3>1 DEF InvoiceRow, FeeStatus
    <3> HIDE DEF row
    <3> QED BY <3>2, <3>3 DEF Typed, TypeOK
  <2>2. RequestOK' /\ req' \in [Requests -> RequestState]
    BY <1>13, FinishTyped DEF CommitVoid
  <2> QED BY <1>13, <2>1, <2>2 DEF CommitVoid, Typed, TypeOK
<1>14. ASSUME NEW i \in Invoices, ReadOverdue(r, i) PROVE Typed'
  <2> DEFINE snap == [NoInvoice EXCEPT !.charge = invoices[i].charge, !.paid = invoices[i].paid]
             q == [Idle EXCEPT !.stage = "sweep", !.inv = i, !.snap = snap]
  <2>1. snap \in InvoiceRow
    <3>1. invoices[i].charge \in Int /\ invoices[i].paid \in Nat
      BY <1>0 DEF InvoiceRow
    <3> QED BY <3>1, NoInvoiceRow DEF InvoiceRow
  <2>2. req' = [req EXCEPT ![r] = q] /\ UNCHANGED Books
    BY <1>14 DEF ReadOverdue, Begin
  <2> HIDE DEF snap
  <2>3. q \in RequestState /\ q.stage = "sweep" /\ q.inv = i
    BY <2>1, IdleTyped DEF RequestState, Stages
  <2> HIDE DEF q
  <2> QED BY <2>2, <2>3, BeginTyped
<1>15. CASE ApplyLateFee(r)
  <2>1. req[r].inv \in Invoices
    BY <1>15 DEF ApplyLateFee, Typed, RequestOK
  <2>2. LateRow(invoices[req[r].inv], req[r].snap) \in InvoiceRow
    BY <1>0, <2>1, LateRowType DEF RequestState
  <2>3. invoices' \in [Invoices -> InvoiceRow]
    BY <1>15, <2>2 DEF ApplyLateFee, Typed, TypeOK
  <2>4. RequestOK' /\ req' \in [Requests -> RequestState]
    BY <1>15, FinishTyped DEF ApplyLateFee
  <2> QED BY <1>15, <2>3, <2>4 DEF ApplyLateFee, Typed, TypeOK
<1>16. CASE Abandon(r)
  <2>1. RequestOK' /\ req' \in [Requests -> RequestState]
    BY <1>16, FinishTyped DEF Abandon, Books
  <2> QED BY <1>16, <2>1 DEF Abandon, Books, Typed, TypeOK
<1> QED BY <1>1, <1>2, <1>3, <1>4, <1>5, <1>6, <1>7, <1>8, <1>9, <1>10, <1>11, <1>12,
           <1>13, <1>14, <1>15, <1>16 DEF Serve

LEMMA StepTyped == Typed /\ [Next]_vars => Typed'
<1> SUFFICES ASSUME Typed, [Next]_vars PROVE Typed'
  OBVIOUS
<1> USE FeeAssumption
<1>1. ASSUME NEW i \in Invoices, NEW c \in Charges, CreateInvoice(i, c) PROVE Typed'
  <2>1. InvoiceTotal(c, 0) \in Nat
    BY AtLeast0Nat DEF InvoiceTotal
  <2>2. invoices' \in [Invoices -> InvoiceRow]
    BY NoInvoiceRow, <1>1, <2>1 DEF CreateInvoice, Typed, TypeOK, NoInvoice, InvoiceRow, FeeStatus
  <2> QED BY <1>1, <2>2 DEF CreateInvoice, Typed, TypeOK, RequestOK
<1>2. ASSUME NEW i \in Invoices, DueDatePasses(i) PROVE Typed'
  BY <1>2 DEF DueDatePasses, Typed, TypeOK, RequestOK, InvoiceRow
<1>3. ASSUME NEW g \in Checkouts, NEW i \in Invoices, InitiateRazorpay(g, i) PROVE Typed'
  BY <1>3 DEF InitiateRazorpay, Typed, TypeOK, RequestOK, Checkout, InvoiceRow
<1>4. ASSUME NEW g \in Checkouts, GatewayCapture(g) PROVE Typed'
  BY <1>4 DEF GatewayCapture, Typed, TypeOK, RequestOK, Checkout
<1>5. ASSUME NEW r \in Requests, Serve(r) PROVE Typed'
  BY <1>5, ServeTyped
<1>6. CASE UNCHANGED vars
  BY <1>6 DEF vars, Typed, TypeOK, RequestOK
<1> QED BY <1>1, <1>2, <1>3, <1>4, <1>5, <1>6 DEF Next
-----------------------------------------------------------------------------
\* Every state of every behaviour is well typed: no write of the service leaves a negative
\* balance, a payment without an invoice, or a request that lost what it works on.
THEOREM TypesCorrect == Spec => []TypeOK
<1>1. Init => Typed
  BY InitTyped
<1>2. Typed /\ [Next]_vars => Typed'
  BY StepTyped
<1>3. Typed => TypeOK
  BY DEF Typed
<1> QED BY <1>1, <1>2, <1>3, PTL DEF Spec

-----------------------------------------------------------------------------
\* What a handler in progress still knows: the count it took is not more than the rows
\* there are, and the money it saw on the invoice is covered by receipts.
KnownOK ==
    \A r \in Requests :
        /\ req[r].stage = "counted" => req[r].count <= Len(payments)
        /\ req[r].stage \in {"checked", "counted", "refundTx"} =>
              req[r].snap.paid <= received[req[r].inv]

Ledger == ReceiptsInOrder /\ GatewayPaymentRecordedOnce /\ PaidWithinReceipts /\ KnownOK

\* What a request may become in a step that enters and returns no money.
Advanced(old, new) ==
    \/ new = old
    \/ new.stage \notin {"checked", "counted", "refundTx"}
    \/ /\ new.stage \in {"checked", "refundTx"}
       /\ new.inv \in Invoices /\ new.snap.paid = invoices[new.inv].paid
    \/ /\ old.stage = "checked" /\ new.stage = "counted"
       /\ new.inv = old.inv /\ new.snap = old.snap /\ new.count = Len(payments)

Quiet ==
    /\ payments' = payments
    /\ received' = received
    /\ \A i \in Invoices : invoices'[i].paid <= invoices[i].paid
    /\ \A r \in Requests : Advanced(req[r], req'[r])

\* Apart from the two commits that move money, every step is quiet.
LEMMA QuietSteps ==
    ASSUME Typed, [Next]_vars
    PROVE  Quiet \/ \E r \in Requests : CommitPayment(r) \/ CommitRefund(r)
<1>0. /\ \A r \in Requests : req[r] \in RequestState
      /\ \A i \in Invoices : invoices[i] \in InvoiceRow /\ invoices[i].paid \in Nat
  BY DEF Typed, TypeOK, InvoiceRow
<1>1. ASSUME NEW i \in Invoices, NEW c \in Charges, CreateInvoice(i, c) PROVE Quiet
  BY <1>0, <1>1 DEF CreateInvoice, Quiet, Advanced, Typed, TypeOK, NoInvoice
<1>2. ASSUME NEW i \in Invoices, DueDatePasses(i) PROVE Quiet
  BY <1>0, <1>2 DEF DueDatePasses, Quiet, Advanced, Typed, TypeOK, InvoiceRow
<1>3. ASSUME NEW g \in Checkouts, NEW i \in Invoices, InitiateRazorpay(g, i) PROVE Quiet
  BY <1>0, <1>3 DEF InitiateRazorpay, Quiet, Advanced
<1>4. ASSUME NEW g \in Checkouts, GatewayCapture(g) PROVE Quiet
  BY <1>0, <1>4 DEF GatewayCapture, Quiet, Advanced
<1>5. ASSUME NEW r \in Requests, Serve(r)
      PROVE  Quiet \/ CommitPayment(r) \/ CommitRefund(r)
  <2>0. ASSUME UNCHANGED <<payments, received>>,
               \A i \in Invoices : invoices'[i].paid <= invoices[i].paid,
               NEW q, req' = [req EXCEPT ![r] = q], Advanced(req[r], q)
        PROVE  Quiet
    <3>1. \A s \in Requests : req'[s] = IF s = r THEN q ELSE req[s]
      BY <2>0 DEF Typed, TypeOK
    <3> QED BY <2>0, <3>1 DEF Quiet, Advanced
  <2>1. ASSUME UNCHANGED Books, NEW q, req' = [req EXCEPT ![r] = q], Advanced(req[r], q)
        PROVE  Quiet
    <3>1. UNCHANGED <<payments, received>> /\ invoices' = invoices
      BY <2>1 DEF Books
    <3>2. \A i \in Invoices : invoices'[i].paid <= invoices[i].paid
      BY <1>0, <3>1
    <3> QED BY <2>0, <2>1, <3>1, <3>2
  <2>2. ASSUME NEW i \in Invoices, NEW a \in PayAmounts, NEW g \in Checkouts \cup {None},
               RecordPayment(r, i, a, g)
        PROVE  Quiet
    BY <2>1, <2>2, IdleTyped
       DEF RecordPayment, Begin, Advanced, RequestState, MoneyColumns, NoInvoice
  <2>3. ASSUME NEW i \in Invoices, NEW g \in Checkouts, VerifyRazorpay(r, i, g) PROVE Quiet
    BY <2>1, <2>3, IdleTyped DEF VerifyRazorpay, Begin, Advanced, RequestState
  <2>4. CASE CheckPayment(r)
    BY <1>0, <2>1, <2>4
       DEF CheckPayment, Typed, TypeOK, RequestOK, Advanced, RequestState, MoneyColumns, NoInvoice
  <2>5. CASE CountReceipts(r)
    BY <1>0, <2>1, <2>5 DEF CountReceipts, Typed, TypeOK, Advanced, RequestState
  <2>6. ASSUME NEW k \in DOMAIN payments, NEW a \in PayAmounts, RefundPayment(r, k, a)
        PROVE  Quiet
    BY <2>1, <2>6, IdleTyped DEF RefundPayment, Begin, Advanced, RequestState
  <2>7. CASE GatewayRefund(r)
    <3> DEFINE q == [req[r] EXCEPT !.stage = "refund"]
    <3>1. UNCHANGED <<payments, received>> /\ invoices' = invoices
      BY <2>7 DEF GatewayRefund
    <3>2. \A i \in Invoices : invoices'[i].paid <= invoices[i].paid
      BY <1>0, <3>1
    <3>3. req' = [req EXCEPT ![r] = q] /\ q.stage = "refund"
      BY <1>0, <2>7 DEF GatewayRefund, Typed, TypeOK, RequestState
    <3>4. Advanced(req[r], q)
      BY <3>3 DEF Advanced
    <3> HIDE DEF q
    <3> QED BY <2>0, <3>1, <3>2, <3>3, <3>4
  <2>8. CASE BeginRefundTx(r)
    BY <1>0, <2>1, <2>8
       DEF BeginRefundTx, Typed, TypeOK, RequestOK, Advanced, RequestState, MoneyColumns, NoInvoice
  <2>9. ASSUME NEW i \in Invoices, NEW c \in Charges, NEW late \in {0, LateFee},
               NEW due \in {FALSE, invoices[i].pastDue}, NEW s \in StatusInputs,
               UpdateInvoice(r, i, c, late, due, s)
        PROVE  Quiet
    BY <2>1, <2>9, IdleTyped DEF UpdateInvoice, Begin, Advanced, RequestState
  <2>10. CASE CommitUpdate(r)
    <3>1. UNCHANGED <<payments, received>> /\ req' = [req EXCEPT ![r] = Idle]
      BY <2>10 DEF CommitUpdate, Finish
    <3>2. \A i \in Invoices : invoices'[i].paid = invoices[i].paid
      BY <1>0, <2>10 DEF CommitUpdate, EditedRow, Typed, TypeOK, InvoiceRow
    <3>3. Advanced(req[r], Idle)
      BY IdleTyped DEF Advanced
    <3>4. \A i \in Invoices : invoices'[i].paid <= invoices[i].paid
      BY <1>0, <3>2
    <3> QED BY <2>0, <3>1, <3>3, <3>4
  <2>11. ASSUME NEW i \in Invoices, VoidInvoice(r, i) PROVE Quiet
    BY <2>1, <2>11, IdleTyped DEF VoidInvoice, Begin, Advanced, RequestState
  <2>12. CASE CommitVoid(r)
    <3>1. UNCHANGED <<payments, received>> /\ req' = [req EXCEPT ![r] = Idle]
      BY <2>12 DEF CommitVoid, Finish
    <3>2. \A i \in Invoices : invoices'[i].paid = invoices[i].paid
      BY <1>0, <2>12 DEF CommitVoid, Typed, TypeOK, InvoiceRow
    <3>3. Advanced(req[r], Idle)
      BY IdleTyped DEF Advanced
    <3>4. \A i \in Invoices : invoices'[i].paid <= invoices[i].paid
      BY <1>0, <3>2
    <3> QED BY <2>0, <3>1, <3>3, <3>4
  <2>13. ASSUME NEW i \in Invoices, ReadOverdue(r, i) PROVE Quiet
    BY <2>1, <2>13, IdleTyped DEF ReadOverdue, Begin, Advanced, RequestState
  <2>14. CASE ApplyLateFee(r)
    <3>1. UNCHANGED <<payments, received>> /\ req' = [req EXCEPT ![r] = Idle]
      BY <2>14 DEF ApplyLateFee, Finish
    <3>2. \A i \in Invoices : invoices'[i].paid = invoices[i].paid
      BY <1>0, <2>14 DEF ApplyLateFee, LateRow, Typed, TypeOK, InvoiceRow
    <3>3. Advanced(req[r], Idle)
      BY IdleTyped DEF Advanced
    <3>4. \A i \in Invoices : invoices'[i].paid <= invoices[i].paid
      BY <1>0, <3>2
    <3> QED BY <2>0, <3>1, <3>3, <3>4
  <2>15. CASE Abandon(r)
    BY <2>1, <2>15, IdleTyped DEF Abandon, Finish, Advanced
  <2> QED BY <1>5, <2>2, <2>3, <2>4, <2>5, <2>6, <2>7, <2>8, <2>9, <2>10, <2>11, <2>12,
             <2>13, <2>14, <2>15 DEF Serve
<1>6. CASE UNCHANGED vars
  BY <1>0, <1>6 DEF vars, Quiet, Advanced
<1> QED BY <1>1, <1>2, <1>3, <1>4, <1>5, <1>6 DEF Next

LEMMA InitLedger == Init => Ledger
BY DEF Init, Ledger, ReceiptsInOrder, GatewayPaymentRecordedOnce, PaidWithinReceipts,
       KnownOK, Idle, NoInvoice

\* A quiet step keeps the ledger: what a handler newly knows, it has just read.
LEMMA QuietKeepsLedger == ASSUME Typed, Ledger, Quiet, Typed' PROVE Ledger'
<1>0. /\ Len(payments) \in Nat
      /\ \A i \in Invoices : invoices[i].paid \in Nat /\ received[i] \in Nat
  BY LenProperties DEF Typed, TypeOK, InvoiceRow
<1>1. ReceiptsInOrder' /\ GatewayPaymentRecordedOnce'
  BY DEF Ledger, Quiet, ReceiptsInOrder, GatewayPaymentRecordedOnce
<1>2. PaidWithinReceipts'
  <2> SUFFICES ASSUME NEW i \in Invoices PROVE invoices'[i].paid <= received[i]
    BY DEF PaidWithinReceipts, Quiet
  <2>1. invoices'[i].paid <= invoices[i].paid /\ invoices[i].paid <= received[i]
    BY DEF Quiet, Ledger, PaidWithinReceipts
  <2>2. invoices'[i].paid \in Nat
    BY DEF Typed, TypeOK, InvoiceRow
  <2> QED BY <1>0, <2>1, <2>2
<1>3. KnownOK'
  <2> SUFFICES ASSUME NEW r \in Requests
      PROVE  /\ req'[r].stage = "counted" => req'[r].count <= Len(payments)
             /\ req'[r].stage \in {"checked", "counted", "refundTx"} =>
                   req'[r].snap.paid <= received[req'[r].inv]
    BY DEF KnownOK, Quiet
  <2>1. Advanced(req[r], req'[r])
    BY DEF Quiet
  <2> QED BY <1>0, <2>1 DEF Advanced, Ledger, KnownOK, PaidWithinReceipts
<1> QED BY <1>1, <1>2, <1>3 DEF Ledger

\* The commit leaves the other requests alone and frees its own.
LEMMA OthersKnow ==
    ASSUME Typed, Ledger, NEW r \in Requests, Finish(r),
           Len(payments') \in Nat, Len(payments') >= Len(payments),
           \A i \in Invoices : received'[i] \in Nat /\ received'[i] >= received[i]
    PROVE  KnownOK'
<1> SUFFICES ASSUME NEW s \in Requests
    PROVE  /\ req'[s].stage = "counted" => req'[s].count <= Len(payments')
           /\ req'[s].stage \in {"checked", "counted", "refundTx"} =>
                 req'[s].snap.paid <= received'[req'[s].inv]
  BY DEF KnownOK
<1>1. req'[s] = IF s = r THEN Idle ELSE req[s]
  BY DEF Finish, Typed, TypeOK
<1>2. CASE s = r
  BY <1>1, <1>2, IdleTyped
<1>3. CASE s # r
  <2>1. /\ req'[s] = req[s] /\ req[s].count \in Nat /\ req[s].snap.paid \in Nat
        /\ Len(payments) \in Nat
    BY <1>1, <1>3, LenProperties DEF Typed, TypeOK, RequestState, InvoiceRow
  <2>2. CASE req[s].stage \notin {"checked", "counted", "refundTx"}
    BY <2>1, <2>2
  <2>3. CASE req[s].stage \in {"checked", "counted", "refundTx"}
    <3>1. req[s].inv \in Invoices /\ received[req[s].inv] \in Nat
      BY <2>3 DEF Typed, TypeOK, RequestOK
    <3> QED BY <2>1, <2>3, <3>1 DEF Ledger, KnownOK
  <2> QED BY <2>2, <2>3
<1> QED BY <1>2, <1>3

\* A payment that commits takes the next number: the numbers on file are 1 .. Len(payments),
\* its own is free, and it counted no more rows than there are.
LEMMA PaymentKeepsLedger ==
    ASSUME Typed, Ledger, NEW r \in Requests, CommitPayment(r) PROVE Ledger'
<1> DEFINE i == req[r].inv
           n == Len(payments)
           c == req[r].count
           p == [inv |-> i, amount |-> req[r].amount, receipt |-> c + 1,
                 gid |-> req[r].gid, status |-> "CAPTURED", refund |-> 0]
<1>0. /\ i \in Invoices /\ n \in Nat /\ c \in Nat /\ req[r].amount \in Nat
      /\ req[r].snap.paid \in Nat /\ c <= n /\ req[r].snap.paid <= received[i]
      /\ DOMAIN payments = 1 .. n
  BY LenProperties
     DEF CommitPayment, Typed, TypeOK, RequestOK, RequestState, InvoiceRow, Ledger, KnownOK
<1>1. /\ DOMAIN payments' = 1 .. n + 1 /\ Len(payments') = n + 1
      /\ \A k \in 1 .. n : payments'[k] = payments[k]
      /\ payments'[n + 1] = p
  <2>1. payments' = Append(payments, p) /\ payments \in Seq(PaymentRow)
    BY DEF CommitPayment, Typed, TypeOK
  <2> HIDE DEF p
  <2> QED BY <2>1, LenProperties
<1>2. ReceiptsInOrder'
  <2>1. c + 1 = n + 1
    <3>1. \A k \in 1 .. n : k # c + 1
      BY <1>0 DEF CommitPayment, Unique, Ledger, ReceiptsInOrder
    <3> HIDE DEF n, c
    <3>2. CASE c < n
      <4>1. c + 1 \in 1 .. n
        BY <1>0, <3>2
      <4> QED BY <3>1, <4>1
    <3> QED BY <1>0, <3>2
  <2>2. p.receipt = n + 1
    BY <2>1
  <2> HIDE DEF p
  <2> QED BY <1>0, <1>1, <2>2 DEF Ledger, ReceiptsInOrder
<1>3. GatewayPaymentRecordedOnce'
  <2>1. p.gid = req[r].gid
    OBVIOUS
  <2>2. p.gid # None => \A k \in 1 .. n : payments[k].gid # p.gid
    BY <1>0, <2>1 DEF CommitPayment, Unique
  <2> HIDE DEF p
  <2> QED BY <1>0, <1>1, <2>2 DEF Ledger, GatewayPaymentRecordedOnce
<1>4. received' = [received EXCEPT ![i] = @ + req[r].amount]
  BY DEF CommitPayment
<1>5. \A j \in Invoices : received'[j] \in Nat /\ received'[j] >= received[j]
  BY <1>0, <1>4 DEF Typed, TypeOK
<1>6. PaidWithinReceipts'
  <2> SUFFICES ASSUME NEW j \in Invoices PROVE invoices'[j].paid <= received'[j]
    BY DEF PaidWithinReceipts
  <2>1. invoices[j].paid <= received[j] /\ invoices[j].paid \in Nat /\ received[j] \in Nat
    BY DEF Ledger, PaidWithinReceipts, Typed, TypeOK, InvoiceRow
  <2>2. CASE j # i
    <3>1. invoices'[j] = invoices[j]
      BY <2>2 DEF CommitPayment, Typed, TypeOK
    <3> QED BY <1>5, <2>1, <3>1
  <2>3. CASE j = i
    <3>1. invoices'[i] = PaidRow(invoices[i], req[r].snap, req[r].amount)
      BY <1>0 DEF CommitPayment, Typed, TypeOK
    <3>2. invoices'[i].paid = req[r].snap.paid + req[r].amount
      BY <1>0, <3>1 DEF PaidRow, Typed, TypeOK, InvoiceRow
    <3>3. received'[i] = received[i] + req[r].amount
      BY <1>0, <1>4 DEF Typed, TypeOK
    <3> QED BY <1>0, <2>1, <2>3, <3>2, <3>3
  <2> QED BY <2>2, <2>3
<1>7. KnownOK'
  BY <1>0, <1>1, <1>5, OthersKnow DEF CommitPayment
<1> QED BY <1>2, <1>3, <1>6, <1>7 DEF Ledger

LEMMA RefundKeepsLedger ==
    ASSUME Typed, Ledger, NEW r \in Requests, CommitRefund(r), Typed' PROVE Ledger'
<1> DEFINE i == req[r].inv
           k == req[r].pay
           p == payments'[k]
<1>0. /\ i \in Invoices /\ k \in DOMAIN payments /\ req[r].amount \in Nat
      /\ req[r].snap.paid \in Nat /\ req[r].snap.paid <= received[i]
      /\ payments \in Seq(PaymentRow) /\ received' = received
  BY DEF CommitRefund, Typed, TypeOK, RequestOK, RequestState, InvoiceRow, Ledger, KnownOK
<1>1. /\ DOMAIN payments' = DOMAIN payments /\ Len(payments') = Len(payments)
      /\ Len(payments) \in Nat
      /\ \A j \in DOMAIN payments : /\ payments'[j].receipt = payments[j].receipt
                                    /\ payments'[j].gid = payments[j].gid
  <2> DEFINE status == IF req[r].amount = payments[k].amount
                       THEN "REFUNDED" ELSE "PARTIALLY_REFUNDED"
             row == [payments[k] EXCEPT !.status = status, !.refund = req[r].amount]
  <2>1. payments' = [payments EXCEPT ![k] = row]
    BY DEF CommitRefund
  <2>2. payments[k] \in PaymentRow /\ k \in 1 .. Len(payments)
    BY <1>0, ElementOfSeq, LenProperties
  <2> HIDE DEF status
  <2>3. row.receipt = payments[k].receipt /\ row.gid = payments[k].gid
    BY <2>2 DEF PaymentRow
  <2>4. payments' \in Seq(PaymentRow)
    BY DEF Typed, TypeOK
  <2> HIDE DEF row, k
  <2>5. DOMAIN payments' = DOMAIN payments
    BY <2>1
  <2>6. Len(payments') = Len(payments) /\ Len(payments) \in Nat
    BY <1>0, <2>4, <2>5, LenProperties
  <2> QED BY <1>0, <2>1, <2>3, <2>5, <2>6
<1>2. ReceiptsInOrder' /\ GatewayPaymentRecordedOnce'
  BY <1>1 DEF Ledger, ReceiptsInOrder, GatewayPaymentRecordedOnce
<1>3. PaidWithinReceipts'
  <2> SUFFICES ASSUME NEW j \in Invoices PROVE invoices'[j].paid <= received[j]
    BY <1>0 DEF PaidWithinReceipts
  <2>1. invoices[j].paid <= received[j] /\ invoices[j].paid \in Nat /\ received[j] \in Nat
    BY DEF Ledger, PaidWithinReceipts, Typed, TypeOK, InvoiceRow
  <2>2. CASE j # i
    <3>1. invoices'[j] = invoices[j]
      BY <2>2 DEF CommitRefund, Typed, TypeOK
    <3> QED BY <2>1, <3>1
  <2>3. CASE j = i
    <3>1. invoices'[i] = RefundedRow(invoices[i], req[r].snap, req[r].amount)
      BY <1>0 DEF CommitRefund, Typed, TypeOK
    <3>2. invoices'[i].paid = AtLeast0(req[r].snap.paid - req[r].amount)
      BY <1>0, <3>1 DEF RefundedRow, Typed, TypeOK, InvoiceRow
    <3> QED BY <1>0, <2>1, <2>3, <3>2 DEF AtLeast0
  <2> QED BY <2>2, <2>3
<1>4. KnownOK'
  <2>1. \A j \in Invoices : received'[j] \in Nat /\ received'[j] >= received[j]
    BY <1>0 DEF Typed, TypeOK
  <2> QED BY <1>1, <2>1, OthersKnow DEF CommitRefund
<1> QED BY <1>2, <1>3, <1>4 DEF Ledger

LEMMA StepLedger == Typed /\ Typed' /\ Ledger /\ [Next]_vars => Ledger'
BY QuietSteps, QuietKeepsLedger, PaymentKeepsLedger, RefundKeepsLedger

THEOREM LedgerInvariant == Spec => [](Typed /\ Ledger)
<1>1. Init => Typed /\ Ledger
  BY InitTyped, InitLedger
<1>2. Typed /\ Ledger /\ [Next]_vars => (Typed /\ Ledger)'
  BY StepTyped, StepLedger
<1> QED BY <1>1, <1>2, PTL DEF Spec

\* However payments are counted, raced, retried or abandoned, receipt numbers run 1, 2, 3, ...
\* in the order of entry (applyPayment).
THEOREM ReceiptNumbering == Spec => []ReceiptsInOrder
<1>1. Ledger => ReceiptsInOrder
  BY DEF Ledger
<1> QED BY <1>1, LedgerInvariant, PTL

\* However often and by whomever a gateway payment is verified, it is entered once
\* (verifyRazorpay, recordPayment).
THEOREM SingleEntry == Spec => []GatewayPaymentRecordedOnce
<1>1. Ledger => GatewayPaymentRecordedOnce
  BY DEF Ledger
<1> QED BY <1>1, LedgerInvariant, PTL

\* Whatever handlers overwrite, no invoice shows more paid than its receipts (applyPayment,
\* refundPayment, updateInvoice, voidInvoice, applyLateFees).
THEOREM NothingPaidWithoutReceipt == Spec => []PaidWithinReceipts
<1>1. Ledger => PaidWithinReceipts
  BY DEF Ledger
<1> QED BY <1>1, LedgerInvariant, PTL

-----------------------------------------------------------------------------
(* One request at a time.                                                  *)

OneAtATime == \A r, s \in Requests : r = s

Booked(v) ==
    \/ v.balance = AtLeast0(v.total - v.paid)
    \/ v.status = "CANCELLED" /\ v.balance = 0

Agrees(v) ==
    /\ v.status = "PAID" => v.balance = 0
    /\ v.status = "PARTIAL" => v.paid > 0 /\ v.balance > 0
    /\ v.status \in {"PENDING", "CANCELLED", "REFUNDED"} => v.paid = 0

\* The status is held to the money unless an edit was told to write it.
RowOK(v) == Booked(v) /\ (~v.byHand => Agrees(v))

\* What a handler read of its invoice is still what the invoice says.
Holds(q, row) ==
    /\ row.status # "ABSENT"
    /\ q.stage \in {"checked", "counted", "refundTx", "update"} =>
          /\ q.snap.status = row.status /\ q.snap.paid = row.paid
          /\ q.snap.byHand = row.byHand
    /\ q.stage \in {"gateway", "refund", "refundTx"} => q.amount > 0
    /\ q.stage \in {"checked", "counted", "refundTx"} => q.snap.total = row.total
    /\ q.stage \in {"checked", "counted"} => q.amount <= AtLeast0(row.total - row.paid)
    /\ q.stage = "update" => q.status \in StatusInputs /\ row.status # "PAID"
    /\ q.stage = "void" => row.paid = 0
    /\ q.stage = "sweep" => q.snap.paid = row.paid

Serial ==
    /\ \A i \in Invoices : RowOK(invoices[i])
    /\ \A i \in Invoices : invoices[i].status = "ABSENT" => invoices[i].paid = 0
    /\ \A r \in Requests : req[r].stage # "idle" => Holds(req[r], invoices[req[r].inv])
    /\ \A k \in DOMAIN payments : invoices[payments[k].inv].status # "ABSENT"

\* The rows the handlers write, from an invoice that is as they read it.
LEMMA PaidRowOK ==
    ASSUME NEW row \in InvoiceRow, NEW snap \in InvoiceRow, NEW amount \in Nat, RowOK(row),
           row.status # "ABSENT", snap.status = row.status, snap.paid = row.paid,
           snap.total = row.total, snap.byHand = row.byHand
    PROVE  /\ RowOK(PaidRow(row, snap, amount))
           /\ PaidRow(row, snap, amount).status # "ABSENT"
<1> DEFINE paid == snap.paid + amount
           balance == AtLeast0(snap.total - paid)
           status == IF balance = 0 THEN "PAID" ELSE IF paid > 0 THEN "PARTIAL" ELSE snap.status
           new == PaidRow(row, snap, amount)
<1>1. /\ new.paid = paid /\ new.balance = balance /\ new.status = status
      /\ new.total = row.total /\ new.byHand = (balance # 0 /\ paid = 0 /\ snap.byHand)
  BY DEF PaidRow, InvoiceRow
<1>2. /\ snap.paid \in Nat /\ row.total \in Nat /\ paid \in Nat /\ balance \in Nat
  BY DEF InvoiceRow, AtLeast0
<1>3. balance = AtLeast0(row.total - paid)
  OBVIOUS
<1>4. paid = 0 => row.paid = 0 /\ balance = AtLeast0(row.total - row.paid)
  BY <1>2 DEF InvoiceRow
<1> HIDE DEF new, paid, balance
<1>5. Booked(new)
  BY <1>1, <1>3 DEF Booked
<1>6. ~new.byHand => balance = 0 \/ paid # 0 \/ ~row.byHand
  BY <1>1, Zenon
<1>8. balance = 0 \/ paid # 0 \/ ~row.byHand => Agrees(new)
  <2>1. CASE balance = 0 \/ paid # 0
    BY <1>1, <1>2, <1>4, <2>1 DEF Agrees
  <2>2. CASE Agrees(row)
    BY <1>1, <1>2, <1>4, <2>2 DEF RowOK, Booked, Agrees
  <2> QED BY <2>1, <2>2, Zenon DEF RowOK
<1>7. new.status # "ABSENT"
  BY <1>1
<1> QED BY <1>5, <1>6, <1>7, <1>8, Zenon DEF RowOK, new

LEMMA RefundedRowOK ==
    ASSUME NEW row \in InvoiceRow, NEW snap \in InvoiceRow, NEW amount \in Nat,
           snap.total = row.total
    PROVE  /\ RowOK(RefundedRow(row, snap, amount))
           /\ RefundedRow(row, snap, amount).status # "ABSENT"
<1> DEFINE paid == AtLeast0(snap.paid - amount)
           balance == AtLeast0(snap.total - paid)
           status == IF balance = 0 THEN "PAID" ELSE IF paid = 0 THEN "REFUNDED" ELSE "PARTIAL"
           new == RefundedRow(row, snap, amount)
<1>1. /\ new.paid = paid /\ new.balance = balance /\ new.status = status
      /\ new.total = row.total
  BY DEF RefundedRow, InvoiceRow
<1>2. paid \in Nat /\ balance \in Nat
  BY DEF InvoiceRow, AtLeast0
<1>3. balance = AtLeast0(row.total - paid)
  OBVIOUS
<1> HIDE DEF new, paid, balance
<1>4. Booked(new)
  BY <1>1, <1>3 DEF Booked
<1>5. Agrees(new) /\ new.status # "ABSENT"
  BY <1>1, <1>2 DEF Agrees
<1> QED BY <1>4, <1>5 DEF RowOK, new

LEMMA EditedRowOK ==
    ASSUME NEW row \in InvoiceRow, NEW snap \in InvoiceRow, NEW input \in StatusInputs,
           RowOK(row), row.status \notin {"ABSENT", "PAID"},
           snap.status = row.status, snap.paid = row.paid, snap.byHand = row.byHand
    PROVE  /\ RowOK(EditedRow(row, snap, input))
           /\ EditedRow(row, snap, input).status # "ABSENT"
<1> DEFINE total == InvoiceTotal(snap.charge, snap.late)
           balance == AtLeast0(total - snap.paid)
           status == IF input # "KEEP" THEN input
                     ELSE IF balance = 0 THEN "PAID"
                     ELSE IF snap.paid > 0 THEN "PARTIAL" ELSE snap.status
           new == EditedRow(row, snap, input)
<1>1. /\ new.paid = row.paid /\ new.balance = balance /\ new.status = status
      /\ new.total = total
      /\ new.byHand = (input # "KEEP" \/ (balance # 0 /\ snap.paid = 0 /\ snap.byHand))
  BY DEF EditedRow, InvoiceRow
<1>2. row.paid \in Nat /\ balance \in Nat
  BY DEF InvoiceRow, AtLeast0, InvoiceTotal
<1>3. balance = AtLeast0(total - row.paid)
  OBVIOUS
<1>4. input \in FeeStatus \cup {"KEEP"}
  BY FeeAssumption
<1> HIDE DEF new, total, balance
<1>5. Booked(new)
  BY <1>1, <1>3 DEF Booked
<1>6. ~new.byHand => input = "KEEP" /\ (balance = 0 \/ row.paid # 0 \/ ~row.byHand)
  BY <1>1, Zenon
<1>8. input = "KEEP" /\ (balance = 0 \/ row.paid # 0 \/ ~row.byHand) => Agrees(new)
  <2>1. CASE input = "KEEP" /\ (balance = 0 \/ row.paid # 0)
    BY <1>1, <1>2, <2>1 DEF Agrees
  <2>2. CASE input = "KEEP" /\ Agrees(row)
    BY <1>1, <1>2, <2>2 DEF Agrees
  <2> QED BY <2>1, <2>2, Zenon DEF RowOK
<1>7. new.status # "ABSENT"
  BY <1>1, <1>4 DEF FeeStatus
<1> QED BY <1>5, <1>6, <1>7, <1>8, Zenon DEF RowOK, new

LEMMA LateRowOK ==
    ASSUME NEW row \in InvoiceRow, NEW snap \in InvoiceRow, snap.paid = row.paid
    PROVE  RowOK(LateRow(row, snap)) /\ LateRow(row, snap).status # "ABSENT"
<1> DEFINE total == InvoiceTotal(snap.charge, LateFee)
           balance == AtLeast0(total - snap.paid)
           new == LateRow(row, snap)
<1>1. /\ new.paid = row.paid /\ new.balance = balance /\ new.status = "OVERDUE"
      /\ new.total = total
  BY DEF LateRow, InvoiceRow
<1>2. balance = AtLeast0(total - row.paid)
  OBVIOUS
<1> HIDE DEF new, total, balance
<1>3. Booked(new)
  BY <1>1, <1>2 DEF Booked
<1>4. Agrees(new) /\ new.status # "ABSENT"
  BY <1>1 DEF Agrees
<1> QED BY <1>3, <1>4 DEF RowOK, new

LEMMA VoidRowOK ==
    ASSUME NEW row \in InvoiceRow, row.paid = 0,
           NEW new, new = [row EXCEPT !.status = "CANCELLED", !.balance = 0, !.byHand = FALSE]
    PROVE  RowOK(new) /\ new.status # "ABSENT"
BY DEF RowOK, Booked, Agrees, InvoiceRow

LEMMA OwnersKnown ==
    ASSUME Typed
    PROVE  \A k \in DOMAIN payments :
              payments[k] \in PaymentRow /\ payments[k].inv \in Invoices
<1>1. \A k \in DOMAIN payments : payments[k] \in PaymentRow
  BY ElementOfSeq, LenProperties DEF Typed, TypeOK
<1> QED BY <1>1 DEF PaymentRow

\* A step that writes no table leaves the one request at work with what it has just read.
LEMMA ReadKeepsSerial ==
    ASSUME OneAtATime, Typed, Serial, NEW r \in Requests, NEW q,
           req' = [req EXCEPT ![r] = q], UNCHANGED <<invoices, payments>>,
           q.stage # "idle" => Holds(q, invoices[q.inv])
    PROVE  Serial'
<1>1. \A s \in Requests : req'[s] = q
  BY DEF OneAtATime, Typed, TypeOK
<1> QED BY <1>1 DEF Serial

\* A step that writes one invoice ends the request that read it, and no other is at work.
LEMMA WriteKeepsSerial ==
    ASSUME OneAtATime, Typed, Serial, NEW r \in Requests, Finish(r), NEW i \in Invoices, NEW row,
           invoices' = [invoices EXCEPT ![i] = row], RowOK(row), row.status # "ABSENT",
           \A k \in DOMAIN payments' :
               \/ payments'[k].inv = i
               \/ k \in DOMAIN payments /\ payments'[k].inv = payments[k].inv,
           \A k \in DOMAIN payments : payments[k].inv \in Invoices
    PROVE  Serial'
<1>1. \A s \in Requests : req'[s] = Idle
  BY DEF OneAtATime, Finish, Typed, TypeOK
<1>2. \A j \in Invoices : invoices'[j] = IF j = i THEN row ELSE invoices[j]
  BY DEF Typed, TypeOK
<1>3. \A j \in Invoices : RowOK(invoices'[j])
  BY <1>2 DEF Serial
<1>4. \A k \in DOMAIN payments' : invoices'[payments'[k].inv].status # "ABSENT"
  BY <1>2 DEF Serial
<1>5. \A j \in Invoices : invoices'[j].status = "ABSENT" => invoices'[j].paid = 0
  BY <1>2 DEF Serial
<1> QED BY <1>1, <1>3, <1>4, <1>5, IdleTyped DEF Serial

LEMMA ServeKeepsSerial ==
    ASSUME OneAtATime, Typed, Serial, NEW r \in Requests, Serve(r) PROVE Serial'
<1> DEFINE q == req[r]
           inv == q.inv
<1>0. /\ q \in RequestState /\ q.snap \in InvoiceRow /\ q.amount \in Nat
      /\ \A i \in Invoices : invoices[i] \in InvoiceRow /\ RowOK(invoices[i])
      /\ \A k \in DOMAIN payments : payments[k] \in PaymentRow /\ payments[k].inv \in Invoices
  BY OwnersKnown DEF Typed, TypeOK, RequestState, Serial
<1>1. q.stage # "idle" => inv \in Invoices /\ Holds(q, invoices[inv])
  BY DEF Typed, RequestOK, Serial
<1>2. ASSUME NEW i \in Invoices, NEW a \in PayAmounts, NEW g \in Checkouts \cup {None},
             RecordPayment(r, i, a, g)
      PROVE  Serial'
  <2> DEFINE new == [Idle EXCEPT !.stage = "checked", !.inv = i, !.amount = a, !.gid = g,
                                 !.snap = MoneyColumns(invoices[i])]
  <2>1. req' = [req EXCEPT ![r] = new] /\ UNCHANGED <<invoices, payments>>
    BY <1>2 DEF RecordPayment, Begin, Books
  <2>2. new.inv = i /\ Holds(new, invoices[i])
    BY <1>0, <1>2 DEF RecordPayment, Payable, Holds, Idle, MoneyColumns, NoInvoice, RowOK, Booked
  <2> HIDE DEF new
  <2> QED BY <2>1, <2>2, ReadKeepsSerial
<1>3. ASSUME NEW i \in Invoices, NEW g \in Checkouts, VerifyRazorpay(r, i, g) PROVE Serial'
  <2> DEFINE new == [Idle EXCEPT !.stage = "submitted", !.inv = i,
                                 !.amount = invoices[i].balance, !.gid = g]
  <2>1. req' = [req EXCEPT ![r] = new] /\ UNCHANGED <<invoices, payments>>
    BY <1>3 DEF VerifyRazorpay, Begin, Books
  <2>2. new.inv = i /\ Holds(new, invoices[i])
    BY <1>3 DEF VerifyRazorpay, Holds, Idle
  <2> HIDE DEF new
  <2> QED BY <2>1, <2>2, ReadKeepsSerial
<1>4. CASE CheckPayment(r)
  <2> DEFINE new == [q EXCEPT !.stage = "checked", !.snap = MoneyColumns(invoices[inv])]
  <2>1. req' = [req EXCEPT ![r] = new] /\ UNCHANGED <<invoices, payments>>
    BY <1>0, <1>4 DEF CheckPayment, Books, RequestState, Typed, TypeOK
  <2>2. new.inv = inv /\ Holds(new, invoices[inv])
    BY <1>0, <1>1, <1>4
       DEF CheckPayment, Payable, Holds, MoneyColumns, NoInvoice, RequestState, RowOK, Booked
  <2> HIDE DEF new
  <2> QED BY <2>1, <2>2, ReadKeepsSerial
<1>5. CASE CountReceipts(r)
  <2> DEFINE new == [q EXCEPT !.stage = "counted", !.count = Len(payments)]
  <2>1. req' = [req EXCEPT ![r] = new] /\ UNCHANGED <<invoices, payments>>
    BY <1>0, <1>5 DEF CountReceipts, Books, RequestState, Typed, TypeOK
  <2>2. new.inv = inv /\ Holds(new, invoices[inv])
    BY <1>0, <1>1, <1>5 DEF CountReceipts, Holds, RequestState
  <2> HIDE DEF new
  <2> QED BY <2>1, <2>2, ReadKeepsSerial
<1>6. CASE CommitPayment(r)
  <2> DEFINE row == PaidRow(invoices[inv], q.snap, q.amount)
             p == [inv |-> inv, amount |-> q.amount, receipt |-> q.count + 1, gid |-> q.gid,
                   status |-> "CAPTURED", refund |-> 0]
  <2>1. /\ Finish(r) /\ invoices' = [invoices EXCEPT ![inv] = row] /\ inv \in Invoices
        /\ payments' = Append(payments, p) /\ payments \in Seq(PaymentRow)
    BY <1>1, <1>6 DEF CommitPayment, Typed, TypeOK
  <2>2. RowOK(row) /\ row.status # "ABSENT"
    BY <1>0, <1>1, <1>6, PaidRowOK DEF CommitPayment, Holds
  <2>3. p.inv = inv
    OBVIOUS
  <2> HIDE DEF row, p
  <2>4. \A k \in DOMAIN payments' :
           \/ payments'[k].inv = inv
           \/ k \in DOMAIN payments /\ payments'[k].inv = payments[k].inv
    BY <2>1, <2>3, LenProperties
  <2> QED BY <1>0, <2>1, <2>2, <2>4, WriteKeepsSerial
<1>7. ASSUME NEW k \in DOMAIN payments, NEW a \in PayAmounts, RefundPayment(r, k, a)
      PROVE  Serial'
  <2> DEFINE new == [Idle EXCEPT
                       !.stage = IF payments[k].gid # None THEN "gateway" ELSE "refund",
                       !.inv = payments[k].inv, !.gid = payments[k].gid,
                       !.amount = a, !.pay = k]
  <2>1. req' = [req EXCEPT ![r] = new] /\ UNCHANGED <<invoices, payments>>
    BY <1>7 DEF RefundPayment, Begin, Books
  <2>2. new.inv = payments[k].inv /\ Holds(new, invoices[payments[k].inv])
    BY FeeAssumption DEF Holds, Idle, Serial
  <2> HIDE DEF new
  <2> QED BY <2>1, <2>2, ReadKeepsSerial
<1>8. CASE GatewayRefund(r)
  <2> DEFINE new == [q EXCEPT !.stage = "refund"]
  <2>1. req' = [req EXCEPT ![r] = new] /\ UNCHANGED <<invoices, payments>>
    BY <1>0, <1>8 DEF GatewayRefund, RequestState, Typed, TypeOK
  <2>2. new.inv = inv /\ Holds(new, invoices[inv])
    BY <1>0, <1>1, <1>8 DEF GatewayRefund, Holds, RequestState
  <2> HIDE DEF new
  <2> QED BY <2>1, <2>2, ReadKeepsSerial
<1>9. CASE BeginRefundTx(r)
  <2> DEFINE new == [q EXCEPT !.stage = "refundTx", !.snap = MoneyColumns(invoices[inv])]
  <2>1. req' = [req EXCEPT ![r] = new] /\ UNCHANGED <<invoices, payments>>
    BY <1>0, <1>9 DEF BeginRefundTx, Books, RequestState, Typed, TypeOK
  <2>2. new.inv = inv /\ Holds(new, invoices[inv])
    BY <1>0, <1>1, <1>9 DEF BeginRefundTx, Holds, MoneyColumns, NoInvoice, RequestState
  <2> HIDE DEF new
  <2> QED BY <2>1, <2>2, ReadKeepsSerial
<1>10. CASE CommitRefund(r)
  <2> DEFINE row == RefundedRow(invoices[inv], q.snap, q.amount)
             status == IF q.amount = payments[q.pay].amount
                       THEN "REFUNDED" ELSE "PARTIALLY_REFUNDED"
             p == [payments[q.pay] EXCEPT !.status = status, !.refund = q.amount]
  <2>1. /\ Finish(r) /\ invoices' = [invoices EXCEPT ![inv] = row] /\ inv \in Invoices
        /\ payments' = [payments EXCEPT ![q.pay] = p] /\ q.pay \in DOMAIN payments
    BY <1>1, <1>10 DEF CommitRefund, Typed, RequestOK
  <2>2. RowOK(row) /\ row.status # "ABSENT"
    BY <1>0, <1>1, <1>10, RefundedRowOK DEF CommitRefund, Holds
  <2>3. p.inv = payments[q.pay].inv
    BY <1>0, <2>1 DEF PaymentRow
  <2> HIDE DEF row, p, q
  <2>4. \A k \in DOMAIN payments' :
           k \in DOMAIN payments /\ payments'[k].inv = payments[k].inv
    BY <2>1, <2>3
  <2> QED BY <1>0, <2>1, <2>2, <2>4, WriteKeepsSerial
<1>11. ASSUME NEW i \in Invoices, NEW c \in Charges, NEW late \in {0, LateFee},
              NEW due \in {FALSE, invoices[i].pastDue}, NEW s \in StatusInputs,
              UpdateInvoice(r, i, c, late, due, s)
       PROVE  Serial'
  <2> DEFINE kept == [invoices[i] EXCEPT !.charge = c, !.late = late, !.pastDue = due,
                                         !.total = 0, !.balance = 0]
             new == [Idle EXCEPT !.stage = "update", !.inv = i, !.status = s, !.snap = kept]
  <2>1. req' = [req EXCEPT ![r] = new] /\ UNCHANGED <<invoices, payments>>
    BY <1>11 DEF UpdateInvoice, Begin, Books
  <2>2. /\ kept.status = invoices[i].status /\ kept.paid = invoices[i].paid
        /\ kept.byHand = invoices[i].byHand
    BY <1>0 DEF InvoiceRow
  <2> HIDE DEF kept
  <2>3. new.inv = i /\ Holds(new, invoices[i])
    BY <1>11, <2>2 DEF UpdateInvoice, Holds, Idle
  <2> HIDE DEF new
  <2> QED BY <2>1, <2>3, ReadKeepsSerial
<1>12. CASE CommitUpdate(r)
  <2> DEFINE row == EditedRow(invoices[inv], q.snap, q.status)
  <2>1. /\ Finish(r) /\ invoices' = [invoices EXCEPT ![inv] = row] /\ inv \in Invoices
        /\ UNCHANGED payments
    BY <1>1, <1>12 DEF CommitUpdate
  <2>2. RowOK(row) /\ row.status # "ABSENT"
    BY <1>0, <1>1, <1>12, EditedRowOK DEF CommitUpdate, Holds
  <2> HIDE DEF row, q
  <2> QED BY <1>0, <2>1, <2>2, WriteKeepsSerial
<1>13. ASSUME NEW i \in Invoices, VoidInvoice(r, i) PROVE Serial'
  <2> DEFINE new == [Idle EXCEPT !.stage = "void", !.inv = i]
  <2>1. req' = [req EXCEPT ![r] = new] /\ UNCHANGED <<invoices, payments>>
    BY <1>13 DEF VoidInvoice, Begin, Books
  <2>2. new.inv = i /\ Holds(new, invoices[i])
    BY <1>13 DEF VoidInvoice, Voidable, Holds, Idle
  <2> HIDE DEF new
  <2> QED BY <2>1, <2>2, ReadKeepsSerial
<1>14. CASE CommitVoid(r)
  <2> DEFINE row == [invoices[inv] EXCEPT !.status = "CANCELLED", !.balance = 0,
                                           !.byHand = FALSE]
  <2>1. /\ Finish(r) /\ inv \in Invoices /\ UNCHANGED payments
        /\ invoices' = [invoices EXCEPT ![inv] = row]
    BY <1>0, <1>1, <1>14 DEF CommitVoid, Typed, TypeOK
  <2>2. invoices[inv] \in InvoiceRow /\ invoices[inv].paid = 0
    BY <1>0, <1>1, <1>14 DEF CommitVoid, Holds
  <2>3. RowOK(row) /\ row.status # "ABSENT"
    BY <2>2, VoidRowOK, Zenon
  <2> HIDE DEF row, q
  <2> QED BY <1>0, <2>1, <2>3, WriteKeepsSerial
<1>15. ASSUME NEW i \in Invoices, ReadOverdue(r, i) PROVE Serial'
  <2> DEFINE kept == [NoInvoice EXCEPT !.charge = invoices[i].charge, !.paid = invoices[i].paid]
             new == [Idle EXCEPT !.stage = "sweep", !.inv = i, !.snap = kept]
  <2>1. req' = [req EXCEPT ![r] = new] /\ UNCHANGED <<invoices, payments>>
    BY <1>15 DEF ReadOverdue, Begin, Books
  <2>2. kept.paid = invoices[i].paid
    BY DEF NoInvoice
  <2> HIDE DEF kept
  <2>3. new.inv = i /\ Holds(new, invoices[i])
    BY <1>15, <2>2 DEF ReadOverdue, Holds, Idle
  <2> HIDE DEF new
  <2> QED BY <2>1, <2>3, ReadKeepsSerial
<1>16. CASE ApplyLateFee(r)
  <2> DEFINE row == LateRow(invoices[inv], q.snap)
  <2>1. /\ Finish(r) /\ invoices' = [invoices EXCEPT ![inv] = row] /\ inv \in Invoices
        /\ UNCHANGED payments
    BY <1>1, <1>16 DEF ApplyLateFee
  <2>2. RowOK(row) /\ row.status # "ABSENT"
    BY <1>0, <1>1, <1>16, LateRowOK DEF ApplyLateFee, Holds
  <2> HIDE DEF row, q
  <2> QED BY <1>0, <2>1, <2>2, WriteKeepsSerial
<1>17. CASE Abandon(r)
  BY <1>17, IdleTyped, ReadKeepsSerial DEF Abandon, Finish, Books
<1> QED BY <1>2, <1>3, <1>4, <1>5, <1>6, <1>7, <1>8, <1>9, <1>10, <1>11, <1>12, <1>13,
           <1>14, <1>15, <1>16, <1>17 DEF Serve

\* Raising an invoice and the passing of a due date change no money that a request holds.
LEMMA WorldKeepsSerial ==
    ASSUME Typed, Serial, NEW i \in Invoices, NEW row \in InvoiceRow,
           invoices' = [invoices EXCEPT ![i] = row], UNCHANGED <<payments, req>>,
           RowOK(row),
           \/ invoices[i].status = "ABSENT" /\ row.status # "ABSENT"
           \/ /\ row.status = invoices[i].status /\ row.paid = invoices[i].paid
              /\ row.total = invoices[i].total /\ row.byHand = invoices[i].byHand
    PROVE  Serial'
<1>1. \A j \in Invoices : invoices'[j] = IF j = i THEN row ELSE invoices[j]
  BY DEF Typed, TypeOK
<1>2. \A k \in DOMAIN payments : payments[k].inv \in Invoices
  BY OwnersKnown
<1>3. \A r \in Requests : req[r].stage # "idle" => req[r].inv \in Invoices
  BY DEF Typed, RequestOK
<1>4. \A r \in Requests : req[r].stage # "idle" => Holds(req[r], invoices'[req[r].inv])
  BY <1>1, <1>3 DEF Serial, Holds
<1>5. \A k \in DOMAIN payments : invoices'[payments[k].inv].status # "ABSENT"
  BY <1>1, <1>2 DEF Serial
<1>6. \A j \in Invoices : RowOK(invoices'[j])
  BY <1>1 DEF Serial
<1>7. \A j \in Invoices : invoices'[j].status = "ABSENT" => invoices'[j].paid = 0
  BY <1>1 DEF Serial
<1> QED BY <1>4, <1>5, <1>6, <1>7 DEF Serial

LEMMA StepSerial == ASSUME OneAtATime, Typed, Serial, [Next]_vars PROVE Serial'
<1>1. ASSUME NEW i \in Invoices, NEW c \in Charges, CreateInvoice(i, c) PROVE Serial'
  <2> DEFINE total == InvoiceTotal(c, 0)
             row == [NoInvoice EXCEPT !.status = "PENDING", !.charge = c,
                                      !.total = total, !.balance = total]
  <2>1. total \in Nat /\ c \in Int
    BY FeeAssumption, AtLeast0Nat DEF InvoiceTotal
  <2>2. /\ row \in InvoiceRow /\ row.status = "PENDING" /\ row.paid = 0
        /\ row.balance = total /\ row.total = total
    BY <2>1 DEF NoInvoice, InvoiceRow, FeeStatus
  <2>3. invoices' = [invoices EXCEPT ![i] = row] /\ UNCHANGED <<payments, req>>
    BY <1>1 DEF CreateInvoice
  <2>4. invoices[i].status = "ABSENT"
    BY <1>1 DEF CreateInvoice
  <2> HIDE DEF row, total
  <2>5. RowOK(row)
    BY <2>1, <2>2 DEF RowOK, Booked, Agrees, AtLeast0
  <2> QED BY <2>2, <2>3, <2>4, <2>5, WorldKeepsSerial
<1>2. ASSUME NEW i \in Invoices, DueDatePasses(i) PROVE Serial'
  <2> DEFINE row == [invoices[i] EXCEPT !.pastDue = TRUE]
  <2>1. /\ row \in InvoiceRow /\ row.status = invoices[i].status /\ row.paid = invoices[i].paid
        /\ row.total = invoices[i].total /\ row.balance = invoices[i].balance
        /\ row.byHand = invoices[i].byHand
    BY DEF Typed, TypeOK, InvoiceRow
  <2>2. invoices' = [invoices EXCEPT ![i] = row] /\ UNCHANGED <<payments, req>>
    BY <1>2 DEF DueDatePasses, Typed, TypeOK
  <2> HIDE DEF row
  <2>3. RowOK(row)
    BY <2>1 DEF Serial, RowOK, Booked, Agrees
  <2> QED BY <2>1, <2>2, <2>3, WorldKeepsSerial
<1>3. ASSUME UNCHANGED <<invoices, payments, req>> PROVE Serial'
  BY <1>3 DEF Serial
<1>4. ASSUME NEW r \in Requests, Serve(r) PROVE Serial'
  BY <1>4, ServeKeepsSerial
<1> QED BY <1>1, <1>2, <1>3, <1>4 DEF Next, InitiateRazorpay, GatewayCapture, vars

LEMMA AlwaysSerial == ASSUME OneAtATime PROVE Spec => []Serial
<1>1. Init => Serial
  BY DEF Init, Serial, NoInvoice, Idle, RowOK, Booked, Agrees, AtLeast0
<1>2. Spec => []Typed
  BY InitTyped, StepTyped, PTL DEF Spec
<1>3. Typed /\ Serial /\ [Next]_vars => Serial'
  BY StepSerial
<1> QED BY <1>1, <1>2, <1>3, PTL DEF Spec

\* Served one at a time, the requests keep the balance of every invoice what is left of its
\* total, through payments, refunds, edits, late fees and crashes (fees.service.ts).
THEOREM BooksStayBalanced == ASSUME OneAtATime PROVE Spec => []BooksBalanced
<1>1. ASSUME Serial PROVE BooksBalanced
  <2>1. \A i \in Invoices : Booked(invoices[i])
    BY <1>1, Zenon DEF Serial, RowOK
  <2> QED BY <2>1, Zenon DEF Booked, BooksBalanced
<1> QED BY <1>1, AlwaysSerial, PTL

\* Served one at a time, they also keep the status true to the money wherever a handler
\* derived it - which every handler but an edit that names a status does - whatever
\* statuses edits have written before (updateInvoice takes any, fees.service.ts).
THEOREM StatusStaysTrue == ASSUME OneAtATime PROVE Spec => []StatusAgrees
<1>1. ASSUME Serial PROVE StatusAgrees
  <2>1. \A i \in Invoices : ~invoices[i].byHand => Agrees(invoices[i])
    BY <1>1, Zenon DEF Serial, RowOK
  <2> QED BY <2>1, Zenon DEF Agrees, StatusAgrees
<1> QED BY <1>1, AlwaysSerial, PTL

-----------------------------------------------------------------------------
(* The account book.                                                       *)

Totals == [i \in Invoices |-> invoices[i].total]
Paids == [i \in Invoices |-> invoices[i].paid]

LEMMA CollectSays ==
    ASSUME NEW i \in Invoices, NEW n, n = received'[i] - received[i], n <= Totals[i] - Paids[i],
           Paids' = [Paids EXCEPT ![i] = @ + n], received' = [received EXCEPT ![i] = @ + n],
           UNCHANGED <<Totals, returned>>, n > 0
    PROVE  Account!Next
<1>1. Account!Collect(i, received'[i] - received[i])
  BY DEF Account!Collect, Totals, Paids
<1> QED BY <1>1, Zenon DEF Account!Next

LEMMA ReturnSays ==
    ASSUME NEW i \in Invoices, NEW n, n = returned'[i] - returned[i], n > 0,
           Paids' = [Paids EXCEPT ![i] = IF @ < n THEN 0 ELSE @ - n],
           returned' = [returned EXCEPT ![i] = @ + n],
           UNCHANGED <<Totals, received>>
    PROVE  Account!Next
<1>1. Account!Return(i, returned'[i] - returned[i])
  BY DEF Account!Return, Totals, Paids
<1> QED BY <1>1, Zenon DEF Account!Next, Totals, Paids

LEMMA PriceSays ==
    ASSUME NEW i \in Invoices, NEW t, t = Totals'[i], Totals' = [Totals EXCEPT ![i] = t],
           UNCHANGED <<Paids, received, returned>>
    PROVE  Account!Next
<1>1. Account!Price(i, Totals'[i])
  BY DEF Account!Price, Totals, Paids
<1> QED BY <1>1, Zenon DEF Account!Next, Totals, Paids

LEMMA OneEntry ==
    ASSUME NEW S, NEW f, NEW g, NEW i \in S, NEW v,
           f = [j \in S |-> f[j]], g = [j \in S |-> g[j]],
           \A j \in S : g[j] = IF j = i THEN v ELSE f[j]
    PROVE  g = [f EXCEPT ![i] = v]
OBVIOUS

\* What the account book sees of a step that writes one invoice.
LEMMA BookSees ==
    ASSUME Typed, NEW i \in Invoices, NEW row, invoices' = [invoices EXCEPT ![i] = row]
    PROVE  /\ Totals' = [Totals EXCEPT ![i] = row.total]
           /\ Paids' = [Paids EXCEPT ![i] = row.paid]
<1>1. \A j \in Invoices : invoices'[j] = IF j = i THEN row ELSE invoices[j]
  BY DEF Typed, TypeOK
<1>2. Totals' = [Totals EXCEPT ![i] = row.total]
  <2>1. \A j \in Invoices : Totals'[j] = IF j = i THEN row.total ELSE Totals[j]
    BY <1>1 DEF Totals
  <2>2. Totals = [j \in Invoices |-> Totals[j]] /\ Totals' = [j \in Invoices |-> Totals'[j]]
    BY DEF Totals
  <2> QED BY <2>1, <2>2, OneEntry
<1>3. Paids' = [Paids EXCEPT ![i] = row.paid]
  <2>1. \A j \in Invoices : Paids'[j] = IF j = i THEN row.paid ELSE Paids[j]
    BY <1>1 DEF Paids
  <2>2. Paids = [j \in Invoices |-> Paids[j]] /\ Paids' = [j \in Invoices |-> Paids'[j]]
    BY DEF Paids
  <2> QED BY <2>1, <2>2, OneEntry
<1> QED BY <1>2, <1>3

LEMMA Priced ==
    ASSUME Typed, UNCHANGED <<received, returned>>, NEW i \in Invoices, NEW row,
           invoices' = [invoices EXCEPT ![i] = row], row.paid = invoices[i].paid
    PROVE  Account!Next
<1>1. Totals' = [Totals EXCEPT ![i] = row.total] /\ Paids' = [Paids EXCEPT ![i] = row.paid]
  BY BookSees
<1>2. Totals'[i] = row.total /\ Paids[i] = row.paid
  BY <1>1 DEF Totals, Paids
<1>3. Paids' = Paids
  BY <1>1, <1>2 DEF Paids
<1> QED BY <1>1, <1>2, <1>3, PriceSays

LEMMA Collected ==
    ASSUME Typed, NEW i \in Invoices, NEW n \in Nat, NEW row,
           invoices' = [invoices EXCEPT ![i] = row],
           received' = [received EXCEPT ![i] = @ + n], UNCHANGED returned,
           row.total = invoices[i].total, row.paid = invoices[i].paid + n,
           n <= AtLeast0(invoices[i].total - invoices[i].paid)
    PROVE  Account!Next
<1>1. /\ invoices[i].total \in Nat /\ invoices[i].paid \in Nat /\ received[i] \in Nat
      /\ received \in [Invoices -> Nat] /\ received'[i] = received[i] + n
  BY DEF Typed, TypeOK, InvoiceRow
<1>2. /\ Totals' = [Totals EXCEPT ![i] = row.total] /\ Totals[i] = row.total
      /\ Paids' = [Paids EXCEPT ![i] = row.paid] /\ Paids[i] = invoices[i].paid
      /\ Totals[i] = invoices[i].total
  BY BookSees DEF Totals, Paids
<1>3. Totals' = Totals
  BY <1>2 DEF Totals
<1>4. CASE n = 0
  <2>1. received' = received
    BY <1>1, <1>4
  <2>2. Paids' = Paids
    BY <1>1, <1>2, <1>4 DEF Paids
  <2>3. Totals' = [Totals EXCEPT ![i] = row.total] /\ Totals'[i] = row.total
    BY <1>2, <1>3
  <2> QED BY <2>1, <2>2, <2>3, PriceSays
<1>5. CASE n # 0
  <2>1. n <= Totals[i] - Paids[i]
    BY <1>1, <1>2, <1>5 DEF AtLeast0
  <2>2. Paids' = [Paids EXCEPT ![i] = @ + n]
    BY <1>2
  <2>3. n = received'[i] - received[i] /\ n > 0
    BY <1>1, <1>5
  <2> QED BY <1>3, <2>1, <2>2, <2>3, CollectSays
<1> QED BY <1>4, <1>5

LEMMA Returned ==
    ASSUME Typed, UNCHANGED received, NEW i \in Invoices, NEW n \in Nat \ {0}, NEW row,
           invoices' = [invoices EXCEPT ![i] = row],
           returned' = [returned EXCEPT ![i] = @ + n],
           row.total = invoices[i].total, row.paid = AtLeast0(invoices[i].paid - n)
    PROVE  Account!Next
<1>1. invoices[i].paid \in Nat /\ returned[i] \in Nat /\ returned'[i] = returned[i] + n
  BY DEF Typed, TypeOK, InvoiceRow
<1>2. /\ Totals' = [Totals EXCEPT ![i] = row.total] /\ Totals[i] = row.total
      /\ Paids' = [Paids EXCEPT ![i] = row.paid] /\ Paids[i] = invoices[i].paid
  <2>1. Totals' = [Totals EXCEPT ![i] = row.total] /\ Paids' = [Paids EXCEPT ![i] = row.paid]
    BY BookSees
  <2> QED BY <2>1 DEF Totals, Paids
<1>3. Totals' = Totals
  BY <1>2 DEF Totals
<1>4. row.paid = IF Paids[i] < n THEN 0 ELSE Paids[i] - n
  BY <1>1, <1>2 DEF AtLeast0
<1>5. Paids' = [Paids EXCEPT ![i] = IF @ < n THEN 0 ELSE @ - n]
  BY <1>2, <1>4
<1>6. n = returned'[i] - returned[i] /\ n > 0
  BY <1>1
<1> QED BY <1>3, <1>5, <1>6, ReturnSays

\* Each commit does to its invoice what one page of the account book says.
LEMMA ServeOnBook ==
    ASSUME Typed, Typed', Serial, NEW r \in Requests, Serve(r)
    PROVE  Account!Next \/ UNCHANGED Account!accounts
<1> DEFINE q == req[r]
           inv == q.inv
<1>0. /\ q \in RequestState /\ q.snap \in InvoiceRow /\ q.amount \in Nat
      /\ \A i \in Invoices : invoices[i] \in InvoiceRow
  BY DEF Typed, TypeOK, RequestState
<1>1. q.stage # "idle" => inv \in Invoices /\ Holds(q, invoices[inv])
  BY DEF Typed, RequestOK, Serial
<1>2. CASE CommitPayment(r)
  <2> DEFINE row == PaidRow(invoices[inv], q.snap, q.amount)
  <2>1. /\ invoices' = [invoices EXCEPT ![inv] = row] /\ inv \in Invoices
        /\ received' = [received EXCEPT ![inv] = @ + q.amount] /\ UNCHANGED returned
    BY <1>1, <1>2 DEF CommitPayment, Typed, TypeOK
  <2>2. /\ q.snap.paid = invoices[inv].paid
        /\ q.amount <= AtLeast0(invoices[inv].total - invoices[inv].paid)
    BY <1>1, <1>2 DEF CommitPayment, Holds
  <2>3. row.total = invoices[inv].total /\ row.paid = invoices[inv].paid + q.amount
    BY <1>0, <2>1, <2>2 DEF PaidRow, InvoiceRow
  <2> HIDE DEF row, q
  <2> QED BY <1>0, <2>1, <2>2, <2>3, Collected
<1>3. CASE CommitRefund(r)
  <2> DEFINE row == RefundedRow(invoices[inv], q.snap, q.amount)
  <2>1. /\ invoices' = [invoices EXCEPT ![inv] = row] /\ inv \in Invoices /\ UNCHANGED received
        /\ returned' = [returned EXCEPT ![inv] = @ + q.amount]
    BY <1>1, <1>3 DEF CommitRefund, Typed, TypeOK
  <2>2. q.snap.paid = invoices[inv].paid /\ q.amount \in Nat \ {0}
    BY <1>0, <1>1, <1>3 DEF CommitRefund, Holds
  <2>3. row.total = invoices[inv].total /\ row.paid = AtLeast0(invoices[inv].paid - q.amount)
    BY <1>0, <2>1, <2>2 DEF RefundedRow, InvoiceRow
  <2> HIDE DEF row, q
  <2> QED BY <2>1, <2>2, <2>3, Returned
<1>4. CASE CommitUpdate(r)
  <2> DEFINE row == EditedRow(invoices[inv], q.snap, q.status)
  <2>1. /\ invoices' = [invoices EXCEPT ![inv] = row] /\ inv \in Invoices
        /\ UNCHANGED <<received, returned>>
    BY <1>1, <1>4 DEF CommitUpdate
  <2>2. row.paid = invoices[inv].paid
    BY <1>0, <2>1 DEF EditedRow, InvoiceRow
  <2> HIDE DEF row, q
  <2> QED BY <2>1, <2>2, Priced
<1>5. CASE CommitVoid(r)
  <2> DEFINE row == [invoices[inv] EXCEPT !.status = "CANCELLED", !.balance = 0,
                                           !.byHand = FALSE]
  <2>1. /\ invoices' = [invoices EXCEPT ![inv] = row] /\ inv \in Invoices
        /\ UNCHANGED <<received, returned>>
    BY <1>0, <1>1, <1>5 DEF CommitVoid, Typed, TypeOK
  <2>2. row.paid = invoices[inv].paid
    BY <1>0, <2>1 DEF InvoiceRow
  <2> HIDE DEF row, q
  <2> QED BY <2>1, <2>2, Priced
<1>6. CASE ApplyLateFee(r)
  <2> DEFINE row == LateRow(invoices[inv], q.snap)
  <2>1. /\ invoices' = [invoices EXCEPT ![inv] = row] /\ inv \in Invoices
        /\ UNCHANGED <<received, returned>>
    BY <1>1, <1>6 DEF ApplyLateFee
  <2>2. row.paid = invoices[inv].paid
    BY <1>0, <2>1 DEF LateRow, InvoiceRow
  <2> HIDE DEF row, q
  <2> QED BY <2>1, <2>2, Priced
<1>7. CASE UNCHANGED <<invoices, received, returned>>
  BY <1>7 DEF Account!accounts
<1>8. \/ UNCHANGED <<invoices, received, returned>>
      \/ CommitPayment(r) \/ CommitRefund(r) \/ CommitUpdate(r) \/ CommitVoid(r) \/ ApplyLateFee(r)
  <2>1. \A i, a, g : RecordPayment(r, i, a, g) => UNCHANGED <<invoices, received, returned>>
    BY DEF RecordPayment, Books
  <2>2. \A i, g : VerifyRazorpay(r, i, g) => UNCHANGED <<invoices, received, returned>>
    BY DEF VerifyRazorpay, Books
  <2>3. \A k, a : RefundPayment(r, k, a) => UNCHANGED <<invoices, received, returned>>
    BY DEF RefundPayment, Books
  <2>4. \A i, c, late, due, s : UpdateInvoice(r, i, c, late, due, s) =>
                                   UNCHANGED <<invoices, received, returned>>
    BY DEF UpdateInvoice, Books
  <2>5. \A i : VoidInvoice(r, i) \/ ReadOverdue(r, i) => UNCHANGED <<invoices, received, returned>>
    BY DEF VoidInvoice, ReadOverdue, Books
  <2>6. CheckPayment(r) \/ CountReceipts(r) \/ GatewayRefund(r) \/ BeginRefundTx(r) \/ Abandon(r)
          => UNCHANGED <<invoices, received, returned>>
    BY DEF CheckPayment, CountReceipts, GatewayRefund, BeginRefundTx, Abandon, Books
  <2> QED BY <2>1, <2>2, <2>3, <2>4, <2>5, <2>6 DEF Serve
<1> QED BY <1>2, <1>3, <1>4, <1>5, <1>6, <1>7, <1>8

LEMMA StepOnBook ==
    ASSUME Typed, Typed', Serial, [Next]_vars
    PROVE  Account!Next \/ UNCHANGED Account!accounts
<1>1. ASSUME NEW i \in Invoices, NEW c \in Charges, CreateInvoice(i, c) PROVE Account!Next
  <2> DEFINE total == InvoiceTotal(c, 0)
             row == [NoInvoice EXCEPT !.status = "PENDING", !.charge = c,
                                      !.total = total, !.balance = total]
  <2>1. invoices' = [invoices EXCEPT ![i] = row] /\ UNCHANGED <<received, returned>>
    BY <1>1 DEF CreateInvoice
  <2>2. row.paid = invoices[i].paid
    BY <1>1 DEF CreateInvoice, NoInvoice, Serial
  <2> HIDE DEF row
  <2> QED BY <2>1, <2>2, Priced
<1>2. ASSUME NEW i \in Invoices, DueDatePasses(i) PROVE Account!Next
  <2> DEFINE row == [invoices[i] EXCEPT !.pastDue = TRUE]
  <2>1. invoices' = [invoices EXCEPT ![i] = row] /\ UNCHANGED <<received, returned>>
    BY <1>2 DEF DueDatePasses, Typed, TypeOK
  <2>2. row.paid = invoices[i].paid
    BY DEF Typed, TypeOK, InvoiceRow
  <2> HIDE DEF row
  <2> QED BY <2>1, <2>2, Priced
<1>3. ASSUME UNCHANGED <<invoices, received, returned>> PROVE UNCHANGED Account!accounts
  BY <1>3 DEF Account!accounts
<1> QED BY <1>1, <1>2, <1>3, ServeOnBook DEF Next, InitiateRazorpay, GatewayCapture, vars

\* Served one at a time, the requests do to each invoice what an account book does: what was
\* paid rises only by a positive amount within what is owed, entered as it is added, falls
\* only by an amount entered as refunded, and no edit, late fee or void touches it
\* (FeesService over fee_invoices and payments).
THEOREM ImplementsAccountBook == ASSUME OneAtATime PROVE Spec => IsAccountBook
<1>1. Init => Account!Init
  BY DEF Init, Account!Init, NoInvoice
<1>2. Spec => []Typed
  BY InitTyped, StepTyped, PTL DEF Spec
<1>3. Typed /\ Typed' /\ Serial /\ [Next]_vars => [Account!Next]_(Account!accounts)
  BY StepOnBook
<1> QED BY <1>1, <1>2, <1>3, AlwaysSerial, PTL DEF Spec, IsAccountBook, Account!Spec

-----------------------------------------------------------------------------
(* Totals: a running total exists, there is one, and it moves with each    *)
(* amount.                                                                 *)

\* A set of numbers that starts at 0 and never stops is all of them.
LEMMA UpTo ==
    ASSUME NEW n \in Nat, NEW S, 0 \in S, \A m \in 1 .. n : m - 1 \in S => m \in S
    PROVE  0 .. n \subseteq S
<1> DEFINE Left == {m \in 0 .. n : m \notin S}
<1>1. SUFFICES ASSUME Left # {} PROVE FALSE
  OBVIOUS
<1>2. PICK least \in Left : \A m \in Left : ~(<<m, least>> \in OpToRel(<, Nat))
  <2>1. Left \subseteq Nat
    OBVIOUS
  <2> HIDE DEF Left
  <2> QED BY <1>1, <2>1, NatLessThanWellFounded, WFMin
<1>3. least \in 1 .. n /\ least - 1 \in 0 .. n
  OBVIOUS
<1>4. <<least - 1, least>> \in OpToRel(<, Nat)
  BY <1>3 DEF OpToRel
<1>5. least - 1 \in S
  BY <1>2, <1>3, <1>4
<1> QED BY <1>3, <1>5

Column(f, n, s) ==
    /\ s \in [0 .. n -> Int]
    /\ s[0] = 0
    /\ \A m \in 1 .. n : s[m] = s[m - 1] + f[m]

LEMMA ColumnExists ==
    ASSUME NEW n \in Nat, NEW f, \A k \in 1 .. n : f[k] \in Int
    PROVE  \E s : Column(f, n, s)
<1> DEFINE S == {m \in 0 .. n : \E s : Column(f, m, s)}
<1>1. 0 \in S
  <2>1. Column(f, 0, [m \in 0 .. 0 |-> 0])
    BY DEF Column
  <2> QED BY <2>1
<1>2. ASSUME NEW m \in 1 .. n, m - 1 \in S PROVE m \in S
  <2>1. PICK s : Column(f, m - 1, s)
    BY <1>2
  <2> DEFINE t == [k \in 0 .. m |-> IF k = m THEN s[m - 1] + f[m] ELSE s[k]]
  <2>2. Column(f, m, t)
    BY <2>1 DEF Column
  <2> QED BY <2>2
<1> HIDE DEF S
<1>3. n \in S
  BY <1>1, <1>2, UpTo
<1> QED BY <1>3 DEF S

LEMMA ColumnUnique ==
    ASSUME NEW n \in Nat, NEW f, NEW s, NEW t, Column(f, n, s),
           DOMAIN t = 0 .. n, t[0] = 0, \A m \in 1 .. n : t[m] = t[m - 1] + f[m]
    PROVE  \A m \in 0 .. n : s[m] = t[m]
<1> DEFINE S == {m \in 0 .. n : s[m] = t[m]}
<1>1. 0 \in S
  BY DEF Column
<1>2. ASSUME NEW m \in 1 .. n, m - 1 \in S PROVE m \in S
  BY <1>2 DEF Column
<1> HIDE DEF S
<1>3. 0 .. n \subseteq S
  BY <1>1, <1>2, UpTo
<1> QED BY <1>3 DEF S

\* Any running total of the amounts ends in their Total.
LEMMA TotalIs ==
    ASSUME NEW n \in Nat, NEW f, NEW s, Column(f, n, s)
    PROVE  Total(f, n) = s[n] /\ Total(f, n) \in Int
<1> DEFINE Sums(t) == t = [m \in 0 .. n |-> IF m = 0 THEN 0 ELSE t[m - 1] + f[m]]
           sum == CHOOSE t : Sums(t)
<1>1. Sums(s)
  BY DEF Column
<1>2. Sums(sum)
  BY <1>1
<1>3. Total(f, n) = sum[n]
  BY DEF Total
<1> HIDE DEF sum
<1>4. sum[0] = 0 /\ \A m \in 1 .. n : sum[m] = sum[m - 1] + f[m]
  BY <1>2
<1>5. DOMAIN sum = 0 .. n
  BY <1>2
<1>6. s[n] = sum[n]
  BY <1>4, <1>5, ColumnUnique
<1> QED BY <1>3, <1>6 DEF Column

LEMMA TotalZero == ASSUME NEW f PROVE Total(f, 0) = 0
<1>1. Column(f, 0, [m \in 0 .. 0 |-> 0])
  BY DEF Column
<1> QED BY <1>1, TotalIs

\* Lists of the same amounts have the same total.
LEMMA TotalSame ==
    ASSUME NEW n \in Nat, NEW f, NEW g, \A k \in 1 .. n : f[k] \in Int /\ g[k] = f[k]
    PROVE  Total(g, n) = Total(f, n) /\ Total(f, n) \in Int
<1>1. PICK s : Column(f, n, s)
  BY ColumnExists
<1>2. Column(g, n, s)
  BY <1>1 DEF Column
<1> QED BY <1>1, <1>2, TotalIs

\* One more amount adds itself.
LEMMA TotalAppended ==
    ASSUME NEW n \in Nat, NEW f, NEW g, g[n + 1] \in Int,
           \A k \in 1 .. n : f[k] \in Int /\ g[k] = f[k]
    PROVE  Total(g, n + 1) = Total(f, n) + g[n + 1]
<1>1. PICK s : Column(f, n, s)
  BY ColumnExists
<1> DEFINE t == [k \in 0 .. n + 1 |-> IF k = n + 1 THEN s[n] + g[n + 1] ELSE s[k]]
<1>2. t[0] = 0 /\ t \in [0 .. n + 1 -> Int] /\ t[n + 1] = s[n] + g[n + 1]
  BY <1>1 DEF Column
<1>3. ASSUME NEW m \in 1 .. n + 1 PROVE t[m] = t[m - 1] + g[m]
  <2>1. t[m - 1] = s[m - 1]
    BY <1>3
  <2>2. CASE m = n + 1
    BY <2>1, <2>2
  <2>3. CASE m # n + 1
    <3>1. m \in 1 .. n
      BY <2>3
    <3>2. t[m] = s[m] /\ s[m] = s[m - 1] + f[m]
      BY <1>1, <2>3, <3>1 DEF Column
    <3> QED BY <2>1, <3>1, <3>2
  <2> QED BY <2>2, <2>3
<1>4. Column(g, n + 1, t)
  BY <1>2, <1>3 DEF Column
<1> HIDE DEF t
<1> QED BY <1>1, <1>2, <1>4, TotalIs

\* An amount that changes changes the total by as much.
LEMMA TotalChanged ==
    ASSUME NEW n \in Nat, NEW f, NEW g, NEW k \in 1 .. n, g[k] \in Int,
           \A m \in 1 .. n : f[m] \in Int /\ (m # k => g[m] = f[m])
    PROVE  Total(g, n) = Total(f, n) + (g[k] - f[k])
<1>1. PICK s : Column(f, n, s)
  BY ColumnExists
<1> DEFINE t == [m \in 0 .. n |-> IF m < k THEN s[m] ELSE s[m] + (g[k] - f[k])]
<1>2. t[0] = 0 /\ t \in [0 .. n -> Int] /\ t[n] = s[n] + (g[k] - f[k])
  BY <1>1 DEF Column
<1>3. ASSUME NEW m \in 1 .. n PROVE t[m] = t[m - 1] + g[m]
  <2>1. /\ t[m] = IF m < k THEN s[m] ELSE s[m] + (g[k] - f[k])
        /\ t[m - 1] = IF m - 1 < k THEN s[m - 1] ELSE s[m - 1] + (g[k] - f[k])
    OBVIOUS
  <2>2. s[m] = s[m - 1] + f[m] /\ s[m - 1] \in Int /\ s[m] \in Int /\ f[k] \in Int /\ f[m] \in Int
    BY <1>1, <1>3 DEF Column
  <2>3. m # k => g[m] = f[m]
    OBVIOUS
  <2> HIDE DEF t
  <2> QED BY <2>1, <2>2, <2>3
<1>4. Column(g, n, t)
  BY <1>2, <1>3 DEF Column
<1> HIDE DEF t
<1> QED BY <1>1, <1>2, <1>4, TotalIs

\* Of two lists, one never below the other, the totals differ by at least any one difference.
LEMMA TotalsApart ==
    ASSUME NEW n \in Nat, NEW f, NEW g, NEW k \in 1 .. n,
           \A m \in 1 .. n : f[m] \in Int /\ g[m] \in Int /\ g[m] <= f[m]
    PROVE  f[k] - g[k] <= Total(f, n) - Total(g, n)
<1>1. PICK s : Column(f, n, s)
  BY ColumnExists
<1>2. PICK t : Column(g, n, t)
  BY ColumnExists
<1> DEFINE apart(m) == IF m < k THEN 0 ELSE f[k] - g[k]
           S == {m \in 0 .. n : apart(m) <= s[m] - t[m]}
<1>3. 0 \in S
  BY <1>1, <1>2 DEF Column
<1>4. ASSUME NEW m \in 1 .. n, m - 1 \in S PROVE m \in S
  <2>1. s[m] = s[m - 1] + f[m] /\ t[m] = t[m - 1] + g[m]
    BY <1>1, <1>2 DEF Column
  <2>2. s[m - 1] \in Int /\ t[m - 1] \in Int /\ apart(m - 1) <= s[m - 1] - t[m - 1]
    BY <1>1, <1>2, <1>4 DEF Column
  <2>3. apart(m) <= apart(m - 1) + (f[m] - g[m]) /\ apart(m) \in Int /\ apart(m - 1) \in Int
    BY <1>4
  <2> HIDE DEF apart
  <2>4. apart(m) <= s[m] - t[m]
    BY <2>1, <2>2, <2>3
  <2> QED BY <2>4
<1> HIDE DEF S
<1>5. n \in S
  BY <1>3, <1>4, UpTo
<1>6. f[k] - g[k] <= s[n] - t[n]
  BY <1>5 DEF S
<1> QED BY <1>1, <1>2, <1>6, TotalIs

-----------------------------------------------------------------------------
(* The ledger net of refunds.                                              *)

AmountsOf(i) == [k \in DOMAIN payments |-> IF payments[k].inv = i THEN payments[k].amount ELSE 0]

\* What was received is on file, what is on file as refunded was returned, and the refund of
\* a payment is never more than its amount.
Net(i) ==
    /\ received[i] = Total(AmountsOf(i), Len(payments))
    /\ RefundsOnFile(i) <= returned[i]
    /\ invoices[i].paid >= received[i] - returned[i]
    /\ returned[i] = RefundsOnFile(i) => invoices[i].paid = received[i] - returned[i]

RefundsFit == \A k \in DOMAIN payments : payments[k].refund <= payments[k].amount

\* A request that refunds a payment is about its invoice and returns no more than its amount.
RefundsKnown ==
    \A r \in Requests :
        req[r].stage \in {"gateway", "refund", "refundTx"} =>
            /\ req[r].inv = payments[req[r].pay].inv
            /\ req[r].amount <= payments[req[r].pay].amount

AllNet == (\A i \in Invoices : Net(i)) /\ RefundsFit /\ RefundsKnown

LEMMA RowsTyped ==
    ASSUME Typed
    PROVE  /\ Len(payments) \in Nat /\ DOMAIN payments = 1 .. Len(payments)
           /\ \A k \in 1 .. Len(payments) :
                 /\ payments[k] \in PaymentRow
                 /\ payments[k].amount \in Nat /\ payments[k].refund \in Nat
<1>1. Len(payments) \in Nat /\ DOMAIN payments = 1 .. Len(payments)
  BY LenProperties DEF Typed, TypeOK
<1>2. \A k \in DOMAIN payments : payments[k] \in PaymentRow
  BY OwnersKnown
<1> QED BY <1>1, <1>2 DEF PaymentRow

\* The payments on file after a payment, and after a refund.
LEMMA PaymentFiled ==
    ASSUME Typed, NEW r \in Requests, CommitPayment(r)
    PROVE  LET n == Len(payments) IN
           /\ n \in Nat /\ Len(payments') = n + 1
           /\ DOMAIN payments = 1 .. n /\ DOMAIN payments' = 1 .. n + 1
           /\ \A k \in 1 .. n : payments'[k] = payments[k]
           /\ payments'[n + 1].inv = req[r].inv /\ payments'[n + 1].amount = req[r].amount
           /\ payments'[n + 1].refund = 0
<1> DEFINE q == req[r]
           p == [inv |-> q.inv, amount |-> q.amount, receipt |-> q.count + 1, gid |-> q.gid,
                 status |-> "CAPTURED", refund |-> 0]
<1>1. payments' = Append(payments, p) /\ payments \in Seq(PaymentRow)
  BY DEF CommitPayment, Typed, TypeOK
<1>2. p.inv = q.inv /\ p.amount = q.amount /\ p.refund = 0
  OBVIOUS
<1> HIDE DEF p
<1> QED BY <1>1, <1>2, LenProperties

LEMMA RefundFiled ==
    ASSUME Typed, Typed', NEW r \in Requests, CommitRefund(r)
    PROVE  LET k == req[r].pay
               n == Len(payments)
           IN  /\ n \in Nat /\ k \in 1 .. n /\ Len(payments') = n
               /\ DOMAIN payments = 1 .. n /\ DOMAIN payments' = 1 .. n
               /\ \A m \in 1 .. n : m # k => payments'[m] = payments[m]
               /\ payments'[k].inv = payments[k].inv
               /\ payments'[k].amount = payments[k].amount
               /\ payments'[k].refund = req[r].amount
<1> DEFINE k == req[r].pay
           n == Len(payments)
           status == IF req[r].amount = payments[k].amount THEN "REFUNDED" ELSE "PARTIALLY_REFUNDED"
           row == [payments[k] EXCEPT !.status = status, !.refund = req[r].amount]
<1>1. payments' = [payments EXCEPT ![k] = row] /\ k \in DOMAIN payments
  BY DEF CommitRefund, Typed, RequestOK
<1>2. n \in Nat /\ DOMAIN payments = 1 .. n /\ payments[k] \in PaymentRow
  BY <1>1, RowsTyped
<1> HIDE DEF status
<1>3. /\ row.inv = payments[k].inv /\ row.amount = payments[k].amount
      /\ row.refund = req[r].amount
  BY <1>2 DEF PaymentRow
<1> HIDE DEF row, k
<1>4. DOMAIN payments' = 1 .. n /\ payments'[k] = row
      /\ \A m \in 1 .. n : m # k => payments'[m] = payments[m]
  BY <1>1, <1>2
<1>5. Len(payments') \in Nat /\ DOMAIN payments' = 1 .. Len(payments')
  BY LenProperties DEF Typed, TypeOK
<1>6. Len(payments') = n
  BY <1>2, <1>4, <1>5
<1> QED BY <1>1, <1>2, <1>3, <1>4, <1>6 DEF k

LEMMA ListsTyped ==
    ASSUME Typed, NEW i
    PROVE  /\ \A k \in 1 .. Len(payments) :
                 /\ AmountsOf(i)[k] = IF payments[k].inv = i THEN payments[k].amount ELSE 0
                 /\ RefundsTo(i)[k] = IF payments[k].inv = i THEN payments[k].refund ELSE 0
                 /\ AmountsOf(i)[k] \in Int /\ RefundsTo(i)[k] \in Int
           /\ Total(AmountsOf(i), Len(payments)) \in Int
           /\ RefundsOnFile(i) \in Int
<1>1. \A k \in 1 .. Len(payments) :
         /\ AmountsOf(i)[k] = IF payments[k].inv = i THEN payments[k].amount ELSE 0
         /\ RefundsTo(i)[k] = IF payments[k].inv = i THEN payments[k].refund ELSE 0
  BY RowsTyped DEF AmountsOf, RefundsTo
<1>2. \A k \in 1 .. Len(payments) : AmountsOf(i)[k] \in Int /\ RefundsTo(i)[k] \in Int
  BY <1>1, RowsTyped
<1>3. Total(AmountsOf(i), Len(payments)) \in Int /\ Total(RefundsTo(i), Len(payments)) \in Int
  BY <1>2, RowsTyped, TotalSame
<1> QED BY <1>1, <1>2, <1>3 DEF RefundsOnFile

\* A step that enters and returns no money changes no account.
LEMMA NetKept ==
    ASSUME UNCHANGED <<payments, received, returned>>, NEW i, Net(i),
           invoices'[i].paid = invoices[i].paid
    PROVE  Net(i)'
BY DEF Net, RefundsOnFile, RefundsTo, AmountsOf

\* A payment adds its amount on file, to what was received and to what the invoice shows.
LEMMA PaymentNet ==
    ASSUME Typed, Typed', Serial, NEW r \in Requests, CommitPayment(r), NEW i \in Invoices, Net(i)
    PROVE  Net(i)'
<1> DEFINE q == req[r]
           n == Len(payments)
           gain == IF q.inv = i THEN q.amount ELSE 0
<1>1. /\ q.inv \in Invoices /\ q.amount \in Nat /\ q.snap.paid = invoices[q.inv].paid
      /\ q.snap.paid \in Nat /\ n \in Nat
  BY RowsTyped DEF CommitPayment, Typed, TypeOK, RequestOK, RequestState, InvoiceRow, Serial, Holds
<1>2. /\ received' = [received EXCEPT ![q.inv] = @ + q.amount] /\ returned' = returned
      /\ invoices' = [invoices EXCEPT ![q.inv] = PaidRow(@, q.snap, q.amount)]
  BY DEF CommitPayment
<1>3. /\ Len(payments') = n + 1 /\ DOMAIN payments = 1 .. n /\ DOMAIN payments' = 1 .. n + 1
      /\ \A k \in 1 .. n : payments'[k] = payments[k]
      /\ payments'[n + 1].inv = q.inv /\ payments'[n + 1].amount = q.amount
      /\ payments'[n + 1].refund = 0
  BY PaymentFiled
<1> DEFINE f == AmountsOf(i)
           g == RefundsTo(i)
           f1 == AmountsOf(i)'
           g1 == RefundsTo(i)'
<1>4. /\ f1[n + 1] = gain /\ g1[n + 1] = 0
      /\ \A k \in 1 .. n : f1[k] = f[k] /\ g1[k] = g[k] /\ f[k] \in Int /\ g[k] \in Int
  <2>1. f1[n + 1] = gain /\ g1[n + 1] = 0
    BY <1>1, <1>3 DEF AmountsOf, RefundsTo
  <2>2. \A k \in 1 .. n : f1[k] = f[k] /\ g1[k] = g[k]
    BY <1>1, <1>3 DEF AmountsOf, RefundsTo
  <2> QED BY <2>1, <2>2, ListsTyped
<1>5. gain \in Nat
  BY <1>1
<1>6. Total(f1, n + 1) = Total(f, n) + gain /\ Total(g1, n + 1) = Total(g, n) + 0
  <2> HIDE DEF f, g, f1, g1, gain, n
  <2> QED BY <1>1, <1>4, <1>5, TotalAppended
<1>7. RefundsOnFile(i)' = RefundsOnFile(i) /\ RefundsOnFile(i) \in Int /\ Total(f, n) \in Int
  <2>1. RefundsOnFile(i)' = Total(g1, n + 1) /\ RefundsOnFile(i) = Total(g, n)
    BY <1>3 DEF RefundsOnFile
  <2>2. RefundsOnFile(i) \in Int /\ Total(f, n) \in Int
    BY ListsTyped
  <2> QED BY <1>6, <2>1, <2>2
<1>8. received'[i] = received[i] + gain /\ received[i] \in Nat /\ returned[i] \in Nat
  BY <1>1, <1>2 DEF Typed, TypeOK
<1>9. invoices'[i].paid = invoices[i].paid + gain /\ invoices[i].paid \in Nat
  <2>1. invoices[i] \in InvoiceRow
    BY DEF Typed, TypeOK
  <2>2. invoices'[i] = IF q.inv = i THEN PaidRow(invoices[i], q.snap, q.amount) ELSE invoices[i]
    BY <1>1, <1>2 DEF Typed, TypeOK
  <2> QED BY <1>1, <2>1, <2>2 DEF PaidRow, InvoiceRow
<1>10. Total(AmountsOf(i), Len(payments))' = Total(f, n) + gain
  BY <1>3, <1>6
<1> HIDE DEF q, n, f, g, f1, g1, gain
<1>11. received[i] = Total(f, n)
  BY DEF Net, f, n
<1> QED BY <1>2, <1>5, <1>7, <1>8, <1>9, <1>10, <1>11 DEF Net

\* A refund within the amount of its payment is on the invoice what it is in the books.  Had
\* it been clamped at nothing, the money on file would be less than the refunds already there.
LEMMA RefundNet ==
    ASSUME Typed, Typed', Serial, AllNet, NEW r \in Requests, CommitRefund(r), NEW i \in Invoices
    PROVE  Net(i)'
<1> DEFINE q == req[r]
           k == q.pay
           n == Len(payments)
           old == payments[k].refund
           amount == payments[k].amount
           f == AmountsOf(i)
           g == RefundsTo(i)
           f1 == AmountsOf(i)'
           g1 == RefundsTo(i)'
           R == Total(f, n)
           F == Total(g, n)
           F1 == Total(g1, n)
           P == invoices[i].paid
           P1 == invoices'[i].paid
           T == returned[i]
           a == q.amount
<1>1. /\ q.inv \in Invoices /\ a \in Nat /\ q.snap.paid = invoices[q.inv].paid
      /\ q.snap.paid \in Nat /\ k \in 1 .. n /\ n \in Nat
      /\ q.inv = payments[k].inv /\ a <= amount /\ old <= amount /\ old \in Nat /\ amount \in Nat
  <2>1. /\ q.inv \in Invoices /\ a \in Nat /\ q.snap.paid = invoices[q.inv].paid
        /\ q.snap.paid \in Nat /\ k \in DOMAIN payments
    BY DEF CommitRefund, Typed, TypeOK, RequestOK, RequestState, InvoiceRow, Serial, Holds
  <2>2. q.inv = payments[k].inv /\ a <= amount /\ old <= amount
    BY <2>1 DEF AllNet, RefundsFit, RefundsKnown, CommitRefund
  <2> QED BY <2>1, <2>2, RowsTyped
<1>2. /\ Len(payments') = n /\ DOMAIN payments' = 1 .. n /\ payments'[k].refund = a
      /\ payments'[k].inv = payments[k].inv /\ payments'[k].amount = amount
      /\ \A m \in 1 .. n : m # k => payments'[m] = payments[m]
  BY <1>1, RefundFiled
<1>3. /\ \A m \in 1 .. n : f1[m] = f[m] /\ f[m] \in Int /\ g[m] \in Int /\ (m # k => g1[m] = g[m])
      /\ f[k] = (IF q.inv = i THEN amount ELSE 0) /\ g[k] = (IF q.inv = i THEN old ELSE 0)
      /\ g1[k] = IF q.inv = i THEN a ELSE 0
  <2>1. DOMAIN payments = 1 .. n
    BY RowsTyped
  <2> HIDE DEF k
  <2>2. \A m \in 1 .. n : f1[m] = f[m] /\ (m # k => g1[m] = g[m])
    BY <1>1, <1>2, <2>1 DEF AmountsOf, RefundsTo
  <2>3. g1[k] = IF q.inv = i THEN a ELSE 0
    BY <1>1, <1>2 DEF RefundsTo
  <2> QED BY <1>1, <2>2, <2>3, ListsTyped
<1>4. /\ Total(f1, n) = R /\ R \in Int /\ F \in Int
      /\ F1 = F + (g1[k] - g[k])
      /\ f[k] - g[k] <= R - F
  <2>1. \A m \in 1 .. n : g[m] <= f[m]
    BY ListsTyped, RowsTyped DEF AllNet, RefundsFit
  <2> HIDE DEF f, g, f1, g1, k, n
  <2>2. g1[k] \in Int
    BY <1>1, <1>3
  <2>3. Total(f1, n) = R /\ R \in Int /\ F \in Int
    BY <1>1, <1>3, TotalSame
  <2>4. F1 = F + (g1[k] - g[k])
    BY <1>1, <1>3, <2>2, TotalChanged
  <2>5. f[k] - g[k] <= R - F
    BY <1>1, <1>3, <2>1, TotalsApart
  <2> QED BY <2>3, <2>4, <2>5
<1>5. /\ RefundsOnFile(i) = F /\ RefundsOnFile(i)' = F1
      /\ Total(AmountsOf(i), Len(payments))' = R
  BY <1>2, <1>4 DEF RefundsOnFile
<1>6. /\ received' = received /\ received[i] = R /\ T \in Nat /\ P \in Nat
      /\ F <= T /\ P >= R - T /\ (T = F => P = R - T)
  BY <1>5 DEF AllNet, Net, CommitRefund, Typed, TypeOK, InvoiceRow
<1>7. /\ returned'[i] = IF q.inv = i THEN T + a ELSE T
      /\ P1 = IF q.inv = i THEN AtLeast0(P - a) ELSE P
  <2>1. /\ returned' = [returned EXCEPT ![q.inv] = @ + a]
        /\ invoices' = [invoices EXCEPT ![q.inv] = RefundedRow(@, q.snap, a)]
    BY DEF CommitRefund
  <2>2. returned'[i] = IF q.inv = i THEN T + a ELSE T
    BY <1>1, <2>1 DEF Typed, TypeOK
  <2>3. invoices'[i] = IF q.inv = i THEN RefundedRow(invoices[i], q.snap, a) ELSE invoices[i]
    BY <1>1, <2>1 DEF Typed, TypeOK
  <2>4. invoices[i] \in InvoiceRow
    BY DEF Typed, TypeOK
  <2> QED BY <1>1, <2>2, <2>3, <2>4 DEF RefundedRow, InvoiceRow
<1>8. /\ F1 <= returned'[i] /\ P1 >= R - returned'[i]
      /\ returned'[i] = F1 => P1 = R - returned'[i]
  <2> HIDE DEF R, F, F1, P, P1, T, a, f, g, f1, g1, old, amount, k, n, q
  <2>1. CASE q.inv = i
    <3>1. /\ f[k] = amount /\ g[k] = old /\ g1[k] = a /\ returned'[i] = T + a
          /\ P1 = AtLeast0(P - a)
      BY <1>3, <1>7, <2>1
    <3>2. F1 = F + (a - old) /\ amount - old <= R - F
      BY <1>4, <3>1
    <3>3. F1 <= T + a
      BY <1>1, <1>4, <1>6, <3>2
    <3>4. P1 >= R - (T + a)
      BY <1>1, <1>4, <1>6, <3>1 DEF AtLeast0
    <3>5. ASSUME T + a = F1 PROVE P1 = R - (T + a)
      <4>0. old \in Nat /\ a \in Nat /\ T \in Nat /\ F \in Int /\ F <= T
        BY <1>1, <1>4, <1>6
      <4>1. old = 0 /\ T = F
        BY <3>2, <3>5, <4>0
      <4>2. P = R - T /\ a <= R - F
        BY <1>1, <1>4, <1>6, <3>2, <4>1
      <4> QED BY <1>1, <1>4, <1>6, <3>1, <4>1, <4>2 DEF AtLeast0
    <3> QED BY <3>1, <3>3, <3>4, <3>5
  <2>2. CASE q.inv # i
    <3>1. F1 = F /\ returned'[i] = T /\ P1 = P
      BY <1>3, <1>4, <1>7, <2>2
    <3> QED BY <1>6, <3>1
  <2> QED BY <2>1, <2>2
<1> HIDE DEF R, F, F1, P1, f, g, f1, g1
<1>9. received'[i] = Total(AmountsOf(i), Len(payments))'
  BY <1>5, <1>6
<1> QED BY <1>5, <1>6, <1>8, <1>9 DEF Net, P1

Fits(q) ==
    q.stage \in {"gateway", "refund", "refundTx"} =>
        /\ q.pay \in DOMAIN payments
        /\ q.inv = payments[q.pay].inv
        /\ q.amount <= payments[q.pay].amount

\* A request that sets out to refund has read the payment; one that goes on keeps its figures.
LEMMA ServeFits ==
    ASSUME Typed, RefundsKnown, NEW r \in Requests, Serve(r)
    PROVE  \E q : req' = [req EXCEPT ![r] = q] /\ Fits(q)
<1>0. /\ req[r] \in RequestState /\ Fits(req[r]) /\ Fits(Idle)
  BY IdleTyped DEF Typed, TypeOK, RequestOK, RefundsKnown, Fits
<1>1. ASSUME NEW q, req' = [req EXCEPT ![r] = q], q.stage \notin {"gateway", "refund", "refundTx"}
      PROVE  \E p : req' = [req EXCEPT ![r] = p] /\ Fits(p)
  BY <1>1 DEF Fits
<1>2. ASSUME Finish(r) PROVE \E p : req' = [req EXCEPT ![r] = p] /\ Fits(p)
  BY <1>0, <1>2 DEF Finish
<1>3. ASSUME NEW i, NEW a, NEW g, RecordPayment(r, i, a, g)
      PROVE  \E p : req' = [req EXCEPT ![r] = p] /\ Fits(p)
  <2> DEFINE q == [Idle EXCEPT !.stage = "checked", !.inv = i, !.amount = a, !.gid = g,
                               !.snap = MoneyColumns(invoices[i])]
  <2>1. req' = [req EXCEPT ![r] = q] /\ q.stage = "checked"
    BY <1>3 DEF RecordPayment, Begin, Idle
  <2> HIDE DEF q
  <2> QED BY <1>1, <2>1
<1>4. ASSUME NEW i, NEW g, VerifyRazorpay(r, i, g)
      PROVE  \E p : req' = [req EXCEPT ![r] = p] /\ Fits(p)
  <2> DEFINE q == [Idle EXCEPT !.stage = "submitted", !.inv = i,
                               !.amount = invoices[i].balance, !.gid = g]
  <2>1. req' = [req EXCEPT ![r] = q] /\ q.stage = "submitted"
    BY <1>4 DEF VerifyRazorpay, Begin, Idle
  <2> HIDE DEF q
  <2> QED BY <1>1, <2>1
<1>5. CASE CheckPayment(r)
  <2> DEFINE q == [req[r] EXCEPT !.stage = "checked", !.snap = MoneyColumns(invoices[req[r].inv])]
  <2>1. req' = [req EXCEPT ![r] = q] /\ q.stage = "checked"
    BY <1>0, <1>5 DEF CheckPayment, Typed, TypeOK, RequestState
  <2> HIDE DEF q
  <2> QED BY <1>1, <2>1
<1>6. CASE CountReceipts(r)
  <2> DEFINE q == [req[r] EXCEPT !.stage = "counted", !.count = Len(payments)]
  <2>1. req' = [req EXCEPT ![r] = q] /\ q.stage = "counted"
    BY <1>0, <1>6 DEF CountReceipts, Typed, TypeOK, RequestState
  <2> HIDE DEF q
  <2> QED BY <1>1, <2>1
<1>7. ASSUME NEW k \in DOMAIN payments, NEW a, RefundPayment(r, k, a)
      PROVE  \E p : req' = [req EXCEPT ![r] = p] /\ Fits(p)
  <2> DEFINE stage == IF payments[k].gid # None THEN "gateway" ELSE "refund"
             q == [Idle EXCEPT !.stage = stage, !.inv = payments[k].inv, !.gid = payments[k].gid,
                               !.amount = a, !.pay = k]
  <2>1. req' = [req EXCEPT ![r] = q] /\ a <= payments[k].amount
    BY <1>7 DEF RefundPayment, RefundAllowed, Begin
  <2>2. q.inv = payments[k].inv /\ q.amount = a /\ q.pay = k
    BY DEF Idle
  <2> HIDE DEF q
  <2> QED BY <2>1, <2>2 DEF Fits
<1>8. CASE GatewayRefund(r)
  <2> DEFINE q == [req[r] EXCEPT !.stage = "refund"]
  <2>1. /\ req' = [req EXCEPT ![r] = q] /\ req[r].stage = "gateway"
        /\ q.inv = req[r].inv /\ q.amount = req[r].amount /\ q.pay = req[r].pay
    BY <1>0, <1>8 DEF GatewayRefund, Typed, TypeOK, RequestState
  <2> HIDE DEF q
  <2> QED BY <1>0, <2>1 DEF Fits
<1>9. CASE BeginRefundTx(r)
  <2> DEFINE q == [req[r] EXCEPT !.stage = "refundTx", !.snap = MoneyColumns(invoices[req[r].inv])]
  <2>1. /\ req' = [req EXCEPT ![r] = q] /\ req[r].stage = "refund"
        /\ q.inv = req[r].inv /\ q.amount = req[r].amount /\ q.pay = req[r].pay
    BY <1>0, <1>9 DEF BeginRefundTx, Typed, TypeOK, RequestState
  <2> HIDE DEF q
  <2> QED BY <1>0, <2>1 DEF Fits
<1>10. ASSUME NEW i, NEW c, NEW late, NEW due, NEW s, UpdateInvoice(r, i, c, late, due, s)
       PROVE  \E p : req' = [req EXCEPT ![r] = p] /\ Fits(p)
  <2> DEFINE row == [invoices[i] EXCEPT !.charge = c, !.late = late, !.pastDue = due,
                                        !.total = 0, !.balance = 0]
             q == [Idle EXCEPT !.stage = "update", !.inv = i, !.status = s, !.snap = row]
  <2>1. req' = [req EXCEPT ![r] = q] /\ q.stage = "update"
    BY <1>10 DEF UpdateInvoice, Begin, Idle
  <2> HIDE DEF q
  <2> QED BY <1>1, <2>1
<1>11. ASSUME NEW i, VoidInvoice(r, i) PROVE \E p : req' = [req EXCEPT ![r] = p] /\ Fits(p)
  <2> DEFINE q == [Idle EXCEPT !.stage = "void", !.inv = i]
  <2>1. req' = [req EXCEPT ![r] = q] /\ q.stage = "void"
    BY <1>11 DEF VoidInvoice, Begin, Idle
  <2> HIDE DEF q
  <2> QED BY <1>1, <2>1
<1>12. ASSUME NEW i, ReadOverdue(r, i) PROVE \E p : req' = [req EXCEPT ![r] = p] /\ Fits(p)
  <2> DEFINE q == [Idle EXCEPT !.stage = "sweep", !.inv = i,
                               !.snap = [NoInvoice EXCEPT !.charge = invoices[i].charge,
                                                          !.paid = invoices[i].paid]]
  <2>1. req' = [req EXCEPT ![r] = q] /\ q.stage = "sweep"
    BY <1>12 DEF ReadOverdue, Begin, Idle
  <2> HIDE DEF q
  <2> QED BY <1>1, <2>1
<1> HIDE DEF Fits
<1>13. CASE CommitPayment(r) \/ CommitRefund(r) \/ CommitUpdate(r) \/ CommitVoid(r)
            \/ ApplyLateFee(r) \/ Abandon(r)
  BY <1>2, <1>13 DEF CommitPayment, CommitRefund, CommitUpdate, CommitVoid, ApplyLateFee, Abandon
<1> QED BY <1>3, <1>4, <1>5, <1>6, <1>7, <1>8, <1>9, <1>10, <1>11, <1>12, <1>13 DEF Serve

\* No step changes the invoice or the amount of a payment on file, and every refund fits.
LEMMA FileKept ==
    ASSUME Typed, Typed', AllNet, [Next]_vars
    PROVE  /\ \A k \in DOMAIN payments : /\ k \in DOMAIN payments'
                                         /\ payments'[k].inv = payments[k].inv
                                         /\ payments'[k].amount = payments[k].amount
           /\ RefundsFit'
<1>1. CASE Quiet
  BY <1>1 DEF Quiet, AllNet, RefundsFit
<1>2. ASSUME NEW r \in Requests, CommitPayment(r)
      PROVE  /\ \A k \in DOMAIN payments : /\ k \in DOMAIN payments'
                                           /\ payments'[k].inv = payments[k].inv
                                           /\ payments'[k].amount = payments[k].amount
             /\ RefundsFit'
  <2>1. req[r].amount \in Nat
    BY DEF Typed, TypeOK, RequestState
  <2> QED BY <1>2, <2>1, PaymentFiled DEF AllNet, RefundsFit
<1>3. ASSUME NEW r \in Requests, CommitRefund(r)
      PROVE  /\ \A k \in DOMAIN payments : /\ k \in DOMAIN payments'
                                           /\ payments'[k].inv = payments[k].inv
                                           /\ payments'[k].amount = payments[k].amount
             /\ RefundsFit'
  <2>1. req[r].amount <= payments[req[r].pay].amount
    BY <1>3 DEF CommitRefund, AllNet, RefundsKnown
  <2> QED BY <1>3, <2>1, RefundFiled DEF AllNet, RefundsFit
<1> QED BY <1>1, <1>2, <1>3, QuietSteps

LEMMA KnownKept == ASSUME Typed, Typed', AllNet, [Next]_vars PROVE RefundsKnown'
<1>1. \A r \in Requests : Fits(req[r])
  BY DEF Fits, AllNet, RefundsKnown, Typed, RequestOK
<1>2. \A r \in Requests : Fits(req'[r])
  <2>1. CASE UNCHANGED req
    BY <1>1, <2>1
  <2>2. ASSUME NEW r \in Requests, Serve(r) PROVE \A s \in Requests : Fits(req'[s])
    <3>1. PICK q : req' = [req EXCEPT ![r] = q] /\ Fits(q)
      BY <2>2, ServeFits DEF AllNet
    <3> QED BY <1>1, <3>1 DEF Typed, TypeOK
  <2> QED BY <2>1, <2>2
        DEF Next, CreateInvoice, DueDatePasses, InitiateRazorpay, GatewayCapture, vars
<1> QED BY <1>2, FileKept DEF Fits, RefundsKnown

\* Apart from the two commits that move money, every step leaves the money where it is.
LEMMA MoneyKept ==
    ASSUME Typed, Serial, [Next]_vars
    PROVE  \/ /\ UNCHANGED <<payments, received, returned>>
              /\ \A i \in Invoices : invoices'[i].paid = invoices[i].paid
           \/ \E r \in Requests : CommitPayment(r) \/ CommitRefund(r)
<1> DEFINE Kept == /\ UNCHANGED <<payments, received, returned>>
                   /\ \A i \in Invoices : invoices'[i].paid = invoices[i].paid
<1>0. /\ invoices \in [Invoices -> InvoiceRow]
      /\ \A r \in Requests : req[r] \in RequestState
  BY DEF Typed, TypeOK
<1>1. ASSUME NEW i, NEW c, i \in Invoices, CreateInvoice(i, c) PROVE Kept
  BY <1>0, <1>1 DEF CreateInvoice, Serial, NoInvoice
<1>2. ASSUME NEW i, i \in Invoices, DueDatePasses(i) PROVE Kept
  BY <1>0, <1>2 DEF DueDatePasses, InvoiceRow
<1>3. ASSUME NEW r \in Requests, CommitUpdate(r) PROVE Kept
  BY <1>0, <1>3 DEF CommitUpdate, EditedRow, InvoiceRow
<1>4. ASSUME NEW r \in Requests, CommitVoid(r) PROVE Kept
  BY <1>0, <1>4 DEF CommitVoid, InvoiceRow
<1>5. ASSUME NEW r \in Requests, ApplyLateFee(r) PROVE Kept
  BY <1>0, <1>5 DEF ApplyLateFee, LateRow, InvoiceRow
<1>6. ASSUME UNCHANGED <<invoices, payments, received, returned>> PROVE Kept
  BY <1>6
<1> HIDE DEF Kept
<1>7. ASSUME NEW r \in Requests, Serve(r) PROVE Kept \/ CommitPayment(r) \/ CommitRefund(r)
  <2>1. \A i, a, g : RecordPayment(r, i, a, g) => Kept
    BY <1>6 DEF RecordPayment, Books
  <2>2. \A i, g : VerifyRazorpay(r, i, g) => Kept
    BY <1>6 DEF VerifyRazorpay, Books
  <2>3. \A k, a : RefundPayment(r, k, a) => Kept
    BY <1>6 DEF RefundPayment, Books
  <2>4. \A i, c, late, due, s : UpdateInvoice(r, i, c, late, due, s) => Kept
    BY <1>6 DEF UpdateInvoice, Books
  <2>5. \A i : VoidInvoice(r, i) \/ ReadOverdue(r, i) => Kept
    BY <1>6 DEF VoidInvoice, ReadOverdue, Books
  <2>6. CheckPayment(r) \/ CountReceipts(r) \/ GatewayRefund(r) \/ BeginRefundTx(r) \/ Abandon(r)
          => Kept
    BY <1>6 DEF CheckPayment, CountReceipts, GatewayRefund, BeginRefundTx, Abandon, Books
  <2> QED BY <1>3, <1>4, <1>5, <1>7, <2>1, <2>2, <2>3, <2>4, <2>5, <2>6 DEF Serve
<1>8. ASSUME UNCHANGED vars PROVE Kept
  BY <1>6, <1>8 DEF vars
<1>9. Kept \/ \E r \in Requests : CommitPayment(r) \/ CommitRefund(r)
  BY <1>1, <1>2, <1>6, <1>7, <1>8 DEF Next, InitiateRazorpay, GatewayCapture
<1> QED BY <1>9 DEF Kept

\* Served one at a time, however many payments, refunds, edits and late fees there are, an
\* invoice shows what was received net of what was returned: never less, and exactly that as
\* long as no refund overwrote an earlier one (applyPayment, refundPayment).
THEOREM InvoicesShowNet == ASSUME OneAtATime PROVE Spec => []LedgerIsNetOfRefunds
<1>1. Init => AllNet
  <2> SUFFICES ASSUME Init PROVE AllNet
    OBVIOUS
  <2>1. Len(payments) = 0 /\ DOMAIN payments = {}
    BY DEF Init
  <2>2. \A i \in Invoices : received[i] = 0 /\ returned[i] = 0 /\ invoices[i].paid = 0
    BY DEF Init, NoInvoice
  <2>3. \A i \in Invoices : Net(i)
    BY <2>1, <2>2, TotalZero DEF Net, RefundsOnFile
  <2>4. RefundsFit /\ RefundsKnown
    BY <2>1, IdleTyped DEF Init, RefundsFit, RefundsKnown
  <2> QED BY <2>3, <2>4 DEF AllNet
<1>2. Typed /\ Typed' /\ Serial /\ AllNet /\ [Next]_vars => AllNet'
  <2> SUFFICES ASSUME Typed, Typed', Serial, AllNet, [Next]_vars PROVE AllNet'
    OBVIOUS
  <2>1. ASSUME NEW i \in Invoices PROVE Net(i)'
    <3>1. Net(i)
      BY DEF AllNet
    <3> QED BY <3>1, MoneyKept, NetKept, PaymentNet, RefundNet
  <2> QED BY <2>1, FileKept, KnownKept DEF AllNet
<1>3. AllNet => LedgerIsNetOfRefunds
  BY DEF AllNet, Net, LedgerIsNetOfRefunds
<1>4. Spec => []Typed
  BY InitTyped, StepTyped, PTL DEF Spec
<1> QED BY <1>1, <1>2, <1>3, <1>4, AlwaysSerial, PTL DEF Spec
=============================================================================
