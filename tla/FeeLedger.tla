----------------------------- MODULE FeeLedger -----------------------------
(***************************************************************************)
(* Invoices, payments and refunds of one academy: FeesService              *)
(* (modules/fees/fees.service.ts) over the fee_invoices and payments       *)
(* tables, with the Razorpay gateway it calls.                             *)
(*                                                                         *)
(* The service handles requests concurrently.  Every handler reads the     *)
(* invoice first and writes it later, with an await in between, and the    *)
(* interactive transactions run at PostgreSQL's default READ COMMITTED     *)
(* level, so a handler is two or more actions here and `req[r].snap' is    *)
(* what it read.  Amounts are paise, cut down to small integers.           *)
(***************************************************************************)
EXTENDS Integers, Sequences, Sums

CONSTANTS
    Invoices,         \* the invoices the academy may raise
    Requests,         \* the HTTP requests the server works on at one time
    Checkouts,        \* Razorpay payment ids, one per order a client may pay
    Charges,          \* values of amountPaise - discountPaise + taxPaise
    LateFee,          \* feePlan.lateFeePaise
    PayAmounts,       \* amounts a client asks to pay or to refund
    StatusInputs,     \* input.status of updateInvoice, "KEEP" when it is absent
    MaxPayments,      \* bound: rows of the payments table
    MaxReturned,      \* bound: money refunded per invoice
    None              \* the null of a reference column

FeeStatus == {"PENDING", "PARTIAL", "PAID", "OVERDUE", "WAIVED", "CANCELLED", "REFUNDED"}
PaymentStatus == {"CAPTURED", "PARTIALLY_REFUNDED", "REFUNDED"}

ASSUME FeeAssumption ==
    /\ Charges \subseteq Int
    /\ LateFee \in Nat
    /\ PayAmounts \subseteq Nat \ {0}
    /\ StatusInputs \subseteq FeeStatus \cup {"KEEP"}
    /\ MaxPayments \in Nat
    /\ MaxReturned \in Nat
    /\ None \notin Invoices \cup Checkouts \cup Requests

VARIABLES
    invoices,   \* the fee_invoices table, "ABSENT" before createInvoice
    payments,   \* the payments table, in insertion order: rows are never deleted
    checkouts,  \* Razorpay's side: orders, captured money, refunded money
    req,        \* the requests in progress
    received,   \* history: money ever entered as payments, by invoice
    returned    \* history: money ever entered as refunds, by invoice

vars == <<invoices, payments, checkouts, req, received, returned>>

InvoiceRow == [status : FeeStatus \cup {"ABSENT"}, charge : Int, late : Nat,
               total : Nat, paid : Nat, balance : Nat, pastDue : BOOLEAN,
               byHand : BOOLEAN]  \* history: an edit was told to write the status

PaymentRow == [inv : Invoices, amount : Nat, receipt : Nat, gid : Checkouts \cup {None},
               status : PaymentStatus, refund : Nat]

Checkout == [state : {"unused", "ordered", "captured"}, amount : Nat, refunded : Nat]

Stages == {"idle", "submitted", "checked", "counted", "gateway", "refund", "refundTx",
           "update", "void", "sweep"}

RequestState == [stage : Stages, inv : Invoices \cup {None}, amount : Nat,
                 gid : Checkouts \cup {None}, pay : Nat, count : Nat,
                 snap : InvoiceRow, status : FeeStatus \cup {"KEEP"}]

NoInvoice == [status |-> "ABSENT", charge |-> 0, late |-> 0, total |-> 0,
              paid |-> 0, balance |-> 0, pastDue |-> FALSE, byHand |-> FALSE]

Idle == [stage |-> "idle", inv |-> None, amount |-> 0, gid |-> None, pay |-> 0,
         count |-> 0, snap |-> NoInvoice, status |-> "KEEP"]

NotClamped(n) == n
AtLeast0(n) == IF n < 0 THEN 0 ELSE n

\* The columns a handler that takes or returns money keeps of the row it read.
MoneyColumns(row) ==
    [NoInvoice EXCEPT !.status = row.status, !.total = row.total, !.paid = row.paid,
                      !.byHand = row.byHand]

\* money.util.ts: amount - discount + tax + late fee, never negative.
InvoiceTotal(charge, late) == AtLeast0(charge + late)

Init ==
    /\ invoices = [i \in Invoices |-> NoInvoice]
    /\ payments = <<>>
    /\ checkouts = [g \in Checkouts |-> [state |-> "unused", amount |-> 0, refunded |-> 0]]
    /\ req = [r \in Requests |-> Idle]
    /\ received = [i \in Invoices |-> 0]
    /\ returned = [i \in Invoices |-> 0]

Books == <<invoices, payments, checkouts, received, returned>>

Begin(r, fields) == req[r].stage = "idle" /\ req' = [req EXCEPT ![r] = fields]
Finish(r) == req' = [req EXCEPT ![r] = Idle]

-----------------------------------------------------------------------------
(* Raising an invoice, and the day its due date passes.                    *)

\* The count and the insert are one transaction and the number it takes is unique,
\* so an insert that succeeds counted every earlier row: one step.
CreateInvoice(i, charge) ==
    /\ invoices[i].status = "ABSENT"
    /\ LET total == InvoiceTotal(charge, 0) IN
       invoices' = [invoices EXCEPT ![i] =
           [NoInvoice EXCEPT !.status = "PENDING", !.charge = charge,
                             !.total = total, !.balance = total]]
    /\ UNCHANGED <<payments, checkouts, req, received, returned>>

DueDatePasses(i) ==
    /\ invoices[i].status # "ABSENT"
    /\ ~invoices[i].pastDue
    /\ invoices' = [invoices EXCEPT ![i].pastDue = TRUE]
    /\ UNCHANGED <<payments, checkouts, req, received, returned>>

-----------------------------------------------------------------------------
(* Taking a payment: recordPayment and verifyRazorpay both end in          *)
(* applyPayment.                                                           *)

\* applyPayment's three checks on the row it reads, before the transaction.
PayableUpToTotal(row, amount) ==
    /\ row.status \notin {"ABSENT", "PAID", "CANCELLED", "WAIVED"}
    /\ amount <= row.total
Payable(row, amount) ==
    /\ row.status \notin {"ABSENT", "PAID", "CANCELLED", "WAIVED"}
    /\ amount <= row.balance

\* recordPayment passes the client's amount and reference straight to applyPayment.
RecordPayment(r, i, amount, gid) ==
    /\ Payable(invoices[i], amount)
    /\ gid # None => checkouts[gid].state = "captured"
    /\ Begin(r, [Idle EXCEPT !.stage = "checked", !.inv = i, !.amount = amount,
                             !.gid = gid, !.snap = MoneyColumns(invoices[i])])
    /\ UNCHANGED Books

\* verifyRazorpay after a valid signature: the invoice is the one in the URL, the amount
\* is the balance it reads now, whatever the order was for, and a payment row that
\* already has this gateway id ends the request.
VerifyRazorpay(r, i, g) ==
    /\ checkouts[g].state = "captured"
    /\ invoices[i].status # "ABSENT"
    /\ \A k \in DOMAIN payments : payments[k].gid # g
    /\ Begin(r, [Idle EXCEPT !.stage = "submitted", !.inv = i,
                             !.amount = invoices[i].balance, !.gid = g])
    /\ UNCHANGED Books

\* applyPayment, called by verifyRazorpay, reads the invoice again.
CheckPayment(r) ==
    /\ req[r].stage = "submitted"
    /\ Payable(invoices[req[r].inv], req[r].amount)
    /\ req' = [req EXCEPT ![r].stage = "checked",
                           ![r].snap = MoneyColumns(invoices[req[r].inv])]
    /\ UNCHANGED Books

\* Inside the transaction: the receipt number is one more than the rows it counts.
CountReceipts(r) ==
    /\ req[r].stage = "checked"
    /\ req' = [req EXCEPT ![r].stage = "counted", ![r].count = Len(payments)]
    /\ UNCHANGED Books

\* The unique indexes on receiptNumber and gatewayPaymentId.
NoUniqueGatewayId(receipt, gid) == \A k \in DOMAIN payments : payments[k].receipt # receipt
NoUniqueReceipt(receipt, gid) ==
    gid # None => \A k \in DOMAIN payments : payments[k].gid # gid
Unique(receipt, gid) ==
    \A k \in DOMAIN payments :
        payments[k].receipt # receipt /\ (gid # None => payments[k].gid # gid)

\* The invoice applyPayment writes: paid and balance from the row it READ.
PaidRowWholeTotal(row, snap, amount) ==
    [row EXCEPT !.paid = snap.total, !.balance = 0, !.status = "PAID", !.byHand = FALSE]
PaidRow(row, snap, amount) ==
    LET paid == snap.paid + amount
        balance == AtLeast0(snap.total - paid)
    IN  [row EXCEPT !.paid = paid, !.balance = balance,
                    !.status = IF balance = 0 THEN "PAID"
                               ELSE IF paid > 0 THEN "PARTIAL" ELSE snap.status,
                    !.byHand = balance # 0 /\ paid = 0 /\ snap.byHand]

CommitPayment(r) ==
    LET q == req[r] IN
    /\ q.stage = "counted"
    /\ Len(payments) < MaxPayments
    /\ Unique(q.count + 1, q.gid)
    /\ payments' = Append(payments,
           [inv |-> q.inv, amount |-> q.amount, receipt |-> q.count + 1, gid |-> q.gid,
            status |-> "CAPTURED", refund |-> 0])
    /\ invoices' = [invoices EXCEPT ![q.inv] = PaidRow(@, q.snap, q.amount)]
    /\ received' = [received EXCEPT ![q.inv] = @ + q.amount]
    /\ Finish(r)
    /\ UNCHANGED <<checkouts, returned>>

-----------------------------------------------------------------------------
(* Refunds.                                                                *)

\* The payment is read before the gateway call and before the transaction.
RefundAllowed(row, amount) == row.status # "REFUNDED" /\ amount <= row.amount

RefundPayment(r, k, amount) ==
    /\ k \in DOMAIN payments
    /\ RefundAllowed(payments[k], amount)
    /\ returned[payments[k].inv] + amount <= MaxReturned
    /\ Begin(r, [Idle EXCEPT !.stage = IF payments[k].gid # None THEN "gateway" ELSE "refund",
                             !.inv = payments[k].inv, !.gid = payments[k].gid,
                             !.amount = amount, !.pay = k])
    /\ UNCHANGED Books

\* razorpay.refund: the gateway refuses to return more than it captured.
GatewayRefund(r) ==
    /\ req[r].stage = "gateway"
    /\ checkouts[req[r].gid].refunded + req[r].amount <= checkouts[req[r].gid].amount
    /\ checkouts' = [checkouts EXCEPT ![req[r].gid].refunded = @ + req[r].amount]
    /\ req' = [req EXCEPT ![r].stage = "refund"]
    /\ UNCHANGED <<invoices, payments, received, returned>>

\* The transaction updates the payment first, which locks its row until the commit,
\* and then reads the invoice.
BeginRefundTx(r) ==
    /\ req[r].stage = "refund"
    /\ \A s \in Requests : req[s].stage = "refundTx" => req[s].pay # req[r].pay
    /\ req' = [req EXCEPT ![r].stage = "refundTx",
                           ![r].snap = MoneyColumns(invoices[req[r].inv])]
    /\ UNCHANGED Books

RefundedRowInFull(row, snap, amount) ==
    [row EXCEPT !.paid = 0, !.balance = snap.total, !.status = "REFUNDED", !.byHand = FALSE]
RefundedRow(row, snap, amount) ==
    LET paid == AtLeast0(snap.paid - amount)
        balance == AtLeast0(snap.total - paid)
    IN  [row EXCEPT !.paid = paid, !.balance = balance,
                    !.status = IF balance = 0 THEN "PAID"
                               ELSE IF paid = 0 THEN "REFUNDED" ELSE "PARTIAL",
                    !.byHand = FALSE]

CommitRefund(r) ==
    LET q == req[r] IN
    /\ q.stage = "refundTx"
    /\ payments' = [payments EXCEPT
           ![q.pay].status = IF q.amount = payments[q.pay].amount
                             THEN "REFUNDED" ELSE "PARTIALLY_REFUNDED",
           ![q.pay].refund = q.amount]
    /\ invoices' = [invoices EXCEPT ![q.inv] = RefundedRow(@, q.snap, q.amount)]
    /\ returned' = [returned EXCEPT ![q.inv] = @ + q.amount]
    /\ Finish(r)
    /\ UNCHANGED <<checkouts, received>>

-----------------------------------------------------------------------------
(* Editing, voiding and the late-fee sweep: a read, then a write of the    *)
(* columns computed from what was read.                                    *)

\* The edited columns are merged into the copy of the row the handler holds.
UpdateInvoice(r, i, charge, late, pastDue, status) ==
    LET row == invoices[i] IN
    /\ row.status \notin {"ABSENT", "PAID"}
    /\ Begin(r, [Idle EXCEPT !.stage = "update", !.inv = i, !.status = status,
                             !.snap = [row EXCEPT !.charge = charge, !.late = late,
                                                  !.pastDue = pastDue, !.total = 0,
                                                  !.balance = 0]])
    /\ UNCHANGED Books

EditedRow(row, snap, status) ==
    LET total == InvoiceTotal(snap.charge, snap.late)
        balance == AtLeast0(total - snap.paid)
    IN  [row EXCEPT !.charge = snap.charge, !.late = snap.late, !.total = total,
                    !.balance = balance, !.pastDue = snap.pastDue,
                    !.status = IF status # "KEEP" THEN status
                               ELSE IF balance = 0 THEN "PAID"
                               ELSE IF snap.paid > 0 THEN "PARTIAL" ELSE snap.status,
                    !.byHand = \/ status # "KEEP"
                               \/ balance # 0 /\ snap.paid = 0 /\ snap.byHand]

CommitUpdate(r) ==
    /\ req[r].stage = "update"
    /\ invoices' = [invoices EXCEPT ![req[r].inv] = EditedRow(@, req[r].snap, req[r].status)]
    /\ Finish(r)
    /\ UNCHANGED <<payments, checkouts, received, returned>>

VoidableUnchecked(row) == row.status # "ABSENT"
Voidable(row) == row.status # "ABSENT" /\ row.paid = 0

VoidInvoice(r, i) ==
    /\ Voidable(invoices[i])
    /\ Begin(r, [Idle EXCEPT !.stage = "void", !.inv = i])
    /\ UNCHANGED Books

CommitVoid(r) ==
    /\ req[r].stage = "void"
    /\ invoices' = [invoices EXCEPT ![req[r].inv] =
           [@ EXCEPT !.status = "CANCELLED", !.balance = 0, !.byHand = FALSE]]
    /\ Finish(r)
    /\ UNCHANGED <<payments, checkouts, received, returned>>

\* applyLateFees reads the overdue invoices at once and writes them one by one, each from
\* its own snapshot, so each is a read and a write of its own here.
ReadOverdue(r, i) ==
    LET row == invoices[i] IN
    /\ row.status \in {"PENDING", "PARTIAL"} /\ row.pastDue /\ row.late = 0
    /\ LateFee > 0
    /\ Begin(r, [Idle EXCEPT !.stage = "sweep", !.inv = i,
                             !.snap = [NoInvoice EXCEPT !.charge = row.charge,
                                                        !.paid = row.paid]])
    /\ UNCHANGED Books

LateRowOldBalance(row, snap) ==
    [row EXCEPT !.late = LateFee, !.total = InvoiceTotal(snap.charge, LateFee),
                !.status = "OVERDUE", !.byHand = FALSE]
LateRow(row, snap) ==
    LET total == InvoiceTotal(snap.charge, LateFee) IN
    [row EXCEPT !.late = LateFee, !.total = total,
                !.balance = AtLeast0(total - snap.paid), !.status = "OVERDUE",
                !.byHand = FALSE]

ApplyLateFee(r) ==
    /\ req[r].stage = "sweep"
    /\ invoices' = [invoices EXCEPT ![req[r].inv] = LateRow(@, req[r].snap)]
    /\ Finish(r)
    /\ UNCHANGED <<payments, checkouts, received, returned>>

-----------------------------------------------------------------------------
(* Razorpay checkout, and requests that end early.                         *)

\* initiateRazorpay writes nothing here: it leaves an order at the gateway.
InitiateRazorpay(g, i) ==
    /\ checkouts[g].state = "unused"
    /\ invoices[i].balance > 0
    /\ checkouts' = [checkouts EXCEPT ![g] =
           [state |-> "ordered", amount |-> invoices[i].balance, refunded |-> 0]]
    /\ UNCHANGED <<invoices, payments, req, received, returned>>

\* The customer pays the order at the gateway.
GatewayCapture(g) ==
    /\ checkouts[g].state = "ordered"
    /\ checkouts' = [checkouts EXCEPT ![g].state = "captured"]
    /\ UNCHANGED <<invoices, payments, req, received, returned>>

\* A check throws, a unique index refuses the row (409), the gateway refuses, or the
\* process dies: the transaction rolls back and nothing more is written.
Abandon(r) ==
    /\ req[r].stage # "idle"
    /\ Finish(r)
    /\ UNCHANGED Books

Serve(r) ==
    \/ \E i \in Invoices, a \in PayAmounts, g \in Checkouts \cup {None} :
          RecordPayment(r, i, a, g)
    \/ \E i \in Invoices, g \in Checkouts : VerifyRazorpay(r, i, g)
    \/ CheckPayment(r)
    \/ CountReceipts(r)
    \/ CommitPayment(r)
    \/ \E k \in DOMAIN payments, a \in PayAmounts : RefundPayment(r, k, a)
    \/ GatewayRefund(r)
    \/ BeginRefundTx(r)
    \/ CommitRefund(r)
    \/ \E i \in Invoices :
          \* A due date moved into the past is a date kept that passes at once.
          \E c \in Charges, late \in {0, LateFee}, due \in {FALSE, invoices[i].pastDue},
             s \in StatusInputs : UpdateInvoice(r, i, c, late, due, s)
    \/ CommitUpdate(r)
    \/ \E i \in Invoices : VoidInvoice(r, i)
    \/ CommitVoid(r)
    \/ \E i \in Invoices : ReadOverdue(r, i)
    \/ ApplyLateFee(r)
    \/ Abandon(r)

Next ==
    \/ \E i \in Invoices, c \in Charges : CreateInvoice(i, c)
    \/ \E i \in Invoices : DueDatePasses(i)
    \/ \E g \in Checkouts, i \in Invoices : InitiateRazorpay(g, i)
    \/ \E g \in Checkouts : GatewayCapture(g)
    \/ \E r \in Requests : Serve(r)

Spec == Init /\ [][Next]_vars

-----------------------------------------------------------------------------
(* What holds however requests interleave.                                 *)

TypeOK ==
    /\ invoices \in [Invoices -> InvoiceRow]
    /\ payments \in Seq(PaymentRow)
    /\ checkouts \in [Checkouts -> Checkout]
    /\ req \in [Requests -> RequestState]
    /\ received \in [Invoices -> Nat]
    /\ returned \in [Invoices -> Nat]

\* Receipt numbers are handed out without a gap or a repeat, in the order the payments
\* were entered, although each transaction counts the rows before it inserts
\* (applyPayment, formatEntityCode(prefix, count + 1)).
ReceiptsInOrder == \A k \in DOMAIN payments : payments[k].receipt = k

\* One gateway payment is entered once, even when two clients verify it together or
\* an administrator enters its reference by hand while it is being verified.
GatewayPaymentRecordedOnce ==
    \A j, k \in DOMAIN payments :
        payments[j].gid = payments[k].gid /\ payments[j].gid # None => j = k

\* An invoice never shows more money paid than the receipts issued for it add up to,
\* even when payments, refunds and edits overwrite each other.
PaidWithinReceipts == \A i \in Invoices : invoices[i].paid <= received[i]

-----------------------------------------------------------------------------
(* What holds when the server works on one request at a time.              *)

\* The balance is what is left of the total, or nothing once the invoice is void.
\* docs/ARCHITECTURE.md, section 6: `balancePaise and status are re-derived inside a
\* transaction'.
BooksBalanced ==
    \A i \in Invoices :
        \/ invoices[i].balance = AtLeast0(invoices[i].total - invoices[i].paid)
        \/ invoices[i].status = "CANCELLED" /\ invoices[i].balance = 0

\* Whatever handler derived the status last - a payment, a refund, a void, the sweep or an
\* edit that names none - it says what the money says: it decides which operations are
\* open.  An edit may name any status (updateInvoice takes every FeeStatus), so it can
\* write PAID over an open balance, which no payment then settles and no edit reopens, or
\* PENDING over money paid; the property speaks again once a handler derives the status.
StatusAgrees ==
    \A i \in Invoices : LET v == invoices[i] IN ~v.byHand =>
        /\ v.status = "PAID" => v.balance = 0
        /\ v.status = "PARTIAL" => v.paid > 0 /\ v.balance > 0
        /\ v.status \in {"PENDING", "CANCELLED", "REFUNDED"} => v.paid = 0

\* An invoice never shows less than the money received net of refunds, and shows exactly
\* that as long as no payment was refunded twice: refundPayment overwrites
\* refundAmountPaise, so a second refund leaves less on file than was returned.
RefundsTo(i) == [k \in DOMAIN payments |-> IF payments[k].inv = i THEN payments[k].refund ELSE 0]
RefundsOnFile(i) == Total(RefundsTo(i), Len(payments))

LedgerIsNetOfRefunds ==
    \A i \in Invoices :
        /\ invoices[i].paid >= received[i] - returned[i]
        /\ returned[i] = RefundsOnFile(i) => invoices[i].paid = received[i] - returned[i]

-----------------------------------------------------------------------------
(* The abstract account book each invoice is meant to be.                  *)

Account == INSTANCE AccountBook WITH
    Invoices <- Invoices,
    total <- [i \in Invoices |-> invoices[i].total],
    paid <- [i \in Invoices |-> invoices[i].paid],
    entered <- received,
    refunded <- returned

\* Served one at a time, the requests do to each invoice what an account book does.
IsAccountBook == Account!Spec
=============================================================================
