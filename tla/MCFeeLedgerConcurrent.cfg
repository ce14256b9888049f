\* Two requests overlap on one invoice, with every edit of its charge, late fee and due
\* date; an edit that names a status writes the same columns otherwise.
SPECIFICATION Spec
CONSTANTS
    None = None
    Invoices = {inv1}
    Requests = {r1, r2}
    Checkouts = {pay1}
    Charges = {1}
    PayAmounts = {1}
    LateFee = 1
    StatusInputs = {"KEEP"}
    MaxPayments = 2
    MaxReturned = 1
SYMMETRY Symmetry
INVARIANTS
    TypeOK
    ReceiptsInOrder
    GatewayPaymentRecordedOnce
    PaidWithinReceipts
\* The server may be idle: every request answered, every bound reached.
CHECK_DEADLOCK FALSE
