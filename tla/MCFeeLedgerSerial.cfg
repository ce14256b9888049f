\* One request at a time, and edits that write any status: the books as documented.
SPECIFICATION Spec
CONSTANTS
    None = None
    Invoices = {inv1}
    Requests = {r1}
    Checkouts = {pay1}
    Charges <- MCCharges
    PayAmounts = {1, 2}
    LateFee = 1
    StatusInputs <- MCStatusInputs
    MaxPayments = 2
    MaxReturned = 3
INVARIANTS
    BooksBalanced
    StatusAgrees
    LedgerIsNetOfRefunds
PROPERTIES
    IsAccountBook
\* The server may be idle: every request answered, every bound reached.
CHECK_DEADLOCK FALSE
