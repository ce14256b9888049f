\* Two requests overlap: one item, two orders of one or two pieces, cancellations.
SPECIFICATION Spec
CONSTANTS
    Requests = {r1, r2}
    Items = {i1}
    Levels = {2}
    Deltas <- MCDeltas
    MaxQuantity = 2
    StatusInputs = {"PENDING", "CANCELLED"}
    MaxOrders = 2
    MaxStock = 2
    MaxReopened = 1
SYMMETRY Symmetry
INVARIANTS
    OversoldWithinRequests
    RestockedPerReopening
    StockAccounted
\* The store may be idle: every request answered, every bound reached.
CHECK_DEADLOCK FALSE
