\* Two requests overlap: one academy, two branches, three users for one seat.
SPECIFICATION Spec
CONSTANTS
    Requests = {r1, r2}
    Branches = {b1, b2}
    Headquarters = b1
    Users = {u1, u2, u3}
    SeatLimits = {1}
SYMMETRY Symmetry
INVARIANTS
    OnePrimaryUnlessRaced
    SeatsWithinRequests
PROPERTIES
    ClosedForGood
\* The database may be idle: no request is under way.
CHECK_DEADLOCK FALSE
