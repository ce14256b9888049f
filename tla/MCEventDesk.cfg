\* Two requests overlap: two parents, two students, an event with one place.
SPECIFICATION Spec
CONSTANTS
    Requests = {r1, r2}
    Parents = {p1, p2}
    Students = {s1, s2}
    Events = {e1}
    EventRows <- MCEventRows
SYMMETRY Symmetry
INVARIANTS
    OnePrimaryPerRequest
    BookedWithinRequests
PROPERTIES
    RemovedParentGainsNoChild
\* The desk may be idle.
CHECK_DEADLOCK FALSE
