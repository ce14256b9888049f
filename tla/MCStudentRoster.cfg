\* Two requests overlap: admissions, seats of a batch with one place, attendance.
SPECIFICATION Spec
CONSTANTS
    None = None
    Requests = {r1, r2}
    Batches = {b1}
    Capacity = 1
    MaxStudents = 2
    MaxMarks = 2
SYMMETRY Symmetry
INVARIANTS
    QrFindsOnlyItsStudent
    OneMarkPerBatch
    CapacityOverrunBounded
\* The office may be idle: every request answered, every bound reached.
CHECK_DEADLOCK FALSE
