\* Two requests overlap on one account with three attempts and two links.
SPECIFICATION Spec
CONSTANTS
    Requests = {r1, r2}
    Accounts = {a1}
    MaxLoginAttempts = 3
    StatusInputs = {"ACTIVE", "SUSPENDED"}
    MaxLinks = 2
    MaxFailures = 4
SYMMETRY Symmetry
INVARIANTS
    TypeOK
    LinkWithinRequests
    GuessesBounded
PROPERTIES
    StatusIsTheAdministrators
\* The server may be idle.
CHECK_DEADLOCK FALSE
