\* Two requests of the same user overlap: two tabs, two devices, a logout and a refresh.
SPECIFICATION Spec
CONSTANTS
    Requests = {r1, r2}
    MaxTokens = 3
    MaxSessions = 2
    MaxPasswords = 1
SYMMETRY Symmetry
INVARIANTS
    ChainsRunForward
PROPERTY DeadFamiliesStayDead
CHECK_DEADLOCK FALSE
