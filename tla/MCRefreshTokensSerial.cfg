\* One request at a time, abandoned anywhere: what rotation promises.
SPECIFICATION Spec
CONSTANTS
    Requests = {r1}
    MaxTokens = 4
    MaxSessions = 2
    MaxPasswords = 1
INVARIANTS
    TypeOK
    OneLiveTokenPerFamily
    ReuseEndsFamily
    OldPasswordLockedOut
PROPERTY IsTokenChain
\* The server may be idle: every request answered, every bound reached.
CHECK_DEADLOCK FALSE
