\* Two tabs with two requests between them, over a network that loses messages.
SPECIFICATION FairBrowserSpec
CONSTANTS
    Tabs = {t1, t2}
    Calls = {c1, c2}
    MaxPairs = 2
INVARIANTS
    NoFalseReuse
PROPERTIES
    CallsSettle
    LoginsAreTokenChains
\* The browser may be idle: every request settled, every bound reached.
CHECK_DEADLOCK FALSE
