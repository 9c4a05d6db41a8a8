SPECIFICATION Spec
CONSTANTS
    Threads = {t1}
    Callers = {c1, c2}
    MaxActions = 3
    MaxPanics = 2
INVARIANTS
    PanicStopsActions
    PanickedPageNotReused
\* A run ends with its threads detached.
CHECK_DEADLOCK FALSE
