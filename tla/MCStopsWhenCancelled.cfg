CONSTANTS
    N = 2
    MaxInFlight = 1
SPECIFICATION Spec
PROPERTY StopsWhenCancelled
\* Start returns.
CHECK_DEADLOCK FALSE
