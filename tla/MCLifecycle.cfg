CONSTANTS
    N = 3
    MaxInFlight = 2
SPECIFICATION Spec
INVARIANTS
    TypeOK
    BindFailureServesNothing
    ReturnMeansDrained
    SendersNeverBlock
PROPERTY StopsOnceUp
\* Start returns.
CHECK_DEADLOCK FALSE
