CONSTANTS
    Exchanges = {e1, e2, e3}
    N = 3
    UDP = {0, 1}
    IntMax = 3
    None = None
    Failed = Failed
SPECIFICATION Spec
INVARIANTS
    TypeOK
    PanicsOnlyPastIntMax
    LoadIsSpread
PROPERTIES
    CutOnlyAfterTCP
    FailsOver
    EveryExchangeEnds
\* Exchanges are calls that return, and a panic ends the process.
CHECK_DEADLOCK FALSE
