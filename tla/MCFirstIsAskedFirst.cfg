CONSTANTS
    Exchanges = {e1, e2, e3}
    N = 3
    UDP = {0, 1}
    IntMax = 3
    None = None
    Failed = Failed
SPECIFICATION Spec
INVARIANT FirstIsAskedFirst
CHECK_DEADLOCK FALSE
