CONSTANTS
    Written <- FileConfigs
    Default <- NoFile
    Flags = {1, None}
    QueueMax = 2
    MaxEdits = 3
    Broken = Broken
    Missing = Missing
    None = None
    usual = usual
    other = other
SPECIFICATION Spec
INVARIANTS
    TypeOK
    RestartIsCalledFor
PROPERTIES
    RecordsStayInPlace
    NoticedChangesAreServed
\* The process ends.
CHECK_DEADLOCK FALSE
