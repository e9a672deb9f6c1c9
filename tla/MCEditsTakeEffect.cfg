CONSTANTS
    Written <- FileConfigs
    Default <- NoFile
    Flags = {1}
    QueueMax = 2
    MaxEdits = 1
    Broken = Broken
    Missing = Missing
    None = None
    usual = usual
    other = other
SPECIFICATION Spec
PROPERTY EditsTakeEffect
\* The process ends.
CHECK_DEADLOCK FALSE
