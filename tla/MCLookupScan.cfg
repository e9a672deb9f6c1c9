CONSTANTS
    Star <- MCStar
    Labels <- MCLabels
    Types <- MCTypes
    Type <- MCType
    Names <- MCNames
    Stores <- MCStores
SPECIFICATION Spec
INVARIANTS
    TypeOK
    ReturnsTheWinners
    ExactBeatsWildcard
    MatchesWhatIsWritten
PROPERTY ScanReturns
CHECK_DEADLOCK FALSE
