CONSTANTS
    Star = "*"
    BadOwners = {}
    Words <- MCWords
    IPv4 <- V4
    IPv6 <- V6
    Colons <- WithColons
    Numeral <- Numerals
    NameOrder <- Order
    LabelsOf <- MCLabelsOf
    Situations <- MCSituations
    Edits <- MCEdits
    Bytes <- MCBytes
    MaxChunk = 2
    QueryServers <- MCQueryServers
    Error = Error
    Unset = Unset
    None = None
SPECIFICATION Spec
INVARIANTS
    TypeOK
    ImportLoads
    ImportKeepsRecords
    GeneratedFilesServe
    CheckShowsWhatIsServed
    ValidAloneValidTogether
    ExactRecordFlagWins
    LoggedServersParseBack
    TcpAsksTheSameServer
    StrictSpellingIsTheSame
    TxtKeepsItsText
\* The session ends.
CHECK_DEADLOCK FALSE
