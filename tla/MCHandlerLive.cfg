CONSTANTS
    Queries = {q1, q2}
    None = None
    Failed = Failed
    Lost = Lost
    ip1 = ip1
    ip2 = ip2
    txt = txt
    rr1 = rr1
    rr2 = rr2
    UDPLimit = 2
    MaxCNAMEDepth = 3
    Star <- MCStar
    Labels <- MCLabels
    Types <- MCTypes
    Data <- MCData
    BadOwners <- MCBadOwners
    Configs <- FewConfigs
    Requests <- FewRequests
    Replies <- FewReplies
SPECIFICATION Spec
PROPERTY EveryQueryEnds
