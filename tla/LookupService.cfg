SPECIFICATION MCSpec
CONSTANTS
    Width = 2
    Contents <- MCContents
    Decodable <- MCDecodable
    BadCIDR = BadCIDR
    ASN = {1, 2}
    MaxRoutes = 2
    MaxTime = 1
    Torn = Torn
    Files <- MCFiles
    LineText <- MCLineText
    Record <- MCRecord
    ReadMax = 4
    Questions <- MCQuestions
    MaxTargets = 2
    None = None
INVARIANTS
    ServiceTypeOK
    NothingHidden
    RoutesGiven
    AllOrNothing
    GeoAnswers
    SaidInTime
    QueriesAgree
PROPERTIES
    AlwaysServed
    NewestServed
