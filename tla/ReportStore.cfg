SPECIFICATION FairSpec
CONSTANTS
    Promoter = {p1, p2}
    Id = {i1, i2}
    MaxActive = 1
    TTL = 1
    ReadsFail = TRUE
    None = None
INVARIANTS
    TypeOK
    CounterCoversReports
    NoLeakedSlot
    AckedReadable
PROPERTIES
    LinksImplemented
    CapacityReclaimed
