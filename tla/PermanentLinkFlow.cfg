SPECIFICATION FairFlowSpec
CONSTANTS
    Id = {i1, i2, i3}
    MaxSize = 2
    TTL = 1
    Client = {c1, c2}
    Link = {l1}
    LinkTTL = 1
    None = None
INVARIANTS
    FlowTypeOK
    LostOnlyToACrowd
    LinkOpensResult
PROPERTIES
    MissingForAReason
    CacheUndisturbed
    Forgotten
