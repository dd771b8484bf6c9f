SPECIFICATION PollSpec
CONSTANTS
    Caller = {c1, c2}
    Key = {k1}
    Gen = {g1, g2}
    Burst = 2
    Cost = 2
    PerTick = 1
    StaleAfter = 4
    None = None
INVARIANTS
    TypeOK
    NeverOverdrawn
    BucketExact
PROPERTIES
    PollerServed
