SPECIFICATION FairSpec
CONSTANTS
    Request = {r1, r2, r3}
    IP = {a1}
    Gen = {g1, g2, g3}
    MaxSlots = 2
    None = None
INVARIANTS
    TypeOK
    SlotsMatchRequests
    NoStrandedToken
    ExclusiveUnlessRaced
PROPERTY BusyClears
