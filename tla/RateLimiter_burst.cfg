SPECIFICATION Spec
CONSTANTS
    Caller = {c1, c2}
    Key = {k1}
    Gen = {g1, g2, g3}
    Burst = 2
    Cost = 2
    PerTick = 1
    StaleAfter = 4
    None = None
SYMMETRY Symmetry
INVARIANT BurstRespected
