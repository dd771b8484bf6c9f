SPECIFICATION Spec
CONSTANTS
    Promoter = {p1, p2}
    Id = {i1, i2, i3}
    MaxActive = 2
    TTL = 2
    ReadsFail = FALSE
    None = None
SYMMETRY Symmetry
INVARIANT CapOnDisk
