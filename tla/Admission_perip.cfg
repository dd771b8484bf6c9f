SPECIFICATION Spec
CONSTANTS
    Request = {r1, r2, r3}
    IP = {a1}
    Gen = {g1, g2, g3, g4, g5}
    MaxSlots = 3
    None = None
SYMMETRY Symmetry
INVARIANT OneActivePerIP
