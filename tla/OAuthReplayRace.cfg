CONSTANTS
    Request = {r1, r2}
    MaxToken = 7
    Rotation = TRUE
SPECIFICATION Spec
SYMMETRY RequestSymmetry
INVARIANTS
    RevokedFamilyStaysDead
CHECK_DEADLOCK FALSE
