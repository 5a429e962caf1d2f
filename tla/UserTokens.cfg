CONSTANTS
    Request = {r1, r2}
    Name = {alice, bob}
    NoName = NoName
    SeedNames = {bob}
    MaxUser = 2
    MaxToken = 2
SPECIFICATION Spec
SYMMETRY RequestSymmetry
INVARIANTS
    TypeOK
    StoredTokensHaveUsers
    RevocationIsFinal
    StoredTokensAuthenticate
CHECK_DEADLOCK FALSE
