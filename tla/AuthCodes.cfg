CONSTANTS
    Request = {r1, r2}
    RedirectURI = {registered, other}
    Registered = {registered}
    Verifier = {v1, v2}
    NoForm = NoForm
    authCodeTTL = 1
    MaxCode = 2
    MaxTime = 3
    Browser = {b1}
    User = {ann, bob}
    NoCookie = NoCookie
    sessionDuration = 2
    accessTTL = 1
SPECIFICATION SessionSpec
SYMMETRY RequestSymmetry
INVARIANTS
    TypeOK
    GrantedOnce
    TokenSessionsEnd
PROPERTIES
    ExpiredStaysUnused
    ImplementsOneTimeCode
    CodesAreTheUsers
CHECK_DEADLOCK FALSE
