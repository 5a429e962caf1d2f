CONSTANTS
    Request = {r1, r2}
    Main = Main
    account = account
    contact = contact
    extra = extra
    Id = {account, contact, extra}
    NTypes = 2
    objectType <- TypeOfRecord
    Seed = {account, contact}
    Scenario = {extra}
SPECIFICATION Spec
SYMMETRY RequestSymmetry
INVARIANTS
    TypeOK
    SeedServed
    ResetRestores
