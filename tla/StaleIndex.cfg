CONSTANTS
    Type <- Types
    Id = {i1, i2}
    Field <- References
    Value = {v1, v2}
    Absent = Absent
    indexedFields <- Indexed
    Fold <- LowerCase
    Call = {c1, c2}
    NoCall = NoCall
SPECIFICATION StoresSpec
SYMMETRY StoreSymmetry
INVARIANT
    IndexSound
