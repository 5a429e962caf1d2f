CONSTANTS
    j1 = j1
    j2 = j2
    Job = {j1, j2}
    Empty = Empty
    Wanted <- Calls
    MaxWait = 2
    MaxRetries = 3
    LastSecond = 1
    Runner = {r1, r2}
    ann = ann
    bea = bea
    tom = tom
    Persona = {ann, bea, tom}
    PersonaLists <- Lists
    Traits <- Looks
    Torn = Torn
    MaxRuns = 3
    Caller = {a1, a2}
    q1 = q1
    q2 = q2
    q3 = q3
    Prompt = {q1, q2, q3}
    LanguageModel = {g1}
    Similarity <- Near
    NoReply = NoReply
SPECIFICATION MCSpec
CHECK_DEADLOCK FALSE
INVARIANTS
    TypeOK
    SavedIsOwn
    PhotosKept
    HitsServe
PROPERTIES
    EveryCallReturns
