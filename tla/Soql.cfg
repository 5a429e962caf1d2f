CONSTANTS
    c1 = c1
    c2 = c2
    c3 = c3
    p1 = p1
    p2 = p2
    Statement <- Statements
    Draft <- Chains
    Alphabet <- Pieces
    MaxEdits = 1
    Parent <- Folks
    Child <- Kids
    ChildRecord <- ChildRecords
    ParentName <- FolkNames
    Request <- Requests
    Selects <- buildFilter
    Printed <- Words
    PrintedFloat <- FloatWords
    Rank <- RankOf
    DayOf <- DaySpelled
    LiteralValue <- Literals
    MaxWrites = 1
    FirstDay = 1500
    LastDay = 2970
    MaxN = 3
SPECIFICATION MCSpec
SYMMETRY KidSymmetry
CHECK_DEADLOCK FALSE
INVARIANTS
    TypeOK
    ReadsBack
    PagesPartition
    ReadsAgree
    GroupsAccount
    FilterDivides
    UnitsTile
