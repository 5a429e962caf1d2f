CONSTANTS
    NAccounts = 2
    Profile = {"Enterprise", "Mid-Market"}
    Limits = {2, 3}
    Batches = {1, 2}
    MaxEvent = 3
SPECIFICATION Spec
CONSTRAINT FewCases
INVARIANTS
    TypeOK
    CasesComplete
    LinkedBothWays
    StepsCover
    ResetNeverRefused
CHECK_DEADLOCK FALSE
