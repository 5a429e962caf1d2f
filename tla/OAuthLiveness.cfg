CONSTANTS
    Request = {r1, r2}
    MaxToken = 5
    Rotation = TRUE
SPECIFICATION FairSpec
PROPERTIES
    EveryGrantAnswers
CHECK_DEADLOCK FALSE
