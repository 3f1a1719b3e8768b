SPECIFICATION FairSpec
CONSTANTS
    MaxReqs = 3
INVARIANTS
    TypeOK
    OnlyLateOnesSurvive
    OneOwner
    EpAlive
PROPERTIES
    TeardownEnds
\* the endpoint is gone, or memory was used after it was freed
CHECK_DEADLOCK FALSE
