SPECIFICATION FairSpec
CONSTANTS
    MaxReqs = 4
    Preemptible = TRUE
    Aborts = TRUE
INVARIANTS
    TypeOK
    RequestsDieFirst
    OneOwner
    EpAlive
PROPERTIES
    TeardownEnds
\* the endpoint is gone, or memory was used after it was freed
CHECK_DEADLOCK FALSE
