SPECIFICATION Spec
CONSTANTS
    MaxReqs = 4
    Preemptible = FALSE
    Aborts = FALSE
INVARIANTS
    DescAlive
\* the endpoint is gone, or memory was used after it was freed
CHECK_DEADLOCK FALSE
