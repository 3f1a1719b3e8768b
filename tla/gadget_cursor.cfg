SPECIFICATION Spec
CONSTANTS
    MaxReqs = 4
    Preemptible = TRUE
    Aborts = FALSE
INVARIANTS
    CursorAlive
\* the endpoint is gone, or memory was used after it was freed
CHECK_DEADLOCK FALSE
