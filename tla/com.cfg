\* Two CPUs, every fault.
SPECIFICATION FairSpec
CONSTANTS
    Cpus = {c1, c2}
    MaxDatagrams = 4
    Faults = {"init", "alloc", "noise"}
INVARIANTS
    TypeOK
    KnownGaps
    Backlog
PROPERTIES
    ComIsPipe
    Delivered
\* the com is closed, or something missing was used
CHECK_DEADLOCK FALSE
