\* A send to userland may fail.
SPECIFICATION Spec
CONSTANTS
    i1 = i1
    o1 = o1
    InEps <- None
    OutEps <- Out1
    Faults <- SendFault
    MaxData = 0
    MaxEnables = 1
    MaxSent = 2
    MaxGadgetEnables = 1
INVARIANTS
    StillListening
\* the device may have nothing to say, the host nothing to ask
CHECK_DEADLOCK FALSE
