\* An IN endpoint or an OUT endpoint, every fault but reordering.
SPECIFICATION Spec
CONSTANTS
    i1 = i1
    o1 = o1
    InEps <- In1
    OutEps <- Out1
    Faults <- FifoFaults
    MaxData = 3
    MaxEnables = 3
    MaxSent = 3
    MaxGadgetEnables = 3
CONSTRAINTS
    OneInUse
INVARIANTS
    OneListener
PROPERTIES
    InIsPipe
    OutIsPipe
\* the device may have nothing to say, the host nothing to ask
CHECK_DEADLOCK FALSE
