\* One IN endpoint, opened three times by each half, every fault.
SPECIFICATION Spec
CONSTANTS
    i1 = i1
    o1 = o1
    InEps <- In1
    OutEps <- None
    Faults <- AllFaults
    MaxData = 4
    MaxEnables = 3
    MaxSent = 0
    MaxGadgetEnables = 3
INVARIANTS
    CreditBound
    NoGap
    AtMostOnce
\* the device may have nothing to say, the host nothing to ask
CHECK_DEADLOCK FALSE
