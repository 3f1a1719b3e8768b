\* An endpoint of each direction; the device may stall, nothing else goes wrong.
SPECIFICATION FairSpec
CONSTANTS
    i1 = i1
    o1 = o1
    InEps <- In1
    OutEps <- Out1
    Faults <- StallFault
    MaxData = 2
    MaxEnables = 2
    MaxSent = 2
    MaxGadgetEnables = 2
INVARIANTS
    TypeOK
    StillListening
PROPERTIES
    InDelivered
    PollResumes
    OutDelivered
\* the device may have nothing to say, the host nothing to ask
CHECK_DEADLOCK FALSE
