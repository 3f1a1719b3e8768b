\* Every request and every fault; datagrams overtake each other between
\* transfers without data that do not reconfigure.
SPECIFICATION Spec
CONSTANTS
    a = a
    b = b
    Settings <- Alts
    EpIds <- Ids
    EpsOf <- Eps
    Requests <- Anything
    Faults <- AllFaults
    MaxSetups = 3
ACTION_CONSTRAINTS
    OvertakesSimple
INVARIANTS
    AnswersMatch
    DeviceOrder
\* the host may have nothing more to ask
CHECK_DEADLOCK FALSE
