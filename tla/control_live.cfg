\* A device that is configured and used; it may stall IN requests.
SPECIFICATION FairSpec
CONSTANTS
    a = a
    b = b
    Settings <- Alts
    EpIds <- Ids
    EpsOf <- Eps
    Requests <- Proper
    Faults <- StallFault
    MaxSetups = 4
INVARIANTS
    TypeOK
    Served
PROPERTIES
    TransfersEnd
    AcceptedIsSeen
\* the host may have nothing more to ask
CHECK_DEADLOCK FALSE
