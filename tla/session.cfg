\* Every mishap, one kind of them in a behaviour.
SPECIFICATION FairSpec
CONSTANTS
    Devices <- Both
    Description <- Described
    Mishaps <- OneMishap
    MaxPlugs = 1
    MaxCommands = 2
INVARIANTS
    TypeOK
    SessionIsReal
    EndpointsGone
    RegisteredIsTrue
    
    UnloadedIsGone
PROPERTIES
    Converges
\* the module may be unloaded
CHECK_DEADLOCK FALSE
