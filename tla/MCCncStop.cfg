SPECIFICATION Spec
CONSTANTS
    Term = term
    um = um
    user = user
    Services <- Chain
    Below <- ChainTree
    Faults <- StopFault
    MaxFaults = 3
    MaxMeddling = 0
    MaxRestarts = 2
INVARIANTS
    TypeOK
    RunningKept
    WindowGuarded
    UpdateApart
