SPECIFICATION FairSpec
CONSTANTS
    Term = term
    um = um
    user = user
    Services <- Chain
    Below <- ChainTree
    Faults <- AnyFault
    MaxFaults = 2
    MaxMeddling = 2
    MaxRestarts = 2
INVARIANTS
    SuccessIsTrue
    OwnRestored
PROPERTY
    RestartEnds
