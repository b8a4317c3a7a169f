SPECIFICATION Spec
CONSTANTS
    Operators = {op}
    Updaters = {upd}
    OpCommands <- NoUpdate
    Locs = {pf}
    Home = pf
    Termsrv = termsrv
    Shared = {s1}
    MaxDate = 2
    NeedsRegAdd = TRUE
    Faults <- AnyFault
    MaxFaults = 1
    MaxCommands = 2
INVARIANTS
    TypeOK
    DllUnmappedWhenDeleted
    ServicesRestored
    UpdateActivates
PROPERTIES
    ImplementsRegistration
