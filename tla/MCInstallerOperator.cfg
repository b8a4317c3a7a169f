SPECIFICATION Spec
CONSTANTS
    Operators = {op}
    Updaters = {}
    OpCommands <- NoUpdate
    Locs = {pf, sys}
    Home = pf
    Termsrv = termsrv
    Shared = {s1}
    MaxDate = 2
    NeedsRegAdd = FALSE
    Faults <- HarmfulFault
    MaxFaults = 2
    MaxCommands = 3
INVARIANTS
    WrapperResolvable
    InstallComplete
    RollbackRestores
    UninstallComplete
    NoDuplicateRules
