SPECIFICATION Spec
CONSTANTS
    Operators = {op}
    Updaters = {upd}
    OpCommands = {"uninstall"}
    Locs = {pf}
    Home = pf
    Termsrv = termsrv
    Shared = {s1}
    MaxDate = 2
    NeedsRegAdd = FALSE
    Faults <- NoFault
    MaxFaults = 0
    MaxCommands = 1
INVARIANT
    UninstallComplete
