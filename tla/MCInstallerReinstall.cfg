SPECIFICATION Spec
CONSTANTS
    Operators = {op}
    Updaters = {}
    OpCommands = {"install", "uninstall"}
    Locs = {pf}
    Home = pf
    Termsrv = termsrv
    Shared = {s1}
    MaxDate = 2
    NeedsRegAdd = FALSE
    Faults = {"reboot"}
    MaxFaults = 1
    MaxCommands = 2
INVARIANT
    TaskHasProgram
