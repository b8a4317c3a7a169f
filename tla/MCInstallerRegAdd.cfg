SPECIFICATION Spec
CONSTANTS
    Operators = {op}
    Updaters = {}
    OpCommands = {"install"}
    Locs = {pf}
    Home = pf
    Termsrv = termsrv
    Shared = {s1}
    MaxDate = 2
    NeedsRegAdd = TRUE
    Faults = {"registry"}
    MaxFaults = 1
    MaxCommands = 1
INVARIANT
    FailedInstallRestores
