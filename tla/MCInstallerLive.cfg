SPECIFICATION FairSpec
CONSTANTS
    Operators = {op}
    Updaters = {upd}
    OpCommands <- NoUpdate
    Locs = {pf}
    Home = pf
    Termsrv = termsrv
    Shared = {s1}
    MaxDate = 2
    NeedsRegAdd = FALSE
    Faults <- NoFault
    MaxFaults = 0
    MaxCommands = 1
PROPERTIES
    CommandsEnd
    TermReturns
