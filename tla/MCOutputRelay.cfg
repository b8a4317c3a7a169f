SPECIFICATION FairSpec
CONSTANTS
    Length = 4
    Capacity = 3
    PipeSize = 5
    Given <- MCGiven
    Pid <- MCPid
    PipeName <- MCPipeName
    Faults = {"pipe", "refused", "event", "wait", "read", "show", "open", "kill"}
    MaxFaults = 2
INVARIANTS
    TypeOK
    Faithful
    AllForwarded
    ExitFollowsChild
    ArgumentsArrive
PROPERTY
    RelayEnds
