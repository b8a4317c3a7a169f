SPECIFICATION FairSpec
CONSTANTS
    Threads = {main, worker, rpc}
    NoThread = NoThread
    Versions = {"6.0", "6.2"}
    Width = 2
    ModuleSize = 3
    JumpSize = 2
    MaxPatch = 2
    Faults = {"config", "library", "version", "snapshot", "open", "slc", "read", "write", "restore"}
    MaxFaults = 1
    MaxQueries = 2
INVARIANTS TypeOK FrozenWhileWriting NoThreadLeft WritesInside StubBack
PROPERTY HookEnds
CHECK_DEADLOCK FALSE
