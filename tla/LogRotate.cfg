\* One caller: rotation, log_reopen, a change of name, streams of the client,
\* failing fopens.
SPECIFICATION Spec
CONSTANTS
    Threads = {t1}
    MaxLogs = 1
    Names = {a, b}
    NULL = NULL
    Lens = {1, 2}
    KeepCounts = {1}
    Triggers = {0, 1}
    Levels = {}
    Priorities = {1}
    Ops = {"open", "open_file", "close", "write", "write_direct", "trigger", "set_filename", "reopen", "flush"}
    Kilo = 2
    UIntRange = 64
    DefaultTrigger = 4
    MaxWrites = 4
    MaxOpens = 4
    MaxSets = 2
SYMMETRY Symmetry
INVARIANTS
    TypeOK
    NoFault
    SizeCovers
PROPERTIES
    RotatesInTime
