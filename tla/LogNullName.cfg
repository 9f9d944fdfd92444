\* "NULL filename is ok": one caller, log_reopen and a NULL name.
SPECIFICATION Spec
CONSTANTS
    Threads = {t1}
    MaxLogs = 1
    Names = {a, b}
    NULL = NULL
    Lens = {1, 2}
    KeepCounts = {}
    Triggers = {}
    Levels = {}
    Priorities = {1}
    Ops = {"open", "write", "reopen", "null_filename"}
    Kilo = 2
    UIntRange = 64
    DefaultTrigger = 4
    MaxWrites = 4
    MaxOpens = 3
    MaxSets = 2
SYMMETRY Symmetry
INVARIANTS
    NoFault
