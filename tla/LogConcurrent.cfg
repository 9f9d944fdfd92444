\* Two callers on a table of two logs: opening, closing, writing, keeping lines
\* in memory and rotation by size race.
SPECIFICATION Spec
CONSTANTS
    Threads = {t1, t2}
    MaxLogs = 2
    Names = {a, b}
    NULL = NULL
    Lens = {1}
    KeepCounts = {1, 2}
    Triggers = {0, 1}
    Levels = {0, 2}
    Priorities = {0, 1}
    Ops = {"open", "close", "write", "keep", "trigger", "level", "set_filename", "flush", "contents"}
    Kilo = 2
    UIntRange = 64
    DefaultTrigger = 2
    MaxWrites = 3
    MaxOpens = 3
    MaxSets = 2
SYMMETRY Symmetry
INVARIANTS
    NoFault
    SlotExclusive
    Bookkeeping
    KeptAreLatest
