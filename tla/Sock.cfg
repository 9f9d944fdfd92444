\* Two threads, at most as many descriptors, names with one or two addresses, all
\* kinds of timeouts.
SPECIFICATION FairSpec
CONSTANTS
    Callers = {c1, c2}
    Fds = {f1, f2}
    SOCK_ERROR = SOCK_ERROR
    NumsOfAddrs = {1, 2}
    Timeouts <- MCTimeouts
    MaxCalls = 2
    MaxSignals = 2
INVARIANTS
    Descriptors
    Handed
    NothingLeft
PROPERTIES
    Patient
    Returns
