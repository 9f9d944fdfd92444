\* Three threads and the C library gives every thread a handle of its own.
SPECIFICATION FairSpec
CONSTANTS
    Threads = {main, t1, t2}
    Main = main
    Handles = {h0, h1, h2}
    NoThread = NoThread
    NoHandle = NoHandle
    HandleReuse = FALSE
    MaxInits = 1
    MaxCalls = 0
PROPERTIES
    EventuallyReaped
